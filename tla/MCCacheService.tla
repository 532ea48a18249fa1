--------------------------- MODULE MCCacheService ----------------------------
(* An instance of CacheService for TLC.                                       *)
EXTENDS CacheService, TLC

CONSTANTS r1, r2, r3, e1, e2, e3, k1, k2

Ask(key, access, mode, dooms) == [key |-> key, access |-> access, mode |-> mode, doomsExpired |-> dooms]

\* One request to write k1, one that waits for it, one that may refuse to wait, read, or doom.
MCArguments ==
    (r1 :> {Ask(k1, ACCESS_READ_WRITE, "async", FALSE)}) @@
    (r2 :> {Ask(k1, ACCESS_READ_WRITE, "blocking", FALSE), Ask(k1, ACCESS_READ, "blocking", FALSE)}) @@
    (r3 :> {Ask(k1, ACCESS_READ, "async", FALSE), Ask(k1, ACCESS_READ_WRITE, "nonblocking", TRUE),
            Ask(k1, ACCESS_WRITE, "async", FALSE), Ask(k2, ACCESS_WRITE, "async", FALSE)})
==============================================================================
