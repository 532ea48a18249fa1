----------------------------- MODULE MCThreadPool ----------------------------
(* Instances of ThreadPool for TLC: up to four workers, three runnables.       *)
EXTENDS ThreadPool

CONSTANTS t1, t2, t3, t4, r1, r2, r3
==============================================================================
