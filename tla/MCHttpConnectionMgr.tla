------------------------ MODULE MCHttpConnectionMgr --------------------------
(* An instance of HttpConnectionMgr for TLC: three transactions, of which the  *)
(* first and the last go to one host and ask for keep-alive.                   *)
EXTENDS HttpConnectionMgr

CONSTANTS near, far

ToNearFarNear == <<near, far, near>>
==============================================================================
