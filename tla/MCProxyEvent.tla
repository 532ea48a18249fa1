---------------------------- MODULE MCProxyEvent -----------------------------
(* An instance of ProxyEvent for TLC: the user interface's thread, which has a *)
(* native event loop, and another, which is a worker that has a queue only     *)
(* while it waits or a thread in an event loop of its own.                     *)
EXTENDS ProxyEvent

CONSTANTS ui, other
==============================================================================
