----------------------------- MODULE RemoteCall ------------------------------
(***************************************************************************)
(* What calls through proxies promise, whatever queues they go through: a  *)
(* method is called once for each call; a synchronous call ends after its  *)
(* method has returned, and an asynchronous one leaves nothing behind when *)
(* its method has.                                                         *)
(***************************************************************************)
CONSTANT Calls
VARIABLE phase

Moves(c, from, to) == phase[c] = from /\ phase' = [phase EXCEPT ![c] = to]

Init == phase = [c \in Calls |-> "idle"]

\* Synchronous calls.
Call(c) == Moves(c, "idle", "called")
Begin(c) == Moves(c, "called", "running")
Return(c) == Moves(c, "running", "returned")
End(c) == Moves(c, "returned", "ended")

\* Asynchronous calls.
Send(c) == Moves(c, "idle", "sent")
Act(c) == Moves(c, "sent", "acting")
Done(c) == Moves(c, "acting", "ended")

Next == \E c \in Calls : Call(c) \/ Begin(c) \/ Return(c) \/ End(c) \/ Send(c) \/ Act(c) \/ Done(c)
Spec == Init /\ [][Next]_phase
==============================================================================
