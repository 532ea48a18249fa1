----------------------------- MODULE ByteChannel -----------------------------
(***************************************************************************)
(* What a pipe promises, whatever its buffer looks like: a bounded channel *)
(* that hands the bytes written at one end to the other end, in order and  *)
(* each once, until it is closed.  A byte is named by its position in the  *)
(* stream of bytes written, so byte k is the (k+1)-st one sent.            *)
(***************************************************************************)
EXTENDS Naturals, Sequences

CONSTANT Capacity       \* bytes the channel holds at most

VARIABLES
    chan,               \* the bytes in the channel, the next one to deliver first
    sent,               \* how many bytes were ever put in
    open                \* FALSE once either end was closed

chanVars == <<chan, sent, open>>

ChanInit ==
    /\ chan = <<>>
    /\ sent = 0
    /\ open = TRUE

\* n more bytes enter the channel.  A write that was under way when the channel
\* closed still completes, so `open` is no guard.
Put(n) ==
    /\ Len(chan) + n <= Capacity
    /\ chan' = chan \o [i \in 1..n |-> sent + i - 1]
    /\ sent' = sent + n
    /\ UNCHANGED open

\* The n oldest bytes leave the channel; closing does not discard any.
Take(n) ==
    /\ n <= Len(chan)
    /\ chan' = SubSeq(chan, n + 1, Len(chan))
    /\ UNCHANGED <<sent, open>>

ChanClose ==
    /\ open
    /\ open' = FALSE
    /\ UNCHANGED <<chan, sent>>

ChanNext ==
    \/ \E n \in 1..Capacity : Put(n) \/ Take(n)
    \/ ChanClose

ChanSpec == ChanInit /\ [][ChanNext]_chanVars
==============================================================================
