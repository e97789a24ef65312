--------------------------- MODULE TransportStream ---------------------------
(***************************************************************************)
(* What a backend promises the layer above it: the event-order contract of *)
(* crates/transport/src/event.rs.  A backend produces chunks of output,    *)
(* numbered in production order, and puts events into an unbounded channel.*)
(* `sent' is the whole history of that channel.                            *)
(*                                                                         *)
(* The contract says nothing of threads, processes or sockets.  PtyBackend *)
(* and SshBackend are shown to implement it.                               *)
(***************************************************************************)
EXTENDS Naturals, Sequences

CONSTANTS
    LateErrors   \* TRUE: an Error event may still follow Exited

VARIABLES
    produced,    \* chunks the child or the remote end has written so far
    sent,        \* every event put into the channel, in order
    open         \* some sender of the channel is still alive

streamVars == <<produced, sent, open>>

ErrorKinds == {"readError", "writeError", "waitError"}
Event == [kind : {"output", "exited"} \cup ErrorKinds, n : Nat]

Out(k)     == [kind |-> "output", n |-> k]
Signal(k)  == [kind |-> k, n |-> 0]

Has(k)     == \E i \in DOMAIN sent : sent[i].kind = k
Ended      == Has("exited")
Delivered(k) == \E i \in DOMAIN sent : sent[i] = Out(k)

Init ==
    /\ produced = 0
    /\ sent = <<>>
    /\ open = TRUE

\* The far end writes one more chunk.  It is gone once Exited was sent, unless
\* the reading side failed before it could see that.
Produce ==
    /\ ~Ended \/ Has("readError")
    /\ produced' = produced + 1
    /\ UNCHANGED <<sent, open>>

\* The next undelivered chunk, and no other, becomes an Output event.
EmitOutput ==
    /\ open /\ ~Ended
    /\ \E k \in 1..produced :
          /\ \A j \in 1..produced : Delivered(j) <=> j < k
          /\ sent' = Append(sent, Out(k))
    /\ UNCHANGED <<produced, open>>

\* Exited closes the stream: every chunk is already in the channel, unless the
\* reading side has failed and said so.
EmitExited ==
    /\ open /\ ~Ended
    /\ Has("readError") \/ \A j \in 1..produced : Delivered(j)
    /\ sent' = Append(sent, Signal("exited"))
    /\ UNCHANGED <<produced, open>>

EmitError ==
    /\ open
    /\ LateErrors \/ ~Ended
    /\ \E k \in ErrorKinds : sent' = Append(sent, Signal(k))
    /\ UNCHANGED <<produced, open>>

\* The last sender goes away: the consumer will read Disconnected.
Disconnect ==
    /\ open
    /\ open' = FALSE
    /\ UNCHANGED <<produced, sent>>

\* The last event and the end of its thread may be one step of a backend.
EmitLast ==
    /\ open
    /\ open' = FALSE
    /\ UNCHANGED produced
    /\ \/ /\ ~Ended
          /\ Has("readError") \/ \A j \in 1..produced : Delivered(j)
          /\ sent' = Append(sent, Signal("exited"))
       \/ /\ LateErrors \/ ~Ended
          /\ \E k \in ErrorKinds : sent' = Append(sent, Signal(k))

Next == Produce \/ EmitOutput \/ EmitExited \/ EmitError \/ Disconnect \/ EmitLast

Spec == Init /\ [][Next]_streamVars
=============================================================================
