-------------------------- MODULE SshBackend_proofs ---------------------------
(***************************************************************************)
(* What SshBackend guarantees for every bound, window and timeout, and for *)
(* servers of both kinds: how a stream ends, what Exited carries, and that *)
(* the events are those of the contract of crates/transport.               *)
(*                                                                         *)
(* Four invariants, each for one theorem: EndInv ties the end of the       *)
(* shuttle to its event, StatusInv finds a status that was sent either     *)
(* noted or ahead of the channel's end, StreamInv splits what was produced *)
(* into what was sent and what the inbox holds, DropInv keeps the account  *)
(* of the join budget.                                                     *)
(***************************************************************************)
EXTENDS SshBackend, TLAPS

Ends == {"eof", "close"}

(* What is sent stays a sequence; only RxAlive lets anything in. *)
LEMMA EmitType ==
    ASSUME sent \in Seq(Event), NEW e \in Event, Emit(e)
    PROVE  sent' \in Seq(Event)
BY DEF Emit

LEMMA Events ==
    /\ \A k \in Nat : Out(k) \in Event
    /\ Signal("exited") \in Event /\ Signal("writeError") \in Event
BY DEF Out, Signal, Event

LEMMA Longer ==
    ASSUME NEW S, NEW q \in Seq(S), NEW e \in S
    PROVE  Append(q, e) \in Seq(S)
OBVIOUS

LEMMA Shorter ==
    ASSUME NEW S, NEW q \in Seq(S), q # <<>>
    PROVE  Head(q) \in S /\ Tail(q) \in Seq(S)
OBVIOUS

LEMMA Messages ==
    /\ \A k \in Nat : Data(k) \in Message
    /\ Note("status") \in Message /\ Note("eof") \in Message /\ Note("close") \in Message
BY DEF Data, Note, Message

-----------------------------------------------------------------------------
(* The data *)

DataOK ==
    /\ inbox \in Seq(Message) /\ produced \in Nat
    /\ sent \in Seq(Event)
    /\ cmds \in Seq(Commands) /\ tcmds \in Seq(Commands)
    /\ statusSent \in BOOLEAN /\ pendingExit \in BOOLEAN /\ engine \in BOOLEAN

LEMMA DataInit == Init => DataOK
<1>1. <<>> \in Seq(Message) /\ <<>> \in Seq(Event) /\ <<>> \in Seq(Commands)
  OBVIOUS
<1>2. Init => /\ inbox = <<>> /\ sent = <<>> /\ cmds = <<>> /\ tcmds = <<>> /\ produced = 0
              /\ statusSent = FALSE /\ pendingExit = FALSE /\ engine = FALSE
  BY DEF Init
<1>3. Init => statusSent \in BOOLEAN /\ pendingExit \in BOOLEAN /\ engine \in BOOLEAN
  BY <1>2, Zenon
<1> QED BY <1>1, <1>2, <1>3 DEF DataOK

LEMMA DataStep == DataOK /\ [Next]_vars => DataOK'
<1> SUFFICES ASSUME DataOK, [Next]_vars PROVE DataOK'
  OBVIOUS
<1> USE DEF DataOK, netVars, arriveVars, shuttleVars, bridgeVars, signalVars, handleVars
<1>1. CASE ServerData
  BY <1>1, Messages DEF ServerData
<1>2. CASE ServerStatus
  BY <1>2, Messages DEF ServerStatus
<1>3. CASE ServerEnd
  <2>1. inbox' = Append(inbox, Note("eof")) \/ inbox' = Append(inbox, Note("close"))
    BY <1>3 DEF ServerEnd
  <2>2. inbox' \in Seq(Message)
    BY <2>1, Messages, Longer
  <2> QED BY <1>3, <2>2 DEF ServerEnd
<1>4. CASE ServerReads \/ LinkFails
  BY <1>4 DEF ServerReads, LinkFails
<1>5. CASE Setup
  BY <1>5 DEF Setup, SetupStep, Connect, Authenticate, OpenShell, SetupFails
<1>6. CASE ShuttleShutdown \/ ShuttleClose
  BY <1>6 DEF ShuttleShutdown, ShuttleClose
<1>7. CASE ShuttleCommand
  BY <1>7 DEF ShuttleCommand
<1>8. CASE ShuttleWrite
  BY <1>8, EmitType, Events DEF ShuttleWrite
<1>9. CASE ShuttleData
  <2>1. Head(inbox) \in Message
    BY <1>9 DEF ShuttleData
  <2>2. Head(inbox).n \in Nat
    BY <2>1 DEF Message
  <2> QED BY <1>9, <2>2, EmitType, Events DEF ShuttleData
<1>10. CASE ShuttleStatus
  BY <1>10 DEF ShuttleStatus
<1>11. CASE ShuttleEnd
  BY <1>11, EmitType, Events DEF ShuttleEnd, Exited
<1>12. CASE ShuttleLost
  BY <1>12, EmitType, Events DEF ShuttleLost, Exited
<1>13. CASE Bridge
  <2>1. CASE BridgeForward
    <3>1. Head(cmds) \in Commands /\ cmds' \in Seq(Commands)
      BY <2>1, Shorter DEF BridgeForward
    <3>2. tcmds' = Append(tcmds, Head(cmds)) \/ tcmds' = tcmds
      BY <2>1 DEF BridgeForward
    <3>3. tcmds' \in Seq(Commands)
      BY <3>1, <3>2, Longer
    <3> QED BY <2>1, <3>1, <3>3 DEF BridgeForward
  <2>2. CASE BridgeEnd
    BY <2>2 DEF BridgeEnd
  <2> QED BY <1>13, <2>1, <2>2 DEF Bridge
<1>14. CASE SpawnOk \/ SpawnFails
  BY <1>14 DEF SpawnOk, SpawnFails
<1>15. CASE ClientSend
  BY <1>15 DEF ClientSend
<1>16. CASE ClientExit
  BY <1>16 DEF ClientExit
<1>17. CASE Drop
  BY <1>17 DEF Drop, DropGoesOn, DropStopShuttle, DropStopBridge, DropJoined, DropDetach
<1>18. CASE Tick
  BY <1>18 DEF Tick
<1>19. CASE UNCHANGED vars
  BY <1>19 DEF vars
<1> QED BY <1>1, <1>2, <1>3, <1>4, <1>5, <1>6, <1>7, <1>8, <1>9, <1>10, <1>11, <1>12,
           <1>13, <1>14, <1>15, <1>16, <1>17, <1>18, <1>19
        DEF Next, Environment, Shuttle, Finished

-----------------------------------------------------------------------------
(* Both ends of the session stay ended *)

\* The shuttle that has ended has ended for good, and so has a consumer.
LEMMA EndsAreFinal ==
    ASSUME [Next]_vars
    PROVE  /\ ShuttleDone => ShuttleDone' /\ shuttle' = shuttle
           /\ RxAlive' => RxAlive
<1> USE DEF netVars, arriveVars, shuttleVars, bridgeVars, signalVars, handleVars,
            ShuttleDone, RxAlive
<1>1. CASE Environment
  BY <1>1 DEF Environment, ServerData, ServerStatus, ServerEnd, ServerReads, LinkFails
<1>2. CASE Setup
  BY <1>2 DEF Setup, SettingUp, SetupStep, Connect, Authenticate, OpenShell, SetupFails
<1>3. CASE ShuttleShutdown \/ ShuttleClose \/ ShuttleCommand \/ ShuttleWrite
  BY <1>3 DEF ShuttleShutdown, ShuttleClose, ShuttleCommand, ShuttleWrite
<1>4. CASE ShuttleData \/ ShuttleStatus \/ ShuttleEnd \/ ShuttleLost
  BY <1>4 DEF ShuttleData, ShuttleStatus, ShuttleEnd, ShuttleLost, Waiting
<1>5. CASE Bridge
  BY <1>5 DEF Bridge, BridgeForward, BridgeEnd
<1>6. CASE SpawnOk \/ SpawnFails \/ ClientSend \/ ClientExit
  BY <1>6 DEF SpawnOk, SpawnFails, ClientSend, ClientExit
<1>7. CASE Drop
  BY <1>7 DEF Drop, DropGoesOn, DropStopShuttle, DropStopBridge, DropJoined, DropDetach
<1>8. CASE Tick \/ UNCHANGED vars
  BY <1>8 DEF Tick, vars
<1> QED BY <1>1, <1>2, <1>3, <1>4, <1>5, <1>6, <1>7, <1>8
        DEF Next, Shuttle, Finished

-----------------------------------------------------------------------------
(* How the stream ends *)

\* While the session is set up nobody has been told; an end has its event.
EndInv == (SettingUp => ready = "none") /\ EndExplained

LEMMA EndStep == DataOK /\ EndInv /\ [Next]_vars => EndInv'
<1> SUFFICES ASSUME DataOK, EndInv, [Next]_vars PROVE EndInv'
  OBVIOUS
<1> USE DEF EndInv, SettingUp, EndExplained, netVars, arriveVars, shuttleVars, bridgeVars,
            signalVars, handleVars
<1>0. sent \in Seq(Event) /\ (RxAlive' => RxAlive)
  BY EndsAreFinal DEF DataOK
<1>1. ASSUME NEW k \in {"exited", "writeError"}, Emit(Signal(k))
      PROVE  Has(k)' \/ ~RxAlive
  <2>1. CASE RxAlive
    <3>1. sent' = Append(sent, Signal(k)) /\ Signal(k).kind = k
      BY <1>1, <2>1 DEF Emit, Signal
    <3>2. Len(sent) + 1 \in DOMAIN sent' /\ sent'[Len(sent) + 1].kind = k
      BY <1>0, <3>1
    <3> QED BY <3>2 DEF Has
  <2> QED BY <2>1
<1>2. CASE ShuttleWrite
  BY <1>0, <1>1, <1>2 DEF ShuttleWrite
<1>3. CASE ShuttleEnd \/ ShuttleLost
  BY <1>0, <1>1, <1>3 DEF ShuttleEnd, ShuttleLost, Exited
<1>4. CASE ShuttleData
  BY <1>0, <1>4 DEF ShuttleData, Waiting
<1>5. CASE Setup
  BY <1>5 DEF Setup, SetupStep, Connect, Authenticate, OpenShell, SetupFails
<1>6. ASSUME shuttle' = shuttle, ready' = ready, sent' = sent PROVE EndInv'
  BY <1>0, <1>6 DEF Has
<1>7. CASE Environment
  BY <1>6, <1>7 DEF Environment, ServerData, ServerStatus, ServerEnd, ServerReads, LinkFails
<1>8. CASE ShuttleShutdown \/ ShuttleCommand \/ ShuttleClose
  <2>1. ShuttleCommand => NextCommand \in {"write", "resize", "shutdown"}
    BY Shorter DEF ShuttleCommand, NextCommand, DataOK, Commands
  <2>2. shuttle' # "ended" /\ ~SettingUp' /\ sent' = sent
    BY <1>8, <2>1 DEF ShuttleShutdown, ShuttleCommand, ShuttleClose
  <2> QED BY <2>2
<1>9. CASE ShuttleStatus \/ Bridge
  BY <1>6, <1>9 DEF ShuttleStatus, Bridge, BridgeForward, BridgeEnd
<1>10. CASE SpawnOk \/ SpawnFails \/ ClientSend \/ ClientExit
  BY <1>6, <1>10 DEF SpawnOk, SpawnFails, ClientSend, ClientExit
<1>11. CASE Drop
  BY <1>6, <1>11 DEF Drop, DropGoesOn, DropStopShuttle, DropStopBridge, DropJoined, DropDetach
<1>12. CASE Tick \/ UNCHANGED vars
  BY <1>6, <1>12 DEF Tick, vars
<1> QED BY <1>2, <1>3, <1>4, <1>5, <1>7, <1>8, <1>9, <1>10, <1>11, <1>12
        DEF Next, Shuttle, Finished

(* A consumer that is still there learns why the stream ended: Exited or an error *)
(* (crates/ssh/src/shuttle.rs, shuttle_loop).                                     *)
THEOREM StreamEndExplained == Spec => []EndExplained
<1>1. Init => EndInv
  BY DEF Init, EndInv, SettingUp, EndExplained
<1>2. EndInv => EndExplained
  BY DEF EndInv
<1> QED BY <1>1, <1>2, DataInit, DataStep, EndStep, PTL DEF Spec

-----------------------------------------------------------------------------
(* The exit status *)

\* The end of the channel is in the inbox only once it was sent.
OpenHasNoEnd == server = "open" => \A i \in DOMAIN inbox : inbox[i].kind \notin Ends

\* A status that a status-first server has sent is ahead of that end until it is noted.
StatusInv ==
    /\ OpenHasNoEnd
    /\ StatusFirst /\ statusSent =>
          \/ pendingExit
          \/ \E i \in DOMAIN inbox :
                /\ inbox[i].kind = "status"
                /\ \A j \in 1..(i - 1) : inbox[j].kind \notin Ends
    /\ reported = "unknown" =>
          ShuttleDone /\ (link = "lost" \/ ~(StatusFirst /\ statusSent))

LEMMA StatusStep == DataOK /\ StatusInv /\ [Next]_vars => StatusInv'
<1> SUFFICES ASSUME DataOK, StatusInv, [Next]_vars PROVE StatusInv'
  OBVIOUS
<1> USE DEF StatusInv, OpenHasNoEnd, netVars, arriveVars, shuttleVars, bridgeVars, signalVars, handleVars
<1>0. /\ inbox \in Seq(Message) /\ statusSent \in BOOLEAN /\ pendingExit \in BOOLEAN
      /\ (ShuttleDone => ShuttleDone')
  BY EndsAreFinal DEF DataOK
<1>1. ASSUME UNCHANGED <<server, statusSent, inbox, pendingExit, reported>>,
             link = "lost" => link' = "lost"
      PROVE  StatusInv'
  BY <1>0, <1>1
<1>2. CASE ServerData
  BY <1>0, <1>2 DEF ServerData, Listening, Data, Ends
<1>3. CASE ServerStatus
  BY <1>0, <1>3 DEF ServerStatus, Listening, Note, Ends
<1>4. CASE ServerEnd
  <2>1. PICK m \in Ends : inbox' = Append(inbox, Note(m)) /\ server # "closed"
    BY <1>4 DEF ServerEnd, Ends
  <2>2. server' # "open"
    BY <1>4 DEF ServerEnd
  <2>3. /\ DOMAIN inbox' = 1..(Len(inbox) + 1) /\ DOMAIN inbox = 1..Len(inbox)
        /\ Len(inbox) \in Nat
        /\ \A i \in DOMAIN inbox : inbox'[i] = inbox[i]
    BY <1>0, <2>1
  <2>4. ASSUME NEW i \in DOMAIN inbox, inbox[i].kind = "status",
               \A j \in 1..(i - 1) : inbox[j].kind \notin Ends
        PROVE  /\ i \in DOMAIN inbox' /\ inbox'[i].kind = "status"
               /\ \A j \in 1..(i - 1) : inbox'[j].kind \notin Ends
    BY <2>3, <2>4
  <2>5. UNCHANGED <<statusSent, pendingExit, reported, link>> /\ ShuttleDone' = ShuttleDone
    BY <1>4 DEF ServerEnd, ShuttleDone
  <2> QED BY <2>2, <2>4, <2>5
<1>5. CASE ServerReads \/ LinkFails
  BY <1>1, <1>5 DEF ServerReads, LinkFails
<1>6. CASE Setup
  BY <1>1, <1>6 DEF Setup, SetupStep, Connect, Authenticate, OpenShell, SetupFails
<1>7. CASE ShuttleShutdown \/ ShuttleCommand \/ ShuttleWrite \/ ShuttleClose
  BY <1>1, <1>7 DEF ShuttleShutdown, ShuttleCommand, ShuttleWrite, ShuttleClose
<1>8. ASSUME inbox # <<>>, inbox' = Tail(inbox)
      PROVE  /\ Len(inbox') = Len(inbox) - 1
             /\ \A i \in DOMAIN inbox' : inbox'[i] = inbox[i + 1] /\ i + 1 \in DOMAIN inbox
             /\ \A i \in DOMAIN inbox : i # 1 => i - 1 \in DOMAIN inbox'
             /\ inbox[1] = Head(inbox) /\ 1 \in DOMAIN inbox
  BY <1>0, <1>8
<1>9. CASE ShuttleData \/ ShuttleStatus
  <2>1. /\ inbox # <<>> /\ inbox' = Tail(inbox) /\ UNCHANGED <<server, statusSent, reported, link>>
        /\ ~ShuttleDone
        /\ \/ Head(inbox).kind # "status" /\ pendingExit' = pendingExit
           \/ pendingExit'
    BY <1>9 DEF ShuttleData, ShuttleStatus, Waiting, ShuttleDone
  <2>2. reported' # "unknown"
    BY <2>1
  <2>3. server' = "open" => \A i \in DOMAIN inbox' : inbox'[i].kind \notin Ends
    BY <1>8, <2>1
  <2>4. ASSUME NEW i \in DOMAIN inbox, inbox[i].kind = "status", i # 1,
               \A j \in 1..(i - 1) : inbox[j].kind \notin Ends
        PROVE  /\ i - 1 \in DOMAIN inbox' /\ inbox'[i - 1].kind = "status"
               /\ \A j \in 1..((i - 1) - 1) : inbox'[j].kind \notin Ends
    BY <1>0, <1>8, <2>1, <2>4
  <2>5. ASSUME StatusFirst, statusSent', ~pendingExit'
        PROVE  \E i \in DOMAIN inbox' :
                  /\ inbox'[i].kind = "status"
                  /\ \A j \in 1..(i - 1) : inbox'[j].kind \notin Ends
    <3>1. Head(inbox).kind # "status" /\ ~pendingExit /\ statusSent
      BY <2>1, <2>5
    <3>2. PICK i \in DOMAIN inbox : /\ inbox[i].kind = "status"
                                   /\ \A j \in 1..(i - 1) : inbox[j].kind \notin Ends
      BY <2>5, <3>1
    <3>3. i # 1
      BY <1>8, <2>1, <3>1, <3>2
    <3> QED BY <2>4, <3>2, <3>3
  <2> QED BY <2>2, <2>3, <2>5
<1>10. CASE ShuttleEnd
  BY <1>0, <1>8, <1>10 DEF ShuttleEnd, Exited, Waiting, ShuttleDone, Ends
<1>11. CASE ShuttleLost
  BY <1>0, <1>11 DEF ShuttleLost, Exited, Waiting, ShuttleDone, Ends
<1>12. CASE Bridge \/ SpawnOk \/ SpawnFails \/ ClientSend \/ ClientExit
  BY <1>1, <1>12 DEF Bridge, BridgeForward, BridgeEnd, SpawnOk, SpawnFails, ClientSend,
     ClientExit
<1>13. CASE Drop
  BY <1>1, <1>13 DEF Drop, DropGoesOn, DropStopShuttle, DropStopBridge, DropJoined, DropDetach
<1>14. CASE Tick \/ UNCHANGED vars
  BY <1>1, <1>14 DEF Tick, vars
<1> QED BY <1>2, <1>3, <1>4, <1>5, <1>6, <1>7, <1>9, <1>10, <1>11, <1>12, <1>13, <1>14
        DEF Next, Environment, Shuttle, Finished

(* A server that sends the exit status before it ends the channel has it reported, *)
(* whatever data comes in between, unless the connection was lost                  *)
(* (crates/ssh/src/shuttle.rs, pending_exit).                                      *)
THEOREM StatusReported == Spec => []StatusNotLost
<1>1. Init => StatusInv
  BY DEF Init, StatusInv, OpenHasNoEnd
<1>2. DataOK /\ StatusInv => StatusNotLost
  BY DEF DataOK, StatusInv, OpenHasNoEnd, StatusNotLost
<1> QED BY <1>1, <1>2, DataInit, DataStep, StatusStep, PTL DEF Spec

-----------------------------------------------------------------------------
(* The contract of crates/transport *)

InBox(k) == \E i \in DOMAIN inbox : inbox[i] = Data(k)
Sent(k)  == \E i \in DOMAIN sent : sent[i] = Out(k)

EndIsLast ==
    \A i, j \in DOMAIN inbox : i < j /\ inbox[i].kind \in Ends => inbox[j].kind # "data"
InOrder ==
    \A i, j \in DOMAIN inbox :
        i < j /\ inbox[i].kind = "data" /\ inbox[j].kind = "data" => inbox[i].n < inbox[j].n
SentFirst ==
    \A i \in DOMAIN inbox : inbox[i].kind = "data" =>
        /\ inbox[i].n \in 1..produced
        /\ \A j \in DOMAIN sent : sent[j].kind = "output" => sent[j].n < inbox[i].n
Produced ==
    /\ \A j \in DOMAIN sent : sent[j].kind = "output" => sent[j].n \in 1..produced
    /\ \A k \in 1..produced : Sent(k) \/ InBox(k)

\* While the shuttle runs, what was produced is what was sent and then, in order, what
\* is in the inbox; nothing is produced behind the end of the channel.
StreamInv ==
    ~ShuttleDone =>
        ~Has("exited") /\ OpenHasNoEnd /\ EndIsLast /\ InOrder /\ SentFirst /\ Produced

LEMMA KindsDiffer ==
    /\ \A k : Data(k).kind = "data" /\ Data(k).n = k
    /\ \A k : Out(k).kind = "output" /\ Out(k).n = k
    /\ \A k : Note(k).kind = k
    /\ \A k : Signal(k).kind = k
BY DEF Data, Out, Note, Signal

LEMMA DataIs == ASSUME NEW m \in Message, m.kind = "data" PROVE m = Data(m.n) /\ m.n \in Nat
BY DEF Message, Data

LEMMA OutIs == ASSUME NEW e \in Event, e.kind = "output" PROVE e = Out(e.n) /\ e.n \in Nat
BY DEF Event, Out

(* What appending does to a sequence, position by position. *)
LEMMA Appended ==
    ASSUME NEW S, NEW q \in Seq(S), NEW e \in S, NEW r, r = Append(q, e)
    PROVE  /\ DOMAIN q = 1..Len(q) /\ Len(q) \in Nat
           /\ \A i \in DOMAIN q : i \in DOMAIN r /\ r[i] = q[i]
           /\ Len(q) + 1 \in DOMAIN r /\ r[Len(q) + 1] = e
           /\ \A i \in DOMAIN r : i \in DOMAIN q \/ i = Len(q) + 1
OBVIOUS

(* And what taking the head leaves. *)
LEMMA Taken ==
    ASSUME NEW S, NEW q \in Seq(S), q # <<>>, NEW r, r = Tail(q)
    PROVE  /\ DOMAIN q = 1..Len(q) /\ Len(q) \in Nat
           /\ \A i \in DOMAIN r : i \in Nat /\ i + 1 \in DOMAIN q /\ r[i] = q[i + 1]
           /\ \A i \in DOMAIN q : i # 1 => i - 1 \in DOMAIN r /\ r[i - 1] = q[i]
           /\ 1 \in DOMAIN q /\ q[1] = Head(q) /\ Head(q) \in S
OBVIOUS

(* A message that is no data changes nothing but the inbox's end. *)
LEMMA StreamNote ==
    ASSUME DataOK, ~ShuttleDone, StreamInv, NEW m \in Message, m.kind # "data",
           inbox' = Append(inbox, m), UNCHANGED <<produced, sent>>,
           server' = "open" => server = "open" /\ m.kind \notin Ends
    PROVE  StreamInv'
<1>1. /\ ~Has("exited") /\ OpenHasNoEnd /\ EndIsLast /\ InOrder /\ SentFirst /\ Produced
      /\ inbox \in Seq(Message)
  BY DEF StreamInv, DataOK
<1>2. /\ DOMAIN inbox = 1..Len(inbox) /\ Len(inbox) \in Nat
      /\ \A i \in DOMAIN inbox : i \in DOMAIN inbox' /\ inbox'[i] = inbox[i]
      /\ \A i \in DOMAIN inbox' : i \in DOMAIN inbox \/ i = Len(inbox) + 1
      /\ inbox'[Len(inbox) + 1] = m
  BY <1>1, Appended
<1>3. OpenHasNoEnd'
  BY <1>1, <1>2 DEF OpenHasNoEnd
<1>4. EndIsLast'
  BY <1>1, <1>2 DEF EndIsLast
<1>5. InOrder' /\ SentFirst'
  BY <1>1, <1>2 DEF InOrder, SentFirst
<1>6. Produced' /\ ~Has("exited")'
  BY <1>1, <1>2 DEF Produced, Sent, InBox, Has
<1> QED BY <1>3, <1>4, <1>5, <1>6 DEF StreamInv

LEMMA StreamData ==
    ASSUME DataOK, ~ShuttleDone, StreamInv, ServerData PROVE StreamInv'
<1>1. /\ ~Has("exited") /\ OpenHasNoEnd /\ EndIsLast /\ InOrder /\ SentFirst /\ Produced
      /\ inbox \in Seq(Message) /\ produced \in Nat
  BY DEF StreamInv, DataOK
<1>2. /\ inbox' = Append(inbox, Data(produced + 1)) /\ server = "open" /\ server' = server
      /\ produced' = produced + 1 /\ sent' = sent /\ Data(produced + 1) \in Message
  BY <1>1, Messages DEF ServerData, netVars
<1>3. /\ DOMAIN inbox = 1..Len(inbox) /\ Len(inbox) \in Nat
      /\ \A i \in DOMAIN inbox : i \in DOMAIN inbox' /\ inbox'[i] = inbox[i]
      /\ \A i \in DOMAIN inbox' : i \in DOMAIN inbox \/ i = Len(inbox) + 1
      /\ Len(inbox) + 1 \in DOMAIN inbox' /\ inbox'[Len(inbox) + 1] = Data(produced + 1)
  BY <1>1, <1>2, Appended
<1>4. \A i \in DOMAIN inbox : inbox[i].kind \notin Ends
  BY <1>1, <1>2 DEF OpenHasNoEnd
<1>5. OpenHasNoEnd' /\ EndIsLast'
  BY <1>2, <1>3, <1>4, KindsDiffer DEF OpenHasNoEnd, EndIsLast, Ends
<1>6. InOrder'
  BY <1>1, <1>2, <1>3, KindsDiffer DEF InOrder, SentFirst
<1>7. SentFirst'
  BY <1>1, <1>2, <1>3, KindsDiffer DEF SentFirst, Produced
<1>8. Produced'
  <2>1. \A j \in DOMAIN sent' : sent'[j].kind = "output" => sent'[j].n \in 1..produced'
    BY <1>1, <1>2 DEF Produced
  <2>2. \A k \in 1..produced : Sent(k)' \/ InBox(k)'
    BY <1>1, <1>2, <1>3 DEF Produced, Sent, InBox
  <2>3. ASSUME NEW k, k = produced + 1 PROVE InBox(k)'
    BY <1>3, <2>3 DEF InBox
  <2> QED BY <1>1, <1>2, <2>1, <2>2, <2>3 DEF Produced
<1>9. ~Has("exited")'
  BY <1>1, <1>2 DEF Has
<1> QED BY <1>5, <1>6, <1>7, <1>8, <1>9 DEF StreamInv

(* A message read: what was behind it moves up; the chunk it carried was sent. *)
LEMMA StreamTaken ==
    ASSUME DataOK, ~ShuttleDone, StreamInv, inbox # <<>>, inbox' = Tail(inbox),
           UNCHANGED <<server, produced>>,
           \/ Head(inbox).kind # "data" /\ sent' = sent
           \/ Head(inbox).kind = "data" /\ sent' = Append(sent, Out(Head(inbox).n))
    PROVE  StreamInv'
<1>1. /\ ~Has("exited") /\ OpenHasNoEnd /\ EndIsLast /\ InOrder /\ SentFirst /\ Produced
      /\ inbox \in Seq(Message) /\ sent \in Seq(Event)
  BY DEF StreamInv, DataOK
<1>2. /\ DOMAIN inbox = 1..Len(inbox) /\ Len(inbox) \in Nat
      /\ \A i \in DOMAIN inbox' : i \in Nat /\ i + 1 \in DOMAIN inbox /\ inbox'[i] = inbox[i + 1]
      /\ \A i \in DOMAIN inbox : i # 1 => i - 1 \in DOMAIN inbox' /\ inbox'[i - 1] = inbox[i]
      /\ 1 \in DOMAIN inbox /\ inbox[1] = Head(inbox) /\ Head(inbox) \in Message
  BY <1>1, Taken
<1>3. OpenHasNoEnd' /\ EndIsLast' /\ InOrder'
  <2>1. OpenHasNoEnd'
    BY <1>1, <1>2 DEF OpenHasNoEnd
  <2>2. ASSUME NEW i \in DOMAIN inbox', NEW j \in DOMAIN inbox', i < j
        PROVE  /\ i + 1 \in DOMAIN inbox /\ j + 1 \in DOMAIN inbox /\ i + 1 < j + 1
               /\ inbox'[i] = inbox[i + 1] /\ inbox'[j] = inbox[j + 1]
    BY <1>2, <2>2
  <2>3. EndIsLast'
    BY <1>1, <2>2 DEF EndIsLast
  <2>4. InOrder'
    BY <1>1, <2>2 DEF InOrder
  <2> QED BY <2>1, <2>3, <2>4
<1>4. CASE Head(inbox).kind # "data"
  <2>1. SentFirst'
    BY <1>1, <1>2, <1>4 DEF SentFirst
  <2>2. ASSUME NEW k \in 1..produced, InBox(k) PROVE InBox(k)'
    <3>1. PICK i \in DOMAIN inbox : inbox[i] = Data(k)
      BY <2>2 DEF InBox
    <3>2. i # 1
      BY <1>2, <1>4, <3>1, KindsDiffer
    <3> QED BY <1>2, <3>1, <3>2 DEF InBox
  <2>3. Produced' /\ ~Has("exited")'
    BY <1>1, <1>4, <2>2 DEF Produced, Sent, Has
  <2> QED BY <1>3, <2>1, <2>3 DEF StreamInv
<1>5. CASE Head(inbox).kind = "data"
  <2> DEFINE n == Head(inbox).n
  <2>1. /\ Head(inbox) = Data(n) /\ n \in Nat /\ Out(n) \in Event
        /\ sent' = Append(sent, Out(n)) /\ n \in 1..produced
    BY <1>1, <1>2, <1>5, DataIs, Events DEF SentFirst
  <2> HIDE DEF n
  <2>2. /\ \A j \in DOMAIN sent : j \in DOMAIN sent' /\ sent'[j] = sent[j]
        /\ \A j \in DOMAIN sent' : j \in DOMAIN sent \/ j = Len(sent) + 1
        /\ Len(sent) + 1 \in DOMAIN sent' /\ sent'[Len(sent) + 1] = Out(n)
    BY <1>1, <2>1, Appended
  <2>3. ASSUME NEW i \in DOMAIN inbox', inbox'[i].kind = "data"
        PROVE  inbox'[i].n \in 1..produced /\ n < inbox'[i].n
    <3>1. i + 1 \in DOMAIN inbox /\ inbox'[i] = inbox[i + 1] /\ i \in Nat /\ i # 0
      BY <1>2
    <3>2. inbox[1].kind = "data" /\ inbox[1].n = n
      BY <1>2, <1>5 DEF n
    <3>3. 1 < i + 1 /\ inbox[i + 1].kind = "data"
      BY <2>3, <3>1
    <3>4. inbox[1].n < inbox[i + 1].n
      BY <1>1, <1>2, <3>1, <3>2, <3>3 DEF InOrder
    <3>5. inbox[i + 1].n \in 1..produced
      BY <1>1, <3>1, <3>3 DEF SentFirst
    <3> QED BY <3>1, <3>2, <3>4, <3>5
  <2>4. SentFirst'
    <3>1. \A i \in DOMAIN inbox' : i + 1 \in DOMAIN inbox /\ inbox'[i] = inbox[i + 1]
      BY <1>2
    <3> QED BY <1>1, <2>2, <2>3, <3>1, KindsDiffer DEF SentFirst
  <2>5. ASSUME NEW k \in 1..produced PROVE Sent(k)' \/ InBox(k)'
    <3>1. CASE Sent(k)
      BY <2>2, <3>1 DEF Sent
    <3>2. CASE InBox(k)
      <4>1. PICK i \in DOMAIN inbox : inbox[i] = Data(k)
        BY <3>2 DEF InBox
      <4>2. CASE i = 1
        <5>1. k = n
          BY <1>2, <2>1, <4>1, <4>2, KindsDiffer
        <5> QED BY <2>2, <5>1 DEF Sent
      <4>3. CASE i # 1
        BY <1>2, <4>1, <4>3 DEF InBox
      <4> QED BY <4>2, <4>3
    <3> QED BY <1>1, <3>1, <3>2 DEF Produced
  <2>6. Produced'
    BY <1>1, <2>1, <2>2, <2>5, KindsDiffer DEF Produced
  <2>7. ~Has("exited")'
    BY <1>1, <2>2, KindsDiffer DEF Has
  <2> QED BY <1>3, <2>4, <2>6, <2>7 DEF StreamInv
<1> QED BY <1>4, <1>5

LEMMA StreamInvStep == DataOK /\ StreamInv /\ [Next]_vars => StreamInv'
<1> SUFFICES ASSUME DataOK, StreamInv, [Next]_vars, ~ShuttleDone' PROVE StreamInv'
  BY DEF StreamInv
<1> USE DEF netVars, arriveVars, shuttleVars, bridgeVars, signalVars, handleVars
<1>0. ~ShuttleDone
  BY EndsAreFinal
<1>1. ASSUME UNCHANGED <<server, inbox, produced, sent>> PROVE StreamInv'
  BY <1>0, <1>1 DEF StreamInv, OpenHasNoEnd, EndIsLast, InOrder, SentFirst, Produced, Has,
     Sent, InBox
<1>2. CASE ServerData
  BY <1>0, <1>2, StreamData
<1>3. CASE ServerStatus
  BY <1>0, <1>3, StreamNote, Messages, KindsDiffer DEF ServerStatus, Ends
<1>4. CASE ServerEnd
  <2>1. PICK m \in Ends : inbox' = Append(inbox, Note(m)) /\ server' # "open"
                          /\ UNCHANGED <<produced, sent>>
    BY <1>4 DEF ServerEnd, Ends
  <2>2. Note(m) \in Message /\ Note(m).kind # "data"
    BY Messages, KindsDiffer DEF Ends
  <2> QED BY <1>0, <2>1, <2>2, StreamNote
<1>5. CASE ServerReads \/ LinkFails
  BY <1>1, <1>5 DEF ServerReads, LinkFails
<1>6. CASE Setup
  BY <1>1, <1>6 DEF Setup, SetupStep, Connect, Authenticate, OpenShell, SetupFails
<1>7. CASE ShuttleWrite
  BY <1>1, <1>7 DEF ShuttleWrite, ShuttleDone
<1>8. CASE ShuttleShutdown \/ ShuttleCommand \/ ShuttleClose
  BY <1>1, <1>8 DEF ShuttleShutdown, ShuttleCommand, ShuttleClose
<1>9. CASE ShuttleData
  BY <1>0, <1>9, StreamTaken DEF ShuttleData, Emit, ShuttleDone
<1>10. CASE ShuttleStatus
  BY <1>0, <1>10, StreamTaken DEF ShuttleStatus
<1>11. CASE ShuttleEnd \/ ShuttleLost
  BY <1>11 DEF ShuttleEnd, ShuttleLost, ShuttleDone
<1>12. CASE Bridge \/ SpawnOk \/ SpawnFails \/ ClientSend \/ ClientExit
  BY <1>1, <1>12 DEF Bridge, BridgeForward, BridgeEnd, SpawnOk, SpawnFails, ClientSend,
     ClientExit
<1>13. CASE Drop
  BY <1>1, <1>13 DEF Drop, DropGoesOn, DropStopShuttle, DropStopBridge, DropJoined, DropDetach
<1>14. CASE Tick \/ UNCHANGED vars
  BY <1>1, <1>14 DEF Tick, vars
<1> QED BY <1>2, <1>3, <1>4, <1>5, <1>6, <1>7, <1>8, <1>9, <1>10, <1>11, <1>12, <1>13, <1>14
        DEF Next, Environment, Shuttle, Finished

(* When nothing is in the inbox, or its end is at its head, all that was produced has *)
(* been sent.                                                                          *)
LEMMA AllSent ==
    ASSUME DataOK, ~ShuttleDone, StreamInv,
           inbox = <<>> \/ (inbox # <<>> /\ Head(inbox).kind \in Ends),
           NEW k \in 1..produced
    PROVE  Sent(k)
<1>1. EndIsLast /\ Produced /\ inbox \in Seq(Message)
  BY DEF StreamInv, DataOK
<1>2. ASSUME NEW i \in DOMAIN inbox, inbox[i] = Data(k) PROVE FALSE
  <2>1. /\ i \in Nat /\ i >= 1 /\ 1 \in DOMAIN inbox /\ inbox[1] = Head(inbox)
        /\ inbox[1].kind \in Ends
    BY <1>1, <1>2
  <2>2. inbox[i].kind = "data" /\ inbox[1].kind # "data"
    BY <1>2, <2>1, KindsDiffer DEF Ends
  <2>3. i = 1 \/ 1 < i
    BY <2>1
  <2> QED BY <1>1, <2>1, <2>2, <2>3 DEF EndIsLast
<1> QED BY <1>1, <1>2 DEF Produced, InBox

(* The contract's own words. *)
LEMMA SameWords ==
    /\ \A k : Contract!Delivered(k) <=> Sent(k)
    /\ \A k : Contract!Has(k) <=> Has(k)
    /\ Contract!Ended <=> Has("exited")
BY DEF Contract!Delivered, Contract!Has, Contract!Ended, Contract!Out, Sent, Has, Out

LEMMA StreamQuiet ==
    ASSUME UNCHANGED <<produced, sent>>, ShuttleDone => ShuttleDone'
    PROVE  Contract!Next \/ UNCHANGED Contract!streamVars
BY DEF Contract!Next, Contract!Disconnect, Contract!streamVars

LEMMA StreamStep ==
    DataOK /\ StreamInv /\ [Next]_vars => Contract!Next \/ UNCHANGED Contract!streamVars
<1> SUFFICES ASSUME DataOK, StreamInv, [Next]_vars
             PROVE  Contract!Next \/ UNCHANGED Contract!streamVars
  OBVIOUS
<1> USE DEF netVars, arriveVars, shuttleVars, bridgeVars, signalVars, handleVars
<1>0. /\ sent \in Seq(Event) /\ inbox \in Seq(Message)
      /\ (ShuttleDone => ShuttleDone')
  BY EndsAreFinal DEF DataOK
<1>1. ASSUME UNCHANGED <<produced, sent>>
      PROVE  Contract!Next \/ UNCHANGED Contract!streamVars
  BY <1>0, <1>1, StreamQuiet
<1>2. CASE ServerData
  <2>1. ~ShuttleDone /\ ~Has("exited") /\ ShuttleDone' = ShuttleDone
    BY <1>2 DEF ServerData, Listening, StreamInv, ShuttleDone
  <2>2. Contract!Produce
    BY <1>2, <2>1, SameWords DEF ServerData, Contract!Produce
  <2> QED BY <2>2 DEF Contract!Next
<1>3. CASE Environment /\ ~ServerData
  BY <1>1, <1>3 DEF Environment, ServerStatus, ServerEnd, ServerReads, LinkFails
<1>4. CASE Setup
  BY <1>1, <1>4 DEF Setup, SetupStep, Connect, Authenticate, OpenShell, SetupFails
<1>5. CASE ShuttleShutdown \/ ShuttleCommand \/ ShuttleStatus \/ ShuttleClose
  BY <1>1, <1>5 DEF ShuttleShutdown, ShuttleCommand, ShuttleStatus, ShuttleClose
<1>6. ASSUME ShuttleWrite \/ ShuttleData \/ ShuttleEnd \/ ShuttleLost, ~RxAlive
      PROVE  UNCHANGED <<produced, sent>>
  BY <1>6 DEF ShuttleWrite, ShuttleData, ShuttleEnd, ShuttleLost, Exited, Emit
<1>7. CASE ShuttleWrite /\ RxAlive
  <2>1. CASE UNCHANGED sent
    BY <1>1, <1>7, <2>1 DEF ShuttleWrite
  <2>2. CASE Emit(Signal("writeError")) /\ shuttle' = "ended"
    <3>1. /\ sent' = Append(sent, Signal("writeError")) /\ produced' = produced
          /\ ~ShuttleDone /\ ShuttleDone' /\ ~Has("exited")
      BY <1>7, <2>2 DEF ShuttleWrite, Emit, ShuttleDone, StreamInv
    <3>2. Contract!EmitLast
      BY <3>1, SameWords
      DEF Contract!EmitLast, Contract!ErrorKinds, Contract!Signal, Signal
    <3> QED BY <3>2 DEF Contract!Next
  <2> QED BY <1>7, <2>1, <2>2 DEF ShuttleWrite
<1>8. CASE ShuttleData /\ RxAlive
  <2> DEFINE n == Head(inbox).n
  <2>1. /\ inbox # <<>> /\ Head(inbox).kind = "data"
        /\ sent' = Append(sent, Out(n)) /\ produced' = produced
        /\ ~ShuttleDone /\ ShuttleDone' = ShuttleDone
    BY <1>8 DEF ShuttleData, Waiting, Emit, ShuttleDone
  <2>2. EndIsLast /\ InOrder /\ SentFirst /\ Produced /\ ~Has("exited")
    BY <2>1 DEF StreamInv
  <2>3. /\ 1 \in DOMAIN inbox /\ inbox[1] = Head(inbox)
        /\ \A i \in DOMAIN inbox : i \in Nat /\ i >= 1
    BY <1>0, <2>1
  <2>4. n \in 1..produced
    BY <2>1, <2>2, <2>3 DEF SentFirst
  <2>5. ASSUME NEW j \in 1..produced PROVE Sent(j) <=> j < n
    <3>1. Sent(j) => j < n
      BY <2>1, <2>2, <2>3, KindsDiffer DEF SentFirst, Sent
    <3>2. ASSUME NEW i \in DOMAIN inbox, inbox[i] = Data(j) PROVE n <= j
      <4>1. CASE i = 1
        BY <2>3, <2>4, <3>2, <4>1, KindsDiffer
      <4>2. CASE i # 1
        <5>1. 1 < i
          BY <2>3, <4>2
        <5>2. inbox[1].n < inbox[i].n
          BY <2>1, <2>2, <2>3, <3>2, <5>1, KindsDiffer DEF InOrder
        <5> QED BY <2>3, <2>4, <3>2, <5>2, KindsDiffer
      <4> QED BY <4>1, <4>2
    <3>3. j < n => Sent(j)
      BY <2>2, <2>4, <3>2 DEF Produced, InBox
    <3> QED BY <3>1, <3>3
  <2> HIDE DEF n
  <2>6. Contract!EmitOutput
    BY <2>1, <2>2, <2>4, <2>5, SameWords DEF Contract!EmitOutput, Contract!Out, Out
  <2> QED BY <2>6 DEF Contract!Next
<1>9. CASE (ShuttleEnd \/ ShuttleLost) /\ RxAlive
  <2>1. /\ sent' = Append(sent, Signal("exited")) /\ produced' = produced
        /\ ~ShuttleDone /\ ShuttleDone' /\ ~Has("exited")
        /\ inbox = <<>> \/ (inbox # <<>> /\ Head(inbox).kind \in Ends)
    BY <1>9 DEF ShuttleEnd, ShuttleLost, Waiting, Exited, Emit, ShuttleDone, StreamInv, Ends
  <2>2. \A k \in 1..produced : Sent(k)
    BY <2>1, AllSent
  <2>3. Contract!EmitLast
    BY <2>1, <2>2, SameWords DEF Contract!EmitLast, Contract!Signal, Signal
  <2> QED BY <2>3 DEF Contract!Next
<1>10. CASE Bridge \/ SpawnOk \/ SpawnFails \/ ClientSend \/ ClientExit
  BY <1>1, <1>10 DEF Bridge, BridgeForward, BridgeEnd, SpawnOk, SpawnFails, ClientSend,
     ClientExit
<1>11. CASE Drop
  BY <1>1, <1>11 DEF Drop, DropGoesOn, DropStopShuttle, DropStopBridge, DropJoined, DropDetach
<1>12. CASE Tick \/ UNCHANGED vars
  BY <1>1, <1>12 DEF Tick, vars
<1> QED BY <1>1, <1>2, <1>3, <1>4, <1>5, <1>6, <1>7, <1>8, <1>9, <1>10, <1>11, <1>12
        DEF Next, Shuttle, Finished

(* The SSH session implements the event-stream contract as event.rs words it: every  *)
(* chunk once and in order, Exited behind all of them, nothing behind Exited         *)
(* (crates/ssh/src/shuttle.rs; crates/transport/src/event.rs).                       *)
THEOREM SshStreamImplemented == Spec => ImplementsStream
<1>1. Init => StreamInv
  BY DEF Init, StreamInv, OpenHasNoEnd, EndIsLast, InOrder, SentFirst, Produced, Has
<1>2. Init => Contract!Init
  BY DEF Init, Contract!Init, ShuttleDone
<1> QED
  BY <1>1, <1>2, DataInit, DataStep, StreamInvStep, StreamStep, PTL
  DEF Spec, ImplementsStream, Contract!Spec
-----------------------------------------------------------------------------
(* Drop and its join budget *)

Closing == {"close", "closeLast", "disconnect"}

(* Who has been told to stop when, and what is left of the two timeouts.              *)
ControlInv ==
    /\ shuttle \in {"connect", "auth", "channel", "select", "write", "ended", "closed"} \cup Closing
    /\ bridge \in {"run", "done"}
    /\ closeLeft \in 0..CloseTicks /\ joinLeft \in 0..JoinBudget
    /\ handle \in {"live", "stopBridge", "joining"} => ~SettingUp
    /\ handle \in {"stopBridge", "joining"} => stopShuttle
    /\ handle = "joining" => stopBridge

(* While Drop joins, on time: a shuttle that has not begun to close leaves the whole  *)
(* budget, one that closes has time for its timeouts.                                 *)
Enough ==
    /\ shuttle \in {"select", "write"} => joinLeft = JoinBudget
    /\ shuttle = "close" => joinLeft >= closeLeft + CloseTicks
    /\ shuttle \in {"closeLast", "disconnect"} => joinLeft >= closeLeft

DropInv == ControlInv /\ (handle = "joining" /\ ~late => Enough)

(* The code's 3 s cover the 500 ms each for the channel and the connection.           *)
BudgetCovers == JoinBudget > 0 /\ JoinBudget >= CloseTicks + CloseTicks

LEMMA ControlStep ==
    ASSUME DataOK, EndInv, ControlInv, [Next]_vars
    PROVE  ControlInv'
<1> USE SshAssumption DEF ControlInv, Closing, SettingUp, netVars, arriveVars, shuttleVars,
        bridgeVars, signalVars, handleVars
<1>1. CASE Environment
  BY <1>1 DEF Environment, ServerData, ServerStatus, ServerEnd, ServerReads, LinkFails
<1>2. CASE Setup
  BY <1>2 DEF Setup, SetupStep, Connect, Authenticate, OpenShell, SetupFails
<1>3. CASE ShuttleShutdown \/ ShuttleWrite \/ ShuttleClose
  BY <1>3 DEF ShuttleShutdown, ShuttleWrite, ShuttleClose
<1>4. CASE ShuttleCommand
  <2>1. NextCommand \in {"write", "resize", "shutdown"}
    BY <1>4, Shorter DEF ShuttleCommand, NextCommand, DataOK, Commands
  <2>2. shuttle' \in {"write", "select", "closeLast"}
    BY <1>4, <2>1 DEF ShuttleCommand
  <2>3. closeLeft' \in {closeLeft, CloseTicks}
    BY <1>4 DEF ShuttleCommand
  <2>4. UNCHANGED <<bridge, joinLeft, handle, stopShuttle, stopBridge>>
    BY <1>4 DEF ShuttleCommand
  <2> QED BY <2>2, <2>3, <2>4
<1>5. CASE ShuttleData \/ ShuttleStatus \/ ShuttleEnd \/ ShuttleLost
  BY <1>5 DEF ShuttleData, ShuttleStatus, ShuttleEnd, ShuttleLost, Waiting
<1>6. CASE Bridge
  BY <1>6 DEF Bridge, BridgeForward, BridgeEnd
<1>7. CASE SpawnOk \/ SpawnFails
  BY <1>7 DEF SpawnOk, SpawnFails, EndInv
<1>8. CASE ClientSend \/ ClientExit
  BY <1>8 DEF ClientSend, ClientExit
<1>9. CASE Drop
  BY <1>9 DEF Drop, DropGoesOn, DropStopShuttle, DropStopBridge, DropJoined, DropDetach
<1>10. CASE Tick \/ UNCHANGED vars
  BY <1>10 DEF Tick, Less, vars
<1> QED BY <1>1, <1>2, <1>3, <1>4, <1>5, <1>6, <1>7, <1>8, <1>9, <1>10
        DEF Next, Shuttle, Finished

LEMMA DropStep ==
    ASSUME DataOK, EndInv, DropInv, BudgetCovers, [Next]_vars
    PROVE  DropInv'
<1> SUFFICES ASSUME handle' = "joining", ~late' PROVE Enough'
  BY ControlStep DEF DropInv
<1> USE SshAssumption DEF netVars, arriveVars, shuttleVars, bridgeVars, signalVars, handleVars
<1>0. /\ closeLeft \in Nat /\ closeLeft <= CloseTicks /\ joinLeft \in Nat
      /\ handle = "joining" => stopShuttle /\ ~SettingUp
  BY DEF DropInv, ControlInv
<1>1. handle = "joining" /\ ~late => Enough
  BY DEF DropInv
<1>2. ASSUME UNCHANGED <<shuttle, closeLeft, joinLeft, handle, late>> PROVE Enough'
  BY <1>1, <1>2 DEF Enough
<1>3. CASE Environment
  BY <1>2, <1>3 DEF Environment, ServerData, ServerStatus, ServerEnd, ServerReads, LinkFails
<1>4. CASE Setup
  BY <1>0, <1>4 DEF Setup, SetupStep, Connect, Authenticate, OpenShell, SetupFails, SettingUp
<1>5. CASE ShuttleShutdown
  BY <1>0, <1>1, <1>5 DEF ShuttleShutdown, Enough, BudgetCovers
<1>6. CASE ShuttleCommand
  BY <1>0, <1>6 DEF ShuttleCommand
<1>7. CASE ShuttleWrite
  BY <1>1, <1>7 DEF ShuttleWrite, Enough
<1>8. CASE ShuttleData \/ ShuttleEnd \/ ShuttleLost
  BY <1>0, <1>8 DEF ShuttleData, ShuttleEnd, ShuttleLost, Waiting
<1>9. CASE ShuttleStatus \/ Bridge \/ ClientSend \/ ClientExit
  BY <1>2, <1>9 DEF ShuttleStatus, Bridge, BridgeForward, BridgeEnd, ClientSend, ClientExit
<1>10. CASE ShuttleClose
  BY <1>0, <1>1, <1>10 DEF ShuttleClose, Enough
<1>11. CASE SpawnOk \/ SpawnFails
  BY <1>11 DEF SpawnOk, SpawnFails
<1>12. CASE DropStopShuttle \/ DropJoined \/ DropDetach
  BY <1>12 DEF DropStopShuttle, DropJoined, DropDetach
<1>13. CASE DropStopBridge
  BY <1>0, <1>13 DEF DropStopBridge, Enough, BudgetCovers
<1>14. CASE Tick
  <2>1. /\ UNCHANGED <<shuttle, handle, link, bridge>>
        /\ closeLeft' = Less(closeLeft) /\ joinLeft' = Less(joinLeft)
        /\ late' = (late \/ ThreadReady \/ shuttle = "write" \/ handle = "stopBridge")
    BY <1>14 DEF Tick
  <2>2. ~late /\ ~ThreadReady /\ shuttle # "write" /\ Enough
    BY <1>1, <2>1
  <2>3. shuttle # "select"
    BY <1>0, <2>1, <2>2 DEF ThreadReady
  <2>4. shuttle \in Closing => closeLeft # 0
    BY <2>2 DEF ThreadReady, Closing
  <2> QED BY <1>0, <2>1, <2>2, <2>3, <2>4 DEF Enough, Less, Closing
<1>15. CASE UNCHANGED vars
  BY <1>2, <1>15 DEF vars
<1> QED BY <1>3, <1>4, <1>5, <1>6, <1>7, <1>8, <1>9, <1>10, <1>11, <1>12, <1>13, <1>14, <1>15
        DEF Next, Shuttle, Drop, DropGoesOn, Finished

(* A budget that has run out on time finds both threads ended.                        *)
LEMMA DetachStep ==
    ASSUME DropInv, BudgetCovers, [Next]_vars
    PROVE  detached' = detached \/ late'
<1> USE DEF netVars, arriveVars, shuttleVars, bridgeVars, signalVars, handleVars
<1>1. CASE DropDetach
  <2>1. SUFFICES ASSUME ~late, ~ThreadReady PROVE FALSE
    BY <1>1 DEF DropDetach
  <2>2. handle = "joining" /\ joinLeft = 0 /\ ~AllDone
    BY <1>1 DEF DropDetach
  <2>3. ControlInv /\ Enough /\ stopShuttle /\ stopBridge /\ ~SettingUp
    BY <2>1, <2>2 DEF DropInv, ControlInv
  <2>4. bridge = "done"
    BY <2>1, <2>3 DEF ControlInv, ThreadReady
  <2>5. shuttle \notin {"select", "write"}
    BY <2>2, <2>3 DEF Enough, BudgetCovers
  <2>6. shuttle \notin Closing
    <3>1. shuttle \in Closing => closeLeft = 0
      BY SshAssumption, <2>2, <2>3 DEF Enough, ControlInv, Closing
    <3> QED BY <2>1, <3>1 DEF ThreadReady, Closing
  <2> QED BY <2>2, <2>3, <2>4, <2>5, <2>6 DEF ControlInv, SettingUp, AllDone, ShuttleDone
<1>2. CASE Environment
  BY <1>2 DEF Environment, ServerData, ServerStatus, ServerEnd, ServerReads, LinkFails
<1>3. CASE Setup
  BY <1>3 DEF Setup, SetupStep, Connect, Authenticate, OpenShell, SetupFails
<1>4. CASE Shuttle
  BY <1>4 DEF Shuttle, ShuttleShutdown, ShuttleCommand, ShuttleWrite, ShuttleData, ShuttleStatus,
     ShuttleEnd, ShuttleLost, ShuttleClose
<1>5. CASE Bridge \/ SpawnOk \/ SpawnFails \/ ClientSend \/ ClientExit
  BY <1>5 DEF Bridge, BridgeForward, BridgeEnd, SpawnOk, SpawnFails, ClientSend, ClientExit
<1>6. CASE DropStopShuttle \/ DropStopBridge \/ DropJoined
  BY <1>6 DEF DropStopShuttle, DropStopBridge, DropJoined
<1>7. CASE Tick \/ UNCHANGED vars
  BY <1>7 DEF Tick, vars
<1> QED BY <1>1, <1>2, <1>3, <1>4, <1>5, <1>6, <1>7
        DEF Next, Drop, DropGoesOn, Finished

(* With a join budget that covers both timeouts, dropping an SSH session leaves a      *)
(* thread behind only when the shuttle had to wait for the server's window, or the     *)
(* threads got no time to run (crates/ssh/src/session.rs, Drop).                       *)
THEOREM DetachJustified == BudgetCovers /\ Spec => DetachOnlyWhenHeldUp
<1> SUFFICES ASSUME BudgetCovers PROVE Spec => DetachOnlyWhenHeldUp
  OBVIOUS
<1>1. Init => EndInv /\ DropInv
  BY SshAssumption DEF Init, EndInv, SettingUp, EndExplained, DropInv, ControlInv
<1>2. DataOK /\ EndInv /\ DropInv /\ [Next]_vars => DropInv'
  BY DropStep
<1>3. DropInv /\ [Next]_vars => [detached' = detached \/ late']_vars
  BY DetachStep
<1> QED
  BY <1>1, <1>2, <1>3, DataInit, DataStep, EndStep, PTL DEF Spec, DetachOnlyWhenHeldUp
=============================================================================
