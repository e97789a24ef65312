-------------------------- MODULE PtyBackend_proofs ---------------------------
(***************************************************************************)
(* What PtyBackend guarantees for every bound, every grace and join        *)
(* budget, timely or not, with read and wait errors or without.            *)
(***************************************************************************)
EXTENDS PtyBackend, TLAPS

-----------------------------------------------------------------------------
(* Types *)

(* What the threads put into the channel are events, and the channel stays a    *)
(* sequence of them.                                                            *)
LEMMA EmitType ==
    ASSUME sent \in Seq(Event), NEW e \in Event, Emit(e)
    PROVE  sent' \in Seq(Event)
BY DEF Emit

LEMMA OutIsEvent == ASSUME NEW k \in Nat PROVE Out(k) \in Event
BY DEF Out, Event

LEMMA SignalIsEvent ==
    ASSUME NEW k \in {"exited", "readError", "writeError", "waitError"}
    PROVE  Signal(k) \in Event
BY DEF Signal, Event, ErrorKinds

(* The data of the threads is well typed after every step: the read position     *)
(* never passes what was produced, the line never holds more than it can, no     *)
(* timer goes below zero.                                                        *)
LEMMA DataStep == DataOK /\ [Next]_vars => DataOK'
<1> SUFFICES ASSUME DataOK, [Next]_vars PROVE DataOK'
  OBVIOUS
<1> USE PtyAssumption DEF DataOK, procVars, ttyVars, readerVars, writerVars, waiterVars,
                          dropVars
<1>1. CASE ProcessOutput
  BY <1>1 DEF ProcessOutput
<1>2. CASE ProcessInput
  BY <1>2 DEF ProcessInput
<1>3. CASE Fork
  BY <1>3 DEF Fork
<1>4. CASE HolderExit
  BY <1>4 DEF HolderExit
<1>5. CASE ChildExit
  BY <1>5 DEF ChildExit
<1>6. CASE ReaderRead
  BY <1>6 DEF ReaderRead
<1>7. CASE ReaderSend
  BY <1>7, EmitType, OutIsEvent, SignalIsEvent DEF ReaderSend
<1>8. CASE ReaderHangup
  BY <1>8 DEF ReaderHangup
<1>9. CASE ReaderError
  BY <1>9, EmitType, OutIsEvent, SignalIsEvent DEF ReaderError
<1>10. CASE WriterRecv
  BY <1>10 DEF WriterRecv, Commands
<1>11. CASE WriterWrite
  BY <1>11 DEF WriterWrite
<1>12. CASE WriterFail
  BY <1>12, EmitType, OutIsEvent, SignalIsEvent DEF WriterFail
<1>13. CASE WriterHangup
  BY <1>13 DEF WriterHangup
<1>14. CASE WriterNotify
  BY <1>14 DEF WriterNotify
<1>15. CASE WaiterPoll
  BY <1>15 DEF WaiterPoll
<1>16. CASE WaiterPollFails
  BY <1>16 DEF WaiterPollFails
<1>17. CASE WaiterLook
  BY <1>17 DEF WaiterLook
<1>18. CASE WaiterEscalate
  BY <1>18 DEF WaiterEscalate, KillGroup
<1>19. CASE WaiterIdle
  BY <1>19 DEF WaiterIdle
<1>20. CASE WaiterReport
  BY <1>20, EmitType, OutIsEvent, SignalIsEvent DEF WaiterReport
<1>21. CASE ClientSend
  BY <1>21 DEF ClientSend, SendCommand
<1>22. CASE ClientExit
  BY <1>22 DEF ClientExit
<1>23. CASE DropShutdown
  BY <1>23 DEF DropShutdown, SendCommand, Commands
<1>24. CASE DropSignal
  BY <1>24 DEF DropSignal
<1>25. CASE DropJoined
  BY <1>25 DEF DropJoined
<1>26. CASE DropDetach
  BY <1>26 DEF DropDetach
<1>27. CASE Tick
  BY <1>27 DEF Tick, Less
<1>28. CASE UNCHANGED vars
  BY <1>28 DEF vars
<1>29. QED
  BY <1>1, <1>2, <1>3, <1>4, <1>5, <1>6, <1>7, <1>8, <1>9, <1>10, <1>11, <1>12, <1>13, <1>14, <1>15, <1>16, <1>17, <1>18, <1>19, <1>20, <1>21, <1>22, <1>23, <1>24, <1>25, <1>26, <1>27, <1>28
  DEF Next, Environment, Reader, Writer, Waiter, Drop, DropGoesOn

(* The flags stay Boolean.                                                       *)
LEMMA FlagsStep == FlagsOK /\ [Next]_vars => FlagsOK'
<1> SUFFICES ASSUME FlagsOK, [Next]_vars PROVE FlagsOK'
  OBVIOUS
<1> USE DEF FlagsOK, procVars, ttyVars, readerVars, writerVars, waiterVars, dropVars
<1>1. CASE Environment
  BY <1>1 DEF Environment, ProcessOutput, ProcessInput, Fork, HolderExit, ChildExit
<1>2. CASE Reader
  BY <1>2 DEF Reader, ReaderRead, ReaderSend, ReaderHangup, ReaderError
<1>3. CASE Writer
  BY <1>3 DEF Writer, WriterRecv, WriterWrite, WriterFail, WriterHangup, WriterNotify
<1>4. CASE Waiter
  BY <1>4 DEF Waiter, WaiterPoll, WaiterPollFails, WaiterLook, WaiterEscalate, WaiterIdle, WaiterReport,
     KillGroup
<1>5. CASE ClientSend \/ ClientExit
  BY <1>5 DEF ClientSend, ClientExit
<1>6. CASE Drop
  BY <1>6 DEF Drop, DropGoesOn, DropShutdown, DropSignal, DropJoined, DropDetach
<1>7. CASE Tick
  BY <1>7 DEF Tick
<1>8. CASE UNCHANGED vars
  BY <1>8 DEF vars
<1>9. QED
  BY <1>1, <1>2, <1>3, <1>4, <1>5, <1>6, <1>7, <1>8 DEF Next

(* Every reachable state is well typed.                                          *)
THEOREM TypeCorrect == Spec => []TypeOK
<1>1. Init => TypeOK
  <2>1. Init => DataOK
    BY PtyAssumption DEF Init, DataOK
  <2>2. Init => FlagsOK
    BY DEF Init, FlagsOK
  <2>3. QED
    BY <2>1, <2>2 DEF TypeOK
<1>2. TypeOK /\ [Next]_vars => TypeOK'
  BY DataStep, FlagsStep DEF TypeOK
<1>3. QED
  BY <1>1, <1>2, PTL DEF Spec

-----------------------------------------------------------------------------
(* SIGKILL and the pid *)

(* A waiter that is about to act on its clock has just seen the child running,   *)
(* and nobody else reaps: `reaped' can only be found at the barrier or later.    *)
KillInv == SigkillOnOwnGroup /\ (tpc = "armed" => child # "reaped")

LEMMA KillStep == KillInv /\ [Next]_vars => KillInv'
<1> SUFFICES ASSUME KillInv, [Next]_vars PROVE KillInv'
  OBVIOUS
<1> USE DEF KillInv, SigkillOnOwnGroup, procVars, ttyVars, readerVars, writerVars, waiterVars,
            dropVars
<1>1. CASE Environment
  BY <1>1 DEF Environment, ProcessOutput, ProcessInput, Fork, HolderExit, ChildExit
<1>2. CASE Reader
  BY <1>2 DEF Reader, ReaderRead, ReaderSend, ReaderHangup, ReaderError
<1>3. CASE Writer
  BY <1>3 DEF Writer, WriterRecv, WriterWrite, WriterFail, WriterHangup, WriterNotify
<1>4. CASE Waiter
  <2>1. CASE WaiterPoll \/ WaiterPollFails
    BY <2>1 DEF WaiterPoll, WaiterPollFails
  <2>2. CASE WaiterEscalate
    BY <2>2 DEF WaiterEscalate, KillGroup
  <2>3. CASE WaiterLook \/ WaiterIdle \/ WaiterReport
    BY <2>3 DEF WaiterLook, WaiterIdle, WaiterReport
  <2>4. QED
    BY <1>4, <2>1, <2>2, <2>3 DEF Waiter
<1>5. CASE ClientSend \/ ClientExit
  BY <1>5 DEF ClientSend, ClientExit
<1>6. CASE Drop
  BY <1>6 DEF Drop, DropGoesOn, DropShutdown, DropSignal, DropJoined, DropDetach
<1>7. CASE Tick
  BY <1>7 DEF Tick
<1>8. CASE UNCHANGED vars
  BY <1>8 DEF vars
<1>9. QED
  BY <1>1, <1>2, <1>3, <1>4, <1>5, <1>6, <1>7, <1>8 DEF Next

(* SIGKILL is never sent to a process group whose pid has been released: the     *)
(* waiter's try_wait and killpg share a thread, and a kill is always preceded,   *)
(* in the same iteration, by a try_wait that found the child running.            *)
THEOREM KillSafe == Spec => []SigkillOnOwnGroup
<1>1. Init => KillInv
  BY DEF Init, KillInv, SigkillOnOwnGroup
<1>2. KillInv => SigkillOnOwnGroup
  BY DEF KillInv
<1>3. QED
  BY <1>1, <1>2, KillStep, PTL DEF Spec

-----------------------------------------------------------------------------
(* The order of the output *)

(* A send leaves what is in the channel and adds at most one event at its end,   *)
(* and that only while a receiver is left.                                       *)
LEMMA EmitFacts ==
    ASSUME sent \in Seq(Event), NEW e \in Event, Emit(e)
    PROVE  /\ \A i \in DOMAIN sent : i \in DOMAIN sent' /\ sent'[i] = sent[i]
           /\ \A i \in DOMAIN sent' \ DOMAIN sent :
                 i = Len(sent) + 1 /\ sent'[i] = e /\ DOMAIN sent = 1..(i - 1)
           /\ RxAlive => Len(sent) + 1 \in DOMAIN sent' /\ sent'[Len(sent) + 1] = e
           /\ DOMAIN sent = 1..Len(sent)
           /\ \A i \in DOMAIN sent' : i \in Nat /\ 1..(i - 1) \subseteq DOMAIN sent
BY DEF Emit

LEMMA KindOfSignal ==
    ASSUME NEW k \in {"exited", "readError", "writeError", "waitError"}
    PROVE  Signal(k).kind = k /\ \A n : Signal(k) # Out(n)
BY DEF Signal, Out

(* What the arguments about the channel need of the types.                        *)
ChannelOK == sent \in Seq(Event) /\ read \in Nat

LEMMA ChannelTyped == DataOK => ChannelOK
BY PtyAssumption DEF DataOK, ChannelOK

Delivered(k) == \E j \in DOMAIN sent : sent[j] = Out(k)

(* The reader holds at most one chunk that is not in the channel yet, the last   *)
(* one it read.                                                                  *)
OrderInv ==
    /\ OutputInOrder
    /\ rpc = "read" => \A k \in 1..read : Delivered(k)
    /\ rpc = "send" => /\ read # 0 /\ ~Delivered(read)
                       /\ \A k \in 1..(read - 1) : Delivered(k)

(* A step that neither reads nor sends. *)
LEMMA OrderQuiet ==
    ASSUME OrderInv, sent' = sent, read' = read, rpc' = rpc
    PROVE  OrderInv'
BY DEF OrderInv, OutputInOrder, Delivered, Out

(* An event that is no output does not disturb the order. *)
LEMMA OrderSignal ==
    ASSUME OrderInv, sent \in Seq(Event), read' = read, rpc' \in {rpc, "done"},
           NEW k \in {"exited", "readError", "writeError", "waitError"}, Emit(Signal(k))
    PROVE  OrderInv'
<1> USE EmitFacts, SignalIsEvent, KindOfSignal
<1>1. OutputInOrder'
  BY DEF OrderInv, OutputInOrder, Out
<1>2. \A n : Delivered(n)' <=> Delivered(n)
  BY DEF Delivered
<1>3. QED
  BY <1>1, <1>2 DEF OrderInv

LEMMA OrderStep == ChannelOK /\ OrderInv /\ [Next]_vars => OrderInv'
<1> SUFFICES ASSUME ChannelOK, OrderInv, [Next]_vars PROVE OrderInv'
  OBVIOUS
<1> USE DEF procVars, ttyVars, readerVars, writerVars, waiterVars, dropVars
<1>0. sent \in Seq(Event) /\ read \in Nat
  BY DEF ChannelOK
<1>1. CASE Environment
  BY <1>1, OrderQuiet DEF Environment, ProcessOutput, ProcessInput, Fork, HolderExit, ChildExit
<1>2. CASE ReaderRead
  <2>1. /\ rpc = "read" /\ rpc' = "send" /\ read' = read + 1 /\ sent' = sent
        /\ OutputInOrder /\ \A k \in 1..read : Delivered(k)
    BY <1>2 DEF ReaderRead, OrderInv
  <2>2. read' # 0 /\ read' - 1 = read /\ 1..read \subseteq 1..read'
    BY <1>0, <2>1
  <2>3. OutputInOrder'
    BY <2>1, <2>2 DEF OutputInOrder, Out
  <2>4. ~Delivered(read + 1)
    BY <1>0, <2>1 DEF Delivered, OutputInOrder, Out
  <2>5. ~Delivered(read)'
    BY <2>1, <2>4 DEF Delivered
  <2>6. \A k \in 1..(read' - 1) : Delivered(k)'
    BY <2>1, <2>2 DEF Delivered
  <2>7. QED
    BY <2>1, <2>2, <2>3, <2>5, <2>6 DEF OrderInv
<1>3. CASE ReaderSend
  <2> USE EmitFacts, OutIsEvent, <1>0
  <2>1. Emit(Out(read)) /\ read' = read /\ rpc = "send"
    BY <1>3 DEF ReaderSend
  <2>2. OutputInOrder'
    <3> SUFFICES ASSUME NEW i \in DOMAIN sent', sent'[i].kind = "output"
                 PROVE  /\ sent'[i].n \in 1..read
                        /\ \A k \in 1..(sent'[i].n - 1) : \E j \in 1..(i - 1) : sent'[j] = Out(k)
                        /\ \A j \in 1..(i - 1) : sent'[j] # sent'[i]
      BY <2>1 DEF OutputInOrder, Out
    <3>1. CASE i \in DOMAIN sent
      BY <2>1, <3>1 DEF OrderInv, OutputInOrder
    <3>2. CASE i \notin DOMAIN sent
      BY <2>1, <3>2 DEF OrderInv, Delivered, Out
    <3>3. QED
      BY <3>1, <3>2
  <2>3. rpc' = "read" => RxAlive
    BY <1>3 DEF ReaderSend
  <2>4. RxAlive => Delivered(read)'
    BY <2>1 DEF Delivered, Out
  <2>5. \A k \in 1..(read - 1) : Delivered(k)'
    BY <2>1 DEF OrderInv, Delivered, Out
  <2>6. rpc' \in {"read", "done"}
    BY <1>3 DEF ReaderSend
  <2>7. QED
    BY <2>1, <2>2, <2>3, <2>4, <2>5, <2>6 DEF OrderInv
<1>4. CASE ReaderHangup
  BY <1>4 DEF ReaderHangup, OrderInv, OutputInOrder
<1>5. CASE ReaderError
  BY <1>0, <1>5, OrderSignal DEF ReaderError
<1>6. CASE WriterFail
  BY <1>0, <1>6, OrderSignal DEF WriterFail
<1>7. CASE Writer /\ ~WriterFail
  BY <1>7, OrderQuiet DEF Writer, WriterRecv, WriterWrite, WriterHangup,
     WriterNotify
<1>8. CASE WaiterReport
  BY <1>0, <1>8, OrderSignal DEF WaiterReport
<1>9. CASE Waiter /\ ~WaiterReport
  BY <1>9, OrderQuiet DEF Waiter, WaiterPoll, WaiterPollFails, WaiterLook, WaiterEscalate,
     WaiterIdle
<1>10. CASE ClientSend \/ ClientExit \/ Tick
  BY <1>10, OrderQuiet DEF ClientSend, ClientExit, Tick
<1>11. CASE Drop
  BY <1>11, OrderQuiet DEF Drop, DropGoesOn, DropShutdown, DropSignal, DropJoined, DropDetach
<1>12. CASE UNCHANGED vars
  BY <1>12, OrderQuiet DEF vars
<1>13. QED
  BY <1>1, <1>2, <1>3, <1>4, <1>5, <1>6, <1>7, <1>8, <1>9, <1>10, <1>11, <1>12
  DEF Next, Reader

(* Output events carry the chunks in production order, each once, none skipped,  *)
(* whatever the other two threads put between them and however the session ends. *)
THEOREM OutputOrdered == Spec => []OutputInOrder
<1>1. Init => OrderInv
  BY DEF Init, OrderInv, OutputInOrder, Delivered
<1>2. OrderInv => OutputInOrder
  BY DEF OrderInv
<1>3. TypeOK => DataOK /\ ChannelOK
  BY ChannelTyped DEF TypeOK
<1>4. QED
  BY <1>1, <1>2, <1>3, TypeCorrect, OrderStep, PTL DEF Spec

-----------------------------------------------------------------------------
(* Exited and the output *)

(* Nothing more can come out of the terminal, and all that came is in the channel. *)
Drained == ~SlaveOpen /\ \A k \in 1..produced : Delivered(k)

(* Why the reader has ended, and what an Exited event stands for.  The second part *)
(* keeps ~SlaveOpen, which the invariant of the run does not mention: without it   *)
(* a chunk could still be produced after the event.                                *)
ExitInv ==
    /\ rpc = "done" => Has("readError") \/ ~RxAlive \/ Drained
    /\ \A i \in DOMAIN sent : sent[i].kind = "exited" =>
          \/ \E j \in 1..(i - 1) : sent[j].kind = "readError"
          \/ /\ ~SlaveOpen
             /\ \A k \in 1..produced : \E j \in 1..(i - 1) : sent[j] = Out(k)

(* A closed slave stays closed and silent. *)
LEMMA SlaveStep ==
    ASSUME [Next]_vars
    PROVE  ~SlaveOpen => ~SlaveOpen' /\ produced' = produced
<1> USE DEF SlaveOpen, procVars, ttyVars, readerVars, writerVars, waiterVars, dropVars
<1>1. CASE Environment
  BY <1>1 DEF Environment, ProcessOutput, ProcessInput, Fork, HolderExit, ChildExit
<1>2. CASE Reader
  BY <1>2 DEF Reader, ReaderRead, ReaderSend, ReaderHangup, ReaderError
<1>3. CASE Writer
  BY <1>3 DEF Writer, WriterRecv, WriterWrite, WriterFail, WriterHangup, WriterNotify
<1>4. CASE Waiter
  BY <1>4 DEF Waiter, WaiterPoll, WaiterPollFails, WaiterLook, WaiterEscalate, WaiterIdle, WaiterReport,
     KillGroup
<1>5. CASE ClientSend \/ ClientExit \/ Tick
  BY <1>5 DEF ClientSend, ClientExit, Tick
<1>6. CASE Drop
  BY <1>6 DEF Drop, DropGoesOn, DropShutdown, DropSignal, DropJoined, DropDetach
<1>7. CASE UNCHANGED vars
  BY <1>7 DEF vars
<1>8. QED
  BY <1>1, <1>2, <1>3, <1>4, <1>5, <1>6, <1>7 DEF Next

(* A receiver that is gone stays gone.                                             *)
LEMMA RxStep == ASSUME [Next]_vars PROVE RxAlive' => RxAlive
<1> USE DEF RxAlive, procVars, ttyVars, readerVars, writerVars, waiterVars, dropVars
<1>1. CASE Environment
  BY <1>1 DEF Environment, ProcessOutput, ProcessInput, Fork, HolderExit, ChildExit
<1>2. CASE Reader
  BY <1>2 DEF Reader, ReaderRead, ReaderSend, ReaderHangup, ReaderError
<1>3. CASE Writer
  BY <1>3 DEF Writer, WriterRecv, WriterWrite, WriterFail, WriterHangup, WriterNotify
<1>4. CASE Waiter
  BY <1>4 DEF Waiter, WaiterPoll, WaiterPollFails, WaiterLook, WaiterEscalate, WaiterIdle, WaiterReport
<1>5. CASE ClientSend \/ ClientExit \/ Tick
  BY <1>5 DEF ClientSend, ClientExit, Tick
<1>6. CASE Drop
  BY <1>6 DEF Drop, DropGoesOn, DropShutdown, DropSignal, DropJoined, DropDetach
<1>7. CASE UNCHANGED vars
  BY <1>7 DEF vars
<1>8. QED
  BY <1>1, <1>2, <1>3, <1>4, <1>5, <1>6, <1>7 DEF Next

(* A step that does not send and does not end the reader. *)
LEMMA ExitQuiet ==
    ASSUME ExitInv, [Next]_vars, sent' = sent, rpc' = "done" => rpc = "done"
    PROVE  ExitInv'
<1>1. Has("readError") => Has("readError")'
  BY DEF Has
<1>2. Drained => Drained'
  BY SlaveStep DEF Drained, Delivered
<1>3. QED
  BY <1>1, <1>2, SlaveStep, RxStep DEF ExitInv

(* A step that sends something other than Exited.                                  *)
LEMMA ExitOther ==
    ASSUME ExitInv, [Next]_vars, sent \in Seq(Event), NEW e \in Event, e.kind # "exited",
           Emit(e), rpc' = "done" => rpc = "done" \/ ~RxAlive \/ e.kind = "readError"
    PROVE  ExitInv'
<1> USE EmitFacts
<1>1. Has("readError") => Has("readError")'
  BY DEF Has
<1>2. Drained => Drained'
  BY SlaveStep DEF Drained, Delivered
<1>3. e.kind = "readError" /\ RxAlive => Has("readError")'
  BY DEF Has
<1>4. (rpc = "done" => Has("readError") \/ ~RxAlive \/ Drained)'
  BY <1>1, <1>2, <1>3, RxStep DEF ExitInv
<1>5. ASSUME NEW i \in DOMAIN sent', sent'[i].kind = "exited"
      PROVE  \/ \E j \in 1..(i - 1) : sent'[j].kind = "readError"
             \/ /\ ~SlaveOpen'
                /\ \A k \in 1..produced' : \E j \in 1..(i - 1) : sent'[j] = Out(k)
  <2>1. i \in DOMAIN sent /\ sent[i].kind = "exited"
    BY <1>5
  <2>2. CASE \E j \in 1..(i - 1) : sent[j].kind = "readError"
    BY <2>1, <2>2
  <2>3. CASE ~SlaveOpen /\ \A k \in 1..produced : \E j \in 1..(i - 1) : sent[j] = Out(k)
    BY <2>1, <2>3, SlaveStep
  <2>4. QED
    BY <2>1, <2>2, <2>3 DEF ExitInv
<1>6. QED
  BY <1>4, <1>5 DEF ExitInv, Out

LEMMA ExitStep == ChannelOK /\ OrderInv /\ ExitInv /\ [Next]_vars => ExitInv'
<1> SUFFICES ASSUME ChannelOK, OrderInv, ExitInv, [Next]_vars PROVE ExitInv'
  OBVIOUS
<1> USE DEF procVars, ttyVars, readerVars, writerVars, waiterVars, dropVars
<1>0. sent \in Seq(Event) /\ read \in Nat
  BY DEF ChannelOK
<1>1. CASE Environment
  BY <1>1, ExitQuiet DEF Environment, ProcessOutput, ProcessInput, Fork, HolderExit, ChildExit
<1>2. CASE ReaderRead
  BY <1>2, ExitQuiet DEF ReaderRead
<1>3. CASE ReaderSend
  <2>1. Out(read) \in Event /\ Out(read).kind = "output"
    BY <1>0, OutIsEvent DEF Out
  <2>2. Emit(Out(read)) /\ (rpc' = "done" => ~RxAlive)
    BY <1>3 DEF ReaderSend
  <2>3. QED
    BY <1>0, <2>1, <2>2, ExitOther
<1>4. CASE ReaderHangup
  <2>1. sent' = sent /\ produced' = produced /\ Drained
    BY <1>4 DEF ReaderHangup, OrderInv, Drained
  <2>2. Drained'
    BY <2>1, SlaveStep DEF Drained, Delivered
  <2>3. QED
    BY <2>1, <2>2, SlaveStep DEF ExitInv
<1>5. CASE ReaderError
  BY <1>0, <1>5, ExitOther, SignalIsEvent, KindOfSignal DEF ReaderError
<1>6. CASE WriterFail
  BY <1>0, <1>6, ExitOther, SignalIsEvent, KindOfSignal DEF WriterFail
<1>7. CASE Writer /\ ~WriterFail
  BY <1>7, ExitQuiet DEF Writer, WriterRecv, WriterWrite, WriterHangup,
     WriterNotify
<1>8. CASE WaiterReport /\ ~waitOk
  BY <1>0, <1>8, ExitOther, SignalIsEvent, KindOfSignal DEF WaiterReport
<1>9. CASE WaiterReport /\ waitOk
  <2> USE EmitFacts, SignalIsEvent, KindOfSignal, <1>0
  <2>1. Emit(Signal("exited")) /\ rpc' = rpc /\ rpc = "done"
    BY <1>9 DEF WaiterReport
  <2>2. Has("readError") => Has("readError")'
    BY <2>1 DEF Has
  <2>3. Drained => Drained'
    BY <2>1, SlaveStep DEF Drained, Delivered
  <2>4. ASSUME NEW i \in DOMAIN sent', sent'[i].kind = "exited"
        PROVE  \/ \E j \in 1..(i - 1) : sent'[j].kind = "readError"
               \/ /\ ~SlaveOpen'
                  /\ \A k \in 1..produced' : \E j \in 1..(i - 1) : sent'[j] = Out(k)
    <3>1. CASE i \in DOMAIN sent
      BY <2>1, <2>4, <3>1, SlaveStep DEF ExitInv
    <3>2. CASE i \notin DOMAIN sent
      <4>1. RxAlive /\ DOMAIN sent = 1..(i - 1)
        BY <2>1, <3>2 DEF Emit
      <4>2. Has("readError") \/ Drained
        BY <2>1, <4>1 DEF ExitInv
      <4>3. QED
        BY <2>1, <4>1, <4>2, SlaveStep DEF Has, Drained, Delivered
    <3>3. QED
      BY <3>1, <3>2
  <2>5. QED
    BY <2>1, <2>2, <2>3, <2>4, RxStep DEF ExitInv, Out
<1>10. CASE Waiter /\ ~WaiterReport
  BY <1>10, ExitQuiet DEF Waiter, WaiterPoll, WaiterPollFails, WaiterLook, WaiterEscalate,
     WaiterIdle
<1>11. CASE ClientSend \/ ClientExit \/ Tick
  BY <1>11, ExitQuiet DEF ClientSend, ClientExit, Tick
<1>12. CASE Drop
  BY <1>12, ExitQuiet DEF Drop, DropGoesOn, DropShutdown, DropSignal, DropJoined, DropDetach
<1>13. CASE UNCHANGED vars
  BY <1>13, ExitQuiet DEF vars
<1>14. QED
  BY <1>1, <1>2, <1>3, <1>4, <1>5, <1>6, <1>7, <1>8, <1>9, <1>10, <1>11, <1>12, <1>13
  DEF Next, Reader

(* An Exited event stands behind every chunk the terminal will ever have produced, *)
(* or behind the read error that explains why it does not.                         *)
THEOREM ExitAfterOutput == Spec => []ExitedAfterAllOutput
<1>1. Init => OrderInv /\ ExitInv
  BY DEF Init, OrderInv, OutputInOrder, Delivered, ExitInv
<1>2. ExitInv => ExitedAfterAllOutput
  BY DEF ExitInv, ExitedAfterAllOutput
<1>3. TypeOK => DataOK /\ ChannelOK
  BY ChannelTyped DEF TypeOK
<1>4. QED
  BY <1>1, <1>2, <1>3, TypeCorrect, OrderStep, ExitStep, PTL DEF Spec

-----------------------------------------------------------------------------
(* The event-stream contract *)

(* Exited is put into the channel by the waiter's last step, behind the reader's. *)
EndInv == Has("exited") => rpc = "done" /\ tpc = "done"

LEMMA EndStep == DataOK /\ EndInv /\ [Next]_vars => EndInv'
<1> SUFFICES ASSUME DataOK, EndInv, [Next]_vars PROVE EndInv'
  OBVIOUS
<1> USE DEF EndInv, procVars, ttyVars, readerVars, writerVars, waiterVars, dropVars
<1>0. sent \in Seq(Event) /\ read \in Nat
  BY PtyAssumption DEF DataOK
<1>1. CASE Environment
  BY <1>1 DEF Has, Environment, ProcessOutput, ProcessInput, Fork, HolderExit, ChildExit
<1>2. CASE ReaderSend
  <2>1. Out(read) \in Event /\ Out(read).kind = "output" /\ Emit(Out(read))
    BY <1>0, <1>2, OutIsEvent DEF Out, ReaderSend
  <2>2. Has("exited")' => Has("exited")
    BY <1>0, <2>1, EmitFacts DEF Has
  <2>3. QED
    BY <1>2, <2>2 DEF ReaderSend
<1>3. CASE Reader /\ ~ReaderSend /\ ~ReaderError
  BY <1>3 DEF Has, Reader, ReaderRead, ReaderHangup
<1>4. CASE ReaderError
  <2>1. Has("exited")' => Has("exited")
    BY <1>0, <1>4, EmitFacts, SignalIsEvent, KindOfSignal DEF Has, ReaderError
  <2>2. QED
    BY <1>4, <2>1 DEF ReaderError
<1>5. CASE WriterFail
  <2>1. Has("exited")' => Has("exited")
    BY <1>0, <1>5, EmitFacts, SignalIsEvent, KindOfSignal DEF Has, WriterFail
  <2>2. QED
    BY <1>5, <2>1 DEF WriterFail
<1>6. CASE Writer /\ ~WriterFail
  BY <1>6 DEF Has, Writer, WriterRecv, WriterWrite, WriterHangup,
     WriterNotify
<1>7. CASE WaiterReport
  BY <1>7 DEF WaiterReport
<1>8. CASE Waiter /\ ~WaiterReport
  BY <1>8 DEF Has, Waiter, WaiterPoll, WaiterPollFails, WaiterLook, WaiterEscalate, WaiterIdle
<1>9. CASE ClientSend \/ ClientExit
  BY <1>9 DEF Has, ClientSend, ClientExit
<1>10. CASE Drop
  BY <1>10 DEF Has, Drop, DropGoesOn, DropShutdown, DropSignal, DropJoined, DropDetach
<1>11. CASE Tick
  BY <1>11 DEF Has, Tick
<1>12. CASE UNCHANGED vars
  BY <1>12 DEF Has, vars
<1>13. QED
  BY <1>1, <1>2, <1>3, <1>4, <1>5, <1>6, <1>7, <1>8, <1>9, <1>10, <1>11, <1>12
  DEF Next, Reader

(* A step that puts nothing into the channel: the stream stutters, or its last     *)
(* sender goes away.                                                               *)
LEMMA StreamQuiet ==
    ASSUME produced' = produced, sent' = sent, AllDone => AllDone'
    PROVE  AsBuilt!Next \/ UNCHANGED AsBuilt!streamVars
BY DEF AsBuilt!Next, AsBuilt!Disconnect, AsBuilt!streamVars

(* A thread that has not ended sends an error. *)
LEMMA StreamError ==
    ASSUME produced' = produced, ~AllDone,
           NEW k \in {"readError", "writeError", "waitError"}, Emit(Signal(k))
    PROVE  AsBuilt!Next \/ UNCHANGED AsBuilt!streamVars
<1>1. CASE RxAlive
  BY <1>1 DEF Emit, AsBuilt!Next, AsBuilt!EmitError, AsBuilt!EmitLast, AsBuilt!ErrorKinds,
     Signal, AsBuilt!Signal
<1>2. CASE ~RxAlive
  BY <1>2, StreamQuiet DEF Emit
<1>3. QED
  BY <1>1, <1>2

LEMMA StreamStep ==
    DataOK /\ OrderInv /\ ExitInv /\ EndInv /\ [Next]_vars
        => AsBuilt!Next \/ UNCHANGED AsBuilt!streamVars
<1> SUFFICES ASSUME DataOK, OrderInv, ExitInv, EndInv, [Next]_vars
             PROVE  AsBuilt!Next \/ UNCHANGED AsBuilt!streamVars
  OBVIOUS
<1> USE DEF AllDone, procVars, ttyVars, readerVars, writerVars, waiterVars, dropVars
<1>0. /\ sent \in Seq(Event) /\ read \in Nat /\ produced \in Nat /\ read \in 0..produced
      /\ DOMAIN sent = 1..Len(sent)
  BY PtyAssumption DEF DataOK
<1>1. CASE ProcessOutput
  <2>1. ~Has("exited") \/ Has("readError")
    BY <1>0, <1>1 DEF ProcessOutput, ExitInv, Has
  <2>2. AsBuilt!Produce
    BY <1>1, <2>1 DEF ProcessOutput, AsBuilt!Produce, AsBuilt!Ended, AsBuilt!Has, Has
  <2>3. QED
    BY <2>2 DEF AsBuilt!Next
<1>2. CASE Environment /\ ~ProcessOutput
  BY <1>2, StreamQuiet DEF Environment, ProcessInput, Fork, HolderExit, ChildExit
<1>3. CASE ReaderSend /\ RxAlive
  <2>1. /\ sent' = Append(sent, Out(read)) /\ produced' = produced
        /\ ~AllDone /\ ~AllDone' /\ rpc = "send"
    BY <1>3 DEF ReaderSend, Emit
  <2>2. ~Has("exited")
    BY <2>1 DEF EndInv
  <2>3. read \in 1..produced
    BY <1>0, <2>1 DEF OrderInv
  <2>4. ASSUME NEW j \in 1..produced PROVE Delivered(j) <=> j < read
    <3>1. Delivered(j) => j \in 1..read
      BY DEF Delivered, OrderInv, OutputInOrder, Out
    <3>2. ~Delivered(read) /\ \A k \in 1..(read - 1) : Delivered(k)
      BY <2>1 DEF OrderInv
    <3>3. QED
      BY <1>0, <2>4, <3>1, <3>2
  <2>5. \A j \in 1..produced : AsBuilt!Delivered(j) <=> j < read
    BY <2>4 DEF Delivered, AsBuilt!Delivered, Out, AsBuilt!Out
  <2>6. AsBuilt!EmitOutput
    BY <2>1, <2>2, <2>3, <2>5 DEF AsBuilt!EmitOutput, AsBuilt!Ended, AsBuilt!Has, Has,
       Out, AsBuilt!Out
  <2>7. QED
    BY <2>6 DEF AsBuilt!Next
<1>4. CASE ReaderSend /\ ~RxAlive
  BY <1>4, StreamQuiet DEF ReaderSend, Emit
<1>5. CASE ReaderRead \/ ReaderHangup
  BY <1>5, StreamQuiet DEF ReaderRead, ReaderHangup
<1>6. CASE ReaderError
  BY <1>6, StreamError DEF ReaderError
<1>7. CASE WriterFail
  BY <1>7, StreamError DEF WriterFail
<1>8. CASE Writer /\ ~WriterFail
  BY <1>8, StreamQuiet DEF Writer, WriterRecv, WriterWrite, WriterHangup,
     WriterNotify
<1>9. CASE WaiterReport /\ ~waitOk
  BY <1>9, StreamError DEF WaiterReport
<1>10. CASE WaiterReport /\ waitOk /\ ~RxAlive
  BY <1>10, StreamQuiet DEF WaiterReport, Emit
<1>11. CASE WaiterReport /\ waitOk /\ RxAlive
  <2>1. /\ sent' = Append(sent, Signal("exited")) /\ produced' = produced
        /\ ~AllDone /\ ~Has("exited") /\ rpc = "done"
    BY <1>11 DEF WaiterReport, Emit, EndInv
  <2>2. Has("readError") \/ \A k \in 1..produced : Delivered(k)
    BY <1>11, <2>1 DEF ExitInv, Drained
  <2>3. AsBuilt!EmitExited \/ AsBuilt!EmitLast
    BY <2>1, <2>2 DEF AsBuilt!EmitExited, AsBuilt!EmitLast, AsBuilt!Ended, AsBuilt!Has, Has,
       Delivered, AsBuilt!Delivered, Out, AsBuilt!Out, Signal, AsBuilt!Signal
  <2>4. QED
    BY <2>3 DEF AsBuilt!Next
<1>12. CASE Waiter /\ ~WaiterReport
  BY <1>12, StreamQuiet DEF Waiter, WaiterPoll, WaiterPollFails, WaiterLook, WaiterEscalate,
     WaiterIdle
<1>13. CASE ClientSend \/ ClientExit
  BY <1>13, StreamQuiet DEF ClientSend, ClientExit
<1>14. CASE Drop
  BY <1>14, StreamQuiet DEF Drop, DropGoesOn, DropShutdown, DropSignal, DropJoined, DropDetach
<1>15. CASE Tick
  BY <1>15, StreamQuiet DEF Tick
<1>16. CASE UNCHANGED vars
  BY <1>16, StreamQuiet DEF vars
<1>17. QED
  BY <1>1, <1>2, <1>3, <1>4, <1>5, <1>6, <1>7, <1>8, <1>9, <1>10, <1>11, <1>12, <1>13, <1>14,
     <1>15, <1>16
  DEF Next, Reader

(* The three threads of a PTY session implement the event-stream contract, with    *)
(* error events allowed behind Exited.                                             *)
THEOREM StreamImplemented == Spec => ImplementsStream
<1>1. Init => OrderInv /\ ExitInv /\ EndInv
  BY DEF Init, OrderInv, OutputInOrder, Delivered, ExitInv, EndInv, Has
<1>2. Init => AsBuilt!Init
  BY DEF Init, AsBuilt!Init, AllDone
<1>3. TypeOK => DataOK /\ ChannelOK
  BY ChannelTyped DEF TypeOK
<1>4. QED
  BY <1>1, <1>2, <1>3, TypeCorrect, OrderStep, ExitStep, EndStep, StreamStep, PTL
  DEF Spec, ImplementsStream, AsBuilt!Spec
-----------------------------------------------------------------------------
(* Drop: what the writer is told, and how long the waiter needs *)

(* Once Drop has begun the writer either has a Shutdown in front of it or has got  *)
(* past it, and the waiter is signalled by Drop or by a writer that then ends.     *)
ToldInv ==
    /\ handle # "live" => \/ wpc \in {"hup", "notify", "done"}
                          \/ \E i \in DOMAIN cmds : cmds[i] = "shutdown"
    /\ signalled => handle \in {"joining", "gone"} \/ wpc = "done"
    /\ seen => signalled

(* A receive takes the command at the head and leaves the others.                  *)
LEMMA RecvFacts ==
    ASSUME cmds \in Seq(Commands), cmds # <<>>
    PROVE  \A i \in DOMAIN cmds : i = 1 \/ (i - 1 \in DOMAIN Tail(cmds)
                                            /\ Tail(cmds)[i - 1] = cmds[i])
OBVIOUS

LEMMA ToldStep == DataOK /\ ToldInv /\ [Next]_vars => ToldInv'
<1> SUFFICES ASSUME DataOK, ToldInv, [Next]_vars PROVE ToldInv'
  OBVIOUS
<1> USE DEF ToldInv, procVars, ttyVars, readerVars, writerVars, waiterVars, dropVars
<1>0. cmds \in Seq(Commands) /\ wpc \in {"recv", "write", "fail", "hup", "notify", "done"}
  BY DEF DataOK
<1>1. CASE Environment
  BY <1>1 DEF Environment, ProcessOutput, ProcessInput, Fork, HolderExit, ChildExit
<1>2. CASE Reader
  BY <1>2 DEF Reader, ReaderRead, ReaderSend, ReaderHangup, ReaderError
<1>3. CASE WriterRecv
  <2>1. wpc = "recv" /\ cmds # <<>> /\ cmds' = Tail(cmds) /\ cmds[1] = Head(cmds)
    BY <1>0, <1>3 DEF WriterRecv
  <2>2. Head(cmds) = "shutdown" => wpc' = "hup"
    BY <1>3 DEF WriterRecv
  <2>3. signalled' = signalled /\ seen' = seen /\ handle' = handle
    BY <1>3 DEF WriterRecv
  <2>4. ASSUME handle # "live", wpc' # "hup"
        PROVE  \E i \in DOMAIN cmds' : cmds'[i] = "shutdown"
    <3>1. PICK i \in DOMAIN cmds : cmds[i] = "shutdown"
      BY <2>1, <2>4
    <3>2. i # 1
      BY <2>1, <2>2, <2>4, <3>1
    <3>3. QED
      BY <1>0, <2>1, <3>1, <3>2, RecvFacts
  <2>5. signalled => handle \in {"joining", "gone"}
    BY <2>1
  <2>6. QED
    BY <2>3, <2>4, <2>5
<1>4. CASE WriterWrite \/ WriterFail \/ WriterHangup \/ WriterNotify
  BY <1>4 DEF WriterWrite, WriterFail, WriterHangup, WriterNotify
<1>5. CASE Waiter
  BY <1>5 DEF Waiter, WaiterPoll, WaiterPollFails, WaiterLook, WaiterEscalate, WaiterIdle, WaiterReport
<1>6. CASE ClientSend
  <2>1. PICK c \in Commands : SendCommand(c)
    BY <1>6 DEF ClientSend
  <2>2. \A i \in DOMAIN cmds : i \in DOMAIN cmds' /\ cmds'[i] = cmds[i]
    BY <1>0, <2>1 DEF SendCommand
  <2>3. QED
    BY <1>6, <2>2 DEF ClientSend
<1>7. CASE ClientExit \/ Tick
  BY <1>7 DEF ClientExit, Tick
<1>8. CASE DropShutdown
  <2>1. wpc # "done" => Len(cmds) + 1 \in DOMAIN cmds' /\ cmds'[Len(cmds) + 1] = "shutdown"
    BY <1>0, <1>8 DEF DropShutdown, SendCommand, Commands
  <2>2. QED
    BY <1>8, <2>1 DEF DropShutdown
<1>9. CASE DropGoesOn
  BY <1>9 DEF DropGoesOn, DropSignal, DropJoined, DropDetach
<1>10. CASE UNCHANGED vars
  BY <1>10 DEF vars
<1>11. QED
  BY <1>1, <1>2, <1>3, <1>4, <1>5, <1>6, <1>7, <1>8, <1>9, <1>10 DEF Next, Writer, Drop

(* A grace that runs out, on time, before a SIGHUP was sent finds the writer        *)
(* blocked in write_all or ended by a failed write: with a Shutdown in its queue an *)
(* idle writer would have had work to do.                                           *)
LEMMA GraceStep ==
    ASSUME DataOK, ToldInv, [Next]_vars, seen, graceLeft # 0, graceLeft' = 0, ~hupSent
    PROVE  wpc \in {"write", "done"} \/ late'
<1> USE DEF procVars, ttyVars, readerVars, writerVars, waiterVars, dropVars
<1>1. CASE Tick
  <2>1. SUFFICES ASSUME ~ThreadReady, ~DropReady PROVE wpc \in {"write", "done"}
    BY <1>1 DEF Tick, Quiescent
  <2>2. wpc \in {"recv", "write", "done"} /\ (wpc = "recv" => cmds = <<>>)
    BY <2>1 DEF DataOK, ThreadReady, WriterReady
  <2>3. QED
    BY <2>2 DEF ToldInv
<1>2. CASE Environment
  BY <1>2 DEF Environment, ProcessOutput, ProcessInput, Fork, HolderExit, ChildExit
<1>3. CASE Reader
  BY <1>3 DEF Reader, ReaderRead, ReaderSend, ReaderHangup, ReaderError
<1>4. CASE Writer
  BY <1>4 DEF Writer, WriterRecv, WriterWrite, WriterFail, WriterHangup, WriterNotify
<1>5. CASE Waiter
  BY <1>5 DEF Waiter, WaiterPoll, WaiterPollFails, WaiterLook, WaiterEscalate, WaiterIdle, WaiterReport
<1>6. CASE ClientSend \/ ClientExit
  BY <1>6 DEF ClientSend, ClientExit
<1>7. CASE Drop
  BY <1>7 DEF Drop, DropGoesOn, DropShutdown, DropSignal, DropJoined, DropDetach
<1>8. CASE UNCHANGED vars
  BY <1>8 DEF vars
<1>9. QED
  BY <1>1, <1>2, <1>3, <1>4, <1>5, <1>6, <1>7, <1>8 DEF Next

(* The contract of Drop is SIGHUP, grace, SIGKILL: the grace runs out before a      *)
(* SIGHUP only when the writer cannot send one, or the threads got no time.         *)
THEOREM SighupFirst == Spec => SighupFirstUnlessWriterStuck
<1>1. Init => ToldInv
  BY DEF Init, ToldInv
<1>2. TypeOK => DataOK
  BY DEF TypeOK
<1>3. DataOK /\ ToldInv /\ [Next]_vars
        => [seen /\ graceLeft # 0 /\ graceLeft' = 0 /\ ~hupSent
               => wpc \in {"write", "done"} \/ late']_vars
  BY GraceStep
<1>4. QED
  BY <1>1, <1>2, <1>3, TypeCorrect, ToldStep, PTL DEF Spec, SighupFirstUnlessWriterStuck

(* The ticks the waiter still needs to reap a child that ignores SIGHUP: up to the  *)
(* next poll when it sleeps, the rest of the grace, and one poll after the SIGKILL. *)
Need ==
    (IF tpc = "sleep" /\ (escalated \/ ~seen \/ graceLeft = 0) THEN 1 ELSE 0)
    + (IF escalated THEN 0
       ELSE 1 + (IF seen THEN graceLeft ELSE IF Grace = 0 THEN 1 ELSE Grace))

(* While Drop joins, on time and with a try_wait that works, the join budget covers *)
(* what the waiter still needs; a waiter past its loop has reaped the child.        *)
BudgetInv ==
    /\ escalated => child # "running" /\ tpc # "armed"
    /\ tpc \in {"barrier", "done"} /\ waitOk => child = "reaped"
    /\ handle = "joining" => signalled
    /\ handle = "joining" /\ ~late /\ waitOk /\ tpc \in {"poll", "armed", "sleep"}
          => joinLeft >= Need

(* The budget SHUTDOWN_JOIN_BUDGET has to have for that, in polling intervals: the  *)
(* grace, the interval in which the waiter may be asleep when Drop signals it, and  *)
(* the one after the kill; the code's 2 s against 500 ms and 50 ms leave room.      *)
BudgetCovers == JoinBudget >= Grace + 2 /\ JoinBudget >= 3

(* What the arguments about the clock need of the types.                           *)
ClockOK == graceLeft \in 0..Grace /\ joinLeft \in 0..JoinBudget

LEMMA ClockTyped == DataOK => ClockOK
BY DEF DataOK, ClockOK

LEMMA NeedBound ==
    ASSUME ClockOK, BudgetCovers
    PROVE  Need \in Nat /\ JoinBudget >= Need
BY PtyAssumption DEF ClockOK, BudgetCovers, Need

(* A step of the others leaves the account as it is.                               *)
LEMMA BudgetQuiet ==
    ASSUME BudgetInv, tpc' = tpc, seen' = seen, escalated' = escalated, waitOk' = waitOk,
           graceLeft' = graceLeft, joinLeft' = joinLeft, late => late',
           handle' = "joining" => handle = "joining",
           signalled => signalled', child' = "running" => child = "running",
           child = "reaped" => child' = "reaped"
    PROVE  BudgetInv'
BY DEF BudgetInv, Need

LEMMA BudgetStep ==
    ASSUME ClockOK, FlagsOK, BudgetInv, BudgetCovers, [Next]_vars
    PROVE  BudgetInv'
<1> USE DEF procVars, ttyVars, readerVars, writerVars, waiterVars, dropVars
<1>0. /\ graceLeft \in Nat /\ graceLeft <= Grace /\ joinLeft \in Nat /\ Grace \in Nat
      /\ JoinBudget \in Nat /\ seen \in BOOLEAN /\ escalated \in BOOLEAN
  BY PtyAssumption DEF ClockOK, FlagsOK
<1>1. CASE Environment
  BY <1>1, BudgetQuiet DEF Environment, ProcessOutput, ProcessInput, Fork, HolderExit, ChildExit
<1>2. CASE Reader
  BY <1>2, BudgetQuiet DEF Reader, ReaderRead, ReaderSend, ReaderHangup, ReaderError
<1>3. CASE Writer
  BY <1>3, BudgetQuiet DEF Writer, WriterRecv, WriterWrite, WriterFail, WriterHangup, WriterNotify
<1>4. CASE WaiterPoll
  BY <1>0, <1>4 DEF WaiterPoll, BudgetInv, Need
<1>5. CASE WaiterPollFails
  BY <1>5 DEF WaiterPollFails, BudgetInv
<1>6. CASE WaiterLook
  BY <1>0, <1>6 DEF WaiterLook, BudgetInv, Need
<1>7. CASE WaiterEscalate
  BY <1>0, <1>7 DEF WaiterEscalate, KillGroup, BudgetInv, Need
<1>8. CASE WaiterIdle
  BY <1>0, <1>8 DEF WaiterIdle, BudgetInv, Need
<1>9. CASE WaiterReport
  BY <1>9 DEF WaiterReport, BudgetInv
<1>10. CASE ClientSend \/ ClientExit
  BY <1>10, BudgetQuiet DEF ClientSend, ClientExit
<1>11. CASE DropShutdown \/ DropJoined \/ DropDetach
  <2>1. /\ UNCHANGED <<tpc, seen, escalated, waitOk, graceLeft, joinLeft, signalled, child>>
        /\ handle' # "joining"
    BY <1>11 DEF DropShutdown, DropJoined, DropDetach
  <2>2. QED
    BY <2>1 DEF BudgetInv
<1>12. CASE DropSignal
  <2>1. /\ UNCHANGED <<tpc, seen, escalated, graceLeft, waitOk, late, child>>
        /\ joinLeft' = JoinBudget /\ signalled'
    BY <1>12 DEF DropSignal
  <2>2. Need' = Need
    BY <2>1 DEF Need
  <2>3. QED
    BY <2>1, <2>2, NeedBound DEF BudgetInv
<1>13. CASE Tick
  <2>1. /\ UNCHANGED <<seen, escalated, waitOk, child, handle, signalled>>
        /\ late' = (late \/ ~Quiescent)
        /\ tpc' = IF tpc = "sleep" THEN "poll" ELSE tpc
        /\ graceLeft' = Less(graceLeft) /\ joinLeft' = Less(joinLeft)
    BY <1>13 DEF Tick
  <2>2. ASSUME handle = "joining", ~late', waitOk, tpc' \in {"poll", "armed", "sleep"}
        PROVE  joinLeft' >= Need'
    <3>1. tpc = "sleep"
      BY <2>1, <2>2 DEF Quiescent, ThreadReady, WaiterReady
    <3>2. joinLeft >= Need
      BY <2>1, <2>2, <3>1 DEF BudgetInv
    <3>3. QED
      BY <1>0, <2>1, <3>1, <3>2 DEF Need, Less
  <2>3. QED
    BY <2>1, <2>2 DEF BudgetInv
<1>14. CASE UNCHANGED vars
  BY <1>14, BudgetQuiet DEF vars
<1>15. QED
  BY <1>1, <1>2, <1>3, <1>4, <1>5, <1>6, <1>7, <1>8, <1>9, <1>10, <1>11, <1>12, <1>13, <1>14
  DEF Next, Waiter, Drop, DropGoesOn

(* A detach that is on time, with nobody else at the slave, cannot happen: the       *)
(* child would be reaped, so reader and writer would see the hang-up and end.        *)
LEMMA DetachStep ==
    ASSUME DataOK, FlagsOK, ToldInv, BudgetInv, [Next]_vars
    PROVE  detached' = detached \/ holders # {} \/ ~waitOk \/ late'
<1> USE DEF procVars, ttyVars, readerVars, writerVars, waiterVars, dropVars
<1>1. CASE DropDetach
  <2>1. SUFFICES ASSUME holders = {}, waitOk, ~late, ~ThreadReady PROVE FALSE
    BY <1>1 DEF DropDetach
  <2>2. handle = "joining" /\ joinLeft = 0 /\ ~AllDone
    BY <1>1 DEF DropDetach
  <2>3. tpc \in {"sleep", "barrier", "done"}
    BY <2>1 DEF DataOK, ThreadReady, WaiterReady
  <2>4. tpc # "sleep"
    <3>1. tpc = "sleep" => Need # 0 /\ Need \in Nat
      BY PtyAssumption DEF Need, DataOK, FlagsOK
    <3>2. QED
      BY <2>1, <2>2, <3>1 DEF BudgetInv
  <2>5. ~SlaveOpen
    BY <2>1, <2>3, <2>4 DEF BudgetInv, SlaveOpen
  <2>6. rpc = "done"
    BY <2>1, <2>5 DEF DataOK, ThreadReady, ReaderReady
  <2>7. tpc = "done"
    BY <2>1, <2>3, <2>4, <2>6 DEF ThreadReady, WaiterReady
  <2>8. wpc \in {"recv", "done"} /\ (wpc = "recv" => cmds = <<>>)
    BY <2>1, <2>5 DEF DataOK, ThreadReady, WriterReady
  <2>9. wpc = "done"
    BY <2>2, <2>8 DEF ToldInv
  <2>10. QED
    BY <2>2, <2>6, <2>7, <2>9 DEF AllDone
<1>2. CASE Environment
  BY <1>2 DEF Environment, ProcessOutput, ProcessInput, Fork, HolderExit, ChildExit
<1>3. CASE Reader
  BY <1>3 DEF Reader, ReaderRead, ReaderSend, ReaderHangup, ReaderError
<1>4. CASE Writer
  BY <1>4 DEF Writer, WriterRecv, WriterWrite, WriterFail, WriterHangup, WriterNotify
<1>5. CASE Waiter
  BY <1>5 DEF Waiter, WaiterPoll, WaiterPollFails, WaiterLook, WaiterEscalate, WaiterIdle, WaiterReport
<1>6. CASE ClientSend \/ ClientExit \/ Tick
  BY <1>6 DEF ClientSend, ClientExit, Tick
<1>7. CASE DropShutdown \/ DropSignal \/ DropJoined
  BY <1>7 DEF DropShutdown, DropSignal, DropJoined
<1>8. CASE UNCHANGED vars
  BY <1>8 DEF vars
<1>9. QED
  BY <1>1, <1>2, <1>3, <1>4, <1>5, <1>6, <1>7, <1>8 DEF Next, Drop, DropGoesOn

(* With a join budget that covers the grace and two polling intervals, dropping the *)
(* handle leaves a thread behind only while a process other than the child holds    *)
(* the slave, or when the threads got no time to run, or try_wait has failed.       *)
THEOREM DetachJustified == BudgetCovers /\ Spec => DetachOnlyWhileHeld
<1> SUFFICES ASSUME BudgetCovers PROVE Spec => DetachOnlyWhileHeld
  OBVIOUS
<1>1. Init => ToldInv /\ BudgetInv
  BY DEF Init, ToldInv, BudgetInv
<1>2. TypeOK => DataOK /\ ClockOK /\ FlagsOK
  BY ClockTyped DEF TypeOK
<1>3. DataOK /\ FlagsOK /\ ToldInv /\ BudgetInv /\ [Next]_vars
        => [detached' = detached \/ holders # {} \/ ~waitOk \/ late']_vars
  BY DetachStep
<1>4. ClockOK /\ FlagsOK /\ BudgetInv /\ [Next]_vars => BudgetInv'
  BY BudgetStep
<1>5. QED
  BY <1>1, <1>2, <1>3, <1>4, TypeCorrect, ToldStep, PTL DEF Spec, DetachOnlyWhileHeld
=============================================================================
