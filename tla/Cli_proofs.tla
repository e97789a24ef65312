------------------------------- MODULE Cli_proofs -------------------------------
(***************************************************************************)
(* What spawn and the perga program guarantee for every bound and budget.  *)
(*                                                                         *)
(* The threads take the steps of PtyBackend from the moment they are       *)
(* started, so the invariants of PtyBackend_proofs hold from then on:      *)
(* those of the channel from the start of the reader (Channel), those of   *)
(* the clock until spawn has given up (Clock).  SpawnInv says who runs at  *)
(* each stage of spawn, MainInv where main may stand, and ShownInv what    *)
(* the consumer of the events has taken.                                   *)
(***************************************************************************)
EXTENDS Cli, PtyBackend_proofs

-----------------------------------------------------------------------------
(* The invariants *)

Early    == {"fork", "clone", "waiter", "hangup", "sleep", "reap"}
Stages   == Early \cup {"reader", "writer", "joining", "up", "failed"}
RunsR    == {"read", "send", "done"}
RunsT    == {"poll", "armed", "sleep", "barrier", "done"}

Types == ChannelOK /\ ClockOK /\ FlagsOK

(* Which threads run, who may have reaped the child, and that no signal has gone   *)
(* astray, as far as spawn has got.                                                *)
SpawnInv ==
    /\ stage \in Stages
    /\ stage \in Early => /\ rpc = "unborn" /\ tpc = "unborn"
                          /\ child # "reaped" /\ ~escalated
    /\ stage = "fork" => child = "none"
    /\ stage \in Early \cup {"reader"} => rpc = "unborn" /\ read = 0 /\ sent = <<>>
    /\ stage \in Early \cup {"reader", "writer"} => wpc = "unborn" /\ handle = "live"
    /\ stage \in {"writer", "joining"} => rpc \in RunsR
    /\ stage \in {"reader", "writer", "joining"} => tpc \in RunsT
    /\ stage = "joining" => wpc = "done" /\ handle = "joining"
    /\ stage \notin {"up", "failed"} => misfired = {}
    /\ tpc = "armed" => child # "reaped"

(* From the start of the reader on the channel is as in PtyBackend. *)
Channel == stage \in {"writer", "up"} => OrderInv /\ ExitInv

(* Until spawn has failed the waiter's account is as in PtyBackend. *)
Clock == stage # "failed" => BudgetInv

(* Where main may stand.  The consumer holds clones of the channel ends in the     *)
(* demo, as long as it runs.                                                       *)
MainInv ==
    /\ mode \in {"demo", "debug"}
    /\ main \in {"raw", "spawn"} => out = "none" /\ (stage = "up" => handle = "live")
    /\ main = "raw" => stage = "fork"
    /\ main = "setup" => stage = "up" /\ handle = "live" /\ out = "none"
    /\ main \in {"setup", "pump", "join"} => mode = "demo"
    /\ main \notin {"raw", "spawn", "end"} => stage = "up"
    /\ main \in {"events", "stdin"} => mode = "debug" /\ out = "run"
    /\ main = "unwind" => failure
    /\ mode = "debug" /\ main = "drop" => Stopped \/ failure
    /\ mode = "demo" /\ out = "run" => engine
    /\ main = "end" /\ ~failure => stage = "up" /\ Stopped

(* The consumer has taken output only, and Exited at most as the last event.       *)
Outputs(n) == \A i \in 1..n : sent[i].kind = "output"

ShownInv ==
    /\ shown \in 0..Len(sent)
    /\ out = "none" => shown = 0
    /\ out = "run" => Outputs(shown)
    /\ out = "exited" => /\ shown \in DOMAIN sent /\ sent[shown].kind = "exited"
                         /\ Outputs(shown - 1)

-----------------------------------------------------------------------------
(* The steps *)

(* A step that leaves the threads and spawn alone: of the session at most the       *)
(* command channel and the clones of its ends change.                               *)
Quiet ==
    UNCHANGED <<procVars, ttyVars, readerVars, wpc, waiterVars, signalled, dropVars,
                late, sent, stage>>

Running == Environment \/ Reader \/ Writer \/ Waiter \/ Tick

LEMMA StepKinds ==
    ASSUME MainInv, FlagsOK, [CliNext]_cvars
    PROVE  \/ Running /\ stage' = stage
           \/ Drop /\ stage' = stage /\ stage = "up"
           \/ SpawnStep
           \/ Quiet /\ engine' \in BOOLEAN /\ (RxAlive' => RxAlive)
<1> USE DEF Quiet, spawnVars, vars, procVars, ttyVars, readerVars, writerVars, waiterVars,
            dropVars, RxAlive, FlagsOK
<1>1. CASE SpawnStep
  BY <1>1
<1>2. CASE ThreadsStep \/ WorldStep \/ TickStep
  BY <1>2 DEF ThreadsStep, WorldStep, TickStep, Running
<1>3. CASE DropSession
  BY <1>3 DEF DropSession, MainInv
<1>4. CASE Setup
  BY <1>4 DEF Setup, MainInv
<1>5. CASE ForwardStep
  BY <1>5 DEF ForwardStep, Forward, MainInv
<1>6. CASE EnterRaw \/ Spawned \/ PumpWake \/ Leave \/ Join \/ DebugIdle \/ PumpEnd
  BY <1>6 DEF EnterRaw, Spawned, PumpWake, Leave, Join, DebugIdle, PumpEnd
<1>7. CASE DebugEvent \/ DebugStdin \/ DebugCtrlD \/ PumpInput \/ Sigwinch
  BY <1>7 DEF DebugEvent, DebugStdin, DebugCtrlD, PumpInput, Sigwinch
<1>8. CASE Finished \/ UNCHANGED cvars
  BY <1>8 DEF Finished, cvars
<1>9. QED
  BY <1>1, <1>2, <1>3, <1>4, <1>5, <1>6, <1>7, <1>8 DEF CliNext, Main

LEMMA RunningIsNext == Running \/ Drop => [Next]_vars
BY DEF Running, Next

(* Types *)

LEMMA ChannelTypes == ChannelOK /\ [Next]_vars => ChannelOK'
<1> SUFFICES ASSUME ChannelOK, [Next]_vars PROVE ChannelOK'
  OBVIOUS
<1> USE DEF ChannelOK, procVars, ttyVars, readerVars, writerVars, waiterVars, dropVars
<1>1. CASE ReaderSend
  BY <1>1, EmitType, OutIsEvent DEF ReaderSend
<1>2. CASE ReaderError \/ WriterFail \/ WaiterReport
  BY <1>2, EmitType, SignalIsEvent DEF ReaderError, WriterFail, WaiterReport
<1>3. CASE Reader /\ ~ReaderSend /\ ~ReaderError
  BY <1>3 DEF Reader, ReaderRead, ReaderHangup
<1>4. CASE Writer /\ ~WriterFail
  BY <1>4 DEF Writer, WriterRecv, WriterWrite, WriterHangup, WriterNotify
<1>5. CASE Waiter /\ ~WaiterReport
  BY <1>5 DEF Waiter, WaiterPoll, WaiterPollFails, WaiterLook, WaiterEscalate, WaiterIdle
<1>6. CASE Environment
  BY <1>6 DEF Environment, ProcessOutput, ProcessInput, Fork, HolderExit, ChildExit
<1>7. CASE ClientSend \/ ClientExit \/ Tick
  BY <1>7 DEF ClientSend, ClientExit, Tick
<1>8. CASE Drop
  BY <1>8 DEF Drop, DropGoesOn, DropShutdown, DropSignal, DropJoined, DropDetach
<1>9. CASE UNCHANGED vars
  BY <1>9 DEF vars
<1>10. QED
  BY <1>1, <1>2, <1>3, <1>4, <1>5, <1>6, <1>7, <1>8, <1>9 DEF Next, Reader, Writer, Waiter

LEMMA ClockTypes == ClockOK /\ [Next]_vars => ClockOK'
<1> SUFFICES ASSUME ClockOK, [Next]_vars PROVE ClockOK'
  OBVIOUS
<1> USE PtyAssumption DEF ClockOK, procVars, ttyVars, readerVars, writerVars, waiterVars, dropVars
<1>1. CASE Reader
  BY <1>1 DEF Reader, ReaderRead, ReaderSend, ReaderHangup, ReaderError
<1>2. CASE Writer
  BY <1>2 DEF Writer, WriterRecv, WriterWrite, WriterFail, WriterHangup, WriterNotify
<1>3. CASE Waiter
  BY <1>3 DEF Waiter, WaiterPoll, WaiterPollFails, WaiterLook, WaiterEscalate, WaiterIdle, WaiterReport
<1>4. CASE Environment
  BY <1>4 DEF Environment, ProcessOutput, ProcessInput, Fork, HolderExit, ChildExit
<1>5. CASE ClientSend \/ ClientExit
  BY <1>5 DEF ClientSend, ClientExit
<1>6. CASE Drop
  BY <1>6 DEF Drop, DropGoesOn, DropShutdown, DropSignal, DropJoined, DropDetach
<1>7. CASE Tick
  BY <1>7 DEF Tick, Less
<1>8. CASE UNCHANGED vars
  BY <1>8 DEF vars
<1>9. QED
  BY <1>1, <1>2, <1>3, <1>4, <1>5, <1>6, <1>7, <1>8 DEF Next

LEMMA TypesStep == MainInv /\ Types /\ [CliNext]_cvars => Types'
<1> SUFFICES ASSUME MainInv, Types, [CliNext]_cvars PROVE Types'
  OBVIOUS
<1>1. CASE Running \/ Drop
  BY <1>1, RunningIsNext, ChannelTypes, ClockTypes, FlagsStep DEF Types
<1>2. CASE SpawnStep
  <2>0. Grace \in 0..Grace /\ JoinBudget \in 0..JoinBudget
    BY PtyAssumption
  <2> USE <2>0 DEF Types, ChannelOK, ClockOK, FlagsOK, procVars, ttyVars, readerVars,
          writerVars, waiterVars, dropVars, vars
  <2>1. CASE SpawnFork \/ SpawnClone \/ SpawnWaiter
    BY <2>1 DEF SpawnFork, SpawnClone, SpawnWaiter
  <2>2. CASE SpawnReader \/ SpawnWriter
    BY <2>2 DEF SpawnReader, SpawnWriter, CleanUp
  <2>3. CASE PartialHangup \/ PartialKill \/ PartialReap
    BY <2>3 DEF PartialHangup, PartialKill, PartialReap, KillGroup
  <2>4. CASE PartialJoin
    BY <2>4 DEF PartialJoin, DropJoined, DropDetach
  <2>5. QED
    BY <1>2, <2>1, <2>2, <2>3, <2>4 DEF SpawnStep, Spawn, Partial
<1>3. CASE Quiet /\ engine' \in BOOLEAN
  BY <1>3 DEF Quiet, Types, ChannelOK, ClockOK, FlagsOK, procVars, ttyVars, readerVars, waiterVars,
     dropVars
<1>4. QED
  BY <1>1, <1>2, <1>3, StepKinds DEF Types

-----------------------------------------------------------------------------
(* The stages of spawn *)

LEMMA SpawnInvStep == MainInv /\ Types /\ SpawnInv /\ [CliNext]_cvars => SpawnInv'
<1> SUFFICES ASSUME MainInv, Types, SpawnInv, [CliNext]_cvars PROVE SpawnInv'
  OBVIOUS
<1> USE DEF SpawnInv, Early, Stages, RunsR, RunsT, procVars, ttyVars, readerVars, writerVars,
            waiterVars, dropVars, vars
<1>1. CASE Environment /\ stage' = stage
  BY <1>1 DEF Environment, ProcessOutput, ProcessInput, Fork, HolderExit, ChildExit
<1>2. CASE Reader /\ stage' = stage
  BY <1>2 DEF Reader, ReaderRead, ReaderSend, ReaderHangup, ReaderError
<1>3. CASE Writer /\ stage' = stage
  BY <1>3 DEF Writer, WriterRecv, WriterWrite, WriterFail, WriterHangup, WriterNotify
<1>4. CASE Waiter /\ stage' = stage
  <2>1. CASE WaiterPoll
    BY <1>4, <2>1 DEF WaiterPoll
  <2>2. CASE WaiterPollFails \/ WaiterLook \/ WaiterIdle
    BY <1>4, <2>2 DEF WaiterPollFails, WaiterLook, WaiterIdle
  <2>3. CASE WaiterEscalate
    BY <1>4, <2>3 DEF WaiterEscalate, KillGroup
  <2>4. CASE WaiterReport
    BY <1>4, <2>4 DEF WaiterReport
  <2>5. QED
    BY <1>4, <2>1, <2>2, <2>3, <2>4 DEF Waiter
<1>5. CASE Tick /\ stage' = stage
  BY <1>5 DEF Tick
<1>6. CASE Drop /\ stage' = stage /\ stage = "up"
  BY <1>6 DEF Drop, DropGoesOn, DropShutdown, DropSignal, DropJoined, DropDetach
<1>7. CASE SpawnStep
  <2>1. CASE SpawnFork
    BY <2>1 DEF SpawnFork
  <2>2. CASE SpawnClone \/ SpawnWaiter
    BY <2>2 DEF SpawnClone, SpawnWaiter
  <2>3. CASE SpawnReader
    BY <2>3 DEF SpawnReader, CleanUp
  <2>4. CASE SpawnWriter
    BY <2>4 DEF SpawnWriter, CleanUp
  <2>5. CASE PartialHangup
    BY <2>5 DEF PartialHangup
  <2>6. CASE PartialKill
    BY <2>6 DEF PartialKill, KillGroup
  <2>7. CASE PartialReap
    BY <2>7 DEF PartialReap
  <2>8. CASE PartialJoin
    BY <2>8 DEF PartialJoin, DropJoined, DropDetach
  <2>9. QED
    BY <1>7, <2>1, <2>2, <2>3, <2>4, <2>5, <2>6, <2>7, <2>8 DEF SpawnStep, Spawn, Partial
<1>8. CASE Quiet
  BY <1>8 DEF Quiet
<1>9. QED
  BY <1>1, <1>2, <1>3, <1>4, <1>5, <1>6, <1>7, <1>8, StepKinds DEF Running, Types

-----------------------------------------------------------------------------
(* The channel and the clock *)

LEMMA ChannelStep ==
    MainInv /\ Types /\ SpawnInv /\ Channel /\ [CliNext]_cvars => Channel'
<1> SUFFICES ASSUME MainInv, Types, SpawnInv, Channel, [CliNext]_cvars,
                    stage' \in {"writer", "up"}
             PROVE  OrderInv' /\ ExitInv'
  BY DEF Channel
<1> USE DEF procVars, ttyVars, readerVars, writerVars, waiterVars, dropVars
<1>1. CASE (Running \/ Drop) /\ stage' = stage
  BY <1>1, RunningIsNext, OrderStep, ExitStep DEF Channel, Types
<1>2. CASE SpawnStep
  <2>1. \/ SpawnReader /\ stage' = "writer"
        \/ SpawnWriter /\ stage' = "up"
    <3>1. \/ SpawnFork \/ SpawnClone \/ SpawnWaiter \/ SpawnReader \/ SpawnWriter
          \/ PartialHangup \/ PartialKill \/ PartialReap \/ PartialJoin
      BY <1>2 DEF SpawnStep, Spawn, Partial
    <3>2. stage' \in {"writer", "up"}
      OBVIOUS
    <3>3. /\ SpawnFork => stage' \in {"clone", "failed"}
          /\ SpawnClone => stage' \in {"waiter", "hangup"}
          /\ SpawnWaiter => stage' \in {"reader", "hangup"}
          /\ SpawnReader => stage' \in {"writer", "joining"}
          /\ SpawnWriter => stage' \in {"up", "joining"}
          /\ PartialHangup => stage' = "sleep"
          /\ PartialKill => stage' = "reap"
      BY DEF SpawnFork, SpawnClone, SpawnWaiter, SpawnReader, SpawnWriter, CleanUp, PartialHangup,
         PartialKill
    <3>4. PartialReap \/ PartialJoin => stage' = "failed"
      BY DEF PartialReap, PartialJoin
    <3>5. QED
      BY <3>1, <3>2, <3>3, <3>4
  <2>2. CASE SpawnReader /\ stage' = "writer"
    <3>1. rpc' = "read" /\ read' = 0 /\ sent' = <<>>
      BY <2>2 DEF SpawnReader, CleanUp, SpawnInv
    <3>2. QED
      BY <3>1 DEF OrderInv, OutputInOrder, ExitInv
  <2>3. CASE SpawnWriter /\ stage' = "up"
    <3>1. stage = "writer" /\ UNCHANGED <<procVars, ttyVars, readerVars, sent, engine, handle>>
      BY <2>3 DEF SpawnWriter, CleanUp
    <3>2. QED
      BY <3>1 DEF Channel, OrderInv, OutputInOrder, ExitInv, Delivered, Has, Drained, RxAlive,
         SlaveOpen
  <2>4. QED
    BY <2>1, <2>2, <2>3
<1>3. CASE Quiet /\ (RxAlive' => RxAlive)
  <2>1. OrderInv /\ ExitInv
    BY <1>3 DEF Quiet, Channel
  <2>2. UNCHANGED <<procVars, ttyVars, readerVars, sent>>
    BY <1>3 DEF Quiet
  <2>3. OrderInv'
    BY <2>1, <2>2, OrderQuiet
  <2>4. ExitInv'
    BY <1>3, <2>1, <2>2 DEF ExitInv, Delivered, Has, Drained, SlaveOpen
  <2>5. QED
    BY <2>3, <2>4
<1>4. QED
  BY <1>1, <1>2, <1>3, StepKinds DEF Types

LEMMA ClockStep ==
    ASSUME BudgetCovers, MainInv, Types, SpawnInv, Clock, [CliNext]_cvars
    PROVE  Clock'
<1> SUFFICES ASSUME stage' # "failed" PROVE BudgetInv'
  BY DEF Clock
<1> USE DEF procVars, ttyVars, readerVars, writerVars, waiterVars, dropVars, vars
<1>1. CASE (Running \/ Drop) /\ stage' = stage
  BY <1>1, RunningIsNext, BudgetStep DEF Clock, Types
<1>2. CASE SpawnStep
  <2>1. BudgetInv
    BY <1>2 DEF Clock, SpawnStep, Spawn, SpawnFork, SpawnClone, SpawnWaiter, SpawnReader, SpawnWriter,
       Partial, PartialHangup, PartialKill, PartialReap, PartialJoin
  <2>2. CASE SpawnFork \/ SpawnClone \/ PartialHangup \/ PartialKill
    <3>1. tpc = "unborn" /\ tpc' = tpc /\ handle' = handle /\ handle = "live"
      BY <2>2 DEF SpawnFork, SpawnClone, PartialHangup, PartialKill, SpawnInv, Early
    <3>2. ~escalated /\ escalated' = escalated
      BY <2>2 DEF SpawnFork, SpawnClone, PartialHangup, PartialKill, SpawnInv, Early
    <3>3. QED
      BY <3>1, <3>2 DEF BudgetInv
  <2>3. CASE SpawnWaiter
    BY <2>1, <2>3 DEF SpawnWaiter, BudgetInv, SpawnInv, Early
  <2>4. CASE SpawnReader \/ SpawnWriter
    <3>1. /\ UNCHANGED <<child, waiterVars, late>>
          /\ \/ handle' = "live" /\ signalled' = signalled
             \/ handle' = "joining" /\ signalled' /\ joinLeft' = JoinBudget
      BY <2>4 DEF SpawnReader, SpawnWriter, CleanUp, SpawnInv, Early
    <3>2. Need' = Need
      BY <3>1 DEF Need
    <3>3. QED
      BY <2>1, <3>1, <3>2, NeedBound DEF BudgetInv, Types
  <2>5. QED
    BY <1>2, <2>2, <2>3, <2>4 DEF SpawnStep, Spawn, Partial, PartialReap, PartialJoin
<1>3. CASE Quiet
  <2>1. UNCHANGED <<child, waiterVars, late, signalled, dropVars, stage>>
    BY <1>3 DEF Quiet
  <2>2. QED
    BY <2>1, BudgetQuiet DEF Clock
<1>4. QED
  BY <1>1, <1>2, <1>3, StepKinds DEF Types

-----------------------------------------------------------------------------
(* The program *)

LEMMA MainStep == Types /\ SpawnInv /\ MainInv /\ [CliNext]_cvars => MainInv'
<1> SUFFICES ASSUME Types, SpawnInv, MainInv, [CliNext]_cvars PROVE MainInv'
  OBVIOUS
<1> USE DEF MainInv, Stopped, spawnVars, cliVars
<1>1. CASE SpawnStep
  <2>1. main = "spawn" /\ UNCHANGED <<cliVars, engine>>
    BY <1>1 DEF SpawnStep, Spawn, SpawnFork, SpawnClone, SpawnWaiter, SpawnReader, SpawnWriter, CleanUp,
       Partial, PartialHangup, PartialKill, PartialReap, PartialJoin, DropJoined, DropDetach, vars
  <2>2. stage' = "up" => handle' = "live"
    <3>1. CASE SpawnWriter
      BY <3>1 DEF SpawnWriter, CleanUp, SpawnInv
    <3>2. CASE SpawnFork \/ SpawnClone \/ SpawnWaiter \/ SpawnReader
      BY <3>2 DEF SpawnFork, SpawnClone, SpawnWaiter, SpawnReader, CleanUp
    <3>3. CASE Partial
      BY <3>3 DEF Partial, PartialHangup, PartialKill, PartialReap, PartialJoin
    <3>4. QED
      BY <1>1, <3>1, <3>2, <3>3 DEF SpawnStep, Spawn
  <2>3. QED
    BY <2>1, <2>2
<1>2. CASE ThreadsStep \/ WorldStep
  <2>1. UNCHANGED <<stage, cliVars, engine, handle>>
    BY <1>2 DEF ThreadsStep, WorldStep, Reader, ReaderRead, ReaderSend, ReaderHangup, ReaderError,
       Writer, WriterRecv, WriterWrite, WriterFail, WriterHangup, WriterNotify, Waiter, WaiterPoll,
       WaiterPollFails, WaiterLook, WaiterEscalate, WaiterIdle, WaiterReport, Environment,
       ProcessOutput, ProcessInput, Fork, HolderExit, ChildExit, dropVars
  <2>2. QED
    BY <2>1
<1>3. CASE TickStep
  <2>1. UNCHANGED <<stage, mode, main, out, failure, engine, handle>>
    BY <1>3 DEF TickStep, Tick
  <2>2. QED
    BY <2>1
<1>4. CASE DropSession
  <2>1. main \in {"drop", "unwind"} /\ UNCHANGED <<stage, cliVars, engine>>
    BY <1>4 DEF DropSession, Drop, DropGoesOn, DropShutdown, DropSignal, DropJoined, DropDetach
  <2>2. QED
    BY <2>1
<1>5. CASE EnterRaw
  BY <1>5 DEF EnterRaw, SpawnInv, Early, vars, dropVars
<1>6. CASE Spawned
  BY <1>6 DEF Spawned, vars, dropVars
<1>7. CASE Setup
  <2>1. PICK started \in BOOLEAN, ok \in BOOLEAN :
           /\ out' = IF started THEN "run" ELSE "none"
           /\ engine' = started
           /\ main' = IF ok THEN "pump" ELSE "unwind"
           /\ failure' = ~ok
    BY <1>7 DEF Setup
  <2>2. main = "setup" /\ UNCHANGED <<stage, mode, handle>>
    BY <1>7 DEF Setup, dropVars
  <2>3. mode' = "demo" /\ stage' = "up" /\ main' \in {"pump", "unwind"}
    BY <2>1, <2>2
  <2>4. (main' = "unwind" => failure') /\ (out' = "run" => engine')
    BY <2>1
  <2>5. QED
    BY <2>3, <2>4
<1>8. CASE PumpWake \/ PumpEnd \/ Leave \/ Join \/ DebugIdle
  BY <1>8 DEF PumpWake, PumpEnd, Leave, Join, DebugIdle, vars, dropVars
<1>9. CASE PumpInput \/ Sigwinch
  BY <1>9 DEF PumpInput, Sigwinch, dropVars
<1>10. CASE ForwardStep
  BY <1>10 DEF ForwardStep, Forward, Alive, dropVars
<1>11. CASE DebugEvent
  BY <1>11 DEF DebugEvent, DebugGoes, DebugStops, Result, dropVars
<1>12. CASE DebugStdin \/ DebugCtrlD
  BY <1>12 DEF DebugStdin, DebugCtrlD, DebugGoes, DebugStops, dropVars
<1>13. CASE Finished \/ UNCHANGED cvars
  BY <1>13 DEF Finished, cvars, vars, dropVars
<1>14. QED
  BY <1>1, <1>2, <1>3, <1>4, <1>5, <1>6, <1>7, <1>8, <1>9, <1>10, <1>11, <1>12, <1>13 DEF CliNext, Main

(* The channel only grows. *)
LEMMA SentGrows ==
    ASSUME MainInv, Types, [CliNext]_cvars
    PROVE  sent' = sent \/ \E e : sent' = Append(sent, e)
<1>1. CASE Running \/ Drop
  BY <1>1 DEF Running, Environment, ProcessOutput, ProcessInput, Fork, HolderExit, ChildExit,
     Reader, ReaderRead, ReaderSend, ReaderHangup, ReaderError, Writer, WriterRecv, WriterWrite,
     WriterFail, WriterHangup, WriterNotify, Waiter, WaiterPoll, WaiterPollFails, WaiterLook,
     WaiterEscalate, WaiterIdle, WaiterReport, Tick, Drop, DropGoesOn, DropShutdown, DropSignal,
     DropJoined, DropDetach, Emit
<1>2. CASE SpawnStep
  BY <1>2 DEF SpawnStep, Spawn, SpawnFork, SpawnClone, SpawnWaiter, SpawnReader, SpawnWriter,
     Partial, PartialHangup, PartialKill, PartialReap, PartialJoin, DropJoined, DropDetach, vars
<1>3. CASE Quiet
  BY <1>3 DEF Quiet
<1>4. QED
  BY <1>1, <1>2, <1>3, StepKinds DEF Types

(* What was taken from a channel that grows is what it was. *)
LEMMA Grown ==
    ASSUME NEW S, NEW s \in Seq(S), NEW t, t = s \/ \E e : t = Append(s, e), NEW n \in 0..Len(s)
    PROVE  n \in 0..Len(t) /\ \A i \in 1..n : i \in DOMAIN t /\ t[i] = s[i]
<1>1. CASE t = s
  BY <1>1
<1>2. CASE \E e : t = Append(s, e)
  BY <1>2
<1>3. QED
  BY <1>1, <1>2

LEMMA ShownQuiet ==
    ASSUME ShownInv, sent \in Seq(Event), sent' = sent \/ \E e : sent' = Append(sent, e),
           shown' = shown, out' \in {out, "failed"}
    PROVE  ShownInv'
<1>1. shown \in 0..Len(sent)
  BY DEF ShownInv
<1>2. shown \in 0..Len(sent') /\ \A i \in 1..shown : i \in DOMAIN sent' /\ sent'[i] = sent[i]
  BY <1>1, Grown
<1>3. shown \in Nat /\ (shown \in DOMAIN sent => shown \in 1..shown)
      /\ \A i \in 1..(shown - 1) : i \in 1..shown
  BY <1>1
<1>4. Outputs(shown) => Outputs(shown)'
  BY <1>2 DEF Outputs
<1>5. ASSUME out' = "exited"
      PROVE  shown \in DOMAIN sent' /\ sent'[shown].kind = "exited" /\ Outputs(shown - 1)'
  <2>1. shown \in DOMAIN sent /\ sent[shown].kind = "exited" /\ Outputs(shown - 1)
    BY <1>5 DEF ShownInv
  <2>2. shown \in 1..shown
    BY <1>3, <2>1
  <2>3. shown \in DOMAIN sent' /\ sent'[shown] = sent[shown]
    BY <1>2, <2>2
  <2>4. Outputs(shown - 1)'
    BY <1>2, <1>3, <2>1 DEF Outputs
  <2>5. QED
    BY <2>1, <2>3, <2>4
<1>6. QED
  BY <1>2, <1>4, <1>5 DEF ShownInv

LEMMA ShownStep == Types /\ MainInv /\ ShownInv /\ [CliNext]_cvars => ShownInv'
<1> SUFFICES ASSUME Types, MainInv, ShownInv, [CliNext]_cvars PROVE ShownInv'
  OBVIOUS
<1>0. sent \in Seq(Event) /\ (sent' = sent \/ \E e : sent' = Append(sent, e))
  BY SentGrows DEF Types, ChannelOK
<1>1. CASE SpawnStep \/ ThreadsStep \/ WorldStep \/ TickStep \/ DropSession
  BY <1>0, <1>1, ShownQuiet DEF SpawnStep, ThreadsStep, WorldStep, TickStep, DropSession, cliVars
<1>2. CASE EnterRaw \/ PumpWake \/ PumpEnd \/ Leave \/ Join \/ DebugIdle \/ PumpInput \/ Sigwinch
  BY <1>0, <1>2, ShownQuiet DEF EnterRaw, PumpWake, PumpEnd, Leave, Join, DebugIdle, PumpInput, Sigwinch,
     cliVars
<1>3. CASE Spawned \/ Setup
  <2>1. sent' = sent /\ shown' = shown /\ out' \in {"none", "run"} /\ out = "none"
    BY <1>3 DEF Spawned, Setup, MainInv, spawnVars, vars
  <2>2. shown = 0
    BY <2>1 DEF ShownInv
  <2>3. QED
    BY <2>1, <2>2 DEF ShownInv, Outputs
<1>4. CASE DebugStdin \/ DebugCtrlD
  <2>1. shown' = shown /\ out' \in {out, "failed"}
    BY <1>4 DEF DebugStdin, DebugCtrlD, MainInv
  <2>2. QED
    BY <1>0, <2>1, ShownQuiet
<1>5. CASE ForwardStep \/ DebugEvent
  <2>1. /\ sent' = sent /\ shown < Len(sent) /\ shown' = shown + 1 /\ out = "run"
        /\ out' \in Result(Next1) \cup {"failed"}
    BY <1>5 DEF ForwardStep, Forward, DebugEvent, MainInv, Result
  <2>2. /\ out' \in {"run", "failed", "exited", "error"}
        /\ out' = "run" => Next1 = "output"
        /\ out' = "exited" => Next1 = "exited"
    BY <2>1 DEF Result
  <2>3. Outputs(shown) /\ shown \in Nat /\ Len(sent) \in Nat /\ DOMAIN sent = 1..Len(sent)
    BY <1>0, <2>1 DEF ShownInv
  <2>4. Next1 = "output" => Outputs(shown + 1)
    BY <2>3 DEF Outputs, Next1
  <2>5. QED
    BY <2>1, <2>2, <2>3, <2>4 DEF ShownInv, Outputs, Next1
<1>6. CASE Finished \/ UNCHANGED cvars
  BY <1>0, <1>6, ShownQuiet DEF Finished, cvars, cliVars
<1>7. QED
  BY <1>1, <1>2, <1>3, <1>4, <1>5, <1>6 DEF CliNext, Main

-----------------------------------------------------------------------------
(* What the user has seen, and what a failed spawn leaves *)

LEMMA CliStart == CliInit => Types /\ SpawnInv /\ Channel /\ Clock /\ MainInv /\ ShownInv
<1> SUFFICES ASSUME CliInit PROVE Types /\ SpawnInv /\ Channel /\ Clock /\ MainInv /\ ShownInv
  OBVIOUS
<1> USE PtyAssumption, CliAssumption DEF CliInit, SpawnInit
<1>1. Types
  <2>1. <<>> \in Seq(Event) /\ 0 \in 0..Grace /\ 0 \in 0..JoinBudget
    OBVIOUS
  <2>2. QED
    BY <2>1 DEF Types, ChannelOK, ClockOK, FlagsOK
<1>2. SpawnInv
  BY DEF SpawnInv, Stages, Early
<1>3. Channel /\ Clock
  BY DEF Channel, Clock, BudgetInv
<1>4. MainInv
  BY DEF MainInv
<1>5. ShownInv
  BY DEF ShownInv
<1>6. QED
  BY <1>1, <1>2, <1>3, <1>4, <1>5

(* perga ends without an error only when the consumer of its events has stopped, and if *)
(* that was for Exited the user has seen all that the terminal ever put out             *)
(* (crates/perga-cli/src/main.rs, forward_output; raw_debug.rs).                        *)
THEOREM EndShows == CliSpec => []EndShowsAll
<1>1. ASSUME Types, SpawnInv, Channel, MainInv, ShownInv PROVE EndShowsAll
  <2> SUFFICES ASSUME main = "end", ~failure PROVE Stopped /\ (out = "exited" => AllShown)
    BY DEF EndShowsAll
  <2>1. Stopped /\ stage = "up"
    BY <1>1 DEF MainInv
  <2>2. ASSUME out = "exited" PROVE AllShown
    <3>1. /\ shown \in DOMAIN sent /\ sent[shown].kind = "exited" /\ Outputs(shown - 1)
          /\ shown \in Nat
      BY <1>1, <2>2 DEF ShownInv, Types, ChannelOK
    <3>2. \A j \in 1..(shown - 1) : sent[j].kind # "readError"
      BY <3>1 DEF Outputs
    <3>3. \A k \in 1..produced : \E j \in 1..(shown - 1) : sent[j] = Out(k)
      BY <1>1, <2>1, <3>1, <3>2 DEF Channel, ExitInv
    <3>4. 1..(shown - 1) \subseteq 1..shown
      BY <3>1
    <3>5. QED
      BY <3>3, <3>4 DEF AllShown
  <2>3. QED
    BY <2>1, <2>2
<1>2. QED
  BY <1>1, CliStart, TypesStep, SpawnInvStep, ChannelStep, MainStep, ShownStep, PTL DEF CliSpec

(* A spawn that fails cleans up: with a waiter it is the waiter that has reaped the      *)
(* child, without one it was spawn itself, and nothing was signalled after that.        *)
LEMMA FailedStep ==
    ASSUME MainInv, Types, SpawnInv, Clock, [CliNext]_cvars, stage # "failed", stage' = "failed"
    PROVE  /\ misfired' = {}
           /\ waitOk' /\ ~late' => child' \in {"none", "reaped"} /\ (AllDone' \/ holders' # {})
<1> USE DEF procVars, ttyVars, readerVars, writerVars, waiterVars, dropVars, vars
<1>1. SpawnStep
  BY StepKinds DEF Types, Quiet
<1>2. CASE SpawnFork
  BY <1>2 DEF SpawnFork, SpawnInv, AllDone
<1>3. CASE PartialReap
  BY <1>3 DEF PartialReap, SpawnInv, AllDone
<1>4. CASE PartialJoin
  <2>1. /\ stage = "joining" /\ misfired = {} /\ handle = "joining"
        /\ wpc = "done" /\ rpc \in RunsR /\ tpc \in RunsT
    BY <1>4 DEF PartialJoin, SpawnInv
  <2>2. BudgetInv
    BY <2>1 DEF Clock
  <2>3. UNCHANGED <<procVars, rpc, wpc, tpc, waitOk>> /\ (DropJoined \/ DropDetach)
    BY <1>4 DEF PartialJoin, DropJoined, DropDetach
  <2>4. SUFFICES ASSUME waitOk, ~late'
                 PROVE  child = "reaped" /\ (AllDone \/ holders # {})
    BY <2>1, <2>3 DEF AllDone
  <2>5. CASE DropJoined
    BY <2>2, <2>4, <2>5 DEF DropJoined, AllDone, BudgetInv
  <2>6. CASE DropDetach
    <3>1. joinLeft = 0 /\ ~late /\ ~ThreadReady
      BY <2>4, <2>6 DEF DropDetach
    <3>2. tpc \in {"sleep", "barrier", "done"}
      BY <2>1, <3>1 DEF RunsT, ThreadReady, WaiterReady
    <3>3. tpc = "sleep" => Need \in Nat \ {0}
      BY PtyAssumption DEF Need, Types, ClockOK, FlagsOK
    <3>4. child = "reaped"
      BY <2>1, <2>2, <2>4, <3>1, <3>2, <3>3 DEF BudgetInv
    <3>5. CASE holders = {}
      <4>1. ~SlaveOpen
        BY <3>4, <3>5 DEF SlaveOpen
      <4>2. rpc = "done"
        BY <2>1, <3>1, <4>1 DEF RunsR, ThreadReady, ReaderReady
      <4>3. tpc # "sleep"
        BY <2>1, <2>2, <2>4, <3>1, <3>3 DEF BudgetInv
      <4>4. tpc = "done"
        BY <3>1, <3>2, <4>2, <4>3 DEF ThreadReady, WaiterReady
      <4>5. QED
        BY <2>1, <3>4, <4>2, <4>4 DEF AllDone
    <3>6. QED
      BY <3>4, <3>5
  <2>7. QED
    BY <2>3, <2>5, <2>6
<1>5. stage' # "failed" \/ SpawnFork \/ PartialReap \/ PartialJoin
  BY <1>1 DEF SpawnStep, Spawn, SpawnClone, SpawnWaiter, SpawnReader, SpawnWriter, CleanUp, Partial,
     PartialHangup, PartialKill
<1>6. QED
  BY <1>2, <1>3, <1>4, <1>5

(* With a join budget as in DetachJustified a spawn that fails leaves no half-started    *)
(* session: the child is reaped, never signalled after that, and every thread has ended  *)
(* unless a process of the child's keeps the slave open, or the threads got no time, or  *)
(* try_wait has failed (crates/pty/src/session.rs, PartialSpawn).                        *)
THEOREM SpawnCleansUp == BudgetCovers /\ CliSpec => FailedSpawnCleansUp
<1> SUFFICES ASSUME BudgetCovers PROVE CliSpec => FailedSpawnCleansUp
  OBVIOUS
<1>1. MainInv /\ Types /\ SpawnInv /\ Clock /\ [CliNext]_cvars => Clock'
  BY ClockStep
<1>2. MainInv /\ Types /\ SpawnInv /\ Clock /\ [CliNext]_cvars
        => [stage # "failed" /\ stage' = "failed" =>
               /\ misfired' = {}
               /\ waitOk' /\ ~late' =>
                    /\ child' \in {"none", "reaped"}
                    /\ AllDone' \/ holders' # {}]_spawnVars
  BY FailedStep
<1>3. QED
  BY <1>1, <1>2, CliStart, TypesStep, SpawnInvStep, MainStep, PTL DEF CliSpec, FailedSpawnCleansUp
=============================================================================
