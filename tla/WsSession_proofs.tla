--------------------------- MODULE WsSession_proofs ---------------------------
(***************************************************************************)
(* What a terminal session and a connection guarantee for every bound.     *)
(*                                                                         *)
(* The session (TerminalSession): how many frames there are when the       *)
(* Exited frame comes, and why the engine thread may have ended, with read *)
(* and wait errors or without.  While the engine runs, every chunk the     *)
(* terminal produced is a frame, an event or still in the line             *)
(* (Conserved); the waiter's event is behind the reader's last one         *)
(* (Barrier).                                                              *)
(*                                                                         *)
(* The connection (WsSession): a client on a working socket loses no       *)
(* frame; when tx_fut ends by itself, all that the engine emitted has been *)
(* written.  The two channels towards the client are counters into         *)
(* `emitted'; a bridge that has ended while the handler selects had        *)
(* drained the first channel (Drained), and nothing is emitted behind an   *)
(* engine that has ended (SessionStep).                                    *)
(***************************************************************************)
EXTENDS WsSession, FiniteSetTheorems, SequenceTheorems, TLAPS

-----------------------------------------------------------------------------
(* Counting in a sequence *)

Places(s, e) == {i \in DOMAIN s : s[i] = e}

LEMMA CountPlaces == ASSUME NEW s, NEW e PROVE Count(s, e) = Cardinality(Places(s, e))
BY DEF Count, Places

LEMMA PlacesFinite ==
    ASSUME NEW S, NEW s \in Seq(S), NEW e
    PROVE  IsFiniteSet(Places(s, e)) /\ Count(s, e) \in Nat
<1>1. DOMAIN s = 1..Len(s) /\ Len(s) \in Nat
  OBVIOUS
<1>2. IsFiniteSet(1..Len(s))
  BY <1>1, FS_Interval
<1>3. IsFiniteSet(Places(s, e))
  BY <1>1, <1>2, FS_Subset DEF Places
<1> QED BY <1>3, CountPlaces, FS_CardinalityType

LEMMA CountAppend ==
    ASSUME NEW S, NEW s \in Seq(S), NEW x \in S, NEW e
    PROVE  Count(Append(s, x), e) = Count(s, e) + (IF x = e THEN 1 ELSE 0)
<1>1. Len(Append(s, x)) = Len(s) + 1 /\ Len(s) + 1 \notin DOMAIN s
      /\ DOMAIN Append(s, x) = DOMAIN s \cup {Len(s) + 1}
  OBVIOUS
<1>2. Append(s, x)[Len(s) + 1] = x /\ \A i \in DOMAIN s : Append(s, x)[i] = s[i]
  OBVIOUS
<1>3. CASE x = e
  <2>1. Places(Append(s, x), e) = Places(s, e) \cup {Len(s) + 1}
    BY <1>1, <1>2, <1>3 DEF Places
  <2>2. Len(s) + 1 \notin Places(s, e)
    BY <1>1 DEF Places
  <2>3. IsFiniteSet(Places(s, e))
    BY PlacesFinite
  <2>4. Cardinality(Places(Append(s, x), e)) = Cardinality(Places(s, e)) + 1
    BY <2>1, <2>2, <2>3, FS_AddElement
  <2> QED BY <1>3, <2>4, CountPlaces
<1>4. CASE x # e
  <2>1. Places(Append(s, x), e) = Places(s, e)
    BY <1>1, <1>2, <1>4 DEF Places
  <2>2. Count(s, e) \in Nat
    BY PlacesFinite
  <2> QED BY <1>4, <2>1, <2>2, CountPlaces
<1> QED BY <1>3, <1>4

LEMMA CountTail ==
    ASSUME NEW S, NEW s \in Seq(S), s # <<>>, NEW e
    PROVE  Count(s, e) = Count(Tail(s), e) + (IF Head(s) = e THEN 1 ELSE 0)
<1> DEFINE Later == {i \in Places(s, e) : i # 1}
           f == [i \in Places(Tail(s), e) |-> i + 1]
<1>1. /\ Len(s) \in Nat \ {0} /\ DOMAIN s = 1..Len(s) /\ Head(s) = s[1]
      /\ Tail(s) \in Seq(S) /\ DOMAIN Tail(s) = 1..(Len(s) - 1)
      /\ \A i \in 1..(Len(s) - 1) : Tail(s)[i] = s[i + 1]
  OBVIOUS
<1>2. \A i \in Places(Tail(s), e) : i \in Int /\ i + 1 \in Later
  BY <1>1 DEF Places
<1>3. \A j \in Later : j - 1 \in Places(Tail(s), e) /\ j = (j - 1) + 1
  BY <1>1 DEF Places
<1>4. f \in Bijection(Places(Tail(s), e), Later)
  <2>1. f \in [Places(Tail(s), e) -> Later]
    BY <1>2
  <2>2. \A a, b \in Places(Tail(s), e) : f[a] = f[b] => a = b
    BY <1>2
  <2>3. \A j \in Later : \E a \in Places(Tail(s), e) : f[a] = j
    BY <1>3
  <2> QED BY <2>1, <2>2, <2>3 DEF Bijection, Injection, Surjection, IsInjective
<1>5. Cardinality(Later) = Count(Tail(s), e)
  <2>1. IsFiniteSet(Places(Tail(s), e))
    BY <1>1, PlacesFinite
  <2>2. ExistsBijection(Places(Tail(s), e), Later)
    BY <1>4 DEF ExistsBijection
  <2>3. Cardinality(Later) = Cardinality(Places(Tail(s), e))
    BY <2>1, <2>2, FS_Bijection
  <2> QED BY <2>3, CountPlaces
<1>6. CASE Head(s) = e
  <2>1. 1 \in Places(s, e) /\ Later = Places(s, e) \ {1}
    BY <1>1, <1>6 DEF Places
  <2>2. Cardinality(Later) = Cardinality(Places(s, e)) - 1
    BY <2>1, PlacesFinite, FS_RemoveElement
  <2>3. Count(s, e) \in Nat /\ Count(Tail(s), e) \in Nat
    BY <1>1, PlacesFinite
  <2>4. Count(s, e) = Cardinality(Places(s, e))
    BY CountPlaces
  <2> QED BY <1>5, <1>6, <2>2, <2>3, <2>4
<1>7. CASE Head(s) # e
  <2>1. Later = Places(s, e)
    BY <1>1, <1>7 DEF Places
  <2>2. Count(s, e) = Count(Tail(s), e) /\ Count(s, e) \in Nat
    BY <1>5, <2>1, PlacesFinite, CountPlaces
  <2> QED BY <1>7, <2>2
<1> QED BY <1>6, <1>7

LEMMA CountNone ==
    ASSUME NEW S, NEW s \in Seq(S), NEW e, \A i \in DOMAIN s : s[i] # e
    PROVE  Count(s, e) = 0
<1>1. Places(s, e) = {}
  BY DEF Places
<1> QED BY <1>1, CountPlaces, FS_EmptySet

-----------------------------------------------------------------------------
(* The inductive invariant *)

TEvents == {"output", "exited", "readError", "writeError", "waitError"}

\* What the argument counts.
Counted ==
    /\ produced \in Nat /\ line \in Nat
    /\ emitted \in Seq(Frames) /\ tev \in Seq(TEvents)
    /\ reader \in {"run", "done", "failed"}

\* Every chunk is a frame, an event, or still to be read.
Conserved ==
    engine = "run" =>
        Count(emitted, "outputFrame") + Count(tev, "output") + line = produced

\* The Exited frame ends the engine.
NotYet == engine = "run" => \A i \in DOMAIN emitted : emitted[i] # "exited"

\* The waiter speaks after the reader.
Barrier ==
    /\ waiter = "done" => reader # "run"
    /\ \A i \in DOMAIN tev : tev[i] = "exited" =>
          /\ waiter = "done"
          /\ \A j \in DOMAIN tev : j > i => tev[j] # "output"

\* A reader that has ended by itself has seen the end of the line.
EndOfLine == engine = "run" /\ reader = "done" => line = 0 /\ ~SlaveOpen

\* ExitedFrameCloses, and that nothing more can be produced.
Closed ==
    \A i \in DOMAIN emitted : emitted[i] = "exited" =>
        /\ i = Len(emitted)
        /\ reader # "failed" => Count(emitted, "outputFrame") = produced /\ ~SlaveOpen

SInv == /\ Counted /\ Conserved /\ NotYet /\ Barrier /\ EndOfLine /\ Closed
        /\ EngineEndsEarlyOnlyWithoutWriter

LEMMA Counts ==
    ASSUME Counted
    PROVE  /\ emitted \in Seq(Frames) /\ Count(emitted, "outputFrame") \in Nat
           /\ tev \in Seq(TEvents) /\ Count(tev, "output") \in Nat
BY PlacesFinite DEF Counted

LEMMA SInvInit == Init => SInv
<1> SUFFICES ASSUME Init PROVE SInv
  OBVIOUS
<1>1. Counted
  BY DEF Init, SessionInit, Counted, Frames
<1>2. Count(emitted, "outputFrame") = 0 /\ Count(tev, "output") = 0
  <2>1. emitted = <<"baseline">> /\ tev = <<>>
    BY DEF Init, SessionInit
  <2>2. \A i \in DOMAIN emitted : emitted[i] # "outputFrame"
    BY <2>1
  <2>3. \A i \in DOMAIN tev : tev[i] # "output"
    BY <2>1
  <2> QED BY <1>1, <2>2, <2>3, CountNone, Counts
<1>3. Conserved
  BY <1>2 DEF Conserved, Init, SessionInit
<1>4. NotYet /\ Barrier /\ EndOfLine /\ Closed /\ EngineEndsEarlyOnlyWithoutWriter
  BY DEF Init, SessionInit, NotYet, Barrier, EndOfLine, Closed,
         EngineEndsEarlyOnlyWithoutWriter
<1> QED BY <1>1, <1>3, <1>4 DEF SInv

\* What Emit does to the invariant's parts about the channel.
LEMMA EmitStep ==
    ASSUME Counted, NEW e \in TEvents, Emit(e)
    PROVE  /\ tev' \in Seq(TEvents)
           /\ engine = "run" =>
                 Count(tev', "output") = Count(tev, "output") + (IF e = "output" THEN 1 ELSE 0)
           /\ \/ tev' = tev
              \/ /\ Len(tev') = Len(tev) + 1 /\ tev'[Len(tev')] = e
                 /\ \A i \in 1..Len(tev) : tev'[i] = tev[i]
<1>1. tev \in Seq(TEvents)
  BY Counts
<1>2. CASE tev' = Append(tev, e)
  BY <1>1, <1>2, CountAppend
<1>3. CASE tev' = tev /\ engine # "run"
  BY <1>1, <1>3
<1> QED BY <1>2, <1>3 DEF Emit, TransportRx

\* Steps that touch neither the channel to the engine nor the frames.
Quiet ==
    /\ UNCHANGED <<tev, emitted, engine>>
    /\ \/ UNCHANGED <<produced, line>>
       \/ SlaveOpen /\ line' = line + 1 /\ produced' = produced + 1
    /\ UNCHANGED reader
    /\ waiter' # waiter => waiter # "done" /\ waiter' # "done"
    /\ writer' = writer \/ writer # "done"
    /\ SlaveOpen' => SlaveOpen
    /\ session' = session \/ session' # "live"

LEMMA QuietStep == ASSUME SInv, Quiet PROVE SInv'
<1>0. Counted'
  BY DEF SInv, Counted, Quiet
<1> USE DEF SInv, Quiet
<1>1. Conserved'
  <2>1. Count(emitted, "outputFrame") \in Nat /\ Count(tev, "output") \in Nat
        /\ line \in Nat /\ produced \in Nat
    BY Counts DEF Counted
  <2> QED BY <2>1 DEF Conserved, Count
<1>2. NotYet'
  BY DEF NotYet
<1>3. Barrier'
  BY DEF Barrier
<1>4. EndOfLine'
  BY DEF EndOfLine
<1>5. Closed'
  BY DEF Closed, Count
<1>6. EngineEndsEarlyOnlyWithoutWriter'
  BY DEF EngineEndsEarlyOnlyWithoutWriter, Last
<1> QED BY <1>0, <1>1, <1>2, <1>3, <1>4, <1>5, <1>6


\* The engine takes an event.
LEMMA TailStep ==
    ASSUME Counted, Barrier, tev # <<>>, tev' = Tail(tev), UNCHANGED <<reader, waiter>>
    PROVE  /\ tev' \in Seq(TEvents)
           /\ Count(tev, "output") =
                 Count(tev', "output") + (IF Head(tev) = "output" THEN 1 ELSE 0)
           /\ Barrier'
<1>1. /\ tev \in Seq(TEvents) /\ tev' \in Seq(TEvents) /\ Len(tev') = Len(tev) - 1
      /\ \A i \in 1..Len(tev') : tev'[i] = tev[i + 1]
  BY HeadTailProperties DEF Counted
<1>2. ASSUME NEW i \in DOMAIN tev', tev'[i] = "exited", NEW j \in DOMAIN tev', j > i
      PROVE  waiter = "done" /\ tev'[j] # "output"
  <2>1. i + 1 \in DOMAIN tev /\ j + 1 \in DOMAIN tev /\ j + 1 > i + 1
        /\ tev[i + 1] = "exited" /\ tev'[j] = tev[j + 1]
    BY <1>1, <1>2
  <2> QED BY <2>1 DEF Barrier
<1>3. ASSUME NEW i \in DOMAIN tev', tev'[i] = "exited" PROVE waiter = "done"
  <2>1. i + 1 \in DOMAIN tev /\ tev[i + 1] = "exited"
    BY <1>1, <1>3
  <2> QED BY <2>1 DEF Barrier
<1>4. Barrier'
  BY <1>2, <1>3 DEF Barrier
<1> QED BY <1>1, <1>4, CountTail

\* The engine emits a frame.
LEMMA FrameStep ==
    ASSUME NEW s \in Seq(Frames), NEW x \in Frames
    PROVE  /\ s \o <<x>> = Append(s, x) /\ Append(s, x) \in Seq(Frames)
           /\ Len(Append(s, x)) = Len(s) + 1 /\ Append(s, x)[Len(s) + 1] = x
           /\ \A i \in 1..Len(s) : Append(s, x)[i] = s[i]
           /\ Count(Append(s, x), "outputFrame") =
                 Count(s, "outputFrame") + (IF x = "outputFrame" THEN 1 ELSE 0)
BY AppendIsConcat, AppendProperties, CountAppend

LEMMA SInvStep == SInv /\ [Next]_svars => SInv'
<1> SUFFICES ASSUME SInv, [Next]_svars PROVE SInv'
  OBVIOUS
<1>0. /\ Counted
      /\ Count(emitted, "outputFrame") \in Nat /\ Count(tev, "output") \in Nat
  BY Counts DEF SInv
<1>1. CASE Processes
  <2>1. Quiet
    BY <1>1 DEF Quiet, Processes, ChildWrites, ChildForks, HolderExits, ChildExits, SlaveOpen
  <2> QED BY <2>1, QuietStep
<1>3. CASE WriterBlocks \/ WriterUnblocks
  <2>1. Quiet
    BY <1>3 DEF Quiet, WriterBlocks, WriterUnblocks, SlaveOpen
  <2> QED BY <2>1, QuietStep
<1>4. CASE WriterWrite \/ WriterShutdown
  <2>1. Quiet
    BY <1>4 DEF Quiet, WriterWrite, WriterShutdown, SlaveOpen, backendVars
  <2> QED BY <2>1, QuietStep
<1>5. CASE WaiterReap \/ WaiterPollFails \/ WaiterKill
  <2>1. Quiet
    BY <1>5 DEF Quiet, WaiterReap, WaiterPollFails, WaiterKill, SlaveOpen
  <2> QED BY <2>1, QuietStep
<1>6. CASE ClientInput \/ CloneInput \/ DropClone \/ DropInput
  <2>1. Quiet
    BY <1>6 DEF Quiet, ClientInput, CloneInput, DropClone, DropInput, SlaveOpen, backendVars
  <2> QED BY <2>1, QuietStep
<1>7. CASE Drop
  <2>1. Quiet
    BY <1>7 DEF Quiet, Drop, DropTransport, DropJoinBackend, DropJoinEngine, SlaveOpen, backendVars
  <2> QED BY <2>1, QuietStep
<1>8. CASE UNCHANGED svars
  <2>1. Quiet
    BY <1>8 DEF Quiet, svars, backendVars, SlaveOpen
  <2> QED BY <2>1, QuietStep
<1>9. CASE Reader
  <2>1. /\ reader = "run"
        /\ UNCHANGED <<child, held, produced, writer, waiter, engine, emitted, session>>
    BY <1>9 DEF Reader
  <2>2. SlaveOpen' = SlaveOpen /\ waiter # "done"
    BY <1>0, <2>1 DEF SlaveOpen, SInv, Barrier
  <2>3. CASE /\ line > 0 /\ line' = line - 1 /\ Emit("output")
             /\ reader' = (IF TransportRx THEN "run" ELSE "done")
    <3>1. Counted'
      BY <1>0, <2>1, <2>3, EmitStep DEF Counted, TEvents
    <3>2. Conserved'
      BY <1>0, <2>1, <2>3, EmitStep DEF SInv, Conserved, Counted, TEvents, Count
    <3>3. NotYet' /\ Closed' /\ EngineEndsEarlyOnlyWithoutWriter'
      BY <2>1, <2>2 DEF SInv, NotYet, Closed, EngineEndsEarlyOnlyWithoutWriter, Last, Count
    <3>4. EndOfLine'
      BY <2>1, <2>3 DEF EndOfLine, TransportRx
    <3>5. Barrier'
      BY <1>0, <2>1, <2>2, <2>3, EmitStep DEF SInv, Barrier, Counted, TEvents
    <3> QED BY <3>1, <3>2, <3>3, <3>4, <3>5 DEF SInv
  <2>4. CASE line = 0 /\ ~SlaveOpen /\ reader' = "done" /\ UNCHANGED <<line, tev>>
    BY <1>0, <2>1, <2>2, <2>4
       DEF SInv, Counted, Conserved, NotYet, Barrier, EndOfLine, Closed,
           EngineEndsEarlyOnlyWithoutWriter, Last, Count
  <2>5. CASE Emit("readError") /\ reader' = "failed" /\ UNCHANGED line
    <3>1. Counted'
      BY <1>0, <2>1, <2>5, EmitStep DEF Counted, TEvents
    <3>2. Conserved'
      BY <1>0, <2>1, <2>5, EmitStep DEF SInv, Conserved, Counted, TEvents, Count
    <3>3. NotYet' /\ Closed' /\ EngineEndsEarlyOnlyWithoutWriter' /\ EndOfLine'
      BY <2>1, <2>2, <2>5
         DEF SInv, NotYet, Closed, EngineEndsEarlyOnlyWithoutWriter, Last, Count, EndOfLine
    <3>4. Barrier'
      BY <1>0, <2>1, <2>2, <2>5, EmitStep DEF SInv, Barrier, Counted, TEvents
    <3> QED BY <3>1, <3>2, <3>3, <3>4 DEF SInv
  <2> QED BY <1>9, <2>3, <2>4, <2>5 DEF Reader
<1>10. CASE WriterFails \/ WaiterReport
  <2>1. PICK e \in TEvents \ {"output"} :
          /\ Emit(e)
          /\ e = "exited" => reader # "run" /\ waiter' = "done"
          /\ waiter' # waiter => reader # "run"
          /\ writer = "done" => writer' = "done"
          /\ waiter = "done" => waiter' = "done"
    BY <1>10 DEF WriterFails, WaiterReport, TEvents
  <2>2. UNCHANGED <<child, held, produced, line, reader, engine, emitted, session>>
    BY <1>10 DEF WriterFails, WaiterReport
  <2>3. SlaveOpen' = SlaveOpen
    BY <2>2 DEF SlaveOpen
  <2>4. Counted'
    BY <1>0, <2>1, <2>2, EmitStep DEF Counted, TEvents
  <2>5. Conserved'
    BY <1>0, <2>1, <2>2, EmitStep DEF SInv, Conserved, Counted, TEvents, Count
  <2>6. NotYet' /\ Closed' /\ EngineEndsEarlyOnlyWithoutWriter' /\ EndOfLine'
    BY <2>1, <2>2, <2>3
       DEF SInv, NotYet, Closed, EngineEndsEarlyOnlyWithoutWriter, Last, Count, EndOfLine
  <2>7. Barrier'
    <3>1. tev \in Seq(TEvents) /\ tev' \in Seq(TEvents)
      BY <1>0, <2>4 DEF Counted
    <3>2. \/ tev' = tev
          \/ /\ Len(tev') = Len(tev) + 1 /\ tev'[Len(tev')] = e
             /\ \A i \in 1..Len(tev) : tev'[i] = tev[i]
      BY <1>0, <2>1, EmitStep
    <3>3. waiter' = "done" => reader' # "run"
      BY <2>1, <2>2 DEF SInv, Barrier
    <3>4. ASSUME NEW i \in DOMAIN tev', tev'[i] = "exited"
          PROVE  /\ waiter' = "done"
                 /\ \A j \in DOMAIN tev' : j > i => tev'[j] # "output"
      BY <2>1, <3>1, <3>2, <3>4 DEF SInv, Barrier
    <3> QED BY <3>3, <3>4 DEF Barrier
  <2> QED BY <2>4, <2>5, <2>6, <2>7 DEF SInv
<1>11. CASE EngineOutput
  <2>1. /\ tev # <<>> /\ Head(tev) = "output" /\ tev' = Tail(tev) /\ engine = "run"
        /\ UNCHANGED <<child, held, produced, line, reader, writer, waiter, session>>
    BY <1>11 DEF EngineOutput, EngineUnchanged, backendVars
  <2>2. SlaveOpen' = SlaveOpen
    BY <2>1 DEF SlaveOpen
  <2>3. /\ tev' \in Seq(TEvents) /\ Barrier'
        /\ Count(tev, "output") = Count(tev', "output") + 1
    BY <1>0, <2>1, TailStep DEF SInv
  <2>4. CASE writer = "done" /\ engine' = "done" /\ UNCHANGED emitted
    BY <1>0, <2>1, <2>2, <2>3, <2>4
       DEF SInv, Counted, Conserved, NotYet, EndOfLine, Closed,
           EngineEndsEarlyOnlyWithoutWriter
  <2>5. ASSUME NEW ends \in {<<>>, <<"commandEnd">>},
               emitted' = (emitted \o ends) \o <<"outputFrame">>, engine' = engine
        PROVE  SInv'
    <3>1. PICK s \in Seq(Frames) :
             /\ s = emitted \o ends
             /\ Count(s, "outputFrame") = Count(emitted, "outputFrame")
             /\ \A i \in DOMAIN s : s[i] # "exited"
      <4>1. emitted \in Seq(Frames) /\ \A i \in DOMAIN emitted : emitted[i] # "exited"
        BY <1>0, <2>1 DEF SInv, NotYet, Counted
      <4>2. CASE ends = <<>>
        BY <4>1, <4>2
      <4>3. CASE ends = <<"commandEnd">>
        <5>1. "commandEnd" \in Frames
          BY DEF Frames
        <5>2. emitted \o ends = Append(emitted, "commandEnd")
          BY <4>1, <4>3, <5>1, FrameStep
        <5>3. Count(emitted \o ends, "outputFrame") = Count(emitted, "outputFrame")
          BY <1>0, <4>1, <5>1, <5>2, FrameStep
        <5>4. \A i \in DOMAIN Append(emitted, "commandEnd") :
                 Append(emitted, "commandEnd")[i] # "exited"
          BY <4>1
        <5> QED BY <4>1, <5>1, <5>2, <5>3, <5>4, FrameStep
      <4> QED BY <4>2, <4>3
    <3>2. "outputFrame" \in Frames
      BY DEF Frames
    <3>3. emitted' = Append(s, "outputFrame") /\ emitted' \in Seq(Frames)
      BY <2>5, <3>1, <3>2, FrameStep
    <3>4. Count(emitted', "outputFrame") = Count(emitted, "outputFrame") + 1
      <4>1. Count(Append(s, "outputFrame"), "outputFrame") = Count(s, "outputFrame") + 1
        BY <3>2, FrameStep
      <4> QED BY <4>1, <3>1, <3>3
    <3>5. \A i \in DOMAIN emitted' : emitted'[i] # "exited"
      <4>1. \A i \in DOMAIN Append(s, "outputFrame") :
               Append(s, "outputFrame")[i] # "exited"
        BY <3>1
      <4> QED BY <4>1, <3>3
    <3>6. Counted' /\ NotYet' /\ Closed' /\ EndOfLine'
      BY <1>0, <2>1, <2>2, <2>3, <2>5, <3>3, <3>5
         DEF SInv, Counted, NotYet, Closed, EndOfLine
    <3>7. Conserved'
      <4>1. Count(emitted, "outputFrame") + Count(tev, "output") + line = produced
        BY <2>1 DEF SInv, Conserved
      <4>2. Count(tev', "output") \in Nat
        BY <2>3, PlacesFinite
      <4> QED BY <1>0, <2>1, <2>3, <3>4, <4>1, <4>2 DEF Conserved, Counted
    <3>8. EngineEndsEarlyOnlyWithoutWriter'
      BY <2>1, <2>5 DEF EngineEndsEarlyOnlyWithoutWriter
    <3> QED BY <2>3, <3>6, <3>7, <3>8 DEF SInv
  <2> QED BY <1>11, <2>4, <2>5 DEF EngineOutput
<1>12. CASE EngineExited
  <2>1. /\ tev # <<>> /\ Head(tev) = "exited" /\ tev' = Tail(tev) /\ engine = "run"
        /\ engine' = "done" /\ emitted' = Append(emitted, "exited")
        /\ UNCHANGED <<child, held, produced, line, reader, writer, waiter, session>>
    BY <1>12 DEF EngineExited, EngineUnchanged, backendVars
  <2>2. SlaveOpen' = SlaveOpen
    BY <2>1 DEF SlaveOpen
  <2>3. tev' \in Seq(TEvents) /\ Barrier'
    BY <1>0, <2>1, TailStep DEF SInv
  <2>4. "exited" \in Frames /\ emitted \in Seq(Frames) /\ tev \in Seq(TEvents)
    BY <1>0 DEF Counted, Frames
  <2>5. waiter = "done" /\ Count(tev, "output") = 0
    <3>1. 1 \in DOMAIN tev /\ tev[1] = "exited" /\ \A j \in DOMAIN tev : j > 1 \/ j = 1
      BY <2>1, <2>4
    <3>2. waiter = "done" /\ \A j \in DOMAIN tev : tev[j] # "output"
      BY <3>1 DEF SInv, Barrier
    <3> QED BY <2>4, <3>2, CountNone
  <2>6. /\ emitted' \in Seq(Frames) /\ Last(emitted') = "exited"
        /\ Count(emitted', "outputFrame") = Count(emitted, "outputFrame")
        /\ \A i \in DOMAIN emitted' : emitted'[i] = "exited" => i = Len(emitted')
    <3>1. \A i \in DOMAIN emitted : emitted[i] # "exited"
      BY <2>1 DEF SInv, NotYet
    <3> QED BY <1>0, <2>1, <2>4, <3>1, FrameStep DEF Last
  <2>7. reader = "failed" \/ reader = "done"
    BY <1>0, <2>5 DEF SInv, Barrier, Counted
  <2>8. Closed'
    BY <1>0, <2>1, <2>2, <2>5, <2>6, <2>7
       DEF SInv, Closed, Conserved, EndOfLine, Counted
  <2> QED BY <1>0, <2>1, <2>3, <2>6, <2>8
          DEF SInv, Counted, Conserved, NotYet, EndOfLine, EngineEndsEarlyOnlyWithoutWriter
<1>13. CASE EngineError
  <2>1. /\ tev # <<>> /\ Head(tev) # "output" /\ tev' = Tail(tev)
        /\ UNCHANGED <<child, held, produced, line, reader, writer, waiter, session,
                       engine, emitted>>
    BY <1>13 DEF EngineError, EngineUnchanged, backendVars
  <2>2. /\ tev' \in Seq(TEvents) /\ Barrier'
        /\ Count(tev, "output") = Count(tev', "output") + 0
    BY <1>0, <2>1, TailStep DEF SInv
  <2>3. SlaveOpen' = SlaveOpen /\ Count(tev', "output") \in Nat
    BY <2>1, <2>2, PlacesFinite DEF SlaveOpen
  <2> QED BY <1>0, <2>1, <2>2, <2>3
          DEF SInv, Counted, Conserved, NotYet, EndOfLine, Closed,
              EngineEndsEarlyOnlyWithoutWriter
<1>14. CASE EngineDisconnected \/ EngineInputClosed \/ EngineKeys
  <2>1. /\ UNCHANGED <<child, held, produced, line, reader, writer, waiter, session, tev,
                       emitted>>
        /\ engine = "run"
        /\ \/ engine' = "run"
           \/ engine' = "done" /\ (writer = "done" \/ session # "live")
    BY <1>14 DEF EngineDisconnected, EngineInputClosed, EngineKeys, EngineUnchanged,
                 backendVars, BackendDone, InputTx
  <2>2. SlaveOpen' = SlaveOpen
    BY <2>1 DEF SlaveOpen
  <2> QED BY <1>0, <2>1, <2>2
          DEF SInv, Counted, Conserved, NotYet, Barrier, EndOfLine, Closed,
              EngineEndsEarlyOnlyWithoutWriter
<1>15. CASE EngineResize
  <2>1. /\ UNCHANGED <<child, held, produced, line, reader, writer, waiter, session, tev>>
        /\ engine = "run"
        /\ \/ engine' = "run" /\ emitted' = Append(emitted, "resizeFrame")
           \/ engine' = "done" /\ writer = "done" /\ emitted' = emitted
    BY <1>15 DEF EngineResize, EngineUnchanged, backendVars
  <2>2. SlaveOpen' = SlaveOpen
    BY <2>1 DEF SlaveOpen
  <2>3. CASE emitted' = emitted /\ engine' = "done"
    BY <1>0, <2>1, <2>2, <2>3
       DEF SInv, Counted, Conserved, NotYet, Barrier, EndOfLine, Closed,
           EngineEndsEarlyOnlyWithoutWriter
  <2>4. CASE emitted' = Append(emitted, "resizeFrame") /\ engine' = "run"
    <3>1. "resizeFrame" \in Frames /\ emitted \in Seq(Frames)
      BY <1>0 DEF Frames, Counted
    <3>2. /\ emitted' \in Seq(Frames)
          /\ Count(emitted', "outputFrame") = Count(emitted, "outputFrame")
      BY <1>0, <2>4, <3>1, FrameStep
    <3>3. \A i \in DOMAIN emitted' : emitted'[i] # "exited"
      BY <2>1, <2>4, <3>1 DEF SInv, NotYet
    <3> QED BY <1>0, <2>1, <2>2, <2>4, <3>2, <3>3
            DEF SInv, Counted, Conserved, NotYet, Barrier, EndOfLine, Closed,
                EngineEndsEarlyOnlyWithoutWriter
  <2> QED BY <2>1, <2>3, <2>4
<1> QED BY <1>1, <1>3, <1>4, <1>5, <1>6, <1>7, <1>8, <1>9, <1>10, <1>11, <1>12, <1>13,
           <1>14, <1>15
        DEF Next, Backend, Writer, Waiter, Engine, Finished

-----------------------------------------------------------------------------
(* Theorems *)

\* The Exited frame is the last one and comes after a frame for every chunk the
\* terminal produced, unless the reader failed (crates/terminal-session, event_loop.rs,
\* on the barrier of the transport).
THEOREM ExitedCloses == Spec => []ExitedFrameCloses
<1>1. SInv => ExitedFrameCloses
  BY DEF SInv, Closed, ExitedFrameCloses
<1> QED BY SInvInit, SInvStep, <1>1, PTL DEF Spec

\* A session that its owner keeps is not left without an engine while it could still be
\* written to (run_engine_loop: the returns other than on Exited).
THEOREM EngineOutlivesWriter == Spec => []EngineEndsEarlyOnlyWithoutWriter
<1>1. SInv => EngineEndsEarlyOnlyWithoutWriter
  BY DEF SInv
<1> QED BY SInvInit, SInvStep, <1>1, PTL DEF Spec

-----------------------------------------------------------------------------
(* The connection *)

SessionNext == Processes \/ Backend \/ Engine \/ Drop \/ Finished

LEMMA Longer ==
    ASSUME NEW S, NEW s \in Seq(S), NEW t \in Seq(S)
    PROVE  s \o t \in Seq(S) /\ Len(s \o t) >= Len(s)
OBVIOUS

\* A step of the session alone emits at the end, and nothing once the engine is done.
LEMMA SessionStep ==
    ASSUME emitted \in Seq(Frames), SessionNext
    PROVE  /\ emitted' \in Seq(Frames)
           /\ Len(emitted') >= Len(emitted)
           /\ engine = "done" => engine' = "done" /\ emitted' = emitted
<1>1. CASE EngineOutput
  <2>1. PICK ends \in {<<>>, <<"commandEnd">>} :
           \/ engine = "run" /\ emitted' = emitted
           \/ engine = "run" /\ emitted' = (emitted \o ends) \o <<"outputFrame">>
    BY <1>1 DEF EngineOutput
  <2>2. <<>> \in Seq(Frames) /\ <<"commandEnd">> \in Seq(Frames)
            /\ <<"outputFrame">> \in Seq(Frames)
    BY DEF Frames
  <2>3. CASE emitted' = emitted
    BY <2>1, <2>3
  <2>4. CASE emitted' = (emitted \o ends) \o <<"outputFrame">>
    <3>1. emitted \o ends \in Seq(Frames) /\ Len(emitted \o ends) >= Len(emitted)
      <4>1. CASE ends = <<>>
        BY <2>2, <4>1, Longer
      <4>2. CASE ends = <<"commandEnd">>
        BY <2>2, <4>2, Longer
      <4> QED BY <2>1, <4>1, <4>2
    <3>2. /\ emitted' \in Seq(Frames)
          /\ Len(emitted') >= Len(emitted \o ends)
      BY <2>2, <2>4, <3>1, Longer
    <3>3. Len(emitted) \in Nat /\ Len(emitted \o ends) \in Nat /\ Len(emitted') \in Nat
      BY <3>1, <3>2
    <3> QED BY <2>1, <3>1, <3>2, <3>3
  <2> QED BY <2>1, <2>3, <2>4
<1>2. CASE EngineExited
  BY <1>2 DEF EngineExited, Frames
<1>3. CASE EngineResize
  BY <1>3 DEF EngineResize, Frames
<1>4. CASE EngineError \/ EngineDisconnected \/ EngineKeys \/ EngineInputClosed
  BY <1>4 DEF EngineError, EngineDisconnected, EngineKeys, EngineInputClosed
<1>5. CASE Processes
  BY <1>5 DEF Processes, ChildWrites, ChildForks, HolderExits, ChildExits
<1>6. CASE Reader
  BY <1>6 DEF Reader
<1>7. CASE WriterBlocks \/ WriterUnblocks \/ Writer
  BY <1>7 DEF WriterBlocks, WriterUnblocks, Writer, WriterWrite, WriterFails,
              WriterShutdown
<1>8. CASE Waiter
  BY <1>8 DEF Waiter, WaiterReap, WaiterPollFails, WaiterKill, WaiterReport
<1>9. CASE Drop \/ Finished
  BY <1>9 DEF Drop, DropTransport, DropJoinBackend, DropJoinEngine, Finished, svars
<1> QED BY <1>1, <1>2, <1>3, <1>4, <1>5, <1>6, <1>7, <1>8, <1>9
        DEF SessionNext, Backend, Engine

-----------------------------------------------------------------------------
(* The inductive invariant *)

Counters ==
    /\ emitted \in Seq(Frames)
    /\ bridged \in Nat /\ received \in Nat
    /\ received <= bridged /\ bridged <= Len(emitted)

\* Before handle_socket nothing has been sent, and tx_fut ends with the select.
Stages ==
    /\ handler \in {"request", "opening"} => received = 0 /\ bridged = 0 /\ bridge = "starting"
    /\ tx = "done" => handler \in {"drop", "gone"}

\* A bridge that has ended before the handler leaves the select had drained its channel.
Drained ==
    bridge = "done" /\ handler = "select" =>
        engine = "done" /\ bridged = Len(emitted)

WsInv == Counters /\ Stages /\ Drained /\ TxEndsDrained

LEMMA WsInvInit == WsInit => WsInv
BY DEF WsInit, NoSession, WsInv, Counters, Stages, Drained, TxEndsDrained

LEMMA WsInvStep == WsInv /\ [WsNext]_wvars => WsInv'
<1> SUFFICES ASSUME WsInv, [WsNext]_wvars
             PROVE  WsInv'
  OBVIOUS
<1> USE DEF WsInv, Counters, Stages, Drained, TxEndsDrained
<1>1. CASE Request \/ OpenFails \/ TellFailure
  BY <1>1 DEF Request, OpenFails, TellFailure, svars
<1>2. CASE OpenSession
  BY <1>2 DEF OpenSession, Frames
<1>3. CASE Bridge
  BY <1>3 DEF Bridge, BridgeStart, BridgeForward, BridgeEnd, svars
<1>4. CASE TxSend \/ TxEnd
  BY <1>4 DEF TxSend, TxEnd, Selecting, svars
<1>5. CASE RxMessage \/ RxRefused \/ RxEnd
  BY <1>5 DEF RxMessage, RxRefused, RxEnd, Selecting, wsVars
<1>6. CASE HandlerDrop \/ HandlerReturn \/ ClientEnds
  BY <1>6 DEF HandlerDrop, HandlerReturn, ClientEnds, DropInput, wsVars, svars
<1>7. CASE SessionNext /\ UNCHANGED wsVars
  BY <1>7, SessionStep DEF wsVars
<1>8. CASE UNCHANGED wvars
  BY <1>8 DEF wvars, wsVars, svars
<1> QED BY <1>1, <1>2, <1>3, <1>4, <1>5, <1>6, <1>7, <1>8
        DEF WsNext, Opening, Handler, SessionNext

\* On a socket that works no frame is lost between the engine, the bridge and the
\* socket (perga-server/src/ws.rs, bridge.rs).
THEOREM NoFrameLost == WsSpec => []TxEndsDrained
<1>1. WsInv => TxEndsDrained
  BY DEF WsInv
<1> QED BY WsInvInit, WsInvStep, <1>1, PTL DEF WsSpec
=============================================================================
