--------------------------- MODULE TerminalSession ---------------------------
(***************************************************************************)
(* A terminal session (crates/terminal-session): the engine thread that    *)
(* selects between transport events and client input, and the              *)
(* TerminalSession handle whose Drop closes the input, drops the transport *)
(* and joins the engine thread.                                            *)
(*                                                                         *)
(* The transport is the local PTY, in less detail than in PtyBackend: the  *)
(* three threads, each with its clone of event_tx, the command channel and *)
(* the shutdown signal.  What the terminal grid holds is not modelled here *)
(* (TerminalEngine does that): a frame is only the kind of its event.      *)
(***************************************************************************)
EXTENDS Integers, Sequences, FiniteSets

CONSTANTS
    MaxOut,       \* bound: chunks of output the child produces
    MaxQueue,     \* bound: inputs and commands waiting in their channels
    MaxFrames,    \* bound: frames emitted because a client asked for them
    Inputs,       \* what clients send: a subset of {"keys", "resize"}
    ReadMayFail, WaitMayFail   \* backend errors that may happen

ASSUME SessionAssumption ==
    /\ {MaxOut, MaxQueue, MaxFrames} \subseteq Nat
    /\ Inputs \subseteq {"keys", "resize"}
    /\ {ReadMayFail, WaitMayFail} \subseteq BOOLEAN

VARIABLES
    child,      \* "running" or "exited"
    held,       \* a process other than the child has the slave open
    produced,   \* chunks written to the line
    line,       \* those of them the reader has not taken
    reader, writer, waiter,    \* the threads of the transport
    stop,       \* a message is in the waiter's shutdown channel
    cmds,       \* command channel
    tev,        \* transport event channel
    engine,     \* "run" or "done"
    inq,        \* input channel
    clones,     \* a client holds a clone of input_tx
    emitted,    \* every ProtocolEvent sent, in order
    session     \* the handle: "live", or what its Drop does next

backendVars == <<child, held, produced, line, reader, writer, waiter, stop>>
svars == <<backendVars, cmds, tev, engine, inq, clones, emitted, session>>

Frames == {"baseline", "commandEnd", "outputFrame", "resizeFrame", "exited"}

SlaveOpen    == child = "running" \/ held
BackendDone  == reader # "run" /\ writer = "done" /\ waiter = "done"
TransportUp  == session \in {"live", "dropTransport", "joinBackend"}
TransportRx  == engine = "run" \/ TransportUp
\* Mutant: Drop joins the engine thread before it gives up its own input_tx.
InputTxKept  == session # "gone" \/ clones
InputTx      == session = "live" \/ clones
Emit(e)      == tev' = IF TransportRx THEN Append(tev, e) ELSE tev

\* spawn_with_transport sends the baseline Init before the engine thread runs.
SessionInit ==
    /\ child = "running" /\ held = FALSE /\ produced = 0 /\ line = 0
    /\ reader = "run" /\ writer = "run" /\ waiter = "run" /\ stop = FALSE
    /\ cmds = <<>> /\ tev = <<>> /\ inq = <<>>
    /\ engine = "run"
    /\ emitted = <<"baseline">>
    /\ session = "live"

-----------------------------------------------------------------------------
(* Processes behind the terminal *)

ChildWrites ==
    /\ SlaveOpen /\ produced < MaxOut
    /\ produced' = produced + 1
    /\ line' = line + 1
    /\ UNCHANGED <<child, held, reader, writer, waiter, stop, cmds, tev, engine,
                   inq, clones, emitted, session>>

ChildForks ==
    /\ child = "running" /\ ~held
    /\ held' = TRUE
    /\ UNCHANGED <<child, produced, line, reader, writer, waiter, stop, cmds,
                   tev, engine, inq, clones, emitted, session>>

HolderExits ==
    /\ held
    /\ held' = FALSE
    /\ UNCHANGED <<child, produced, line, reader, writer, waiter, stop, cmds,
                   tev, engine, inq, clones, emitted, session>>

ChildExits ==
    /\ child = "running"
    /\ child' = "exited"
    /\ UNCHANGED <<held, produced, line, reader, writer, waiter, stop, cmds,
                   tev, engine, inq, clones, emitted, session>>

Processes == ChildWrites \/ ChildForks \/ HolderExits \/ ChildExits

-----------------------------------------------------------------------------
(* Transport threads *)

Reader ==
    /\ reader = "run"
    /\ \/ /\ line > 0
          /\ line' = line - 1
          /\ Emit("output")
          /\ reader' = IF TransportRx THEN "run" ELSE "done"
       \/ /\ line = 0 /\ ~SlaveOpen
          /\ reader' = "done"
          /\ UNCHANGED <<line, tev>>
       \/ /\ ReadMayFail
          /\ Emit("readError")
          /\ reader' = "failed"
          /\ UNCHANGED line
    /\ UNCHANGED <<child, held, produced, writer, waiter, stop, cmds, engine,
                   inq, clones, emitted, session>>

\* Nothing reads the terminal's input and the line is full.
WriterBlocks ==
    /\ writer = "run"
    /\ SlaveOpen
    /\ cmds # <<>> /\ Head(cmds) = "write"
    /\ writer' = "blocked"
    /\ UNCHANGED <<child, held, produced, line, reader, waiter, stop, cmds, tev,
                   engine, inq, clones, emitted, session>>

WriterUnblocks ==
    /\ writer = "blocked"
    /\ SlaveOpen
    /\ writer' = "run"
    /\ cmds' = Tail(cmds)
    /\ UNCHANGED <<child, held, produced, line, reader, waiter, stop, tev,
                   engine, inq, clones, emitted, session>>

WriterWrite ==
    /\ writer = "run"
    /\ cmds # <<>> /\ Head(cmds) \in {"write", "resize"}
    /\ Head(cmds) = "write" => SlaveOpen
    /\ cmds' = Tail(cmds)
    /\ UNCHANGED <<backendVars, tev, engine, inq, clones, emitted, session>>

WriterFails ==
    /\ writer \in {"run", "blocked"}
    /\ cmds # <<>> /\ Head(cmds) = "write"
    /\ ~SlaveOpen
    /\ Emit("writeError")
    /\ writer' = "done"
    /\ UNCHANGED <<child, held, produced, line, reader, waiter, stop, cmds,
                   engine, inq, clones, emitted, session>>

WriterShutdown ==
    /\ writer = "run"
    /\ cmds # <<>> /\ Head(cmds) = "shutdown"
    /\ stop' = TRUE
    /\ writer' = "done"
    /\ UNCHANGED <<child, held, produced, line, reader, waiter, cmds, tev,
                   engine, inq, clones, emitted, session>>

Writer == WriterWrite \/ WriterFails \/ WriterShutdown

WaiterReap ==
    /\ waiter = "run"
    /\ child = "exited"
    /\ waiter' = "exited"
    /\ UNCHANGED <<child, held, produced, line, reader, writer, stop, cmds, tev,
                   engine, inq, clones, emitted, session>>

WaiterPollFails ==
    /\ WaitMayFail
    /\ waiter = "run"
    /\ waiter' = "waitError"
    /\ UNCHANGED <<child, held, produced, line, reader, writer, stop, cmds, tev,
                   engine, inq, clones, emitted, session>>

\* The grace has run out since the shutdown signal: SIGKILL.
WaiterKill ==
    /\ waiter = "run"
    /\ child = "running" /\ stop
    /\ child' = "exited"
    /\ UNCHANGED <<held, produced, line, reader, writer, waiter, stop, cmds,
                   tev, engine, inq, clones, emitted, session>>

\* Mutant: the barrier on the reader is missing.
WaiterReportAtOnce ==
    /\ waiter \in {"exited", "waitError"}
    /\ Emit(waiter)
    /\ waiter' = "done"
    /\ UNCHANGED <<child, held, produced, line, reader, writer, stop, cmds,
                   engine, inq, clones, emitted, session>>

WaiterReport ==
    /\ waiter \in {"exited", "waitError"}
    /\ reader # "run"
    /\ Emit(waiter)
    /\ waiter' = "done"
    /\ UNCHANGED <<child, held, produced, line, reader, writer, stop, cmds,
                   engine, inq, clones, emitted, session>>

Waiter == WaiterReap \/ WaiterPollFails \/ WaiterKill \/ WaiterReport

Backend == Reader \/ WriterBlocks \/ WriterUnblocks \/ Writer \/ Waiter

-----------------------------------------------------------------------------
(* run_engine_loop: one select arm after another, in any order when both are  *)
(* ready.  The loop returns when a send fails or an arm disconnects.          *)

EngineUnchanged == UNCHANGED <<backendVars, clones, session>>

\* Terminal replies (CPR, DA) go back before the frame is encoded; without a
\* writer that send fails and the loop returns, the frame not sent.
EngineOutput ==
    /\ engine = "run"
    /\ tev # <<>> /\ Head(tev) = "output"
    /\ tev' = Tail(tev)
    /\ \E replies \in BOOLEAN, ends \in {<<>>, <<"commandEnd">>} :
          \/ /\ replies /\ writer = "done"
             /\ engine' = "done"
             /\ UNCHANGED <<cmds, emitted>>
          \/ /\ replies => writer # "done" /\ Len(cmds) < MaxQueue
             /\ cmds' = IF replies THEN Append(cmds, "write") ELSE cmds
             /\ emitted' = emitted \o ends \o <<"outputFrame">>
             /\ UNCHANGED engine
    /\ UNCHANGED inq
    /\ EngineUnchanged

EngineExited ==
    /\ engine = "run"
    /\ tev # <<>> /\ Head(tev) = "exited"
    /\ tev' = Tail(tev)
    /\ emitted' = Append(emitted, "exited")
    /\ engine' = "done"
    /\ UNCHANGED <<cmds, inq>>
    /\ EngineUnchanged

\* Mutant: an error event ends the loop like Exited does.
EngineErrorReturns ==
    /\ engine = "run"
    /\ tev # <<>> /\ Head(tev) \in {"readError", "writeError", "waitError"}
    /\ tev' = Tail(tev)
    /\ engine' = "done"
    /\ UNCHANGED <<emitted, cmds, inq>>
    /\ EngineUnchanged

\* An error event is logged; the loop goes on.
EngineError ==
    /\ engine = "run"
    /\ tev # <<>> /\ Head(tev) \in {"readError", "writeError", "waitError"}
    /\ tev' = Tail(tev)
    /\ UNCHANGED <<engine, emitted, cmds, inq>>
    /\ EngineUnchanged

EngineDisconnected ==
    /\ engine = "run"
    /\ tev = <<>> /\ BackendDone
    /\ engine' = "done"
    /\ UNCHANGED <<tev, emitted, cmds, inq>>
    /\ EngineUnchanged

\* Keys, paste, mouse and focus become bytes, or nothing in the current modes.
EngineKeys ==
    /\ engine = "run"
    /\ inq # <<>> /\ Head(inq) = "keys"
    /\ inq' = Tail(inq)
    /\ \/ UNCHANGED <<cmds, engine>>
       \/ /\ writer # "done"
          /\ cmds' = Append(cmds, "write")
          /\ UNCHANGED engine
       \/ /\ writer = "done"
          /\ engine' = "done"
          /\ UNCHANGED cmds
    /\ UNCHANGED <<tev, emitted>>
    /\ EngineUnchanged

EngineResize ==
    /\ engine = "run"
    /\ inq # <<>> /\ Head(inq) = "resize"
    /\ inq' = Tail(inq)
    /\ \/ /\ writer # "done"
          /\ cmds' = Append(cmds, "resize")
          /\ emitted' = Append(emitted, "resizeFrame")
          /\ UNCHANGED engine
       \/ /\ writer = "done"
          /\ engine' = "done"
          /\ UNCHANGED <<cmds, emitted>>
    /\ UNCHANGED tev
    /\ EngineUnchanged

EngineInputClosed ==
    /\ engine = "run"
    /\ inq = <<>> /\ ~InputTx
    /\ engine' = "done"
    /\ UNCHANGED <<tev, emitted, cmds, inq>>
    /\ EngineUnchanged

Engine == EngineOutput \/ EngineExited \/ EngineError \/ EngineDisconnected
          \/ EngineKeys \/ EngineResize \/ EngineInputClosed

-----------------------------------------------------------------------------
(* The owner of the handle *)

\* send() on the input channel fails once the engine thread is gone.
ClientInput ==
    /\ InputTx
    /\ engine = "run"
    /\ Len(inq) + Len(cmds) < MaxQueue
    /\ \E i \in Inputs :
          /\ i = "resize" => Len(inq) + Len(emitted) < MaxFrames
          /\ inq' = Append(inq, i)
    /\ UNCHANGED <<backendVars, cmds, tev, engine, clones, emitted, session>>

CloneInput ==
    /\ session = "live"
    /\ ~clones
    /\ clones' = TRUE
    /\ UNCHANGED <<backendVars, cmds, tev, engine, inq, emitted, session>>

DropClone ==
    /\ clones
    /\ clones' = FALSE
    /\ UNCHANGED <<backendVars, cmds, tev, engine, inq, emitted, session>>

\* The handle gives up its input_tx.
DropInput ==
    /\ session = "live"
    /\ session' = "dropTransport"
    /\ UNCHANGED <<backendVars, cmds, tev, engine, inq, clones, emitted>>

\* PtySession::drop: Shutdown to the writer, the signal straight to the waiter.
DropTransport ==
    /\ session = "dropTransport"
    /\ cmds' = IF writer = "done" THEN cmds ELSE Append(cmds, "shutdown")
    /\ stop' = TRUE
    /\ session' = "joinBackend"
    /\ UNCHANGED <<child, held, produced, line, reader, writer, waiter, tev,
                   engine, inq, clones, emitted>>

\* The three threads are joined, or detached when the 2 s budget is spent and a
\* process still has the slave open (PtyBackend!DetachOnlyWhileHeld).
DropJoinBackend ==
    /\ session = "joinBackend"
    /\ BackendDone \/ SlaveOpen
    /\ session' = "joinEngine"
    /\ UNCHANGED <<backendVars, cmds, tev, engine, inq, clones, emitted>>

DropJoinEngine ==
    /\ session = "joinEngine"
    /\ engine = "done"
    /\ session' = "gone"
    /\ UNCHANGED <<backendVars, cmds, tev, engine, inq, clones, emitted>>

Drop == DropTransport \/ DropJoinBackend \/ DropJoinEngine

-----------------------------------------------------------------------------

\* The session is over and its threads have ended; this is no deadlock.
Finished ==
    /\ session = "gone" /\ BackendDone
    /\ UNCHANGED svars

Next ==
    \/ Processes \/ Backend \/ Engine \/ Finished
    \/ ClientInput \/ CloneInput \/ DropClone \/ DropInput \/ Drop

Init == SessionInit /\ clones = FALSE

Spec == Init /\ [][Next]_svars

ThreadFairness ==
    /\ WF_svars(Reader) /\ WF_svars(Writer) /\ WF_svars(Waiter)
    /\ WF_svars(EngineOutput \/ EngineExited \/ EngineError \/ EngineDisconnected)
    /\ WF_svars(EngineKeys \/ EngineResize \/ EngineInputClosed)
    /\ WF_svars(Drop)

FairSpec == Spec /\ ThreadFairness

-----------------------------------------------------------------------------
(* Properties *)

Last(s)     == s[Len(s)]
Count(s, e) == Cardinality({i \in DOMAIN s : s[i] = e})

\* A client that sees the Exited frame has seen one frame for every chunk the
\* terminal produced, unless the reader failed, and sees nothing after it (the barrier
\* of the transport, the order of handle_transport_event and its return value).
ExitedFrameCloses ==
    \A i \in DOMAIN emitted : emitted[i] = "exited" =>
        /\ i = Len(emitted)
        /\ reader = "failed" \/ Count(emitted, "outputFrame") = produced

\* While the owner keeps the session, the engine thread ends only with the Exited
\* frame or after the writer thread of the transport has died.
EngineEndsEarlyOnlyWithoutWriter ==
    engine = "done" /\ session = "live" =>
        Last(emitted) = "exited" \/ writer = "done"

\* Drop returns once the transport is dropped, if no clone of input_tx is left or
\* the slave is closed.
DropReturns ==
    (session = "joinEngine" /\ (~clones \/ ~SlaveOpen)) ~> session = "gone"
=============================================================================
