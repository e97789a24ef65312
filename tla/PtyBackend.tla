------------------------------ MODULE PtyBackend ------------------------------
(***************************************************************************)
(* One local PTY session (crates/pty): the child process and the processes *)
(* that hold the slave side of its terminal, the reader, writer and waiter *)
(* threads, and the PtySession handle whose Drop shuts them down and joins *)
(* them within a time budget.                                              *)
(*                                                                         *)
(* The process table, the terminal line and the clock are outside the      *)
(* repository; they are modelled from how the threads use them.  One Tick  *)
(* is one polling interval of the waiter.                                  *)
(***************************************************************************)
EXTENDS Integers, Sequences

CONSTANTS
    MaxOut,       \* bound: chunks the terminal ever outputs
    InCap,        \* chunks of unread input the line buffers before write blocks
    MaxQueue,     \* bound: commands a client leaves waiting in the channel
    Grace,        \* SIGKILL_GRACE in ticks
    JoinBudget,   \* SHUTDOWN_JOIN_BUDGET in ticks
    ReadMayFail,  \* TRUE: read() may fail with an errno that is not a hang-up
    WaitMayFail   \* TRUE: try_wait() may fail

ASSUME PtyAssumption ==
    /\ MaxOut \in Nat /\ InCap \in Nat /\ MaxQueue \in Nat
    /\ Grace \in Nat /\ JoinBudget \in Nat
    /\ ReadMayFail \in BOOLEAN /\ WaitMayFail \in BOOLEAN

VARIABLES
    child,      \* the process forked by spawn, as the process table has it
    holders,    \* other processes with the slave open: in the child's process
                \* group ("mate") or outside it ("stray")
    hupSent,    \* SIGHUP was sent
    misfired,   \* signals sent by number after the pid had been reaped
    produced,   \* chunks written to the slave so far
    pending,    \* chunks of input no process has read yet
    read,       \* chunks the reader has taken from the master
    rpc, wpc, tpc,  \* where the reader, the writer and the waiter stand
    cmds,       \* command channel
    signalled,  \* a message was put into the shutdown channel
    seen, graceLeft, escalated, waitOk,   \* locals of waiter_loop
    handle, joinLeft, detached,   \* PtySession: its Drop and the join budget
    engine,     \* a client still holds clones of command_tx and event_rx
    late,       \* time has passed while a thread, or Drop, had work to do
    sent        \* every event put into the event channel

procVars   == <<child, holders, hupSent, misfired>>
ttyVars    == <<produced, pending>>
readerVars == <<rpc, read>>
writerVars == <<wpc, cmds>>
waiterVars == <<tpc, seen, graceLeft, escalated, waitOk>>
dropVars   == <<handle, joinLeft, detached>>
vars == <<procVars, ttyVars, readerVars, writerVars, waiterVars, signalled,
          dropVars, engine, late, sent>>

Commands   == {"write", "resize", "shutdown"}
ErrorKinds == {"readError", "writeError", "waitError"}
Out(k)     == [kind |-> "output", n |-> k]
Signal(k)  == [kind |-> k, n |-> 0]
Event      == [kind : {"output", "exited"} \cup ErrorKinds, n : Nat]

SlaveOpen  == child = "running" \/ holders # {}
MasterOpen == rpc # "done" \/ wpc # "done"
RxAlive    == engine \/ handle # "gone"
AllDone    == rpc = "done" /\ wpc = "done" /\ tpc = "done"
Has(k)     == \E i \in DOMAIN sent : sent[i].kind = k

\* send() on the event channel fails once no receiver is left.
Emit(e) == sent' = IF RxAlive THEN Append(sent, e) ELSE sent

\* send() on the command channel fails once the writer thread has returned.
SendCommand(c) == cmds' = IF wpc = "done" THEN cmds ELSE Append(cmds, c)

-----------------------------------------------------------------------------
(* The session as spawn returns it. *)

Init ==
    /\ child = "running" /\ holders = {} /\ hupSent = FALSE /\ misfired = {}
    /\ produced = 0 /\ pending = 0
    /\ rpc = "read" /\ read = 0
    /\ wpc = "recv" /\ cmds = <<>>
    /\ tpc = "poll" /\ seen = FALSE /\ graceLeft = 0
    /\ escalated = FALSE /\ waitOk = TRUE
    /\ signalled = FALSE
    /\ handle = "live" /\ joinLeft = 0 /\ detached = FALSE /\ late = FALSE
    /\ engine = TRUE
    /\ sent = <<>>

-----------------------------------------------------------------------------
(* The processes behind the terminal (outside the repository). *)

ProcessOutput ==
    /\ SlaveOpen /\ MasterOpen
    /\ produced < MaxOut
    /\ produced' = produced + 1
    /\ UNCHANGED <<procVars, pending, readerVars, writerVars, waiterVars,
                   signalled, dropVars, engine, sent, late>>

ProcessInput ==
    /\ SlaveOpen
    /\ pending > 0
    /\ pending' = pending - 1
    /\ UNCHANGED <<procVars, produced, readerVars, writerVars, waiterVars,
                   signalled, dropVars, engine, sent, late>>

Fork ==
    /\ child = "running"
    /\ \E p \in {"mate", "stray"} \ holders : holders' = holders \cup {p}
    /\ UNCHANGED <<child, hupSent, misfired, ttyVars, readerVars, writerVars,
                   waiterVars, signalled, dropVars, engine, sent, late>>

HolderExit ==
    /\ \E p \in holders : holders' = holders \ {p}
    /\ UNCHANGED <<child, hupSent, misfired, ttyVars, readerVars, writerVars,
                   waiterVars, signalled, dropVars, engine, sent, late>>

\* Of its own accord, or because SIGHUP ends it; it may also ignore SIGHUP.
ChildExit ==
    /\ child = "running"
    /\ child' = "zombie"
    /\ UNCHANGED <<holders, hupSent, misfired, ttyVars, readerVars, writerVars,
                   waiterVars, signalled, dropVars, engine, sent, late>>

Environment == ProcessOutput \/ ProcessInput \/ Fork \/ HolderExit \/ ChildExit

-----------------------------------------------------------------------------
(* reader_loop *)

\* Mutant: the reader keeps only the newest chunk.
ReaderReadNewest ==
    /\ rpc = "read"
    /\ read < produced
    /\ read' = produced
    /\ rpc' = "send"
    /\ UNCHANGED <<procVars, ttyVars, writerVars, waiterVars, signalled,
                   dropVars, engine, sent, late>>

ReaderRead ==
    /\ rpc = "read"
    /\ read < produced
    /\ read' = read + 1
    /\ rpc' = "send"
    /\ UNCHANGED <<procVars, ttyVars, writerVars, waiterVars, signalled,
                   dropVars, engine, sent, late>>

ReaderSend ==
    /\ rpc = "send"
    /\ Emit(Out(read))
    /\ rpc' = IF RxAlive THEN "read" ELSE "done"
    /\ UNCHANGED <<procVars, ttyVars, read, writerVars, waiterVars, signalled,
                   dropVars, engine, late>>

\* Mutant: a hang-up is acted on before the bytes still in the line are read.
ReaderHangupEarly ==
    /\ rpc = "read"
    /\ ~SlaveOpen
    /\ rpc' = "done"
    /\ UNCHANGED <<procVars, ttyVars, read, writerVars, waiterVars, signalled,
                   dropVars, engine, sent, late>>

\* read() returns 0 or EIO: every slave descriptor is closed, the line is empty.
ReaderHangup ==
    /\ rpc = "read"
    /\ ~SlaveOpen
    /\ read = produced
    /\ rpc' = "done"
    /\ UNCHANGED <<procVars, ttyVars, read, writerVars, waiterVars, signalled,
                   dropVars, engine, sent, late>>

ReaderError ==
    /\ ReadMayFail
    /\ rpc = "read"
    /\ Emit(Signal("readError"))
    /\ rpc' = "done"
    /\ UNCHANGED <<procVars, ttyVars, read, writerVars, waiterVars, signalled,
                   dropVars, engine, late>>

Reader == ReaderRead \/ ReaderSend \/ ReaderHangup \/ ReaderError

-----------------------------------------------------------------------------
(* writer_loop *)

\* A resize only reaches the kernel; its failure is logged and nothing else.  recv
\* never fails: Drop puts Shutdown into the channel before it gives up its sender.
WriterRecv ==
    /\ wpc = "recv"
    /\ cmds # <<>>
    /\ wpc' = CASE Head(cmds) = "write"    -> "write"
                [] Head(cmds) = "resize"   -> "recv"
                [] Head(cmds) = "shutdown" -> "hup"
    /\ cmds' = Tail(cmds)
    /\ UNCHANGED <<procVars, ttyVars, readerVars, waiterVars, signalled,
                   dropVars, engine, sent, late>>

\* write_all blocks while the line is full and fails once no slave is open.
WriterWrite ==
    /\ wpc = "write"
    /\ \/ /\ SlaveOpen
          /\ pending < InCap
          /\ pending' = pending + 1
          /\ wpc' = "recv"
       \/ /\ ~SlaveOpen
          /\ wpc' = "fail"
          /\ UNCHANGED pending
    /\ UNCHANGED <<procVars, produced, readerVars, cmds, waiterVars, signalled,
                   dropVars, engine, sent, late>>

WriterFail ==
    /\ wpc = "fail"
    /\ Emit(Signal("writeError"))
    /\ wpc' = "done"
    /\ UNCHANGED <<procVars, ttyVars, readerVars, cmds, waiterVars, signalled,
                   dropVars, engine, late>>

\* hangup_killer.kill() is kill(pid, SIGHUP) on the number saved at spawn.
WriterHangup ==
    /\ wpc = "hup"
    /\ hupSent' = TRUE
    /\ misfired' = IF child = "reaped" THEN misfired \cup {"SIGHUP"} ELSE misfired
    /\ wpc' = "notify"
    /\ UNCHANGED <<child, holders, ttyVars, readerVars, cmds, waiterVars,
                   signalled, dropVars, engine, sent, late>>

WriterNotify ==
    /\ wpc = "notify"
    /\ signalled' = TRUE
    /\ wpc' = "done"
    /\ UNCHANGED <<procVars, ttyVars, readerVars, cmds, waiterVars, dropVars,
                   engine, sent, late>>

Writer == WriterRecv \/ WriterWrite \/ WriterFail \/ WriterHangup \/ WriterNotify

-----------------------------------------------------------------------------
(* waiter_loop *)

WaiterPoll ==
    /\ tpc = "poll"
    /\ \/ /\ child = "zombie"          \* Ok(Some(status)): reaped
          /\ child' = "reaped"
          /\ tpc' = "barrier"
       \/ /\ child = "running"         \* Ok(None)
          /\ tpc' = "armed"
          /\ UNCHANGED child
    /\ UNCHANGED <<holders, hupSent, misfired, ttyVars, readerVars, writerVars,
                   seen, graceLeft, escalated, waitOk, signalled, dropVars,
                   engine, sent, late>>

WaiterPollFails ==
    /\ WaitMayFail
    /\ tpc = "poll"
    /\ waitOk' = FALSE
    /\ tpc' = "barrier"
    /\ UNCHANGED <<procVars, ttyVars, readerVars, writerVars, seen, graceLeft,
                   escalated, signalled, dropVars, engine, sent, late>>

\* killpg(pgid, SIGKILL): ends the child and its group, not the strays.
KillGroup ==
    /\ child' = IF child = "running" THEN "zombie" ELSE child
    /\ holders' = holders \ {"mate"}
    /\ misfired' = IF child = "reaped" THEN misfired \cup {"SIGKILL"} ELSE misfired

\* The rest of one iteration: look at the shutdown channel once, then at the
\* clock, then sleep.
WaiterLook ==
    /\ tpc = "armed"
    /\ ~seen
    /\ seen' = signalled
    /\ graceLeft' = IF signalled THEN Grace ELSE graceLeft
    /\ tpc' = "sleep"
    /\ UNCHANGED <<procVars, ttyVars, readerVars, writerVars, escalated, waitOk,
                   signalled, dropVars, engine, sent, late>>

\* Mutant: the kill is left to a timer that does not look at try_wait.
WaiterEscalateByTimer ==
    /\ seen /\ graceLeft = 0 /\ ~escalated
    /\ KillGroup
    /\ escalated' = TRUE
    /\ UNCHANGED <<hupSent, ttyVars, readerVars, writerVars, tpc, seen,
                   graceLeft, waitOk, signalled, dropVars, engine, sent, late>>

WaiterEscalate ==
    /\ tpc = "armed"
    /\ seen /\ graceLeft = 0 /\ ~escalated
    /\ KillGroup
    /\ escalated' = TRUE
    /\ tpc' = "sleep"
    /\ UNCHANGED <<hupSent, ttyVars, readerVars, writerVars, seen, graceLeft,
                   waitOk, signalled, dropVars, engine, sent, late>>

WaiterIdle ==
    /\ tpc = "armed"
    /\ seen /\ (graceLeft > 0 \/ escalated)
    /\ tpc' = "sleep"
    /\ UNCHANGED <<procVars, ttyVars, readerVars, writerVars, seen, graceLeft,
                   escalated, waitOk, signalled, dropVars, engine, sent, late>>

\* Mutant: the result is reported without waiting for the reader.
WaiterReportAtOnce ==
    /\ tpc = "barrier"
    /\ Emit(Signal(IF waitOk THEN "exited" ELSE "waitError"))
    /\ tpc' = "done"
    /\ UNCHANGED <<procVars, ttyVars, readerVars, writerVars, seen, graceLeft,
                   escalated, waitOk, signalled, dropVars, engine, late>>

\* Mutant: the writer has to end as well before the exit is reported.
WaiterReportLast ==
    /\ tpc = "barrier"
    /\ rpc = "done" /\ wpc = "done"
    /\ Emit(Signal(IF waitOk THEN "exited" ELSE "waitError"))
    /\ tpc' = "done"
    /\ UNCHANGED <<procVars, ttyVars, readerVars, writerVars, seen, graceLeft,
                   escalated, waitOk, signalled, dropVars, engine, late>>

\* reader_done.recv() returns on the reader's message or on its end.
WaiterReport ==
    /\ tpc = "barrier"
    /\ rpc = "done"
    /\ Emit(Signal(IF waitOk THEN "exited" ELSE "waitError"))
    /\ tpc' = "done"
    /\ UNCHANGED <<procVars, ttyVars, readerVars, writerVars, seen, graceLeft,
                   escalated, waitOk, signalled, dropVars, engine, late>>

Waiter == WaiterPoll \/ WaiterPollFails \/ WaiterLook \/ WaiterEscalate
          \/ WaiterIdle \/ WaiterReport

-----------------------------------------------------------------------------
(* What the threads could do at once: time that passes then is a delay of the *)
(* scheduler, and excuses a missed deadline.                                  *)

ReaderReady == rpc = "send" \/ (rpc = "read" /\ (read < produced \/ ~SlaveOpen))
WriterReady ==
    \/ wpc \in {"hup", "notify", "fail"}
    \/ wpc = "recv" /\ cmds # <<>>
    \/ wpc = "write" /\ (pending < InCap \/ ~SlaveOpen)
WaiterReady == tpc \in {"poll", "armed"} \/ (tpc = "barrier" /\ rpc = "done")
ThreadReady == ReaderReady \/ WriterReady \/ WaiterReady
DropReady   == handle = "signal" \/ (handle = "joining" /\ (AllDone \/ joinLeft = 0))

Quiescent == ~ThreadReady /\ ~DropReady

-----------------------------------------------------------------------------
(* The client (the engine thread) and the PtySession handle. *)

ClientSend ==
    /\ engine
    /\ Len(cmds) < MaxQueue
    /\ \E c \in Commands : SendCommand(c)
    /\ UNCHANGED <<procVars, ttyVars, readerVars, wpc, waiterVars, signalled,
                   dropVars, engine, sent, late>>

ClientExit ==
    /\ engine
    /\ engine' = FALSE
    /\ UNCHANGED <<procVars, ttyVars, readerVars, writerVars, waiterVars,
                   signalled, dropVars, sent, late>>

\* Mutant: Drop signals the waiter only.
DropSkipsWriter ==
    /\ handle = "live"
    /\ handle' = "signal"
    /\ UNCHANGED <<procVars, ttyVars, readerVars, writerVars, waiterVars,
                   signalled, joinLeft, detached, engine, sent, late>>

DropShutdown ==
    /\ handle = "live"
    /\ SendCommand("shutdown")
    /\ handle' = "signal"
    /\ UNCHANGED <<procVars, ttyVars, readerVars, wpc, waiterVars, signalled,
                   joinLeft, detached, engine, sent, late>>

\* Mutant: Drop relies on the writer to pass the signal on.
DropNoSignal ==
    /\ handle = "signal"
    /\ joinLeft' = JoinBudget
    /\ handle' = "joining"
    /\ UNCHANGED <<procVars, ttyVars, readerVars, writerVars, waiterVars,
                   signalled, detached, engine, sent, late>>

DropSignal ==
    /\ handle = "signal"
    /\ signalled' = TRUE
    /\ joinLeft' = JoinBudget
    /\ handle' = "joining"
    /\ UNCHANGED <<procVars, ttyVars, readerVars, writerVars, waiterVars,
                   detached, engine, sent, late>>

DropJoined ==
    /\ handle = "joining"
    /\ AllDone
    /\ handle' = "gone"
    /\ UNCHANGED <<procVars, ttyVars, readerVars, writerVars, waiterVars,
                   signalled, joinLeft, detached, engine, sent, late>>

\* Mutant: the deadline is looked at only when a thread has reported its end.
DropDetachTooLate ==
    /\ handle = "joining"
    /\ joinLeft = 0
    /\ AllDone
    /\ detached' = TRUE
    /\ handle' = "gone"
    /\ UNCHANGED <<procVars, ttyVars, readerVars, writerVars, waiterVars,
                   signalled, joinLeft, engine, sent, late>>

DropDetach ==
    /\ handle = "joining"
    /\ joinLeft = 0
    /\ ~AllDone
    /\ late' = (late \/ ThreadReady)
    /\ detached' = TRUE
    /\ handle' = "gone"
    /\ UNCHANGED <<procVars, ttyVars, readerVars, writerVars, waiterVars,
                   signalled, joinLeft, engine, sent>>

DropGoesOn == DropSignal \/ DropJoined \/ DropDetach
Drop == DropShutdown \/ DropGoesOn

-----------------------------------------------------------------------------
(* The clock *)

\* Mutant: the remaining time is computed without the check for the deadline.
LessUnchecked(t) == t - 1

\* A timer that has run out stays there.
Less(t) == IF t = 0 THEN 0 ELSE t - 1

Tick ==
    /\ late' = (late \/ ~Quiescent)
    /\ tpc' = IF tpc = "sleep" THEN "poll" ELSE tpc
    /\ graceLeft' = Less(graceLeft)
    /\ joinLeft' = Less(joinLeft)
    /\ UNCHANGED <<procVars, ttyVars, readerVars, writerVars, seen, escalated,
                   waitOk, signalled, handle, detached, engine, sent>>

-----------------------------------------------------------------------------

Next == Environment \/ Reader \/ Writer \/ Waiter \/ ClientSend \/ ClientExit
        \/ Drop \/ Tick

Spec == Init /\ [][Next]_vars

\* Threads are scheduled by the operating system, time passes and a Drop that has
\* begun goes on; nothing makes a process behind the terminal read, write or exit, a
\* client act, or the owner drop the session.
Fairness ==
    /\ WF_vars(Reader) /\ WF_vars(Writer) /\ WF_vars(Waiter)
    /\ WF_vars(DropGoesOn) /\ WF_vars(Tick)

FairSpec == Spec /\ Fairness

-----------------------------------------------------------------------------
(* Safety *)

DataOK ==
    /\ child \in {"running", "zombie", "reaped"}
    /\ holders \subseteq {"mate", "stray"}
    /\ misfired \subseteq {"SIGHUP", "SIGKILL"}
    /\ produced \in 0..MaxOut
    /\ pending \in 0..InCap
    /\ read \in 0..produced
    /\ rpc \in {"read", "send", "done"}
    /\ wpc \in {"recv", "write", "fail", "hup", "notify", "done"}
    /\ tpc \in {"poll", "armed", "sleep", "barrier", "done"}
    /\ cmds \in Seq(Commands)
    /\ graceLeft \in 0..Grace
    /\ handle \in {"live", "signal", "joining", "gone"}
    /\ joinLeft \in 0..JoinBudget
    /\ sent \in Seq(Event)

FlagsOK ==
    /\ hupSent \in BOOLEAN /\ signalled \in BOOLEAN /\ seen \in BOOLEAN
    /\ escalated \in BOOLEAN /\ waitOk \in BOOLEAN /\ detached \in BOOLEAN
    /\ engine \in BOOLEAN /\ late \in BOOLEAN

TypeOK == DataOK /\ FlagsOK

\* Output events carry the chunks in the order the terminal produced them, none
\* twice and none skipped (event.rs: "the order is the order of production").
OutputInOrder ==
    \A i \in DOMAIN sent : sent[i].kind = "output" =>
        /\ sent[i].n \in 1..read
        /\ \A k \in 1..(sent[i].n - 1) : \E j \in 1..(i - 1) : sent[j] = Out(k)
        /\ \A j \in 1..(i - 1) : sent[j] # sent[i]

\* When Exited is in the channel every chunk the terminal will ever produce is in
\* the channel too, before it: the reader-done barrier of waiter_loop, the hang-up
\* rule of reader_loop and the order of their two sends together.
ExitedAfterAllOutput ==
    \A i \in DOMAIN sent : sent[i].kind = "exited" =>
        \/ \E j \in 1..(i - 1) : sent[j].kind = "readError"
        \/ \A k \in 1..produced : \E j \in 1..(i - 1) : sent[j] = Out(k)

\* SIGKILL goes out by number, and never after the pid was released: the reason
\* why waiter_loop keeps try_wait and killpg in one thread.
SigkillOnOwnGroup == "SIGKILL" \notin misfired

\* Dropping the handle leaves a thread behind only while some process still holds
\* the slave: in every other case the 2 s budget covers the 500 ms grace, the
\* kill, the reap and the end of all three threads.  Unless the threads were not given
\* the time to run, or try_wait has failed.
DetachOnlyWhileHeld ==
    [][detached' = detached \/ holders # {} \/ ~waitOk \/ late']_vars

\* The contract of Drop is SIGHUP, grace, SIGKILL.  The grace runs out before a
\* SIGHUP was sent only when the writer cannot send one: it is blocked in write_all,
\* or a failed write has ended it.  Unless the threads were not given the time to run.
SighupFirstUnlessWriterStuck ==
    [][seen /\ graceLeft # 0 /\ graceLeft' = 0 /\ ~hupSent
            => wpc \in {"write", "done"} \/ late']_vars

-----------------------------------------------------------------------------
(* Liveness *)

\* Drop returns, whatever the child, its descendants and the line do.
DropReturns == handle # "live" ~> handle = "gone"

\* Once the handle is dropped the child is killed if need be, and reaped: also
\* when the writer is blocked in write_all or has already failed.
DroppedChildReaped == handle # "live" ~> child = "reaped"

\* When the last process has let go of the slave the consumer learns of the exit,
\* if it is still listening.
ExitReported == ~SlaveOpen ~> (Has("exited") \/ ~RxAlive)

\* A thread that Drop had to detach ends once the slave is closed: no thread of a
\* dropped session outlives the processes behind its terminal.
DetachedThreadsEnd == (handle = "gone" /\ ~SlaveOpen) ~> AllDone

-----------------------------------------------------------------------------
(* The contract of crates/transport: with late errors the module implements   *)
(* it, as event.rs words it ("the last event") it does not.                   *)

AsBuilt == INSTANCE TransportStream WITH LateErrors <- TRUE, open <- ~AllDone
\* Every step of the threads is a step of the event-stream contract in which only
\* Error events may follow Exited.
ImplementsStream == AsBuilt!Spec

-----------------------------------------------------------------------------
(* What the documentation says and the code does not do *)

\* transport/src/event.rs:16 "the last event, no Output / Error afterwards".
ExitedIsLast ==
    \A i \in DOMAIN sent : sent[i].kind = "exited" => i = Len(sent)

\* pty/src/session.rs:7-10: SIGHUP, grace and SIGKILL are all executed by the
\* waiter, so that no signal can reach a pid the kernel has reused.
SighupOnOwnChild == "SIGHUP" \notin misfired
=============================================================================
