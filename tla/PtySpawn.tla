------------------------------- MODULE PtySpawn -------------------------------
(***************************************************************************)
(* How a PTY session comes to be (crates/pty, PtySession::spawn): open the *)
(* terminal, start the child, clone the master twice, start the waiter,    *)
(* the reader and the writer.  Any step may fail, and then PartialSpawn    *)
(* cleans up before spawn returns.  The threads that have been started     *)
(* already run, as they do in PtyBackend, while spawn goes on.             *)
(***************************************************************************)
EXTENDS PtyBackend

VARIABLE stage   \* what spawn does next; "up" and "failed" are its two results

spawnVars == <<vars, stage>>

SpawnInit ==
    /\ child = "none" /\ holders = {} /\ hupSent = FALSE /\ misfired = {}
    /\ produced = 0 /\ pending = 0
    /\ rpc = "unborn" /\ wpc = "unborn" /\ tpc = "unborn"
    /\ read = 0 /\ cmds = <<>> /\ sent = <<>>
    /\ seen = FALSE /\ graceLeft = 0 /\ escalated = FALSE /\ waitOk = TRUE
    /\ signalled = FALSE
    /\ handle = "live" /\ joinLeft = 0 /\ detached = FALSE /\ late = FALSE
    /\ engine = FALSE
    /\ stage = "fork"

\* openpty and spawn_command.  The slave is closed on return: from now on only
\* processes have it open.
SpawnFork ==
    /\ stage = "fork"
    /\ \/ /\ child' = "running"
          /\ stage' = "clone"
          /\ UNCHANGED <<rpc, wpc, tpc, handle>>
       \/ /\ stage' = "failed"
          /\ rpc' = "done" /\ wpc' = "done" /\ tpc' = "done" /\ handle' = "gone"
          /\ UNCHANGED child
    /\ UNCHANGED <<holders, hupSent, misfired, ttyVars, read, cmds, seen,
                   graceLeft, escalated, waitOk, signalled, joinLeft, detached,
                   engine, late, sent>>

\* try_clone_reader and take_writer.
SpawnClone ==
    /\ stage = "clone"
    /\ stage' \in {"waiter", "hangup"}
    /\ UNCHANGED vars

SpawnWaiter ==
    /\ stage = "waiter"
    /\ \/ /\ tpc' = "poll"
          /\ stage' = "reader"
       \/ /\ stage' = "hangup"
          /\ UNCHANGED tpc
    /\ UNCHANGED <<procVars, ttyVars, readerVars, writerVars, seen, graceLeft,
                   escalated, waitOk, signalled, dropVars, engine, late, sent>>

\* Mutant: PartialSpawn joins the threads and leaves the waiter waiting.
CleanUpSilently ==
    /\ joinLeft' = JoinBudget
    /\ handle' = "joining"
    /\ stage' = "joining"
    /\ UNCHANGED signalled

\* Drop of PartialSpawn with a waiter: it alone may signal and reap the child.
CleanUp ==
    /\ signalled' = TRUE
    /\ joinLeft' = JoinBudget
    /\ handle' = "joining"
    /\ stage' = "joining"

\* A closure that was not started drops what it owns: here the reader's clone of
\* the master and its end of reader_done.
SpawnReader ==
    /\ stage = "reader"
    /\ \/ /\ rpc' = "read"
          /\ stage' = "writer"
          /\ UNCHANGED <<wpc, signalled, joinLeft, handle>>
       \/ /\ rpc' = "done" /\ wpc' = "done"
          /\ CleanUp
    /\ UNCHANGED <<procVars, ttyVars, read, cmds, waiterVars, detached, engine,
                   late, sent>>

SpawnWriter ==
    /\ stage = "writer"
    /\ \/ /\ wpc' = "recv"
          /\ stage' = "up"
          /\ UNCHANGED <<signalled, joinLeft, handle>>
       \/ /\ wpc' = "done"
          /\ CleanUp
    /\ UNCHANGED <<procVars, ttyVars, readerVars, cmds, waiterVars, detached,
                   engine, late, sent>>

Spawn == SpawnFork \/ SpawnClone \/ SpawnWaiter \/ SpawnReader \/ SpawnWriter

-----------------------------------------------------------------------------
(* Drop of PartialSpawn *)

\* Without a waiter it does the waiter's work itself: SIGHUP, the grace, SIGKILL,
\* waitpid.
PartialHangup ==
    /\ stage = "hangup"
    /\ hupSent' = TRUE
    /\ graceLeft' = Grace
    /\ stage' = "sleep"
    /\ UNCHANGED <<child, holders, misfired, ttyVars, readerVars, writerVars,
                   tpc, seen, escalated, waitOk, signalled, dropVars, engine,
                   late, sent>>

\* Mutant: a child that ignores SIGHUP is waited for.
PartialKillForgotten ==
    /\ stage = "sleep"
    /\ graceLeft = 0
    /\ stage' = "reap"
    /\ UNCHANGED vars

PartialKill ==
    /\ stage = "sleep"
    /\ graceLeft = 0
    /\ KillGroup
    /\ stage' = "reap"
    /\ UNCHANGED <<hupSent, ttyVars, readerVars, writerVars, waiterVars,
                   signalled, dropVars, engine, late, sent>>

PartialReap ==
    /\ stage = "reap"
    /\ child = "zombie"
    /\ child' = "reaped"
    /\ rpc' = "done" /\ wpc' = "done" /\ tpc' = "done" /\ handle' = "gone"
    /\ stage' = "failed"
    /\ UNCHANGED <<holders, hupSent, misfired, ttyVars, read, cmds, seen,
                   graceLeft, escalated, waitOk, signalled, joinLeft, detached,
                   engine, late, sent>>

\* With one it waits for the threads, as Drop of a session does.
PartialJoin ==
    /\ stage = "joining"
    /\ DropJoined \/ DropDetach
    /\ stage' = "failed"

Partial == PartialHangup \/ PartialKill \/ PartialReap \/ PartialJoin

-----------------------------------------------------------------------------
(* Properties *)

\* A spawn that fails leaves no half-started session (session.rs, doc of spawn):
\* the child is reaped, by the waiter or by PartialSpawn but never signalled by
\* one after the other has reaped it, and every thread has ended unless a process
\* of the child's keeps the slave open.  Unless the threads were not given the time to
\* run, or try_wait has failed.
FailedSpawnCleansUp ==
    [][stage # "failed" /\ stage' = "failed" =>
        /\ misfired' = {}
        /\ waitOk' /\ ~late' =>
             /\ child' \in {"none", "reaped"}
             /\ AllDone' \/ holders' # {}]_spawnVars
=============================================================================
