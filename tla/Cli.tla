---------------------------------- MODULE Cli ----------------------------------
(***************************************************************************)
(* The perga program (crates/perga-cli) over a PTY session: the demo, whose *)
(* main thread pumps stdin while a second thread forwards the output and a *)
(* third one turns SIGWINCH into resizes, and raw-debug, one loop that     *)
(* polls the events and stdin in turn.                                     *)
(*                                                                         *)
(* Raw mode spans main from "raw" to "end": its guard is main's first      *)
(* local and is dropped last.                                              *)
(***************************************************************************)
EXTENDS PtySpawn

CONSTANT Modes    \* a subset of {"demo", "debug"}

ASSUME CliAssumption == Modes \subseteq {"demo", "debug"}

VARIABLES
    mode,
    main,       \* where the main thread stands
    out,        \* the consumer of the event channel and why it stopped: the
                \* forwarding thread, or the loop of raw-debug
    shown,      \* events it has taken from the channel
    failure,    \* main returns Err
    stdin,      \* raw-debug: "open", or "eof"
    due         \* raw-debug: the interval since the last Ctrl-D is over

cliVars == <<mode, main, out, shown, failure, stdin, due>>
cvars == <<spawnVars, cliVars>>

Alive   == main # "end"
Stopped == out \in {"exited", "error", "failed"}

CliInit ==
    /\ SpawnInit
    /\ mode \in Modes
    /\ main = IF mode = "demo" THEN "raw" ELSE "spawn"
    /\ out = "none" /\ shown = 0
    /\ failure = FALSE
    /\ stdin = "open" /\ due = TRUE

\* The command bound: MaxQueue commands wait at most, those of Drop apart.
Room == Len(cmds) < MaxQueue

-----------------------------------------------------------------------------
(* Start-up: main, and run of raw-debug *)

\* RawModeGuard::enter fails when stdin is no terminal: nothing was started yet.
EnterRaw ==
    /\ main = "raw"
    /\ \/ main' = "spawn" /\ UNCHANGED failure
       \/ main' = "end" /\ failure' = TRUE
    /\ UNCHANGED <<spawnVars, mode, out, shown, stdin, due>>

Spawned ==
    /\ main = "spawn"
    /\ \/ /\ stage = "up" /\ mode = "demo"
          /\ main' = "setup"
          /\ UNCHANGED <<out, failure>>
       \/ /\ stage = "up" /\ mode = "debug"
          /\ out' = "run"
          /\ main' \in {"events", "drop"}     \* the first frame may fail to be printed
          /\ failure' = (main' = "drop")
       \/ /\ stage = "failed"
          /\ main' = "end" /\ failure' = TRUE
          /\ UNCHANGED out
    /\ UNCHANGED <<spawnVars, mode, shown, stdin, due>>

\* The self-pipe and the two threads.  A failure unwinds main: the session is
\* dropped, a forwarding thread that was started is not joined.
Setup ==
    /\ main = "setup"
    /\ \E started, ok \in BOOLEAN :
          /\ ok => started
          /\ out' = IF started THEN "run" ELSE "none"
          /\ engine' = started
          /\ main' = IF ok THEN "pump" ELSE "unwind"
          /\ failure' = ~ok
    /\ UNCHANGED <<procVars, ttyVars, readerVars, writerVars, waiterVars,
                   signalled, dropVars, late, sent, stage, mode, shown, stdin,
                   due>>

-----------------------------------------------------------------------------
(* pump_stdin and the SIGWINCH thread *)

\* Mutant: the pipe is closed for Exited only.
PumpWakeOnExited ==
    /\ main = "pump"
    /\ out = "exited"
    /\ main' = "drop"
    /\ UNCHANGED <<spawnVars, mode, out, shown, failure, stdin, due>>

\* The write end of the pipe is closed: poll returns POLLHUP.
PumpWake ==
    /\ main = "pump"
    /\ Stopped
    /\ main' = "drop"
    /\ UNCHANGED <<spawnVars, mode, out, shown, failure, stdin, due>>

\* Bytes on stdin become a Write; without a writer the send fails and ends the pump.
PumpInput ==
    /\ main = "pump"
    /\ Room
    /\ SendCommand("write")
    /\ main' = IF wpc = "done" THEN "drop" ELSE "pump"
    /\ UNCHANGED <<procVars, ttyVars, readerVars, wpc, waiterVars, signalled,
                   dropVars, engine, late, sent, stage, mode, out, shown,
                   failure, stdin, due>>

\* stdin is at its end or hung up, or poll or read fail.
PumpEnd ==
    /\ main = "pump"
    /\ main' = "drop"
    /\ failure' \in BOOLEAN
    /\ UNCHANGED <<spawnVars, mode, out, shown, stdin, due>>

\* The thread keeps its clone of the command sender to the end of the program.
Sigwinch ==
    /\ mode = "demo"
    /\ main \in {"pump", "drop", "join"}
    /\ Room /\ wpc # "done"
    /\ SendCommand("resize")
    /\ UNCHANGED <<procVars, ttyVars, readerVars, wpc, waiterVars, signalled,
                   dropVars, engine, late, sent, stage, cliVars>>

-----------------------------------------------------------------------------
(* forward_output.  recv never fails: the waiter sends its result before the last *)
(* sender goes, and the thread stops there.                                       *)

Next1 == sent[shown + 1].kind

\* What an event makes of the consumer; writing to stdout may fail.
Result(kind) ==
    CASE kind = "output" -> {"run", "failed"}
      [] kind = "exited" -> {"exited"}
      [] OTHER           -> {"error"}

Forward ==
    /\ mode = "demo"
    /\ out = "run"
    /\ shown < Len(sent)
    /\ shown' = shown + 1
    /\ out' \in Result(Next1)
    /\ engine' = (out' = "run")
    /\ UNCHANGED <<procVars, ttyVars, readerVars, writerVars, waiterVars,
                   signalled, dropVars, late, sent, stage, mode, main, failure,
                   stdin, due>>

-----------------------------------------------------------------------------
(* raw-debug: all events that are there, then one look at stdin *)

DebugStops == out' # "run"
DebugGoes(next) == main' = IF DebugStops THEN "drop" ELSE next

\* Replies of the terminal go back as Write; printing the JSON may fail.
DebugEvent ==
    /\ main = "events"
    /\ shown < Len(sent)
    /\ shown' = shown + 1
    /\ \/ /\ out' \in Result(Next1) \cup (IF Next1 = "exited" THEN {"failed"} ELSE {})
          /\ failure' = (out' = "failed")
          /\ UNCHANGED cmds
       \/ /\ Next1 = "output" /\ Room
          /\ SendCommand("write")
          /\ out' \in IF wpc = "done" THEN {"failed"} ELSE {"run", "failed"}
          /\ failure' = (out' = "failed" /\ wpc # "done")
    /\ DebugGoes("events")
    /\ UNCHANGED <<procVars, ttyVars, readerVars, wpc, waiterVars, signalled,
                   dropVars, engine, late, sent, stage, mode, stdin, due>>

DebugIdle ==
    /\ main = "events"
    /\ shown = Len(sent)
    /\ main' = "stdin"
    /\ UNCHANGED <<spawnVars, mode, out, shown, failure, stdin, due>>

\* Nothing there, bytes, the end of the file, or a failure of poll or read.
DebugStdin ==
    /\ main = "stdin" /\ stdin = "open"
    /\ \/ /\ stdin' \in {"open", "eof"}
          /\ main' = IF stdin' = "eof" THEN "stdin" ELSE "events"
          /\ UNCHANGED <<cmds, out, failure>>
       \/ /\ Room
          /\ SendCommand("write")
          /\ out' = IF wpc = "done" THEN "failed" ELSE "run"
          /\ DebugGoes("events")
          /\ UNCHANGED <<stdin, failure>>
       \/ /\ out' = "failed" /\ failure' = TRUE
          /\ main' = "drop"
          /\ UNCHANGED <<cmds, stdin>>
    /\ UNCHANGED <<procVars, ttyVars, readerVars, wpc, waiterVars, signalled,
                   dropVars, engine, late, sent, stage, mode, shown, due>>

\* Mutant: Ctrl-D is sent once.
DebugCtrlDOnce ==
    /\ main = "stdin" /\ stdin # "open"
    /\ IF stdin = "eof" /\ Room
       THEN /\ SendCommand("write")
            /\ stdin' = "sent"
            /\ out' = IF wpc = "done" THEN "failed" ELSE "run"
       ELSE UNCHANGED <<cmds, stdin, out>>
    /\ DebugGoes("events")
    /\ UNCHANGED <<procVars, ttyVars, readerVars, wpc, waiterVars, signalled,
                   dropVars, engine, late, sent, stage, mode, shown, failure,
                   due>>

\* Behind the end of stdin a Ctrl-D goes to the shell once per interval.
DebugCtrlD ==
    /\ main = "stdin" /\ stdin = "eof"
    /\ IF due /\ Room
       THEN /\ SendCommand("write")
            /\ due' = FALSE
            /\ out' = IF wpc = "done" THEN "failed" ELSE "run"
       ELSE UNCHANGED <<cmds, due, out>>
    /\ DebugGoes("events")
    /\ UNCHANGED <<procVars, ttyVars, readerVars, wpc, waiterVars, signalled,
                   dropVars, engine, late, sent, stage, mode, shown, failure,
                   stdin>>

-----------------------------------------------------------------------------
(* The way out *)

DropSession ==
    /\ main \in {"drop", "unwind"}
    /\ Drop
    /\ UNCHANGED <<stage, cliVars>>

\* Mutant: the forwarding thread is not joined.
LeaveUnjoined ==
    /\ main = "drop" /\ handle = "gone"
    /\ main' = "end"
    /\ UNCHANGED <<spawnVars, mode, out, shown, failure, stdin, due>>

Leave ==
    /\ main \in {"drop", "unwind"} /\ handle = "gone"
    /\ main' = IF mode = "demo" /\ ~failure THEN "join" ELSE "end"
    /\ UNCHANGED <<spawnVars, mode, out, shown, failure, stdin, due>>

Join ==
    /\ main = "join"
    /\ Stopped
    /\ main' = "end"
    /\ UNCHANGED <<spawnVars, mode, out, shown, failure, stdin, due>>

Main ==
    \/ EnterRaw \/ Spawned \/ Setup \/ PumpWake \/ DropSession \/ Leave \/ Join
    \/ DebugEvent \/ DebugIdle \/ DebugStdin \/ DebugCtrlD

-----------------------------------------------------------------------------

SpawnStep   == main = "spawn" /\ (Spawn \/ Partial) /\ UNCHANGED cliVars
ThreadsStep == Alive /\ (Reader \/ Writer \/ Waiter) /\ UNCHANGED <<stage, cliVars>>
WorldStep   == Alive /\ Environment /\ UNCHANGED <<stage, cliVars>>
ForwardStep == Alive /\ Forward
TickStep ==
    /\ Alive
    /\ Tick
    /\ due' = TRUE
    /\ UNCHANGED <<stage, mode, main, out, shown, failure, stdin>>

\* The process is gone, and its threads and descriptors with it.
Finished == ~Alive /\ UNCHANGED cvars

CliNext ==
    \/ SpawnStep \/ ThreadsStep \/ WorldStep \/ TickStep
    \/ Main \/ ForwardStep \/ PumpInput \/ PumpEnd \/ Sigwinch \/ Finished

CliSpec == CliInit /\ [][CliNext]_cvars

\* Threads are scheduled and time passes; users, processes and signals do as they
\* like.
CliFairSpec ==
    /\ CliSpec
    /\ WF_cvars(SpawnStep) /\ WF_cvars(Main) /\ WF_cvars(ForwardStep)
    /\ WF_cvars(Alive /\ Reader /\ UNCHANGED <<stage, cliVars>>)
    /\ WF_cvars(Alive /\ Writer /\ UNCHANGED <<stage, cliVars>>)
    /\ WF_cvars(Alive /\ Waiter /\ UNCHANGED <<stage, cliVars>>)
    /\ WF_cvars(TickStep)

-----------------------------------------------------------------------------
(* Properties *)

AllShown == \A k \in 1..produced : \E i \in 1..shown : sent[i] = Out(k)

\* perga ends without an error only when the consumer of its events has stopped,
\* and if that was for Exited the user has seen all the terminal ever put out.
EndShowsAll ==
    main = "end" /\ ~failure => Stopped /\ (out = "exited" => AllShown)

CleaningUp == stage \in {"hangup", "sleep", "reap", "joining", "failed"}

\* When the last process has let go of the terminal, or spawn has to clean up after a
\* step that failed, whatever the child does, perga ends: no key has to be pressed,
\* nothing waits for what will not come.
CliEnds == (CleaningUp \/ (stage = "up" /\ ~SlaveOpen)) ~> ~Alive

\* raw-debug behind the end of its stdin: a shell that does exit on a Ctrl-D it gets
\* often enough is got to exit, although one that is still starting may swallow some
\* (raw_debug.rs: "so it is sent periodically").
TakesCtrlD == WorldStep /\ ChildExit /\ stdin = "eof" /\ pending > 0
EofEndsShell ==
    SF_cvars(TakesCtrlD) =>
        (stdin = "eof" ~> child # "running" \/ ~Alive)
=============================================================================
