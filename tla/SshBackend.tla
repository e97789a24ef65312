------------------------------ MODULE SshBackend ------------------------------
(***************************************************************************)
(* One SSH session (crates/ssh): the shuttle thread, whose loop selects    *)
(* between the shutdown signal, commands and channel messages, the bridge  *)
(* thread that carries commands from crossbeam to tokio, the constructor   *)
(* that waits for the connection, and Drop.                                *)
(*                                                                         *)
(* The server and the network are outside the repository, and so is russh: *)
(* `inbox' is what Channel::wait has not returned yet.                     *)
(***************************************************************************)
EXTENDS Integers, Sequences

CONSTANTS
    MaxOut,       \* bound: chunks of output that reach the client
    Window,       \* chunks the server takes before it has to open its window
    MaxQueue,     \* bound: commands on their way to the shuttle
    CloseTicks,   \* CLOSE_TIMEOUT
    JoinBudget,   \* SHUTDOWN_JOIN_BUDGET
    StatusFirst   \* TRUE: the server sends the exit status before it sends EOF

ASSUME SshAssumption ==
    /\ MaxOut \in Nat /\ Window \in Nat /\ MaxQueue \in Nat
    /\ CloseTicks \in Nat /\ JoinBudget \in Nat
    /\ StatusFirst \in BOOLEAN

VARIABLES
    link,         \* "up", "stalled" (no packet passes), "lost"
    server,       \* "open", "eof" or "closed": what it has sent of its end
    statusSent,   \* it has sent exit-status or exit-signal
    room,         \* what is left of its window
    inbox,        \* messages that have arrived
    produced,     \* chunks of output among all that ever arrived
    shuttle, closeLeft,   \* shuttle_loop and its timeout
    pendingExit,  \* the status has been seen
    reported,     \* what the Exited event carried: "none", "status", "unknown"
    bridge, cmds, tcmds,  \* the bridge thread between its two channels
    ready,        \* what the shuttle told the constructor: "none", "ok", "err"
    stopShuttle, stopBridge,   \* the two shutdown signals
    handle, joinLeft, detached,   \* the constructor, the handle, its Drop
    engine,       \* a client holds clones of command_tx and event_rx
    late,         \* time has passed while a thread had work to do, or while the
                  \* shuttle waited for the server's window
    sent          \* every event put into the event channel

netVars     == <<link, server, statusSent, room>>
arriveVars  == <<inbox, produced>>
shuttleVars == <<shuttle, closeLeft, pendingExit, reported>>
bridgeVars  == <<bridge, cmds, tcmds>>
signalVars  == <<ready, stopShuttle, stopBridge>>
handleVars  == <<handle, joinLeft, detached>>
vars == <<netVars, arriveVars, shuttleVars, bridgeVars, signalVars, handleVars,
          engine, late, sent>>

Commands == {"write", "resize", "shutdown"}
Data(k)   == [kind |-> "data", n |-> k]
Note(k)   == [kind |-> k, n |-> 0]
Out(k)    == [kind |-> "output", n |-> k]
Signal(k) == [kind |-> k, n |-> 0]
Message   == [kind : {"data", "status", "eof", "close"}, n : Nat]
Event     == [kind : {"output", "exited", "writeError"}, n : Nat]

\* "ended": by the server, an error or the consumer; "closed": by this side.
ShuttleDone == shuttle \in {"ended", "closed"}
AllDone     == ShuttleDone /\ bridge = "done"
RxAlive     == engine \/ handle \notin {"gone", "failed"}
CmdSenders  == engine \/ handle \in {"spawning", "live", "stopBridge", "joining"}
Has(k)      == \E i \in DOMAIN sent : sent[i].kind = k

Emit(e) == sent' = IF RxAlive THEN Append(sent, e) ELSE sent

Init ==
    /\ link = "up" /\ server = "open" /\ statusSent = FALSE /\ room = Window
    /\ inbox = <<>> /\ produced = 0
    /\ shuttle = "connect" /\ closeLeft = 0
    /\ pendingExit = FALSE /\ reported = "none"
    /\ bridge = "run" /\ cmds = <<>> /\ tcmds = <<>>
    /\ ready = "none" /\ stopShuttle = FALSE /\ stopBridge = FALSE
    /\ handle = "spawning" /\ joinLeft = 0 /\ detached = FALSE
    /\ engine = FALSE /\ late = FALSE
    /\ sent = <<>>

-----------------------------------------------------------------------------
(* The server and the network (outside the repository) *)

Listening == link = "up" /\ ready = "ok" /\ ~ShuttleDone

ServerData ==
    /\ Listening /\ server = "open"
    /\ produced < MaxOut
    /\ produced' = produced + 1
    /\ inbox' = Append(inbox, Data(produced + 1))
    /\ UNCHANGED <<netVars, shuttleVars, bridgeVars, signalVars, handleVars,
                   engine, late, sent>>

ServerStatus ==
    /\ Listening /\ ~statusSent
    /\ server = "open" \/ (server = "eof" /\ ~StatusFirst)
    /\ statusSent' = TRUE
    /\ inbox' = Append(inbox, Note("status"))
    /\ UNCHANGED <<link, server, room, produced, shuttleVars, bridgeVars,
                   signalVars, handleVars, engine, late, sent>>

ServerEnd ==
    /\ Listening
    /\ \/ server = "open" /\ server' = "eof" /\ inbox' = Append(inbox, Note("eof"))
       \/ server # "closed" /\ server' = "closed" /\ inbox' = Append(inbox, Note("close"))
    /\ UNCHANGED <<link, statusSent, room, produced, shuttleVars, bridgeVars,
                   signalVars, handleVars, engine, late, sent>>

ServerReads ==
    /\ link = "up"
    /\ room < Window
    /\ room' = room + 1
    /\ UNCHANGED <<link, server, statusSent, arriveVars, shuttleVars,
                   bridgeVars, signalVars, handleVars, engine, late, sent>>

LinkFails ==
    /\ \/ link = "up" /\ link' = "stalled"
       \/ link # "lost" /\ link' = "lost"
    /\ UNCHANGED <<server, statusSent, room, arriveVars, shuttleVars,
                   bridgeVars, signalVars, handleVars, engine, late, sent>>

Environment == ServerData \/ ServerStatus \/ ServerEnd \/ ServerReads \/ LinkFails

-----------------------------------------------------------------------------
(* The shuttle thread: connect_and_open_shell, then shuttle_loop *)

SettingUp == shuttle \in {"connect", "auth", "channel"}

SetupStep(from, to) ==
    /\ shuttle = from /\ link = "up"
    /\ shuttle' = to
    /\ UNCHANGED <<netVars, arriveVars, closeLeft, pendingExit, reported,
                   bridgeVars, stopShuttle, stopBridge, handleVars, engine,
                   late, sent>>

\* The host key is recorded, or was not there and has been recorded now.
Connect == SetupStep("connect", "auth") /\ UNCHANGED ready

\* The password, or the first identity of the agent that the server accepts.
Authenticate == SetupStep("auth", "channel") /\ UNCHANGED ready

\* The server grants a channel; for the terminal and the shell no reply is asked.
OpenShell == SetupStep("channel", "select") /\ ready' = "ok"

\* Another host key than the recorded one, a known_hosts that cannot be read or
\* written, no agent, every identity refused, a request that fails.
SetupFails ==
    /\ SettingUp
    /\ shuttle' = "ended" /\ ready' = "err"
    /\ UNCHANGED <<netVars, arriveVars, closeLeft, pendingExit, reported,
                   bridgeVars, stopShuttle, stopBridge, handleVars, engine,
                   late, sent>>

Setup == Connect \/ Authenticate \/ OpenShell \/ SetupFails

\* The select is biased: the signal before commands, commands before messages.
ShuttleShutdown ==
    /\ shuttle = "select"
    /\ stopShuttle
    /\ shuttle' = "close"
    /\ closeLeft' = CloseTicks
    /\ UNCHANGED <<netVars, arriveVars, pendingExit, reported, bridgeVars,
                   signalVars, handleVars, engine, late, sent>>

\* recv() gives None when the bridge has gone, which the loop takes for Shutdown.
NextCommand == IF tcmds = <<>> THEN "shutdown" ELSE Head(tcmds)

ShuttleCommand ==
    /\ shuttle = "select"
    /\ ~stopShuttle
    /\ tcmds # <<>> \/ bridge = "done"
    /\ shuttle' = CASE NextCommand = "write"    -> "write"
                    [] NextCommand = "resize"   -> "select"
                    [] NextCommand = "shutdown" -> "closeLast"
    /\ closeLeft' = IF NextCommand = "shutdown" THEN CloseTicks ELSE closeLeft
    /\ tcmds' = IF tcmds = <<>> THEN tcmds ELSE Tail(tcmds)
    /\ UNCHANGED <<netVars, arriveVars, pendingExit, reported, bridge, cmds,
                   signalVars, handleVars, engine, late, sent>>

\* data_bytes is awaited inside the select arm: while the window is closed the
\* loop sees neither messages nor the shutdown signal.
ShuttleWrite ==
    /\ shuttle = "write"
    /\ \/ /\ link # "lost" /\ room > 0
          /\ room' = room - 1
          /\ shuttle' = "select"
          /\ UNCHANGED sent
       \/ /\ link = "lost" \/ server = "closed"
          /\ Emit(Signal("writeError"))
          /\ shuttle' = "ended"
          /\ UNCHANGED room
    /\ UNCHANGED <<link, server, statusSent, arriveVars, closeLeft, pendingExit,
                   reported, bridgeVars, signalVars, handleVars, engine, late>>

Waiting == shuttle = "select" /\ ~stopShuttle /\ tcmds = <<>> /\ bridge # "done"

ShuttleData ==
    /\ Waiting
    /\ inbox # <<>> /\ Head(inbox).kind = "data"
    /\ inbox' = Tail(inbox)
    /\ Emit(Out(Head(inbox).n))
    /\ shuttle' = IF RxAlive THEN "select" ELSE "ended"
    /\ UNCHANGED <<netVars, produced, closeLeft, pendingExit, reported,
                   bridgeVars, signalVars, handleVars, engine, late>>

\* Mutant: the status is taken for one of the messages the loop ignores.
ShuttleStatusIgnored ==
    /\ Waiting
    /\ inbox # <<>> /\ Head(inbox).kind = "status"
    /\ inbox' = Tail(inbox)
    /\ UNCHANGED <<netVars, produced, shuttleVars, bridgeVars, signalVars,
                   handleVars, engine, late, sent>>

ShuttleStatus ==
    /\ Waiting
    /\ inbox # <<>> /\ Head(inbox).kind = "status"
    /\ inbox' = Tail(inbox)
    /\ pendingExit' = TRUE
    /\ UNCHANGED <<netVars, produced, shuttle, closeLeft, reported, bridgeVars,
                   signalVars, handleVars, engine, late, sent>>

Exited ==
    /\ Emit(Signal("exited"))
    /\ reported' = IF pendingExit THEN "status" ELSE "unknown"

\* Mutant: the loop goes on to Close after it has reported EOF.
ShuttleEndGoesOn ==
    /\ Waiting
    /\ inbox # <<>> /\ Head(inbox).kind \in {"eof", "close"}
    /\ inbox' = Tail(inbox)
    /\ Exited
    /\ UNCHANGED shuttle
    /\ UNCHANGED <<netVars, produced, closeLeft, pendingExit, bridgeVars,
                   signalVars, handleVars, engine, late>>

\* Mutant: the end is only logged.
ShuttleEndSilent ==
    /\ Waiting
    /\ inbox # <<>> /\ Head(inbox).kind \in {"eof", "close"}
    /\ inbox' = Tail(inbox)
    /\ shuttle' = "ended"
    /\ UNCHANGED <<netVars, produced, closeLeft, pendingExit, reported,
                   bridgeVars, signalVars, handleVars, engine, late, sent>>

ShuttleEnd ==
    /\ Waiting
    /\ inbox # <<>> /\ Head(inbox).kind \in {"eof", "close"}
    /\ inbox' = Tail(inbox)
    /\ Exited
    /\ shuttle' = "ended"
    /\ UNCHANGED <<netVars, produced, closeLeft, pendingExit, bridgeVars,
                   signalVars, handleVars, engine, late>>

\* Mutant: None from Channel::wait is ignored.
ShuttleLostIgnored ==
    /\ Waiting
    /\ inbox = <<>> /\ link = "lost"
    /\ UNCHANGED vars

\* Channel::wait returns None once the connection is lost and all is read.
ShuttleLost ==
    /\ Waiting
    /\ inbox = <<>> /\ link = "lost"
    /\ Exited
    /\ shuttle' = "ended"
    /\ UNCHANGED <<netVars, arriveVars, closeLeft, pendingExit, bridgeVars,
                   signalVars, handleVars, engine, late>>

\* channel.close(), then after a shutdown signal handle.disconnect().
ShuttleClose ==
    /\ shuttle \in {"close", "closeLast", "disconnect"}
    /\ link # "stalled" \/ closeLeft = 0
    /\ shuttle' = IF shuttle = "close" THEN "disconnect" ELSE "closed"
    /\ closeLeft' = IF shuttle = "close" THEN CloseTicks ELSE closeLeft
    /\ UNCHANGED <<netVars, arriveVars, pendingExit, reported, bridgeVars,
                   signalVars, handleVars, engine, late, sent>>

Shuttle == ShuttleShutdown \/ ShuttleCommand \/ ShuttleWrite
           \/ ShuttleData \/ ShuttleStatus \/ ShuttleEnd \/ ShuttleLost
           \/ ShuttleClose

-----------------------------------------------------------------------------
(* run_bridge_loop: whichever of its two channels is ready *)

BridgeForward ==
    /\ bridge = "run"
    /\ cmds # <<>>
    /\ cmds' = Tail(cmds)
    /\ \/ ~ShuttleDone /\ tcmds' = Append(tcmds, Head(cmds)) /\ UNCHANGED bridge
       \/ ShuttleDone /\ bridge' = "done" /\ UNCHANGED tcmds
    /\ UNCHANGED <<netVars, arriveVars, shuttleVars, signalVars, handleVars,
                   engine, late, sent>>

BridgeEnd ==
    /\ bridge = "run"
    /\ stopBridge \/ (cmds = <<>> /\ ~CmdSenders)
    /\ bridge' = "done"
    /\ UNCHANGED <<netVars, arriveVars, shuttleVars, cmds, tcmds, signalVars,
                   handleVars, engine, late, sent>>

Bridge == BridgeForward \/ BridgeEnd

-----------------------------------------------------------------------------
(* SshSession::spawn, after both threads have started *)

SpawnOk ==
    /\ handle = "spawning" /\ ready = "ok"
    /\ handle' = "live"
    /\ engine' = TRUE
    /\ UNCHANGED <<netVars, arriveVars, shuttleVars, bridgeVars, signalVars,
                   joinLeft, detached, late, sent>>

\* Mutant: the threads are joined before the bridge is told to end.
SpawnJoinsFirst ==
    /\ handle = "spawning" /\ ready = "err"
    /\ AllDone
    /\ handle' = "failed"
    /\ UNCHANGED <<netVars, arriveVars, shuttleVars, bridgeVars, signalVars,
                   joinLeft, detached, engine, late, sent>>

SpawnFails ==
    /\ \/ /\ handle = "spawning" /\ ready = "err"
          /\ stopBridge' = TRUE
          /\ handle' = "spawnJoin"
       \/ /\ handle = "spawnJoin"
          /\ AllDone
          /\ handle' = "failed"
          /\ UNCHANGED stopBridge
    /\ UNCHANGED <<netVars, arriveVars, shuttleVars, bridgeVars, ready,
                   stopShuttle, joinLeft, detached, engine, late, sent>>

-----------------------------------------------------------------------------
(* The client (the engine thread), and Drop *)

ClientSend ==
    /\ engine
    /\ bridge = "run"
    /\ Len(cmds) + Len(tcmds) < MaxQueue
    /\ \E c \in Commands : cmds' = Append(cmds, c)
    /\ UNCHANGED <<netVars, arriveVars, shuttleVars, bridge, tcmds, signalVars,
                   handleVars, engine, late, sent>>

ClientExit ==
    /\ engine
    /\ engine' = FALSE
    /\ UNCHANGED <<netVars, arriveVars, shuttleVars, bridgeVars, signalVars,
                   handleVars, late, sent>>

DropStopShuttle ==
    /\ handle = "live"
    /\ stopShuttle' = TRUE
    /\ handle' = "stopBridge"
    /\ UNCHANGED <<netVars, arriveVars, shuttleVars, bridgeVars, ready,
                   stopBridge, joinLeft, detached, engine, late, sent>>

\* Mutant: the bridge is left to end with the last command sender.
DropForgetsBridge ==
    /\ handle = "stopBridge"
    /\ handle' = "joining"
    /\ joinLeft' = JoinBudget
    /\ UNCHANGED <<netVars, arriveVars, shuttleVars, bridgeVars, signalVars,
                   detached, engine, late, sent>>

DropStopBridge ==
    /\ handle = "stopBridge"
    /\ stopBridge' = TRUE
    /\ handle' = "joining"
    /\ joinLeft' = JoinBudget
    /\ UNCHANGED <<netVars, arriveVars, shuttleVars, bridgeVars, ready,
                   stopShuttle, detached, engine, late, sent>>

ThreadReady ==
    \/ shuttle \in {"close", "closeLast", "disconnect"}
          /\ (link # "stalled" \/ closeLeft = 0)
    \/ shuttle = "write" /\ (link = "lost" \/ server = "closed" \/ room > 0)
    \/ shuttle = "select" /\ (stopShuttle \/ tcmds # <<>> \/ bridge = "done"
                              \/ inbox # <<>> \/ link = "lost")
    \/ bridge = "run" /\ (stopBridge \/ cmds # <<>> \/ ~CmdSenders)

DropJoined ==
    /\ handle = "joining"
    /\ AllDone
    /\ handle' = "gone"
    /\ UNCHANGED <<netVars, arriveVars, shuttleVars, bridgeVars, signalVars,
                   joinLeft, detached, engine, late, sent>>

DropDetach ==
    /\ handle = "joining"
    /\ joinLeft = 0 /\ ~AllDone
    /\ detached' = TRUE
    /\ late' = (late \/ ThreadReady)
    /\ handle' = "gone"
    /\ UNCHANGED <<netVars, arriveVars, shuttleVars, bridgeVars, signalVars,
                   joinLeft, engine, sent>>

DropGoesOn == DropStopBridge \/ DropJoined \/ DropDetach
Drop == DropStopShuttle \/ DropGoesOn

-----------------------------------------------------------------------------
(* The clock *)

Less(t) == IF t = 0 THEN 0 ELSE t - 1

Tick ==
    /\ closeLeft + joinLeft > 0
    /\ closeLeft' = Less(closeLeft)
    /\ joinLeft' = Less(joinLeft)
    /\ late' = (late \/ ThreadReady \/ shuttle = "write" \/ handle = "stopBridge")
    /\ UNCHANGED <<netVars, arriveVars, shuttle, pendingExit, reported,
                   bridgeVars, signalVars, handle, detached, engine, sent>>

\* The session is over; this is no deadlock.
Finished ==
    /\ handle \in {"gone", "failed"} /\ ~engine
    /\ UNCHANGED vars

-----------------------------------------------------------------------------

Next == Environment \/ Setup \/ Shuttle \/ Bridge \/ SpawnOk \/ SpawnFails
        \/ ClientSend \/ ClientExit \/ Drop \/ Tick \/ Finished

Spec == Init /\ [][Next]_vars

\* Threads run, time passes and a Drop that has begun goes on.  Nothing makes the
\* owner drop the session or the server and the network answer, and connecting may
\* take for ever: russh is given no timeout.
Fairness ==
    /\ WF_vars(Shuttle) /\ WF_vars(Bridge)
    /\ WF_vars(SpawnOk \/ SpawnFails) /\ WF_vars(DropGoesOn) /\ WF_vars(Tick)

FairSpec == Spec /\ Fairness

-----------------------------------------------------------------------------
(* Properties *)

\* The contract of crates/transport, here as event.rs words it: Exited is the last
\* event, behind every chunk that arrived, and no error follows it.
Contract == INSTANCE TransportStream WITH LateErrors <- FALSE, open <- ~ShuttleDone
ImplementsStream == Contract!Spec

\* A consumer that is still there learns why the stream ends: Exited or an error,
\* unless this side has closed the session.
EndExplained ==
    shuttle = "ended" /\ ready = "ok" =>
        Has("exited") \/ Has("writeError") \/ ~RxAlive

\* When the server sends the status before EOF, Exited carries it: the loop keeps
\* it over any data in between.
StatusNotLost ==
    StatusFirst /\ reported = "unknown" /\ server # "open" /\ link # "lost"
        => ~statusSent

\* A connection that fails is reported by the constructor, which joins the bridge
\* although its own command sender keeps that thread going, and leaves no thread.
FailedSpawnReturns ==
    handle = "spawning" /\ ready = "err" ~> handle = "failed" /\ AllDone

\* Drop leaves a thread behind only when the shuttle was held up by the server's
\* window: the budget covers both timeouts, and the bridge ends although the engine
\* thread holds a command sender.  Unless the threads were not given the time to run.
DetachOnlyWhenHeldUp == [][detached' = detached \/ late']_vars

\* The server's end and the loss of the connection end the stream, unless the
\* shuttle waits for a window that nobody opens.  A client that never stops sending
\* can keep the biased select from the messages for ever; no other one can.
EndReached ==
    <>[](tcmds = <<>>) =>
        (ready = "ok" /\ (server # "open" \/ link = "lost")
            ~> ShuttleDone \/ (shuttle = "write" /\ link # "lost"))
=============================================================================
