------------------------------ MODULE WsSession ------------------------------
(***************************************************************************)
(* One WebSocket connection of perga-server, composed with the terminal    *)
(* session it owns: the request and the opening of the session,            *)
(* handle_socket with its two futures, the bridge thread from the engine's *)
(* channel to tokio, and the client at the other end.                      *)
(*                                                                         *)
(* `clones' of TerminalSession is the clone of input_tx that handle_socket *)
(* takes and moves into rx_fut.  Frames are never reordered by a channel,  *)
(* so the two channels on the way to the client are two counters into the  *)
(* sequence `emitted'.                                                     *)
(***************************************************************************)
EXTENDS TerminalSession

VARIABLES
    bridge,     \* perga-event-bridge: "starting", "run", "done"
    bridged,    \* frames it has moved into the tokio channel
    received,   \* frames tx_fut has written to the socket
    tx, rx,     \* the futures: "run" or "done"
    conn,       \* the socket: "open", "closing" (Close sent), "broken"
    handler,    \* the request: "request", "opening", then handle_socket's "select"
                \* and "drop", or "failed"; "gone"
    refusal     \* what the client was told instead of a session: "none",
                \* "badRequest" or "sessionError"

wsVars == <<bridge, bridged, received, tx, rx, conn, handler, refusal>>
wvars == <<svars, wsVars>>

NoSession ==
    /\ child = "exited" /\ held = FALSE /\ produced = 0 /\ line = 0
    /\ reader = "done" /\ writer = "done" /\ waiter = "done" /\ stop = FALSE
    /\ cmds = <<>> /\ tev = <<>> /\ inq = <<>>
    /\ engine = "done" /\ emitted = <<>>
    /\ session = "gone" /\ clones = FALSE

WsInit ==
    /\ NoSession
    /\ bridge = "starting" /\ bridged = 0 /\ received = 0
    /\ tx = "run" /\ rx = "run"
    /\ conn = "open"
    /\ handler = "request"
    /\ refusal = "none"

-----------------------------------------------------------------------------
(* ws_handler and handle_upgraded *)

\* A size out of 1..1000 is answered before the upgrade, and nothing is opened.
Request ==
    /\ handler = "request"
    /\ \/ handler' = "opening" /\ UNCHANGED refusal
       \/ handler' = "gone" /\ refusal' = "badRequest"
    /\ UNCHANGED <<svars, bridge, bridged, received, tx, rx, conn>>

\* open_local or open_ssh on a blocking thread; the client may leave meanwhile, which
\* the handler does not see before the session is open.
OpenSession ==
    /\ handler = "opening"
    /\ child' = "running" /\ reader' = "run" /\ writer' = "run" /\ waiter' = "run"
    /\ engine' = "run" /\ emitted' = <<"baseline">>
    /\ session' = "live" /\ clones' = TRUE
    /\ handler' = "select"
    /\ UNCHANGED <<held, produced, line, stop, cmds, tev, inq, bridge, bridged,
                   received, tx, rx, conn, refusal>>

\* No such profile, no connection, no thread: the session was never there.
OpenFails ==
    /\ handler = "opening"
    /\ handler' = "failed"
    /\ UNCHANGED <<svars, bridge, bridged, received, tx, rx, conn, refusal>>

\* Mutant: the reason is logged and the socket closed.
CloseUntold ==
    /\ handler = "failed"
    /\ handler' = "gone"
    /\ UNCHANGED <<svars, bridge, bridged, received, tx, rx, conn, refusal>>

\* send_session_error_and_close: a socket that refuses the event is closed as well.
TellFailure ==
    /\ handler = "failed"
    /\ refusal' = IF conn = "broken" THEN "none" ELSE "sessionError"
    /\ handler' = "gone"
    /\ UNCHANGED <<svars, bridge, bridged, received, tx, rx, conn>>

Opening == Request \/ OpenSession \/ OpenFails \/ TellFailure

-----------------------------------------------------------------------------
(* spawn_event_bridge and its thread *)

BridgeStart ==
    /\ handler = "select"
    /\ bridge = "starting"
    /\ \/ /\ bridge' = "run"
          /\ UNCHANGED handler
       \/ /\ bridge' = "done"       \* no thread: the session is dropped at once
          /\ handler' = "drop"
    /\ UNCHANGED <<svars, bridged, received, tx, rx, conn, refusal>>

\* A frame is forwarded while the receiver exists; it lives as long as tx_fut.
BridgeForward ==
    /\ bridge = "run"
    /\ bridged < Len(emitted)
    /\ IF handler = "gone"
       THEN bridge' = "done" /\ UNCHANGED bridged
       ELSE bridged' = bridged + 1 /\ UNCHANGED bridge
    /\ UNCHANGED <<svars, received, tx, rx, conn, handler, refusal>>

\* Mutant: the bridge leaves when the engine ends, its channel not drained.
BridgeLeaves ==
    /\ bridge = "run"
    /\ engine = "done"
    /\ bridge' = "done"
    /\ UNCHANGED <<svars, bridged, received, tx, rx, conn, handler, refusal>>

BridgeEnd ==
    /\ bridge = "run"
    /\ bridged = Len(emitted) /\ engine = "done"
    /\ bridge' = "done"
    /\ UNCHANGED <<svars, bridged, received, tx, rx, conn, handler, refusal>>

Bridge == BridgeStart \/ BridgeForward \/ BridgeEnd

-----------------------------------------------------------------------------
(* The two futures of handle_socket.  The select ends with the first of them. *)

Selecting == handler = "select" /\ bridge # "starting"

TxSend ==
    /\ Selecting
    /\ received < bridged
    /\ conn # "broken"
    /\ received' = received + 1
    /\ UNCHANGED <<svars, bridge, bridged, tx, rx, conn, handler, refusal>>

\* The socket refuses a frame, or the bridge has closed and nothing is left.
TxEnd ==
    /\ Selecting
    /\ \/ received < bridged /\ conn # "open"
       \/ received = bridged /\ bridge = "done"
    /\ tx' = "done"
    /\ handler' = "drop"
    /\ UNCHANGED <<svars, bridge, bridged, received, rx, conn, refusal>>

\* A text frame that parses; frames of any other kind change nothing.
RxMessage ==
    /\ Selecting
    /\ conn = "open"
    /\ engine = "run"
    /\ Len(inq) + Len(cmds) < MaxQueue
    /\ \E i \in Inputs :
          /\ i = "resize" => Len(inq) + Len(emitted) < MaxFrames
          /\ inq' = Append(inq, i)
    /\ UNCHANGED <<backendVars, cmds, tev, engine, clones, emitted, session, wsVars>>

\* A message the engine no longer takes: send() on the input channel fails.
RxRefused ==
    /\ Selecting
    /\ conn = "open"
    /\ engine = "done" /\ Inputs # {}
    /\ rx' = "done"
    /\ clones' = FALSE
    /\ handler' = "drop"
    /\ UNCHANGED <<backendVars, cmds, tev, engine, inq, emitted, session,
                   bridge, bridged, received, tx, conn, refusal>>

\* Mutant: the input side outlives the future that used it.
RxEndKeepsInput ==
    /\ Selecting
    /\ conn # "open"
    /\ rx' = "done"
    /\ handler' = "drop"
    /\ UNCHANGED <<svars, bridge, bridged, received, tx, conn, refusal>>

\* The client closes or the socket fails: the future completes and what it owns
\* is dropped.
RxEnd ==
    /\ Selecting
    /\ conn # "open"
    /\ rx' = "done"
    /\ clones' = FALSE
    /\ handler' = "drop"
    /\ UNCHANGED <<backendVars, cmds, tev, engine, inq, emitted, session,
                   bridge, bridged, received, tx, conn, refusal>>

\* drop_session_blocking: the drop runs on a blocking thread, the handler awaits.
HandlerDrop ==
    /\ handler = "drop"
    /\ DropInput
    /\ UNCHANGED wsVars

\* The pinned futures, and all they own, live until handle_socket returns.
HandlerReturn ==
    /\ handler = "drop" /\ session = "gone"
    /\ handler' = "gone"
    /\ clones' = FALSE
    /\ UNCHANGED <<backendVars, cmds, tev, engine, inq, emitted, session,
                   bridge, bridged, received, tx, rx, conn, refusal>>

Handler == TxSend \/ TxEnd \/ RxEnd \/ HandlerDrop \/ HandlerReturn

ClientEnds ==
    /\ conn = "open"
    /\ conn' \in {"closing", "broken"}
    /\ UNCHANGED <<svars, bridge, bridged, received, tx, rx, handler, refusal>>

-----------------------------------------------------------------------------

WsNext ==
    \/ Opening \/ Bridge \/ Handler \/ RxMessage \/ RxRefused \/ ClientEnds
    \/ (Processes \/ Backend \/ Engine \/ Drop \/ Finished) /\ UNCHANGED wsVars

WsSpec == WsInit /\ [][WsNext]_wvars

\* Threads and tokio tasks are scheduled; clients and processes do as they like.
WsFairSpec ==
    /\ WsSpec
    /\ ThreadFairness
    /\ WF_wvars(Opening)
    /\ WF_wvars(Bridge)
    /\ WF_wvars(TxSend \/ TxEnd)
    /\ WF_wvars(RxEnd)
    /\ WF_wvars(HandlerDrop \/ HandlerReturn)

-----------------------------------------------------------------------------
(* Properties *)

\* On a socket that works tx_fut ends by itself only when the engine thread has
\* ended and every frame it emitted has been written: no frame is lost between
\* the engine, the bridge and the socket.
TxEndsDrained ==
    tx = "done" /\ conn = "open" =>
        engine = "done" /\ received = Len(emitted)

\* A client that stays connected gets the Exited frame, unless it sends a message
\* that the engine no longer takes: only that, with the socket open, ends rx_fut
\* and with it the select before tx_fut has drained the bridge.
QuietClientSeesExit ==
    (bridge = "run" /\ Last(emitted) = "exited")
        ~> (received = Len(emitted) \/ conn # "open" \/ rx = "done")

\* A client that asks for a session and stays gets its first frame or the reason
\* why there is none, unless the bridge thread does not start: of that failure
\* alone the client is not told (ws.rs, handle_socket).
ClientAnswered ==
    handler = "request" ~>
        received > 0 \/ refusal # "none" \/ conn # "open" \/ rx = "done"
                     \/ bridge = "done"

\* The handler returns when the client ended the connection, or the slave closes, and
\* the bridge thread ends with it.
HandlerReturns ==
    (handler = "drop" /\ (rx = "done" \/ ~SlaveOpen))
        ~> handler = "gone" /\ bridge = "done"

=============================================================================
