# A TLA+ model of Perga

Perga is a web terminal in Rust: a server (`perga-server`) gives a browser a
WebSocket; behind it a *session* runs a shell on a local PTY or over SSH, feeds
its output through a terminal emulator and sends the client frames that keep a
copy of the screen. This directory models the part of that chain where threads,
channels, processes and byte streams meet, checks it with TLC and proves part of
it with TLAPS.

Paths below are relative to `src/crates/` unless they start with `src/`.

## 1. The system

```
 processes on the slave     server + network
        |                        |
   pty: reader, writer,     ssh: shuttle, bridge          <- PtyBackend, SshBackend
        waiter, Drop             connect, Drop
        (spawn: PtySpawn; start-up files of the shell: ShellInject)
        |  TransportEvent  ^     |
        v                  | TransportCommand             <- TransportStream (contract)
   terminal-session: engine thread (select)               <- TerminalSession
        |  uses terminal-engine (alacritty) and
        |       terminal-protocol (frames)                <- TerminalEngine
        v  ProtocolEvent   ^ SessionInput
   perga-server: bridge thread, tx_fut, rx_fut            <- WsSession
        |                  ^
        v                  |
      browser (Init / Patch / CommandEnd / Exited)        <- client of TerminalEngine

   inside the engine thread: rows become entries, input becomes bytes
                                        <- RowEncoding, TerminalInput, EngineCodec
   beside it: hosts.toml and the requests that use it      <- ProfileStore
   perga (demo, raw-debug): stdin and stdout over a PTY    <- Cli
```

Everything between the parts is a channel: crossbeam between OS threads, tokio
mpsc in front of the socket and inside the SSH thread. Nothing is shared but
channel ends, the SSH shutdown signals and, in the PTY backend, the master file
descriptor and the child's pid. Whether a channel disconnects therefore depends
on who still holds a clone of its other end, and most of the hard questions of
this code are questions of that kind.

| component | state | operations | what is hard | what makes it correct |
|---|---|---|---|---|
| `transport` | none: events, commands, the trait | `Output`, `Exited`, `Error`, disconnect | the contract is prose | output in production order; `Exited` behind all of it; then the disconnect |
| `pty` threads and handle | child, master fd, three threads, command, event and shutdown channels, join budget | spawn, read, write, resize, hang up, poll, escalate, report, `Drop`, detach | three senders on one channel; signals by number; a writer blocked in `write_all`; processes that outlive the child; a spawn that fails half-way | output order; `Exited` behind it; SIGKILL only on a pid still owned; `Drop` bounded; no leaked threads |
| `ssh` shuttle, bridge, constructor, handle | select loop, two hops for commands, two shutdown signals, status seen, join budget | connect, check the host key, authenticate, open a shell, write, data, status, EOF, close, `Drop`, failed spawn | awaits inside a select arm; biased select; timeouts in a row; failure at any step | the same event contract; status kept; no thread left by a failed spawn; `Drop` bounded |
| `terminal-session` | engine thread, input and event channels, transport | output, exited, error, input, resize, disconnects, `Drop` | which arm wins; clones of the input sender; errors that do or do not end the loop | the `Exited` frame closes the stream; `Drop` returns |
| `terminal-engine` | alacritty grid and history, `scroll_total`, `pending_scrolled`, OSC 133 state | `feed` with cut points, `take_scrolled_rows`, `resize` | accounting by differences of `history_size`; cut points inside a chunk; stale absolute lines | the lines reported as scrolled are the lines that left; a command's line is right |
| `terminal-protocol` | the last frame | Init or Patch, `CommandEnd` | patches are relative to what was sent | the client's screen is the terminal's |
| `perga-server` handler and bridge | bridge thread, two futures, socket | request, open, refuse, forward, send, receive, close, drop | three things may end first; dropping blocks on joins; opening may fail behind the upgrade | the client is answered; no frame lost; handler returns; its bridge ends with it |
| `perga-core` profiles | `hosts.toml` | list, find, create, update, delete | read-change-rename without a lock; crashes | the file always whole and readable, nothing lost but to an overlap |
| `terminal-input` | none | encode key, paste, mouse, focus | many mode combinations | bytes follow xterm's rules |
| `perga-cli` | raw mode, the self-pipe, forwarding and SIGWINCH threads | demo's pump, raw-debug's loop, the way out | two threads that have to wake each other; Ctrl-D that gets lost | all output shown; the program ends by itself and restores the terminal |
| `pty` shell injection | three start-up files, `SEQ`, ZDOTDIR | write the files, configure the shell | written while they are read, by several programs; a borrowed variable | files whole; the shell starts as without Perga |
| `pty` config, `ssh` host keys, HTTP routes, session factory | environment, `known_hosts`, none | sequential | files | see section 8 |

The hazards behind the third column, each with its source line and the
properties aimed at it, are in `PROJECT.json` under `hazards`.

## 2. Modules

| module | models | role |
|---|---|---|
| `TransportStream` | `transport/src/event.rs` | abstract specification: produced chunks, the event channel's history, whether a sender is left. `LateErrors` says whether `Error` may follow `Exited` |
| `PtyBackend` | `pty/src/threads.rs`, `pty/src/session.rs` | the three threads and `Drop` in detail; implements `TransportStream` with `LateErrors = TRUE` |
| `PtySpawn` | `pty/src/session.rs` (`spawn`, `PartialSpawn`) | extends `PtyBackend` with the way to its first state, and the clean-up when a step of it fails |
| `SshBackend` | `ssh/src/shuttle.rs`, `ssh/src/session.rs` | the stages of the connection, shuttle, bridge, constructor, `Drop`; implements `TransportStream` with `LateErrors = FALSE` |
| `TerminalSession` | `terminal-session/src/event_loop.rs`, `session.rs` | engine loop and handle over a coarser PTY backend |
| `WsSession` | `perga-server/src/ws.rs`, `bridge.rs` | extends `TerminalSession` with the request that opens it and the connection that owns it; its `clones` variable is the clone of `input_tx` in `rx_fut` |
| `TerminalEngine` | `terminal-engine/src/engine.rs`, `shell_integration.rs`, `terminal-protocol/src/encoder.rs`, the Output and Resize handlers of the engine loop | what the frames contain |
| `RowEncoding` | `encode_row` of `terminal-protocol/src/encoder.rs` | the scan that turns a row of cells into entries, and the client that covers the columns with them |
| `TerminalInput` | `terminal-input/src/encoder.rs`, `event.rs` | keys, mouse and focus to bytes, and an application that reads them by xterm's tables |
| `EngineCodec` | `terminal-session/src/event_loop.rs` | composes the two as the engine thread does: one event at a time |
| `ProfileStore` | `perga-core/src/profiles.rs`, `perga-server/src/http.rs` | requests on `hosts.toml`, one action per system call, an editor, failures, crashes |
| `ShellInject` | `pty/src/shell_inject.rs`, the call in `open_local` | sessions that write the start-up files, one action per system call, and the shells that read them |
| `Cli` | `perga-cli/src/main.rs`, `raw_debug.rs` | extends `PtySpawn` with the program around the session: its threads, stdin, stdout |
| `*_proofs` | | theorems about the module of that name (section 6); `WsSession_proofs` has those about `TerminalSession` too, `Cli_proofs` those about `PtySpawn`, `EngineCodec_proofs` those about `RowEncoding` and `TerminalInput` |
| `MC*` | | instances for TLC |

`map` in `PROJECT.json` ties every definition to source lines, or marks it
external: the process table, the terminal line, russh and the server, alacritty,
the browser. Definitions whose comment begins with `Mutant:` are plausible bugs,
used to see that each property can fail; nothing else refers to them.

### PtyBackend

`child`, `holders`, `produced`, `pending` are the world: the forked process (as
the process table has it: running, zombie, reaped), other processes that hold
the slave, inside the child's process group ("mate") or outside it ("stray"),
chunks written to the slave and chunks of input not yet read. `rpc`, `wpc`,
`tpc` are the positions of `reader_loop`, `writer_loop` and `waiter_loop`
between blocking calls; `cmds`, `sent`, `signalled` the channels; `graceLeft`,
`joinLeft` the two deadlines; `handle` the progress of `PtySession::drop`.
`rpc = "done"` is at once the end of the reader and the message `waiter_loop`
waits for at its barrier. `sent` keeps the whole history of the event channel,
since the order of events is the subject. A tick is one polling interval of the
waiter (`threads.rs`), and `Tick` may happen at any moment. `late` is a history
variable: time has passed while a thread or `Drop` had work to do. The claims
about deadlines (`DetachOnlyWhileHeld`, `SighupFirstUnlessWriterStuck`) are made
for behaviours that are not late; this separates them from arbitrary scheduling
delays without leaving the delays out.

### PtySpawn

`stage` is the step `spawn` is at: the fork, the two clones of the master, the
three threads. A thread that has been started runs while `spawn` goes on, so every
action of `PtyBackend` may come in between; one that has not is "unborn". If a
step fails, `PartialSpawn` either hands the child to the waiter (`CleanUp`) or, when
there is none yet, hangs up, waits, kills and reaps by itself (`PartialHangup`,
`PartialKill`, `PartialReap`). `PtyBackend` itself starts behind a spawn that
succeeded. `PtySpawn` has no next-state relation of its own; `Cli` composes it.

### Cli

`main` is the position of the main thread, in `main` or in raw-debug's `run`;
`out` is the consumer of the event channel, the forwarding thread or raw-debug's
loop, with the reason why it stopped; `shown` counts the events it has taken. The
self-pipe is not a variable: its write end is closed when the forwarding thread
ends, which is what `PumpWake` waits for. `main = "end"` is the end of the process,
with all its threads; raw mode lasts until then. `due` is raw-debug's interval
between two Ctrl-D.

### SshBackend

`shuttle` is first the stage of `connect_and_open_shell` ("connect", with the host
key; "auth"; "channel"): each can succeed, fail, or take for ever, since nothing
bounds it. The constructor waits for `ready`; after a failure it stops the bridge
and joins both threads. Then `shuttle` is the position of `shuttle_loop`: in the
select, inside the awaited write, in `close` or `disconnect` with their timeouts.
`inbox` is what `Channel::wait` has not returned yet, `link` and `room` what the
network and the server's window do. The select is biased: shutdown, then commands, then
messages, which is why `ShuttleData` and its siblings require the first two to
be empty. `late` is a history variable: time has passed while a thread could
run, or while the shuttle was held up by the window.

### TerminalSession and WsSession

One action per arm and handler of `run_engine_loop`, with each early return.
`emitted` is the history of the event channel to the consumer, whose first
element is the baseline Init that `spawn_with_transport` sends. `session` walks
through `Drop`: close the input, drop the transport (which may detach), join the
engine. In `WsSession` the two channels from the engine to the socket are two
counters, `bridged` and `received`, into `emitted`.

The connection begins with the request: a size out of range is refused, opening the
session can fail behind the upgrade, and then the reason is sent on the socket
(`refusal`); the client may leave meanwhile. `session`, `engine` and the rest exist
from `OpenSession` on.

### TerminalEngine

A line is a number, 0 is blank; a chunk of bytes is the sequence of operations
between `FeedStart` and `FeedEnd`: printing lines, `CSI 3 J`, entering and
leaving the alternate screen, the OSC 133 marks A, C, D. Every mark is a cut point,
where `advance_alacritty` takes stock, and so is what `csi_dispatch` takes for an
entry into the alternate screen; leaving it and `CSI 3 J` are not. `csi_dispatch` looks
at the first parameter of `CSI ? .. h`, alacritty at all of them and not at 1047 and
47. So there are three actions: `EnterAlt` (a cut point, behind which the screen is
up), `EnterAltUnseen` (`CSI ? 25;1049 h`: the screen is up and the segment goes on) and
`CutOnly` (a cut point that changes no screen). `Counted` is the stocktaking, `Reset`
says when it forgets the marks. `FeedEnd` is the
rest of the Output handler: the `CommandEnd` events, `take_scrolled_rows`,
`encode_frame`, and the client that applies them the way `event.rs` asks.

History variables, which the code does not have and no guard but a bound looks at:
`gone` (the lines that really left the screen since the client's last base), `seen` and
`lossy`; for the commands `running` (the one between its C and its D, which another A or C in
between abandons, and whether it is `calm`: no line of the history cleared, no alternate screen, no resize since), `due` (the
lines of the commands that ended calm in this chunk, emptied when one of the three comes
behind them), `ended` (how many ended in this chunk) and `met` (whether the alternate
screen was up at a cut point or the end of a chunk while the command ran).

`lossy` names, exactly, what the accounting does not cover: a chunk that mixes
scrolling with a full history, with clearing, or with a switch of screens.
After such a chunk nothing is claimed about the client's history until the next
clearing or Init.

A shell sends C behind the newline that ends the command's own line, so that this line
is the one above the cursor; `CommandStart` has the mark only when there is one. On a
screen of a single row the line has left it by then, and commands are not modelled.

### RowEncoding, TerminalInput, EngineCodec

A cell is a character, a style and a kind: single, with combining marks, wide, or
the spacer of a wide one. Each action of `RowEncoding` is one turn of the outer
loop of `encode_row`; its inner loop is the choice of the run's end. `shown` is
what the client has after the entries so far. A cell that no branch took would be
a deadlock. In `TerminalInput` a sequence of bytes is its introducer, numbers and
final letter, characters are code points, and a number of an X10 report is taken
modulo 256. `Pressed`, `XtermFunction` and `MouseRead` read a sequence by xterm's
tables; they are written from the tables, not from the encoder. `EngineCodec`
lets a row be encoded only between two inputs and the reverse, which is what the
engine thread's loop does.

### ProfileStore

Reading requests (`list`, `find`) end with the load, the others go on to save. A
request is at the system call `pc` names: reading the file, creating or
truncating the temporary file, filling it, setting its mode, renaming it. Between
any two of them another request, an editor or a crash may come in; any call may
fail. `stored`, `stale` and `overlapped` are history variables: what somebody was
told is stored, which requests work on a list that has been replaced since, and
whether one of those has put its list in place.

### ShellInject

A session is at a system call of `write_atomic`, or its shell at a start-up file. A
file is absent, part or whole, for its content is constant; a temporary file is
named by its program and that program's `SEQ`. Several programs (a server and a
`perga`) share the directory. The user's files are what they do to ZDOTDIR, chosen
at the first reading and fixed from then on, in two directories: unset it, set it
to one of the two, leave it. `inherited` is the ZDOTDIR of the programs
themselves. `found` (what a shell found where it looked for a file of Perga) and
`log` (the user's directories it has read) are history variables.

## 3. Runs

| run | question | bounds |
|---|---|---|
| `PtySafety` | event order, SIGKILL, the contract, with read and wait errors; is the join budget enough, does SIGHUP come before SIGKILL | 2 chunks, 1 chunk of line buffer, 1 command waiting, grace 2 ticks, budget 4 (the code: 500 ms and 2 s) |
| `PtyLive` | do `Drop`, reaping, the report and detached threads come to an end | 1 chunk, grace and budget 1 |
| `Cli` | failing spawns, the end of the program, output shown, Ctrl-D behind the end of stdin | both programs, 1 chunk, 1 command waiting, grace 1, budget 3 |
| `Ssh` | the contract without late errors, status, connecting, failed spawn, `Drop` | 1 chunk, window 1, 1 command, timeout 1, budget 3 ticks (the code: 500 ms, twice, and 3 s) |
| `Session` | the `Exited` frame, premature ends, `Drop` | 1 chunk, 2 commands and inputs waiting, 2 further frames, keys and resizes, both backend errors |
| `Ws` | answer to the request, no frame lost, handler and bridge end, quiet clients see the exit | 1 chunk, 1 input waiting, 2 further frames |
| `Engine` | screen, history, command marks at the client; which commands get a `CommandEnd` | heights 2 and 3, history of 2 lines, 4 lines, 2 commands per chunk |
| `Codec` | rows at the client, keys and mouse at the application | rows of 4 columns, 2 characters, 2 styles; all keys, modifiers and modes, 9 characters, the edges of the X10 range |
| `Profiles` | `hosts.toml` under concurrent requests, edits, failures, crashes | 2 requests at a time, 3 in all, 2 ids, 2 contents, 1 edit, 1 failure or crash |
| `Inject` | start-up files under concurrent sessions, failures, crashes; what zsh reads | 3 sessions, 2 of them of one program; bash, zsh and others; 2 directories of the user; 1 failure or crash |
| `PtyContract`, `PtySighup` | statements of comments that the code does not keep | the smallest that show it |

Why the bounds are enough: the code treats every chunk, command and frame alike,
so two of each give all orders between "earlier" and "later" ones, and where a run
has one chunk (liveness, and the modules above the backends) the order of chunks is
not its question; a queue of one is already full and empty; two ticks of grace and
four of budget keep the order of the code's deadlines (a poll within the grace, its
end and the kill, the poll that reaps the child), and so do three over twice the
timeout of SSH; four columns hold every pair of neighbouring runs
and a wide character on either side of a run; two requests are the least that
overlap and a third shows what they leave behind; three sessions are two that share
`SEQ` and one that does not, with a reader among them; four lines scroll three off a
screen of two rows, which fills a history of two and makes it overflow, and heights
two and three give both directions of a resize with and without lines moving; two
commands in a chunk are one that has ended and one that runs, with lines left to be
cleared behind them.
The theorems of section 6 hold without any of these bounds.

### What the checks show

* **PtyBackend.** Output is in order and without gaps; `Exited` stands behind all
  of it (thanks to the barrier on the reader and to the rule that the reader ends
  only when the slave is closed); SIGKILL never reaches a released pid; every
  step is a step of the contract. Given time to run, `Drop` detaches a thread
  only if another process holds the slave. A detached thread ends when the slave
  closes. The child of a dropped session is reaped even when the writer is stuck.
* **PtySpawn, Cli.** A spawn that fails at any step leaves the child reaped and, once
  the slave is closed, no thread. `perga` ends when the last process lets go of the
  terminal, without a key being pressed; if it ends without an error and because of
  `Exited`, the user has seen all output. A shell that takes a Ctrl-D sooner or
  later is ended by raw-debug behind the end of its stdin.
* **SshBackend.** The contract holds in the strict form. A stalled link costs two
  timeouts, which fit the budget; only a closed window can hold the shuttle
  longer. A connection that fails is reported, with both threads ended. A status
  that the server sends ahead of the end of the channel is not lost.
* **TerminalSession, WsSession.** The `Exited` frame is the last one and stands
  behind a frame for each chunk; while its owner keeps it a session ends without
  that frame only after its writer died; `Drop` returns unless a client's
  clone of the sender and a process on the slave meet. A client gets a frame or a
  reason; on a working socket no frame is lost on the way to it; the handler
  returns and its bridge ends.
* **TerminalEngine.** Patches always leave the client with the terminal's screen.
  Outside `lossy` chunks the client's history is exact and command marks point at
  the right line, also across cut points, clearing and resizes. A command gets its
  `CommandEnd` in the frame of the chunk its D is in, unless between its C and the end
  of that chunk lines of the history were cleared, the alternate screen came up or the
  session was resized; no end comes twice or for a command that did not end. A command
  during which a cut point or the end of a chunk found the alternate screen up gets
  none. The engine does not see a visit to that screen within one segment, and a
  command that made one is reported (see the observations below).
* **EngineCodec.** Every row of four columns reaches the client unchanged. Every key
  that has a sequence is read as that key with its modifiers in both cursor modes,
  and a mouse report is right or is not sent.
* **ProfileStore.** Whatever overlaps, fails or crashes, `hosts.toml` is whole
  and, as the program leaves it, lists no id twice and has mode 0600; a success means
  that the request's own list was put in place. What was stored can be lost, but only
  to a request that had read the file before.
* **ShellInject.** A shell that was pointed to Perga's files finds them whole,
  whoever writes them at that moment. A zsh with the integration reads the same
  files of the user as one without, each once, and ends with the same ZDOTDIR.

### Disagreements between comments and code

Each has a run with `expect: violation` and an entry under `findings`.

1. `Exited` is not always the last event (`PtyContract`): a write that fails
   after the exit puts `Error` behind it.
2. SIGHUP is sent by the writer, by number, and the waiter may have reaped that
   pid (`PtySighup`).

### Observations without a run

* Entering the alternate screen is not always a cut point, although the comment at
  `terminal-engine/src/engine.rs:91-92` counts on it so that no command which passes
  through that screen within a chunk becomes a false block. `csi_dispatch` looks at the
  first parameter only (`shell_integration.rs:236`): C, `CSI ? 25;1049 h`,
  `CSI ? 1049 l` and D in one chunk give a `CommandEnd`. In the model this is
  `CommandStart`, `EnterAltUnseen`, `LeaveAlt`, `CommandEnd`; `NoEndForSeenAlt` claims
  the absence of the event only for what the engine has looked at.
* Not every command gets a `CommandEnd`, as `terminal-protocol/src/event.rs:58-59`
  says. `reset()` drops the command that runs and those whose D came before in the same
  chunk (`shell_integration.rs:184`), when the alternate screen comes up
  (`engine.rs:97-99`, 114) or the history is cleared (271); a resize (127) drops the one
  that runs. `EndsSent` says that nothing else loses the end of a command; that its
  exceptions are losses is read off the code.
* `perga-core/src/profiles.rs:8-9`: reading the file for every operation does not
  keep external edits, or two operations, from conflicting: the file is not locked
  between the read and the rename, and the later rename wins without an error.
  `LostOnlyToOverlap` says that this is the only way to lose a profile.
* After the writer of a backend has died, a further key or reply ends the engine
  loop while output and `Exited` may still be in the transport's channel
  (`EngineEndsEarlyOnlyWithoutWriter`); `terminal-session/src/lib.rs:19-21` speaks
  of `Exited` and then a disconnect for every normal exit.
* The grace period can run out with no SIGHUP sent when the writer is blocked or
  dead; `pty/src/session.rs:7` describes SIGHUP as unconditional.
  `SighupFirstUnlessWriterStuck` says when.
* The end of the writer does not by itself give the reader EOF, as the comment at
  `pty/src/threads.rs:117` suggests: the reader has a descriptor of its own.
* The end of `writer_loop` through a failed `recv` (`pty/src/threads.rs:88`) is
  never taken: `Drop` puts Shutdown into the channel before the last sender goes,
  and the writer is the last thread to be started. The models leave it out.
* `Error(Wait)` does not end the engine loop (`event_loop.rs:106-107` expects a
  disconnect that the idle writer prevents as long as the engine holds its
  command sender).
* `perga-server/src/ws.rs:235-237`: the two futures live until `handle_socket`
  returns, so the input clone of `rx_fut` is alive during the session's `Drop`.
* `ssh/src/shuttle.rs:12-13` speaks of `Exited` after a shutdown; the arm at line
  52 sends none. The `None` arm of its command channel is not reached while the
  loop runs: `Drop` signals the shuttle before it stops the bridge.
* `engine.rs:264`: a chunk that clears the scrollback and then scrolls at least as
  many lines is not noticed as a clearing.
* `terminal-session/src/session.rs:137-141` says that dropping the input sender and
  the transport ends the engine thread. It does not while somebody holds a clone of
  the sender and a process holds the slave; then `Drop` waits for either. The
  condition in `DropReturns` is that one.
* A resize to the same size resets `scroll_total` but produces a Patch, so the
  client has nothing to rebase on (the condition on `lossy` in `ResizeScreen`).
* A change of height moves lines between screen and history, unlike the comment
  at `encoder.rs:40`; the Init that follows makes it harmless.

* `Error(Write)` ends the forwarding thread of `perga` (and raw-debug's loop) like any
  other error, although output and `Exited` may follow: `EndShowsAll` claims complete
  output only for an end through `Exited`.
* Behind the end of its stdin, or after `exit`, the demo waits in raw mode as long as a
  background process of the shell holds the slave; nothing typed ends it.
  `CliEnds` starts where the slave is closed.
* `perga-cli/src/main.rs:80` says that dropping the session waits for the three threads; a thread held up by
  such a process is detached when the budget is over.
* The disconnect arms of `forward_output` and of raw-debug's loop are not taken: the
  waiter puts `Exited` or an error into the channel before its sender goes.
* Raw-debug's Ctrl-D are queued while the writer is blocked in a full line buffer.
* In zsh, a ZDOTDIR that was set but not exported becomes exported by the
  injection; `/etc/zshrc` runs with Perga's ZDOTDIR; where ZDOTDIR is unset
  `inject_zsh` leaves a PERGA_USER_ZDOTDIR it may have inherited. The model has a
  ZDOTDIR in the environment or none, and no file in `/etc`.
* Temporary files that a failed call or a crash leaves beside `hosts.toml` and the
  start-up files are never removed.
* If the bridge thread of a connection does not start, the socket is closed without a
  word (`perga-server/src/ws.rs:166-173`; the doc at 66-70 announces a message for a
  session that cannot be had). `ClientAnswered` names the case.
* `request_pty` and `request_shell` do not ask for a reply (`want_reply` is false in
  `ssh/src/session.rs`), so that a refusal is seen only as the end of the channel.

## 4. Fairness

Weak fairness of every thread (`Reader`, `Writer`, `Waiter`, `Shuttle`,
`Bridge`, the engine's arms, tokio's futures, `perga`'s main and forwarding
threads): the operating system and the
runtime schedule them. Of `Tick`: time passes. Of `DropGoesOn`: a `Drop` that
has begun goes on; where the program itself decides to drop (`Cli`, `WsSession`)
this is a step of its thread. Nothing else: no owner has to drop a session, no client
to act, no process to read, write or exit, no server to answer, no network to
recover.

* Connecting over SSH has no timeout in the code and no fairness in the model, so
  `FailedSpawnReturns` starts behind it.
* Opening a session in `WsSession` is fair because there it is a local shell. For
  SSH the caveat above applies to `ClientAnswered` as well.
* The engine's two arms have a condition each, because crossbeam's `select!` chooses at
  random among ready arms. The SSH select is biased, so `EndReached` claims the end of
  the stream only for clients that do not send for ever.
* `EofEndsShell` has its assumption in the property: a shell that reads a Ctrl-D again
  and again behind the end of stdin exits at one of them (strong fairness of
  `TakesCtrlD`, since it may swallow some). Without it nothing could be claimed
  of a shell that ignores the end of its input.

## 5. Deadlock

Checked in every run; a finished session stutters by an explicit `Finished`
step where the system comes to rest.

## 6. Proofs

The theorems hold for all values of the constants, under the assumption of the module
they are about: bounds, windows and timeouts are natural numbers and flags are Boolean
(`PtyAssumption`, `SshAssumption`, `SessionAssumption`); there is a process id and bad
fields are not fields (`ProfileAssumption`); every session has a program and the names
of a user's directories are not the model's own words (`ShellAssumption`); a screen has
at least one row (`EngineAssumption`); spaces, default styles, characters and places
are of their types (`RowAssumption`, `InputAssumption`). None assumes fairness.

Three theorems are about deadlines and need that the deadlines fit: `BudgetCovers` is a
hypothesis there. For the PTY it says that the join budget is at least the grace and two
polling intervals (in the code 2 s, 500 ms and 50 ms), for SSH that it is at least twice
the timeout of a close (3 s and 500 ms). They are statements about behaviours that are
not `late`, and so is `SighupFirst`; all others hold for any scheduling. `HistoryKept` and
`MarkKept` say nothing of the time after a chunk that is `lossy`, until the next clearing
or Init.

| theorem | statement | inductive invariant and why |
|---|---|---|
| `PtyBackend_proofs` | | |
| `TypeCorrect` | `Spec => []TypeOK` | `TypeOK` itself, in two lemmas (data, flags) |
| `KillSafe` | `Spec => []SigkillOnOwnGroup` | `KillInv` adds that at `tpc = "armed"` the child is not reaped: only the waiter reaps, and it has just polled |
| `OutputOrdered` | `Spec => []OutputInOrder` | `OrderInv` adds what the reader holds: at `"read"` all chunks read are in the channel, at `"send"` all but the last |
| `ExitAfterOutput` | `Spec => []ExitedAfterAllOutput` | `ExitInv` adds why the reader has ended (error, no receiver, or drained) and, for an `Exited` in the channel, that the slave is closed: without the second part a later chunk could break the claim |
| `StreamImplemented` | `Spec => ImplementsStream` | `EndInv` adds that after `Exited` reader and waiter are done; every step then is a step of `TransportStream` or a stutter |
| `SighupFirst` | `Spec => SighupFirstUnlessWriterStuck` | `ToldInv`: once `Drop` has begun, a writer that has not hung up yet has a Shutdown in its queue, and nobody else has signalled the waiter before. A writer at rest with a command in its queue would have had work to do |
| `DetachJustified` | `BudgetCovers /\ Spec => DetachOnlyWhileHeld` | `BudgetInv`: while `Drop` joins, on time, what is left of the budget covers what the waiter `Need`s to reap the child, counted in ticks; a child that is reaped and a slave that nobody holds let the other threads end |
| `Cli_proofs` | | |
| `EndShows` | `CliSpec => []EndShowsAll` | the steps of the threads are steps of `PtyBackend`, so that `OrderInv` and `ExitInv` hold from the start of the reader on (`Channel`), where `SpawnInv` says what has been started; `ShownInv`: what the consumer has taken is output, with `Exited` at most at the end; `MainInv`: where the program may stand, and that it ends without an error only with a session that came up and a consumer that has stopped |
| `SpawnCleansUp` | `BudgetCovers /\ CliSpec => FailedSpawnCleansUp` | the account of `DetachJustified` holds at every stage of `spawn` (`Clock`); before the writer runs no signal goes out by number but the waiter's, or, when there is no waiter, spawn's own |
| `SshBackend_proofs` | | |
| `StreamEndExplained` | `Spec => []EndExplained` | `EndInv` adds that `ready` is unset during the set-up, so that a failure there is not an end of the stream |
| `StatusReported` | `Spec => []StatusNotLost` | `StatusInv`: a status that has been sent is noted by the shuttle, or in the inbox ahead of the end of the channel, which is there only once it was sent |
| `SshStreamImplemented` | `Spec => ImplementsStream` | `StreamInv`: while the shuttle runs, what was produced is what was sent followed, in order, by what is in the inbox, and no data stands behind the end of the channel. `Exited` therefore finds everything sent |
| `DetachJustified` | `BudgetCovers /\ Spec => DetachOnlyWhenHeldUp` | `DropInv`: while `Drop` joins, on time, the budget left covers the timeouts of the close and of the disconnection that are still to come (`Enough`), and both threads have been told to stop (`ControlInv`) |
| `WsSession_proofs` | | |
| `ExitedCloses` | `Spec => []ExitedFrameCloses` | a balance: frames, events in the channel and chunks in the line add up to what was produced (`Conserved`); the reader ends by itself only at the end of the line (`EndOfLine`), `Exited` comes after it (`Barrier`), so that at the `Exited` frame two of the three are zero |
| `EngineOutlivesWriter` | `Spec => []EngineEndsEarlyOnlyWithoutWriter` | the same invariant |
| `NoFrameLost` | `WsSpec => []TxEndsDrained` | the two counters follow each other (`Counters`), and a bridge that ends before the handler has left the select has drained the engine's channel (`Drained`); a lemma gives what a step of the session may do to `emitted` |
| `ProfileStore_proofs` | | |
| `HostsFileSound` | `Spec => []FileSound` | names of temporary files belong to one request each, below `SEQ` (`Named`, `Distinct`), so that nobody truncates another's file; what stands there is what the request wrote (`Filled`), and nobody saves a list with an id twice (`WantUnique`) |
| `OwnListSaved` | `Spec => SuccessIsOwnList` | the same invariant: the list that is renamed is the one of the request that succeeds |
| `LossNeedsOverlap` | `Spec => []LostOnlyToOverlap` | `Fresh`: a request that is going to save and is not `stale` works on the list the file holds now, so that its rename keeps what is `stored`, but for its own profile |
| `ShellInject_proofs` | | |
| `StartupFilesWhole` | `Spec => []ShellFindsWhole` | names as above; a session is configured only when all its files are whole, and no rename makes a whole file anything else (`Written`) |
| `ZshStartsLikePlain` | `Spec => []StartsLikePlain` | what a zsh has read and holds before `.zshenv`, before `.zshrc` and at the end (`AtStart`, `AtRc`, `AtEnd`), in terms of what one without Perga would; stable because what is known of the user's files does not change |
| `TerminalEngine_proofs` | | |
| `NoEndSeenAlt` | `Spec => []NoEndForSeenAlt` | `AltInv`: where the last cut point found the alternate screen up no command is known or resolved, for that cut point has forgotten them; so a second one finds nothing to mark as seen |
| `ScreenShown` | `Spec => []ClientSeesScreen` | `ScreenInv`: what the encoder compares with is what the client has (`view = last`), with the terminal's height; a patch has every row that differs, so that rows left out are the same on both sides |
| `HistoryKept` | `Spec => []HistoryExact` | `ChunkInv` says which one thing the segment in progress has done to the history unless it is `lossy`; from it `CountedInv`, that the stocktaking finds the lines that were printed off the screen; `AccountInv`, that what left the screen is the end of the history, and that it was sent but for the lines still pending |
| `MarkKept` | `Spec => []MarkOnCommandLine` | `MarkInv`: a command's number counts into what has left the screen followed by what is on it, above the cursor, and its line stands there (`Stands`); a line that scrolls goes from one to the other and keeps its place (`Position`) |
| `EndsArrive` | `Spec => []EndsSent` | `EndsInv`: a command that runs calm is the one the engine knows, with its line; what is due is the end of what is resolved; and while either is so, neither reason for a reset can hold (`KeptNow`): no alternate screen, and no line of the segment's history missing |
| `EngineCodec_proofs` | | |
| `RowArrives` | `CodecSpec => []RowRestored` | what the client has is the row up to the column of the scan: `RowRestored` with the types (`RowInv`). For each kind of entry a lemma says which cells it stands for |
| `InputUnderstood` | `CodecSpec => []InputRead` | no induction over steps: the parameter determines the modifiers (`BitsAreMods`), a button code splits into kind and modifiers (`CodeSplits`), and no two keys share a final letter and a first number |

The inductive invariants were model-checked on the instances of section 3 before they
were proved. The proofs of `Cli_proofs` cite the lemmas of `PtyBackend_proofs`, which are
therefore stated for what they need (`ChannelOK`, `ClockOK`) and not for `TypeOK`: a
thread that spawn has not started yet is outside `TypeOK`.

Only model-checked: all liveness (`DropReturns`, `DroppedChildReaped`, `ExitReported`,
`DetachedThreadsEnd`, `HandlerReturns`, `QuietClientSeesExit`, `ClientAnswered`,
`EndReached`, `FailedSpawnReturns`, `CliEnds`, `EofEndsShell`), because the prover does
not do fairness. Every invariant and every action property of a passing run is a
theorem.

## 7. Plan

Done, in this order: `TransportStream`, `PtyBackend` with its proofs,
`TerminalSession`, `WsSession`, `SshBackend`, `TerminalEngine`, `ProfileStore`,
`RowEncoding` and `TerminalInput` with `EngineCodec`; then `PtySpawn` and `Cli`,
`ShellInject`, the opening of a session in `WsSession`, the set-up of a connection in
`SshBackend`, the reading requests of `ProfileStore`, and the proofs of all modules:
those about the engine's history and marks, the codec and the deadlines came last.

To model next: the translation of a profile to an `SshConfig`; the `seq` numbers of
frames, when a client is written that uses them.

To prove next: that the detailed modules implement coarser ones beyond the event
stream: `ProfileStore` an atomic store as long as no request is `overlapped`, and
`PtyBackend` the backend that `TerminalSession` assumes.

## 8. Not modelled

* Synchronized updates. Between BSU and ESU alacritty's processor withholds bytes while
  the OSC 133 parser runs ahead (`engine.rs:257`), and applies them later as one
  piece. To state what goes wrong then, the model would have to compose the effects
  of the bytes themselves, and `TerminalEngine` only has their order.
* Inside the modelled parts: panics of threads (a shuttle thread that panics before it
  is ready included) and, except in `PtySpawn` and `Cli`, threads that do not
  start; what portable-pty's writer does on
  its own drop (it sends a newline and EOT); macOS's revocation of the terminal;
  the pid that names the process group may belong to a job in the foreground; the
  contents of cells, titles, replies of the terminal and modes other than the
  alternate screen; the `seq` numbers of frames; authentication in several rounds.
* `pty/src/config.rs`: the choice of the default shell and the environment, a
  construction without state. The shell scripts of the integration: the marks
  they print are inputs of `TerminalEngine`.
* The format and the locking of `known_hosts`, which are russh's; the outcome of the
  check is in `Connect` and `SetupFails`.
* Start-up and routing of `perga-server`, which keep no state; the conversion of
  messages in `perga-core/src/wire.rs`, field by field; in `profiles.rs` the fields of
  a profile, their translation to an `SshConfig` and the order of the list.
* Pasted text in `terminal-input`; what an application makes of ESC followed by a
  character (Alt and a key, or the start of a sequence).
* `bench` and `ssh_probe` of `perga-cli`: measuring tools.
* The browser code: outside these crates; what it must do with a frame is taken
  from `terminal-protocol/src/event.rs`.
