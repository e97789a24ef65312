---------------------------- MODULE TerminalEngine ----------------------------
(***************************************************************************)
(* The screen on its way from the byte stream to a client: the engine that *)
(* feeds alacritty and counts what scrolls away (terminal-engine), the     *)
(* OSC 133 state machine beside it, the encoder that sends Init and Patch  *)
(* frames (terminal-protocol), and the part of the engine loop that puts   *)
(* them together (terminal-session).                                       *)
(*                                                                         *)
(* feed() gets a chunk of bytes; here the chunk is fed one operation at a  *)
(* time between FeedStart and FeedEnd.  alacritty is outside the           *)
(* repository: a terminal that prints lines, scrolls them into a limited   *)
(* history, has an alternate screen and is resized.  So is the client: it  *)
(* does what protocol/src/event.rs asks of it.  A line is a number, 0 is   *)
(* blank.                                                                  *)
(***************************************************************************)
EXTENDS Integers, Sequences, FiniteSets

CONSTANTS
    Sizes,      \* bound: the heights the terminal takes
    HistLimit,  \* scrolling_history of alacritty's Config::default()
    MaxLines,   \* bound: lines ever printed
    MaxEnds     \* bound: commands that end in one chunk

ASSUME EngineAssumption ==
    /\ Sizes \subseteq Nat \ {0} /\ Sizes # {}
    /\ HistLimit \in Nat /\ MaxLines \in Nat /\ MaxEnds \in Nat

VARIABLES
    rows, main, alts, alt, hist,   \* alacritty: the two screens, the history
    printed,    \* lines printed so far
    feeding, segHist, segAlt, feedAlt,   \* locals of feed and advance_alacritty
    total, pending, cleared,  \* scroll_total, pending_scrolled, scrollback_cleared
    exec,       \* MarkState: the command being executed, if any
    resolved,   \* commands that have ended in this feed
    last,       \* the encoder's LastFrame
    view,       \* the client's grid and modes
    history, base,  \* the client's history; where the last Init left it
    ends,       \* the CommandEnd events in front of the last frame
    running,    \* the command that runs, whatever the engine knows of it
    due,        \* lines of the commands that ended in this chunk, undisturbed
    ended,      \* number of commands that ended in this chunk
    gone,       \* the lines that really left the screen since the last Init or
                \* the last clearing of the history
    seen,       \* what the current chunk did to the history
    lossy       \* a chunk did what the accounting does not cover

termVars   == <<rows, main, alts, alt, hist, printed>>
feedVars   == <<feeding, segHist, segAlt, feedAlt>>
countVars  == <<total, pending, cleared>>
markVars   == <<exec, resolved>>
cmdVars    == <<running, due, ended>>
clientVars == <<last, view, history, base, ends>>
auxVars    == <<gone, seen, lossy>>
vars == <<termVars, feedVars, countVars, markVars, cmdVars, clientVars, auxVars>>

Line  == 0..MaxLines
Blank(n) == [i \in 1..n |-> 0]
Idle  == [on |-> FALSE, abs |-> 0, of |-> 0, met |-> FALSE]
None  == [on |-> FALSE, calm |-> FALSE, of |-> 0]

Screen      == IF alt THEN alts ELSE main
HistorySize == IF alt THEN 0 ELSE Len(hist)

\* spawn_with_transport has sent the baseline Init of a blank screen.
Init ==
    /\ rows \in Sizes
    /\ main = [grid |-> Blank(rows), cur |-> 1] /\ alts = main /\ alt = FALSE
    /\ hist = <<>> /\ printed = 0
    /\ feeding = FALSE /\ segHist = 0 /\ segAlt = FALSE /\ feedAlt = FALSE
    /\ total = 0 /\ pending = 0 /\ cleared = FALSE
    /\ exec = Idle /\ resolved = <<>>
    /\ running = None /\ due = <<>> /\ ended = 0
    /\ last = [rows |-> rows, grid |-> Blank(rows), alt |-> FALSE]
    /\ view = last /\ history = <<>> /\ base = 0 /\ ends = <<>>
    /\ gone = <<>> /\ seen = {} /\ lossy = FALSE

-----------------------------------------------------------------------------
(* What a chunk of bytes does to the terminal (outside the repository) *)

Full(s)     == s.cur = rows
Printed(s, n) ==
    LET g == [s.grid EXCEPT ![s.cur] = n]
    IN IF Full(s) THEN [grid |-> Append(Tail(g), 0), cur |-> s.cur]
                  ELSE [grid |-> g, cur |-> s.cur + 1]

Newest(s, n) == SubSeq(s, IF Len(s) > n THEN Len(s) - n + 1 ELSE 1, Len(s))

PrintLine ==
    /\ feeding /\ printed < MaxLines
    /\ printed' = printed + 1
    /\ IF alt
       THEN /\ alts' = Printed(alts, printed')
            /\ UNCHANGED <<main, hist, gone, seen>>
       ELSE /\ main' = Printed(main, printed')
            /\ UNCHANGED alts
            /\ IF Full(main)
               THEN LET top == Head([main.grid EXCEPT ![main.cur] = printed'])
                    IN /\ hist' = Newest(Append(hist, top), HistLimit)
                       /\ gone' = Append(gone, top)
                       /\ seen' = seen \cup {"scroll"} \cup
                                  (IF Len(hist) = HistLimit THEN {"limit"} ELSE {})
               ELSE UNCHANGED <<hist, gone, seen>>
    /\ UNCHANGED <<rows, alt, feedVars, countVars, markVars, cmdVars, clientVars, lossy>>

\* History variables: what makes absolute lines stale has happened to the command that
\* runs and to those that have ended in this chunk.
Disturb ==
    /\ running' = [running EXCEPT !.calm = FALSE]
    /\ due' = <<>>

\* CSI 3 J.
ClearHistory ==
    /\ feeding /\ ~alt
    /\ hist' = <<>>
    /\ IF hist = <<>> THEN UNCHANGED cmdVars ELSE Disturb /\ UNCHANGED ended
    /\ gone' = <<>>
    /\ seen' = seen \cup {"clear"}
    /\ UNCHANGED <<rows, main, alts, alt, printed, feedVars, countVars, markVars,
                   clientVars, lossy>>

\* The alternate screen comes up, blank.
EnterScreen ==
    /\ feeding /\ ~alt
    /\ alt' = TRUE
    /\ alts' = [grid |-> Blank(rows), cur |-> main.cur]
    /\ Disturb
    /\ seen' = seen \cup {"switch"}
    /\ UNCHANGED <<rows, main, hist, printed, countVars, ended, clientVars, gone, lossy>>

\* CSI ? 1049 l; the alternate screen is lost.  No cut point: what follows is fed in the same segment.
LeaveAlt ==
    /\ feeding /\ alt
    /\ alt' = FALSE
    /\ alts' = main
    /\ seen' = seen \cup {"switch"}
    /\ UNCHANGED <<rows, main, hist, printed, feedVars, countVars, markVars, cmdVars,
                   clientVars, gone, lossy>>

-----------------------------------------------------------------------------
(* TerminalEngine::feed *)

FeedStart ==
    /\ ~feeding
    /\ feeding' = TRUE
    /\ pending' = 0 /\ cleared' = FALSE
    /\ segHist' = HistorySize /\ segAlt' = alt /\ feedAlt' = alt
    /\ due' = <<>> /\ ended' = 0
    /\ seen' = {}
    /\ UNCHANGED <<termVars, total, markVars, running, clientVars, gone, lossy>>

\* Mutant: only the screen at the end of the segment is looked at.
SkippedIfEndsInAlt == alt

\* advance_alacritty skips a segment that starts or ends in the alternate screen.
Skipped == segAlt \/ alt
Rebased == ~Skipped /\ HistorySize < segHist

\* The end of advance_alacritty: count what has scrolled, or start anew.
Counted ==
    LET delta == IF Skipped THEN 0 ELSE HistorySize - segHist
    IN IF Rebased
       THEN [total |-> 0, pending |-> 0, cleared |-> TRUE]
       ELSE [total |-> total + delta, pending |-> pending + delta, cleared |-> cleared]

\* Mutant: only clearing resets the marks at a cut point.
ResetByClearing == Rebased

\* ShellIntegration::reset, at a cut point or the end of the chunk: the history was
\* cleared, or the alternate screen is up and was not at the last one.
Reset == Rebased \/ (alt /\ ~feedAlt)

\* History variable: a command that runs while the engine looks at the alternate screen.
Met(e, up) == [e EXCEPT !.met = IF e.on /\ up THEN TRUE ELSE @]

\* Mutant: the flag of the chunk is tested instead of what the segment did.
ExecNowByFlag == IF Reset \/ cleared THEN Idle ELSE Met(exec, alt)

ExecNow     == IF Reset THEN Idle ELSE Met(exec, alt)
ResolvedNow == IF Reset THEN <<>> ELSE resolved

\* CSI ? 1049 h, a cut point behind which the alternate screen is up.
EnterAlt ==
    /\ EnterScreen
    /\ exec' = IF feedAlt THEN Met(exec, TRUE) ELSE Idle
    /\ resolved' = IF feedAlt THEN resolved ELSE <<>>
    /\ segHist' = 0 /\ segAlt' = TRUE /\ feedAlt' = TRUE
    /\ UNCHANGED feeding

\* CSI ? 25;1049 h: csi_dispatch looks at the first parameter only, alacritty at all of
\* them.  No cut point: the segment goes on.
EnterAltUnseen ==
    /\ EnterScreen
    /\ UNCHANGED <<feedVars, markVars>>

NextSegment ==
    /\ segHist' = HistorySize /\ segAlt' = alt /\ feedAlt' = alt
    /\ UNCHANGED feeding

\* A cut point that leaves the screens as they are.
Cut ==
    /\ feeding
    /\ total' = Counted.total /\ pending' = Counted.pending
    /\ cleared' = Counted.cleared
    /\ NextSegment
    /\ UNCHANGED <<termVars, clientVars, auxVars>>

\* CSI ? 1049 h in the alternate screen, or 1047 or 47, which alacritty does not know.
CutOnly ==
    /\ Cut
    /\ exec' = ExecNow /\ resolved' = ResolvedNow
    /\ UNCHANGED cmdVars

\* A mark in the alternate screen is skipped.
PromptStart ==
    /\ Cut
    /\ exec' = IF alt THEN ExecNow ELSE Idle
    /\ resolved' = ResolvedNow
    /\ running' = IF alt THEN running ELSE None
    /\ UNCHANGED <<due, ended>>

\* The shell sends C behind the newline that ends the command's own line.
CommandStart ==
    /\ Screen.cur > 1
    /\ Cut
    /\ exec' = IF alt THEN ExecNow
               ELSE [on |-> TRUE, abs |-> total' + main.cur - 1,
                     of |-> main.grid[main.cur - 1], met |-> FALSE]
    /\ resolved' = ResolvedNow
    /\ running' = IF alt THEN running
                  ELSE [on |-> TRUE, calm |-> TRUE, of |-> main.grid[main.cur - 1]]
    /\ UNCHANGED <<due, ended>>

CommandEnd ==
    /\ ended < MaxEnds
    /\ Cut
    /\ resolved' = IF alt \/ ~ExecNow.on THEN ResolvedNow
                   ELSE Append(ResolvedNow, [ExecNow EXCEPT !.abs = @ - 1])
    /\ exec' = IF alt THEN ExecNow ELSE Idle
    /\ running' = IF alt THEN running ELSE None
    /\ due' = IF ~alt /\ running.calm THEN Append(due, running.of) ELSE due
    /\ ended' = IF ~alt /\ running.on THEN ended + 1 ELSE ended

-----------------------------------------------------------------------------
(* The frame behind a chunk: take_scrolled_rows, encode_frame, and the client *)

GridRow(k) == IF ~alt /\ k <= Len(hist) THEN hist[Len(hist) + 1 - k] ELSE 0

ScrolledRows ==
    IF Counted.cleared THEN <<>>
    ELSE [i \in 1..Counted.pending |-> GridRow(Counted.pending + 1 - i)]

\* Mutant: a row that has become blank is not sent.
DirtyWritten(g) == {i \in DOMAIN g : g[i] # last.grid[i] /\ g[i] # 0}

Dirty(g) == {i \in DOMAIN g : g[i] # last.grid[i]}

InitFrame(n, g) ==
    /\ view' = [rows |-> n, grid |-> g, alt |-> alt]
    /\ base' = Len(history)
    /\ UNCHANGED history

Patch(g, scrolled, clear) ==
    /\ view' = [view EXCEPT
                  !.grid = [i \in DOMAIN g |-> IF i \in Dirty(g) THEN g[i] ELSE @[i]],
                  !.alt  = IF last.alt # alt THEN alt ELSE @]
    /\ history' = IF clear THEN <<>> ELSE history \o scrolled
    /\ base' = IF clear THEN 0 ELSE base

EncodeFrame(n, g, scrolled, clear) ==
    /\ last' = [rows |-> n, grid |-> g, alt |-> alt]
    /\ IF last.rows = n THEN Patch(g, scrolled, clear) ELSE InitFrame(n, g)

\* The counts are off after a chunk that mixes scrolling, a full history, clearing
\* and a switch of screens.
Uncounted == Cardinality(seen) > 1

FeedEnd ==
    /\ feeding
    /\ feeding' = FALSE
    /\ total' = Counted.total /\ cleared' = Counted.cleared
    /\ pending' = 0
    /\ ends' = ResolvedNow
    /\ exec' = ExecNow
    /\ resolved' = <<>>
    /\ EncodeFrame(rows, Screen.grid, ScrolledRows, Counted.cleared)
    /\ lossy' = (Uncounted \/ (lossy /\ ~cleared'))
    /\ segHist' = 0 /\ segAlt' = FALSE /\ feedAlt' = FALSE /\ seen' = {}
    /\ UNCHANGED <<termVars, cmdVars, gone>>

-----------------------------------------------------------------------------
(* SessionInput::Resize: TerminalEngine::resize and the frame behind it *)

\* alacritty: lines above the cursor go to the history, or come back from it.
Shrunk(s, n) ==
    LET up == IF s.cur > n THEN s.cur - n ELSE 0
    IN [grid |-> SubSeq(s.grid, up + 1, up + n), cur |-> s.cur - up]
Grown(s, n, h) ==
    [grid |-> h \o s.grid \o Blank(n - rows - Len(h)), cur |-> s.cur + Len(h)]
Fit(s, n, h) == IF n < rows THEN Shrunk(s, n) ELSE Grown(s, n, h)

ResizeScreen(n) ==
    LET back == IF n > rows THEN Newest(hist, n - rows) ELSE <<>>
        up   == IF n < main.cur THEN main.cur - n ELSE 0
        m    == Fit(main, n, back)
        a    == Fit(alts, n, <<>>)
    IN /\ ~feeding
       /\ rows' = n /\ main' = m /\ alts' = a
       /\ hist' = Newest(SubSeq(hist, 1, Len(hist) - Len(back))
                         \o SubSeq(main.grid, 1, up), HistLimit)
       /\ total' = 0
       /\ Disturb /\ ended' = 0
       /\ ends' = <<>>
       /\ EncodeFrame(n, (IF alt THEN a ELSE m).grid, <<>>, FALSE)
       /\ gone' = <<>>
       /\ lossy' = (n = last.rows /\ (lossy \/ Len(history) > base))
       /\ UNCHANGED <<alt, printed, feedVars, pending, cleared, seen>>

\* Mutant: the command in flight is kept.
ResizeKeepsCommand(n) == ResizeScreen(n) /\ UNCHANGED <<exec, resolved>>

Resize(n) == ResizeScreen(n) /\ exec' = Idle /\ resolved' = <<>>

-----------------------------------------------------------------------------

Next == PrintLine \/ ClearHistory \/ EnterAlt \/ EnterAltUnseen \/ LeaveAlt
        \/ FeedStart \/ CutOnly \/ PromptStart \/ CommandStart \/ CommandEnd \/ FeedEnd
        \/ \E n \in Sizes : Resize(n)

Spec == Init /\ [][Next]_vars

-----------------------------------------------------------------------------
(* Properties *)

\* Between two chunks the client's grid and modes are the terminal's, whatever
\* frames were patches: dirty rows, modes that changed, Init after a resize.
ClientSeesScreen ==
    ~feeding =>
        view = [rows |-> rows, grid |-> Screen.grid, alt |-> alt]

\* The last elements of h are those of g.
EndsWith(h, g) ==
    /\ Len(g) <= Len(h)
    /\ \A i \in DOMAIN g : g[i] = h[Len(h) - Len(g) + i]

LinesOf(s) == [i \in DOMAIN s |-> s[i].of]

NewHistory == SubSeq(history, base + 1, Len(history))

\* The client's history, from its last Init on, holds exactly the lines that left
\* the screen, each once and in order, and scroll_total counts them: across alternate
\* screens, clearing and marks in the middle of a chunk.
HistoryExact ==
    ~feeding /\ ~lossy => NewHistory = gone /\ total = Len(gone)

\* The line a CommandEnd carries is the command's own line in the client's
\* coordinates, however far it scrolled between C and D.
MarkOnCommandLine ==
    ~feeding /\ ~lossy =>
        \A i \in DOMAIN ends :
            (NewHistory \o view.grid)[ends[i].abs + 1] = ends[i].of

\* No CommandEnd for a command during which the alternate screen was up at a cut point
\* or at the end of a chunk, whichever sequence brought it up and whatever came before.
\* The comment in feed (engine.rs:91-92) promises it for every entry; a command that comes
\* back from EnterAltUnseen within the segment has its end sent.
NoEndForSeenAlt == \A i \in DOMAIN ends : ~ends[i].met

\* A command gets its CommandEnd, in the frame of the chunk its D is in and in the order
\* of the commands, unless between its C and the end of that chunk lines of the history
\* were cleared, the alternate screen came up or the session was resized.  No end is sent
\* for what did not run.  A command is a C and the D behind it, seen outside the alternate
\* screen; another A or C in between abandons it.  event.rs:58-59 promises CommandEnd for
\* every command; these exceptions are the code's.
EndsSent ==
    ~feeding =>
        /\ EndsWith(LinesOf(ends), due)
        /\ Len(ends) <= ended
=============================================================================
