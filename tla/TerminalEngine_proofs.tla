------------------------ MODULE TerminalEngine_proofs -------------------------
(***************************************************************************)
(* What TerminalEngine guarantees for every set of heights, every limit of *)
(* the history and every number of lines.                                  *)
(*                                                                         *)
(* The properties are about the state between two chunks; the invariants   *)
(* say what holds in the middle of one.  Shape gives the types, AltInv     *)
(* says what the engine knows of a command while it looks at the alternate *)
(* screen, ScreenInv ties the client to the encoder, ChunkInv says what    *)
(* the segment in progress has done to the history, AccountInv where each  *)
(* line that left the screen is, MarkInv where the line of a command is,   *)
(* and EndsInv which commands the engine knows of and owes an end.         *)
(***************************************************************************)
EXTENDS TerminalEngine, FiniteSetTheorems, SequenceTheorems, TLAPS

-----------------------------------------------------------------------------
(* The invariants *)

GridOK(s) == s.grid \in Seq(Line) /\ Len(s.grid) = rows /\ s.cur \in 1..rows

TermOK ==
    /\ rows \in Nat \ {0}
    /\ GridOK(main) /\ GridOK(alts) /\ alt \in BOOLEAN
    /\ hist \in Seq(Line) /\ Len(hist) <= HistLimit
    /\ printed \in Line

CountOK ==
    /\ feeding \in BOOLEAN /\ segAlt \in BOOLEAN /\ feedAlt \in BOOLEAN
    /\ segHist \in Nat /\ total \in Nat /\ pending \in Nat /\ cleared \in BOOLEAN

Command == [on : BOOLEAN, abs : Int, of : Line, met : BOOLEAN]

MarkOK == exec \in Command /\ resolved \in Seq(Command) /\ ends \in Seq(Command)

RunOK ==
    /\ running \in [on : BOOLEAN, calm : BOOLEAN, of : Line]
    /\ due \in Seq(Line) /\ ended \in Nat

ClientOK == history \in Seq(Line) /\ base \in 0..Len(history)

Done == {"scroll", "limit", "clear", "switch"}

AuxOK ==
    /\ gone \in Seq(Line) /\ lossy \in BOOLEAN /\ seen \subseteq Done
    /\ "limit" \in seen => "scroll" \in seen

Shape == TermOK /\ CountOK /\ MarkOK /\ RunOK /\ ClientOK /\ AuxOK

AltInv ==
    /\ segAlt = feedAlt
    /\ feedAlt => ~exec.on /\ resolved = <<>>
    /\ ~feeding => ~feedAlt /\ resolved = <<>> /\ (alt => ~exec.on)
    /\ ~exec.met
    /\ \A i \in DOMAIN resolved : ~resolved[i].met
    /\ NoEndForSeenAlt

ScreenInv ==
    /\ view = last
    /\ last = [rows |-> rows, grid |-> last.grid, alt |-> last.alt]
    /\ ClientSeesScreen

\* The chunks whose accounting holds.
Simple == seen \in {{}, {"scroll"}, {"clear"}, {"switch"}}

ChunkInv ==
    feeding /\ Simple =>
        /\ "switch" \notin seen => segAlt = alt
        /\ seen \in {{}, {"switch"}} /\ ~segAlt => segHist = Len(hist)
        /\ seen = {"scroll"} => ~alt /\ segHist <= Len(hist)
        /\ seen # {"clear"} => ~cleared
        /\ seen # {"scroll"} => pending = 0
        /\ seen = {"clear"} => /\ ~alt /\ hist = <<>> /\ gone = <<>>
                               /\ cleared => total = 0 /\ segHist = 0

\* What the client has got since its last Init is the beginning of what has left the
\* screen, and what has left the screen is the end of the terminal's history.
Sent == Len(history) - base
BeginsWith(g, c, b) == \A i \in 1..(Len(c) - b) : c[b + i] = g[i]
Prefix == BeginsWith(gone, history, base)
Suffix == EndsWith(hist, gone)

AccountInv ==
    /\ ~feeding /\ ~lossy => Sent = Len(gone) /\ total = Len(gone) /\ Prefix /\ Suffix
    /\ feeding /\ ~lossy /\ Simple /\ seen # {"clear"} =>
          /\ Counted.total = Len(gone) /\ Len(gone) = Sent + Counted.pending
          /\ Prefix /\ Suffix
    /\ feeding /\ ~lossy /\ seen = {"clear"} /\ ~Counted.cleared => Sent = 0 /\ total = 0

\* Line p of all that has left the screen and what is on it: a line above the cursor.
Stands(g, s, p, line) == p \in 1..(Len(g) + s.cur - 1) /\ (g \o s.grid)[p] = line
Above(p, line) == Stands(gone, main, p, line)

Marked(c)   == c.on => Above(c.abs, c.of)
AllAbove(s) == \A i \in DOMAIN s : Above(s[i].abs + 1, s[i].of)

MarkInv ==
    /\ ~feeding /\ ~lossy => Marked(exec) /\ MarkOnCommandLine
    /\ feeding /\ Simple /\ (~lossy \/ Counted.cleared) /\ ~Rebased =>
          Marked(exec) /\ AllAbove(resolved)

\* The command that runs undisturbed is the one the engine knows; no segment has reset
\* it, nor those that have ended in this chunk.
EndsInv ==
    /\ running.calm => running.on /\ exec.on /\ exec.of = running.of
    /\ exec.on => running.on
    /\ running.calm \/ due # <<>> => ~alt /\ ~feedAlt /\ (feeding => segHist <= Len(hist))
    /\ running.on /\ ~running.calm => due = <<>>
    /\ feeding => EndsWith(LinesOf(resolved), due) /\ Len(resolved) <= ended
    /\ EndsSent

-----------------------------------------------------------------------------
(* Lines and sequences of them *)

LEMMA ZeroIsLine == 0 \in Line
BY EngineAssumption DEF Line

LEMMA BlankShape ==
    ASSUME NEW n \in Nat
    PROVE  Blank(n) \in Seq(Line) /\ Len(Blank(n)) = n
BY ZeroIsLine DEF Blank

(* The newest n elements of a sequence, or all of them when it is shorter.        *)
LEMMA NewestShape ==
    ASSUME NEW s \in Seq(Line), NEW n \in Nat
    PROVE  /\ Newest(s, n) \in Seq(Line)
           /\ Len(Newest(s, n)) = IF Len(s) > n THEN n ELSE Len(s)
           /\ Len(s) <= n => Newest(s, n) = s
<1> DEFINE m == IF Len(s) > n THEN Len(s) - n + 1 ELSE 1
<1>1. m \in Int /\ m >= 1 /\ Len(s) \in Nat /\ Newest(s, n) = SubSeq(s, m, Len(s))
  BY DEF Newest
<1>2. (Len(s) > n => m = Len(s) - n + 1) /\ (~(Len(s) > n) => m = 1)
  OBVIOUS
<1> HIDE DEF m
<1>3. \A i \in m..Len(s) : s[i] \in Line
  BY <1>1, ElementOfSeq
<1>4. SubSeq(s, m, Len(s)) \in Seq(Line)
      /\ Len(SubSeq(s, m, Len(s))) = IF m <= Len(s) THEN Len(s) - m + 1 ELSE 0
  <2>1. Len(s) \in Int
    BY <1>1
  <2>2. QED
    BY <1>1, <1>3, <2>1, SubSeqProperties
<1>5. Len(s) <= n => Newest(s, n) = s
  BY <1>1, <1>2, SubSeqFull
<1>6. QED
  BY <1>1, <1>2, <1>4, <1>5

(* A part of a sequence of lines.                                                 *)
LEMMA PartShape ==
    ASSUME NEW s \in Seq(Line), NEW i \in Nat, NEW j \in Nat, i >= 1, j <= Len(s), i <= j + 1
    PROVE  SubSeq(s, i, j) \in Seq(Line) /\ Len(SubSeq(s, i, j)) = j - i + 1
<1>1. \A k \in i..j : s[k] \in Line
  BY ElementOfSeq
<1>2. QED
  BY <1>1, SubSeqProperties

\* The line that leaves a full screen when line n is printed: the first one, which on
\* a screen of one row is the line just printed.
Top(s, n) == IF rows = 1 THEN n ELSE s.grid[1]

LEMMA TopIsLine ==
    ASSUME NEW s, GridOK(s), rows \in Nat \ {0}, NEW n \in Line
    PROVE  Top(s, n) \in Line
<1>1. 1 \in 1..Len(s.grid) /\ s.grid \in Seq(Line)
  BY DEF GridOK
<1>2. s.grid[1] \in Line
  BY <1>1, ElementOfSeq
<1>3. QED
  BY <1>2 DEF Top

(* A printed line stands where the cursor was; a full screen moves up by one line. *)
LEMMA PrintedShape ==
    ASSUME NEW s, GridOK(s), rows \in Nat \ {0}, NEW n \in Line
    PROVE  /\ GridOK(Printed(s, n))
           /\ ~Full(s) => /\ Printed(s, n).cur = s.cur + 1
                          /\ \A i \in 1..rows : i # s.cur => Printed(s, n).grid[i] = s.grid[i]
           /\ Full(s) => /\ Printed(s, n).cur = rows
                         /\ Head([s.grid EXCEPT ![s.cur] = n]) = Top(s, n)
                         /\ \A i \in 1..(rows - 2) : Printed(s, n).grid[i] = s.grid[i + 1]
<1> DEFINE g == [s.grid EXCEPT ![s.cur] = n]
<1>1. /\ g \in Seq(Line) /\ Len(g) = rows /\ s.cur \in 1..rows
      /\ \A i \in 1..rows : g[i] = IF i = s.cur THEN n ELSE s.grid[i]
  BY ExceptSeq DEF GridOK
<1> HIDE DEF g
<1>2. CASE ~Full(s)
  <2>1. Printed(s, n) = [grid |-> g, cur |-> s.cur + 1]
    BY <1>2 DEF Printed, g
  <2>2. s.cur + 1 \in 1..rows
    BY <1>1, <1>2 DEF Full
  <2>3. QED
    BY <1>1, <1>2, <2>1, <2>2 DEF GridOK
<1>3. CASE Full(s)
  <2>1. Printed(s, n) = [grid |-> Append(Tail(g), 0), cur |-> s.cur]
    BY <1>3 DEF Printed, g
  <2>2. /\ Tail(g) \in Seq(Line) /\ Len(Tail(g)) = rows - 1 /\ Head(g) = g[1]
        /\ \A i \in 1..(rows - 1) : Tail(g)[i] = g[i + 1]
    BY <1>1
  <2>3. /\ Append(Tail(g), 0) \in Seq(Line) /\ Len(Append(Tail(g), 0)) = rows
        /\ \A i \in 1..(rows - 1) : Append(Tail(g), 0)[i] = g[i + 1]
    BY <2>2, ZeroIsLine, AppendProperties
  <2>4. Head(g) = Top(s, n) /\ s.cur = rows
    BY <1>1, <1>3, <2>2 DEF Full, Top
  <2>5. \A i \in 1..(rows - 2) : g[i + 1] = s.grid[i + 1]
    BY <1>1, <2>4
  <2>6. Head([s.grid EXCEPT ![s.cur] = n]) = Top(s, n)
    BY <2>4 DEF g
  <2>7. GridOK(Printed(s, n)) /\ Printed(s, n).cur = rows
    BY <1>1, <2>1, <2>3, <2>4 DEF GridOK
  <2>8. \A i \in 1..(rows - 2) : Printed(s, n).grid[i] = s.grid[i + 1]
    BY <2>1, <2>3, <2>5
  <2>9. QED
    BY <1>3, <2>6, <2>7, <2>8
<1>4. QED
  BY <1>2, <1>3

(* A screen fitted to another height has that height and the cursor on it.        *)
LEMMA FitShape ==
    ASSUME NEW s, GridOK(s), rows \in Nat \ {0}, NEW n \in Nat \ {0}, NEW h \in Seq(Line),
           n > rows => Len(h) <= n - rows, n <= rows => h = <<>>
    PROVE  Fit(s, n, h).grid \in Seq(Line) /\ Len(Fit(s, n, h).grid) = n /\ Fit(s, n, h).cur \in 1..n
<1>1. CASE n < rows
  <2> DEFINE up == IF s.cur > n THEN s.cur - n ELSE 0
  <2>1. up \in Nat /\ up + n <= rows /\ s.cur - up \in 1..n
    BY <1>1 DEF GridOK
  <2>2. Fit(s, n, h) = [grid |-> SubSeq(s.grid, up + 1, up + n), cur |-> s.cur - up]
    BY <1>1 DEF Fit, Shrunk
  <2> HIDE DEF up
  <2>3. SubSeq(s.grid, up + 1, up + n) \in Seq(Line) /\ Len(SubSeq(s.grid, up + 1, up + n)) = n
    <3>1. /\ up + 1 \in Nat /\ up + n \in Nat /\ up + 1 >= 1 /\ up + n <= Len(s.grid)
          /\ up + 1 <= (up + n) + 1 /\ s.grid \in Seq(Line) /\ (up + n) - (up + 1) + 1 = n
      BY <2>1 DEF GridOK
    <3>2. QED
      BY <3>1, PartShape
  <2>4. QED
    BY <2>1, <2>2, <2>3
<1>2. CASE n >= rows
  <2>1. Len(h) \in Nat /\ Len(h) <= n - rows
    BY <1>2
  <2> DEFINE k == n - rows - Len(h)
  <2>2. k \in Nat /\ Len(h) + rows + k = n
    BY <1>2, <2>1
  <2>3. Fit(s, n, h) = [grid |-> (h \o s.grid) \o Blank(k), cur |-> s.cur + Len(h)]
    BY <1>2 DEF Fit, Grown
  <2> HIDE DEF k
  <2>4. h \o s.grid \in Seq(Line) /\ Len(h \o s.grid) = Len(h) + rows
    BY ConcatProperties DEF GridOK
  <2>5. (h \o s.grid) \o Blank(k) \in Seq(Line) /\ Len((h \o s.grid) \o Blank(k)) = n
    <3>1. Blank(k) \in Seq(Line) /\ Len(Blank(k)) = k
      BY <2>2, BlankShape
    <3> DEFINE t == h \o s.grid
    <3>2. t \in Seq(Line) /\ Len(t) = Len(h) + rows
      BY <2>4
    <3> HIDE DEF t
    <3>3. t \o Blank(k) \in Seq(Line) /\ Len(t \o Blank(k)) = Len(t) + Len(Blank(k))
      BY <3>1, <3>2, ConcatProperties
    <3>4. QED
      BY <2>1, <2>2, <3>1, <3>2, <3>3 DEF t
  <2>6. s.cur + Len(h) \in 1..n
    BY <1>2, <2>1 DEF GridOK
  <2>7. QED
    BY <2>3, <2>5, <2>6
<1>3. QED
  BY <1>1, <1>2

-----------------------------------------------------------------------------
(* The types *)

(* What the end of a segment counts are numbers; a segment that is not rebased has *)
(* not lost lines of the history.                                                  *)
LEMMA CountedShape ==
    ASSUME TermOK, CountOK
    PROVE  /\ HistorySize \in Nat
           /\ Counted.total \in Nat /\ Counted.pending \in Nat /\ Counted.cleared \in BOOLEAN
           /\ Rebased => Counted.total = 0 /\ Counted.pending = 0 /\ Counted.cleared
           /\ ~Rebased /\ Skipped => Counted.total = total /\ Counted.pending = pending
           /\ ~Rebased /\ ~Skipped => /\ HistorySize >= segHist
                                     /\ Counted.total = total + (HistorySize - segHist)
                                     /\ Counted.pending = pending + (HistorySize - segHist)
           /\ ~Rebased => Counted.cleared = cleared
<1>1. HistorySize \in Nat
  BY DEF HistorySize, TermOK
<1>2. CASE Rebased
  BY <1>1, <1>2 DEF Counted
<1>3. CASE ~Rebased /\ Skipped
  <2>1. Counted = [total |-> total + 0, pending |-> pending + 0, cleared |-> cleared]
    BY <1>3 DEF Counted
  <2>2. QED
    BY <1>1, <1>3, <2>1 DEF CountOK
<1>4. CASE ~Rebased /\ ~Skipped
  <2>1. HistorySize >= segHist
    BY <1>1, <1>4 DEF Rebased, CountOK
  <2>2. Counted = [total |-> total + (HistorySize - segHist),
                   pending |-> pending + (HistorySize - segHist), cleared |-> cleared]
    BY <1>4 DEF Counted
  <2>3. QED
    BY <1>1, <1>4, <2>1, <2>2 DEF CountOK
<1>5. QED
  BY <1>2, <1>3, <1>4

LEMMA NowShape ==
    ASSUME MarkOK
    PROVE  ExecNow \in Command /\ ResolvedNow \in Seq(Command)
<1>1. Idle \in Command /\ <<>> \in Seq(Command)
  BY ZeroIsLine, EmptySeq DEF Idle, Command
<1>2. Met(exec, alt) \in Command
  BY DEF MarkOK, Command, Met
<1>3. QED
  BY <1>1, <1>2 DEF MarkOK, ExecNow, ResolvedNow

(* The rows that go with a frame are lines of the history, the oldest first.       *)
LEMMA ScrolledShape ==
    ASSUME TermOK, CountOK
    PROVE  /\ ScrolledRows \in Seq(Line)
           /\ Counted.cleared => ScrolledRows = <<>>
           /\ ~Counted.cleared =>
                 /\ Len(ScrolledRows) = Counted.pending
                 /\ \A i \in 1..Counted.pending :
                       ScrolledRows[i] = GridRow(Counted.pending + 1 - i)
<1>1. \A k \in Nat \ {0} : GridRow(k) \in Line
  <2>1. ASSUME NEW k \in Nat \ {0}, k <= Len(hist) PROVE hist[Len(hist) + 1 - k] \in Line
    <3>1. Len(hist) + 1 - k \in 1..Len(hist) /\ hist \in Seq(Line)
      BY <2>1 DEF TermOK
    <3>2. QED
      BY <3>1, ElementOfSeq
  <2>2. QED
    BY <2>1, ZeroIsLine DEF GridRow
<1>2. CASE Counted.cleared
  BY <1>2 DEF ScrolledRows
<1>3. CASE ~Counted.cleared
  <2> DEFINE p == Counted.pending
  <2>1. ScrolledRows = [i \in 1..p |-> GridRow(p + 1 - i)]
    BY <1>3 DEF ScrolledRows
  <2>2. p \in Nat
    BY CountedShape
  <2> HIDE DEF p
  <2>3. \A i \in 1..p : GridRow(p + 1 - i) \in Line
    BY <1>1, <2>2
  <2>4. ScrolledRows \in [1..p -> Line]
    BY <2>1, <2>3
  <2>5. ScrolledRows \in Seq(Line) /\ Len(ScrolledRows) = p
    BY <2>2, <2>4
  <2>6. QED
    BY <1>3, <2>1, <2>5 DEF p
<1>4. QED
  BY <1>2, <1>3
LEMMA TermPrint ==
    ASSUME TermOK, CountOK, AuxOK, PrintLine
    PROVE  TermOK' /\ AuxOK'
<1>1. printed' = printed + 1 /\ printed' \in Line /\ rows' = rows /\ alt' = alt /\ lossy' = lossy
  BY EngineAssumption DEF PrintLine, TermOK, Line
<1>2. CASE alt
  <2>1. /\ alts' = Printed(alts, printed') /\ UNCHANGED <<main, hist, gone, seen>>
    BY <1>2 DEF PrintLine
  <2>2. GridOK(Printed(alts, printed'))
    BY <1>1, PrintedShape DEF TermOK
  <2>3. QED
    BY <1>1, <2>1, <2>2 DEF TermOK, AuxOK, GridOK
<1>3. CASE ~alt
  <2>1. main' = Printed(main, printed') /\ alts' = alts
    BY <1>3 DEF PrintLine
  <2>2. GridOK(Printed(main, printed'))
    BY <1>1, PrintedShape DEF TermOK
  <2>3. GridOK(main)' /\ GridOK(alts)'
    BY <1>1, <2>1, <2>2 DEF TermOK, GridOK
  <2>4. CASE ~Full(main)
    <3>1. UNCHANGED <<hist, gone, seen>>
      BY <1>3, <2>4 DEF PrintLine
    <3>2. QED
      BY <1>1, <2>3, <3>1 DEF TermOK, AuxOK
  <2>5. CASE Full(main)
    <3> DEFINE top == Head([main.grid EXCEPT ![main.cur] = printed'])
    <3>1. /\ hist' = Newest(Append(hist, top), HistLimit) /\ gone' = Append(gone, top)
          /\ seen' = seen \cup {"scroll"} \cup (IF Len(hist) = HistLimit THEN {"limit"} ELSE {})
      BY <1>3, <2>5 DEF PrintLine
    <3>2. top \in Line
      <4>1. GridOK(main) /\ rows \in Nat \ {0}
        BY DEF TermOK
      <4>2. top = Top(main, printed')
        BY <1>1, <2>5, <4>1, PrintedShape
      <4>3. QED
        BY <1>1, <4>1, <4>2, TopIsLine
    <3> HIDE DEF top
    <3>3. Append(hist, top) \in Seq(Line) /\ gone' \in Seq(Line)
      BY <3>1, <3>2, AppendProperties DEF TermOK, AuxOK
    <3>4. hist' \in Seq(Line) /\ Len(hist') <= HistLimit
      <4> DEFINE longer == Append(hist, top)
      <4>1. longer \in Seq(Line) /\ Len(longer) \in Nat /\ HistLimit \in Nat
        BY <3>3, EngineAssumption
      <4>2. hist' = Newest(longer, HistLimit)
        BY <3>1
      <4> HIDE DEF longer
      <4>3. QED
        BY <4>1, <4>2, NewestShape
    <3>5. seen' \subseteq Done /\ ("limit" \in seen' => "scroll" \in seen')
      BY <3>1 DEF AuxOK, Done
    <3>6. QED
      BY <1>1, <2>3, <3>3, <3>4, <3>5 DEF TermOK, AuxOK
  <2>6. QED
    BY <2>4, <2>5
<1>4. QED
  BY <1>2, <1>3

(* A change of the height keeps the screens in shape and the history within its    *)
(* limit.                                                                          *)
LEMMA TermResize ==
    ASSUME TermOK, NEW n \in Sizes, ResizeScreen(n)
    PROVE  TermOK'
<1> DEFINE back == IF n > rows THEN Newest(hist, n - rows) ELSE <<>>
           up   == IF n < main.cur THEN main.cur - n ELSE 0
           old  == SubSeq(hist, 1, Len(hist) - Len(back))
           new  == SubSeq(main.grid, 1, up)
<1>1. n \in Nat \ {0} /\ rows \in Nat \ {0} /\ hist \in Seq(Line) /\ Len(hist) \in Nat
  BY EngineAssumption DEF TermOK
<1>2. /\ rows' = n /\ main' = Fit(main, n, back) /\ alts' = Fit(alts, n, <<>>)
      /\ hist' = Newest(old \o new, HistLimit) /\ alt' = alt /\ printed' = printed
  BY DEF ResizeScreen
<1>3. /\ back \in Seq(Line) /\ Len(back) <= Len(hist)
      /\ n > rows => Len(back) <= n - rows
      /\ n <= rows => back = <<>>
  <2>1. CASE n > rows
    <3> DEFINE d == n - rows
    <3>1. d \in Nat /\ back = Newest(hist, d) /\ ~(n <= rows)
      BY <1>1, <2>1
    <3> HIDE DEF d
    <3>2. Newest(hist, d) \in Seq(Line) /\ Len(Newest(hist, d)) = IF Len(hist) > d THEN d ELSE Len(hist)
      BY <1>1, <3>1, NewestShape
    <3>3. QED
      BY <1>1, <2>1, <3>1, <3>2 DEF d
  <2>2. CASE ~(n > rows)
    BY <1>1, <2>2, EmptySeq
  <2>3. QED
    BY <2>1, <2>2
<1>4. up \in Nat /\ up <= Len(main.grid) /\ main.grid \in Seq(Line)
  BY <1>1 DEF TermOK, GridOK
<1>5. old \in Seq(Line) /\ new \in Seq(Line)
  <2> HIDE DEF back, up
  <2>1. Len(hist) - Len(back) \in Nat /\ Len(hist) - Len(back) <= Len(hist)
    BY <1>1, <1>3
  <2>2. QED
    BY <1>1, <1>4, <2>1, PartShape
<1> HIDE DEF back, up, old, new
<1>6. hist' \in Seq(Line) /\ Len(hist') <= HistLimit
  <2> DEFINE all == old \o new
  <2>1. all \in Seq(Line) /\ Len(all) \in Nat /\ HistLimit \in Nat
    BY <1>5, ConcatProperties, EngineAssumption
  <2>2. hist' = Newest(all, HistLimit)
    BY <1>2
  <2> HIDE DEF all
  <2>3. QED
    BY <2>1, <2>2, NewestShape
<1>7. GridOK(main)'
  <2>1. GridOK(main)
    BY DEF TermOK
  <2>2. QED
    BY <1>1, <1>2, <1>3, <2>1, FitShape DEF GridOK
<1>8. GridOK(alts)'
  <2>1. GridOK(alts) /\ <<>> \in Seq(Line) /\ (n > rows => Len(<<>>) <= n - rows)
    BY <1>1, EmptySeq DEF TermOK
  <2>2. QED
    BY <1>1, <1>2, <2>1, FitShape DEF GridOK
<1>9. QED
  BY <1>1, <1>2, <1>6, <1>7, <1>8 DEF TermOK
LEMMA TermStep ==
    ASSUME Shape, Next PROVE TermOK' /\ AuxOK'
<1> USE DEF Shape, termVars, feedVars, countVars, markVars, cmdVars, clientVars, auxVars
<1>1. CASE PrintLine
  BY <1>1, TermPrint
<1>2. CASE ClearHistory
  <2>1. /\ UNCHANGED <<rows, main, alts, alt, printed, lossy>> /\ hist' = <<>> /\ gone' = <<>>
        /\ seen' = seen \cup {"clear"}
    BY <1>2 DEF ClearHistory
  <2>2. QED
    BY <2>1, EngineAssumption, EmptySeq DEF TermOK, AuxOK, GridOK, Done
<1>3. CASE LeaveAlt
  <2>1. /\ UNCHANGED <<rows, main, hist, printed, lossy, gone>> /\ alt' = FALSE /\ alts' = main
        /\ seen' = seen \cup {"switch"}
    BY <1>3 DEF LeaveAlt
  <2>2. QED
    BY <2>1 DEF TermOK, AuxOK, GridOK, Done
<1>4. CASE EnterAlt \/ EnterAltUnseen
  <2>1. /\ UNCHANGED <<rows, main, hist, printed, lossy, gone>> /\ alt' = TRUE
        /\ alts' = [grid |-> Blank(rows), cur |-> main.cur]
        /\ seen' = seen \cup {"switch"}
    BY <1>4 DEF EnterAlt, EnterAltUnseen, EnterScreen
  <2>2. QED
    BY <2>1, BlankShape DEF TermOK, AuxOK, GridOK, Done
<1>5. CASE FeedStart
  <2>1. UNCHANGED <<rows, main, alts, alt, hist, printed, gone, lossy>> /\ seen' = {}
    BY <1>5 DEF FeedStart
  <2>2. QED
    BY <2>1 DEF TermOK, AuxOK, GridOK
<1>6. CASE CutOnly \/ PromptStart \/ CommandStart \/ CommandEnd
  <2>1. UNCHANGED <<rows, main, alts, alt, hist, printed, gone, lossy, seen>>
    BY <1>6 DEF CutOnly, PromptStart, CommandStart, CommandEnd, Cut
  <2>2. QED
    BY <2>1 DEF TermOK, AuxOK, GridOK
<1>7. CASE FeedEnd
  <2>1. /\ UNCHANGED <<rows, main, alts, alt, hist, printed, gone>> /\ seen' = {}
        /\ lossy' \in BOOLEAN
    BY <1>7 DEF FeedEnd
  <2>2. QED
    BY <2>1 DEF TermOK, AuxOK, GridOK
<1>8. ASSUME NEW n \in Sizes, Resize(n) PROVE TermOK' /\ AuxOK'
  <2>1. gone' = <<>> /\ seen' = seen /\ lossy' \in BOOLEAN
    BY <1>8 DEF Resize, ResizeScreen
  <2>2. QED
    BY <1>8, <2>1, TermResize, EmptySeq DEF Resize, AuxOK
<1>9. QED
  BY <1>1, <1>2, <1>3, <1>4, <1>5, <1>6, <1>7, <1>8 DEF Next

LEMMA CountStep ==
    ASSUME Shape, Next PROVE CountOK'
<1> USE DEF Shape, termVars, feedVars, countVars, markVars, cmdVars, clientVars, auxVars
<1>0. /\ HistorySize \in Nat /\ Counted.total \in Nat /\ Counted.pending \in Nat
      /\ Counted.cleared \in BOOLEAN /\ alt \in BOOLEAN
  BY CountedShape DEF TermOK
<1>1. CASE PrintLine \/ ClearHistory \/ LeaveAlt \/ EnterAltUnseen
  BY <1>1 DEF PrintLine, ClearHistory, LeaveAlt, EnterAltUnseen, EnterScreen, CountOK
<1>2. CASE EnterAlt
  BY <1>2 DEF EnterAlt, EnterScreen, CountOK
<1>3. CASE FeedStart
  BY <1>0, <1>3 DEF FeedStart, CountOK
<1>4. CASE CutOnly \/ PromptStart \/ CommandStart \/ CommandEnd
  <2>1. Cut /\ feeding' = feeding
    BY <1>4 DEF CutOnly, PromptStart, CommandStart, CommandEnd, Cut, NextSegment
  <2>2. QED
    BY <1>0, <2>1 DEF Cut, NextSegment, CountOK
<1>5. CASE FeedEnd
  BY <1>0, <1>5 DEF FeedEnd, CountOK
<1>6. ASSUME NEW n \in Sizes, Resize(n) PROVE CountOK'
  BY <1>6 DEF Resize, ResizeScreen, CountOK
<1>7. QED
  BY <1>1, <1>2, <1>3, <1>4, <1>5, <1>6 DEF Next

LEMMA MarkTypes ==
    ASSUME Shape, Next PROVE MarkOK'
<1> USE DEF Shape, termVars, feedVars, countVars, markVars, cmdVars, clientVars, auxVars
<1>0. /\ ExecNow \in Command /\ ResolvedNow \in Seq(Command) /\ Idle \in Command
      /\ <<>> \in Seq(Command)
  BY NowShape, ZeroIsLine, EmptySeq DEF Idle, Command
<1>1. CASE PrintLine \/ ClearHistory \/ LeaveAlt \/ FeedStart
  BY <1>1 DEF PrintLine, ClearHistory, LeaveAlt, FeedStart, MarkOK
<1>2. CASE EnterAlt
  <2>1. Met(exec, TRUE) \in Command
    BY DEF MarkOK, Command, Met
  <2>2. exec' \in Command /\ resolved' \in Seq(Command) /\ ends' = ends
    BY <1>0, <1>2, <2>1 DEF EnterAlt, EnterScreen, MarkOK
  <2>3. QED
    BY <2>2 DEF MarkOK
<1>9. CASE EnterAltUnseen
  BY <1>9 DEF EnterAltUnseen, EnterScreen, MarkOK
<1>3. CASE CutOnly \/ PromptStart
  BY <1>0, <1>3 DEF CutOnly, PromptStart, Cut, MarkOK
<1>4. CASE CommandStart
  <2>1. /\ total' \in Nat
        /\ main.cur - 1 \in 1..Len(main.grid) \/ alt
        /\ main.grid \in Seq(Line) /\ main.cur \in Nat
    <3>1. total' \in Nat
      BY <1>4, CountedShape DEF CommandStart, Cut
    <3>2. alt \/ main.cur > 1
      BY <1>4 DEF CommandStart, Screen
    <3>3. QED
      BY <3>1, <3>2 DEF TermOK, GridOK
  <2>2. total' \in Nat
    BY <1>4, CountedShape DEF CommandStart, Cut
  <2>3. ~alt => main.grid[main.cur - 1] \in Line
    BY <2>1, ElementOfSeq
  <2>4. ~alt => [on |-> TRUE, abs |-> total' + main.cur - 1,
                 of |-> main.grid[main.cur - 1], met |-> FALSE] \in Command
    BY <2>1, <2>2, <2>3 DEF Command
  <2>5. exec' \in Command /\ resolved' = ResolvedNow /\ ends' = ends
    BY <1>0, <1>4, <2>4 DEF CommandStart, Cut
  <2>6. QED
    BY <1>0, <2>5 DEF MarkOK
<1>5. CASE CommandEnd
  <2>1. [ExecNow EXCEPT !.abs = @ - 1] \in Command
    BY <1>0 DEF Command
  <2>2. resolved' \in Seq(Command)
    <3> DEFINE e == [ExecNow EXCEPT !.abs = @ - 1]
    <3>1. resolved' \in {ResolvedNow, Append(ResolvedNow, e)} /\ e \in Command
      BY <1>5, <2>1 DEF CommandEnd
    <3> HIDE DEF e
    <3>2. QED
      BY <1>0, <3>1, AppendProperties
  <2>3. exec' \in Command /\ ends' = ends
    BY <1>0, <1>5 DEF CommandEnd, Cut
  <2>4. QED
    BY <2>2, <2>3 DEF MarkOK
<1>6. CASE FeedEnd
  BY <1>0, <1>6 DEF FeedEnd, MarkOK
<1>7. ASSUME NEW n \in Sizes, Resize(n) PROVE MarkOK'
  BY <1>0, <1>7 DEF Resize, ResizeScreen, MarkOK
<1>8. QED
  BY <1>1, <1>2, <1>3, <1>4, <1>5, <1>6, <1>7, <1>9 DEF Next

LEMMA RunTypes ==
    ASSUME Shape, Next PROVE RunOK'
<1> USE DEF Shape, termVars, feedVars, countVars, markVars, cmdVars, clientVars, auxVars
<1> DEFINE Run == [on : BOOLEAN, calm : BOOLEAN, of : Line]
<1>0. /\ running \in Run /\ due \in Seq(Line) /\ ended \in Nat
      /\ None \in Run /\ <<>> \in Seq(Line)
  BY ZeroIsLine, EmptySeq DEF RunOK, None
<1>1. [running EXCEPT !.calm = FALSE] \in Run
  BY <1>0
<1> SUFFICES running' \in Run /\ due' \in Seq(Line) /\ ended' \in Nat
  BY DEF RunOK
<1> HIDE DEF Run
<1>2. CASE PrintLine \/ LeaveAlt \/ CutOnly \/ FeedEnd
  BY <1>0, <1>2 DEF PrintLine, LeaveAlt, CutOnly, FeedEnd
<1>3. CASE ClearHistory \/ EnterAlt \/ EnterAltUnseen
  BY <1>0, <1>1, <1>3 DEF ClearHistory, EnterAlt, EnterAltUnseen, EnterScreen, Disturb
<1>4. CASE FeedStart
  BY <1>0, <1>4 DEF FeedStart
<1>5. CASE PromptStart
  BY <1>0, <1>5 DEF PromptStart
<1>6. CASE CommandStart
  <2>1. ~alt => main.cur - 1 \in 1..Len(main.grid) /\ main.grid \in Seq(Line)
    BY <1>6 DEF CommandStart, Screen, TermOK, GridOK
  <2>2. ~alt => main.grid[main.cur - 1] \in Line
    BY <2>1, ElementOfSeq
  <2>3. ~alt => [on |-> TRUE, calm |-> TRUE, of |-> main.grid[main.cur - 1]] \in Run
    BY <2>2 DEF Run
  <2>4. QED
    BY <1>0, <1>6, <2>3 DEF CommandStart
<1>7. CASE CommandEnd
  <2>1. running.of \in Line
    BY <1>0 DEF Run
  <2>2. Append(due, running.of) \in Seq(Line) /\ ended + 1 \in Nat
    BY <1>0, <2>1, AppendProperties
  <2>3. running' \in {running, None} /\ due' \in {due, Append(due, running.of)}
        /\ ended' \in {ended, ended + 1}
    BY <1>7 DEF CommandEnd
  <2>4. QED
    BY <1>0, <2>2, <2>3
<1>8. ASSUME NEW n \in Sizes, Resize(n)
      PROVE  running' \in Run /\ due' \in Seq(Line) /\ ended' \in Nat
  BY <1>0, <1>1, <1>8 DEF Resize, ResizeScreen, Disturb
<1>9. QED
  BY <1>2, <1>3, <1>4, <1>5, <1>6, <1>7, <1>8 DEF Next

LEMMA ClientStep ==
    ASSUME Shape, Next PROVE ClientOK'
<1> USE DEF Shape, termVars, feedVars, countVars, markVars, cmdVars, clientVars, auxVars
<1>1. ASSUME NEW n, NEW g, NEW scrolled \in Seq(Line), NEW clear, EncodeFrame(n, g, scrolled, clear)
      PROVE  ClientOK'
  <2>1. \/ history' = <<>> /\ base' = 0
        \/ history' = history \o scrolled /\ base' = base
        \/ history' = history /\ base' = Len(history)
    BY <1>1 DEF EncodeFrame, InitFrame, Patch
  <2>2. history \o scrolled \in Seq(Line) /\ Len(history \o scrolled) = Len(history) + Len(scrolled)
        /\ Len(scrolled) \in Nat /\ Len(history) \in Nat
    BY ConcatProperties DEF ClientOK
  <2>3. CASE history' = <<>> /\ base' = 0
    BY <2>3, EmptySeq DEF ClientOK
  <2>4. CASE history' = history \o scrolled /\ base' = base
    <3>1. history' \in Seq(Line) /\ Len(history') = Len(history) + Len(scrolled)
      BY <2>2, <2>4
    <3>2. QED
      BY <2>2, <2>4, <3>1 DEF ClientOK
  <2>5. CASE history' = history /\ base' = Len(history)
    BY <2>2, <2>5 DEF ClientOK
  <2>6. QED
    BY <2>1, <2>3, <2>4, <2>5
<1>2. CASE UNCHANGED <<history, base>>
  BY <1>2 DEF ClientOK
<1>3. CASE FeedEnd
  BY <1>1, <1>3, ScrolledShape DEF FeedEnd
<1>4. ASSUME NEW n \in Sizes, Resize(n) PROVE ClientOK'
  BY <1>1, <1>4, EmptySeq DEF Resize, ResizeScreen
<1>5. CASE PrintLine \/ ClearHistory \/ LeaveAlt \/ FeedStart \/ EnterAlt \/ EnterAltUnseen
  BY <1>2, <1>5 DEF PrintLine, ClearHistory, LeaveAlt, FeedStart, EnterAlt, EnterAltUnseen,
                    EnterScreen
<1>6. CASE CutOnly \/ PromptStart \/ CommandStart \/ CommandEnd
  BY <1>2, <1>6 DEF CutOnly, PromptStart, CommandStart, CommandEnd, Cut
<1>7. QED
  BY <1>3, <1>4, <1>5, <1>6 DEF Next

LEMMA ShapeInit == Init => Shape
<1> SUFFICES ASSUME Init PROVE Shape
  OBVIOUS
<1>1. rows \in Nat \ {0} /\ Blank(rows) \in Seq(Line) /\ Len(Blank(rows)) = rows
  BY EngineAssumption, BlankShape DEF Init
<1>2. TermOK
  <2>1. main.grid = Blank(rows) /\ main.cur = 1 /\ alts = main /\ 1 \in 1..rows
    BY <1>1 DEF Init
  <2>2. alt = FALSE /\ hist = <<>> /\ printed = 0
    BY DEF Init
  <2>3. GridOK(main) /\ GridOK(alts)
    BY <1>1, <2>1 DEF GridOK
  <2>4. hist \in Seq(Line) /\ Len(hist) = 0 /\ HistLimit \in Nat
    BY <2>2, EngineAssumption, EmptySeq
  <2>5. alt \in BOOLEAN
    BY <2>2, Zenon
  <2>6. printed \in Line /\ Len(hist) <= HistLimit
    BY <2>2, <2>4, ZeroIsLine
  <2>7. QED
    BY <1>1, <2>3, <2>4, <2>5, <2>6 DEF TermOK
<1>3. CountOK
  BY DEF Init, CountOK
<1>4. MarkOK /\ ClientOK
  BY ZeroIsLine, EmptySeq DEF Init, MarkOK, ClientOK, Idle, Command
<1>5. AuxOK
  BY EmptySeq DEF Init, AuxOK
<1>6. RunOK
  BY ZeroIsLine, EmptySeq DEF Init, RunOK, None
<1>7. QED
  BY <1>2, <1>3, <1>4, <1>5, <1>6 DEF Shape

LEMMA ShapeStep == Shape /\ [Next]_vars => Shape'
<1>1. Shape /\ Next => Shape'
  BY TermStep, CountStep, MarkTypes, RunTypes, ClientStep DEF Shape
<1>2. Shape /\ UNCHANGED vars => Shape'
  BY DEF Shape, TermOK, GridOK, CountOK, MarkOK, RunOK, ClientOK, AuxOK, vars, termVars, feedVars,
     countVars, markVars, cmdVars, clientVars, auxVars
<1>3. QED
  BY <1>1, <1>2
-----------------------------------------------------------------------------
(* Commands and the alternate screen *)

(* What is left of the marks at the end of a segment: nothing when the alternate   *)
(* screen is up then or was at the last cut point.                                 *)
LEMMA NowFacts ==
    ASSUME MarkOK, AltInv
    PROVE  /\ ~ExecNow.met
           /\ \A i \in DOMAIN ResolvedNow : ~ResolvedNow[i].met
           /\ alt \/ feedAlt => ~ExecNow.on /\ ResolvedNow = <<>>
           /\ ExecNow = IF Reset THEN Idle ELSE exec
<1>1. CASE Reset
  BY <1>1 DEF AltInv, ExecNow, ResolvedNow, Idle
<1>2. CASE ~Reset
  <2>1. alt => feedAlt
    BY <1>2 DEF Reset
  <2>2. Met(exec, alt) = [exec EXCEPT !.met = exec.met]
    BY <2>1 DEF AltInv, Met
  <2>3. [exec EXCEPT !.met = exec.met] = exec
    BY DEF MarkOK, Command
  <2>4. ExecNow = exec /\ ResolvedNow = resolved
    BY <1>2, <2>2, <2>3 DEF ExecNow, ResolvedNow
  <2>5. QED
    BY <1>2, <2>1, <2>4 DEF AltInv
<1>3. QED
  BY <1>1, <1>2

LEMMA AltStep == Shape /\ AltInv /\ [Next]_vars => AltInv'
<1> SUFFICES ASSUME Shape, AltInv, [Next]_vars PROVE AltInv'
  OBVIOUS
<1> USE DEF termVars, feedVars, countVars, markVars, cmdVars, clientVars, auxVars
<1>0. /\ MarkOK /\ alt \in BOOLEAN /\ feeding \in BOOLEAN
      /\ feedAlt \in BOOLEAN /\ segAlt \in BOOLEAN
  BY DEF Shape, TermOK, CountOK
<1>1. CASE UNCHANGED <<alt, feeding, segAlt, feedAlt, exec, resolved, ends>>
  BY <1>1 DEF AltInv, NoEndForSeenAlt
<1>2. CASE PrintLine \/ ClearHistory \/ UNCHANGED vars
  BY <1>1, <1>2 DEF PrintLine, ClearHistory, vars
<1>3. CASE LeaveAlt
  BY <1>0, <1>3 DEF LeaveAlt, AltInv, NoEndForSeenAlt
<1>4. CASE EnterAlt
  <2>1. /\ segAlt' = TRUE /\ feedAlt' = TRUE /\ feeding /\ feeding' = feeding /\ ends' = ends
        /\ exec' = IF feedAlt THEN Met(exec, TRUE) ELSE Idle
        /\ resolved' = IF feedAlt THEN resolved ELSE <<>>
    BY <1>4 DEF EnterAlt, EnterScreen
  <2>2. ~exec'.on /\ ~exec'.met
    <3>1. CASE feedAlt
      <4>1. exec' = [exec EXCEPT !.met = exec.met] /\ ~exec.on
        BY <2>1, <3>1 DEF AltInv, Met
      <4>2. exec' = exec
        BY <1>0, <4>1 DEF MarkOK, Command
      <4>3. QED
        BY <4>1, <4>2 DEF AltInv
    <3>2. CASE ~feedAlt
      BY <2>1, <3>2 DEF Idle
    <3>3. QED
      BY <3>1, <3>2
  <2>3. resolved' = <<>>
    BY <2>1 DEF AltInv
  <2>4. NoEndForSeenAlt'
    BY <2>1 DEF AltInv, NoEndForSeenAlt
  <2>5. \A i \in DOMAIN resolved' : ~resolved'[i].met
    BY <2>3
  <2>6. segAlt' = feedAlt' /\ feeding'
    BY <2>1
  <2>7. QED
    BY <2>2, <2>3, <2>4, <2>5, <2>6 DEF AltInv
<1>5. CASE EnterAltUnseen
  <2>1. feeding /\ UNCHANGED <<feeding, segAlt, feedAlt, exec, resolved, ends>>
    BY <1>5 DEF EnterAltUnseen, EnterScreen
  <2>2. QED
    BY <2>1 DEF AltInv, NoEndForSeenAlt
<1>6. CASE FeedStart
  <2>1. /\ feeding' = TRUE /\ segAlt' = alt /\ feedAlt' = alt /\ alt' = alt
        /\ UNCHANGED <<exec, resolved, ends>> /\ ~feeding
    BY <1>6 DEF FeedStart
  <2>2. QED
    BY <2>1 DEF AltInv, NoEndForSeenAlt
<1>7. ASSUME Cut, ~exec'.met, \A i \in DOMAIN resolved' : ~resolved'[i].met,
             alt => ~exec'.on /\ resolved' = <<>>
      PROVE  AltInv'
  <2>1. /\ feeding' = feeding /\ feeding /\ segAlt' = alt /\ feedAlt' = alt /\ alt' = alt
        /\ ends' = ends
    BY <1>7 DEF Cut, NextSegment
  <2>2. QED
    BY <1>0, <1>7, <2>1 DEF AltInv, NoEndForSeenAlt
<1>8. CASE CutOnly \/ PromptStart
  <2>1. Cut /\ exec' \in {ExecNow, Idle} /\ (alt => exec' = ExecNow) /\ resolved' = ResolvedNow
    BY <1>8 DEF CutOnly, PromptStart
  <2>2. QED
    BY <1>0, <1>7, <2>1, NowFacts DEF Idle
<1>9. CASE CommandStart
  <2>1. Cut /\ resolved' = ResolvedNow /\ (alt => exec' = ExecNow) /\ (~alt => ~exec'.met)
    BY <1>9 DEF CommandStart
  <2>2. QED
    BY <1>0, <1>7, <2>1, NowFacts
<1>10. CASE CommandEnd
  <2>1. Cut /\ exec' = (IF alt THEN ExecNow ELSE Idle)
    BY <1>10 DEF CommandEnd
  <2>2. CASE alt \/ ~ExecNow.on
    <3>1. resolved' = ResolvedNow
      BY <1>10, <2>2 DEF CommandEnd
    <3>2. QED
      BY <1>0, <1>7, <2>1, <3>1, NowFacts DEF Idle
  <2>3. CASE ~alt /\ ExecNow.on
    <3> DEFINE e == [ExecNow EXCEPT !.abs = @ - 1]
    <3>1. resolved' = Append(ResolvedNow, e)
      BY <1>10, <2>3 DEF CommandEnd
    <3>2. ExecNow \in Command /\ ResolvedNow \in Seq(Command)
      BY <1>0, NowShape
    <3>3. e \in Command /\ ~e.met
      BY <1>0, <3>2, NowFacts DEF Command
    <3> HIDE DEF e
    <3>4. \A i \in DOMAIN resolved' : ~resolved'[i].met
      BY <1>0, <3>1, <3>2, <3>3, NowFacts, AppendProperties
    <3>5. QED
      BY <1>7, <2>1, <2>3, <3>4 DEF Idle
  <2>4. QED
    BY <2>2, <2>3
<1>11. CASE FeedEnd
  <2>1. /\ feeding' = FALSE /\ segAlt' = FALSE /\ feedAlt' = FALSE /\ alt' = alt
        /\ exec' = ExecNow /\ resolved' = <<>> /\ ends' = ResolvedNow
    BY <1>11 DEF FeedEnd
  <2>2. alt' => ~exec'.on
    BY <1>0, <2>1, NowFacts
  <2>3. ~exec'.met /\ NoEndForSeenAlt'
    BY <1>0, <2>1, NowFacts DEF NoEndForSeenAlt
  <2>4. segAlt' = feedAlt' /\ ~feedAlt' /\ ~feeding'
    BY <2>1
  <2>5. QED
    BY <2>1, <2>2, <2>3, <2>4 DEF AltInv
<1>12. ASSUME NEW n \in Sizes, Resize(n) PROVE AltInv'
  <2>1. /\ UNCHANGED <<alt, feeding, segAlt, feedAlt>> /\ exec' = Idle /\ resolved' = <<>>
        /\ ends' = <<>>
    BY <1>12 DEF Resize, ResizeScreen
  <2>2. QED
    BY <2>1 DEF AltInv, NoEndForSeenAlt, Idle
<1>13. QED
  BY <1>2, <1>3, <1>4, <1>5, <1>6, <1>8, <1>9, <1>10, <1>11, <1>12 DEF Next

LEMMA AltInit == Init => AltInv
<1> SUFFICES ASSUME Init PROVE AltInv
  OBVIOUS
<1>1. ~alt /\ ~feeding /\ ~feedAlt /\ segAlt = feedAlt /\ resolved = <<>> /\ ends = <<>>
  BY DEF Init
<1>2. ~exec.met
  BY DEF Init, Idle
<1>3. QED
  BY <1>1, <1>2 DEF AltInv, NoEndForSeenAlt

(* No CommandEnd is sent for a command during which the alternate screen was up at a *)
(* cut point or at the end of a chunk, whichever sequence brought it up: reset()     *)
(* forgets the marks there, and where the screen is up at a second one nothing is    *)
(* left to forget (crates/terminal-engine/src/engine.rs, feed).                      *)
THEOREM NoEndSeenAlt == Spec => []NoEndForSeenAlt
<1>1. AltInv => NoEndForSeenAlt
  BY DEF AltInv
<1>2. QED
  BY <1>1, ShapeInit, ShapeStep, AltInit, AltStep, PTL DEF Spec

-----------------------------------------------------------------------------
(* The screen *)

(* A patch against the frame before, or an Init: either way the client ends up with *)
(* the frame the encoder was given.                                                 *)
LEMMA FrameShown ==
    ASSUME NEW n, NEW g \in Seq(Line), NEW scrolled, NEW clear,
           view = last, last = [rows |-> last.rows, grid |-> last.grid, alt |-> last.alt],
           EncodeFrame(n, g, scrolled, clear)
    PROVE  /\ view' = [rows |-> n, grid |-> g, alt |-> alt]
           /\ last' = [rows |-> n, grid |-> g, alt |-> alt]
<1>1. last' = [rows |-> n, grid |-> g, alt |-> alt]
  BY DEF EncodeFrame
<1>2. CASE last.rows = n
  <2> DEFINE h == [i \in DOMAIN g |-> IF i \in Dirty(g) THEN g[i] ELSE view.grid[i]]
             m == IF last.alt # alt THEN alt ELSE view.alt
  <2>1. view' = [view EXCEPT !.grid = h, !.alt = m]
    BY <1>2 DEF EncodeFrame, Patch
  <2>2. h = [i \in DOMAIN g |-> g[i]]
    BY DEF Dirty
  <2>3. h = g
    BY <2>2
  <2>4. m = alt
    OBVIOUS
  <2> HIDE DEF h, m
  <2>5. view = [rows |-> n, grid |-> view.grid, alt |-> view.alt]
    BY <1>2
  <2>6. view' \in [rows : {n}, grid : {h}, alt : {m}]
    <3>1. PICK a, b : view = [rows |-> n, grid |-> a, alt |-> b]
      BY <2>5
    <3>2. view \in [rows : {n}, grid : {a}, alt : {b}]
      BY <3>1
    <3>3. QED
      BY <2>1, <3>2
  <2>7. view' = [rows |-> n, grid |-> h, alt |-> m]
    BY <2>6
  <2>8. QED
    BY <1>1, <2>3, <2>4, <2>7
<1>3. CASE last.rows # n
  BY <1>1, <1>3 DEF EncodeFrame, InitFrame
<1>4. QED
  BY <1>2, <1>3

LEMMA ScreenStep == Shape /\ ScreenInv /\ [Next]_vars => ScreenInv'
<1> SUFFICES ASSUME Shape, ScreenInv, [Next]_vars PROVE ScreenInv'
  OBVIOUS
<1> USE DEF termVars, feedVars, countVars, markVars, cmdVars, clientVars, auxVars
<1>1. CASE UNCHANGED vars
  BY <1>1 DEF ScreenInv, ClientSeesScreen, Screen, vars
<1>2. ASSUME feeding', UNCHANGED <<rows, last, view>> PROVE ScreenInv'
  BY <1>2 DEF ScreenInv, ClientSeesScreen
<1>3. CASE PrintLine \/ ClearHistory \/ LeaveAlt \/ FeedStart
  BY <1>2, <1>3 DEF PrintLine, ClearHistory, LeaveAlt, FeedStart
<1>9. CASE EnterAlt \/ EnterAltUnseen
  <2>1. EnterScreen /\ feeding' = feeding
    BY <1>9 DEF EnterAlt, EnterAltUnseen
  <2>2. feeding /\ UNCHANGED <<rows, last, view>>
    BY <2>1 DEF EnterScreen
  <2>3. QED
    BY <1>2, <2>1, <2>2
<1>4. CASE CutOnly \/ PromptStart \/ CommandStart \/ CommandEnd
  BY <1>2, <1>4 DEF CutOnly, PromptStart, CommandStart, CommandEnd, Cut, NextSegment
<1>5. view = last /\ last = [rows |-> last.rows, grid |-> last.grid, alt |-> last.alt]
  BY DEF ScreenInv
<1>6. CASE FeedEnd
  <2>1. Screen.grid \in Seq(Line)
    BY DEF Shape, TermOK, GridOK, Screen
  <2>2. /\ view' = [rows |-> rows, grid |-> Screen.grid, alt |-> alt]
        /\ last' = [rows |-> rows, grid |-> Screen.grid, alt |-> alt]
    BY <1>5, <1>6, <2>1, FrameShown DEF FeedEnd
  <2>3. rows' = rows /\ Screen' = Screen /\ alt' = alt
    BY <1>6 DEF FeedEnd, Screen
  <2>4. QED
    BY <2>2, <2>3 DEF ScreenInv, ClientSeesScreen
<1>7. ASSUME NEW n \in Sizes, Resize(n) PROVE ScreenInv'
  <2> DEFINE g == (IF alt THEN alts' ELSE main').grid
  <2>1. TermOK'
    BY <1>7, TermResize DEF Shape, Resize
  <2>2. g \in Seq(Line)
    BY <2>1 DEF TermOK, GridOK
  <2>3. EncodeFrame(n, g, <<>>, FALSE) /\ rows' = n /\ alt' = alt
    BY <1>7 DEF Resize, ResizeScreen
  <2> HIDE DEF g
  <2>4. /\ view' = [rows |-> n, grid |-> g, alt |-> alt]
        /\ last' = [rows |-> n, grid |-> g, alt |-> alt]
    BY <1>5, <2>2, <2>3, FrameShown
  <2>5. g = Screen'.grid
    BY <2>3 DEF g, Screen
  <2>6. QED
    BY <2>3, <2>4, <2>5 DEF ScreenInv, ClientSeesScreen
<1>8. QED
  BY <1>1, <1>3, <1>4, <1>6, <1>7, <1>9 DEF Next

LEMMA ScreenInit == Init => ScreenInv
<1> SUFFICES ASSUME Init PROVE ScreenInv
  OBVIOUS
<1>1. view = last /\ last = [rows |-> rows, grid |-> Blank(rows), alt |-> FALSE]
  BY DEF Init
<1>2. ~alt /\ alt = FALSE /\ Screen.grid = Blank(rows)
  BY DEF Init, Screen
<1>3. QED
  BY <1>1, <1>2 DEF ScreenInv, ClientSeesScreen

(* Between two chunks the client's grid and modes are the terminal's, whatever      *)
(* frames were patches and whatever the session was resized to                      *)
(* (crates/terminal-protocol/src/encoder.rs).                                       *)
THEOREM ScreenShown == Spec => []ClientSeesScreen
<1>1. ScreenInv => ClientSeesScreen
  BY DEF ScreenInv
<1>2. QED
  BY <1>1, ShapeInit, ShapeStep, ScreenInit, ScreenStep, PTL DEF Spec
-----------------------------------------------------------------------------
(* The segment in progress *)

(* A chunk that did at most one thing to the history is one the accounting covers.  *)
LEMMA CountedChunk ==
    ASSUME AuxOK, ~Uncounted PROVE Simple
<1>1. IsFiniteSet(Done)
  <2>1. IsFiniteSet({"scroll"}) /\ Done = {"scroll"} \cup {"limit"} \cup {"clear"} \cup {"switch"}
    BY FS_Singleton DEF Done
  <2>2. IsFiniteSet({"scroll"} \cup {"limit"})
    BY <2>1, FS_AddElement
  <2>3. IsFiniteSet({"scroll"} \cup {"limit"} \cup {"clear"})
    BY <2>2, FS_AddElement
  <2>4. QED
    BY <2>1, <2>3, FS_AddElement
<1>2. IsFiniteSet(seen)
  BY <1>1, FS_Subset DEF AuxOK
<1>3. ASSUME NEW a \in seen, NEW b \in seen, a # b PROVE FALSE
  <2>1. Cardinality({a}) = 1 /\ IsFiniteSet({a})
    BY FS_Singleton
  <2>2. Cardinality({a} \cup {b}) = 2
    BY <1>3, <2>1, FS_AddElement
  <2>3. {a} \cup {b} \in SUBSET seen
    OBVIOUS
  <2>4. Cardinality({a} \cup {b}) <= Cardinality(seen) /\ Cardinality(seen) \in Nat
    BY <1>2, <2>3, FS_Subset, FS_CardinalityType
  <2>5. QED
    BY <2>2, <2>4 DEF Uncounted
<1>4. CASE seen = {}
  BY <1>4 DEF Simple
<1>5. CASE seen # {}
  <2>1. PICK a : a \in seen
    BY <1>5
  <2>2. seen = {a} /\ a \in Done
    BY <1>3, <2>1 DEF AuxOK
  <2>3. a # "limit"
    BY <2>2 DEF AuxOK
  <2>4. QED
    BY <2>2, <2>3 DEF Simple, Done
<1>6. QED
  BY <1>4, <1>5

LEMMA OneThing ==
    ASSUME NEW e \in Done, seen' = seen \cup {e}, Simple'
    PROVE  seen' = {e} /\ seen \in {{}, {e}} /\ Simple
<1>1. seen' = {e}
  BY DEF Simple
<1>2. seen \in {{}, {e}}
  BY <1>1
<1>3. QED
  BY <1>1, <1>2 DEF Simple

(* A line scrolled off, in such a chunk, is the top one; the limit of the history   *)
(* has not been reached.                                                            *)
LEMMA ScrolledOff ==
    ASSUME Shape, PrintLine, ~alt, Full(main), Simple'
    PROVE  /\ seen' = {"scroll"} /\ seen \in {{}, {"scroll"}} /\ Simple
           /\ Top(main, printed') \in Line
           /\ hist' = Append(hist, Top(main, printed'))
           /\ gone' = Append(gone, Top(main, printed'))
           /\ Len(hist') = Len(hist) + 1 /\ Len(gone') = Len(gone) + 1
<1> DEFINE top == Head([main.grid EXCEPT ![main.cur] = printed'])
<1>1. /\ hist' = Newest(Append(hist, top), HistLimit) /\ gone' = Append(gone, top)
      /\ seen' = seen \cup {"scroll"} \cup (IF Len(hist) = HistLimit THEN {"limit"} ELSE {})
  BY DEF PrintLine
<1>2. printed' \in Line
  BY EngineAssumption DEF PrintLine, Shape, TermOK, Line
<1>3. GridOK(main) /\ rows \in Nat \ {0}
  BY DEF Shape, TermOK
<1>4. top = Top(main, printed')
  BY <1>2, <1>3, PrintedShape
<1>5. Top(main, printed') \in Line
  BY <1>2, <1>3, TopIsLine
<1> HIDE DEF top
<1>6. "limit" \notin seen' /\ "scroll" \in seen'
  BY <1>1 DEF Simple
<1>7. Len(hist) # HistLimit /\ seen' = seen \cup {"scroll"}
  BY <1>1, <1>6
<1>8. seen' = {"scroll"} /\ seen \in {{}, {"scroll"}} /\ Simple
  BY <1>7, OneThing DEF Done
<1> DEFINE longer == Append(hist, top)
<1>9. /\ longer \in Seq(Line) /\ Len(longer) = Len(hist) + 1 /\ Len(longer) <= HistLimit
      /\ HistLimit \in Nat
  BY <1>4, <1>5, <1>7, EngineAssumption, AppendProperties DEF Shape, TermOK
<1>10. hist' = Newest(longer, HistLimit)
  BY <1>1
<1>11. Len(gone') = Len(gone) + 1
  BY <1>1, <1>4, <1>5, AppendProperties DEF Shape, AuxOK
<1>12. hist' = longer
  <2> HIDE DEF longer
  <2>1. QED
    BY <1>9, <1>10, NewestShape
<1>13. QED
  BY <1>1, <1>4, <1>5, <1>8, <1>9, <1>11, <1>12

(* What the counts come to if the segment ends here.                                *)
CountedInv ==
    feeding /\ Simple =>
        /\ seen # {"clear"} => ~Rebased /\ ~Counted.cleared
        /\ seen = {"scroll"} => /\ ~alt
                                /\ Counted.total = total + (Len(hist) - segHist)
                                /\ Counted.pending = pending + (Len(hist) - segHist)
        /\ seen # {"scroll"} => Counted.pending = 0
        /\ seen \in {{}, {"switch"}} => Counted.total = total
        /\ seen = {"clear"} => /\ Counted.total = IF Counted.cleared THEN 0 ELSE total
                               /\ Rebased <=> segHist > 0
                               /\ Counted.cleared <=> cleared \/ Rebased

LEMMA CountedHolds == Shape /\ ChunkInv => CountedInv
<1> SUFFICES ASSUME Shape, ChunkInv, feeding, Simple
             PROVE  CountedInv
  BY DEF CountedInv
<1>0. /\ TermOK /\ CountOK /\ HistorySize = (IF alt THEN 0 ELSE Len(hist)) /\ Len(hist) \in Nat
      /\ segHist \in Nat /\ total \in Nat /\ pending \in Nat
  BY DEF Shape, HistorySize, TermOK, CountOK
<1>1. CASE seen \in {{}, {"switch"}}
  <2>1. /\ ~segAlt => segHist = Len(hist)
        /\ ~cleared /\ pending = 0
    BY <1>1 DEF ChunkInv
  <2>2. ~Rebased
    BY <1>0, <2>1 DEF Rebased, Skipped
  <2>3. Counted.total = total /\ Counted.pending = pending
    BY <1>0, <2>1, <2>2, CountedShape DEF Skipped
  <2>4. QED
    BY <1>0, <1>1, <2>1, <2>2, <2>3, CountedShape DEF CountedInv
<1>2. CASE seen = {"scroll"}
  <2>1. ~alt /\ ~segAlt /\ segHist <= Len(hist) /\ ~cleared
    BY <1>2 DEF ChunkInv
  <2>2. ~Rebased /\ ~Skipped
    BY <1>0, <2>1 DEF Rebased, Skipped
  <2>3. QED
    BY <1>0, <1>2, <2>1, <2>2, CountedShape DEF CountedInv
<1>3. CASE seen = {"clear"}
  <2>1. /\ ~alt /\ ~segAlt /\ hist = <<>> /\ pending = 0
        /\ cleared => total = 0 /\ segHist = 0
    BY <1>3 DEF ChunkInv
  <2>2. HistorySize = 0 /\ ~Skipped
    BY <1>0, <2>1 DEF Skipped
  <2>3. Rebased <=> segHist > 0
    BY <1>0, <2>2 DEF Rebased
  <2>4. CASE Rebased
    BY <1>0, <1>3, <2>3, <2>4, CountedShape DEF CountedInv
  <2>5. CASE ~Rebased
    <3>1. segHist = 0 /\ Counted.total = total /\ Counted.pending = 0 /\ Counted.cleared = cleared
      BY <1>0, <2>1, <2>2, <2>3, <2>5, CountedShape
    <3>2. QED
      BY <1>3, <2>1, <2>3, <2>5, <3>1 DEF CountedInv
  <2>6. QED
    BY <2>4, <2>5
<1>4. QED
  BY <1>1, <1>2, <1>3 DEF Simple

LEMMA ChunkStep == Shape /\ ChunkInv /\ [Next]_vars => ChunkInv'
<1> SUFFICES ASSUME Shape, ChunkInv, [Next]_vars, feeding', Simple'
             PROVE  ChunkInv'
  BY DEF ChunkInv
<1> USE DEF termVars, feedVars, countVars, markVars, cmdVars, clientVars, auxVars
<1>0. Len(hist) \in Nat /\ segHist \in Nat /\ alt \in BOOLEAN
  BY DEF Shape, TermOK, CountOK
<1>1. CASE UNCHANGED <<feeding, seen, segAlt, alt, segHist, hist, cleared, pending, gone, total>>
  BY <1>1 DEF ChunkInv, Simple
<1>2. CASE UNCHANGED vars
  BY <1>1, <1>2 DEF vars
<1>3. CASE PrintLine
  <2>1. CASE alt \/ ~Full(main)
    BY <1>1, <1>3, <2>1 DEF PrintLine
  <2>2. CASE ~alt /\ Full(main)
    <3>1. /\ seen' = {"scroll"} /\ seen \in {{}, {"scroll"}} /\ Simple
          /\ Len(hist') = Len(hist) + 1
      BY <1>3, <2>2, ScrolledOff
    <3>2. /\ feeding /\ alt' = alt /\ UNCHANGED <<segHist, segAlt, cleared, pending>>
      BY <1>3 DEF PrintLine
    <3>3. segAlt = alt /\ ~cleared /\ segHist <= Len(hist)
      BY <1>0, <2>2, <3>1, <3>2 DEF ChunkInv
    <3>4. /\ seen' = {"scroll"} /\ seen' # {"clear"} /\ seen' \notin {{}, {"switch"}}
          /\ segAlt' = alt' /\ ~alt' /\ ~cleared'
      BY <2>2, <3>1, <3>2, <3>3
    <3>5. segHist' <= Len(hist')
      BY <1>0, <3>1, <3>2, <3>3
    <3>6. QED
      BY <3>4, <3>5 DEF ChunkInv
  <2>3. QED
    BY <2>1, <2>2
<1>4. CASE ClearHistory
  <2>1. /\ feeding /\ ~alt /\ alt' = alt /\ UNCHANGED <<segHist, segAlt, cleared, pending, total>>
        /\ hist' = <<>> /\ gone' = <<>> /\ seen' = seen \cup {"clear"}
    BY <1>4 DEF ClearHistory
  <2>2. seen' = {"clear"} /\ seen \in {{}, {"clear"}} /\ Simple
    BY <2>1, OneThing DEF Done
  <2>3. /\ segAlt = alt /\ pending = 0 /\ (cleared => total = 0 /\ segHist = 0)
    BY <2>1, <2>2 DEF ChunkInv
  <2>4. QED
    BY <2>1, <2>2, <2>3 DEF ChunkInv
<1>5. CASE LeaveAlt \/ EnterAltUnseen
  <2>1. /\ feeding /\ UNCHANGED <<segAlt, segHist, hist, cleared, pending>>
        /\ seen' = seen \cup {"switch"}
    BY <1>5 DEF LeaveAlt, EnterAltUnseen, EnterScreen
  <2>2. seen' = {"switch"} /\ seen \in {{}, {"switch"}} /\ Simple
    BY <2>1, OneThing DEF Done
  <2>3. ~cleared /\ pending = 0 /\ (~segAlt => segHist = Len(hist))
    BY <1>0, <2>1, <2>2 DEF ChunkInv
  <2>4. QED
    BY <2>1, <2>2, <2>3 DEF ChunkInv
<1>6. CASE EnterAlt
  <2>1. /\ feeding /\ segAlt' = TRUE /\ UNCHANGED <<cleared, pending>>
        /\ seen' = seen \cup {"switch"}
    BY <1>6 DEF EnterAlt, EnterScreen
  <2>2. seen' = {"switch"} /\ seen \in {{}, {"switch"}} /\ Simple
    BY <2>1, OneThing DEF Done
  <2>3. ~cleared /\ pending = 0
    BY <2>1, <2>2 DEF ChunkInv
  <2>4. QED
    BY <2>1, <2>2, <2>3 DEF ChunkInv
<1>7. CASE FeedStart
  <2>1. /\ seen' = {} /\ segAlt' = alt /\ alt' = alt /\ hist' = hist /\ cleared' = FALSE
        /\ pending' = 0 /\ segHist' = HistorySize
    BY <1>7 DEF FeedStart
  <2>2. ~alt => segHist' = Len(hist)
    BY <2>1 DEF HistorySize
  <2>3. QED
    BY <2>1, <2>2 DEF ChunkInv
<1>8. CASE CutOnly \/ PromptStart \/ CommandStart \/ CommandEnd
  <2>1. Cut /\ feeding
    BY <1>8 DEF CutOnly, PromptStart, CommandStart, CommandEnd, Cut
  <2>2. /\ segHist' = HistorySize /\ segAlt' = alt /\ UNCHANGED <<alt, hist, gone, seen>>
        /\ total' = Counted.total /\ pending' = Counted.pending /\ cleared' = Counted.cleared
    BY <2>1 DEF Cut, NextSegment
  <2>3. Simple /\ CountedInv
    BY <2>2, CountedHolds DEF Simple
  <2>4. ~alt => segHist' = Len(hist)
    BY <2>2 DEF HistorySize
  <2>5. CASE seen = {"clear"}
    <3>1. ~alt /\ hist = <<>> /\ gone = <<>> /\ Len(hist) = 0
      BY <2>1, <2>3, <2>5 DEF ChunkInv
    <3>2. Counted.pending = 0 /\ (Counted.cleared => Counted.total = 0)
      BY <2>1, <2>3, <2>5 DEF CountedInv
    <3>3. QED
      BY <2>2, <2>4, <2>5, <3>1, <3>2 DEF ChunkInv
  <2>6. CASE seen = {"scroll"}
    <3>1. ~alt /\ ~Counted.cleared
      BY <2>1, <2>3, <2>6 DEF CountedInv
    <3>2. QED
      BY <1>0, <2>2, <2>4, <2>6, <3>1 DEF ChunkInv
  <2>7. CASE seen \in {{}, {"switch"}}
    <3>1. ~Counted.cleared /\ Counted.pending = 0
      BY <2>1, <2>3, <2>7 DEF CountedInv
    <3>2. QED
      BY <2>2, <2>4, <2>7, <3>1 DEF ChunkInv
  <2>8. QED
    BY <2>3, <2>5, <2>6, <2>7 DEF Simple
<1>9. CASE FeedEnd
  BY <1>9 DEF FeedEnd
<1>10. ASSUME NEW n \in Sizes, Resize(n) PROVE FALSE
  BY <1>10 DEF Resize, ResizeScreen
<1>11. QED
  BY <1>2, <1>3, <1>4, <1>5, <1>6, <1>7, <1>8, <1>9, <1>10 DEF Next

LEMMA ChunkInit == Init => ChunkInv
<1>1. Init => ~feeding
  BY DEF Init
<1>2. QED
  BY <1>1 DEF ChunkInv
-----------------------------------------------------------------------------
(* Where the lines are that left the screen *)

(* One more line at the end of both.                                                *)
LEMMA SuffixGrows ==
    ASSUME NEW g \in Seq(Line), NEW h \in Seq(Line), EndsWith(h, g), NEW e \in Line
    PROVE  EndsWith(Append(h, e), Append(g, e))
<1> DEFINE m == Len(g)
           n == Len(h)
           gg == Append(g, e)
           hh == Append(h, e)
<1>1. /\ Len(gg) = m + 1 /\ Len(hh) = n + 1 /\ m \in Nat /\ n \in Nat /\ m <= n
      /\ \A i \in 1..m : gg[i] = g[i]
      /\ \A i \in 1..n : hh[i] = h[i]
      /\ gg[m + 1] = e /\ hh[n + 1] = e
      /\ \A i \in 1..m : g[i] = h[n - m + i]
  BY AppendProperties DEF EndsWith
<1> HIDE DEF m, n, gg, hh
<1>2. ASSUME NEW i \in 1..(m + 1) PROVE gg[i] = hh[(n + 1) - (m + 1) + i]
  <2>1. (n + 1) - (m + 1) + i = n - m + i /\ (i \in 1..m \/ i = m + 1)
    BY <1>1
  <2>2. CASE i \in 1..m
    <3>1. n - m + i \in 1..n
      BY <1>1, <2>2
    <3>2. gg[i] = h[n - m + i]
      BY <1>1, <2>2
    <3>3. QED
      BY <1>1, <2>1, <3>1, <3>2
  <2>3. CASE i = m + 1
    <3>1. n - m + i = n + 1
      BY <1>1, <2>3
    <3>2. QED
      BY <1>1, <2>1, <2>3, <3>1
  <2>4. QED
    BY <2>1, <2>2, <2>3
<1>3. EndsWith(hh, gg)
  <2>1. m + 1 <= n + 1
    BY <1>1
  <2>2. QED
    BY <1>1, <1>2, <2>1 DEF EndsWith
<1>4. QED
  BY <1>3 DEF gg, hh

LEMMA PrefixGrows ==
    ASSUME NEW g \in Seq(Line), NEW e \in Line, NEW c \in Seq(Line), NEW b \in 0..Len(c),
           Len(c) - b <= Len(g), BeginsWith(g, c, b)
    PROVE  BeginsWith(Append(g, e), c, b)
<1>1. \A i \in 1..Len(g) : Append(g, e)[i] = g[i]
  BY AppendProperties
<1>2. Len(g) \in Nat /\ Len(c) \in Nat
  OBVIOUS
<1>3. \A i \in 1..(Len(c) - b) : i \in 1..Len(g)
  BY <1>2
<1>4. QED
  BY <1>1, <1>3 DEF BeginsWith

(* The last lines of the history are those that the client has not got.             *)
IsRest(r, h) == \A i \in 1..Len(r) : r[i] = h[Len(h) + 1 - (Len(r) + 1 - i)]

Owed(g, h, c, b, r) ==
    /\ g \in Seq(Line) /\ h \in Seq(Line) /\ c \in Seq(Line) /\ b \in 0..Len(c)
    /\ r \in Seq(Line) /\ EndsWith(h, g) /\ BeginsWith(g, c, b) /\ IsRest(r, h)
    /\ Len(g) = Len(c) - b + Len(r)

LEMMA RestSent ==
    ASSUME NEW g, NEW h, NEW c, NEW b, NEW r, Owed(g, h, c, b, r)
    PROVE  BeginsWith(g, c \o r, b) /\ Len(c \o r) - b = Len(g)
<1> USE DEF Owed
<1> DEFINE m == Len(g)
           n == Len(h)
           k == Len(c)
           p == Len(r)
           cc == c \o r
<1>1. /\ m \in Nat /\ n \in Nat /\ k \in Nat /\ p \in Nat /\ b \in 0..k /\ m = k - b + p /\ m <= n
      /\ Len(cc) = k + p
      /\ \A i \in 1..(k + p) : cc[i] = IF i <= k THEN c[i] ELSE r[i - k]
      /\ \A i \in 1..m : g[i] = h[n - m + i]
      /\ \A i \in 1..(k - b) : c[b + i] = g[i]
      /\ \A i \in 1..p : r[i] = h[n + 1 - (p + 1 - i)]
  <2>1. /\ Len(cc) = k + p
        /\ \A i \in 1..(k + p) : cc[i] = IF i <= k THEN c[i] ELSE r[i - k]
    BY ConcatProperties
  <2>2. /\ m <= n /\ \A i \in 1..m : g[i] = h[n - m + i]
        /\ \A i \in 1..(k - b) : c[b + i] = g[i]
    BY DEF EndsWith, BeginsWith
  <2>3. m \in Nat /\ n \in Nat /\ k \in Nat /\ p \in Nat /\ b \in 0..k /\ m = k - b + p
    OBVIOUS
  <2>4. \A i \in 1..p : r[i] = h[n + 1 - (p + 1 - i)]
    BY DEF IsRest
  <2>5. QED
    BY <2>1, <2>2, <2>3, <2>4
<1> HIDE DEF m, n, k, p, cc
<1>2. Len(cc) - b = m
  BY <1>1
<1>3. ASSUME NEW i \in 1..m PROVE cc[b + i] = g[i]
  <2>1. b + i \in 1..(k + p) /\ (i \in 1..(k - b) \/ i > k - b)
    BY <1>1
  <2>2. CASE i \in 1..(k - b)
    <3>1. b + i <= k
      BY <1>1, <2>2
    <3>2. QED
      BY <1>1, <2>1, <2>2, <3>1
  <2>3. CASE i > k - b
    <3>1. /\ ~(b + i <= k) /\ (b + i) - k \in 1..p
          /\ n + 1 - (p + 1 - ((b + i) - k)) = n - m + i
      BY <1>1, <2>3
    <3>2. cc[b + i] = r[(b + i) - k]
      BY <1>1, <2>1, <3>1
    <3>3. r[(b + i) - k] = h[n - m + i]
      BY <1>1, <3>1
    <3>4. QED
      BY <1>1, <3>2, <3>3
  <2>4. QED
    BY <2>1, <2>2, <2>3
<1>4. QED
  BY <1>2, <1>3 DEF BeginsWith, cc, m

(* The rows sent with a frame are the lines that have not been sent yet.            *)
LEMMA FrameBrings ==
    ASSUME Shape, Prefix, Suffix, Len(gone) = Sent + Counted.pending, ~Counted.cleared,
           Counted.pending > 0 => ~alt,
           history' = history \o ScrolledRows, base' = base, gone' = gone
    PROVE  Sent' = Len(gone) /\ Prefix'
<1> DEFINE p == Counted.pending
           r == ScrolledRows
<1>0. /\ p \in Nat /\ history \in Seq(Line) /\ base \in 0..Len(history)
      /\ gone \in Seq(Line) /\ hist \in Seq(Line) /\ Len(gone) <= Len(hist)
      /\ Len(gone) \in Nat /\ Len(hist) \in Nat /\ Len(history) \in Nat
  BY CountedShape DEF Shape, ClientOK, TermOK, AuxOK, Suffix, EndsWith
<1>1. /\ r \in Seq(Line) /\ Len(r) = p
      /\ \A i \in 1..p : r[i] = GridRow(p + 1 - i)
  BY ScrolledShape DEF Shape
<1>2. Len(gone) = Len(history) - base + p /\ (p > 0 => ~alt)
  BY DEF Sent
<1>3. history' = history \o r
  OBVIOUS
<1> HIDE DEF p, r
<1>4. \A i \in 1..p : r[i] = hist[Len(hist) + 1 - (p + 1 - i)]
  <2>1. ASSUME NEW i \in 1..p PROVE GridRow(p + 1 - i) = hist[Len(hist) + 1 - (p + 1 - i)]
    <3>1. ~alt /\ p + 1 - i <= Len(hist)
      BY <1>0, <1>2
    <3>2. QED
      BY <3>1 DEF GridRow
  <2>2. QED
    BY <1>1, <2>1
<1>5. BeginsWith(gone, history \o r, base) /\ Len(history \o r) - base = Len(gone)
  <2>1. EndsWith(hist, gone) /\ BeginsWith(gone, history, base)
    BY DEF Prefix, Suffix
  <2>2. /\ gone \in Seq(Line) /\ hist \in Seq(Line) /\ history \in Seq(Line)
        /\ base \in 0..Len(history) /\ p \in Nat /\ Len(gone) = Len(history) - base + p
        /\ r \in Seq(Line) /\ Len(r) = p /\ Len(gone) = Len(history) - base + Len(r)
    BY <1>0, <1>1, <1>2
  <2>3. IsRest(r, hist)
    BY <1>4, <2>2 DEF IsRest
  <2>4. Owed(gone, hist, history, base, r)
    BY <2>1, <2>2, <2>3 DEF Owed
  <2>5. QED
    BY <2>4, RestSent
<1>6. QED
  BY <1>3, <1>5 DEF Prefix, Sent

LEMMA NothingGone ==
    ASSUME NEW h \in Seq(Line), NEW c, NEW b, Len(c) - b = 0
    PROVE  BeginsWith(<<>>, c, b) /\ EndsWith(h, <<>>) /\ Len(<<>>) = 0
<1>1. Len(<<>>) = 0 /\ Len(h) \in Nat
  OBVIOUS
<1>2. 1..Len(<<>>) = {} /\ 1..(Len(c) - b) = {}
  BY <1>1
<1>3. QED
  BY <1>1, <1>2 DEF BeginsWith, EndsWith

LEMMA AccountPrint ==
    ASSUME Shape, AltInv, ChunkInv, CountedInv, CountedInv', AccountInv, PrintLine
    PROVE  AccountInv'
<1> USE DEF termVars, feedVars, countVars, markVars, cmdVars, clientVars, auxVars
<1>1. feeding /\ feeding' /\ lossy' = lossy /\ UNCHANGED <<history, base, total, pending, segHist, alt>>
  BY DEF PrintLine
<1>2. CASE alt \/ ~Full(main)
  <2>1. UNCHANGED <<feeding, lossy, seen, gone, hist, history, base, total, pending, cleared,
                    segHist, segAlt, alt>>
    BY <1>2 DEF PrintLine
  <2>2. Counted' = Counted /\ Sent' = Sent /\ Prefix' = Prefix /\ Suffix' = Suffix
    BY <2>1 DEF Counted, Rebased, Skipped, HistorySize, Sent, Prefix, Suffix
  <2>3. QED
    BY <2>1, <2>2 DEF AccountInv, Simple
<1>3. CASE ~alt /\ Full(main)
  <2> SUFFICES ASSUME ~lossy, Simple' PROVE AccountInv'
    BY <1>1 DEF AccountInv, Simple
  <2> DEFINE e == Top(main, printed')
  <2>1. /\ seen' = {"scroll"} /\ seen \in {{}, {"scroll"}} /\ Simple /\ e \in Line
        /\ hist' = Append(hist, e) /\ gone' = Append(gone, e)
        /\ Len(hist') = Len(hist) + 1 /\ Len(gone') = Len(gone) + 1
    BY <1>3, ScrolledOff
  <2> HIDE DEF e
  <2>2. /\ total \in Nat /\ pending \in Nat /\ segHist \in Nat /\ Len(hist) \in Nat
        /\ gone \in Seq(Line) /\ hist \in Seq(Line) /\ history \in Seq(Line)
        /\ base \in 0..Len(history) /\ Len(gone) \in Nat
    BY DEF Shape, CountOK, TermOK, AuxOK, ClientOK
  <2>3. /\ Counted.total = total + (Len(hist) - segHist)
        /\ Counted.pending = pending + (Len(hist) - segHist)
    <3>1. CASE seen = {"scroll"}
      BY <1>1, <2>1, <3>1 DEF CountedInv
    <3>2. CASE seen = {}
      <4>1. Len(hist) = segHist /\ pending = 0
        BY <1>1, <1>3, <2>1, <3>2 DEF ChunkInv
      <4>2. Counted.total = total /\ Counted.pending = 0
        BY <1>1, <2>1, <3>2 DEF CountedInv
      <4>3. QED
        BY <2>2, <4>1, <4>2
    <3>3. QED
      BY <2>1, <3>1, <3>2
  <2>4. /\ Counted'.total = total + (Len(hist) + 1 - segHist)
        /\ Counted'.pending = pending + (Len(hist) + 1 - segHist)
    <3>1. /\ Counted'.total = total' + (Len(hist') - segHist')
          /\ Counted'.pending = pending' + (Len(hist') - segHist')
      BY <1>1, <2>1 DEF CountedInv
    <3>2. QED
      BY <1>1, <2>1, <2>2, <3>1
  <2>5. Counted.total = Len(gone) /\ Len(gone) = Sent + Counted.pending /\ Prefix /\ Suffix
    BY <1>1, <2>1 DEF AccountInv
  <2>6. Sent' = Sent /\ Sent \in Nat /\ Sent <= Len(gone)
    <3>1. Sent \in Nat /\ Counted.pending \in Nat
      BY <2>2, CountedShape DEF Sent, Shape
    <3>2. QED
      BY <1>1, <2>2, <2>5, <3>1 DEF Sent
  <2>7. Counted'.total = Len(gone') /\ Len(gone') = Sent' + Counted'.pending
    BY <2>1, <2>2, <2>3, <2>4, <2>5, <2>6
  <2>8. Suffix'
    BY <2>1, <2>2, <2>5, SuffixGrows DEF Suffix
  <2>9. Prefix'
    <3>1. Len(history) - base <= Len(gone) /\ BeginsWith(gone, history, base)
      BY <2>5, <2>6 DEF Prefix, Sent
    <3>2. BeginsWith(Append(gone, e), history, base)
      BY <2>1, <2>2, <3>1, PrefixGrows
    <3>3. QED
      BY <1>1, <2>1, <3>2 DEF Prefix
  <2>10. QED
    BY <1>1, <2>1, <2>7, <2>8, <2>9 DEF AccountInv
<1>4. QED
  BY <1>2, <1>3

LEMMA AccountCut ==
    ASSUME Shape, CountedInv, CountedInv', AccountInv, Cut
    PROVE  AccountInv'
<1> USE DEF termVars, feedVars, countVars, markVars, cmdVars, clientVars, auxVars
<1>1. /\ feeding /\ feeding' /\ UNCHANGED <<lossy, seen, gone, hist, history, base, alt>>
      /\ total' = Counted.total /\ pending' = Counted.pending /\ cleared' = Counted.cleared
      /\ segHist' = HistorySize /\ segAlt' = alt
  BY DEF Cut, NextSegment
<1> SUFFICES ASSUME ~lossy, Simple PROVE AccountInv'
  BY <1>1 DEF AccountInv, Simple
<1>2. /\ Counted.total \in Nat /\ Counted.pending \in Nat /\ Len(hist) \in Nat
      /\ (~alt => HistorySize = Len(hist))
  BY CountedShape DEF Shape, HistorySize, TermOK
<1>3. Simple' /\ Sent' = Sent /\ Prefix' = Prefix /\ Suffix' = Suffix
  BY <1>1 DEF Simple, Sent, Prefix, Suffix
<1>4. CASE seen = {"clear"}
  <2>1. Counted'.cleared <=> cleared' \/ Rebased'
    BY <1>1, <1>3, <1>4 DEF CountedInv
  <2>2. ASSUME ~Counted'.cleared PROVE Sent' = 0 /\ total' = 0
    <3>1. ~Counted.cleared
      BY <1>1, <2>1, <2>2
    <3>2. Sent = 0 /\ total = 0
      BY <1>1, <1>4, <3>1 DEF AccountInv
    <3>3. total' = total
      BY <1>1, <1>4, <3>1 DEF CountedInv
    <3>4. QED
      BY <1>3, <3>2, <3>3
  <2>3. QED
    BY <1>1, <1>4, <2>2 DEF AccountInv
<1>5. CASE seen # {"clear"}
  <2>1. Counted.total = Len(gone) /\ Len(gone) = Sent + Counted.pending /\ Prefix /\ Suffix
    BY <1>1, <1>5 DEF AccountInv
  <2>2. Counted'.total = Counted.total /\ Counted'.pending = Counted.pending
    <3>1. CASE seen = {"scroll"}
      <4>1. ~alt /\ segHist' = Len(hist')
        BY <1>1, <1>2, <3>1 DEF CountedInv
      <4>2. /\ Counted'.total = total' + (Len(hist') - segHist')
            /\ Counted'.pending = pending' + (Len(hist') - segHist')
        BY <1>1, <1>3, <3>1 DEF CountedInv
      <4>3. Len(hist') - segHist' = 0
        BY <1>1, <1>2, <4>1
      <4>4. QED
        BY <1>1, <1>2, <4>2, <4>3
    <3>2. CASE seen \in {{}, {"switch"}}
      <4>1. Counted.pending = 0 /\ seen' = seen /\ seen # {"scroll"}
        BY <1>1, <3>2 DEF CountedInv
      <4>2. Counted'.pending = 0 /\ Counted'.total = total'
        BY <1>1, <1>3, <3>2, <4>1 DEF CountedInv
      <4>3. QED
        BY <1>1, <4>1, <4>2
    <3>3. QED
      BY <1>5, <3>1, <3>2 DEF Simple
  <2>3. QED
    BY <1>1, <1>3, <1>5, <2>1, <2>2 DEF AccountInv
<1>6. QED
  BY <1>4, <1>5

LEMMA AccountFeedEnd ==
    ASSUME Shape, ScreenInv, ChunkInv, CountedInv, AccountInv, FeedEnd
    PROVE  AccountInv'
<1> USE DEF termVars, feedVars, countVars, markVars, cmdVars, clientVars, auxVars
<1>1. /\ feeding /\ ~feeding' /\ UNCHANGED <<hist, gone>> /\ total' = Counted.total
      /\ cleared' = Counted.cleared /\ lossy' = (Uncounted \/ (lossy /\ ~cleared'))
      /\ EncodeFrame(rows, Screen.grid, ScrolledRows, Counted.cleared)
  BY DEF FeedEnd
<1> SUFFICES ASSUME ~lossy'
             PROVE  Sent' = Len(gone) /\ total' = Len(gone) /\ Prefix' /\ Suffix'
  BY <1>1 DEF AccountInv
<1>2. Simple /\ (~lossy \/ Counted.cleared)
  BY <1>1, CountedChunk DEF Shape
<1>3. last.rows = rows
  <2>1. last = [rows |-> rows, grid |-> last.grid, alt |-> last.alt]
    BY DEF ScreenInv
  <2>2. QED
    BY <2>1
<1>4. /\ history' = IF Counted.cleared THEN <<>> ELSE history \o ScrolledRows
      /\ base' = IF Counted.cleared THEN 0 ELSE base
  BY <1>1, <1>3 DEF EncodeFrame, Patch
<1>5. /\ hist \in Seq(Line) /\ history \in Seq(Line) /\ base \in 0..Len(history)
      /\ base \in Nat /\ Len(history) \in Nat
  BY DEF Shape, TermOK, ClientOK
<1>6. CASE Counted.cleared
  <2>1. seen = {"clear"} /\ gone = <<>> /\ Counted.total = 0
    <3>1. seen = {"clear"} /\ Counted.total = 0
      BY <1>1, <1>2, <1>6 DEF CountedInv
    <3>2. QED
      BY <1>1, <1>2, <3>1 DEF ChunkInv
  <2>2. history' = <<>> /\ base' = 0 /\ Len(<<>>) = 0
    BY <1>4, <1>6
  <2>3. Sent' = 0 /\ hist' \in Seq(Line) /\ history' \in Seq(Line) /\ base' \in Nat
        /\ gone' = <<>>
    BY <1>1, <1>5, <2>1, <2>2 DEF Sent
  <2>4. Prefix' /\ Suffix' /\ Len(gone') = 0
    BY <2>3, NothingGone DEF Prefix, Suffix, Sent
  <2>5. QED
    BY <1>1, <2>1, <2>3, <2>4
<1>7. CASE ~Counted.cleared
  <2>1. ~lossy /\ history' = history \o ScrolledRows /\ base' = base
    BY <1>2, <1>4, <1>7
  <2>2. /\ Counted.total = Len(gone) /\ Len(gone) = Sent + Counted.pending
        /\ Prefix /\ Suffix
    <3>1. CASE seen # {"clear"}
      BY <1>1, <1>2, <2>1, <3>1 DEF AccountInv
    <3>2. CASE seen = {"clear"}
      <4>1. Sent = 0 /\ Counted.total = 0 /\ Counted.pending = 0
        BY <1>1, <1>2, <1>7, <2>1, <3>2 DEF AccountInv, CountedInv
      <4>2. gone = <<>>
        BY <1>1, <1>2, <3>2 DEF ChunkInv
      <4>3. QED
        BY <1>5, <4>1, <4>2, NothingGone DEF Prefix, Suffix, Sent
    <3>3. QED
      BY <3>1, <3>2
  <2>3. Counted.pending > 0 => ~alt
    BY <1>1, <1>2 DEF CountedInv
  <2>4. Sent' = Len(gone) /\ Prefix'
    BY <1>1, <1>7, <2>1, <2>2, <2>3, FrameBrings
  <2>5. Suffix'
    BY <1>1, <2>2 DEF Suffix
  <2>6. QED
    BY <1>1, <2>2, <2>4, <2>5
<1>8. QED
  BY <1>6, <1>7

LEMMA AccountResize ==
    ASSUME Shape, Shape', NEW n \in Sizes, Resize(n)
    PROVE  AccountInv'
<1>1. /\ ~feeding' /\ gone' = <<>> /\ total' = 0
      /\ lossy' = (n = last.rows /\ (lossy \/ Len(history) > base))
      /\ EncodeFrame(n, (IF alt THEN alts' ELSE main').grid, <<>>, FALSE)
  BY DEF Resize, ResizeScreen, feedVars
<1>2. history \in Seq(Line) /\ Len(history) \in Nat /\ base \in 0..Len(history)
  BY DEF Shape, ClientOK
<1> SUFFICES ASSUME ~lossy' PROVE AccountInv'
  BY <1>1 DEF AccountInv
<1>3. Sent' = 0
  <2>1. CASE n = last.rows
    <3>1. history' = history \o <<>> /\ base' = base /\ ~(Len(history) > base)
      BY <1>1, <2>1 DEF EncodeFrame, Patch
    <3>2. history' = history
      BY <1>2, <3>1, ConcatEmptySeq
    <3>3. QED
      BY <1>2, <3>1, <3>2 DEF Sent
  <2>2. CASE n # last.rows
    <3>1. history' = history /\ base' = Len(history)
      BY <1>1, <2>2 DEF EncodeFrame, InitFrame
    <3>2. QED
      BY <1>2, <3>1 DEF Sent
  <2>3. QED
    BY <2>1, <2>2
<1>4. hist' \in Seq(Line) /\ history' \in Seq(Line) /\ base' \in Nat
  BY DEF Shape, TermOK, ClientOK
<1>5. Prefix' /\ Suffix' /\ Len(gone') = 0
  BY <1>1, <1>3, <1>4, NothingGone DEF Prefix, Suffix, Sent
<1>6. QED
  BY <1>1, <1>3, <1>5 DEF AccountInv

LEMMA AccountStep ==
    Shape /\ Shape' /\ AltInv /\ ScreenInv /\ ChunkInv /\ CountedInv /\ CountedInv'
      /\ AccountInv /\ [Next]_vars => AccountInv'
<1> SUFFICES ASSUME Shape, Shape', AltInv, ScreenInv, ChunkInv, CountedInv, CountedInv',
                    AccountInv, [Next]_vars
             PROVE  AccountInv'
  OBVIOUS
<1> USE DEF termVars, feedVars, countVars, markVars, cmdVars, clientVars, auxVars
<1>1. CASE UNCHANGED vars
  <2>1. /\ Counted' = Counted /\ Sent' = Sent /\ Prefix' = Prefix /\ Suffix' = Suffix
        /\ UNCHANGED <<feeding, lossy, seen, gone, total>>
    BY <1>1 DEF vars, Counted, Rebased, Skipped, HistorySize, Sent, Prefix, Suffix
  <2>2. QED
    BY <2>1 DEF AccountInv, Simple
<1>2. CASE PrintLine
  BY <1>2, AccountPrint
<1>3. CASE ClearHistory
  <2>1. /\ feeding /\ feeding' /\ ~alt /\ UNCHANGED <<lossy, history, base, total, cleared, segHist>>
        /\ gone' = <<>> /\ seen' = seen \cup {"clear"}
    BY <1>3 DEF ClearHistory
  <2>2. ASSUME ~lossy, seen' = {"clear"}, ~Counted'.cleared PROVE Sent' = 0 /\ total' = 0
    <3>1. Simple' /\ "clear" \in Done
      BY <2>2 DEF Simple, Done
    <3>2. seen \in {{}, {"clear"}} /\ Simple
      BY <2>1, <3>1, OneThing
    <3>3. ~cleared' /\ ~Rebased' /\ ~(segHist' > 0)
      BY <2>1, <2>2, <3>1 DEF CountedInv
    <3>4. ~cleared /\ segHist = 0
      BY <2>1, <3>3 DEF Shape, CountOK
    <3>5. CASE seen = {"clear"}
      <4>1. ~Counted.cleared
        BY <2>1, <3>2, <3>4, <3>5 DEF CountedInv
      <4>2. QED
        BY <2>1, <2>2, <3>5, <4>1 DEF AccountInv, Sent
    <3>6. CASE seen = {}
      <4>1. Len(hist) = 0
        BY <2>1, <3>2, <3>4, <3>6 DEF ChunkInv
      <4>2. Counted.total = total /\ Counted.pending = 0
        BY <2>1, <3>2, <3>6 DEF CountedInv
      <4>3. Counted.total = Len(gone) /\ Len(gone) = Sent + Counted.pending /\ Len(gone) <= Len(hist)
        BY <2>1, <2>2, <3>2, <3>6 DEF AccountInv, Suffix, EndsWith
      <4>4. gone \in Seq(Line) /\ Sent \in Int
        BY DEF Shape, AuxOK, ClientOK, Sent
      <4>5. Sent' = Sent
        BY <2>1 DEF Sent
      <4>6. Len(gone) = 0
        BY <4>1, <4>3, <4>4
      <4>7. QED
        BY <2>1, <4>2, <4>3, <4>4, <4>5, <4>6
    <3>7. QED
      BY <3>2, <3>5, <3>6
  <2>3. "clear" \in seen'
    BY <2>1
  <2>4. QED
    BY <2>1, <2>2, <2>3 DEF AccountInv, Simple
<1>4. CASE LeaveAlt \/ EnterAlt \/ EnterAltUnseen
  <2>1. /\ feeding /\ feeding' /\ seen' = seen \cup {"switch"}
        /\ UNCHANGED <<lossy, history, base, total, gone, hist>>
    <3>1. CASE LeaveAlt
      BY <3>1 DEF LeaveAlt
    <3>2. CASE EnterAlt \/ EnterAltUnseen
      <4>1. EnterScreen /\ feeding' = feeding
        BY <3>2 DEF EnterAlt, EnterAltUnseen
      <4>2. /\ feeding /\ seen' = seen \cup {"switch"}
            /\ UNCHANGED <<lossy, history, base, total, gone, hist>>
        BY <4>1 DEF EnterScreen
      <4>3. QED
        BY <4>1, <4>2
    <3>3. QED
      BY <1>4, <3>1, <3>2
  <2> SUFFICES ASSUME ~lossy, Simple' PROVE AccountInv'
    BY <2>1 DEF AccountInv, Simple
  <2>2. seen' = {"switch"} /\ seen \in {{}, {"switch"}} /\ Simple
    BY <2>1, OneThing DEF Done
  <2>3. Counted.total = total /\ Counted.pending = 0
    BY <2>1, <2>2 DEF CountedInv
  <2>4. Counted'.total = total' /\ Counted'.pending = 0
    BY <2>1, <2>2 DEF CountedInv
  <2>5. Sent' = Sent /\ Prefix' = Prefix /\ Suffix' = Suffix
    BY <2>1 DEF Sent, Prefix, Suffix
  <2>6. Counted.total = Len(gone) /\ Len(gone) = Sent + Counted.pending /\ Prefix /\ Suffix
    BY <2>1, <2>2 DEF AccountInv
  <2>7. QED
    BY <2>1, <2>2, <2>3, <2>4, <2>5, <2>6 DEF AccountInv
<1>5. CASE FeedStart
  <2>1. /\ ~feeding /\ feeding' /\ seen' = {}
        /\ UNCHANGED <<lossy, history, base, total, gone, hist>>
    BY <1>5 DEF FeedStart
  <2> SUFFICES ASSUME ~lossy PROVE AccountInv'
    BY <2>1 DEF AccountInv
  <2>2. Counted'.total = total' /\ Counted'.pending = 0
    BY <2>1 DEF CountedInv, Simple
  <2>3. Sent' = Sent /\ Prefix' = Prefix /\ Suffix' = Suffix
    BY <2>1 DEF Sent, Prefix, Suffix
  <2>4. Sent = Len(gone) /\ total = Len(gone) /\ Prefix /\ Suffix /\ Len(gone) \in Nat
    BY <2>1 DEF AccountInv, Shape, AuxOK
  <2>5. QED
    BY <2>1, <2>2, <2>3, <2>4 DEF AccountInv
<1>6. CASE CutOnly \/ PromptStart \/ CommandStart \/ CommandEnd
  BY <1>6, AccountCut DEF CutOnly, PromptStart, CommandStart, CommandEnd
<1>7. CASE FeedEnd
  BY <1>7, AccountFeedEnd
<1>8. ASSUME NEW n \in Sizes, Resize(n) PROVE AccountInv'
  BY <1>8, AccountResize
<1>9. QED
  BY <1>1, <1>2, <1>3, <1>4, <1>5, <1>6, <1>7, <1>8 DEF Next

LEMMA AccountInit == Init => AccountInv
<1> SUFFICES ASSUME Init PROVE AccountInv
  OBVIOUS
<1>1. /\ ~feeding /\ gone = <<>> /\ hist = <<>> /\ history = <<>> /\ base = 0 /\ total = 0
  BY DEF Init
<1>2. Sent = 0 /\ hist \in Seq(Line) /\ history \in Seq(Line) /\ base \in Nat
  BY <1>1 DEF Sent
<1>3. QED
  BY <1>1, <1>2, NothingGone DEF AccountInv, Prefix, Suffix, Sent

LEMMA HistoryFollows == Shape /\ AccountInv => HistoryExact
<1> SUFFICES ASSUME Shape, AccountInv, ~feeding, ~lossy
             PROVE  NewHistory = gone /\ total = Len(gone)
  BY DEF HistoryExact
<1>1. Sent = Len(gone) /\ total = Len(gone) /\ Prefix
  BY DEF AccountInv
<1>2. /\ history \in Seq(Line) /\ base \in 0..Len(history) /\ gone \in Seq(Line)
      /\ Len(history) \in Nat /\ Len(gone) \in Nat
  BY DEF Shape, ClientOK, AuxOK
<1> DEFINE m == base + 1
           n == Len(history)
<1>3. m \in Int /\ n \in Int /\ \A i \in m..n : history[i] \in Line
  <2>1. \A i \in m..n : i \in 1..Len(history)
    BY <1>2
  <2>2. QED
    BY <1>2, <2>1, ElementOfSeq
<1>4. NewHistory = SubSeq(history, m, n) /\ n - m + 1 = Len(gone) /\ (m <= n <=> Len(gone) > 0)
  BY <1>1, <1>2 DEF NewHistory, Sent
<1> HIDE DEF m, n
<1>5. /\ SubSeq(history, m, n) \in Seq(Line)
      /\ Len(SubSeq(history, m, n)) = IF m <= n THEN n - m + 1 ELSE 0
      /\ \A i \in 1..(n - m + 1) : SubSeq(history, m, n)[i] = history[m + i - 1]
  BY <1>3, SubSeqProperties
<1>6. Len(NewHistory) = Len(gone) /\ NewHistory \in Seq(Line)
  BY <1>2, <1>4, <1>5
<1>7. ASSUME NEW i \in 1..Len(gone) PROVE NewHistory[i] = gone[i]
  <2>1. NewHistory[i] = history[m + i - 1]
    BY <1>4, <1>5
  <2>2. m + i - 1 = base + i
    BY <1>2 DEF m
  <2>3. history[base + i] = gone[i]
    BY <1>1 DEF Prefix, BeginsWith, Sent
  <2>4. QED
    BY <2>1, <2>2, <2>3
<1>8. NewHistory = gone
  BY <1>2, <1>6, <1>7, SeqEqual
<1>9. QED
  BY <1>1, <1>8

(* The client's history, from its last Init on, is exactly what has left the screen  *)
(* and scroll_total counts it, whatever alternate screens, clearings, marks and      *)
(* resizes came between (crates/terminal-engine/src/engine.rs, advance_alacritty;    *)
(* crates/terminal-protocol/src/encoder.rs).                                         *)
THEOREM HistoryKept == Spec => []HistoryExact
<1>1. Shape /\ ChunkInv => CountedInv
  BY CountedHolds
<1>2. QED
  BY <1>1, ShapeInit, ShapeStep, AltInit, AltStep, ScreenInit, ScreenStep, ChunkInit, ChunkStep,
     AccountInit, AccountStep, HistoryFollows, PTL DEF Spec
-----------------------------------------------------------------------------
(* The lines of commands *)

(* Where position p of what has left the screen and what is on it is found.          *)
LEMMA Position ==
    ASSUME NEW g \in Seq(Line), NEW s, s.grid \in Seq(Line), s.cur \in 1..Len(s.grid),
           NEW p \in 1..(Len(g) + s.cur - 1)
    PROVE  (g \o s.grid)[p] = IF p <= Len(g) THEN g[p] ELSE s.grid[p - Len(g)]
<1>1. Len(g) \in Nat /\ Len(s.grid) \in Nat
  OBVIOUS
<1>2. p \in 1..(Len(g) + Len(s.grid))
  BY <1>1
<1>3. QED
  BY <1>2, ConcatProperties

(* A line above the cursor stays where it is when a line is printed, and keeps its   *)
(* position when the screen scrolls: what leaves it goes to the end of gone.         *)
LEMMA StandsPrinted ==
    ASSUME NEW g \in Seq(Line), rows \in Nat \ {0}, NEW s, GridOK(s), NEW n \in Line,
           NEW p, NEW line, Stands(g, s, p, line)
    PROVE  Stands(IF Full(s) THEN Append(g, Top(s, n)) ELSE g, Printed(s, n), p, line)
<1> DEFINE t == Printed(s, n)
           k == Len(g)
<1>1. /\ GridOK(t) /\ s.grid \in Seq(Line) /\ Len(s.grid) = rows /\ s.cur \in 1..rows
      /\ t.grid \in Seq(Line) /\ Len(t.grid) = rows /\ t.cur \in 1..rows /\ k \in Nat
  BY PrintedShape DEF GridOK
<1>2. p \in 1..(k + s.cur - 1) /\ p \in Int
  BY <1>1 DEF Stands
<1>3. line = IF p <= k THEN g[p] ELSE s.grid[p - k]
  BY <1>1, <1>2, Position DEF Stands
<1>4. CASE ~Full(s)
  <2>1. /\ t.cur = s.cur + 1
        /\ \A i \in 1..rows : i # s.cur => t.grid[i] = s.grid[i]
    BY <1>4, PrintedShape
  <2> HIDE DEF t, k
  <2>2. p \in 1..(k + t.cur - 1)
    BY <1>1, <1>2, <2>1
  <2>3. p > k => p - k \in 1..rows /\ p - k # s.cur
    BY <1>1, <1>2
  <2>4. (g \o t.grid)[p] = IF p <= k THEN g[p] ELSE t.grid[p - k]
    BY <1>1, <2>2, Position DEF k
  <2>5. (g \o t.grid)[p] = line
    BY <1>1, <1>2, <1>3, <2>1, <2>3, <2>4
  <2>6. QED
    BY <1>4, <2>2, <2>5 DEF Stands, t, k
<1>5. CASE Full(s)
  <2> DEFINE gg == Append(g, Top(s, n))
  <2>1. t.cur = rows /\ \A i \in 1..(rows - 2) : t.grid[i] = s.grid[i + 1]
    BY <1>5, PrintedShape
  <2>2. Top(s, n) \in Line /\ s.cur = rows
    BY <1>5, TopIsLine DEF Full
  <2>3. /\ gg \in Seq(Line) /\ Len(gg) = k + 1 /\ gg[k + 1] = Top(s, n)
        /\ \A i \in 1..k : gg[i] = g[i]
    BY <2>2, AppendProperties
  <2> HIDE DEF t, k, gg
  <2>4. p \in 1..(Len(gg) + t.cur - 1)
    BY <1>1, <1>2, <2>1, <2>2, <2>3
  <2>5. (gg \o t.grid)[p] = IF p <= Len(gg) THEN gg[p] ELSE t.grid[p - Len(gg)]
    BY <1>1, <2>3, <2>4, Position
  <2>6. (gg \o t.grid)[p] = line
    <3>1. CASE p <= k
      <4>1. p \in 1..k /\ p <= k + 1
        BY <1>1, <1>2, <3>1
      <4>2. QED
        BY <1>3, <2>3, <2>5, <3>1, <4>1
    <3>2. CASE p = k + 1
      <4>1. ~(p <= k) /\ p - k = 1 /\ p <= k + 1
        BY <1>1, <3>2
      <4>2. rows # 1
        BY <1>1, <1>2, <2>2, <3>2
      <4>3. line = Top(s, n)
        BY <1>3, <4>1, <4>2 DEF Top
      <4>4. QED
        BY <2>3, <2>5, <3>2, <4>1, <4>3
    <3>3. CASE p > k + 1
      <4>1. /\ ~(p <= k) /\ ~(p <= k + 1) /\ p - (k + 1) \in 1..(rows - 2)
            /\ (p - (k + 1)) + 1 = p - k
        BY <1>1, <1>2, <2>2, <3>3
      <4>2. QED
        BY <1>3, <2>1, <2>3, <2>5, <4>1
    <3>4. p <= k \/ p = k + 1 \/ p > k + 1
      BY <1>1, <1>2
    <3>5. QED
      BY <3>1, <3>2, <3>3, <3>4
  <2>7. QED
    BY <1>5, <2>4, <2>6 DEF Stands, t, gg
<1>6. QED
  BY <1>4, <1>5

LEMMA AbovePrint ==
    ASSUME Shape, PrintLine, NEW p, NEW line, Above(p, line)
    PROVE  Above(p, line)'
<1>1. CASE alt
  BY <1>1 DEF PrintLine, Above
<1>2. CASE ~alt
  <2>1. /\ GridOK(main) /\ rows \in Nat \ {0} /\ gone \in Seq(Line) /\ printed' \in Line
    BY EngineAssumption DEF PrintLine, Shape, TermOK, AuxOK, Line
  <2>2. main' = Printed(main, printed')
    BY <1>2 DEF PrintLine
  <2>3. gone' = IF Full(main) THEN Append(gone, Top(main, printed')) ELSE gone
    <3>1. CASE Full(main)
      <4>1. gone' = Append(gone, Head([main.grid EXCEPT ![main.cur] = printed']))
        BY <1>2, <3>1 DEF PrintLine
      <4>2. Head([main.grid EXCEPT ![main.cur] = printed']) = Top(main, printed')
        BY <2>1, <3>1, PrintedShape
      <4>3. QED
        BY <3>1, <4>1, <4>2
    <3>2. CASE ~Full(main)
      BY <1>2, <3>2 DEF PrintLine
    <3>3. QED
      BY <3>1, <3>2
  <2>4. Stands(gone', main', p, line)
    <3>1. Stands(gone, main, p, line)
      BY DEF Above
    <3>2. Stands(IF Full(main) THEN Append(gone, Top(main, printed')) ELSE gone,
                 Printed(main, printed'), p, line)
      BY <2>1, <3>1, StandsPrinted
    <3>3. QED
      BY <2>2, <2>3, <3>2
  <2>5. QED
    BY <2>4 DEF Above
<1>3. QED
  BY <1>1, <1>2 DEF Shape, TermOK

LEMMA MarkPrint ==
    ASSUME Shape, CountedInv, CountedInv', MarkInv, PrintLine
    PROVE  MarkInv'
<1> USE DEF termVars, feedVars, countVars, markVars, cmdVars, clientVars, auxVars
<1>1. /\ feeding /\ feeding' /\ lossy' = lossy
      /\ UNCHANGED <<exec, resolved, alt, feedAlt, segAlt, segHist, cleared>>
  BY DEF PrintLine
<1> SUFFICES ASSUME Simple', ~lossy \/ Counted'.cleared, ~Rebased'
             PROVE  Marked(exec)' /\ AllAbove(resolved)'
  BY <1>1 DEF MarkInv
<1>2. /\ Simple /\ (~lossy \/ Counted.cleared) /\ Rebased' = Rebased
  <2>1. CASE alt \/ ~Full(main)
    <3>1. UNCHANGED <<seen, hist, alt, segHist, segAlt, total, pending, cleared>>
      BY <2>1 DEF PrintLine
    <3>2. Rebased' = Rebased /\ Counted' = Counted
      BY <3>1 DEF Counted, Rebased, Skipped, HistorySize
    <3>3. QED
      BY <3>1, <3>2 DEF Simple
  <2>2. CASE ~alt /\ Full(main)
    <3>1. seen' = {"scroll"} /\ seen \in {{}, {"scroll"}} /\ Simple
      BY <2>2, ScrolledOff
    <3>2. ~Rebased' /\ ~Counted'.cleared
      BY <1>1, <3>1 DEF CountedInv
    <3>3. ~Rebased
      BY <1>1, <3>1 DEF CountedInv
    <3>4. QED
      BY <3>1, <3>2, <3>3 DEF Rebased, Skipped
  <2>3. QED
    BY <2>1, <2>2
<1>3. Marked(exec) /\ AllAbove(resolved)
  BY <1>1, <1>2 DEF MarkInv
<1>4. \A p, line : Above(p, line) => Above(p, line)'
  BY AbovePrint
<1>5. Marked(exec)'
  BY <1>1, <1>3, <1>4 DEF Marked, Above
<1>6. AllAbove(resolved)'
  BY <1>1, <1>3, <1>4 DEF AllAbove, Above
<1>7. QED
  BY <1>5, <1>6

LEMMA MarkClear ==
    ASSUME Shape, AltInv, ChunkInv, CountedInv, CountedInv', AccountInv, MarkInv, ClearHistory
    PROVE  MarkInv'
<1> USE DEF termVars, feedVars, countVars, markVars, cmdVars, clientVars, auxVars
<1>1. /\ feeding /\ feeding' /\ lossy' = lossy /\ ~alt /\ ~alt' /\ gone' = <<>>
      /\ seen' = seen \cup {"clear"}
      /\ UNCHANGED <<exec, resolved, main, segHist, cleared>>
  BY DEF ClearHistory
<1> SUFFICES ASSUME Simple', ~lossy \/ Counted'.cleared, ~Rebased'
             PROVE  Marked(exec)' /\ AllAbove(resolved)'
  BY <1>1 DEF MarkInv
<1>2. seen' = {"clear"} /\ seen \in {{}, {"clear"}} /\ Simple
  BY <1>1, OneThing DEF Done
<1>3. (Rebased' <=> segHist' > 0) /\ (Counted'.cleared <=> cleared' \/ Rebased')
  BY <1>1, <1>2 DEF CountedInv
<1>4. segHist = 0 /\ (Counted'.cleared <=> cleared)
  BY <1>1, <1>3 DEF Shape, CountOK
<1>5. gone = <<>> /\ ~Rebased /\ (~lossy \/ Counted.cleared)
  <2>1. CASE seen = {"clear"}
    <3>1. gone = <<>>
      BY <1>1, <1>2, <2>1 DEF ChunkInv
    <3>2. ~Rebased /\ (Counted.cleared <=> cleared)
      BY <1>1, <1>2, <1>4, <2>1 DEF CountedInv
    <3>3. QED
      BY <1>4, <3>1, <3>2
  <2>2. CASE seen = {}
    <3>1. ~cleared /\ Len(hist) = 0
      BY <1>1, <1>2, <1>4, <2>2 DEF ChunkInv
    <3>2. ~Rebased /\ ~lossy
      BY <1>1, <1>2, <1>4, <2>2, <3>1 DEF CountedInv
    <3>3. Len(gone) <= Len(hist) /\ gone \in Seq(Line)
      BY <1>1, <1>2, <2>2, <3>2 DEF AccountInv, Suffix, EndsWith, Shape, AuxOK
    <3>4. gone = <<>>
      BY <3>1, <3>3, EmptySeq
    <3>5. QED
      BY <3>2, <3>4
  <2>3. QED
    BY <1>2, <2>1, <2>2
<1>6. Marked(exec) /\ AllAbove(resolved)
  BY <1>1, <1>2, <1>5 DEF MarkInv
<1>7. \A p, line : Above(p, line)' <=> Above(p, line)
  BY <1>1, <1>5 DEF Above
<1>8. QED
  BY <1>1, <1>6, <1>7 DEF Marked, AllAbove, Above

(* At a cut point the lines that have left the screen are counted, so the position   *)
(* of the line above the cursor is known.                                            *)
LEMMA CutPosition ==
    ASSUME Shape, ChunkInv, CountedInv, AccountInv, feeding, Simple, ~lossy \/ Counted.cleared
    PROVE  Counted.total = Len(gone)
<1>1. CASE seen # {"clear"}
  BY <1>1 DEF CountedInv, AccountInv
<1>2. CASE seen = {"clear"}
  <2>1. Len(gone) = 0
    BY <1>2 DEF ChunkInv
  <2>2. Counted.total = 0
    BY <1>2 DEF CountedInv, AccountInv
  <2>3. QED
    BY <2>1, <2>2
<1>3. QED
  BY <1>1, <1>2

(* What the end of a segment leaves of the marks is above the cursor.                *)
LEMMA MarksNow ==
    ASSUME MarkOK, AltInv, MarkInv, feeding, Simple, ~lossy \/ Counted.cleared
    PROVE  Marked(ExecNow) /\ AllAbove(ResolvedNow)
<1>1. CASE Reset
  BY <1>1 DEF ExecNow, ResolvedNow, Marked, AllAbove, Idle
<1>2. CASE ~Reset
  <2>1. ExecNow = exec /\ ResolvedNow = resolved /\ ~Rebased
    BY <1>2, NowFacts DEF ResolvedNow, Reset
  <2>2. QED
    BY <2>1 DEF MarkInv
<1>3. QED
  BY <1>1, <1>2

LEMMA MarkCut ==
    ASSUME Shape, AltInv, AltInv', ChunkInv, CountedInv, CountedInv', AccountInv, MarkInv,
           CutOnly \/ PromptStart \/ CommandStart \/ CommandEnd
    PROVE  MarkInv'
<1> USE DEF termVars, feedVars, countVars, markVars, cmdVars, clientVars, auxVars
<1>1. /\ feeding /\ feeding' /\ UNCHANGED <<lossy, seen, gone, hist, alt, main>>
      /\ total' = Counted.total /\ cleared' = Counted.cleared
      /\ segHist' = HistorySize /\ segAlt' = alt /\ feedAlt' = alt
  BY DEF CutOnly, PromptStart, CommandStart, CommandEnd, Cut, NextSegment
<1>2. HistorySize \in Nat /\ HistorySize' = HistorySize
  BY <1>1, CountedShape DEF Shape, HistorySize
<1>3. ~Rebased'
  BY <1>1, <1>2 DEF Rebased
<1>4. Counted'.cleared = Counted.cleared
  BY <1>1, <1>3 DEF Counted
<1> SUFFICES ASSUME Simple, ~lossy \/ Counted.cleared
             PROVE  Marked(exec)' /\ AllAbove(resolved)'
  BY <1>1, <1>4 DEF MarkInv, Simple
<1>5. Marked(ExecNow) /\ AllAbove(ResolvedNow)
  BY <1>1, MarksNow DEF Shape
<1>6. \A p, line : Above(p, line)' <=> Above(p, line)
  BY <1>1 DEF Above
<1>7. (exec' = ExecNow \/ exec' = Idle) => Marked(exec)'
  BY <1>5, <1>6 DEF Marked, Above, Idle
<1>8. resolved' = ResolvedNow => AllAbove(resolved)'
  BY <1>5, <1>6 DEF AllAbove, Above
<1>9. CASE CutOnly \/ PromptStart
  BY <1>7, <1>8, <1>9 DEF CutOnly, PromptStart
<1>10. CASE CommandStart
  <2>1. resolved' = ResolvedNow /\ (alt => exec' = ExecNow)
    BY <1>10 DEF CommandStart
  <2>2. CASE ~alt
    <3> DEFINE k == Len(gone)
               c == main.cur
    <3>1. /\ exec' = [on |-> TRUE, abs |-> total' + c - 1, of |-> main.grid[c - 1],
                      met |-> FALSE]
          /\ c > 1
      BY <1>10, <2>2 DEF CommandStart, Screen
    <3>2. total' = k
      BY <1>1, CutPosition
    <3>3. /\ k \in Nat /\ gone \in Seq(Line) /\ main.grid \in Seq(Line)
          /\ c \in 1..Len(main.grid) /\ c \in Nat
      BY DEF Shape, AuxOK, TermOK, GridOK
    <3>4. k + c - 1 \in 1..(k + c - 1) /\ ~(k + c - 1 <= k) /\ (k + c - 1) - k = c - 1
      BY <3>1, <3>3
    <3>5. (gone \o main.grid)[k + c - 1] = main.grid[c - 1]
      <4>1. (gone \o main.grid)[k + c - 1]
               = IF k + c - 1 <= k THEN gone[k + c - 1] ELSE main.grid[(k + c - 1) - k]
        BY <3>3, <3>4, Position
      <4>2. QED
        BY <3>4, <4>1
    <3>6. Above(k + c - 1, main.grid[c - 1])
      BY <3>4, <3>5 DEF Above, Stands
    <3>7. exec'.abs = k + c - 1 /\ exec'.of = main.grid[c - 1]
      BY <3>1, <3>2
    <3>8. QED
      BY <1>6, <1>8, <2>1, <3>6, <3>7 DEF Marked, Above
  <2>3. QED
    BY <1>7, <1>8, <2>1, <2>2
<1>11. CASE CommandEnd
  <2>1. exec' = ExecNow \/ exec' = Idle
    BY <1>11 DEF CommandEnd
  <2>2. CASE alt \/ ~ExecNow.on
    BY <1>7, <1>8, <1>11, <2>1, <2>2 DEF CommandEnd
  <2>3. CASE ~alt /\ ExecNow.on
    <3> DEFINE e == [ExecNow EXCEPT !.abs = @ - 1]
    <3>1. resolved' = Append(ResolvedNow, e)
      BY <1>11, <2>3 DEF CommandEnd
    <3>2. ExecNow \in Command /\ ResolvedNow \in Seq(Command)
      BY NowShape DEF Shape
    <3>3. e \in Command /\ e.abs + 1 = ExecNow.abs /\ e.of = ExecNow.of
      BY <3>2 DEF Command
    <3> HIDE DEF e
    <3>4. Above(e.abs + 1, e.of)
      BY <1>5, <2>3, <3>3 DEF Marked
    <3>5. /\ DOMAIN resolved' = 1..(Len(ResolvedNow) + 1) /\ Len(ResolvedNow) \in Nat
          /\ DOMAIN ResolvedNow = 1..Len(ResolvedNow)
          /\ \A i \in 1..Len(ResolvedNow) : resolved'[i] = ResolvedNow[i]
          /\ resolved'[Len(ResolvedNow) + 1] = e
      BY <3>1, <3>2, <3>3, AppendProperties
    <3>6. ASSUME NEW i \in DOMAIN resolved' PROVE Above(resolved'[i].abs + 1, resolved'[i].of)
      <4>1. i \in 1..Len(ResolvedNow) \/ i = Len(ResolvedNow) + 1
        BY <3>5
      <4>2. QED
        BY <1>5, <3>4, <3>5, <4>1 DEF AllAbove
    <3>7. AllAbove(resolved)'
      BY <1>6, <3>6 DEF AllAbove, Above
    <3>8. QED
      BY <1>7, <2>1, <3>7
  <2>4. QED
    BY <2>2, <2>3
<1>12. QED
  BY <1>9, <1>10, <1>11

LEMMA MarkFeedEnd ==
    ASSUME Shape, Shape', AltInv, ScreenInv', CountedInv, HistoryExact', MarkInv, FeedEnd
    PROVE  MarkInv'
<1> USE DEF termVars, feedVars, countVars, markVars, cmdVars, clientVars, auxVars
<1>1. /\ feeding /\ ~feeding' /\ UNCHANGED <<gone, main, alt, rows>>
      /\ exec' = ExecNow /\ ends' = ResolvedNow
      /\ cleared' = Counted.cleared /\ lossy' = (Uncounted \/ (lossy /\ ~cleared'))
  BY DEF FeedEnd
<1> SUFFICES ASSUME ~lossy' PROVE Marked(exec)' /\ MarkOnCommandLine'
  BY <1>1 DEF MarkInv
<1>2. Simple /\ (~lossy \/ Counted.cleared)
  BY <1>1, CountedChunk DEF Shape
<1>3. Marked(ExecNow) /\ AllAbove(ResolvedNow)
  BY <1>1, <1>2, MarksNow DEF Shape
<1>4. \A p, line : Above(p, line)' <=> Above(p, line)
  BY <1>1 DEF Above
<1>5. Marked(exec)'
  BY <1>1, <1>3, <1>4 DEF Marked, Above
<1>6. ASSUME NEW i \in DOMAIN ends'
      PROVE  (NewHistory' \o view'.grid)[ends'[i].abs + 1] = ends'[i].of
  <2>1. ~alt
    BY <1>1, <1>6, NowFacts DEF Shape
  <2>2. view'.grid = main.grid
    BY <1>1, <2>1 DEF ScreenInv, ClientSeesScreen, Screen
  <2>3. NewHistory' = gone
    BY <1>1 DEF HistoryExact
  <2>4. (gone \o main.grid)[ends'[i].abs + 1] = ends'[i].of
    BY <1>1, <1>3, <1>6 DEF AllAbove, Above, Stands
  <2>5. QED
    BY <2>2, <2>3, <2>4
<1>7. QED
  BY <1>5, <1>6 DEF MarkOnCommandLine

LEMMA MarkStep ==
    Shape /\ Shape' /\ AltInv /\ AltInv' /\ ScreenInv' /\ ChunkInv /\ CountedInv /\ CountedInv'
      /\ AccountInv /\ HistoryExact' /\ MarkInv /\ [Next]_vars => MarkInv'
<1> SUFFICES ASSUME Shape, Shape', AltInv, AltInv', ScreenInv', ChunkInv, CountedInv, CountedInv',
                    AccountInv, HistoryExact', MarkInv, [Next]_vars
             PROVE  MarkInv'
  OBVIOUS
<1> USE DEF termVars, feedVars, countVars, markVars, cmdVars, clientVars, auxVars
<1>1. CASE UNCHANGED vars
  <2>1. /\ Counted' = Counted /\ Rebased' = Rebased /\ NewHistory' = NewHistory
        /\ UNCHANGED <<feeding, lossy, seen, exec, resolved, ends, view, gone, main>>
    BY <1>1 DEF vars, Counted, Rebased, Skipped, HistorySize, NewHistory
  <2>2. QED
    BY <2>1 DEF MarkInv, Marked, AllAbove, Above, MarkOnCommandLine, Simple
<1>2. CASE PrintLine
  BY <1>2, MarkPrint
<1>3. CASE ClearHistory
  BY <1>3, MarkClear
<1>4. CASE LeaveAlt \/ EnterAltUnseen
  <2>1. /\ feeding /\ feeding' /\ seen' = seen \cup {"switch"}
        /\ UNCHANGED <<lossy, gone, main, resolved>>
        /\ exec'.on = exec.on /\ exec'.abs = exec.abs /\ exec'.of = exec.of
    BY <1>4 DEF LeaveAlt, EnterAltUnseen, EnterScreen, Shape, MarkOK, Command
  <2> SUFFICES ASSUME Simple', ~lossy \/ Counted'.cleared
               PROVE  Marked(exec)' /\ AllAbove(resolved)'
    BY <2>1 DEF MarkInv
  <2>2. seen' = {"switch"} /\ seen \in {{}, {"switch"}} /\ Simple
    BY <2>1, OneThing DEF Done
  <2>3. ~Rebased /\ ~lossy
    BY <2>1, <2>2 DEF CountedInv
  <2>4. Marked(exec) /\ AllAbove(resolved)
    BY <2>1, <2>2, <2>3 DEF MarkInv
  <2>5. QED
    BY <2>1, <2>4 DEF Marked, AllAbove, Above
<1>10. CASE EnterAlt
  <2>1. feeding' /\ ~exec'.on /\ resolved' = <<>>
    BY <1>10 DEF EnterAlt, EnterScreen, AltInv, Met, Idle, Shape, MarkOK, Command
  <2>2. QED
    BY <2>1 DEF MarkInv, Marked, AllAbove
<1>5. CASE FeedStart
  <2>1. /\ ~feeding /\ feeding' /\ seen' = {} /\ lossy' = lossy
        /\ UNCHANGED <<exec, resolved, gone, main, alt>> /\ feedAlt' = alt
    BY <1>5 DEF FeedStart
  <2>2. ~Rebased' /\ ~Counted'.cleared
    BY <2>1 DEF CountedInv, Simple
  <2>3. ~lossy' => Marked(exec)
    BY <2>1 DEF MarkInv
  <2>4. resolved' = <<>>
    BY <2>1 DEF AltInv
  <2>5. QED
    BY <2>1, <2>2, <2>3, <2>4 DEF MarkInv, Marked, AllAbove, Above
<1>6. CASE CutOnly \/ PromptStart \/ CommandStart \/ CommandEnd
  BY <1>6, MarkCut
<1>7. CASE FeedEnd
  BY <1>7, MarkFeedEnd
<1>8. ASSUME NEW n \in Sizes, Resize(n) PROVE MarkInv'
  <2>1. ~feeding' /\ exec' = Idle /\ ends' = <<>>
    BY <1>8 DEF Resize, ResizeScreen
  <2>2. QED
    BY <2>1 DEF MarkInv, Marked, MarkOnCommandLine, Idle
<1>9. QED
  BY <1>1, <1>2, <1>3, <1>4, <1>5, <1>6, <1>7, <1>8, <1>10 DEF Next

LEMMA MarkInit == Init => MarkInv
<1> SUFFICES ASSUME Init PROVE MarkInv
  OBVIOUS
<1>1. ~feeding /\ exec = Idle /\ ends = <<>>
  BY DEF Init
<1>2. QED
  BY <1>1 DEF MarkInv, Marked, MarkOnCommandLine, Idle

(* A CommandEnd names the command's own line in what the client has, however far the *)
(* line scrolled between C and D and over however many chunks                        *)
(* (crates/terminal-engine/src/shell_integration.rs).                                *)
THEOREM MarkKept == Spec => []MarkOnCommandLine
<1>1. Shape /\ ChunkInv => CountedInv
  BY CountedHolds
<1>2. MarkInv /\ Shape => MarkOnCommandLine
  BY DEF MarkInv, MarkOnCommandLine, Shape, CountOK
<1>3. QED
  BY <1>1, <1>2, ShapeInit, ShapeStep, AltInit, AltStep, ScreenInit, ScreenStep, ChunkInit,
     ChunkStep, AccountInit, AccountStep, HistoryFollows, MarkInit, MarkStep, PTL DEF Spec
-----------------------------------------------------------------------------
(* The ends of commands *)

LEMMA LinesShape ==
    ASSUME NEW s \in Seq(Command)
    PROVE  LinesOf(s) \in Seq(Line) /\ Len(LinesOf(s)) = Len(s)
<1>1. \A i \in 1..Len(s) : s[i].of \in Line
  <2>1. \A i \in 1..Len(s) : s[i] \in Command
    BY ElementOfSeq
  <2>2. QED
    BY <2>1 DEF Command
<1>2. DOMAIN s = 1..Len(s) /\ Len(s) \in Nat
  OBVIOUS
<1>3. LinesOf(s) = [i \in 1..Len(s) |-> s[i].of]
  BY <1>2 DEF LinesOf
<1>4. LinesOf(s) \in [1..Len(s) -> Line]
  BY <1>1, <1>3
<1>5. QED
  BY <1>2, <1>4

LEMMA LinesAppend ==
    ASSUME NEW s \in Seq(Command), NEW e \in Command
    PROVE  LinesOf(Append(s, e)) = Append(LinesOf(s), e.of)
<1> DEFINE n == Len(s)
           a == LinesOf(Append(s, e))
           b == Append(LinesOf(s), e.of)
<1>1. /\ n \in Nat /\ Append(s, e) \in Seq(Command) /\ Len(Append(s, e)) = n + 1
      /\ \A i \in 1..n : Append(s, e)[i] = s[i]
      /\ Append(s, e)[n + 1] = e
  BY AppendProperties
<1>2. e.of \in Line /\ LinesOf(s) \in Seq(Line) /\ Len(LinesOf(s)) = n
  BY LinesShape DEF Command
<1>3. /\ b \in Seq(Line) /\ Len(b) = n + 1 /\ b[n + 1] = e.of
      /\ \A i \in 1..n : b[i] = LinesOf(s)[i]
  BY <1>2, AppendProperties
<1>4. \A i \in 1..n : LinesOf(s)[i] = s[i].of
  BY DEF LinesOf
<1>5. a \in Seq(Line) /\ Len(a) = n + 1
  BY <1>1, LinesShape
<1>6. \A i \in 1..(n + 1) : a[i] = Append(s, e)[i].of
  BY <1>1 DEF LinesOf
<1> HIDE DEF a, b, n
<1>7. ASSUME NEW i \in 1..(n + 1) PROVE a[i] = b[i]
  <2>1. i \in 1..n \/ i = n + 1
    BY <1>1
  <2>2. QED
    BY <1>1, <1>3, <1>4, <1>6, <2>1
<1>8. a = b
  BY <1>1, <1>3, <1>5, <1>7, SeqEqual
<1>9. QED
  BY <1>8 DEF a, b

LEMMA EndsWithNothing ==
    ASSUME NEW h \in Seq(Line) PROVE EndsWith(h, <<>>)
BY DEF EndsWith

(* Where a command runs undisturbed, or has ended so in this chunk, nothing is reset. *)
LEMMA KeptNow ==
    ASSUME Shape, AltInv, EndsInv, feeding, running.calm \/ due # <<>>
    PROVE  ExecNow = exec /\ ResolvedNow = resolved
<1>1. ~alt /\ segHist <= Len(hist) /\ segHist \in Nat /\ Len(hist) \in Nat
  BY DEF EndsInv, Shape, TermOK, CountOK
<1>2. ~Reset
  BY <1>1 DEF Reset, Rebased, HistorySize
<1>3. QED
  BY <1>2, NowFacts DEF Shape, ResolvedNow

(* What the end of a segment leaves of the marks covers what is due.                 *)
LEMMA EndsNow ==
    ASSUME Shape, AltInv, EndsInv, feeding
    PROVE  /\ running.calm => ExecNow.on /\ ExecNow.of = running.of
           /\ ExecNow.on => running.on
           /\ EndsWith(LinesOf(ResolvedNow), due) /\ Len(ResolvedNow) <= ended
<1>1. running.calm => ExecNow.on /\ ExecNow.of = running.of
  BY KeptNow DEF EndsInv
<1>2. ExecNow.on => running.on
  BY NowFacts DEF EndsInv, Shape, Idle
<1>3. EndsWith(LinesOf(ResolvedNow), due)
  <2>1. CASE due # <<>>
    BY <2>1, KeptNow DEF EndsInv
  <2>2. CASE due = <<>>
    <3>1. LinesOf(ResolvedNow) \in Seq(Line)
      BY NowShape, LinesShape DEF Shape
    <3>2. QED
      BY <2>2, <3>1, EndsWithNothing
  <2>3. QED
    BY <2>1, <2>2
<1>4. Len(ResolvedNow) <= ended
  <2>1. Len(resolved) <= ended /\ ended \in Nat
    BY DEF EndsInv, Shape, RunOK
  <2>2. ResolvedNow = resolved \/ ResolvedNow = <<>>
    BY DEF ResolvedNow
  <2>3. QED
    BY <2>1, <2>2
<1>5. QED
  BY <1>1, <1>2, <1>3, <1>4

LEMMA EndsCut ==
    ASSUME Shape, Shape', AltInv, EndsInv, CutOnly \/ PromptStart \/ CommandStart \/ CommandEnd
    PROVE  EndsInv'
<1> USE DEF termVars, feedVars, countVars, markVars, cmdVars, clientVars, auxVars
<1>1. /\ feeding /\ feeding' /\ UNCHANGED <<alt, hist>> /\ feedAlt' = alt
      /\ segHist' = HistorySize
  BY DEF CutOnly, PromptStart, CommandStart, CommandEnd, Cut, NextSegment
<1>2. ~alt => segHist' <= Len(hist')
  BY <1>1 DEF HistorySize, Shape, TermOK
<1>3. /\ running.calm => ExecNow.on /\ ExecNow.of = running.of
      /\ ExecNow.on => running.on
      /\ EndsWith(LinesOf(ResolvedNow), due) /\ Len(ResolvedNow) <= ended
  BY <1>1, EndsNow
<1>4. /\ running.calm => running.on
      /\ running.calm \/ due # <<>> => ~alt
      /\ running.on /\ ~running.calm => due = <<>>
  BY DEF EndsInv
<1>5. ASSUME running'.calm => running'.on /\ exec'.on /\ exec'.of = running'.of,
             exec'.on => running'.on,
             running'.calm \/ due' # <<>> => ~alt,
             running'.on /\ ~running'.calm => due' = <<>>,
             EndsWith(LinesOf(resolved'), due'), Len(resolved') <= ended'
      PROVE  EndsInv'
  <2>1. running'.calm \/ due' # <<>> => ~alt' /\ ~feedAlt' /\ segHist' <= Len(hist')
    BY <1>1, <1>2, <1>5
  <2>2. EndsWith(LinesOf(resolved), due)'
    BY <1>5 DEF EndsWith, LinesOf
  <2>3. EndsSent'
    BY <1>1 DEF EndsSent
  <2>4. QED
    BY <1>5, <2>1, <2>2, <2>3 DEF EndsInv
<1>6. CASE CutOnly
  BY <1>3, <1>4, <1>5, <1>6 DEF CutOnly
<1>7. CASE PromptStart
  BY <1>3, <1>4, <1>5, <1>7 DEF PromptStart, Idle, None
<1>8. CASE CommandStart
  <2>1. resolved' = ResolvedNow /\ due' = due /\ ended' = ended
    BY <1>8 DEF CommandStart
  <2>2. CASE alt
    BY <1>3, <1>4, <1>5, <1>8, <2>1, <2>2 DEF CommandStart
  <2>3. CASE ~alt
    <3>1. /\ exec'.on /\ exec'.of = main.grid[main.cur - 1]
          /\ running' = [on |-> TRUE, calm |-> TRUE, of |-> main.grid[main.cur - 1]]
      BY <1>8, <2>3 DEF CommandStart
    <3>2. QED
      BY <1>3, <1>5, <2>1, <2>3, <3>1
  <2>4. QED
    BY <2>2, <2>3
<1>9. CASE CommandEnd
  <2>1. CASE alt
    <3>1. /\ exec' = ExecNow /\ resolved' = ResolvedNow /\ running' = running
          /\ due' = due /\ ended' = ended
      BY <1>9, <2>1 DEF CommandEnd
    <3>2. QED
      BY <1>3, <1>4, <1>5, <3>1
  <2>2. CASE ~alt
    <3>1. ~running'.on /\ ~running'.calm /\ ~exec'.on
      BY <1>9, <2>2 DEF CommandEnd, None, Idle
    <3> SUFFICES EndsWith(LinesOf(resolved'), due') /\ Len(resolved') <= ended'
      BY <1>5, <2>2, <3>1
    <3>2. CASE ~ExecNow.on
      <4>1. resolved' = ResolvedNow /\ due' = due /\ ended' \in {ended, ended + 1}
        BY <1>3, <1>9, <3>2 DEF CommandEnd
      <4>2. Len(ResolvedNow) \in Nat /\ ended \in Nat
        BY NowShape DEF Shape, RunOK
      <4>3. QED
        BY <1>3, <4>1, <4>2
    <3>3. CASE ExecNow.on
      <4> DEFINE e == [ExecNow EXCEPT !.abs = @ - 1]
      <4>1. resolved' = Append(ResolvedNow, e) /\ ended' = ended + 1
        BY <1>3, <1>9, <2>2, <3>3 DEF CommandEnd
      <4>2. /\ ExecNow \in Command /\ ResolvedNow \in Seq(Command) /\ ended \in Nat
            /\ Len(ResolvedNow) \in Nat
        BY NowShape DEF Shape, RunOK
      <4>3. e \in Command /\ e.of = ExecNow.of
        BY <4>2 DEF Command
      <4> HIDE DEF e
      <4>4. Len(resolved') <= ended'
        BY <1>3, <4>1, <4>2, <4>3, AppendProperties
      <4>5. /\ LinesOf(resolved') = Append(LinesOf(ResolvedNow), ExecNow.of)
            /\ LinesOf(ResolvedNow) \in Seq(Line) /\ ExecNow.of \in Line
        BY <4>1, <4>2, <4>3, LinesAppend, LinesShape DEF Command
      <4>6. CASE running.calm
        <5>1. due' = Append(due, ExecNow.of) /\ due \in Seq(Line)
          BY <1>3, <1>9, <2>2, <4>6 DEF CommandEnd, Shape, RunOK
        <5>2. EndsWith(Append(LinesOf(ResolvedNow), ExecNow.of), Append(due, ExecNow.of))
          BY <1>3, <4>5, <5>1, SuffixGrows
        <5>3. QED
          BY <4>4, <4>5, <5>1, <5>2
      <4>7. CASE ~running.calm
        <5>1. due' = <<>>
          BY <1>3, <1>4, <1>9, <3>3, <4>7 DEF CommandEnd
        <5>2. Append(LinesOf(ResolvedNow), ExecNow.of) \in Seq(Line)
          BY <4>5, AppendProperties
        <5>3. QED
          BY <4>4, <4>5, <5>1, <5>2, EndsWithNothing
      <4>8. QED
        BY <4>6, <4>7
    <3>4. QED
      BY <3>2, <3>3
  <2>3. QED
    BY <2>1, <2>2
<1>10. QED
  BY <1>6, <1>7, <1>8, <1>9

(* The history does not get shorter when a line is printed.                          *)
LEMMA PrintKeeps ==
    ASSUME Shape, PrintLine PROVE Len(hist) <= Len(hist')
<1>1. CASE alt \/ ~Full(main)
  BY <1>1 DEF PrintLine, Shape, TermOK
<1>2. CASE ~alt /\ Full(main)
  <2> DEFINE top == Head([main.grid EXCEPT ![main.cur] = printed'])
             longer == Append(hist, top)
  <2>1. hist' = Newest(longer, HistLimit)
    BY <1>2 DEF PrintLine
  <2>2. top \in Line
    <3>1. GridOK(main) /\ rows \in Nat \ {0} /\ printed' \in Line
      BY EngineAssumption DEF PrintLine, Shape, TermOK, Line
    <3>2. top = Top(main, printed')
      BY <1>2, <3>1, PrintedShape
    <3>3. QED
      BY <3>1, <3>2, TopIsLine
  <2>3. /\ longer \in Seq(Line) /\ Len(longer) = Len(hist) + 1 /\ Len(hist) \in Nat
        /\ HistLimit \in Nat /\ Len(hist) <= HistLimit
    BY <2>2, EngineAssumption, AppendProperties DEF Shape, TermOK
  <2> HIDE DEF top, longer
  <2>4. Len(hist') = IF Len(longer) > HistLimit THEN HistLimit ELSE Len(longer)
    BY <2>1, <2>3, NewestShape
  <2>5. QED
    BY <2>3, <2>4
<1>3. QED
  BY <1>1, <1>2

LEMMA EndsStep == Shape /\ Shape' /\ AltInv /\ EndsInv /\ [Next]_vars => EndsInv'
<1> SUFFICES ASSUME Shape, Shape', AltInv, EndsInv, [Next]_vars PROVE EndsInv'
  OBVIOUS
<1> USE DEF termVars, feedVars, countVars, markVars, cmdVars, clientVars, auxVars
<1>0. running \in [on : BOOLEAN, calm : BOOLEAN, of : Line] /\ exec \in Command
  BY DEF Shape, RunOK, MarkOK
<1>1. CASE UNCHANGED vars
  BY <1>1 DEF vars, EndsInv, EndsSent, EndsWith, LinesOf
<1>2. CASE PrintLine
  <2>1. /\ feeding /\ feeding' /\ UNCHANGED <<alt, feedAlt, segHist, exec, resolved, cmdVars>>
    BY <1>2 DEF PrintLine
  <2>2. segHist <= Len(hist) => segHist' <= Len(hist')
    BY <1>2, <2>1, PrintKeeps DEF Shape, CountOK, TermOK
  <2>3. QED
    BY <2>1, <2>2 DEF EndsInv, EndsSent, EndsWith, LinesOf
<1>3. CASE LeaveAlt
  <2>1. /\ feeding' /\ feeding /\ alt /\ UNCHANGED <<exec, resolved, cmdVars>>
    BY <1>3 DEF LeaveAlt
  <2>2. ~running.calm /\ due = <<>>
    BY <2>1 DEF EndsInv
  <2>3. QED
    BY <2>1, <2>2 DEF EndsInv, EndsSent, EndsWith, LinesOf
\* What disturbs a command leaves nothing due.
<1>4. ASSUME Disturb, exec'.on => exec.on, feeding',
             Len(resolved') <= ended'
      PROVE  EndsInv'
  <2>1. ~running'.calm /\ running'.on = running.on /\ due' = <<>>
    BY <1>0, <1>4 DEF Disturb
  <2>2. exec'.on => running'.on
    BY <1>4, <2>1 DEF EndsInv
  <2>3. EndsWith(LinesOf(resolved), due)'
    <3>1. LinesOf(resolved') \in Seq(Line)
      BY LinesShape DEF Shape, MarkOK
    <3>2. EndsWith(LinesOf(resolved'), <<>>)
      BY <3>1, EndsWithNothing
    <3>3. QED
      BY <2>1, <3>2 DEF EndsWith, LinesOf
  <2>4. EndsSent'
    BY <1>4 DEF EndsSent
  <2>5. QED
    BY <1>4, <2>1, <2>2, <2>3, <2>4 DEF EndsInv
<1>5. CASE ClearHistory
  <2>1. feeding /\ feeding' /\ UNCHANGED <<alt, feedAlt, segHist, exec, resolved>> /\ hist' = <<>>
    BY <1>5 DEF ClearHistory
  <2>2. CASE hist = <<>>
    BY <1>5, <2>1, <2>2 DEF ClearHistory, EndsInv, EndsSent, EndsWith, LinesOf
  <2>3. CASE hist # <<>>
    <3>1. Disturb /\ ended' = ended
      BY <1>5, <2>3 DEF ClearHistory
    <3>2. Len(resolved) <= ended
      BY <2>1 DEF EndsInv
    <3>3. QED
      BY <1>4, <2>1, <3>1, <3>2
  <2>4. QED
    BY <2>2, <2>3
<1>6. CASE EnterAlt
  <2>1. EnterScreen /\ feeding' = feeding
    BY <1>6 DEF EnterAlt
  <2>2. feeding /\ Disturb /\ ended' = ended
    BY <2>1 DEF EnterScreen
  <2>3. exec'.on => exec.on
    BY <1>0, <1>6 DEF EnterAlt, Met, Idle, Command
  <2>4. Len(resolved') <= ended'
    <3>1. Len(resolved) <= ended /\ ended \in Nat
      BY <2>2 DEF EndsInv, Shape, RunOK
    <3>2. resolved' = resolved \/ resolved' = <<>>
      BY <1>6 DEF EnterAlt
    <3>3. QED
      BY <2>2, <3>1, <3>2
  <2>5. QED
    BY <1>4, <2>1, <2>2, <2>3, <2>4
<1>7. CASE EnterAltUnseen
  <2>1. EnterScreen /\ feeding' = feeding /\ resolved' = resolved
    BY <1>7 DEF EnterAltUnseen
  <2>2. feeding /\ Disturb /\ ended' = ended
    BY <2>1 DEF EnterScreen
  <2>3. exec'.on = exec.on
    BY <1>0, <1>7 DEF EnterAltUnseen, Command
  <2>4. Len(resolved) <= ended
    BY <2>2 DEF EndsInv
  <2>5. QED
    BY <1>4, <2>1, <2>2, <2>3, <2>4
<1>8. CASE FeedStart
  <2>1. /\ ~feeding /\ feeding' /\ UNCHANGED <<alt, hist, exec, resolved, running>>
        /\ feedAlt' = alt /\ segHist' = HistorySize /\ due' = <<>> /\ ended' = 0
    BY <1>8 DEF FeedStart
  <2>2. resolved' = <<>> /\ LinesOf(<<>>) = <<>> /\ <<>> \in Seq(Line)
    BY <2>1 DEF AltInv, LinesOf
  <2>3. EndsWith(LinesOf(resolved), due)' /\ Len(resolved') <= ended'
    BY <2>1, <2>2, EndsWithNothing DEF EndsWith, LinesOf
  <2>4. running'.calm => ~alt' /\ ~feedAlt' /\ segHist' <= Len(hist')
    BY <2>1 DEF EndsInv, HistorySize, Shape, TermOK
  <2>5. EndsSent'
    BY <2>1 DEF EndsSent
  <2>6. QED
    BY <2>1, <2>3, <2>4, <2>5 DEF EndsInv
<1>9. CASE CutOnly \/ PromptStart \/ CommandStart \/ CommandEnd
  BY <1>9, EndsCut
<1>10. CASE FeedEnd
  <2>1. /\ feeding /\ ~feeding' /\ ~feedAlt' /\ UNCHANGED <<alt, cmdVars>>
        /\ exec' = ExecNow /\ resolved' = <<>> /\ ends' = ResolvedNow
    BY <1>10 DEF FeedEnd
  <2>2. /\ running.calm => ExecNow.on /\ ExecNow.of = running.of
        /\ ExecNow.on => running.on
        /\ EndsWith(LinesOf(ResolvedNow), due) /\ Len(ResolvedNow) <= ended
    BY <2>1, EndsNow
  <2>3. EndsSent'
    BY <2>1, <2>2 DEF EndsSent, EndsWith, LinesOf
  <2>4. running'.calm \/ due' # <<>> => ~alt' /\ ~feedAlt'
    BY <2>1 DEF EndsInv
  <2>5. QED
    BY <2>1, <2>2, <2>3, <2>4 DEF EndsInv
<1>11. ASSUME NEW n \in Sizes, Resize(n) PROVE EndsInv'
  <2>1. /\ ~feeding' /\ Disturb /\ ended' = 0 /\ exec' = Idle /\ ends' = <<>>
    BY <1>11 DEF Resize, ResizeScreen
  <2>2. ~running'.calm /\ due' = <<>> /\ ~exec'.on
    BY <1>0, <2>1 DEF Disturb, Idle
  <2>3. LinesOf(<<>>) = <<>> /\ <<>> \in Seq(Line) /\ Len(<<>>) = 0
    BY DEF LinesOf
  <2>4. EndsSent'
    BY <2>1, <2>2, <2>3, EndsWithNothing DEF EndsSent, EndsWith, LinesOf
  <2>5. QED
    BY <2>1, <2>2, <2>4 DEF EndsInv
<1>12. QED
  BY <1>1, <1>2, <1>3, <1>5, <1>6, <1>7, <1>8, <1>9, <1>10, <1>11 DEF Next

LEMMA EndsInit == Init => EndsInv
<1> SUFFICES ASSUME Init PROVE EndsInv
  OBVIOUS
<1>1. /\ ~feeding /\ ~running.on /\ ~running.calm /\ ~exec.on /\ due = <<>> /\ ended = 0
      /\ ends = <<>>
  BY DEF Init, None, Idle
<1>2. LinesOf(<<>>) = <<>> /\ <<>> \in Seq(Line) /\ Len(<<>>) = 0
  BY DEF LinesOf
<1>3. EndsSent
  <2>1. EndsWith(LinesOf(ends), due)
    BY <1>1, <1>2, EndsWithNothing
  <2>2. Len(ends) <= ended
    BY <1>1, <1>2
  <2>3. QED
    BY <2>1, <2>2 DEF EndsSent
<1>4. QED
  BY <1>1, <1>3 DEF EndsInv

(* A command that runs undisturbed from its C to the end of the chunk of its D gets   *)
(* its CommandEnd in the frame behind that chunk, in the order of the commands and    *)
(* behind those of commands that were disturbed; there are no more ends than          *)
(* commands that ended (crates/terminal-engine/src/engine.rs, feed;                   *)
(* crates/terminal-engine/src/shell_integration.rs).                                  *)
THEOREM EndsArrive == Spec => []EndsSent
<1>1. EndsInv => EndsSent
  BY DEF EndsInv
<1>2. QED
  BY <1>1, ShapeInit, ShapeStep, AltInit, AltStep, EndsInit, EndsStep, PTL DEF Spec
=============================================================================
