-------------------------- MODULE EngineCodec_proofs --------------------------
(***************************************************************************)
(* What the two encoders guarantee for rows of any width, any characters   *)
(* and styles, and for all keys, characters and places.                    *)
(***************************************************************************)
EXTENDS EngineCodec, SequenceTheorems, TLAPS

-----------------------------------------------------------------------------
(* Rows *)

\* The scan stands on a column of the row or behind its last one.
RowInv ==
    /\ cells \in Seq(Cell) /\ i \in 1..(Len(cells) + 1)
    /\ cells = <<>> => i = 1
    /\ RowRestored

LEMMA RowsAreSeqs == \A r \in Rows : r \in Seq(Cell) /\ Len(r) = Cols
BY RowAssumption DEF Rows

(* An entry that stands for the cells it was made of brings the client to where the *)
(* scan goes on.                                                                    *)
LEMMA PushStep ==
    ASSUME RowInv, NEW end \in Ends, NEW e, Push(end, e), cells # <<>>,
           Expand(e) = SubSeq(cells, i, end - 1)
    PROVE  RowInv'
<1>1. /\ shown = SubSeq(cells, 1, i - 1) /\ shown' = shown \o SubSeq(cells, i, end - 1)
      /\ i' = end /\ cells' = cells
  BY DEF RowInv, RowRestored, Push
<1>2. /\ cells \in Seq(Cell) /\ Len(cells) \in Nat /\ i \in 1..(Len(cells) + 1)
      /\ end \in (i + 1)..(Len(cells) + 1)
  BY DEF RowInv, Ends
<1> DEFINE k == i - 1
           n == end - 1
<1>3. /\ 1 \in 1..(Len(cells) + 1) /\ k \in (1 - 1)..Len(cells) /\ n \in k..Len(cells)
      /\ k + 1 = i
  BY <1>2
<1>4. SubSeq(cells, 1, k) \o SubSeq(cells, k + 1, n) = SubSeq(cells, 1, n)
  <2> HIDE DEF k, n
  <2>1. QED
    BY <1>2, <1>3, ConcatAdjacentSubSeq
<1>5. shown' = SubSeq(cells', 1, i' - 1)
  BY <1>1, <1>3, <1>4
<1>6. QED
  BY <1>1, <1>2, <1>5 DEF RowInv, RowRestored

LEMMA FunctionIsSeq ==
    ASSUME NEW S, NEW m \in Nat, NEW f \in [1..m -> S]
    PROVE  f \in Seq(S) /\ Len(f) = m
OBVIOUS

(* The cells of a run, as a sequence.                                               *)
LEMMA RunCells ==
    ASSUME cells \in Seq(Cell), i \in 1..(Len(cells) + 1), NEW end \in Ends,
           NEW f, f = [k \in 1..(end - i) |-> cells[i + k - 1]]
    PROVE  SubSeq(cells, i, end - 1) = f
<1> DEFINE n == end - 1
<1>1. /\ i \in Nat /\ n \in Nat /\ i >= 1 /\ n <= Len(cells) /\ i <= n /\ n - i + 1 = end - i
      /\ Len(cells) \in Nat /\ end - i \in Nat
  BY DEF Ends
<1>2. \A k \in i..n : cells[k] \in Cell
  <2>1. \A k \in i..n : k \in 1..Len(cells)
    BY <1>1
  <2>2. QED
    BY <2>1, ElementOfSeq
<1> HIDE DEF n
<1>3. /\ SubSeq(cells, i, n) \in Seq(Cell) /\ Len(SubSeq(cells, i, n)) = end - i
      /\ \A k \in 1..(end - i) : SubSeq(cells, i, n)[k] = cells[i + k - 1]
  BY <1>1, <1>2, SubSeqProperties
<1>4. f \in Seq(Cell) /\ Len(f) = end - i
  <2>1. \A k \in 1..(end - i) : i + k - 1 \in i..n
    BY <1>1
  <2>2. f \in [1..(end - i) -> Cell]
    BY <1>2, <2>1
  <2> DEFINE m == end - i
  <2>3. m \in Nat /\ f \in [1..m -> Cell]
    BY <1>1, <2>2
  <2> HIDE DEF m
  <2>4. QED
    BY <2>3, FunctionIsSeq DEF m
<1>5. QED
  <2>1. \A k \in 1..(end - i) : SubSeq(cells, i, n)[k] = f[k]
    BY <1>3
  <2>2. SubSeq(cells, i, n) = f
    BY <1>3, <1>4, <2>1, SeqEqual
  <2>3. QED
    BY <2>2 DEF n

LEMMA RowStep == RowInv /\ [RowNext]_rowVars => RowInv'
<1> SUFFICES ASSUME RowInv, [RowNext]_rowVars PROVE RowInv'
  OBVIOUS
<1>0. /\ cells \in Seq(Cell) /\ i \in 1..(Len(cells) + 1) /\ Len(cells) \in Nat
      /\ DOMAIN cells = 1..Len(cells)
  BY DEF RowInv
<1>1. CASE UNCHANGED rowVars
  BY <1>1 DEF RowInv, RowRestored, rowVars
<1>2. CASE RowBegin
  <2>1. i' = 1 /\ shown' = shown /\ cells' \in Seq(Cell) /\ Len(cells') = Cols /\ i = 1
        /\ cells = <<>>
    BY <1>2, RowsAreSeqs DEF RowBegin, RowInv
  <2>2. shown = <<>>
    BY <2>1, SubSeqEmpty DEF RowInv, RowRestored
  <2>3. SubSeq(cells', 1, i' - 1) = <<>>
    BY <2>1, SubSeqEmpty
  <2>4. 1 \in 1..(Cols + 1)
    BY RowAssumption
  <2>5. QED
    BY <2>1, <2>2, <2>3, <2>4 DEF RowInv, RowRestored
<1>3. CASE RowSent
  <2>1. cells' = <<>> /\ i' = 1 /\ shown' = <<>> /\ Len(<<>>) = 0 /\ <<>> \in Seq(Cell)
    BY <1>3, EmptySeq DEF RowSent
  <2>2. SubSeq(<<>>, 1, 1 - 1) = <<>>
    BY SubSeqEmpty
  <2>3. QED
    BY <2>1, <2>2 DEF RowInv, RowRestored
<1>4. ASSUME NEW end \in Ends, NEW columns, Run(end, columns)
      PROVE  /\ \A k \in 1..(end - i) : i + k - 1 \in columns /\ i + k - 1 \in 1..Len(cells)
             /\ end - i \in Nat /\ 1 \in 1..(end - i) /\ cells # <<>> /\ i \in 1..Len(cells)
  <2>1. end \in (i + 1)..(Len(cells) + 1)
    BY DEF Ends
  <2>2. \A k \in 1..(end - i) : i + k - 1 \in i..(end - 1) /\ i + k - 1 \in 1..Len(cells)
    BY <1>0, <2>1
  <2>3. Len(cells) > 0
    BY <1>0, <2>1
  <2>4. cells # <<>>
    BY <2>3
  <2>5. QED
    BY <1>0, <1>4, <2>1, <2>2, <2>4 DEF Run
<1>5. CASE BlankRun
  <2>1. PICK end \in Ends :
           /\ Run(end, {k \in DOMAIN cells : IsBlank(cells[k])})
           /\ Push(end, [type |-> "blank", count |-> end - i])
    BY <1>5 DEF BlankRun
  <2>2. /\ \A k \in 1..(end - i) : cells[i + k - 1] = BlankCell
        /\ cells # <<>>
    BY <1>4, <2>1 DEF IsBlank
  <2>3. Expand([type |-> "blank", count |-> end - i]) = [k \in 1..(end - i) |-> BlankCell]
    BY DEF Expand
  <2>4. [k \in 1..(end - i) |-> BlankCell] = [k \in 1..(end - i) |-> cells[i + k - 1]]
    BY <2>2
  <2>5. Expand([type |-> "blank", count |-> end - i]) = SubSeq(cells, i, end - 1)
    BY <1>0, <2>3, <2>4, RunCells
  <2>6. QED
    BY <2>1, <2>2, <2>5, PushStep
<1>6. CASE TextRun
  <2>1. PICK end \in Ends :
           /\ Run(end, {k \in DOMAIN cells : SameText(cells[k])})
           /\ Push(end, [type  |-> "text",
                         s     |-> [k \in 1..end-i |-> cells[i+k-1].ch],
                         style |-> cells[i].style])
    BY <1>6 DEF TextRun
  <2> DEFINE n == end - i
             s == [k \in 1..n |-> cells[i + k - 1].ch]
             e == [type |-> "text", s |-> s, style |-> cells[i].style]
  <2>2. /\ \A k \in 1..n : SameText(cells[i + k - 1]) /\ cells[i + k - 1] \in Cell
        /\ cells # <<>> /\ n \in Nat
    BY <1>0, <1>4, <2>1, ElementOfSeq
  <2>3. \A k \in 1..n : cells[i + k - 1]
                          = [ch |-> cells[i + k - 1].ch, style |-> cells[i].style, kind |-> "single"]
    <3>1. ASSUME NEW c \in Cell, SameText(c)
          PROVE  c = [ch |-> c.ch, style |-> cells[i].style, kind |-> "single"]
      BY <3>1 DEF Cell, SameText, IsText
    <3>2. QED
      BY <2>2, <3>1
  <2>4. Len(s) = n
    BY <2>2
  <2>5. Expand(e) = [k \in 1..n |-> [ch |-> s[k], style |-> cells[i].style, kind |-> "single"]]
    <3> HIDE DEF s, n
    <3>1. e.type = "text" /\ e.s = s /\ e.style = cells[i].style
      OBVIOUS
    <3> HIDE DEF e
    <3>2. Expand(e) = [k \in 1..Len(e.s) |-> [ch |-> e.s[k], style |-> e.style, kind |-> "single"]]
      BY <3>1 DEF Expand
    <3>3. QED
      BY <2>4, <3>1, <3>2
  <2>6. Expand(e) = [k \in 1..n |-> cells[i + k - 1]]
    <3>1. \A k \in 1..n : [ch |-> s[k], style |-> cells[i].style, kind |-> "single"] = cells[i + k - 1]
      BY <2>3
    <3>2. QED
      BY <2>5, <3>1
  <2> HIDE DEF e, s
  <2>7. Expand(e) = SubSeq(cells, i, end - 1)
    BY <1>0, <2>6, RunCells
  <2>8. Push(end, e)
    BY <2>1 DEF e, s
  <2>9. QED
    BY <2>2, <2>7, <2>8, PushStep
<1>7. CASE CellsRun
  <2>1. PICK end \in Ends :
           /\ Run(end, {k \in DOMAIN cells : IsOther(cells[k])})
           /\ Push(end, [type |-> "cells", cells |-> SubSeq(cells, i, end - 1)])
    BY <1>7 DEF CellsRun
  <2>2. cells # <<>>
    BY <1>4, <2>1
  <2>3. Expand([type |-> "cells", cells |-> SubSeq(cells, i, end - 1)]) = SubSeq(cells, i, end - 1)
    BY DEF Expand
  <2>4. QED
    BY <2>1, <2>2, <2>3, PushStep
<1>8. QED
  BY <1>1, <1>2, <1>3, <1>5, <1>6, <1>7 DEF RowNext

(* What the client gets of a row are its cells, each in its column, for every row   *)
(* that a terminal can have (crates/terminal-protocol/src/encoder.rs, encode_row).  *)
THEOREM RowArrives == CodecSpec => []RowRestored
<1>1. CodecInit => RowInv
  <2> SUFFICES ASSUME CodecInit PROVE RowInv
    OBVIOUS
  <2>1. cells = <<>> /\ i = 1 /\ shown = <<>> /\ Len(<<>>) = 0 /\ <<>> \in Seq(Cell)
    BY EmptySeq DEF CodecInit, RowInit
  <2>2. SubSeq(<<>>, 1, 1 - 1) = <<>>
    BY SubSeqEmpty
  <2>3. QED
    BY <2>1, <2>2 DEF RowInv, RowRestored
<1>2. [CodecNext]_codecVars => [RowNext]_rowVars
  BY DEF CodecNext, HandleTransportEvent, HandleSessionInput, codecVars
<1>3. RowInv => RowRestored
  BY DEF RowInv
<1>4. QED
  BY <1>1, <1>2, <1>3, RowStep, PTL DEF CodecSpec

-----------------------------------------------------------------------------
(* Modifiers *)

(* The three bits of the parameter, and of the button code above its low part, are   *)
(* the modifiers.                                                                    *)
LEMMA BitsAreMods ==
    ASSUME NEW mods \in SUBSET Modifiers, NEW k \in {0, 1, 2}
    PROVE  /\ ModParam(mods) - 1 \in 0..7
           /\ ModBits(8 * k + (ModParam(mods) - 1), "shift", "alt", "ctrl") = mods
<1> DEFINE s == IF "shift" \in mods THEN 1 ELSE 0
           a == IF "alt" \in mods THEN 2 ELSE 0
           c == IF "ctrl" \in mods THEN 4 ELSE 0
           n == 8 * k + (ModParam(mods) - 1)
<1>1. ModParam(mods) = 1 + s + a + c /\ s \in {0, 1} /\ a \in {0, 2} /\ c \in {0, 4}
  BY DEF ModParam
<1>2. ("shift" \in mods <=> s = 1) /\ ("alt" \in mods <=> a = 2) /\ ("ctrl" \in mods <=> c = 4)
  OBVIOUS
<1> HIDE DEF s, a, c
<1>3. n = 8 * k + s + a + c /\ ModParam(mods) - 1 \in 0..7
  BY <1>1
<1> HIDE DEF n
<1>4. /\ n % 2 = 1 <=> s = 1
      /\ (n \div 2) % 2 = 1 <=> a = 2
      /\ (n \div 4) % 2 = 1 <=> c = 4
  BY <1>1, <1>3
<1>5. ModBits(n, "shift", "alt", "ctrl") = mods
  <2>1. \A b \in Modifiers :
          b \in ModBits(n, "shift", "alt", "ctrl") <=> b \in mods
    BY <1>2, <1>4 DEF ModBits, Modifiers
  <2>2. QED
    BY <2>1 DEF ModBits
<1>6. QED
  BY <1>3, <1>5 DEF n

(* What an application makes of the modifiers of a key.                              *)
LEMMA ModsRead ==
    ASSUME NEW mods \in SUBSET Modifiers, NEW s,
           \/ mods = {} /\ Len(s.nums) # 2
           \/ Len(s.nums) = 2 /\ s.nums[2] = ModParam(mods)
    PROVE  KeyMods(s) = mods
<1>1. ModBits(8 * 0 + (ModParam(mods) - 1), "shift", "alt", "ctrl") = mods
      /\ ModParam(mods) - 1 \in 0..7
  BY BitsAreMods
<1>2. 8 * 0 + (ModParam(mods) - 1) = ModParam(mods) - 1
  BY <1>1
<1>3. QED
  BY <1>1, <1>2 DEF KeyMods

-----------------------------------------------------------------------------
(* Keys *)

(* A letter stands for one key.                                                      *)
LEMMA CursorPressed ==
    ASSUME NEW k \in DOMAIN CursorKey, NEW s, s.final = CursorKey[k]
    PROVE  Pressed(s) = {[type |-> "key", name |-> k]} /\ s.final \notin {"I", "M", "m", "Z"}
<1>1. DOMAIN CursorKey = {"up", "down", "right", "left", "end", "home"}
  BY DEF CursorKey
<1>2. QED
  BY <1>1 DEF Pressed, Named, Numbered, CursorKey, TildeKey, FunctionLetter

LEMMA FunctionPressed ==
    ASSUME NEW n \in 1..4, NEW s, s.final = FunctionLetter[n]
    PROVE  Pressed(s) = {[type |-> "F", n |-> n]} /\ s.final \notin {"I", "M", "m", "Z"}
<1>1. n \in {1, 2, 3, 4}
  OBVIOUS
<1>2. QED
  BY <1>1 DEF Pressed, Named, Numbered, CursorKey, TildeKey, FunctionLetter

LEMMA TildePressed ==
    ASSUME NEW k \in DOMAIN TildeKey, NEW s, s.final = "~", s.nums[1] = TildeKey[k]
    PROVE  Pressed(s) = {[type |-> "key", name |-> k]}
BY DEF Pressed, Named, Numbered, CursorKey, TildeKey, FunctionLetter, XtermFunction

LEMMA HighFunctionPressed ==
    ASSUME NEW n \in 5..12, NEW s, s.final = "~", s.nums[1] = FunctionCode[n]
    PROVE  Pressed(s) = {[type |-> "F", n |-> n]}
<1>1. n \in {5, 6, 7, 8, 9, 10, 11, 12}
  OBVIOUS
<1>2. QED
  BY <1>1 DEF Pressed, Named, Numbered, CursorKey, TildeKey, FunctionLetter, FunctionCode,
     XtermFunction

LEMMA TabPressed ==
    ASSUME NEW s, s.final = "Z"
    PROVE  Pressed(s) = {[type |-> "key", name |-> "tab"]}
BY DEF Pressed, Named, Numbered, CursorKey, TildeKey, FunctionLetter

\* What an application is to make of the bytes of a key.
KeyOK(s, key, mods) ==
    /\ s.intro \in {"[", "O"} /\ s.final \notin {"I", "M", "m"}
    /\ Pressed(s) = {key}
    /\ KeyMods(s) = (IF s.final = "Z" THEN {} ELSE mods)

LEMMA LetteredSent ==
    ASSUME NEW letter, NEW mods \in SUBSET Modifiers, NEW plain,
           plain = Csi(<<>>, letter) \/ plain = Ss3(letter)
    PROVE  /\ Lettered(letter, mods, plain).intro \in {"[", "O"}
           /\ Lettered(letter, mods, plain).final = letter
           /\ KeyMods(Lettered(letter, mods, plain)) = mods
<1> DEFINE s == Lettered(letter, mods, plain)
<1>1. CASE mods = {}
  <2>1. s = plain /\ s.nums = <<>> /\ s.final = letter /\ s.intro \in {"[", "O"}
    BY <1>1 DEF Lettered, Csi, Ss3
  <2> HIDE DEF s
  <2>2. Len(s.nums) # 2
    BY <2>1
  <2>3. KeyMods(s) = mods
    BY <1>1, <2>2, ModsRead
  <2>4. QED
    BY <2>1, <2>3 DEF s
<1>2. CASE mods # {}
  <2>1. s.nums = <<1, ModParam(mods)>> /\ s.final = letter /\ s.intro = "["
    BY <1>2 DEF Lettered, Csi
  <2> HIDE DEF s
  <2>2. Len(s.nums) = 2 /\ s.nums[2] = ModParam(mods)
    BY <2>1
  <2>3. KeyMods(s) = mods
    BY <2>2, ModsRead
  <2>4. QED
    BY <2>1, <2>3 DEF s
<1>3. QED
  BY <1>1, <1>2

LEMMA TildeSent ==
    ASSUME NEW n, NEW mods \in SUBSET Modifiers
    PROVE  /\ Tilde(n, mods).intro = "[" /\ Tilde(n, mods).final = "~"
           /\ Tilde(n, mods).nums[1] = n /\ KeyMods(Tilde(n, mods)) = mods
<1> DEFINE s == Tilde(n, mods)
<1>1. CASE mods = {}
  <2>1. s.nums = <<n>> /\ s.final = "~" /\ s.intro = "["
    BY <1>1 DEF Tilde, Csi
  <2> HIDE DEF s
  <2>2. Len(s.nums) # 2 /\ s.nums[1] = n
    BY <2>1
  <2>3. KeyMods(s) = mods
    BY <1>1, <2>2, ModsRead
  <2>4. QED
    BY <2>1, <2>2, <2>3 DEF s
<1>2. CASE mods # {}
  <2>1. s.nums = <<n, ModParam(mods)>> /\ s.final = "~" /\ s.intro = "["
    BY <1>2 DEF Tilde, Csi
  <2> HIDE DEF s
  <2>2. Len(s.nums) = 2 /\ s.nums[2] = ModParam(mods) /\ s.nums[1] = n
    BY <2>1
  <2>3. KeyMods(s) = mods
    BY <2>2, ModsRead
  <2>4. QED
    BY <2>1, <2>2, <2>3 DEF s
<1>3. QED
  BY <1>1, <1>2

\* A key that the application does not get as a character.
IsFunctional(key, mods) ==
    \/ key.type = "key" /\ key.name \in DOMAIN CursorKey \cup DOMAIN TildeKey
    \/ key = [type |-> "key", name |-> "tab"] /\ mods = {"shift"}
    \/ key.type = "F" /\ key.n \in 1..12

(* Every such key is sent as a sequence that an application takes for this key with  *)
(* these modifiers, in both cursor modes.                                            *)
LEMMA KeySent ==
    ASSUME NEW key \in Keys, NEW mods \in SUBSET Modifiers, IsFunctional(key, mods)
    PROVE  KeyOK(EncodeKey(key, mods), key, mods)
<1>1. ASSUME NEW k \in DOMAIN CursorKey, key = [type |-> "key", name |-> k]
      PROVE  KeyOK(EncodeKey(key, mods), key, mods)
  <2> DEFINE plain == IF modes.appCursor THEN Ss3(CursorKey[k]) ELSE Csi(<<>>, CursorKey[k])
             s == Lettered(CursorKey[k], mods, plain)
  <2>1. k \in {"up", "down", "right", "left", "end", "home"}
    BY <1>1 DEF CursorKey
  <2>2. EncodeKey(key, mods) = s
    <3>1. EncodeKey(key, mods) = EncodeName(k, mods)
      BY <1>1 DEF EncodeKey
    <3>2. k \notin DOMAIN PlainKey /\ k # "tab" /\ k \notin DOMAIN TildeKey
      BY <2>1 DEF PlainKey, TildeKey
    <3>3. EncodeName(k, mods) = s
      BY <1>1, <3>2 DEF EncodeName
    <3>4. QED
      BY <3>1, <3>3
  <2>3. plain = Csi(<<>>, CursorKey[k]) \/ plain = Ss3(CursorKey[k])
    OBVIOUS
  <2> HIDE DEF plain
  <2>4. s.intro \in {"[", "O"} /\ s.final = CursorKey[k] /\ KeyMods(s) = mods
    BY <2>3, LetteredSent
  <2> HIDE DEF s
  <2>5. Pressed(s) = {key} /\ s.final \notin {"I", "M", "m", "Z"}
    BY <1>1, <2>4, CursorPressed
  <2>6. QED
    BY <2>2, <2>4, <2>5 DEF KeyOK
<1>2. ASSUME NEW k \in DOMAIN TildeKey, key = [type |-> "key", name |-> k]
      PROVE  KeyOK(EncodeKey(key, mods), key, mods)
  <2> DEFINE s == Tilde(TildeKey[k], mods)
  <2>1. k \in {"insert", "delete", "pageUp", "pageDown"}
    BY <1>2 DEF TildeKey
  <2>2. EncodeKey(key, mods) = s
    <3>1. EncodeKey(key, mods) = EncodeName(k, mods)
      BY <1>2 DEF EncodeKey
    <3>2. k \notin DOMAIN PlainKey /\ k # "tab" /\ k \notin DOMAIN CursorKey
      BY <2>1 DEF PlainKey, CursorKey
    <3>3. EncodeName(k, mods) = s
      BY <1>2, <3>2 DEF EncodeName
    <3>4. QED
      BY <3>1, <3>3
  <2>3. /\ s.intro = "[" /\ s.final = "~" /\ s.nums[1] = TildeKey[k] /\ KeyMods(s) = mods
    BY TildeSent
  <2> HIDE DEF s
  <2>4. Pressed(s) = {key}
    BY <1>2, <2>3, TildePressed
  <2>5. QED
    BY <2>2, <2>3, <2>4 DEF KeyOK
<1>3. CASE key = [type |-> "key", name |-> "tab"] /\ mods = {"shift"}
  <2>1. EncodeKey(key, mods) = Csi(<<>>, "Z")
    <3>1. EncodeKey(key, mods) = EncodeName("tab", mods)
      BY <1>3 DEF EncodeKey
    <3>2. "tab" \notin DOMAIN PlainKey \cup DOMAIN CursorKey \cup DOMAIN TildeKey
      BY DEF PlainKey, CursorKey, TildeKey
    <3>3. EncodeName("tab", mods) = Csi(<<>>, "Z")
      BY <1>3, <3>2 DEF EncodeName
    <3>4. QED
      BY <3>1, <3>3
  <2> DEFINE s == Csi(<<>>, "Z")
  <2>2. s.nums = <<>> /\ s.final = "Z" /\ s.intro = "["
    BY DEF Csi
  <2> HIDE DEF s
  <2>3. KeyMods(s) = {}
    <3>1. Len(s.nums) # 2
      BY <2>2
    <3>2. QED
      BY <3>1 DEF KeyMods
  <2>4. Pressed(s) = {key}
    BY <1>3, <2>2, TabPressed
  <2>5. QED
    BY <2>1, <2>2, <2>3, <2>4 DEF KeyOK, s
<1>4. ASSUME NEW n \in 1..12, key = [type |-> "F", n |-> n]
      PROVE  KeyOK(EncodeKey(key, mods), key, mods)
  <2>1. EncodeKey(key, mods) = EncodeFunctionKey(n, mods)
    BY <1>4 DEF EncodeKey
  <2>2. CASE n <= 4
    <3> DEFINE plain == Ss3(FunctionLetter[n])
               s == Lettered(FunctionLetter[n], mods, plain)
    <3>1. EncodeFunctionKey(n, mods) = s /\ n \in 1..4
      BY <2>2 DEF EncodeFunctionKey
    <3>2. s.intro \in {"[", "O"} /\ s.final = FunctionLetter[n] /\ KeyMods(s) = mods
      BY LetteredSent
    <3> HIDE DEF s
    <3>3. Pressed(s) = {key} /\ s.final \notin {"I", "M", "m", "Z"}
      BY <1>4, <3>1, <3>2, FunctionPressed
    <3>4. QED
      BY <2>1, <3>1, <3>2, <3>3 DEF KeyOK
  <2>3. CASE ~(n <= 4)
    <3> DEFINE s == Tilde(FunctionCode[n], mods)
    <3>1. EncodeFunctionKey(n, mods) = s /\ n \in 5..12
      BY <2>3 DEF EncodeFunctionKey
    <3>2. s.intro = "[" /\ s.final = "~" /\ s.nums[1] = FunctionCode[n] /\ KeyMods(s) = mods
      BY TildeSent
    <3> HIDE DEF s
    <3>3. Pressed(s) = {key}
      BY <1>4, <3>1, <3>2, HighFunctionPressed
    <3>4. QED
      BY <2>1, <3>1, <3>2, <3>3 DEF KeyOK
  <2>4. QED
    BY <2>2, <2>3
<1>5. CASE key.type = "key" /\ key.name \in DOMAIN CursorKey \cup DOMAIN TildeKey
  <2>1. key = [type |-> "key", name |-> key.name]
    BY <1>5 DEF Keys, Named, Numbered
  <2>2. QED
    BY <1>1, <1>2, <1>5, <2>1
<1>6. CASE key.type = "F" /\ key.n \in 1..12
  <2>1. key = [type |-> "F", n |-> key.n]
    BY <1>6 DEF Keys, Named, Numbered
  <2>2. QED
    BY <1>4, <1>6, <2>1
<1>7. QED
  BY <1>3, <1>5, <1>6 DEF IsFunctional

-----------------------------------------------------------------------------
(* The mouse *)

\* The button code without the modifiers.
Base(kind) ==
    CASE kind.do \in {"press", "release"} -> ButtonBase[kind.button]
      [] kind.do = "drag"      -> ButtonBase[kind.button] + 32
      [] kind.do = "motion"    -> 35
      [] kind.do = "wheelUp"   -> 64
      [] kind.do = "wheelDown" -> 65

Bases == {0, 1, 2, 3, 32, 33, 34, 35, 64, 65}

(* A button code is a base and the modifiers above its two low bits; both can be told *)
(* from it.                                                                           *)
LEMMA CodeSplits ==
    ASSUME NEW b \in Bases, NEW mods \in SUBSET Modifiers, NEW code,
           code = b + 4 * (ModParam(mods) - 1)
    PROVE  /\ code \in Nat /\ code % 4 = b % 4
           /\ (code >= 64 <=> b >= 64) /\ (code \in 32..63 <=> b \in 32..63)
           /\ (code < 32 <=> b < 32)
           /\ (code \div 4) * 4 + 3 = 3 + 4 * (ModParam(mods) - 1)
              \/ b \notin {0, 1, 2}
           /\ ModBits(code \div 4, "shift", "alt", "ctrl") = mods
<1> DEFINE m == ModParam(mods) - 1
           k == IF b < 32 THEN 0 ELSE IF b < 64 THEN 1 ELSE 2
<1>1. m \in 0..7
  BY BitsAreMods
<1>2. code = b + 4 * m
  OBVIOUS
<1> HIDE DEF m
<1>3. /\ code \in Nat /\ code % 4 = b % 4
      /\ (code >= 64 <=> b >= 64) /\ (code \in 32..63 <=> b \in 32..63) /\ (code < 32 <=> b < 32)
  BY <1>1, <1>2 DEF Bases
<1>4. code \div 4 = 8 * k + m /\ k \in {0, 1, 2}
  BY <1>1, <1>2 DEF Bases
<1>5. (code \div 4) * 4 + 3 = 3 + 4 * m \/ b \notin {0, 1, 2}
  BY <1>1, <1>4
<1>6. ModBits(8 * k + m, "shift", "alt", "ctrl") = mods
  <2> HIDE DEF k
  <2>1. QED
    BY <1>4, BitsAreMods DEF m
<1>7. QED
  <2> HIDE DEF k
  <2>1. QED
    BY <1>3, <1>4, <1>5, <1>6 DEF m

LEMMA CodeOfKind ==
    ASSUME NEW kind \in Kinds, NEW mods \in SUBSET Modifiers
    PROVE  ButtonCode(kind, mods) = Base(kind) + 4 * (ModParam(mods) - 1) /\ Base(kind) \in Bases
<1>1. Base(kind) \in Bases
  BY DEF Base, Bases, Kinds, Buttons, ButtonBase
<1>2. ButtonCode(kind, mods) = Base(kind) + (IF "shift" \in mods THEN 4 ELSE 0)
        + (IF "alt" \in mods THEN 8 ELSE 0) + (IF "ctrl" \in mods THEN 16 ELSE 0)
  BY DEF ButtonCode, Base, Kinds
<1>3. QED
  <2>1. Base(kind) \in Nat
    BY <1>1 DEF Bases
  <2> HIDE DEF Base
  <2>2. QED
    BY <1>1, <1>2, <2>1 DEF ModParam

\* What an application is to make of a report: the event that its code and its final
\* letter stand for, and all of the report.
Happened(code, final, kind) ==
    LET low == code % 4
    IN CASE code >= 64 -> kind.do = (IF low = 0 THEN "wheelUp" ELSE "wheelDown")
         [] code \in 32..63 /\ low = 3 -> kind.do = "motion" /\ modes.mouse = "any"
         [] code \in 32..63 /\ low # 3 ->
               /\ kind.do = "drag" /\ ButtonBase[kind.button] = low
               /\ modes.mouse \in {"button", "any"}
         [] code < 32 /\ low = 3 -> kind.do = "release" /\ ~modes.sgr
         [] OTHER -> /\ kind.do = (IF final = "m" THEN "release" ELSE "press")
                     /\ ButtonBase[kind.button] = low

ReportOK(s, kind, mods, col, row) ==
    LET off  == IF modes.sgr THEN 0 ELSE 32
        code == s.nums[1] - off
    IN /\ modes.mouse # "off"
       /\ <<s.nums[2] - off, s.nums[3] - off>> = <<col, row>>
       /\ ModBits(code \div 4, "shift", "alt", "ctrl") = mods
       /\ Happened(code, s.final, kind)

(* The code of a report, the modifiers apart, tells what happened.                    *)
LEMMA KindRead ==
    ASSUME modes \in Modes, NEW kind \in Kinds, Reported(kind), NEW code \in Nat, NEW b \in Bases,
           code % 4 = b % 4, code >= 64 <=> b >= 64, code \in 32..63 <=> b \in 32..63,
           code < 32 <=> b < 32, NEW final,
           b = IF kind.do = "release" /\ ~modes.sgr THEN 3 ELSE Base(kind),
           kind.do \in {"press", "release"} /\ b # 3 => (final = "m" <=> kind.do = "release")
    PROVE  Happened(code, final, kind)
<1> DEFINE low == code % 4
<1>1. /\ kind.do \in {"press", "release", "drag", "motion", "wheelUp", "wheelDown"}
      /\ kind.do \in {"press", "release", "drag"} =>
            ButtonBase[kind.button] \in {0, 1, 2}
      /\ modes.sgr \in BOOLEAN /\ modes.mouse \in {"off", "normal", "button", "any"}
  BY DEF Kinds, Buttons, ButtonBase, Modes
<1>2. CASE kind.do = "press" \/ (kind.do = "release" /\ modes.sgr)
  <2>1. b = ButtonBase[kind.button] /\ b \in {0, 1, 2}
    BY <1>1, <1>2 DEF Base
  <2>2. low = b /\ code < 32 /\ ~(code >= 64) /\ code \notin 32..63 /\ low # 3
    BY <2>1
  <2>3. kind.do = (IF final = "m" THEN "release" ELSE "press")
    BY <1>2, <2>1
  <2> HIDE DEF low
  <2>4. QED
    BY <2>1, <2>2, <2>3 DEF Happened, low
<1>3. CASE kind.do = "release" /\ ~modes.sgr
  <2>1. low = 3 /\ code < 32 /\ ~(code >= 64) /\ code \notin 32..63
    BY <1>3
  <2>2. QED
    BY <1>3, <2>1 DEF Happened
<1>4. CASE kind.do = "drag"
  <2>1. b = ButtonBase[kind.button] + 32 /\ b \in {32, 33, 34} /\ ButtonBase[kind.button] \in {0, 1, 2}
    BY <1>1, <1>4 DEF Base
  <2>2. /\ low = ButtonBase[kind.button] /\ code \in 32..63 /\ ~(code >= 64) /\ ~(code < 32)
        /\ low # 3
    BY <2>1
  <2>3. modes.mouse \in {"button", "any"}
    BY <1>1, <1>4 DEF Reported
  <2> HIDE DEF low
  <2>4. QED
    BY <1>4, <2>2, <2>3 DEF Happened, low
<1>5. CASE kind.do = "motion"
  <2>1. b = 35
    BY <1>5 DEF Base
  <2>2. low = 3 /\ code \in 32..63 /\ ~(code >= 64) /\ ~(code < 32)
    BY <2>1
  <2>3. modes.mouse = "any"
    BY <1>5 DEF Reported
  <2> HIDE DEF low
  <2>4. QED
    BY <1>5, <2>2, <2>3 DEF Happened, low
<1>6. CASE kind.do \in {"wheelUp", "wheelDown"}
  <2>1. b = IF kind.do = "wheelUp" THEN 64 ELSE 65
    BY <1>6 DEF Base
  <2>2. (low = 0 <=> kind.do = "wheelUp") /\ code >= 64 /\ code \notin 32..63 /\ ~(code < 32)
    BY <1>6, <2>1
  <2> HIDE DEF low
  <2>3. QED
    BY <1>6, <2>2 DEF Happened, low
<1>7. QED
  BY <1>1, <1>2, <1>3, <1>4, <1>5, <1>6

(* A report that is sent is one the application has asked for and can read back.      *)
LEMMA MouseSent ==
    ASSUME modes \in Modes, NEW kind \in Kinds, NEW mods \in SUBSET Modifiers,
           NEW col \in Places, NEW row \in Places, EncodeMouse(kind, mods, col, row) # None
    PROVE  ReportOK(EncodeMouse(kind, mods, col, row), kind, mods, col, row)
<1> DEFINE s == EncodeMouse(kind, mods, col, row)
           m == ModParam(mods) - 1
<1>1. Reported(kind) /\ modes.mouse # "off"
  BY DEF EncodeMouse, Reported
<1>2. ButtonCode(kind, mods) = Base(kind) + 4 * m /\ Base(kind) \in Bases /\ m \in 0..7
  BY CodeOfKind, BitsAreMods
<1>3. col \in Nat /\ row \in Nat /\ modes.sgr \in BOOLEAN
  BY InputAssumption DEF Modes
<1>4. CASE modes.sgr
  <2> DEFINE code == ButtonCode(kind, mods)
  <2>1. /\ s = Sgr(kind, mods, col, row)
        /\ s.nums = <<code, col, row>>
        /\ s.final = (IF kind.do = "release" THEN "m" ELSE "M")
    BY <1>1, <1>4 DEF EncodeMouse, Sgr
  <2> HIDE DEF s, code
  <2>2. /\ code \in Nat /\ code % 4 = Base(kind) % 4
        /\ (code >= 64 <=> Base(kind) >= 64) /\ (code \in 32..63 <=> Base(kind) \in 32..63)
        /\ (code < 32 <=> Base(kind) < 32)
        /\ ModBits(code \div 4, "shift", "alt", "ctrl") = mods
    BY <1>2, CodeSplits DEF code
  <2>3. Happened(code, s.final, kind)
    BY <1>1, <1>2, <1>4, <2>1, <2>2, KindRead
  <2>4. s.nums[1] - 0 = code /\ s.nums[2] - 0 = col /\ s.nums[3] - 0 = row
    <3>1. s.nums[1] = code /\ s.nums[2] = col /\ s.nums[3] = row
      BY <2>1
    <3>2. QED
      BY <1>3, <2>2, <3>1
  <2>5. QED
    BY <1>1, <1>4, <2>2, <2>3, <2>4 DEF ReportOK, s
<1>5. CASE ~modes.sgr
  <2> DEFINE code == X10Button(kind, mods)
             b    == IF kind.do = "release" THEN 3 ELSE Base(kind)
  <2>1. /\ s.nums = <<code + 32, (col + 32) % 256, (row + 32) % 256>> /\ s.final = ""
        /\ col <= 223 /\ row <= 223
    <3> DEFINE x == (col + 32) % 256
               y == (row + 32) % 256
    <3>1. s = X10(kind, mods, col, row) /\ X10(kind, mods, col, row) # None
      BY <1>1, <1>5 DEF EncodeMouse
    <3>2. ~(col > 223 \/ row > 223)
      BY <3>1 DEF X10
    <3>3. s = [esc |-> TRUE, intro |-> "[M", final |-> "", nums |-> <<code + 32, x, y>>]
      BY <3>1, <3>2, Zenon DEF X10
    <3> HIDE DEF s, code, x, y
    <3>4. s.nums = <<code + 32, x, y>> /\ s.final = ""
      BY <3>3
    <3>5. col <= 223 /\ row <= 223
      BY <1>3, <3>2
    <3>6. QED
      BY <3>4, <3>5 DEF x, y
  <2>2. b \in Bases /\ code = b + 4 * m
    <3>1. CASE kind.do = "release"
      <4>1. Base(kind) \in {0, 1, 2}
        BY <3>1 DEF Base, Kinds, Buttons, ButtonBase
      <4>2. code = (ButtonCode(kind, mods) \div 4) * 4 + 3
        BY <3>1 DEF X10Button
      <4>3. (ButtonCode(kind, mods) \div 4) * 4 + 3 = 3 + 4 * m
        BY <1>2, <4>1, CodeSplits
      <4>4. QED
        BY <3>1, <4>2, <4>3 DEF Bases
    <3>2. CASE kind.do # "release"
      BY <1>2, <3>2 DEF X10Button
    <3>3. QED
      BY <3>1, <3>2
  <2> HIDE DEF s, code
  <2>3. /\ code \in Nat /\ code % 4 = b % 4
        /\ (code >= 64 <=> b >= 64) /\ (code \in 32..63 <=> b \in 32..63)
        /\ (code < 32 <=> b < 32)
        /\ ModBits(code \div 4, "shift", "alt", "ctrl") = mods
    <3> HIDE DEF b
    <3>1. QED
      BY <2>2, CodeSplits DEF m
  <2>4. Happened(code, s.final, kind)
    <3>1. kind.do = "release" => b = 3
      OBVIOUS
    <3>2. b = IF kind.do = "release" /\ ~modes.sgr THEN 3 ELSE Base(kind)
      BY <1>5
    <3> HIDE DEF b
    <3>3. kind.do \in {"press", "release"} /\ b # 3 => (s.final = "m" <=> kind.do = "release")
      BY <2>1, <3>1
    <3>4. QED
      BY <1>1, <2>2, <2>3, <3>2, <3>3, KindRead
  <2>5. s.nums[1] - 32 = code /\ s.nums[2] - 32 = col /\ s.nums[3] - 32 = row
    <3>1. ASSUME NEW c \in Nat, c <= 223 PROVE (c + 32) % 256 = c + 32
      BY <3>1
    <3>2. (col + 32) % 256 = col + 32 /\ (row + 32) % 256 = row + 32
      BY <1>3, <2>1, <3>1
    <3>3. s.nums = <<code + 32, col + 32, row + 32>>
      BY <2>1, <3>2
    <3>4. s.nums[1] = code + 32 /\ s.nums[2] = col + 32 /\ s.nums[3] = row + 32
      BY <3>3
    <3>5. QED
      BY <1>3, <2>3, <3>4
  <2>6. QED
    BY <1>1, <1>5, <2>3, <2>4, <2>5 DEF ReportOK, s
<1>6. QED
  BY <1>4, <1>5

-----------------------------------------------------------------------------
(* What the application reads *)

InputInv == modes \in Modes /\ InputRead

LEMMA InputStep == InputInv /\ [InputNext]_inputVars => InputInv'
<1> SUFFICES ASSUME InputInv, [InputNext]_inputVars PROVE InputInv'
  OBVIOUS
<1>1. CASE UNCHANGED inputVars
  BY <1>1 DEF InputInv, InputRead, KeyRead, MouseRead, AsCharacter, inputVars
<1>2. CASE SetModes \/ AppReads
  <2>1. event' = None /\ modes' \in Modes
    BY <1>2 DEF SetModes, AppReads, InputInv
  <2>2. QED
    BY <2>1 DEF InputInv, InputRead, KeyRead, MouseRead
<1>3. CASE Key
  <2>1. PICK key \in Keys, mods \in SUBSET Modifiers :
           /\ event' = [type |-> "key", key |-> key, mods |-> mods]
           /\ sent' = EncodeKey(key, mods)
    BY <1>3 DEF Key
  <2>2. modes' = modes /\ modes \in Modes
    BY <1>3 DEF Key, InputInv
  <2>3. event'.type = "key" /\ event'.key = key /\ event'.mods = mods
    BY <2>1
  <2>4. ASSUME ~AsCharacter(event.key)' PROVE KeyOK(sent', key, mods)
    <3>1. /\ key.type # "char" /\ ~(key.type = "key" /\ key.name \in DOMAIN PlainKey)
          /\ (key = [type |-> "key", name |-> "tab"] => mods = {"shift"})
      BY <2>3, <2>4 DEF AsCharacter
    <3>2. IsFunctional(key, mods)
      <4>1. CASE key.type = "key"
        <5>1. key = [type |-> "key", name |-> key.name] /\ key.name \in Names
          BY <4>1 DEF Keys, Named, Numbered
        <5>2. QED
          BY <3>1, <4>1, <5>1 DEF IsFunctional, Names
      <4>2. CASE key.type # "key"
        BY <3>1, <4>2 DEF Keys, Named, Numbered, IsFunctional
      <4>3. QED
        BY <4>1, <4>2
    <3>3. QED
      BY <2>1, <3>2, KeySent
  <2>5. KeyRead'
    BY <2>3, <2>4 DEF KeyRead, KeyOK
  <2>6. MouseRead'
    BY <2>3 DEF MouseRead
  <2>7. QED
    BY <2>2, <2>5, <2>6 DEF InputInv, InputRead
<1>4. CASE Mouse
  <2>1. PICK kind \in Kinds, mods \in SUBSET Modifiers, col \in Places, row \in Places :
           /\ event' = [type |-> "mouse", kind |-> kind, mods |-> mods, col |-> col, row |-> row]
           /\ sent' = EncodeMouse(kind, mods, col, row)
    BY <1>4 DEF Mouse
  <2>2. modes' = modes /\ modes \in Modes
    BY <1>4 DEF Mouse, InputInv
  <2>3. /\ event'.type = "mouse" /\ event'.kind = kind /\ event'.mods = mods
        /\ event'.col = col /\ event'.row = row
    BY <2>1
  <2>4. sent' # None => ReportOK(sent', kind, mods, col, row)
    BY <2>1, <2>2, MouseSent
  <2>5. MouseRead'
    BY <2>2, <2>3, <2>4 DEF MouseRead, ReportOK, Happened
  <2>6. KeyRead'
    BY <2>3 DEF KeyRead
  <2>7. QED
    BY <2>2, <2>5, <2>6 DEF InputInv, InputRead
<1>5. CASE Focus
  <2>1. modes' = modes /\ modes \in Modes /\ event'.type = "focus"
    BY <1>5 DEF Focus, InputInv
  <2>2. QED
    BY <2>1 DEF InputInv, InputRead, KeyRead, MouseRead
<1>6. QED
  BY <1>1, <1>2, <1>3, <1>4, <1>5 DEF InputNext

(* An application that reads by xterm's tables understands what it is sent, whatever   *)
(* is typed and wherever the mouse is, in every mode it can set                        *)
(* (crates/terminal-input/src/encoder.rs).                                             *)
THEOREM InputUnderstood == CodecSpec => []InputRead
<1>1. CodecInit => InputInv
  <2> SUFFICES ASSUME CodecInit PROVE InputInv
    OBVIOUS
  <2>1. event = None /\ modes \in Modes
    BY DEF CodecInit, InputInit, Modes
  <2>2. QED
    BY <2>1 DEF InputInv, InputRead, KeyRead, MouseRead
<1>2. [CodecNext]_codecVars => [InputNext]_inputVars
  BY DEF CodecNext, HandleTransportEvent, HandleSessionInput, codecVars
<1>3. InputInv => InputRead
  BY DEF InputInv
<1>4. QED
  BY <1>1, <1>2, <1>3, InputStep, PTL DEF CodecSpec
=============================================================================
