----------------------------- MODULE RowEncoding ------------------------------
(***************************************************************************)
(* encode_row of terminal-protocol: a row of cells becomes a sequence of   *)
(* entries, by one scan from left to right, and the client covers the      *)
(* row's columns with them in that order.  One action is one turn of the   *)
(* outer loop.                                                             *)
(*                                                                         *)
(* A style is the colours and attributes of a cell; a cell's kind is its   *)
(* width and whether combining marks stand on it.                          *)
(***************************************************************************)
EXTENDS Integers, Sequences

CONSTANTS
    Cols,
    Chars, Space,
    Styles, Default     \* Default: the initial colours, no attributes

ASSUME RowAssumption == Cols \in Nat \ {0} /\ Space \in Chars /\ Default \in Styles

VARIABLES
    cells,  \* the row at hand; empty between two rows
    i,      \* the column the scan has reached
    out,    \* the entries so far
    shown   \* what the client makes of them

rowVars == <<cells, i, out, shown>>

Cell == [ch : Chars, style : Styles, kind : {"single", "combining", "wide"}]
        \cup [ch : {Space}, style : Styles, kind : {"spacer"}]

\* The rows a terminal has: a wide character and its spacer stand side by side.
Rows ==
    {r \in [1..Cols -> Cell] :
        /\ r[1].kind # "spacer" /\ r[Cols].kind # "wide"
        /\ \A k \in 1..Cols-1 : r[k].kind = "wide" <=> r[k+1].kind = "spacer"}

BlankCell == [ch |-> Space, style |-> Default, kind |-> "single"]

IsBlank(c) == c = BlankCell
IsText(c)  == c.kind = "single" /\ ~IsBlank(c)
IsOther(c) == c.kind # "single"

\* The columns an entry covers at the client.
Expand(e) ==
    CASE e.type = "blank" -> [k \in 1..e.count |-> BlankCell]
      [] e.type = "text"  -> [k \in 1..Len(e.s) |->
                                [ch |-> e.s[k], style |-> e.style, kind |-> "single"]]
      [] e.type = "cells" -> e.cells

RowInit == cells = <<>> /\ i = 1 /\ out = <<>> /\ shown = <<>>

RowBegin ==
    /\ cells = <<>>
    /\ cells' \in Rows
    /\ UNCHANGED <<i, out, shown>>

\* A run ends before the first cell that does not belong to it.
Push(end, e) ==
    /\ out' = Append(out, e)
    /\ shown' = shown \o Expand(e)
    /\ i' = end
    /\ UNCHANGED cells

Run(end, columns) == i..end-1 \subseteq columns /\ end \notin columns

Ends == i+1 .. Len(cells)+1

BlankRun ==
    \E end \in Ends :
        /\ Run(end, {k \in DOMAIN cells : IsBlank(cells[k])})
        /\ Push(end, [type |-> "blank", count |-> end - i])

\* Mutant: the style is not compared.
SameTextAnyStyle(c) == IsText(c)

SameText(c) == IsText(c) /\ c.style = cells[i].style

TextRun ==
    \E end \in Ends :
        /\ Run(end, {k \in DOMAIN cells : SameText(cells[k])})
        /\ Push(end, [type  |-> "text",
                      s     |-> [k \in 1..end-i |-> cells[i+k-1].ch],
                      style |-> cells[i].style])

CellsRun ==
    \E end \in Ends :
        /\ Run(end, {k \in DOMAIN cells : IsOther(cells[k])})
        /\ Push(end, [type |-> "cells", cells |-> SubSeq(cells, i, end - 1)])

\* The row is in its frame, the next one is taken up.
RowSent ==
    /\ cells # <<>> /\ i > Len(cells)
    /\ cells' = <<>> /\ i' = 1 /\ out' = <<>> /\ shown' = <<>>

RowNext == RowBegin \/ BlankRun \/ TextRun \/ CellsRun \/ RowSent

RowSpec == RowInit /\ [][RowNext]_rowVars

-----------------------------------------------------------------------------
(* Properties *)

\* The entries bring the client exactly the cells of the row, in their columns, and
\* the whole row covers Cols columns: no cell is skipped, covered twice or given
\* the style of its neighbour (terminal-protocol/src/event.rs, contract of RowEntry).
RowRestored == shown = SubSeq(cells, 1, i - 1)
=============================================================================
