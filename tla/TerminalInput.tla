---------------------------- MODULE TerminalInput -----------------------------
(***************************************************************************)
(* terminal-input: keys, mouse and focus become bytes, by the modes the    *)
(* application has set, and the application reads them by xterm's rules.   *)
(*                                                                         *)
(* Characters are code points.  A sequence of bytes is its parts: an ESC   *)
(* in front, and either one character or an introducer, numbers and a      *)
(* final letter.  Pasted text is left out.                                 *)
(***************************************************************************)
EXTENDS Integers, Sequences

CONSTANTS
    Codes,      \* characters that may be typed
    Places      \* columns and rows of mouse events

ASSUME InputAssumption == Codes \subseteq Nat /\ Places \subseteq Nat

VARIABLES
    modes,  \* TerminalModes, as far as input depends on them
    event,  \* what the client has sent
    sent    \* what the application gets

inputVars == <<modes, event, sent>>
None == <<>>

Modifiers == {"shift", "alt", "ctrl"}
Buttons   == {"left", "middle", "right"}
CursorKey == [up |-> "A", down |-> "B", right |-> "C", left |-> "D", end |-> "F", home |-> "H"]
TildeKey  == [insert |-> 2, delete |-> 3, pageUp |-> 5, pageDown |-> 6]
PlainKey  == [enter |-> 13, backspace |-> 127, escape |-> 27]
FunctionLetter == <<"P", "Q", "R", "S">>
\* Mutant: the numbers that xterm leaves out are not skipped.
FunctionCodeGapless == [n \in 5..12 |-> n + 10]

FunctionCode == [n \in 5..12 |-> <<15, 17, 18, 19, 20, 21, 23, 24>>[n - 4]]

Names == {"tab"} \cup DOMAIN CursorKey \cup DOMAIN TildeKey \cup DOMAIN PlainKey
Named(names) == [type : {"key"}, name : names]
Numbered(ns) == [type : {"F"}, n : ns]
Keys  == [type : {"char"}, code : Codes] \cup Named(Names) \cup Numbered(1..12)
Kinds == [do : {"press", "release", "drag"}, button : Buttons]
         \cup [do : {"motion", "wheelUp", "wheelDown"}, button : {None}]
Modes == [appCursor : BOOLEAN, mouse : {"off", "normal", "button", "any"},
          sgr : BOOLEAN, focus : BOOLEAN]

-----------------------------------------------------------------------------
(* encode_key *)

ModParam(mods) ==
    1 + (IF "shift" \in mods THEN 1 ELSE 0) + (IF "alt" \in mods THEN 2 ELSE 0)
    + (IF "ctrl" \in mods THEN 4 ELSE 0)

Typed(esc, c)     == [esc |-> esc, intro |-> "none", nums |-> <<c>>, final |-> ""]
Csi(nums, final)  == [esc |-> TRUE, intro |-> "[", nums |-> nums, final |-> final]
Ss3(final)        == [esc |-> TRUE, intro |-> "O", nums |-> <<>>, final |-> final]

\* Letters of both cases, @ and space, and [ \ ] ^ _ have a control character.
Control(c) ==
    CASE c \in 97..122 -> c - 96
      [] c \in 64..95  -> c - 64
      [] c = 32        -> 0
      [] OTHER         -> c

EncodeChar(c, mods) ==
    Typed("alt" \in mods, IF "ctrl" \in mods THEN Control(c) ELSE c)

\* With modifiers a number and the parameter, whatever the cursor mode.
Lettered(letter, mods, plain) ==
    IF mods = {} THEN plain ELSE Csi(<<1, ModParam(mods)>>, letter)
Tilde(n, mods) == Csi(IF mods = {} THEN <<n>> ELSE <<n, ModParam(mods)>>, "~")

EncodeName(k, mods) ==
    CASE k \in DOMAIN PlainKey -> Typed(FALSE, PlainKey[k])
      [] k = "tab" -> IF mods = {"shift"} THEN Csi(<<>>, "Z") ELSE Typed(FALSE, 9)
      [] k \in DOMAIN CursorKey ->
            Lettered(CursorKey[k], mods,
                     IF modes.appCursor THEN Ss3(CursorKey[k]) ELSE Csi(<<>>, CursorKey[k]))
      [] k \in DOMAIN TildeKey -> Tilde(TildeKey[k], mods)

EncodeFunctionKey(n, mods) ==
    IF n <= 4 THEN Lettered(FunctionLetter[n], mods, Ss3(FunctionLetter[n]))
    ELSE Tilde(FunctionCode[n], mods)

EncodeKey(key, mods) ==
    CASE key.type = "char" -> EncodeChar(key.code, mods)
      [] key.type = "key"  -> EncodeName(key.name, mods)
      [] key.type = "F"    -> EncodeFunctionKey(key.n, mods)

-----------------------------------------------------------------------------
(* encode_mouse, encode_focus *)

ButtonBase == [left |-> 0, middle |-> 1, right |-> 2]

\* The bits that are set are distinct: a sum is their OR.
ButtonCode(kind, mods) ==
    (CASE kind.do \in {"press", "release"} -> ButtonBase[kind.button]
       [] kind.do = "drag"      -> ButtonBase[kind.button] + 32
       [] kind.do = "motion"    -> 3 + 32
       [] kind.do = "wheelUp"   -> 64
       [] kind.do = "wheelDown" -> 65)
    + (IF "shift" \in mods THEN 4 ELSE 0) + (IF "alt" \in mods THEN 8 ELSE 0)
    + (IF "ctrl" \in mods THEN 16 ELSE 0)

Reported(kind) ==
    /\ modes.mouse # "off"
    /\ kind.do = "drag" => modes.mouse # "normal"
    /\ kind.do = "motion" => modes.mouse = "any"

Sgr(kind, mods, col, row) ==
    [esc |-> TRUE, intro |-> "[<", nums |-> <<ButtonCode(kind, mods), col, row>>,
     final |-> IF kind.do = "release" THEN "m" ELSE "M"]

\* A release loses its button; every number is a byte.
X10Button(kind, mods) ==
    LET code == ButtonCode(kind, mods)
    IN IF kind.do = "release" THEN (code \div 4) * 4 + 3 ELSE code

\* Mutant: columns beyond what a byte holds are reported.
X10Wrapping(kind, mods, col, row) ==
    [esc |-> TRUE, intro |-> "[M", final |-> "",
     nums |-> <<X10Button(kind, mods) + 32, (col + 32) % 256, (row + 32) % 256>>]

X10(kind, mods, col, row) ==
    IF col > 223 \/ row > 223 THEN None
    ELSE [esc |-> TRUE, intro |-> "[M", final |-> "",
          nums |-> <<X10Button(kind, mods) + 32, (col + 32) % 256, (row + 32) % 256>>]

EncodeMouse(kind, mods, col, row) ==
    IF ~Reported(kind) THEN None
    ELSE IF modes.sgr THEN Sgr(kind, mods, col, row) ELSE X10(kind, mods, col, row)

EncodeFocus(gained) ==
    IF modes.focus THEN Csi(<<>>, IF gained THEN "I" ELSE "O") ELSE None

-----------------------------------------------------------------------------

InputInit ==
    /\ modes = [appCursor |-> FALSE, mouse |-> "off", sgr |-> FALSE, focus |-> FALSE]
    /\ event = None /\ sent = None

\* The application's output sets the modes; its parser is alacritty's.
SetModes == event = None /\ modes' \in Modes /\ UNCHANGED <<event, sent>>

Key ==
    /\ event = None
    /\ \E key \in Keys, mods \in SUBSET Modifiers :
          /\ event' = [type |-> "key", key |-> key, mods |-> mods]
          /\ sent' = EncodeKey(key, mods)
    /\ UNCHANGED modes

Mouse ==
    /\ event = None
    /\ \E kind \in Kinds, mods \in SUBSET Modifiers, col \in Places, row \in Places :
          /\ event' = [type |-> "mouse", kind |-> kind, mods |-> mods, col |-> col, row |-> row]
          /\ sent' = EncodeMouse(kind, mods, col, row)
    /\ UNCHANGED modes

Focus ==
    /\ event = None
    /\ \E gained \in BOOLEAN :
          /\ event' = [type |-> "focus", gained |-> gained]
          /\ sent' = EncodeFocus(gained)
    /\ UNCHANGED modes

AppReads == event # None /\ event' = None /\ sent' = None /\ UNCHANGED modes

InputNext == SetModes \/ Key \/ Mouse \/ Focus \/ AppReads

-----------------------------------------------------------------------------
(* What an application reads, by xterm's tables *)

ModBits(n, one, two, four) ==
    {b \in Modifiers : \/ b = one  /\ n % 2 = 1
                       \/ b = two  /\ (n \div 2) % 2 = 1
                       \/ b = four /\ (n \div 4) % 2 = 1}

KeyMods(s) == IF Len(s.nums) = 2 THEN ModBits(s.nums[2] - 1, "shift", "alt", "ctrl") ELSE {}

\* xterm numbers F1 from 11 on and leaves out 16 and 22.
XtermFunction(n) == n - 10 - (IF n > 16 THEN 1 ELSE 0) - (IF n > 22 THEN 1 ELSE 0)

\* The keys that the final letter and the first number stand for.
Pressed(s) ==
    {k \in Named(DOMAIN CursorKey) : CursorKey[k.name] = s.final}
    \cup {k \in Named(DOMAIN TildeKey) : s.final = "~" /\ TildeKey[k.name] = s.nums[1]}
    \cup {k \in Named({"tab"}) : s.final = "Z"}
    \cup {k \in Numbered(1..4) : FunctionLetter[k.n] = s.final}
    \cup {k \in Numbered(5..12) : s.final = "~" /\ XtermFunction(s.nums[1]) = k.n}

\* The keys that reach the application as a character; their modifiers are lost.
AsCharacter(key) ==
    \/ key.type = "char"
    \/ key.type = "key" /\ key.name \in DOMAIN PlainKey
    \/ key = [type |-> "key", name |-> "tab"] /\ event.mods # {"shift"}

-----------------------------------------------------------------------------
\* A key that is not a character is read as that key with those modifiers, in both
\* cursor modes; no two of them share a sequence, and none looks like a mouse or a
\* focus report.
KeyRead ==
    event # None /\ event.type = "key" /\ ~AsCharacter(event.key) =>
        /\ sent.intro \in {"[", "O"} /\ sent.final \notin {"I", "M", "m"}
        /\ Pressed(sent) = {event.key}
        /\ KeyMods(sent) = (IF sent.final = "Z" THEN {} ELSE event.mods)

\* A mouse report tells an application what happened where: in the mode it asked
\* for, with place and modifiers, the button too unless it is an X10 release; and a
\* report that the encoding cannot carry is dropped, not sent to another place.
MouseRead ==
    event # None /\ event.type = "mouse" /\ sent # None =>
        LET off  == IF modes.sgr THEN 0 ELSE 32
            code == sent.nums[1] - off
            low  == code % 4
        IN /\ modes.mouse # "off"
           /\ <<sent.nums[2] - off, sent.nums[3] - off>> = <<event.col, event.row>>
           /\ ModBits(code \div 4, "shift", "alt", "ctrl") = event.mods
           /\ CASE code >= 64 -> event.kind.do = (IF low = 0 THEN "wheelUp" ELSE "wheelDown")
                [] code \in 32..63 /\ low = 3 -> event.kind.do = "motion" /\ modes.mouse = "any"
                [] code \in 32..63 /\ low # 3 ->
                      /\ event.kind.do = "drag" /\ ButtonBase[event.kind.button] = low
                      /\ modes.mouse \in {"button", "any"}
                [] code < 32 /\ low = 3 -> event.kind.do = "release" /\ ~modes.sgr
                [] OTHER -> /\ event.kind.do = (IF sent.final = "m" THEN "release" ELSE "press")
                            /\ ButtonBase[event.kind.button] = low

-----------------------------------------------------------------------------
(* Properties *)

\* An application that reads by xterm's tables understands what it is sent: the key
\* with its modifiers, or the button, the place and the modifiers; in every mode, and
\* a report of one kind is never taken for one of the other (terminal-input/src/encoder.rs).
InputRead == KeyRead /\ MouseRead
=============================================================================
