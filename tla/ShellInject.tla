------------------------------ MODULE ShellInject ------------------------------
(***************************************************************************)
(* Shell integration as it is injected before a shell is spawned           *)
(* (crates/pty/src/shell_inject.rs, called by open_local, by perga and by  *)
(* raw-debug): several sessions write the same start-up files under        *)
(* ~/.perga/shell while shells that were spawned before read them, and     *)
(* those files pass on to the user's own.                                  *)
(*                                                                         *)
(* A start-up file of Perga always has the same content, so a file is only *)
(* absent, part or whole.  The user's files are what they do to ZDOTDIR,   *)
(* the one variable the injection has to borrow.                           *)
(***************************************************************************)
EXTENDS Integers, Sequences

CONSTANTS
    Openers,     \* sessions being opened
    Process,     \* Process[o]: the program that opens session o
    Home, Other, \* directories a user may keep zsh files in
    MaxFails     \* bound: system calls that fail, and crashes

ASSUME ShellAssumption ==
    /\ DOMAIN Process = Openers
    /\ {Home, Other} \cap {"unset", "perga", "keep", "?"} = {}
    /\ MaxFails \in Nat

Dirs      == {Home, Other}
Unset     == "unset"
Perga     == "perga"            \* ~/.perga/shell/zsh
Keep      == "keep"
Zdotdir   == Dirs \cup {Unset}
Effects   == Zdotdir \cup {Keep}
Processes == {Process[o] : o \in Openers}
Files     == {"bash-rcfile", "zshenv", "zshrc"}
Shells    == {"bash", "zsh", "other"}

VARIABLES
    file,      \* the three files: "absent", "part" or "whole"
    tmp,       \* temporary files by name
    seq,       \* SEQ of each program
    shell,     \* what each session spawns
    pc,        \* where each session stands
    todo,      \* files it still has to write
    name,      \* its current temporary file
    injected,  \* its PtyConfig was changed
    inherited, \* ZDOTDIR in the environment of the programs
    zdotdir, userZdotdir,   \* ZDOTDIR and PERGA_USER_ZDOTDIR of each shell
    found,     \* what each shell found where it looked for a file of Perga
    log,       \* the user's directories whose files it has read, in order
    userEnv, userRc,        \* what .zshenv and .zshrc do there; "?": not read yet
    fails

fileVars  == <<file, tmp, seq, name>>
openVars  == <<shell, todo, injected, inherited>>
shellVars == <<zdotdir, userZdotdir, found, log, userEnv, userRc>>
vars == <<fileVars, openVars, shellVars, pc, fails>>

Init ==
    /\ file \in {[f \in Files |-> "absent"], [f \in Files |-> "whole"]}
    /\ tmp = <<>> /\ seq = [p \in Processes |-> 0]
    /\ shell \in [Openers -> Shells]
    /\ pc = [o \in Openers |-> "inject"]
    /\ todo = [o \in Openers |-> <<>>]
    /\ name = [o \in Openers |-> <<>>]
    /\ injected = [o \in Openers |-> FALSE]
    /\ inherited \in Zdotdir
    /\ zdotdir = [o \in Openers |-> inherited]
    /\ userZdotdir = [o \in Openers |-> Unset]
    /\ found = [o \in Openers |-> {}]
    /\ log = [o \in Openers |-> <<>>]
    /\ userEnv = [d \in Dirs |-> "?"] /\ userRc = [d \in Dirs |-> "?"]
    /\ fails = 0

Goto(o, label) == pc' = [pc EXCEPT ![o] = label]

-----------------------------------------------------------------------------
(* inject_shell_integration and write_atomic, one action per system call.  SEQ is *)
(* atomic.                                                                       *)

FilesOf(s) == IF s = "bash" THEN <<"bash-rcfile">> ELSE <<"zshenv", "zshrc">>

\* An unknown shell, or no HOME: the session is spawned as it is.
Inject(o) ==
    /\ pc[o] = "inject"
    /\ \/ /\ shell[o] # "other"
          /\ todo' = [todo EXCEPT ![o] = FilesOf(shell[o])]
          /\ Goto(o, "open")
       \/ /\ Goto(o, "start")
          /\ UNCHANGED todo
    /\ UNCHANGED <<fileVars, shell, injected, inherited, shellVars, fails>>

\* Mutant: every write of a program uses the same temporary file.
SameName(o) == <<Process[o], 0>>

NextName(o) == <<Process[o], seq[Process[o]]>>

\* A file of that name is truncated.
Put(n, content) == [m \in DOMAIN tmp \cup {n} |-> IF m = n THEN content ELSE tmp[m]]

OpenTmp(o) ==
    /\ pc[o] = "open"
    /\ name' = [name EXCEPT ![o] = NextName(o)]
    /\ seq' = [seq EXCEPT ![Process[o]] = @ + 1]
    /\ tmp' = Put(name'[o], "part")
    /\ Goto(o, "fill")
    /\ UNCHANGED <<file, openVars, shellVars, fails>>

FillTmp(o) ==
    /\ pc[o] = "fill"
    /\ tmp' = IF name[o] \in DOMAIN tmp THEN Put(name[o], "whole") ELSE tmp
    /\ Goto(o, "rename")
    /\ UNCHANGED <<file, seq, name, openVars, shellVars, fails>>

\* What the last rename of a session leaves to do: --rcfile, or ZDOTDIR with the user's
\* own value beside it.
Configure(o) ==
    /\ injected' = [injected EXCEPT ![o] = TRUE]
    /\ IF shell[o] = "zsh"
       THEN /\ userZdotdir' = [userZdotdir EXCEPT ![o] = inherited]
            /\ zdotdir' = [zdotdir EXCEPT ![o] = Perga]
       ELSE UNCHANGED <<userZdotdir, zdotdir>>

\* rename fails when the name is gone: only a shared one can be.
RenameTmp(o) ==
    /\ pc[o] = "rename"
    /\ name[o] \in DOMAIN tmp
    /\ file' = [file EXCEPT ![Head(todo[o])] = tmp[name[o]]]
    /\ tmp' = [m \in DOMAIN tmp \ {name[o]} |-> tmp[m]]
    /\ todo' = [todo EXCEPT ![o] = Tail(@)]
    /\ IF Len(todo[o]) = 1
       THEN Configure(o) /\ Goto(o, "start")
       ELSE UNCHANGED <<injected, userZdotdir, zdotdir>> /\ Goto(o, "open")
    /\ UNCHANGED <<seq, name, shell, inherited, found, log, userEnv, userRc,
                   fails>>

\* Mutant: the configuration is changed although a file could not be written.
FailInjected(o) ==
    /\ pc[o] \in {"open", "fill", "rename"}
    /\ fails < MaxFails
    /\ fails' = fails + 1
    /\ Configure(o)
    /\ Goto(o, "start")
    /\ UNCHANGED <<fileVars, shell, todo, inherited, found, log, userEnv, userRc>>

\* Any call may fail; what it has left stays, the configuration too.
Fail(o) ==
    /\ pc[o] \in {"open", "fill", "rename"}
    /\ fails < MaxFails
    /\ fails' = fails + 1
    /\ Goto(o, "start")
    /\ UNCHANGED <<fileVars, openVars, shellVars>>

\* The program dies; the shells it has started go on reading their files.
Crash(p) ==
    /\ fails < MaxFails
    /\ fails' = fails + 1
    /\ pc' = [o \in Openers |->
                IF Process[o] = p /\ pc[o] \in {"inject", "open", "fill", "rename"}
                THEN "dead" ELSE pc[o]]
    /\ UNCHANGED <<fileVars, openVars, shellVars>>

-----------------------------------------------------------------------------
(* The start of a shell: the files Perga writes, and the user's *)

DirOf(z) == IF z = Unset THEN Home ELSE z
Apply(z, effect) == IF effect = Keep THEN z ELSE effect

Find(o, f) == found' = [found EXCEPT ![o] = @ \cup {file[f]}]

\* The user's .zshenv for a shell that has ZDOTDIR z: what it does to ZDOTDIR is
\* chosen when it is first read, and fixed from then on.
SourceEnv(o, z) ==
    /\ \E e \in Effects :
          /\ userEnv[DirOf(z)] \in {"?", e}
          /\ userEnv' = [userEnv EXCEPT ![DirOf(z)] = e]
    /\ log' = [log EXCEPT ![o] = Append(@, DirOf(z))]

SourceRc(o, z) ==
    /\ \E e \in Effects :
          /\ userRc[DirOf(z)] \in {"?", e}
          /\ userRc' = [userRc EXCEPT ![DirOf(z)] = e]
    /\ log' = [log EXCEPT ![o] = Append(@, DirOf(z))]

StartBash(o) ==
    /\ pc[o] = "start" /\ shell[o] # "zsh"
    /\ IF injected[o] THEN Find(o, "bash-rcfile") ELSE UNCHANGED found
    /\ log' = [log EXCEPT ![o] = Append(@, Home)]
    /\ Goto(o, "ready")
    /\ UNCHANGED <<fileVars, openVars, zdotdir, userZdotdir, userEnv, userRc, fails>>

\* A zsh that was not injected.
StartZsh(o) ==
    /\ pc[o] = "start" /\ shell[o] = "zsh" /\ ~injected[o]
    /\ SourceEnv(o, zdotdir[o])
    /\ zdotdir' = [zdotdir EXCEPT ![o] = Apply(@, userEnv'[DirOf(@)])]
    /\ Goto(o, "rc")
    /\ UNCHANGED <<fileVars, openVars, userZdotdir, found, userRc, fails>>

ReadZshrc(o) ==
    /\ pc[o] = "rc" /\ ~injected[o]
    /\ SourceRc(o, zdotdir[o])
    /\ zdotdir' = [zdotdir EXCEPT ![o] = Apply(@, userRc'[DirOf(@)])]
    /\ Goto(o, "ready")
    /\ UNCHANGED <<fileVars, openVars, userZdotdir, found, userEnv, fails>>

\* Mutant: .zshenv passes on the value it was given, not the one the user's .zshenv
\* has left.
PergaZshenvKeepsValue(o) ==
    /\ pc[o] = "start" /\ shell[o] = "zsh" /\ injected[o]
    /\ Find(o, "zshenv")
    /\ SourceEnv(o, userZdotdir[o])
    /\ Goto(o, "rc")
    /\ UNCHANGED <<fileVars, openVars, zdotdir, userZdotdir, userRc, fails>>

\* ZSH_ZSHENV: the user's .zshenv under the user's ZDOTDIR, what that leaves kept for
\* .zshrc, and ZDOTDIR pulled back to Perga's directory.
PergaZshenv(o) ==
    /\ pc[o] = "start" /\ shell[o] = "zsh" /\ injected[o]
    /\ Find(o, "zshenv")
    /\ SourceEnv(o, userZdotdir[o])
    /\ userZdotdir' = [userZdotdir EXCEPT ![o] = Apply(@, userEnv'[DirOf(@)])]
    /\ Goto(o, "rc")
    /\ UNCHANGED <<fileVars, openVars, zdotdir, userRc, fails>>

\* ZSH_ZSHRC_PREAMBLE: ZDOTDIR given back, the user's .zshrc, then the integration.
PergaZshrc(o) ==
    /\ pc[o] = "rc" /\ injected[o]
    /\ Find(o, "zshrc")
    /\ SourceRc(o, userZdotdir[o])
    /\ zdotdir' = [zdotdir EXCEPT ![o] =
                     Apply(userZdotdir[o], userRc'[DirOf(userZdotdir[o])])]
    /\ userZdotdir' = [userZdotdir EXCEPT ![o] = Unset]
    /\ Goto(o, "ready")
    /\ UNCHANGED <<fileVars, openVars, userEnv, fails>>

-----------------------------------------------------------------------------

\* All sessions are open or dead.
Finished ==
    /\ \A o \in Openers : pc[o] \in {"ready", "dead"}
    /\ UNCHANGED vars

Next ==
    \/ \E o \in Openers :
          \/ Inject(o) \/ OpenTmp(o) \/ FillTmp(o) \/ RenameTmp(o) \/ Fail(o)
          \/ StartBash(o) \/ StartZsh(o) \/ ReadZshrc(o)
          \/ PergaZshenv(o) \/ PergaZshrc(o)
    \/ \E p \in Processes : Crash(p)
    \/ Finished

Spec == Init /\ [][Next]_vars

-----------------------------------------------------------------------------
(* Properties *)

\* A shell that was told to read Perga's files finds each of them, and whole: whatever
\* other sessions, of this program or of another, write, fail to write or leave
\* behind (shell_inject.rs, doc of write_atomic).
ShellFindsWhole == \A o \in Openers : found[o] \subseteq {"whole"}

\* What a zsh without Perga would read and end with: .zshenv in the directory the
\* environment names, .zshrc in the one .zshenv leaves.
PlainEnv == Apply(inherited, userEnv[DirOf(inherited)])
PlainRc  == Apply(PlainEnv, userRc[DirOf(PlainEnv)])

\* Every zsh, injected or not, has read the user's own files as one without Perga
\* does, each once, and ends with the same ZDOTDIR and no trace of Perga's variables:
\* so Perga can be started from such a shell again.
StartsLikePlain ==
    \A o \in Openers : pc[o] = "ready" /\ shell[o] = "zsh" =>
        /\ log[o] = <<DirOf(inherited), DirOf(PlainEnv)>>
        /\ zdotdir[o] = PlainRc
        /\ userZdotdir[o] = Unset
=============================================================================
