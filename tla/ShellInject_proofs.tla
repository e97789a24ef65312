-------------------------- MODULE ShellInject_proofs --------------------------
(***************************************************************************)
(* What ShellInject guarantees for every set of sessions and programs, and *)
(* however many calls fail and programs die.                               *)
(*                                                                         *)
(* Files: a temporary file is used by one session (Distinct), so only what *)
(* is whole is renamed, and a session is configured when all its files are *)
(* there (Written).  Start-up: what the user's files do to ZDOTDIR reaches *)
(* the shell at the same two places as without Perga (Zsh).                *)
(***************************************************************************)
EXTENDS ShellInject, SequenceTheorems, TLAPS

Writing == {"open", "fill", "rename"}
Labels  == {"inject", "start", "rc", "ready", "dead"} \cup Writing
Content == {"absent", "part", "whole"}

FileTypes ==
    /\ file \in [Files -> {"absent", "whole"}]
    /\ seq \in [Processes -> Nat]
    /\ shell \in [Openers -> Shells]
    /\ pc \in [Openers -> Labels]
    /\ injected \in [Openers -> BOOLEAN]
    /\ DOMAIN todo = Openers /\ DOMAIN name = Openers /\ DOMAIN found = Openers

\* A session that writes has named its file after its program and a number below the
\* program's next one, the file is there, and whole when it is renamed.
Named ==
    \A o \in Openers :
        /\ pc[o] \in {"fill", "rename"} =>
              /\ name[o] \in DOMAIN tmp
              /\ \E k \in 0..(seq[Process[o]] - 1) : name[o] = <<Process[o], k>>
        /\ pc[o] = "rename" => tmp[name[o]] = "whole"

Distinct ==
    \A o, q \in Openers :
        pc[o] \in {"fill", "rename"} /\ pc[q] \in {"fill", "rename"}
            /\ name[o] = name[q] => o = q

\* What a session still has to write, what it has written, and what it may rely on when
\* it is configured.
Written ==
    \A o \in Openers :
        /\ pc[o] \in Writing =>
              \/ shell[o] = "bash" /\ todo[o] = <<"bash-rcfile">>
              \/ shell[o] = "zsh" /\ todo[o] = <<"zshenv", "zshrc">>
              \/ shell[o] = "zsh" /\ todo[o] = <<"zshrc">> /\ file["zshenv"] = "whole"
        /\ injected[o] =>
              \/ shell[o] = "bash" /\ file["bash-rcfile"] = "whole"
              \/ shell[o] = "zsh" /\ file["zshenv"] = "whole" /\ file["zshrc"] = "whole"
        /\ pc[o] \in Writing \cup {"inject"} => ~injected[o]
        /\ pc[o] = "rc" => shell[o] = "zsh"

FileInv == FileTypes /\ Named /\ Distinct /\ Written /\ ShellFindsWhole

-----------------------------------------------------------------------------
(* The files *)

LEMMA Todo ==
    /\ Head(<<"bash-rcfile">>) = "bash-rcfile" /\ Len(<<"bash-rcfile">>) = 1
    /\ Head(<<"zshrc">>) = "zshrc" /\ Len(<<"zshrc">>) = 1
    /\ Head(<<"zshenv", "zshrc">>) = "zshenv" /\ Len(<<"zshenv", "zshrc">>) = 2
    /\ Tail(<<"zshenv", "zshrc">>) = <<"zshrc">>
OBVIOUS

LEMMA FileInvInit == Init => FileInv
BY DEF Init, FileInv, FileTypes, Named, Distinct, Written, ShellFindsWhole, Labels,
       Writing, Files

LEMMA FileInvStep == FileInv /\ [Next]_vars => FileInv'
<1> SUFFICES ASSUME FileInv, [Next]_vars PROVE FileInv'
  OBVIOUS
<1> USE ShellAssumption
    DEF FileInv, FileTypes, Named, Distinct, Written, ShellFindsWhole, Labels, Writing,
        Goto, fileVars, openVars, shellVars, Processes
<1>1. ASSUME NEW o \in Openers, Inject(o) PROVE FileInv'
  BY <1>1 DEF Inject, FilesOf, Shells
<1>2. ASSUME NEW o \in Openers, OpenTmp(o) PROVE FileInv'
  <2> DEFINE n == <<Process[o], seq[Process[o]]>>
  <2>1. /\ pc[o] = "open" /\ pc' = [pc EXCEPT ![o] = "fill"]
        /\ name' = [name EXCEPT ![o] = n]
        /\ seq' = [seq EXCEPT ![Process[o]] = @ + 1]
        /\ UNCHANGED <<file, openVars, shellVars>>
    BY <1>2 DEF OpenTmp, NextName
  <2>2. DOMAIN tmp' = DOMAIN tmp \cup {n} /\ \A m \in DOMAIN tmp : m # n => tmp'[m] = tmp[m]
    BY <1>2 DEF OpenTmp, NextName, Put
  <2>3. FileTypes'
    BY <2>1
  <2>4. \A q \in Openers : q # o /\ pc[q] \in {"fill", "rename"} => name[q] # n
    OBVIOUS
  <2>5. Named'
    BY <2>1, <2>2, <2>4
  <2>6. Distinct'
    BY <2>1, <2>4
  <2>7. Written' /\ ShellFindsWhole'
    BY <2>1
  <2> QED BY <2>3, <2>5, <2>6, <2>7
<1>3. ASSUME NEW o \in Openers, FillTmp(o) PROVE FileInv'
  BY <1>3 DEF FillTmp, Put
<1>4. ASSUME NEW o \in Openers, RenameTmp(o) PROVE FileInv'
  <2>1. /\ pc[o] = "rename"
        /\ file' = [file EXCEPT ![Head(todo[o])] = "whole"]
        /\ DOMAIN tmp' = DOMAIN tmp \ {name[o]}
        /\ \A n \in DOMAIN tmp' : tmp'[n] = tmp[n]
        /\ todo' = [todo EXCEPT ![o] = Tail(@)]
        /\ UNCHANGED <<seq, name, shell, found>>
    BY <1>4 DEF RenameTmp
  <2>2. \A f \in Files : file[f] = "whole" => file'[f] = "whole"
    BY <2>1
  <2>3. CASE Len(todo[o]) = 1
    <3>1. pc' = [pc EXCEPT ![o] = "start"] /\ injected' = [injected EXCEPT ![o] = TRUE]
      BY <1>4, <2>3 DEF RenameTmp, Configure
    <3>2. \/ shell[o] = "bash" /\ file'["bash-rcfile"] = "whole"
          \/ shell[o] = "zsh" /\ file'["zshenv"] = "whole" /\ file'["zshrc"] = "whole"
      <4>1. CASE shell[o] = "bash" /\ todo[o] = <<"bash-rcfile">>
        BY <2>1, <4>1, Todo DEF Files
      <4>2. CASE /\ shell[o] = "zsh" /\ todo[o] = <<"zshrc">>
                 /\ file["zshenv"] = "whole"
        BY <2>1, <4>2, Todo DEF Files
      <4>3. todo[o] # <<"zshenv", "zshrc">>
        BY <2>3, Todo
      <4> QED BY <2>1, <4>1, <4>2, <4>3
    <3>3. FileTypes'
      BY <2>1, <3>1
    <3>4. \A q \in Openers : pc'[q] \in {"fill", "rename"} => q # o /\ pc[q] = pc'[q]
      BY <3>1
    <3>5. Named'
      BY <2>1, <3>4
    <3>6. Distinct' /\ ShellFindsWhole'
      BY <2>1, <3>4
    <3>7. ASSUME NEW q \in Openers, q # o
          PROVE  /\ pc'[q] = pc[q] /\ todo'[q] = todo[q] /\ shell'[q] = shell[q]
                 /\ injected'[q] = injected[q]
      BY <2>1, <3>1, <3>7
    <3>8. Written'
      BY <2>1, <2>2, <3>1, <3>2, <3>7 DEF Files
    <3> QED BY <3>3, <3>5, <3>6, <3>8
  <2>4. CASE Len(todo[o]) # 1
    <3>1. pc' = [pc EXCEPT ![o] = "open"] /\ injected' = injected
      BY <1>4, <2>4 DEF RenameTmp
    <3>2. shell[o] = "zsh" /\ todo'[o] = <<"zshrc">> /\ file'["zshenv"] = "whole"
      BY <2>1, <2>4, Todo DEF Files
    <3>3. FileTypes'
      BY <2>1, <3>1
    <3>4. \A q \in Openers : pc'[q] \in {"fill", "rename"} => q # o /\ pc[q] = pc'[q]
      BY <3>1
    <3>5. Named'
      BY <2>1, <3>4
    <3>6. Distinct' /\ ShellFindsWhole'
      BY <2>1, <3>4
    <3>7. ASSUME NEW q \in Openers, q # o
          PROVE  /\ pc'[q] = pc[q] /\ todo'[q] = todo[q] /\ shell'[q] = shell[q]
                 /\ injected'[q] = injected[q]
      BY <2>1, <3>1, <3>7
    <3>8. Written'
      BY <2>1, <2>2, <3>1, <3>2, <3>7 DEF Files
    <3> QED BY <3>3, <3>5, <3>6, <3>8
  <2> QED BY <2>3, <2>4
<1>5. ASSUME NEW o \in Openers, Fail(o) PROVE FileInv'
  BY <1>5 DEF Fail
<1>6. ASSUME NEW o \in Openers, StartBash(o) PROVE FileInv'
  BY <1>6 DEF StartBash, Find
<1>7. ASSUME NEW o \in Openers, StartZsh(o) \/ ReadZshrc(o) PROVE FileInv'
  BY <1>7 DEF StartZsh, ReadZshrc
<1>8. ASSUME NEW o \in Openers, PergaZshenv(o) \/ PergaZshrc(o) PROVE FileInv'
  <2>1. \/ found' = [found EXCEPT ![o] = @ \cup {file["zshenv"]}]
        \/ found' = [found EXCEPT ![o] = @ \cup {file["zshrc"]}]
    BY <1>8 DEF PergaZshenv, PergaZshrc, Find
  <2>2. /\ shell[o] = "zsh" /\ injected[o]
        /\ pc' = [pc EXCEPT ![o] = "rc"] \/ pc' = [pc EXCEPT ![o] = "ready"]
        /\ UNCHANGED <<file, tmp, seq, name, shell, todo, injected>>
    BY <1>8 DEF PergaZshenv, PergaZshrc
  <2> QED BY <2>1, <2>2
<1>9. ASSUME NEW p \in Processes, Crash(p) PROVE FileInv'
  BY <1>9 DEF Crash
<1>10. CASE UNCHANGED vars
  BY <1>10 DEF vars
<1> QED BY <1>1, <1>2, <1>3, <1>4, <1>5, <1>6, <1>7, <1>8, <1>9, <1>10
        DEF Next, Finished

\* A shell that was told to read Perga's files finds each of them, and whole
\* (crates/pty/src/shell_inject.rs, write_atomic and inject_shell_integration).
THEOREM StartupFilesWhole == Spec => []ShellFindsWhole
<1>1. FileInv => ShellFindsWhole
  BY DEF FileInv
<1> QED BY FileInvInit, FileInvStep, <1>1, PTL DEF Spec

-----------------------------------------------------------------------------
(* The start of a zsh *)

\* The value ZDOTDIR may have there, and what is known of the user's files.
StartTypes ==
    /\ inherited \in Zdotdir
    /\ zdotdir \in [Openers -> Zdotdir \cup {Perga}]
    /\ userZdotdir \in [Openers -> Zdotdir]
    /\ userEnv \in [Dirs -> Effects \cup {"?"}]
    /\ userRc \in [Dirs -> Effects \cup {"?"}]
    /\ DOMAIN log = Openers
    /\ shell \in [Openers -> Shells]
    /\ pc \in [Openers -> Labels]
    /\ injected \in [Openers -> BOOLEAN]
    /\ \A o \in Openers : pc[o] = "rc" => shell[o] = "zsh"

EnvKnown == userEnv[DirOf(inherited)] \in Effects
RcKnown  == EnvKnown /\ userRc[DirOf(PlainEnv)] \in Effects

\* Where a zsh stands before it has read anything, after .zshenv, and at the end.
AtStart(o) ==
    /\ log[o] = <<>>
    /\ injected[o] => userZdotdir[o] = inherited
    /\ ~injected[o] => zdotdir[o] = inherited /\ userZdotdir[o] = Unset

AtRc(o) ==
    /\ EnvKnown
    /\ log[o] = <<DirOf(inherited)>>
    /\ injected[o] => userZdotdir[o] = PlainEnv
    /\ ~injected[o] => zdotdir[o] = PlainEnv /\ userZdotdir[o] = Unset

AtEnd(o) ==
    /\ RcKnown
    /\ log[o] = <<DirOf(inherited), DirOf(PlainEnv)>>
    /\ zdotdir[o] = PlainRc
    /\ userZdotdir[o] = Unset

Zsh ==
    \A o \in Openers : shell[o] = "zsh" =>
        /\ pc[o] \in Writing \cup {"inject"} => ~injected[o]
        /\ pc[o] \in Writing \cup {"inject", "start"} => AtStart(o)
        /\ pc[o] = "rc" => AtRc(o)
        /\ pc[o] = "ready" => AtEnd(o)

StartInv == StartTypes /\ Zsh

\* What a shell has learned of the user's files stays true, and so does what a shell
\* without Perga would have read.
Stable ==
    /\ inherited' = inherited
    /\ EnvKnown => EnvKnown' /\ PlainEnv' = PlainEnv
    /\ RcKnown => RcKnown' /\ PlainRc' = PlainRc

LEMMA DirOfDirs == ASSUME NEW z \in Zdotdir PROVE DirOf(z) \in Dirs
BY ShellAssumption DEF DirOf, Zdotdir, Dirs, Unset

LEMMA ApplyZdotdir ==
    ASSUME NEW z \in Zdotdir, NEW e \in Effects
    PROVE  Apply(z, e) \in Zdotdir
BY DEF Apply, Effects

LEMMA PlainEnvZdotdir == StartTypes /\ EnvKnown => PlainEnv \in Zdotdir
BY ApplyZdotdir DEF StartTypes, EnvKnown, PlainEnv

LEMMA NotUnknown == "?" \notin Effects
BY ShellAssumption DEF Effects, Zdotdir, Dirs, Unset, Keep

LEMMA SourceEnvStep ==
    ASSUME StartTypes, NEW o \in Openers, NEW z \in Zdotdir, SourceEnv(o, z),
           userRc' = userRc, inherited' = inherited
    PROVE  /\ userEnv' \in [Dirs -> Effects \cup {"?"}]
           /\ userEnv'[DirOf(z)] \in Effects
           /\ Stable
<1>1. PICK e \in Effects : /\ userEnv[DirOf(z)] \in {"?", e}
                           /\ userEnv' = [userEnv EXCEPT ![DirOf(z)] = e]
  BY DEF SourceEnv
<1>2. DirOf(z) \in Dirs /\ DirOf(inherited) \in Dirs
  BY DirOfDirs DEF StartTypes
<1>3. userEnv' \in [Dirs -> Effects \cup {"?"}] /\ userEnv'[DirOf(z)] \in Effects
  BY <1>1, <1>2 DEF StartTypes
<1>4. \A d \in Dirs : userEnv[d] \in Effects => userEnv'[d] = userEnv[d]
  BY <1>1, <1>2, NotUnknown DEF StartTypes
<1>5. DirOf(inherited)' = DirOf(inherited)
  BY DEF DirOf
<1>6. EnvKnown => EnvKnown' /\ PlainEnv' = PlainEnv
  BY <1>2, <1>4, <1>5 DEF EnvKnown, PlainEnv, Apply
<1>7. RcKnown => RcKnown' /\ PlainRc' = PlainRc
  BY <1>6 DEF RcKnown, PlainRc, Apply, DirOf
<1> QED BY <1>3, <1>6, <1>7 DEF Stable

LEMMA SourceRcStep ==
    ASSUME StartTypes, NEW o \in Openers, NEW z \in Zdotdir, SourceRc(o, z),
           userEnv' = userEnv, inherited' = inherited
    PROVE  /\ userRc' \in [Dirs -> Effects \cup {"?"}]
           /\ userRc'[DirOf(z)] \in Effects
           /\ Stable /\ PlainEnv' = PlainEnv
<1>1. PICK e \in Effects : /\ userRc[DirOf(z)] \in {"?", e}
                           /\ userRc' = [userRc EXCEPT ![DirOf(z)] = e]
  BY DEF SourceRc
<1>2. DirOf(z) \in Dirs
  BY DirOfDirs
<1>3. userRc' \in [Dirs -> Effects \cup {"?"}] /\ userRc'[DirOf(z)] \in Effects
  BY <1>1, <1>2 DEF StartTypes
<1>4. \A d \in Dirs : userRc[d] \in Effects => userRc'[d] = userRc[d]
  BY <1>1, <1>2, NotUnknown DEF StartTypes
<1>5. PlainEnv' = PlainEnv /\ (EnvKnown => EnvKnown')
  BY DEF PlainEnv, EnvKnown, DirOf, Apply
<1>6. RcKnown => DirOf(PlainEnv) \in Dirs
  BY PlainEnvZdotdir, DirOfDirs DEF RcKnown
<1>7. RcKnown => RcKnown' /\ PlainRc' = PlainRc
  BY <1>4, <1>5, <1>6 DEF RcKnown, PlainRc, Apply, DirOf
<1> QED BY <1>3, <1>5, <1>7 DEF Stable

LEMMA Appended ==
    ASSUME NEW d \in Dirs, NEW e \in Dirs
    PROVE  Append(<<>>, d) = <<d>> /\ Append(<<e>>, d) = <<e, d>>
<1>1. Append(<<>>, d) = <<d>>
  OBVIOUS
<1>2. Append(<<e>>, d) = <<e, d>>
  <2>1. <<e>> \in Seq(Dirs) /\ <<e, d>> \in Seq(Dirs) /\ Append(<<e>>, d) \in Seq(Dirs)
    OBVIOUS
  <2>2. Len(Append(<<e>>, d)) = 2 /\ Len(<<e, d>>) = 2
    BY <2>1
  <2>3. \A i \in 1..2 : Append(<<e>>, d)[i] = <<e, d>>[i]
    BY <2>1
  <2> QED BY <2>1, <2>2, <2>3, SeqEqual
<1> QED BY <1>1, <1>2

LEMMA StableUnchanged ==
    ASSUME UNCHANGED <<inherited, userEnv, userRc>>
    PROVE  Stable /\ PlainEnv' = PlainEnv
BY DEF Stable, EnvKnown, RcKnown, PlainEnv, PlainRc, DirOf, Apply

\* A session that does not move keeps its place.
LEMMA OthersStay ==
    ASSUME StartInv, Stable, NEW q \in Openers,
           shell'[q] = shell[q], pc'[q] = pc[q], injected'[q] = injected[q],
           zdotdir'[q] = zdotdir[q], userZdotdir'[q] = userZdotdir[q], log'[q] = log[q]
    PROVE  shell'[q] = "zsh" =>
             /\ pc'[q] \in Writing \cup {"inject"} => ~injected'[q]
             /\ pc'[q] \in Writing \cup {"inject", "start"} => AtStart(q)'
             /\ pc'[q] = "rc" => AtRc(q)'
             /\ pc'[q] = "ready" => AtEnd(q)'
<1> SUFFICES ASSUME shell[q] = "zsh" 
             PROVE /\ pc[q] \in Writing \cup {"inject"} => ~injected'[q]
                   /\ pc[q] \in Writing \cup {"inject", "start"} => AtStart(q)'
                   /\ pc[q] = "rc" => AtRc(q)'
                   /\ pc[q] = "ready" => AtEnd(q)'
  OBVIOUS
<1>1. pc[q] \in Writing \cup {"inject"} => ~injected'[q]
  BY DEF StartInv, Zsh
<1>2. AtStart(q) => AtStart(q)'
  BY DEF AtStart, Stable
<1>3. AtRc(q) => AtRc(q)'
  BY DEF AtRc, Stable, DirOf
<1>4. AtEnd(q) => AtEnd(q)'
  BY DEF AtEnd, RcKnown, Stable, DirOf
<1> QED BY <1>1, <1>2, <1>3, <1>4 DEF StartInv, Zsh

Place(o) ==
    shell[o] = "zsh" =>
        /\ pc[o] \in Writing \cup {"inject"} => ~injected[o]
        /\ pc[o] \in Writing \cup {"inject", "start"} => AtStart(o)
        /\ pc[o] = "rc" => AtRc(o)
        /\ pc[o] = "ready" => AtEnd(o)

\* One session moves.
LEMMA OneMoves ==
    ASSUME StartInv, Stable, StartTypes', NEW o \in Openers, Place(o)',
           \A q \in Openers \ {o} :
              /\ shell'[q] = shell[q] /\ pc'[q] = pc[q] /\ injected'[q] = injected[q]
              /\ zdotdir'[q] = zdotdir[q] /\ userZdotdir'[q] = userZdotdir[q]
              /\ log'[q] = log[q]
    PROVE  StartInv'
<1>1. \A q \in Openers \ {o} : Place(q)'
  BY OthersStay DEF Place
<1> QED BY <1>1 DEF StartInv, Zsh, Place

LEMMA StartInvInit == Init => StartInv
BY ShellAssumption DEF Init, StartInv, StartTypes, Zsh, AtStart, Labels, Writing, Zdotdir

LEMMA StartInvStep == StartInv /\ [Next]_vars => StartInv'
<1> SUFFICES ASSUME StartInv, [Next]_vars PROVE StartInv'
  OBVIOUS
<1> USE DEF fileVars, openVars, shellVars, Goto, Labels, Writing
<1>0. StartTypes /\ \A o \in Openers : Place(o)
  BY DEF StartInv, Zsh, Place
<1>1. ASSUME NEW o \in Openers, Inject(o) \/ OpenTmp(o) \/ FillTmp(o) \/ Fail(o)
      PROVE  StartInv'
  <2>1. /\ pc[o] \in {"inject", "open", "fill", "rename"}
        /\ \E l \in {"open", "fill", "rename", "start"} : pc' = [pc EXCEPT ![o] = l]
        /\ UNCHANGED <<shell, injected, inherited, zdotdir, userZdotdir, log, userEnv,
                       userRc>>
    BY <1>1 DEF Inject, OpenTmp, FillTmp, Fail
  <2>2. Stable
    BY <2>1, StableUnchanged
  <2>3. StartTypes'
    BY <1>0, <2>1 DEF StartTypes
  <2>4. Place(o)'
    BY <1>0, <2>1 DEF Place, AtStart, StartTypes
  <2> QED BY <1>0, <2>1, <2>2, <2>3, <2>4, OneMoves DEF StartTypes
<1>2. ASSUME NEW o \in Openers, RenameTmp(o) PROVE StartInv'
  <2>1. /\ pc[o] = "rename"
        /\ UNCHANGED <<shell, inherited, log, userEnv, userRc>>
        /\ \/ /\ pc' = [pc EXCEPT ![o] = "start"]
              /\ Configure(o)
           \/ /\ pc' = [pc EXCEPT ![o] = "open"]
              /\ UNCHANGED <<injected, userZdotdir, zdotdir>>
    BY <1>2 DEF RenameTmp
  <2>2. Stable
    BY <2>1, StableUnchanged
  <2>3. StartTypes'
    <3>1. /\ zdotdir' \in [Openers -> Zdotdir \cup {Perga}]
          /\ userZdotdir' \in [Openers -> Zdotdir]
          /\ injected' \in [Openers -> BOOLEAN]
      BY <1>0, <2>1 DEF StartTypes, Configure
    <3> QED BY <1>0, <2>1, <3>1 DEF StartTypes
  <2>4. Place(o)'
    BY <1>0, <2>1 DEF Place, AtStart, StartTypes, Configure
  <2> QED BY <1>0, <2>1, <2>2, <2>3, <2>4, OneMoves DEF StartTypes, Configure
<1>3. ASSUME NEW o \in Openers, StartBash(o) PROVE StartInv'
  <2>1. /\ shell[o] # "zsh" /\ pc' = [pc EXCEPT ![o] = "ready"]
        /\ \E d : log' = [log EXCEPT ![o] = d]
        /\ UNCHANGED <<shell, injected, inherited, zdotdir, userZdotdir, userEnv, userRc>>
    BY <1>3 DEF StartBash
  <2>2. Stable
    BY <2>1, StableUnchanged
  <2>3. StartTypes' /\ Place(o)'
    BY <1>0, <2>1 DEF StartTypes, Place
  <2> QED BY <1>0, <2>1, <2>2, <2>3, OneMoves DEF StartTypes
<1>4. ASSUME NEW o \in Openers, StartZsh(o) PROVE StartInv'
  <2>1. AtStart(o) /\ ~injected[o] /\ shell[o] = "zsh"
    BY <1>0, <1>4 DEF StartZsh, Place
  <2>2. zdotdir[o] = inherited /\ inherited \in Zdotdir
    BY <1>0, <2>1 DEF AtStart, StartTypes
  <2>3. UNCHANGED <<shell, injected, inherited, userZdotdir, userRc>>
    BY <1>4 DEF StartZsh
  <2>4. Stable /\ userEnv' \in [Dirs -> Effects \cup {"?"}]
        /\ userEnv'[DirOf(inherited)] \in Effects
    BY <1>0, <1>4, <2>2, <2>3, SourceEnvStep DEF StartZsh
  <2>5. EnvKnown' /\ PlainEnv' = Apply(inherited, userEnv'[DirOf(inherited)])
    BY <2>3, <2>4 DEF EnvKnown, PlainEnv, DirOf
  <2>6. PlainEnv' \in Zdotdir
    BY <2>2, <2>4, <2>5, ApplyZdotdir
  <2>7. /\ pc' = [pc EXCEPT ![o] = "rc"]
        /\ zdotdir' = [zdotdir EXCEPT ![o] = PlainEnv']
        /\ log' = [log EXCEPT ![o] = <<DirOf(inherited)>>]
    <3>1. log' = [log EXCEPT ![o] = Append(@, DirOf(inherited))]
      BY <1>4, <2>2 DEF StartZsh, SourceEnv
    <3>2. log' = [log EXCEPT ![o] = <<DirOf(inherited)>>]
      BY <3>1, <2>1, <2>2, DirOfDirs, Appended DEF AtStart
    <3> QED BY <1>4, <2>2, <2>5, <3>2 DEF StartZsh
  <2>8. StartTypes'
    BY <1>0, <2>1, <2>3, <2>4, <2>6, <2>7 DEF StartTypes
  <2>9. Place(o)'
    BY <1>0, <2>1, <2>3, <2>5, <2>7 DEF Place, AtStart, AtRc, StartTypes, DirOf
  <2> QED BY <1>0, <2>3, <2>4, <2>7, <2>8, <2>9, OneMoves DEF StartTypes
<1>5. ASSUME NEW o \in Openers, PergaZshenv(o) PROVE StartInv'
  <2>1. AtStart(o) /\ injected[o] /\ shell[o] = "zsh"
    BY <1>0, <1>5 DEF PergaZshenv, Place
  <2>2. userZdotdir[o] = inherited /\ inherited \in Zdotdir
    BY <1>0, <2>1 DEF AtStart, StartTypes
  <2>3. UNCHANGED <<shell, injected, inherited, zdotdir, userRc>>
    BY <1>5 DEF PergaZshenv
  <2>4. Stable /\ userEnv' \in [Dirs -> Effects \cup {"?"}]
        /\ userEnv'[DirOf(inherited)] \in Effects
    BY <1>0, <1>5, <2>2, <2>3, SourceEnvStep DEF PergaZshenv
  <2>5. EnvKnown' /\ PlainEnv' = Apply(inherited, userEnv'[DirOf(inherited)])
    BY <2>3, <2>4 DEF EnvKnown, PlainEnv, DirOf
  <2>6. PlainEnv' \in Zdotdir
    BY <2>2, <2>4, <2>5, ApplyZdotdir
  <2>7. /\ pc' = [pc EXCEPT ![o] = "rc"]
        /\ userZdotdir' = [userZdotdir EXCEPT ![o] = PlainEnv']
        /\ log' = [log EXCEPT ![o] = <<DirOf(inherited)>>]
    <3>1. log' = [log EXCEPT ![o] = Append(@, DirOf(inherited))]
      BY <1>5, <2>2 DEF PergaZshenv, SourceEnv
    <3>2. log' = [log EXCEPT ![o] = <<DirOf(inherited)>>]
      BY <3>1, <2>1, <2>2, DirOfDirs, Appended DEF AtStart
    <3> QED BY <1>5, <2>2, <2>5, <3>2 DEF PergaZshenv
  <2>8. StartTypes'
    BY <1>0, <2>1, <2>3, <2>4, <2>6, <2>7 DEF StartTypes
  <2>9. Place(o)'
    BY <1>0, <2>1, <2>3, <2>5, <2>7 DEF Place, AtRc, StartTypes, DirOf
  <2> QED BY <1>0, <2>3, <2>4, <2>7, <2>8, <2>9, OneMoves DEF StartTypes
<1>6. ASSUME NEW o \in Openers, ReadZshrc(o) PROVE StartInv'
  <2>1. AtRc(o) /\ ~injected[o] /\ shell[o] = "zsh"
    BY <1>0, <1>6 DEF ReadZshrc, Place, StartTypes
  <2>2. /\ zdotdir[o] = PlainEnv /\ userZdotdir[o] = Unset /\ EnvKnown
        /\ PlainEnv \in Zdotdir /\ log[o] = <<DirOf(inherited)>>
    BY <1>0, <2>1, PlainEnvZdotdir DEF AtRc
  <2>3. UNCHANGED <<shell, injected, inherited, userZdotdir, userEnv>>
    BY <1>6 DEF ReadZshrc
  <2>4. Stable /\ PlainEnv' = PlainEnv /\ userRc' \in [Dirs -> Effects \cup {"?"}]
        /\ userRc'[DirOf(PlainEnv)] \in Effects
    BY <1>0, <1>6, <2>2, <2>3, SourceRcStep DEF ReadZshrc
  <2>5. RcKnown' /\ PlainRc' = Apply(PlainEnv, userRc'[DirOf(PlainEnv)])
    BY <2>2, <2>4 DEF RcKnown, PlainRc, DirOf, Stable
  <2>6. PlainRc' \in Zdotdir
    BY <2>2, <2>4, <2>5, ApplyZdotdir
  <2>7. /\ pc' = [pc EXCEPT ![o] = "ready"]
        /\ zdotdir' = [zdotdir EXCEPT ![o] = PlainRc']
        /\ log' = [log EXCEPT ![o] = <<DirOf(inherited), DirOf(PlainEnv)>>]
    <3>1. log' = [log EXCEPT ![o] = Append(@, DirOf(PlainEnv))]
      BY <1>6, <2>2 DEF ReadZshrc, SourceRc
    <3>2. log' = [log EXCEPT ![o] = <<DirOf(inherited), DirOf(PlainEnv)>>]
      BY <1>0, <3>1, <2>2, DirOfDirs, Appended DEF StartTypes
    <3> QED BY <1>6, <2>2, <2>5, <3>2 DEF ReadZshrc
  <2>8. StartTypes'
    BY <1>0, <2>3, <2>4, <2>6, <2>7 DEF StartTypes
  <2>9. Place(o)'
    BY <1>0, <2>2, <2>3, <2>4, <2>5, <2>7 DEF Place, AtEnd, StartTypes, DirOf
  <2> QED BY <1>0, <2>3, <2>4, <2>7, <2>8, <2>9, OneMoves DEF StartTypes
<1>7. ASSUME NEW o \in Openers, PergaZshrc(o) PROVE StartInv'
  <2>1. AtRc(o) /\ injected[o] /\ shell[o] = "zsh"
    BY <1>0, <1>7 DEF PergaZshrc, Place, StartTypes
  <2>2. /\ userZdotdir[o] = PlainEnv /\ EnvKnown
        /\ PlainEnv \in Zdotdir /\ log[o] = <<DirOf(inherited)>>
    BY <1>0, <2>1, PlainEnvZdotdir DEF AtRc
  <2>3. UNCHANGED <<shell, injected, inherited, userEnv>>
    BY <1>7 DEF PergaZshrc
  <2>4. Stable /\ PlainEnv' = PlainEnv /\ userRc' \in [Dirs -> Effects \cup {"?"}]
        /\ userRc'[DirOf(PlainEnv)] \in Effects
    BY <1>0, <1>7, <2>2, <2>3, SourceRcStep DEF PergaZshrc
  <2>5. RcKnown' /\ PlainRc' = Apply(PlainEnv, userRc'[DirOf(PlainEnv)])
    BY <2>2, <2>4 DEF RcKnown, PlainRc, DirOf, Stable
  <2>6. PlainRc' \in Zdotdir
    BY <2>2, <2>4, <2>5, ApplyZdotdir
  <2>7. /\ pc' = [pc EXCEPT ![o] = "ready"]
        /\ zdotdir' = [zdotdir EXCEPT ![o] = PlainRc']
        /\ userZdotdir' = [userZdotdir EXCEPT ![o] = Unset]
        /\ log' = [log EXCEPT ![o] = <<DirOf(inherited), DirOf(PlainEnv)>>]
    <3>1. log' = [log EXCEPT ![o] = Append(@, DirOf(PlainEnv))]
      BY <1>7, <2>2 DEF PergaZshrc, SourceRc
    <3>2. log' = [log EXCEPT ![o] = <<DirOf(inherited), DirOf(PlainEnv)>>]
      BY <1>0, <3>1, <2>2, DirOfDirs, Appended DEF StartTypes
    <3> QED BY <1>7, <2>2, <2>5, <3>2 DEF PergaZshrc
  <2>8. StartTypes'
    BY <1>0, <2>3, <2>4, <2>6, <2>7 DEF StartTypes, Zdotdir
  <2>9. Place(o)'
    BY <1>0, <2>2, <2>3, <2>4, <2>5, <2>7 DEF Place, AtEnd, StartTypes, DirOf
  <2> QED BY <1>0, <2>3, <2>4, <2>7, <2>8, <2>9, OneMoves DEF StartTypes
<1>8. ASSUME NEW p \in Processes, Crash(p) PROVE StartInv'
  <2>1. UNCHANGED <<shell, injected, inherited, zdotdir, userZdotdir, log, userEnv, userRc>>
    BY <1>8 DEF Crash
  <2>2. Stable
    BY <2>1, StableUnchanged
  <2>3. /\ pc' \in [Openers -> Labels]
        /\ \A q \in Openers : pc'[q] = pc[q] \/ pc'[q] = "dead"
    BY <1>0, <1>8 DEF Crash, StartTypes
  <2>4. StartTypes'
    BY <1>0, <2>1, <2>3 DEF StartTypes
  <2>5. \A q \in Openers : Place(q)'
    BY <1>0, <2>1, <2>2, <2>3, OthersStay DEF Place
  <2> QED BY <2>4, <2>5 DEF StartInv, Zsh, Place
<1>9. CASE UNCHANGED vars
  <2>1. UNCHANGED <<shell, pc, injected, inherited, zdotdir, userZdotdir, log, userEnv,
                    userRc>>
    BY <1>9 DEF vars
  <2>2. Stable /\ StartTypes'
    BY <1>0, <2>1, StableUnchanged DEF StartTypes
  <2>3. \A q \in Openers : Place(q)'
    BY <1>0, <2>1, <2>2, OthersStay DEF Place
  <2> QED BY <2>2, <2>3 DEF StartInv, Zsh, Place
<1> QED BY <1>1, <1>2, <1>3, <1>4, <1>5, <1>6, <1>7, <1>8, <1>9 DEF Next, Finished

\* Every zsh ends as one without Perga would: the same files of the user read, each
\* once, and the same ZDOTDIR (ZSH_ZSHENV, ZSH_ZSHRC_PREAMBLE and inject_zsh of
\* shell_inject.rs together).
THEOREM ZshStartsLikePlain == Spec => []StartsLikePlain
<1>1. StartInv => StartsLikePlain
  BY DEF StartInv, Zsh, AtEnd, StartsLikePlain
<1> QED BY StartInvInit, StartInvStep, <1>1, PTL DEF Spec
=============================================================================
