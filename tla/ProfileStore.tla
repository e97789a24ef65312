----------------------------- MODULE ProfileStore -----------------------------
(***************************************************************************)
(* The host profiles of perga-core: hosts.toml, read, changed and written  *)
(* back by requests that run at the same time (the HTTP handlers of        *)
(* perga-server), by a user's editor, and across crashes of the server.    *)
(* Nothing locks the file; a temporary file and rename replace it.         *)
(*                                                                         *)
(* A profile is its id and a value for all its other fields; a value of    *)
(* BadFields fails validate_profile.  The order of the list is left out.   *)
(***************************************************************************)
EXTENDS Integers, FiniteSets

CONSTANTS
    Requests,   \* requests that may run at the same time
    Ids, Fields,
    BadFields,  \* an empty name, host, user or password, port 0, a changed id
    Pids,       \* process ids the server may be given, the same one again as well
    MaxOps,     \* bound: requests
    MaxEdits,   \* bound: changes by an editor
    MaxFails    \* bound: crashes and failed system calls

ASSUME ProfileAssumption ==
    /\ BadFields \notin Fields
    /\ Pids # {}
    /\ MaxOps \in Nat /\ MaxEdits \in Nat /\ MaxFails \in Nat

VARIABLES
    file,       \* hosts.toml
    tmp,        \* the temporary files: their names, what is in them
    pid, seq,   \* of the server process; SEQ of save_profiles_atomic
    pc, op, want, name, \* of each request: its next system call, what it was asked,
                        \* the list it will save, its temporary file
    reply,      \* of each request: the last answer
    stored,     \* profiles whose storing was answered with success, or that an
                \* editor has saved, and that nobody has changed since
    stale,      \* requests at work on a list that hosts.toml no longer holds
    overlapped, \* one of them has put its list in place since the last edit
    ops, edits, fails

fileVars == <<file, tmp>>
procVars == <<pid, seq>>
reqVars  == <<pc, op, want, name, reply>>
boundVars == <<ops, edits, fails>>
storeVars == <<stored, stale, overlapped>>
vars == <<fileVars, procVars, reqVars, storeVars, boundVars>>

Profile == [id : Ids, fields : Fields]
Names   == Pids \X Nat
Ops     == [do : {"create", "update"}, id : Ids, fields : Fields \cup {BadFields}]
           \cup [do : {"delete", "find"}, id : Ids, fields : {BadFields}]
           \cup [do : {"list"}, id : {BadFields}, fields : {BadFields}]
Reads   == {"find", "list"}
Saving  == {"open", "fill", "chmod", "rename"}
Steps   == {"idle", "load"} \cup Saving
Replies == {"none", "ok", "read", "invalid", "conflict", "notFound", "parse", "io"}
None    == <<>>

\* A file: whole unless a write is under way, who has set its mode, what it lists.
File == [whole : BOOLEAN, mode : {"0600", "default", "absent"}, hosts : SUBSET Profile]

Unique(hosts)     == \A p, q \in hosts : p.id = q.id => p = q
Has(hosts, id)    == \E p \in hosts : p.id = id
Without(hosts, id) == {p \in hosts : p.id # id}
Entry(o)          == [id |-> o.id, fields |-> o.fields]

Init ==
    /\ file = [whole |-> TRUE, mode |-> "absent", hosts |-> {}]
    /\ tmp = [n \in {} |-> file]
    /\ pid \in Pids /\ seq = 0
    /\ pc = [r \in Requests |-> "idle"]
    /\ op = [r \in Requests |-> None] /\ want = [r \in Requests |-> {}]
    /\ name = [r \in Requests |-> None] /\ reply = [r \in Requests |-> "none"]
    /\ stored = {} /\ stale = {} /\ overlapped = FALSE
    /\ ops = 0 /\ edits = 0 /\ fails = 0

Answer(r, a) ==
    /\ reply' = [reply EXCEPT ![r] = a]
    /\ pc' = [pc EXCEPT ![r] = "idle"]
    /\ op' = [op EXCEPT ![r] = None]
    /\ want' = [want EXCEPT ![r] = {}]
    /\ name' = [name EXCEPT ![r] = None]

-----------------------------------------------------------------------------
(* create_profile_at, update_profile_at, delete_profile_at; load_profiles alone, for *)
(* the list of hosts and for the profile a new session names                       *)

Invalid(o) == o.do \in {"create", "update"} /\ o.fields = BadFields

Begin(r) ==
    /\ pc[r] = "idle" /\ ops < MaxOps
    /\ ops' = ops + 1
    /\ \E o \in Ops :
          IF Invalid(o)
          THEN Answer(r, "invalid")
          ELSE /\ pc' = [pc EXCEPT ![r] = "load"]
               /\ op' = [op EXCEPT ![r] = o]
               /\ reply' = [reply EXCEPT ![r] = "none"]
               /\ UNCHANGED <<want, name>>
    /\ UNCHANGED <<fileVars, procVars, storeVars, edits, fails>>

Parses(f) == f.whole /\ Unique(f.hosts)

\* Mutant: create does not look for the id.
RefusedNever(hosts, o) == o.do \notin {"create", "list"} /\ ~Has(hosts, o.id)

\* create wants a new id, update, delete and find one that is there.
Refused(hosts, o) == o.do # "list" /\ (o.do = "create" <=> Has(hosts, o.id))

\* Mutant: delete keeps the profile it should remove.
AppliedInverted(hosts, o) ==
    CASE o.do = "create" -> hosts \cup {Entry(o)}
      [] o.do = "update" -> Without(hosts, o.id) \cup {Entry(o)}
      [] o.do = "delete" -> hosts \ Without(hosts, o.id)

\* push, assignment to the position found, remove
Applied(hosts, o) ==
    CASE o.do = "create" -> hosts \cup {Entry(o)}
      [] o.do = "update" -> Without(hosts, o.id) \cup {Entry(o)}
      [] o.do = "delete" -> Without(hosts, o.id)

\* A file that is absent reads as an empty list.
Load(r) ==
    /\ pc[r] = "load"
    /\ \/ /\ ~Parses(file)
          /\ Answer(r, "parse")
       \/ /\ Parses(file) /\ Refused(file.hosts, op[r])
          /\ Answer(r, IF op[r].do = "create" THEN "conflict" ELSE "notFound")
       \/ /\ Parses(file) /\ ~Refused(file.hosts, op[r]) /\ op[r].do \in Reads
          /\ Answer(r, "read")
       \/ /\ Parses(file) /\ ~Refused(file.hosts, op[r]) /\ op[r].do \notin Reads
          /\ want' = [want EXCEPT ![r] = Applied(file.hosts, op[r])]
          /\ pc' = [pc EXCEPT ![r] = "open"]
          /\ UNCHANGED <<op, name, reply>>
    /\ UNCHANGED <<fileVars, procVars, storeVars, boundVars>>

-----------------------------------------------------------------------------
(* save_profiles_atomic *)

\* Mutant: the sequence number is not advanced.
NextSeqSame == seq

NextSeq == seq + 1

ModeOf(n) == IF n \in DOMAIN tmp THEN tmp[n].mode ELSE "default"
Put(n, f) == [m \in DOMAIN tmp \cup {n} |-> IF m = n THEN f ELSE tmp[m]]

\* fs::write creates or truncates the file first.
Open(r) ==
    /\ pc[r] = "open"
    /\ seq' = NextSeq
    /\ name' = [name EXCEPT ![r] = <<pid, seq>>]
    /\ tmp' = Put(<<pid, seq>>,
                  [whole |-> FALSE, mode |-> ModeOf(<<pid, seq>>), hosts |-> {}])
    /\ pc' = [pc EXCEPT ![r] = "fill"]
    /\ UNCHANGED <<file, pid, op, want, reply, storeVars, boundVars>>

Fill(r) ==
    /\ pc[r] = "fill"
    /\ tmp' = Put(name[r], [whole |-> TRUE, mode |-> ModeOf(name[r]), hosts |-> want[r]])
    /\ pc' = [pc EXCEPT ![r] = "chmod"]
    /\ UNCHANGED <<file, procVars, op, want, name, reply, storeVars, boundVars>>

\* Mutant: the new list is put in place before its mode is set.
ChmodLater(r) ==
    /\ pc[r] = "chmod"
    /\ pc' = [pc EXCEPT ![r] = "rename"]
    /\ UNCHANGED <<fileVars, procVars, op, want, name, reply, storeVars, boundVars>>

Chmod(r) ==
    /\ pc[r] = "chmod"
    /\ name[r] \in DOMAIN tmp
    /\ tmp' = Put(name[r], [tmp[name[r]] EXCEPT !.mode = "0600"])
    /\ pc' = [pc EXCEPT ![r] = "rename"]
    /\ UNCHANGED <<file, procVars, op, want, name, reply, storeVars, boundVars>>

Rename(r) ==
    /\ pc[r] = "rename"
    /\ name[r] \in DOMAIN tmp
    /\ file' = tmp[name[r]]
    /\ tmp' = [m \in DOMAIN tmp \ {name[r]} |-> tmp[m]]
    /\ Answer(r, "ok")
    /\ stored' = Without(stored, op[r].id)
                 \cup (IF op[r].do = "delete" THEN {} ELSE {Entry(op[r])})
    /\ stale' = {q \in Requests : pc[q] \in Saving} \ {r}
    /\ overlapped' = (overlapped \/ r \in stale)
    /\ UNCHANGED <<procVars, boundVars>>

\* Reading the file or any call of save_profiles_atomic fails; a temporary file that
\* exists is left behind.  Another request may have moved the temporary file away only
\* if they share its name.
CallFails(r) ==
    /\ pc[r] \in Saving \cup {"load"}
    /\ \/ fails < MaxFails /\ fails' = fails + 1
       \/ pc[r] \in {"chmod", "rename"} /\ name[r] \notin DOMAIN tmp /\ UNCHANGED fails
    /\ Answer(r, "io")
    /\ stale' = stale \ {r}
    /\ UNCHANGED <<fileVars, procVars, stored, overlapped, ops, edits>>

-----------------------------------------------------------------------------
(* The editor and the server's process (outside the repository) *)

\* An editor replaces the file as a whole, by a list of any kind.
Edit ==
    /\ edits < MaxEdits
    /\ edits' = edits + 1
    /\ \E hosts \in SUBSET Profile :
          /\ file' = [whole |-> TRUE, mode |-> "default", hosts |-> hosts]
          /\ stored' = hosts
    /\ stale' = {r \in Requests : pc[r] \in Saving} /\ overlapped' = FALSE
    /\ UNCHANGED <<tmp, procVars, reqVars, ops, fails>>

Crash ==
    /\ fails < MaxFails
    /\ fails' = fails + 1
    /\ pid' \in Pids /\ seq' = 0
    /\ pc' = [r \in Requests |-> "idle"] /\ reply' = [r \in Requests |-> "none"]
    /\ op' = [r \in Requests |-> None] /\ want' = [r \in Requests |-> {}]
    /\ name' = [r \in Requests |-> None]
    /\ stale' = {}
    /\ UNCHANGED <<fileVars, stored, overlapped, ops, edits>>

\* Nothing more to ask: no deadlock.
Finished ==
    /\ ops = MaxOps /\ \A r \in Requests : pc[r] = "idle"
    /\ UNCHANGED vars

Next ==
    \/ \E r \in Requests : \/ Begin(r) \/ Load(r) \/ Open(r) \/ Fill(r)
                           \/ Chmod(r) \/ Rename(r) \/ CallFails(r)
    \/ Edit \/ Crash \/ Finished

Spec == Init /\ [][Next]_vars

-----------------------------------------------------------------------------
(* Properties *)

TypeOK ==
    /\ file \in File
    /\ DOMAIN tmp \subseteq Names /\ \A n \in DOMAIN tmp : tmp[n] \in File
    /\ pid \in Pids /\ seq \in Nat
    /\ pc \in [Requests -> Steps] /\ reply \in [Requests -> Replies]
    /\ op \in [Requests -> Ops \cup {None}]
    /\ want \in [Requests -> SUBSET Profile]
    /\ name \in [Requests -> Names \cup {None}]
    /\ stored \subseteq Profile
    /\ stale \subseteq {r \in Requests : pc[r] \in Saving} /\ overlapped \in BOOLEAN
    /\ ops \in 0..MaxOps /\ edits \in 0..MaxEdits /\ fails \in 0..MaxFails

\* hosts.toml as the program leaves it can always be read again: no two requests,
\* crash or failed call make it list an id twice, which load_profiles_from refuses
\* from then on for every operation.
AlwaysReadable == file.mode # "default" => Unique(file.hosts)

\* A reader never sees half a file, and the file the program has put in place has
\* the mode of the program, also when writes overlap, fail or are cut off.
NeverTorn == file.whole /\ (file.mode = "default" => edits > 0)

\* Both together: whatever fails or overlaps, the next load gets a list it accepts.
FileSound == AlwaysReadable /\ NeverTorn

\* A request that reports success has put its own list in place, not the list of a
\* request that runs at the same time.
SuccessIsOwnList ==
    [][\A r \in Requests : reply[r] # "ok" /\ reply'[r] = "ok"
            => file'.hosts = want[r]]_vars

\* What a request or an editor has stored is there until somebody changes that very
\* profile, unless a request that had read the file before replaces it.  That is all
\* there is to "external edits do not conflict" (perga-core/src/profiles.rs:8-9).
LostOnlyToOverlap == overlapped \/ stored \subseteq file.hosts
=============================================================================
