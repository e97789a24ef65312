-------------------------- MODULE ProfileStore_proofs --------------------------
(***************************************************************************)
(* What ProfileStore guarantees for every set of requests, profiles and    *)
(* process ids, and however often calls fail, the server crashes (with its *)
(* process id used again) or an editor writes.                             *)
(*                                                                         *)
(* The argument is about the temporary files: a request that has one is    *)
(* the only one of its name (Distinct, from the sequence number that every *)
(* name carries), so what it finds there is what it wrote (Filled).        *)
(***************************************************************************)
EXTENDS ProfileStore, TLAPS

Writing == {"fill", "chmod", "rename"}

\* A request that has a temporary file has named it after this process and a number
\* below the next one, and the file is there.
Named ==
    \A r \in Requests : pc[r] \in Writing =>
        /\ name[r] \in DOMAIN tmp
        /\ \E k \in 0..(seq - 1) : name[r] = <<pid, k>>

Distinct ==
    \A r, q \in Requests :
        pc[r] \in Writing /\ pc[q] \in Writing /\ name[r] = name[q] => r = q

\* What a request finds in its file is what it wrote.
Filled ==
    \A r \in Requests :
        /\ pc[r] \in {"chmod", "rename"} =>
              tmp[name[r]].whole /\ tmp[name[r]].hosts = want[r]
        /\ pc[r] = "rename" => tmp[name[r]].mode = "0600"

\* Nobody saves a list that load_profiles_from would refuse.
WantUnique == \A r \in Requests : pc[r] \in Saving => Unique(want[r])

\* A request at work has an operation that is valid, and one that saves changes the
\* list.
Asked ==
    \A r \in Requests :
        /\ pc[r] # "idle" => op[r] \in Ops /\ ~Invalid(op[r])
        /\ pc[r] \in Saving => op[r].do \notin Reads

IInv == TypeOK /\ Named /\ Distinct /\ Filled /\ WantUnique /\ Asked /\ FileSound

-----------------------------------------------------------------------------
(* create, update and delete keep a list without duplicates *)

LEMMA AppliedUnique ==
    ASSUME NEW hosts \in SUBSET Profile, Unique(hosts),
           NEW o \in Ops, ~Invalid(o), ~Refused(hosts, o), o.do \notin Reads
    PROVE  Applied(hosts, o) \in SUBSET Profile /\ Unique(Applied(hosts, o))
<1> USE DEF Unique, Has, Without, Entry, Refused, Applied, Profile, Reads
<1>1. CASE o.do = "create"
  <2>1. o.id \in Ids /\ o.fields \in Fields
    BY <1>1 DEF Ops, Invalid
  <2> QED BY <1>1, <2>1
<1>2. CASE o.do = "update"
  <2>1. o.id \in Ids /\ o.fields \in Fields
    BY <1>2 DEF Ops, Invalid
  <2> QED BY <1>2, <2>1
<1>3. CASE o.do = "delete"
  BY <1>3
<1> QED BY <1>1, <1>2, <1>3 DEF Ops

-----------------------------------------------------------------------------
(* The invariant *)

LEMMA IInvInit == Init => IInv
<1> SUFFICES ASSUME Init PROVE IInv
  OBVIOUS
<1>1. TypeOK
  <2>1. file \in File /\ tmp = [n \in {} |-> file]
    BY DEF Init, File
  <2>2. op \in [Requests -> Ops \cup {None}] /\ name \in [Requests -> Names \cup {None}]
    BY DEF Init
  <2>3. stored \subseteq Profile /\ stale \subseteq {r \in Requests : pc[r] \in Saving}
    BY DEF Init
  <2>4. DOMAIN tmp \subseteq Names /\ \A n \in DOMAIN tmp : tmp[n] \in File
    BY <2>1
  <2>5. /\ pid \in Pids /\ seq \in Nat
        /\ pc \in [Requests -> Steps] /\ reply \in [Requests -> Replies]
        /\ want \in [Requests -> SUBSET Profile] /\ overlapped \in BOOLEAN
    BY DEF Init, Steps, Replies
  <2>6. ops \in 0..MaxOps /\ edits \in 0..MaxEdits /\ fails \in 0..MaxFails
    BY ProfileAssumption DEF Init
  <2> QED BY <2>1, <2>2, <2>3, <2>4, <2>5, <2>6 DEF TypeOK
<1>2. Named /\ Distinct /\ Filled /\ WantUnique /\ Asked
  BY DEF Init, Named, Distinct, Filled, WantUnique, Asked, Writing, Saving
<1>3. FileSound
  BY DEF Init, FileSound, AlwaysReadable, NeverTorn, Unique
<1> QED BY <1>1, <1>2, <1>3 DEF IInv

LEMMA IInvStep == IInv /\ [Next]_vars => IInv'
<1> SUFFICES ASSUME IInv, [Next]_vars PROVE IInv'
  OBVIOUS
<1> USE ProfileAssumption
    DEF IInv, TypeOK, Named, Distinct, Filled, WantUnique, Asked, FileSound,
        AlwaysReadable, NeverTorn, Writing, Saving, Steps, Replies,
        fileVars, procVars, reqVars, storeVars, boundVars
<1>1. ASSUME NEW r \in Requests, Begin(r) PROVE IInv'
  BY <1>1 DEF Begin, Answer
<1>2. ASSUME NEW r \in Requests, Load(r) PROVE IInv'
  <2>1. CASE pc' = [pc EXCEPT ![r] = "idle"]
    BY <1>2, <2>1 DEF Load, Answer
  <2>2. CASE pc' # [pc EXCEPT ![r] = "idle"]
    <3>1. /\ pc[r] = "load" /\ pc' = [pc EXCEPT ![r] = "open"]
          /\ Unique(file.hosts) /\ ~Refused(file.hosts, op[r]) /\ op[r].do \notin Reads
          /\ want' = [want EXCEPT ![r] = Applied(file.hosts, op[r])]
          /\ UNCHANGED <<op, name, reply, file, tmp, pid, seq, stored, stale,
                         overlapped, ops, edits, fails>>
      BY <1>2, <2>2 DEF Load, Answer, Parses
    <3>2. file.hosts \in SUBSET Profile
      BY DEF File
    <3>3. want'[r] \in SUBSET Profile /\ Unique(want'[r])
      BY <3>1, <3>2, AppliedUnique
    <3>4. TypeOK'
      BY <3>1, <3>3
    <3> QED BY <3>1, <3>3, <3>4
  <2> QED BY <2>1, <2>2
<1>3. ASSUME NEW r \in Requests, Open(r) PROVE IInv'
  <2>1. /\ pc[r] = "open" /\ pc' = [pc EXCEPT ![r] = "fill"]
        /\ seq' = seq + 1
        /\ name' = [name EXCEPT ![r] = <<pid, seq>>]
        /\ UNCHANGED <<file, pid, op, want, reply, stored, stale, overlapped, ops,
                       edits, fails>>
    BY <1>3 DEF Open, NextSeq
  <2>2. /\ DOMAIN tmp' = DOMAIN tmp \cup {<<pid, seq>>}
        /\ \A n \in DOMAIN tmp : n # <<pid, seq>> => tmp'[n] = tmp[n]
    BY <1>3 DEF Open, Put
  <2>3. tmp'[<<pid, seq>>] \in File
    BY <1>3 DEF Open, Put, ModeOf, File
  <2>4. \A q \in Requests : pc[q] \in Writing => q # r /\ name[q] # <<pid, seq>>
    BY <2>1
  <2>5. TypeOK'
    <3>1. <<pid, seq>> \in Names
      BY DEF Names
    <3> QED BY <2>1, <2>2, <2>3, <3>1
  <2>6. Named' /\ Distinct'
    BY <2>1, <2>2, <2>4
  <2>7. Filled' /\ WantUnique' /\ Asked' /\ FileSound'
    BY <2>1, <2>2, <2>4
  <2> QED BY <2>5, <2>6, <2>7
<1>4. ASSUME NEW r \in Requests, Fill(r) PROVE IInv'
  BY <1>4 DEF Fill, Put, ModeOf, File
<1>5. ASSUME NEW r \in Requests, Chmod(r) PROVE IInv'
  BY <1>5 DEF Chmod, Put, File
<1>6. ASSUME NEW r \in Requests, Rename(r) PROVE IInv'
  <2>1. /\ pc[r] = "rename" /\ pc' = [pc EXCEPT ![r] = "idle"]
        /\ reply' = [reply EXCEPT ![r] = "ok"]
        /\ op' = [op EXCEPT ![r] = None] /\ want' = [want EXCEPT ![r] = {}]
        /\ name' = [name EXCEPT ![r] = None]
        /\ file' = tmp[name[r]]
        /\ DOMAIN tmp' = DOMAIN tmp \ {name[r]}
        /\ \A n \in DOMAIN tmp' : tmp'[n] = tmp[n]
        /\ UNCHANGED <<pid, seq, ops, edits, fails>>
    BY <1>6 DEF Rename, Answer
  <2>2. stored' \subseteq Profile
    <3>1. op[r] \in Ops /\ ~Invalid(op[r]) /\ op[r].do \notin Reads
      BY <2>1
    <3>2. op[r].do # "delete" => Entry(op[r]) \in Profile
      BY <3>1 DEF Ops, Invalid, Entry, Profile, Reads
    <3> QED BY <1>6, <3>2 DEF Rename, Without
  <2>3. stale' \subseteq {q \in Requests : pc'[q] \in Saving} /\ overlapped' \in BOOLEAN
    BY <1>6, <2>1 DEF Rename
  <2>4. TypeOK'
    BY <2>1, <2>2, <2>3
  <2>5. Named' /\ Distinct' /\ Filled'
    BY <2>1
  <2>6. WantUnique' /\ Asked'
    BY <2>1
  <2>7. FileSound'
    BY <2>1
  <2> QED BY <2>4, <2>5, <2>6, <2>7
<1>7. ASSUME NEW r \in Requests, CallFails(r) PROVE IInv'
  BY <1>7 DEF CallFails, Answer
<1>8. CASE Edit
  <2>1. file' \in File /\ file'.whole /\ file'.mode = "default" /\ stored' \subseteq Profile
    BY <1>8 DEF Edit, File
  <2>2. UNCHANGED <<tmp, pid, seq, pc, op, want, name, reply, ops, fails>>
        /\ stale' = {r \in Requests : pc[r] \in Saving} /\ overlapped' = FALSE
        /\ edits < MaxEdits /\ edits' = edits + 1
    BY <1>8 DEF Edit
  <2>3. TypeOK'
    <3>1. pc' = pc
      BY <2>2
    <3>2. stale' \subseteq {q \in Requests : pc'[q] \in Saving}
      BY <2>2, <3>1
    <3>3. overlapped' \in BOOLEAN
      BY <2>2
    <3>4. edits' \in 0..MaxEdits
      BY <2>2
    <3> QED BY <2>1, <2>2, <3>2, <3>3, <3>4
  <2>4. Named' /\ Distinct' /\ Filled' /\ WantUnique' /\ Asked'
    BY <2>2
  <2>5. FileSound'
    BY <2>1, <2>2
  <2> QED BY <2>3, <2>4, <2>5
<1>9. CASE Crash
  BY <1>9 DEF Crash
<1>10. CASE UNCHANGED vars
  BY <1>10 DEF vars, Unique
<1> QED BY <1>1, <1>2, <1>3, <1>4, <1>5, <1>6, <1>7, <1>8, <1>9, <1>10
        DEF Next, Finished

-----------------------------------------------------------------------------
(* Theorems *)

\* hosts.toml can always be read again and is never half written, whatever overlaps,
\* fails or crashes (perga-core/src/profiles.rs, save_profiles_atomic and the checks of
\* create, update and delete).
THEOREM HostsFileSound == Spec => []FileSound
<1>1. IInv => FileSound
  BY DEF IInv
<1> QED BY IInvInit, IInvStep, <1>1, PTL DEF Spec

\* A request that is answered with success has put its own list in place: no other
\* request, of this process or of one that had the same process id, ever writes to its
\* temporary file (save_profiles_atomic).
THEOREM OwnListSaved == Spec => SuccessIsOwnList
<1>1. IInv /\ [Next]_vars =>
        [\A r \in Requests : reply[r] # "ok" /\ reply'[r] = "ok"
             => file'.hosts = want[r]]_vars
  <2> SUFFICES ASSUME IInv, [Next]_vars, NEW r \in Requests,
                      reply[r] # "ok", reply'[r] = "ok"
               PROVE  file'.hosts = want[r]
    OBVIOUS
  <2> USE DEF IInv, TypeOK, Answer
  <2>1. ASSUME NEW q \in Requests, Rename(q) PROVE q = r /\ file' = tmp[name[r]]
    BY <2>1 DEF Rename
  <2>2. ASSUME NEW q \in Requests, Begin(q) \/ Load(q) \/ CallFails(q) PROVE FALSE
    BY <2>2 DEF Begin, Load, CallFails
  <2>3. ASSUME NEW q \in Requests, Open(q) \/ Fill(q) \/ Chmod(q) PROVE FALSE
    BY <2>3 DEF Open, Fill, Chmod
  <2>4. ~Edit /\ ~Crash /\ ~UNCHANGED vars
    BY DEF Edit, Crash, vars, reqVars
  <2>5. PICK q \in Requests : Rename(q)
    BY <2>2, <2>3, <2>4 DEF Next, Finished
  <2> QED BY <2>1, <2>5 DEF Rename, Filled
<1> QED BY IInvInit, IInvStep, <1>1, PTL DEF Spec, SuccessIsOwnList

-----------------------------------------------------------------------------
(* What is lost, and to whom *)

\* A request that nobody has overtaken will put in place what hosts.toml lists now,
\* changed as it was asked; so what is stored is listed, unless somebody else has
\* put an old list in place.
Fresh ==
    \A r \in Requests : pc[r] \in Saving /\ r \notin stale =>
        want[r] = Applied(file.hosts, op[r])

LossInv == Fresh /\ LostOnlyToOverlap

LEMMA LossInvStep == IInv /\ LossInv /\ [Next]_vars => LossInv'
<1> SUFFICES ASSUME IInv, LossInv, [Next]_vars PROVE LossInv'
  OBVIOUS
<1> USE DEF LossInv, Fresh, LostOnlyToOverlap, IInv, TypeOK, Asked, Filled, Saving, Steps,
            fileVars, procVars, reqVars, storeVars, boundVars
<1>1. ASSUME NEW r \in Requests, Begin(r) \/ CallFails(r) PROVE LossInv'
  BY <1>1 DEF Begin, CallFails, Answer
<1>2. ASSUME NEW r \in Requests, Load(r) PROVE LossInv'
  BY <1>2 DEF Load, Answer
<1>3. ASSUME NEW r \in Requests, Open(r) \/ Fill(r) \/ Chmod(r) PROVE LossInv'
  BY <1>3 DEF Open, Fill, Chmod
<1>4. ASSUME NEW r \in Requests, Rename(r) PROVE LossInv'
  <2>1. /\ pc[r] = "rename" /\ pc' = [pc EXCEPT ![r] = "idle"]
        /\ file'.hosts = want[r]
        /\ stored' = Without(stored, op[r].id)
                     \cup (IF op[r].do = "delete" THEN {} ELSE {Entry(op[r])})
        /\ stale' = {q \in Requests : pc[q] \in Saving} \ {r}
        /\ overlapped' = (overlapped \/ r \in stale)
    BY <1>4 DEF Rename, Answer
  <2>2. Fresh'
    BY <2>1
  <2>3. ASSUME r \notin stale, stored \subseteq file.hosts
        PROVE  stored' \subseteq Applied(file.hosts, op[r])
    <3>1. op[r].do \in {"create", "update", "delete"}
      BY <2>1 DEF Ops, Reads
    <3> QED BY <2>1, <2>3, <3>1 DEF Applied, Without
  <2> QED BY <2>1, <2>2, <2>3
<1>5. CASE Edit
  BY <1>5 DEF Edit
<1>6. CASE Crash
  BY <1>6 DEF Crash
<1>7. CASE UNCHANGED vars
  BY <1>7 DEF vars
<1> QED BY <1>1, <1>2, <1>3, <1>4, <1>5, <1>6, <1>7 DEF Next, Finished

\* What a request or an editor has stored can only be lost to a request that had read the
\* file before and renames its list after (perga-core/src/profiles.rs: load, change and
\* save without a lock).
THEOREM LossNeedsOverlap == Spec => []LostOnlyToOverlap
<1>1. Init => LossInv
  BY DEF Init, LossInv, Fresh, LostOnlyToOverlap, Saving
<1>2. LossInv => LostOnlyToOverlap
  BY DEF LossInv
<1> QED BY IInvInit, IInvStep, <1>1, <1>2, LossInvStep, PTL DEF Spec
=============================================================================
