---------------------------- MODULE AdminProofs ----------------------------
(* What is proved about the administration, for all texts, agents, markers, *)
(* processes, rules, events, organisations and requests.                    *)
EXTENDS Admin, TLAPS

\* A behaviour follows one part, and each part's variables take steps of it.
LEMMA FollowsParts ==
  /\ Init => StoreInit /\ CanaryInit /\ DetectionInit /\ OrgInit
  /\ [Next]_vars => /\ [StoreNext]_storeVars
                    /\ [CanaryNext]_canaryVars
                    /\ [DetectionNext]_detectionVars
                    /\ [OrgNext]_orgVars
BY DEF Init, Next, vars

-----------------------------------------------------------------------------
(* The policy file.                                                        *)

\* A policy in force is what a text reads as; an agent that is confined is on
\* the list in the file and in the policy.
ConfinedInBoth ==
  /\ Up => policy = [tag |-> policy.tag, lists |-> policy.lists]
  /\ QuarantineSticks

\* A tag that was saved and is in no backup is the file's, and the policy in
\* force is of that file: a change of trust writes the tag again.
BackedUp == {t.tag : t \in Range(backups)}
SavedInFile ==
  \A tag \in savedTags : tag \in BackedUp \/ (tag = file.tag /\ (Up => policy.tag = tag))

StoreInv == ConfinedInBoth /\ SavedInFile

LEMMA BackupKeeps ==
  ASSUME NEW t, Backup(t)
  PROVE  /\ t.tag \in BackedUp'
         /\ \A tag \in BackedUp \ Replaced : tag \in BackedUp'
<1>1. /\ DOMAIN backups' = DOMAIN backups \cup {storeClock}
      /\ backups'[storeClock] = t
      /\ \A at \in DOMAIN backups \ {storeClock} : backups'[at] = backups[at]
  BY DEF Backup
<1>2. t.tag \in BackedUp'
  BY <1>1 DEF BackedUp, Range
<1>3. ASSUME NEW tag \in BackedUp \ Replaced PROVE tag \in BackedUp'
  <2>1. PICK at \in DOMAIN backups : backups[at].tag = tag
    BY DEF BackedUp, Range
  <2>2. at # storeClock
    BY <2>1 DEF Replaced
  <2> QED
    BY <1>1, <2>1, <2>2 DEF BackedUp, Range
<1> QED
  BY <1>2, <1>3

LEMMA StoreStep == StoreInv /\ [StoreNext]_storeVars => StoreInv'
<1> SUFFICES ASSUME StoreInv, [StoreNext]_storeVars PROVE StoreInv'
  OBVIOUS
<1> USE DEF StoreInv, ConfinedInBoth, QuarantineSticks, SavedInFile, QuarantinedIn, Up
<1>1. ASSUME NEW t \in Texts, Save(t) PROVE StoreInv'
  <2>1. /\ file' = t /\ policy' = [tag |-> t.tag, lists |-> t.lists]
        /\ savedTags' = (savedTags \ Replaced) \cup {t.tag}
        /\ confined' = confined \cap t.lists["quarantined"]
    BY <1>1 DEF Save, Valid, Flaws, Parses, Parsed
  <2>2. file.tag \in BackedUp' /\ \A tag \in BackedUp \ Replaced : tag \in BackedUp'
    BY <1>1, BackupKeeps DEF Save
  <2> QED
    BY <2>1, <2>2
<1>2. ASSUME NEW t \in Texts, EditByHand(t) PROVE StoreInv'
  BY <1>2 DEF EditByHand, BackedUp
<1>3. ASSUME NEW a \in Agents, NEW level \in TrustLists \cup {"clear"}, Trust(a, level)
      PROVE  StoreInv'
  <2>1. policy' = [tag |-> policy.tag,
                   lists |-> [l \in TrustLists |->
                     (policy.lists[l] \ {a}) \cup (IF l = level THEN {a} ELSE {})]]
    BY <1>3 DEF Trust, WithTrust
  <2>2. file'.tag = policy.tag /\ file'.lists = policy'.lists
    BY <1>3, <2>1 DEF Trust, Stringified
  <2>3. confined' \subseteq policy'.lists["quarantined"]
    BY <1>3, <2>1 DEF Trust, TrustLists
  <2>4. SavedInFile'
    BY <1>3, <2>1, <2>2 DEF Trust, BackedUp
  <2> QED
    BY <2>1, <2>2, <2>3, <2>4
<1>4. CASE Reload
  BY <1>4 DEF Reload, Parsed, BackedUp
<1>5. CASE StoreStart
  BY <1>5 DEF StoreStart, Parsed, BackedUp
<1>6. CASE StoreStop
  BY <1>6 DEF StoreStop, BackedUp
<1>7. CASE MsPasses
  BY <1>7 DEF MsPasses, BackedUp
<1>8. CASE UNCHANGED storeVars
  BY <1>8 DEF storeVars, BackedUp
<1> QED
  BY <1>1, <1>2, <1>3, <1>4, <1>5, <1>6, <1>7, <1>8 DEF StoreNext

LEMMA StoreInvHolds == Spec => []StoreInv
<1>1. StoreInit => StoreInv
  BY DEF StoreInit, StoreInv, ConfinedInBoth, QuarantineSticks, SavedInFile, Up
<1> QED
  BY <1>1, FollowsParts, StoreStep, PTL DEF Spec

\* For every text, agent and order of requests, edits and restarts: a policy
\* saved through the API is the file's or a backup's (policy-save.ts).
THEOREM SavedIsRecoverable == Spec => []SavedPoliciesAreRecoverable
<1>1. StoreInv => SavedPoliciesAreRecoverable
  BY DEF StoreInv, SavedInFile, SavedPoliciesAreRecoverable, BackedUp
<1> QED
  BY <1>1, StoreInvHolds, PTL

\* An agent quarantined through the API stays so until somebody says otherwise,
\* however the file and the policy in force replace each other (phase3.ts).
THEOREM QuarantineHolds == Spec => []QuarantineSticks
<1>1. StoreInv => QuarantineSticks
  BY DEF StoreInv, ConfinedInBoth
<1> QED
  BY <1>1, StoreInvHolds, PTL

-----------------------------------------------------------------------------
(* Signatures.                                                             *)

\* The only key there is, is the key of whoever holds one, and of the files as
\* far as they are written.
KeysKnown == {NoKey} \cup (1 .. generated)

\* One marker at a time has a new value that is not signed, in a rotation.
TaskTyped(u) ==
  /\ u.op \in {"idle", "rotate", "sign", "verify"}
  /\ u = [op |-> u.op, todo |-> u.todo, changed |-> u.changed, key |-> u.key,
          fresh |-> u.fresh, written |-> u.written, rotation |-> u.rotation]
  /\ u.key \in KeysKnown /\ u.fresh \in KeysKnown /\ u.written \in BOOLEAN
  /\ u.op # "rotate" => u.changed = {}
  /\ \A m, n \in u.changed : m = n

KeysTyped ==
  /\ generated \in Nat
  /\ keyFiles = [private |-> keyFiles.private, public |-> keyFiles.public]
  /\ keyFiles.private \in KeysKnown /\ keyFiles.public \in KeysKnown
  /\ task = [p \in Processes |-> task[p]]
  /\ torn = [p \in Processes |-> torn[p]]
  /\ \A p \in Processes : TaskTyped(task[p])

\* Whoever holds a key, or has signed with one, has seen the public file written.
PublicIsWritten ==
  /\ \A p \in Processes : task[p].key # NoKey => keyFiles.public # NoKey
  /\ \A p \in Processes : task[p].written => task[p].fresh # NoKey
  /\ \A p \in Processes, m \in Markers :
       signatures[p][m] # NoSignature =>
         keyFiles.public # NoKey /\ signatures[p][m].current.key \in 1 .. generated

\* Rotations are numbered: the value a rotation brings is later than those its
\* markers have, and a signature is never of a later value than the active one.
Ahead(u, values, last) ==
  /\ u.rotation \in 0 .. last
  /\ u.op = "rotate" =>
       \A m \in Markers : m \in u.todo \ u.changed => values[m].rotation < u.rotation

Numbered ==
  /\ rotations \in Nat
  /\ \A p \in Processes : Ahead(task[p], active[p], rotations)
  /\ \A p \in Processes, m \in Markers :
       /\ active[p][m].rotation \in 0 .. rotations
       /\ signatures[p][m] # NoSignature =>
            signatures[p][m].current.value.rotation \in 0 .. active[p][m].rotation

\* Values and signatures are kept by process and marker.
IsTable(f) == f = [p \in Processes |-> [m \in Markers |-> f[p][m]]]

\* A signature is of the value that is active and the signature before, but for
\* a marker whose new value is not signed.
Unfinished(p, m) ==
  /\ m \in task[p].changed \cup torn[p]
  /\ signatures[p][m].current.value.rotation < active[p][m].rotation

OfActive(p, m) ==
  signatures[p][m].current =
    Signature(signatures[p][m].current.key, active[p][m], signatures[p][m].prev)

SignedIsActive ==
  /\ IsTable(signatures) /\ IsTable(active)
  /\ \A p \in Processes, m \in Markers :
       signatures[p][m] # NoSignature => OfActive(p, m) \/ Unfinished(p, m)

SignInv == KeysTyped /\ PublicIsWritten /\ Numbered /\ SignedIsActive

\* With one key generated at most, it is the one in the public file.
LEMMA SignInvSuffices == SignInv => SignaturesHold
<1> SUFFICES ASSUME SignInv, NEW p \in Processes, NEW m \in Markers,
                    signatures[p][m] # NoSignature, ~Unfinished(p, m),
                    ~(generated > 1 /\ signatures[p][m].current.key # keyFiles.public)
             PROVE  Verifies(p, m)
  BY DEF SignaturesHold, Unfinished
<1>1. /\ signatures[p][m].current.key \in 1 .. generated
      /\ keyFiles.public \in 1 .. generated /\ generated \in Nat
  BY DEF SignInv, PublicIsWritten, KeysTyped, KeysKnown
<1>2. signatures[p][m].current.key = keyFiles.public
  BY <1>1
<1> QED
  BY <1>2 DEF SignInv, SignedIsActive, OfActive, Verifies

LEMMA SignStart == CanaryInit => SignInv
<1> SUFFICES ASSUME CanaryInit PROVE SignInv
  OBVIOUS
<1>1. TaskTyped(Idle)
  BY DEF TaskTyped, Idle, Operation, KeysKnown
<1>2. KeysTyped
  BY <1>1 DEF CanaryInit, KeysTyped, KeysKnown
<1>3. PublicIsWritten
  BY DEF CanaryInit, PublicIsWritten, Idle, Operation
<1>4. SignedIsActive
  BY DEF CanaryInit, SignedIsActive, IsTable
<1>5. Numbered
  <2>1. Idle.rotation = 0 /\ Idle.op = "idle"
    BY DEF Idle, Operation
  <2> QED
    BY <2>1 DEF CanaryInit, Numbered, Ahead, Value
<1> QED
  BY <1>2, <1>3, <1>4, <1>5 DEF SignInv

\* What replacing one value of one process leaves alone.
Replaces(g, f, p, m, v) ==
  /\ IsTable(g) /\ g[p][m] = v
  /\ \A q \in Processes, n \in Markers : q # p \/ n # m => g[q][n] = f[q][n]

LEMMA OneValueChanges ==
  ASSUME NEW f, IsTable(f), NEW p \in Processes, NEW m \in Markers, NEW v
  PROVE  Replaces([f EXCEPT ![p] = [f[p] EXCEPT ![m] = v]], f, p, m, v)
<1> DEFINE g == [f EXCEPT ![p] = [f[p] EXCEPT ![m] = v]]
<1> USE DEF IsTable
<1>1. f[p] = [n \in Markers |-> f[p][n]]
  OBVIOUS
<1>2. g[p] = [n \in Markers |-> IF n = m THEN v ELSE f[p][n]]
  BY <1>1
<1>3. \A q \in Processes \ {p} : g[q] = f[q] /\ f[q] = [n \in Markers |-> f[q][n]]
  OBVIOUS
<1>4. g = [q \in Processes |-> g[q]]
  OBVIOUS
<1>5. ASSUME NEW q \in Processes PROVE g[q] = [n \in Markers |-> g[q][n]]
  BY <1>2, <1>3
<1>6. g = [q \in Processes |-> [n \in Markers |-> g[q][n]]]
  BY <1>4, <1>5
<1> QED
  BY <1>2, <1>3, <1>6 DEF Replaces

\* A process goes on with its operation; files, values and signatures stay.
Starts(p, u) ==
  /\ TaskTyped(u) /\ task' = [task EXCEPT ![p] = u]
  /\ u.key # NoKey => keyFiles.public # NoKey
  /\ u.written => u.fresh # NoKey
  /\ task[p].changed \subseteq u.changed \cup torn'[p] /\ torn[p] \subseteq torn'[p]
  /\ torn' = [q \in Processes |-> torn'[q]]
  /\ \A q \in Processes : q # p => torn'[q] = torn[q]
  /\ rotations' \in Nat /\ rotations <= rotations' /\ Ahead(u, active[p], rotations')
  /\ UNCHANGED <<keyFiles, generated, active, signatures>>

LEMMA TaskKeeps ==
  ASSUME SignInv, NEW p \in Processes, NEW u, Starts(p, u)
  PROVE  SignInv'
<1> USE DEF Starts
<1>0. task' = [q \in Processes |-> task'[q]] /\ task'[p] = u
      /\ \A q \in Processes : q # p => task'[q] = task[q]
  BY DEF SignInv, KeysTyped
<1>1. KeysTyped'
  BY <1>0 DEF SignInv, KeysTyped, TaskTyped, KeysKnown
<1>2. PublicIsWritten'
  BY <1>0 DEF SignInv, PublicIsWritten
<1>3. SignedIsActive'
  <2>1. SignedIsActive
    BY DEF SignInv
  <2>2. ASSUME NEW q \in Processes, NEW m \in Markers, Unfinished(q, m) PROVE Unfinished(q, m)'
    BY <1>0, <2>2 DEF Unfinished
  <2>3. ASSUME NEW q \in Processes, NEW m \in Markers, OfActive(q, m) PROVE OfActive(q, m)'
    BY <2>3 DEF OfActive
  <2> QED
    BY <2>1, <2>2, <2>3 DEF SignedIsActive, IsTable
<1>4. Numbered'
  <2>1. \A q \in Processes : Ahead(task'[q], active[q], rotations')
    <3>1. \A q \in Processes : Ahead(task[q], active[q], rotations)
      BY DEF SignInv, Numbered
    <3>2. rotations \in Nat
      BY DEF SignInv, Numbered
    <3> QED
      BY <1>0, <3>1, <3>2 DEF Ahead
  <2> QED
    BY <2>1 DEF SignInv, Numbered
<1> QED
  BY <1>1, <1>2, <1>3, <1>4 DEF SignInv

\* The same of the table a step leaves.
LEMMA ReplacedIn ==
  ASSUME NEW f, IsTable(f), NEW p \in Processes, NEW m \in Markers, NEW v, NEW g,
         g = [f EXCEPT ![p] = [f[p] EXCEPT ![m] = v]]
  PROVE  Replaces(g, f, p, m, v)
BY OneValueChanges, Zenon

\* A rotation gives a marker a later value than any it has had or is signed for.
LEMMA ChangingKeeps ==
  ASSUME SignInv, NEW p \in Processes, NEW m \in Markers, ChangeValue(p, m)
  PROVE  SignInv'
<1> DEFINE value == Value(m, task[p].rotation)
           u == [task[p] EXCEPT !.changed = {m}]
<1>1. /\ task[p].op = "rotate" /\ task[p].changed = {} /\ m \in task[p].todo
      /\ UNCHANGED <<keyFiles, generated, rotations, signatures, torn>>
  BY DEF ChangeValue
<1>2. Replaces(active', active, p, m, value)
  <2>1. active' = [active EXCEPT ![p] = [active[p] EXCEPT ![m] = value]]
    BY DEF ChangeValue
  <2>2. IsTable(active)
    BY DEF SignInv, SignedIsActive
  <2> HIDE DEF value
  <2> QED
    BY <2>1, <2>2, ReplacedIn
<1>3. /\ TaskTyped(task[p]) /\ Ahead(task[p], active[p], rotations)
      /\ (task[p].written => task[p].fresh # NoKey)
      /\ (task[p].key # NoKey => keyFiles.public # NoKey)
  BY DEF SignInv, KeysTyped, Numbered, PublicIsWritten
<1>4. TaskTyped(u) /\ u.changed = {m} /\ u.todo = task[p].todo /\ u.op = "rotate"
      /\ u.rotation = task[p].rotation /\ u.key = task[p].key
      /\ u.written = task[p].written /\ u.fresh = task[p].fresh
  BY <1>1, <1>3 DEF TaskTyped
<1>5. /\ task' = [q \in Processes |-> task'[q]] /\ task'[p] = u
      /\ \A q \in Processes : q # p => task'[q] = task[q]
  BY DEF ChangeValue, SignInv, KeysTyped
<1>6. /\ value.rotation = task[p].rotation /\ task[p].rotation \in 0 .. rotations
      /\ rotations \in Nat /\ active[p][m].rotation < task[p].rotation
      /\ active[p][m].rotation \in Nat
  BY <1>1, <1>3 DEF Value, Ahead, SignInv, Numbered
<1> HIDE DEF u, value
<1>7. KeysTyped'
  BY <1>1, <1>4, <1>5 DEF SignInv, KeysTyped, TaskTyped, KeysKnown
<1>8. PublicIsWritten'
  BY <1>1, <1>3, <1>4, <1>5 DEF SignInv, PublicIsWritten
<1>9. Numbered'
  <2>1. ASSUME NEW q \in Processes PROVE Ahead(task'[q], active'[q], rotations)
    <3>1. Ahead(task[q], active[q], rotations)
      BY DEF SignInv, Numbered
    <3>2. CASE q # p
      BY <1>2, <1>5, <3>1, <3>2 DEF Ahead, Replaces
    <3>3. CASE q = p
      BY <1>1, <1>2, <1>4, <1>5, <3>1, <3>3 DEF Ahead, Replaces
    <3> QED
      BY <3>2, <3>3
  <2>2. ASSUME NEW q \in Processes, NEW n \in Markers
        PROVE  /\ active'[q][n].rotation \in 0 .. rotations
               /\ signatures[q][n] # NoSignature =>
                    signatures[q][n].current.value.rotation \in 0 .. active'[q][n].rotation
    <3>1. /\ active[q][n].rotation \in 0 .. rotations
          /\ signatures[q][n] # NoSignature =>
               signatures[q][n].current.value.rotation \in 0 .. active[q][n].rotation
      BY DEF SignInv, Numbered
    <3>2. CASE q = p /\ n = m
      BY <1>2, <1>6, <3>1, <3>2 DEF Replaces
    <3>3. CASE ~(q = p /\ n = m)
      BY <1>2, <3>1, <3>3 DEF Replaces
    <3> QED
      BY <3>2, <3>3
  <2> QED
    BY <1>1, <1>6, <2>1, <2>2 DEF Numbered
<1>10. SignedIsActive'
  <2>1. ASSUME NEW q \in Processes, NEW n \in Markers, signatures[q][n] # NoSignature
        PROVE  OfActive(q, n)' \/ Unfinished(q, n)'
    <3>1. OfActive(q, n) \/ Unfinished(q, n)
      BY <2>1 DEF SignInv, SignedIsActive
    <3>2. CASE q = p /\ n = m
      <4>1. signatures[p][m].current.value.rotation \in 0 .. active[p][m].rotation
        BY <2>1, <3>2 DEF SignInv, Numbered
      <4>2. Unfinished(p, m)'
        BY <1>1, <1>2, <1>4, <1>5, <1>6, <4>1 DEF Unfinished, Replaces
      <4> QED
        BY <3>2, <4>2
    <3>3. CASE ~(q = p /\ n = m)
      <4>1. active'[q][n] = active[q][n]
        BY <1>2, <3>3 DEF Replaces
      <4>2. task[q].changed \subseteq task'[q].changed
        BY <1>1, <1>5
      <4> QED
        BY <1>1, <3>1, <4>1, <4>2 DEF OfActive, Unfinished
    <3> QED
      BY <3>2, <3>3
  <2>2. IsTable(signatures)' /\ IsTable(active)'
    BY <1>1, <1>2 DEF Replaces, SignInv, SignedIsActive, IsTable
  <2> QED
    BY <1>1, <2>1, <2>2 DEF SignedIsActive
<1> QED
  BY <1>7, <1>8, <1>9, <1>10 DEF SignInv

\* A marker is signed with the key its process holds, and is then not torn.
LEMMA SigningKeeps ==
  ASSUME SignInv, NEW p \in Processes, NEW m \in Markers,
         task[p].key # NoKey, Sign(p, m), task[p].changed \subseteq {m},
         NEW u, TaskTyped(u), Ahead(u, active[p], rotations),
         task' = [task EXCEPT ![p] = u], torn' = [torn EXCEPT ![p] = @ \ {m}],
         u.key \in {NoKey, task[p].key}, u.written => u.fresh # NoKey,
         UNCHANGED <<keyFiles, generated, rotations, active>>
  PROVE  SignInv'
<1> DEFINE new == [current |-> Signature(task[p].key, active[p][m], signatures[p][m].current),
                   prev |-> signatures[p][m].current]
<1>1. Replaces(signatures', signatures, p, m, new)
  <2>1. signatures' = [signatures EXCEPT ![p] = [signatures[p] EXCEPT ![m] = new]]
    BY DEF Sign
  <2>2. IsTable(signatures)
    BY DEF SignInv, SignedIsActive
  <2> HIDE DEF new
  <2> QED
    BY <2>1, <2>2, ReplacedIn
<1>2. /\ new.current = Signature(new.current.key, active[p][m], new.prev)
      /\ new.current.key = task[p].key /\ new.current.value = active[p][m]
  BY DEF Signature
<1>3. /\ task' = [q \in Processes |-> task'[q]] /\ task'[p] = u
      /\ \A q \in Processes : q # p => task'[q] = task[q]
      /\ torn' = [q \in Processes |-> torn'[q]] /\ torn'[p] = torn[p] \ {m}
      /\ \A q \in Processes : q # p => torn'[q] = torn[q]
  BY DEF SignInv, KeysTyped
<1>4. KeysTyped'
  BY <1>3 DEF SignInv, KeysTyped, TaskTyped, KeysKnown
<1>5. keyFiles.public # NoKey /\ task[p].key \in 1 .. generated
  BY DEF SignInv, PublicIsWritten, KeysTyped, TaskTyped, KeysKnown
<1> HIDE DEF new
<1>6. PublicIsWritten'
  BY <1>1, <1>2, <1>3, <1>5 DEF SignInv, PublicIsWritten, Replaces
<1>7. Numbered'
  <2>1. \A q \in Processes : Ahead(task'[q], active[q], rotations)
    BY <1>3 DEF SignInv, Numbered
  <2>2. ASSUME NEW q \in Processes, NEW n \in Markers, signatures'[q][n] # NoSignature
        PROVE  signatures'[q][n].current.value.rotation \in 0 .. active[q][n].rotation
    <3>1. CASE q = p /\ n = m
      <4>1. active[p][m].rotation \in 0 .. rotations /\ rotations \in Nat
        BY DEF SignInv, Numbered
      <4> QED
        BY <1>1, <1>2, <3>1, <4>1 DEF Replaces
    <3>2. CASE ~(q = p /\ n = m)
      BY <1>1, <2>2, <3>2 DEF Replaces, SignInv, Numbered
    <3> QED
      BY <3>1, <3>2
  <2> QED
    BY <2>1, <2>2 DEF SignInv, Numbered
<1>8. SignedIsActive'
  <2>1. ASSUME NEW q \in Processes, NEW n \in Markers, signatures'[q][n] # NoSignature
        PROVE  OfActive(q, n)' \/ Unfinished(q, n)'
    <3>1. CASE q = p /\ n = m
      BY <1>1, <1>2, <3>1 DEF Replaces, OfActive
    <3>2. CASE ~(q = p /\ n = m)
      <4>1. signatures'[q][n] = signatures[q][n]
        BY <1>1, <3>2 DEF Replaces
      <4>2. OfActive(q, n) \/ Unfinished(q, n)
        BY <2>1, <4>1 DEF SignInv, SignedIsActive
      <4>3. n \in task[q].changed \cup torn[q] => n \in task'[q].changed \cup torn'[q]
        BY <1>3, <3>2
      <4> QED
        BY <4>1, <4>2, <4>3 DEF OfActive, Unfinished
    <3> QED
      BY <3>1, <3>2
  <2>2. IsTable(signatures)' /\ IsTable(active)'
    BY <1>1 DEF Replaces, SignInv, SignedIsActive, IsTable
  <2> QED
    BY <2>1, <2>2 DEF SignedIsActive
<1> QED
  BY <1>4, <1>6, <1>7, <1>8 DEF SignInv

\* What an operation makes of its own record.
LEMMA StartsTyped ==
  ASSUME NEW op, op \in {"idle", "rotate", "sign", "verify"}, NEW ms, NEW n
  PROVE  /\ TaskTyped(Operation(op, ms, n))
         /\ Operation(op, ms, n).key = NoKey /\ ~Operation(op, ms, n).written
         /\ Operation(op, ms, n).op = op /\ Operation(op, ms, n).todo = ms
         /\ Operation(op, ms, n).changed = {} /\ Operation(op, ms, n).rotation = n
BY DEF Operation, TaskTyped, KeysKnown

\* An operation that rotates nothing is ahead of everything.
LEMMA IdleIsAhead ==
  ASSUME NEW u, u.op # "rotate", u.rotation = 0, NEW last \in Nat, NEW values
  PROVE  Ahead(u, values, last)
BY DEF Ahead

LEMMA DoneTyped ==
  ASSUME SignInv, NEW p \in Processes, NEW m, Done(p, m),
         task[p].op = "rotate" => m \in task[p].changed,
         task[p].op \in {"rotate", "sign"}
  PROVE  \E u : /\ TaskTyped(u) /\ task' = [task EXCEPT ![p] = u]
                /\ Ahead(u, active[p], rotations)
                /\ u.key \in {NoKey, task[p].key} /\ (u.written => u.fresh # NoKey)
<1> DEFINE left == task[p].todo \ {m}
           u == IF left = {} THEN Idle
                ELSE IF task[p].op = "rotate"
                  THEN Operation("rotate", left, task[p].rotation)
                  ELSE [task[p] EXCEPT !.todo = left]
<1>1. /\ TaskTyped(task[p]) /\ (task[p].written => task[p].fresh # NoKey)
      /\ Ahead(task[p], active[p], rotations) /\ rotations \in Nat
  BY DEF SignInv, KeysTyped, PublicIsWritten, Numbered
<1>2. /\ TaskTyped(u) /\ u.key \in {NoKey, task[p].key} /\ (u.written => u.fresh # NoKey)
      /\ Ahead(u, active[p], rotations)
  <2>1. CASE left = {}
    <3>1. u = Operation("idle", {}, 0)
      BY <2>1 DEF Idle
    <3> HIDE DEF u
    <3>2. TaskTyped(u) /\ u.key = NoKey /\ ~u.written /\ u.op = "idle" /\ u.rotation = 0
      BY <3>1, StartsTyped
    <3> QED
      BY <1>1, <3>2, IdleIsAhead
  <2>2. CASE left # {} /\ task[p].op = "rotate"
    <3>1. u = Operation("rotate", left, task[p].rotation)
      BY <2>2
    <3>2. \A n \in left : n \in task[p].todo \ task[p].changed
      BY <1>1, <2>2 DEF TaskTyped
    <3> HIDE DEF u, left
    <3>3. /\ TaskTyped(u) /\ u.key = NoKey /\ ~u.written /\ u.todo = left
          /\ u.changed = {} /\ u.rotation = task[p].rotation
      BY <3>1, StartsTyped
    <3>4. Ahead(u, active[p], rotations)
      BY <1>1, <2>2, <3>2, <3>3 DEF Ahead
    <3> QED
      BY <3>3, <3>4
  <2>3. CASE left # {} /\ task[p].op # "rotate"
    <3>1. u = [task[p] EXCEPT !.todo = left]
      BY <2>3
    <3> HIDE DEF u
    <3>2. TaskTyped(u) /\ u.key = task[p].key /\ u.written = task[p].written
          /\ u.fresh = task[p].fresh /\ u.op = task[p].op /\ u.rotation = task[p].rotation
      BY <3>1, <1>1 DEF TaskTyped
    <3>3. Ahead(u, active[p], rotations)
      BY <1>1, <2>3, <3>2 DEF Ahead
    <3> QED
      BY <1>1, <3>2, <3>3
  <2> QED
    BY <2>1, <2>2, <2>3
<1>3. task' = [task EXCEPT ![p] = u]
  BY DEF Done
<1> HIDE DEF u
<1> QED
  BY <1>2, <1>3

LEMMA StartingKeeps ==
  ASSUME SignInv, NEW p \in Processes,
         \/ \E ms : StartRotation(p, ms)
         \/ \E op \in {"sign", "verify"} : StartSigning(p, op)
  PROVE  SignInv'
<1>0. /\ rotations \in Nat /\ torn = [q \in Processes |-> torn[q]] /\ TaskTyped(task[p])
      /\ \A m \in Markers : active[p][m].rotation \in 0 .. rotations
  BY DEF SignInv, Numbered, KeysTyped
<1>1. CASE \E ms : StartRotation(p, ms)
  <2> PICK ms : StartRotation(p, ms)
    BY <1>1
  <2> DEFINE u == Operation("rotate", ms, rotations + 1)
  <2>1. /\ TaskTyped(u) /\ u.key = NoKey /\ ~u.written /\ u.rotation = rotations + 1
    BY StartsTyped
  <2>2. /\ task' = [task EXCEPT ![p] = u] /\ task[p].op = "idle"
        /\ rotations' = rotations + 1
        /\ UNCHANGED <<keyFiles, generated, active, signatures, torn>>
    BY DEF StartRotation, Runtime
  <2> HIDE DEF u
  <2>3. Ahead(u, active[p], rotations')
    BY <1>0, <2>1, <2>2 DEF Ahead
  <2>4. task[p].changed = {}
    BY <1>0, <2>2 DEF TaskTyped
  <2>5. Starts(p, u)
    BY <1>0, <2>1, <2>2, <2>3, <2>4 DEF Starts
  <2> QED
    BY <2>5, TaskKeeps
<1>2. CASE \E op \in {"sign", "verify"} : StartSigning(p, op)
  <2> PICK op \in {"sign", "verify"} : StartSigning(p, op)
    BY <1>2
  <2> DEFINE u == Operation(op, IF op = "sign" THEN Markers ELSE {}, 0)
  <2>1. TaskTyped(u) /\ u.key = NoKey /\ ~u.written /\ u.rotation = 0 /\ u.op # "rotate"
    BY StartsTyped
  <2>2. /\ task' = [task EXCEPT ![p] = u] /\ task[p].op = "idle"
        /\ UNCHANGED <<keyFiles, generated, rotations, active, signatures, torn>>
    BY DEF StartSigning, Runtime
  <2> HIDE DEF u
  <2>3. Ahead(u, active[p], rotations')
    BY <1>0, <2>1, <2>2, IdleIsAhead
  <2>4. task[p].changed = {}
    BY <1>0, <2>2 DEF TaskTyped
  <2>5. Starts(p, u)
    BY <1>0, <2>1, <2>2, <2>3, <2>4 DEF Starts
  <2> QED
    BY <2>5, TaskKeeps
<1> QED
  BY <1>1, <1>2

\* A key or a file is new; the operations, values and signatures stay.
LEMMA FilesKeep ==
  ASSUME SignInv, KeysTyped', PublicIsWritten', NEW p \in Processes, NEW u,
         task' = [task EXCEPT ![p] = u],
         u.op = task[p].op, u.todo = task[p].todo, u.changed = task[p].changed,
         u.rotation = task[p].rotation,
         UNCHANGED <<rotations, active, signatures, torn>>
  PROVE  SignInv'
<1>1. \A q \in Processes : /\ task'[q].op = task[q].op /\ task'[q].todo = task[q].todo
                          /\ task'[q].changed = task[q].changed
                          /\ task'[q].rotation = task[q].rotation
  BY DEF SignInv, KeysTyped
<1>2. Numbered'
  <2>1. \A q \in Processes : Ahead(task'[q], active[q], rotations)
    BY <1>1 DEF SignInv, Numbered, Ahead
  <2> QED
    BY <2>1 DEF SignInv, Numbered
<1>3. SignedIsActive'
  BY <1>1 DEF SignInv, SignedIsActive, IsTable, OfActive, Unfinished
<1> QED
  BY <1>2, <1>3 DEF SignInv

\* The key files: read, or a new key and one file after the other.
LEMMA KeyStepsKeep ==
  ASSUME SignInv, NEW p \in Processes,
         ReadKeys(p) \/ GenerateKeys(p) \/ WritePrivate(p) \/ WritePublic(p)
  PROVE  SignInv'
<1> USE KeyAssumption
<1>1. /\ TaskTyped(task[p]) /\ (task[p].written => task[p].fresh # NoKey)
      /\ generated \in Nat /\ KeysTyped
      /\ KeysKnown \subseteq {NoKey} \cup 1 .. (generated + 1)
  BY DEF SignInv, KeysTyped, PublicIsWritten, KeysKnown
<1>2. CASE ReadKeys(p)
  <2> DEFINE u == [task[p] EXCEPT !.key = keyFiles.private]
  <2>1. /\ keyFiles.public # NoKey /\ task' = [task EXCEPT ![p] = u]
        /\ UNCHANGED <<keyFiles, generated, rotations, active, signatures, torn>>
    BY <1>2 DEF ReadKeys, KeysExist, Runtime
  <2>2. KeysTyped'
    BY <1>1, <1>2 DEF ReadKeys, Runtime, KeysTyped, TaskTyped, KeysKnown
  <2>3. PublicIsWritten'
    BY <1>1, <1>2, <2>1 DEF ReadKeys, Runtime, SignInv, KeysTyped, PublicIsWritten, TaskTyped
  <2>4. /\ u.op = task[p].op /\ u.todo = task[p].todo /\ u.changed = task[p].changed
        /\ u.rotation = task[p].rotation
    BY <1>1 DEF TaskTyped
  <2> HIDE DEF u
  <2> QED
    BY <2>1, <2>2, <2>3, <2>4, FilesKeep
<1>3. CASE GenerateKeys(p)
  <2> PICK u : u = [task[p] EXCEPT !.fresh = generated + 1]
    OBVIOUS
  <2>1. KeysTyped'
    <3>1. TaskTyped(u)'
      BY <1>1, <1>3 DEF GenerateKeys, KeysTyped, TaskTyped, KeysKnown
    <3>2. \A q \in Processes : TaskTyped(task[q])'
      BY <1>1, <1>3, <3>1 DEF GenerateKeys, KeysTyped, TaskTyped, KeysKnown
    <3> QED
      BY <1>1, <1>3, <3>2 DEF GenerateKeys, Runtime, KeysTyped, TaskTyped, KeysKnown
  <2>2. PublicIsWritten'
    BY <1>1, <1>3 DEF GenerateKeys, Runtime, SignInv, KeysTyped, PublicIsWritten, TaskTyped
  <2>3. /\ task' = [task EXCEPT ![p] = u]
        /\ UNCHANGED <<rotations, active, signatures, torn>>
    BY <1>3 DEF GenerateKeys, Runtime
  <2>4. /\ u.op = task[p].op /\ u.todo = task[p].todo /\ u.changed = task[p].changed
        /\ u.rotation = task[p].rotation
    BY <1>1 DEF TaskTyped
  <2> QED
    BY <2>1, <2>2, <2>3, <2>4, FilesKeep
<1>4. CASE WritePrivate(p)
  <2> PICK u : u = [task[p] EXCEPT !.written = TRUE]
    OBVIOUS
  <2>1. KeysTyped'
    <3>1. TaskTyped(u)'
      BY <1>1, <1>4 DEF WritePrivate, KeysTyped, TaskTyped, KeysKnown
    <3>2. \A q \in Processes : TaskTyped(task[q])'
      <4>1. \A q \in Processes : task'[q] = IF q = p THEN u ELSE task[q]
        BY <1>1, <1>4 DEF WritePrivate, KeysTyped
      <4>2. KeysKnown' = KeysKnown /\ \A q \in Processes : TaskTyped(task[q])
        BY <1>1, <1>4 DEF WritePrivate, KeysTyped, KeysKnown
      <4>3. ASSUME NEW q \in Processes, q # p PROVE TaskTyped(task[q])'
        BY <4>1, <4>2, <4>3 DEF TaskTyped
      <4>4. ASSUME NEW q \in Processes, q = p PROVE TaskTyped(task[q])'
        BY <3>1, <4>1, <4>4 DEF TaskTyped
      <4> QED
        BY <4>3, <4>4
    <3> QED
      BY <1>1, <1>4, <3>2 DEF WritePrivate, Runtime, KeysTyped, TaskTyped, KeysKnown
  <2>2. PublicIsWritten'
    BY <1>1, <1>4 DEF WritePrivate, Runtime, SignInv, KeysTyped, PublicIsWritten, TaskTyped
  <2>3. /\ task' = [task EXCEPT ![p] = u]
        /\ UNCHANGED <<rotations, active, signatures, torn>>
    BY <1>4 DEF WritePrivate, Runtime
  <2>4. /\ u.op = task[p].op /\ u.todo = task[p].todo /\ u.changed = task[p].changed
        /\ u.rotation = task[p].rotation
    BY <1>1 DEF TaskTyped
  <2> QED
    BY <2>1, <2>2, <2>3, <2>4, FilesKeep
<1>5. CASE WritePublic(p)
  <2> PICK u : u = [task[p] EXCEPT !.key = task[p].fresh]
    OBVIOUS
  <2>1. KeysTyped'
    <3>1. TaskTyped(u)'
      BY <1>1, <1>5 DEF WritePublic, KeysTyped, TaskTyped, KeysKnown
    <3>2. \A q \in Processes : TaskTyped(task[q])'
      BY <1>1, <1>5, <3>1 DEF WritePublic, KeysTyped, TaskTyped, KeysKnown
    <3> QED
      BY <1>1, <1>5, <3>2 DEF WritePublic, Runtime, KeysTyped, TaskTyped, KeysKnown
  <2>2. PublicIsWritten'
    BY <1>1, <1>5 DEF WritePublic, Runtime, SignInv, KeysTyped, PublicIsWritten, TaskTyped
  <2>3. /\ task' = [task EXCEPT ![p] = u]
        /\ UNCHANGED <<rotations, active, signatures, torn>>
    BY <1>5 DEF WritePublic, Runtime
  <2>4. /\ u.op = task[p].op /\ u.todo = task[p].todo /\ u.changed = task[p].changed
        /\ u.rotation = task[p].rotation
    BY <1>1 DEF TaskTyped
  <2> QED
    BY <2>1, <2>2, <2>3, <2>4, FilesKeep
<1> QED
  BY <1>2, <1>3, <1>4, <1>5

LEMMA MarkerStepsKeep ==
  ASSUME SignInv, NEW p \in Processes, NEW m \in Markers, SignOne(p, m)
  PROVE  SignInv'
<1>1. /\ Done(p, m) /\ task[p].op \in {"rotate", "sign"} /\ task[p].key # NoKey
      /\ Sign(p, m) /\ torn' = [torn EXCEPT ![p] = @ \ {m}]
      /\ UNCHANGED <<keyFiles, generated, rotations, active>>
      /\ (task[p].op = "rotate" => m \in task[p].changed)
  BY DEF SignOne, Done
<1>2. PICK u : /\ TaskTyped(u) /\ task' = [task EXCEPT ![p] = u]
               /\ Ahead(u, active[p], rotations)
               /\ u.key \in {NoKey, task[p].key} /\ (u.written => u.fresh # NoKey)
  BY <1>1, DoneTyped
<1>3. task[p].changed \subseteq {m}
  <2>1. TaskTyped(task[p])
    BY DEF SignInv, KeysTyped
  <2> QED
    BY <1>1, <2>1 DEF TaskTyped
<1> QED
  BY <1>1, <1>2, <1>3, SigningKeeps

\* An operation ends without a signature: a verification, or one that throws.
LEMMA EndingKeeps ==
  ASSUME SignInv, NEW p \in Processes, EndVerification(p) \/ Fails(p)
  PROVE  SignInv'
<1>1. /\ TaskTyped(Idle) /\ Idle.key = NoKey /\ ~Idle.written
      /\ Idle.op # "rotate" /\ Idle.rotation = 0
  BY StartsTyped DEF Idle
<1>2. /\ rotations \in Nat /\ torn = [q \in Processes |-> torn[q]] /\ TaskTyped(task[p])
  BY DEF SignInv, Numbered, KeysTyped
<1>3. Ahead(Idle, active[p], rotations)
  BY <1>1, <1>2, IdleIsAhead
<1>4. CASE EndVerification(p)
  <2>1. task[p].changed = {} /\ task' = [task EXCEPT ![p] = Idle]
        /\ UNCHANGED <<keyFiles, generated, rotations, active, signatures, torn>>
    BY <1>2, <1>4 DEF EndVerification, Runtime, TaskTyped
  <2>2. Starts(p, Idle)
    BY <1>1, <1>2, <1>3, <2>1 DEF Starts
  <2> QED
    BY <2>2, TaskKeeps
<1>5. CASE Fails(p)
  <2>1. task' = [task EXCEPT ![p] = Idle] /\ torn' = [torn EXCEPT ![p] = @ \cup task[p].changed]
        /\ UNCHANGED <<keyFiles, generated, rotations, active, signatures>>
    BY <1>5 DEF Fails
  <2>2. /\ torn' = [q \in Processes |-> torn'[q]]
        /\ torn'[p] = torn[p] \cup task[p].changed
        /\ \A q \in Processes : q # p => torn'[q] = torn[q]
    BY <1>2, <2>1
  <2>3. Starts(p, Idle)
    BY <1>1, <1>2, <1>3, <2>1, <2>2 DEF Starts
  <2> QED
    BY <2>3, TaskKeeps
<1> QED
  BY <1>4, <1>5

LEMMA RestartKeeps ==
  ASSUME SignInv, NEW p \in Processes, Restart(p)
  PROVE  SignInv'
<1>1. /\ TaskTyped(Idle) /\ Idle.key = NoKey /\ ~Idle.written
      /\ Idle.op # "rotate" /\ Idle.rotation = 0
  BY StartsTyped DEF Idle
<1>2. UNCHANGED <<keyFiles, generated, rotations>>
  BY DEF Restart
<1>3. /\ task' = [q \in Processes |-> task'[q]] /\ torn' = [q \in Processes |-> torn'[q]]
      /\ \A q \in Processes : task'[q] = IF q = p THEN Idle ELSE task[q]
      /\ \A q \in Processes : q # p => torn'[q] = torn[q]
  BY DEF Restart, SignInv, KeysTyped
<1>4. \A q \in Processes, m \in Markers :
        \/ q = p /\ signatures'[q][m] = NoSignature /\ active'[q][m] = Value(m, 0)
        \/ q # p /\ signatures'[q][m] = signatures[q][m] /\ active'[q][m] = active[q][m]
  BY DEF Restart, SignInv, SignedIsActive, IsTable
<1>5. IsTable(signatures)' /\ IsTable(active)'
  BY DEF Restart, SignInv, SignedIsActive, IsTable
<1>6. KeysTyped'
  BY <1>1, <1>2, <1>3 DEF SignInv, KeysTyped, TaskTyped, KeysKnown
<1>7. PublicIsWritten'
  BY <1>1, <1>2, <1>3, <1>4 DEF SignInv, PublicIsWritten
<1>8. Numbered'
  <2>1. rotations \in Nat
    BY DEF SignInv, Numbered
  <2>2. ASSUME NEW q \in Processes PROVE Ahead(task'[q], active'[q], rotations)
    <3>1. CASE q = p
      BY <1>1, <1>3, <2>1, <3>1, IdleIsAhead
    <3>2. CASE q # p
      BY <1>3, <1>4, <3>2 DEF SignInv, Numbered, Ahead
    <3> QED
      BY <3>1, <3>2
  <2>3. ASSUME NEW q \in Processes, NEW m \in Markers
        PROVE  /\ active'[q][m].rotation \in 0 .. rotations
               /\ signatures'[q][m] # NoSignature =>
                    signatures'[q][m].current.value.rotation \in 0 .. active'[q][m].rotation
    <3>1. CASE q = p
      <4>1. active'[q][m] = Value(m, 0) /\ signatures'[q][m] = NoSignature
        BY <1>4, <3>1
      <4>2. Value(m, 0).rotation = 0
        BY DEF Value
      <4> QED
        BY <2>1, <4>1, <4>2
    <3>2. CASE q # p
      BY <1>4, <3>2 DEF SignInv, Numbered
    <3> QED
      BY <3>1, <3>2
  <2> QED
    BY <1>2, <2>1, <2>2, <2>3 DEF Numbered
<1>9. SignedIsActive'
  BY <1>3, <1>4, <1>5 DEF SignInv, SignedIsActive, OfActive, Unfinished
<1> QED
  BY <1>6, <1>7, <1>8, <1>9 DEF SignInv

LEMMA SignStep == SignInv /\ (CanaryNext \/ UNCHANGED canaryVars) => SignInv'
<1> SUFFICES ASSUME SignInv, CanaryNext \/ UNCHANGED canaryVars PROVE SignInv'
  OBVIOUS
<1>1. CASE UNCHANGED <<keyFiles, generated, rotations, active, signatures, task, torn>>
  <2>1. KeysTyped'
    BY <1>1 DEF SignInv, KeysTyped, TaskTyped, KeysKnown
  <2>2. PublicIsWritten' /\ SignedIsActive' /\ Numbered'
    BY <1>1 DEF SignInv, PublicIsWritten, SignedIsActive, IsTable, OfActive, Unfinished,
                Numbered, Ahead
  <2> QED
    BY <2>1, <2>2 DEF SignInv
<1>2. CASE UNCHANGED canaryVars
  BY <1>1, <1>2 DEF canaryVars
<1>3. ASSUME NEW route, NEW v, Text(route, v) PROVE SignInv'
  BY <1>1, <1>3 DEF Text, Runtime
<1>4. ASSUME NEW p \in Processes, NEW m \in Markers, ChangeValue(p, m) PROVE SignInv'
  BY <1>4, ChangingKeeps
<1>5. ASSUME NEW p \in Processes, NEW m \in Markers, SignOne(p, m) PROVE SignInv'
  BY <1>5, MarkerStepsKeep
<1>6. ASSUME NEW p \in Processes, NEW ms, StartRotation(p, ms) PROVE SignInv'
  BY <1>6, StartingKeeps
<1>7. ASSUME NEW p \in Processes, NEW op \in {"sign", "verify"}, StartSigning(p, op)
      PROVE  SignInv'
  BY <1>7, StartingKeeps
<1>8. ASSUME NEW p \in Processes,
             ReadKeys(p) \/ GenerateKeys(p) \/ WritePrivate(p) \/ WritePublic(p)
      PROVE  SignInv'
  BY <1>8, KeyStepsKeep
<1>9. ASSUME NEW p \in Processes, Fails(p) \/ EndVerification(p) \/ Restart(p) PROVE SignInv'
  BY <1>9, EndingKeeps, RestartKeeps
<1> QED
  BY <1>2, <1>3, <1>4, <1>5, <1>6, <1>7, <1>8, <1>9 DEF CanaryNext

LEMMA SignInvHolds == Spec => []SignInv
BY FollowsParts, SignStart, SignStep, PTL DEF Spec

\* For every number of processes and markers, wherever a rotation or a signing
\* throws: a signature on record verifies, unless its marker has a later value
\* that is not signed yet or was left unsigned by the failure, or two keys were
\* generated and it was made with the one that is not in the public file
\* (canaries/src/manager.ts, shared/src/canary-sign.ts).
THEOREM SignaturesHoldAlways == Spec => []SignaturesHold
BY SignInvSuffices, SignInvHolds, PTL

-----------------------------------------------------------------------------
(* The detection rules.                                                    *)

Aggregating == {rule \in Enabled : rule.aggregation # Undefined}

\* The events a group of a rule should have been given.
Given(rule, key) == {e \in arrived : Selects(rule, e.ctx) /\ GroupKey(rule, e.ctx) = key}

EventsTyped ==
  /\ ticks \in Nat /\ evaluations \in Nat
  /\ \A e \in arrived : e.nth \in Nat /\ e.nth < evaluations /\ e.timestamp \in Int

\* A group holds the events it was given but for those before the window at its
\* last clean-up, which was at the time of one of them.
GroupsAreKept ==
  \A rule \in Aggregating :
    /\ \A e \in arrived : Selects(rule, e.ctx) => GroupKey(rule, e.ctx) \in DOMAIN groups
    /\ \A key \in DOMAIN groups : key[1] = rule.id =>
         /\ groups[key] = [events |-> groups[key].events, lastCleanup |-> groups[key].lastCleanup]
         /\ groups[key].events \subseteq Given(rule, key)
         /\ \A e \in Given(rule, key) \ groups[key].events :
              e.timestamp < groups[key].lastCleanup - rule.window
         /\ \E e \in Given(rule, key) : e.timestamp = groups[key].lastCleanup

DetectionInv == EventsTyped /\ GroupsAreKept /\ InOrderIsExact

LEMMA RuleOfKey ==
  ASSUME NEW r1 \in Aggregating, NEW r2 \in Aggregating, NEW ctx1, NEW ctx2,
         GroupKey(r1, ctx1) = GroupKey(r2, ctx2)
  PROVE  r1 = r2
BY DetectionAssumption DEF Aggregating, Enabled, GroupKey

LEMMA KeyIsOfRule ==
  ASSUME NEW rule, NEW ctx
  PROVE  GroupKey(rule, ctx)[1] = rule.id
BY DEF GroupKey

\* What one evaluation does, its time being now.
EvaluatesAt(ctx, now) ==
  /\ evaluations' = evaluations + 1
  /\ arrived' = arrived \cup {Event(ctx, now)}
  /\ DOMAIN groups' = DOMAIN groups \cup {GroupKey(rule, ctx) : rule \in Aggregated(ctx)}
  /\ \A rule \in Aggregated(ctx) : groups'[GroupKey(rule, ctx)] = WithEvent(rule, ctx, now)
  /\ \A key \in DOMAIN groups :
       (\A rule \in Aggregated(ctx) : key # GroupKey(rule, ctx)) => groups'[key] = groups[key]
  /\ lastHits' = {Hit(rule, ctx, now) : rule \in {r \in Enabled : Fires(r, ctx, now)}}
  /\ inOrder' = {rule \in Aggregated(ctx) :
       \A e \in Given(rule, GroupKey(rule, ctx)) : e.timestamp <= now}
  /\ UNCHANGED ticks

LEMMA EvaluationIs ==
  ASSUME NEW ctx \in Contexts, NEW stamp \in Stamps \cup {Undefined}, EventsTyped,
         Evaluate(ctx, stamp)
  PROVE  \E now \in Int : EvaluatesAt(ctx, now)
<1> DEFINE now == IF stamp = Undefined THEN ticks ELSE stamp
           touched == Aggregated(ctx)
           after == [key \in DOMAIN groups \cup {GroupKey(rule, ctx) : rule \in touched} |->
             IF \E rule \in touched : key = GroupKey(rule, ctx)
               THEN WithEvent(CHOOSE rule \in touched : key = GroupKey(rule, ctx), ctx, now)
               ELSE groups[key]]
<1>1. now \in Int
  BY DetectionAssumption DEF EventsTyped
<1>2. groups' = after
  BY DEF Evaluate
<1>3. ASSUME NEW rule \in touched
      PROVE  groups'[GroupKey(rule, ctx)] = WithEvent(rule, ctx, now)
  <2> DEFINE key == GroupKey(rule, ctx)
             chosen == CHOOSE r \in touched : key = GroupKey(r, ctx)
  <2>1. chosen \in touched /\ key = GroupKey(chosen, ctx)
    OBVIOUS
  <2>2. touched \subseteq Aggregating
    BY DEF Aggregated, Aggregating
  <2>3. chosen = rule
    <3> HIDE DEF chosen, touched
    <3> QED
      BY <2>1, <2>2, RuleOfKey
  <2>4. after[key] = WithEvent(chosen, ctx, now)
    <3> HIDE DEF now
    <3> QED
      OBVIOUS
  <2> HIDE DEF chosen, after, now, touched
  <2> QED
    BY <1>2, <2>3, <2>4
<1>4. DOMAIN groups' = DOMAIN groups \cup {GroupKey(rule, ctx) : rule \in Aggregated(ctx)}
  BY <1>2
<1>5. ASSUME NEW key \in DOMAIN groups, \A rule \in Aggregated(ctx) : key # GroupKey(rule, ctx)
      PROVE  groups'[key] = groups[key]
  BY <1>2, <1>5
<1>6. inOrder' = {rule \in Aggregated(ctx) :
        \A e \in Given(rule, GroupKey(rule, ctx)) : e.timestamp <= now}
  BY DEF Evaluate, Given
<1>7. /\ evaluations' = evaluations + 1 /\ arrived' = arrived \cup {Event(ctx, now)}
      /\ lastHits' = {Hit(rule, ctx, now) : rule \in {r \in Enabled : Fires(r, ctx, now)}}
      /\ UNCHANGED ticks
  BY DEF Evaluate
<1> HIDE DEF now
<1> QED
  BY <1>1, <1>3, <1>4, <1>5, <1>6, <1>7 DEF EvaluatesAt

\* A group that takes an event in keeps what the invariant asks of it.
LEMMA WithEventIs ==
  ASSUME EventsTyped, GroupsAreKept, NEW ctx, NEW now \in Int, NEW rule \in Aggregated(ctx)
  PROVE  LET key == GroupKey(rule, ctx)
             state == WithEvent(rule, ctx, now)
             all == Given(rule, key) \cup {Event(ctx, now)}
         IN  /\ state = [events |-> state.events, lastCleanup |-> state.lastCleanup]
             /\ state.events \subseteq all /\ Event(ctx, now) \in state.events
             /\ \A e \in all \ state.events : e.timestamp < state.lastCleanup - rule.window
             /\ \E e \in all : e.timestamp = state.lastCleanup
             /\ (\A e \in Given(rule, key) : e.timestamp <= now) =>
                  WindowEvents(rule, ctx, now) = NotBefore(all, now - rule.window)
<1> DEFINE key == GroupKey(rule, ctx)
           before == Group(key, now)
           clean == Cleaned(before, rule.window, now)
           state == WithEvent(rule, ctx, now)
           given == Given(rule, key)
           all == given \cup {Event(ctx, now)}
<1>1. /\ rule \in Aggregating /\ key[1] = rule.id /\ rule.window \in Nat
      /\ \A e \in given : e.timestamp \in Int
      /\ Event(ctx, now).timestamp = now
  BY KeyIsOfRule, DetectionAssumption
     DEF Aggregated, Aggregating, Enabled, Given, EventsTyped, Event
<1>2. /\ before = [events |-> before.events, lastCleanup |-> before.lastCleanup]
      /\ before.events \subseteq given
      /\ \A e \in given \ before.events : e.timestamp < before.lastCleanup - rule.window
      /\ before.lastCleanup \in Int
      /\ \/ before.lastCleanup = now /\ given = {}
         \/ \E e \in given : e.timestamp = before.lastCleanup
  <2>1. CASE key \in DOMAIN groups
    BY <1>1, <2>1 DEF Group, GroupsAreKept
  <2>2. CASE key \notin DOMAIN groups
    <3>1. given = {}
      BY <1>1, <2>2 DEF GroupsAreKept, Given
    <3> QED
      BY <2>2, <3>1 DEF Group, NewGroup
  <2> QED
    BY <2>1, <2>2
<1>3. /\ state.events = clean.events \cup {Event(ctx, now)}
      /\ state.lastCleanup = clean.lastCleanup
      /\ state = [events |-> state.events, lastCleanup |-> state.lastCleanup]
  <2>1. \/ clean = before
        \/ clean = [events |-> NotBefore(before.events, now - rule.window), lastCleanup |-> now]
    BY DEF Cleaned
  <2>2. clean = [events |-> clean.events, lastCleanup |-> clean.lastCleanup]
    <3> HIDE DEF clean, before
    <3> QED
      BY <1>2, <2>1
  <2>3. state = [clean EXCEPT !.events = @ \cup {Event(ctx, now)}]
    BY DEF WithEvent
  <2> HIDE DEF clean, state
  <2> QED
    BY <2>2, <2>3
<1>4. \/ clean.events = before.events /\ clean.lastCleanup = before.lastCleanup
      \/ /\ clean.events = NotBefore(before.events, now - rule.window) /\ clean.lastCleanup = now
         /\ before.lastCleanup <= now
  <2>1. 4 * (now - before.lastCleanup) > rule.window => before.lastCleanup <= now
    <3> HIDE DEF before
    <3> QED
      BY <1>1, <1>2
  <2> QED
    BY <2>1 DEF Cleaned
<1>5. WindowEvents(rule, ctx, now) = NotBefore(state.events, now - rule.window)
  BY DEF WindowEvents
<1> HIDE DEF key, before, clean, state, given, all
<1>6. state.events \subseteq all /\ Event(ctx, now) \in state.events
  BY <1>2, <1>3, <1>4 DEF all, NotBefore
<1>7. ASSUME NEW e \in all \ state.events
      PROVE  e.timestamp < state.lastCleanup - rule.window
  <2>1. e \in given \ clean.events /\ e.timestamp \in Int
    BY <1>1, <1>3, <1>7 DEF all
  <2>2. CASE e \notin before.events
    <3>1. e.timestamp < before.lastCleanup - rule.window
      BY <1>2, <2>1, <2>2
    <3>2. clean.lastCleanup \in Int /\ before.lastCleanup <= clean.lastCleanup
      BY <1>2, <1>4
    <3> QED
      BY <1>1, <1>2, <1>3, <2>1, <3>1, <3>2
  <2>3. CASE e \in before.events
    BY <1>1, <1>3, <1>4, <2>1, <2>3 DEF NotBefore
  <2> QED
    BY <2>2, <2>3
<1>8. \E e \in all : e.timestamp = state.lastCleanup
  BY <1>1, <1>2, <1>3, <1>4 DEF all
<1>9. ASSUME \A e \in given : e.timestamp <= now
      PROVE  WindowEvents(rule, ctx, now) = NotBefore(all, now - rule.window)
  <2>1. before.lastCleanup <= now
    BY <1>1, <1>2, <1>9
  <2>2. state.lastCleanup \in Int /\ state.lastCleanup <= now
    BY <1>2, <1>3, <1>4, <2>1
  <2>3. ASSUME NEW e \in all, e.timestamp >= now - rule.window PROVE e \in state.events
    <3>1. e.timestamp \in Int
      BY <1>1 DEF all
    <3> QED
      BY <1>1, <1>7, <2>2, <2>3, <3>1
  <2> QED
    BY <1>5, <1>6, <2>3 DEF NotBefore
<1> QED
  BY <1>3, <1>6, <1>7, <1>8, <1>9 DEF key, state, given, all

\* What a group was given, after an evaluation.
LEMMA GivenAfter ==
  ASSUME NEW ctx, NEW now, EvaluatesAt(ctx, now), NEW rule \in Aggregating, NEW key
  PROVE  /\ rule \in Aggregated(ctx) /\ key = GroupKey(rule, ctx) =>
              Given(rule, key)' = Given(rule, key) \cup {Event(ctx, now)}
         /\ ~(rule \in Aggregated(ctx) /\ key = GroupKey(rule, ctx)) =>
              Given(rule, key)' = Given(rule, key)
<1>1. arrived' = arrived \cup {Event(ctx, now)} /\ Event(ctx, now).ctx = ctx
  BY DEF EvaluatesAt, Event
<1>2. rule \in Aggregated(ctx) <=> Selects(rule, ctx)
  BY DEF Aggregating, Aggregated
<1> QED
  BY <1>1, <1>2 DEF Given

LEMMA EvaluationTyped ==
  ASSUME EventsTyped, NEW ctx, NEW now \in Int, EvaluatesAt(ctx, now)
  PROVE  EventsTyped'
BY DEF EventsTyped, EvaluatesAt, Event

LEMMA EvaluationKeepsGroups ==
  ASSUME EventsTyped, GroupsAreKept, NEW ctx, NEW now \in Int, EvaluatesAt(ctx, now)
  PROVE  GroupsAreKept'
<1> SUFFICES ASSUME NEW rule \in Aggregating
             PROVE  /\ \A e \in arrived' : Selects(rule, e.ctx) => GroupKey(rule, e.ctx) \in DOMAIN groups'
                    /\ \A key \in DOMAIN groups' : key[1] = rule.id =>
                         /\ groups'[key] = [events |-> groups'[key].events,
                                            lastCleanup |-> groups'[key].lastCleanup]
                         /\ groups'[key].events \subseteq Given(rule, key)'
                         /\ \A e \in Given(rule, key)' \ groups'[key].events :
                              e.timestamp < groups'[key].lastCleanup - rule.window
                         /\ \E e \in Given(rule, key)' : e.timestamp = groups'[key].lastCleanup
  BY DEF GroupsAreKept, Aggregating, Enabled
<1>1. ASSUME NEW e \in arrived', Selects(rule, e.ctx)
      PROVE  GroupKey(rule, e.ctx) \in DOMAIN groups'
  <2>1. CASE e \in arrived
    BY <1>1, <2>1 DEF GroupsAreKept, EvaluatesAt
  <2>2. CASE e = Event(ctx, now)
    <3>1. e.ctx = ctx /\ rule \in Aggregated(ctx)
      BY <1>1, <2>2 DEF Event, Aggregating, Aggregated
    <3> QED
      BY <3>1 DEF EvaluatesAt
  <2> QED
    BY <2>1, <2>2 DEF EvaluatesAt
<1>2. ASSUME NEW key \in DOMAIN groups', key[1] = rule.id
      PROVE  /\ groups'[key] = [events |-> groups'[key].events,
                                lastCleanup |-> groups'[key].lastCleanup]
             /\ groups'[key].events \subseteq Given(rule, key)'
             /\ \A e \in Given(rule, key)' \ groups'[key].events :
                  e.timestamp < groups'[key].lastCleanup - rule.window
             /\ \E e \in Given(rule, key)' : e.timestamp = groups'[key].lastCleanup
  <2>1. CASE rule \in Aggregated(ctx) /\ key = GroupKey(rule, ctx)
    <3>1. groups'[key] = WithEvent(rule, ctx, now)
      BY <2>1 DEF EvaluatesAt
    <3>2. Given(rule, key)' = Given(rule, key) \cup {Event(ctx, now)}
      BY <2>1, GivenAfter
    <3> QED
      BY <2>1, <3>1, <3>2, WithEventIs
  <2>2. CASE ~(rule \in Aggregated(ctx) /\ key = GroupKey(rule, ctx))
    <3>1. \A r \in Aggregated(ctx) : key # GroupKey(r, ctx)
      <4> SUFFICES ASSUME NEW r \in Aggregated(ctx), key = GroupKey(r, ctx)
                   PROVE  FALSE
        OBVIOUS
      <4>1. r.id = rule.id /\ r \in Rules /\ rule \in Rules
        BY <1>2, KeyIsOfRule DEF Aggregated, Aggregating, Enabled
      <4> QED
        BY <2>2, <4>1, DetectionAssumption
    <3>2. key \in DOMAIN groups /\ groups'[key] = groups[key]
      BY <3>1 DEF EvaluatesAt
    <3>3. Given(rule, key)' = Given(rule, key)
      BY <2>2, GivenAfter
    <3> QED
      BY <1>2, <3>2, <3>3 DEF GroupsAreKept
  <2> QED
    BY <2>1, <2>2
<1> QED
  BY <1>1, <1>2

\* An evaluation in order counts the whole window and nothing else.
LEMMA EvaluationIsExact ==
  ASSUME EventsTyped, GroupsAreKept, NEW ctx, NEW now \in Int, EvaluatesAt(ctx, now)
  PROVE  InOrderIsExact'
<1> SUFFICES ASSUME NEW rule \in inOrder'
             PROVE  LET hits == {hit \in lastHits' : hit.rule = rule.id} IN
                    IF Compares(rule.aggregation, InWindow(rule)')
                      THEN \E hit \in hits : hit.window = InWindow(rule)'
                      ELSE hits = {}
  BY DEF InOrderIsExact
<1>1. /\ rule \in Aggregated(ctx) /\ rule \in Enabled /\ rule \in Rules /\ Selects(rule, ctx)
      /\ rule.aggregation # Undefined /\ rule \in Aggregating /\ rule.window \in Nat
      /\ \A e \in Given(rule, GroupKey(rule, ctx)) : e.timestamp <= now
  BY DetectionAssumption DEF EvaluatesAt, Aggregated, Aggregating, Enabled
<1> DEFINE new == Event(ctx, now)
           all == Given(rule, GroupKey(rule, ctx)) \cup {new}
           last == CHOOSE e \in arrived' : \A other \in arrived' : other.nth <= e.nth
<1>2. new.nth = evaluations /\ new.ctx = ctx /\ new.timestamp = now
  BY DEF Event
<1>3. last = new
  <2>1. arrived' = arrived \cup {new}
    BY DEF EvaluatesAt
  <2>2. new \in arrived' /\ \A other \in arrived' : other.nth <= new.nth
    BY <1>2, <2>1 DEF EventsTyped
  <2>3. last \in arrived' /\ \A other \in arrived' : other.nth <= last.nth
    BY <2>2
  <2>4. last \notin arrived
    BY <1>2, <2>2, <2>3 DEF EventsTyped
  <2> QED
    BY <2>1, <2>3, <2>4
<1>4. InWindow(rule)' = NotBefore(all, now - rule.window)
  <2>1. InWindow(rule)' = {e \in arrived' : /\ Selects(rule, e.ctx)
                                             /\ GroupKey(rule, e.ctx) = GroupKey(rule, last.ctx)
                                             /\ e.timestamp >= last.timestamp - rule.window}
    BY DEF InWindow
  <2>2. Given(rule, GroupKey(rule, ctx))' = all
    BY <1>1, GivenAfter
  <2> HIDE DEF last, all, new
  <2> QED
    BY <1>2, <1>3, <2>1, <2>2 DEF Given, NotBefore
<1>5. WindowEvents(rule, ctx, now) = InWindow(rule)'
  BY <1>1, <1>4, WithEventIs
<1> DEFINE hits == {hit \in lastHits' : hit.rule = rule.id}
<1>6. lastHits' = {Hit(r, ctx, now) : r \in {s \in Enabled : Fires(s, ctx, now)}}
  BY DEF EvaluatesAt
<1>7. Fires(rule, ctx, now) <=> Compares(rule.aggregation, InWindow(rule)')
  BY <1>1, <1>5 DEF Fires
<1>8. Hit(rule, ctx, now).rule = rule.id /\ Hit(rule, ctx, now).window = InWindow(rule)'
  BY <1>1, <1>5 DEF Hit
<1>9. ASSUME NEW hit \in hits PROVE Fires(rule, ctx, now)
  <2>1. PICK r \in Enabled : Fires(r, ctx, now) /\ hit = Hit(r, ctx, now)
    BY <1>6
  <2>2. r.id = rule.id
    BY <2>1 DEF Hit
  <2>3. r = rule
    BY <1>1, <2>2, DetectionAssumption DEF Enabled
  <2> QED
    BY <2>1, <2>3
<1>10. CASE Compares(rule.aggregation, InWindow(rule)')
  <2>1. Hit(rule, ctx, now) \in hits
    BY <1>1, <1>6, <1>7, <1>8, <1>10
  <2> QED
    BY <1>8, <1>10, <2>1
<1>11. CASE ~Compares(rule.aggregation, InWindow(rule)')
  BY <1>7, <1>9, <1>11
<1> QED
  BY <1>10, <1>11

LEMMA DetectionInductive ==
  /\ DetectionInit => DetectionInv
  /\ DetectionInv /\ [DetectionNext]_detectionVars => DetectionInv'
<1>1. DetectionInit => DetectionInv
  BY DEF DetectionInit, DetectionInv, EventsTyped, GroupsAreKept, InOrderIsExact
<1>2. ASSUME DetectionInv, NEW ctx \in Contexts, NEW stamp \in Stamps \cup {Undefined},
             Evaluate(ctx, stamp)
      PROVE  DetectionInv'
  <2>1. PICK now \in Int : EvaluatesAt(ctx, now)
    BY <1>2, EvaluationIs DEF DetectionInv
  <2> QED
    BY <1>2, <2>1, EvaluationTyped, EvaluationKeepsGroups, EvaluationIsExact DEF DetectionInv
<1>3. ASSUME DetectionInv, Tick \/ UNCHANGED detectionVars
      PROVE  DetectionInv'
  <2>1. /\ UNCHANGED <<groups, arrived, lastHits, inOrder, evaluations>>
        /\ ticks' \in {ticks, ticks + 1}
    BY <1>3 DEF Tick, detectionVars
  <2>2. EventsTyped'
    BY <1>3, <2>1 DEF DetectionInv, EventsTyped
  <2>3. GroupsAreKept'
    BY <1>3, <2>1 DEF DetectionInv, GroupsAreKept, Given
  <2>4. InOrderIsExact'
    BY <1>3, <2>1 DEF DetectionInv, InOrderIsExact, InWindow
  <2> QED
    BY <2>2, <2>3, <2>4 DEF DetectionInv
<1>4. ASSUME DetectionInv, DetectionRestart
      PROVE  DetectionInv'
  BY <1>4 DEF DetectionRestart, DetectionInv, EventsTyped, GroupsAreKept, InOrderIsExact
<1>5. ASSUME DetectionInv, [DetectionNext]_detectionVars
      PROVE  DetectionInv'
  BY <1>2, <1>3, <1>4, <1>5 DEF DetectionNext
<1> QED
  BY <1>1, <1>5

\* For all rules of distinct ids, contexts and stamps: an event no older than those
\* of its group before makes a rule fire exactly if the events of its window since
\* the start compare to the threshold, and it reports just these, whatever was
\* cleaned up and whatever came late before (rules/src/engine.ts,
\* evaluateAggregation).
THEOREM DetectionIsExact == Spec => []InOrderIsExact
<1>1. DetectionInv => InOrderIsExact
  BY DEF DetectionInv
<1> QED
  BY <1>1, FollowsParts, DetectionInductive, PTL DEF Spec

-----------------------------------------------------------------------------
(* The audit: the log in memory is the newest entries of this process, in   *)
(* order and without a gap, as many as were made or as it holds.            *)

Newest(log, n, first) ==
  /\ n \in Nat /\ first \in Nat /\ first <= n
  /\ log \in Seq(Nat)
  /\ Len(log) = IF n - first < MaxMemory THEN n - first ELSE MaxMemory
  /\ \A i \in 1..Len(log) : log[i] = n - i + 1

OrgInv ==
  /\ Newest(memoryLog, audits, begun)
  /\ DOMAIN requests = Requesters
  /\ \A r \in Requesters : requests[r].next = "row" => requests[r].entry \in 1..audits
  /\ \A a \in answered : a.entry \in 1..audits /\ (a.up => a.entry \in auditRows)

LEMMA OrgStart == OrgInit => OrgInv
<1> SUFFICES ASSUME OrgInit PROVE OrgInv
  OBVIOUS
<1>1. memoryLog = <<>> /\ audits = 0 /\ begun = 0 /\ answered = {}
  BY DEF OrgInit
<1>2. DOMAIN requests = Requesters /\ \A r \in Requesters : requests[r].next = "rest"
  BY DEF OrgInit, Resting
<1> QED
  BY <1>1, <1>2, MaxMemoryAssumption DEF OrgInv, Newest

\* The newest entry comes first, and the oldest is the one that is cut off.
LEMMA NewestFirst ==
  ASSUME NEW log, NEW n, NEW first, Newest(log, n, first),
         NEW longer, longer = <<n + 1>> \o log,
         NEW new, new = IF Len(longer) > MaxMemory THEN SubSeq(longer, 1, MaxMemory) ELSE longer
  PROVE  Newest(new, n + 1, first)
<1>1. /\ n \in Nat /\ first \in Nat /\ first <= n /\ log \in Seq(Nat) /\ MaxMemory \in Nat
      /\ Len(log) = IF n - first < MaxMemory THEN n - first ELSE MaxMemory
      /\ \A i \in 1..Len(log) : log[i] = n - i + 1
  BY MaxMemoryAssumption DEF Newest
<1>2. longer \in Seq(Nat) /\ Len(longer) = Len(log) + 1
  BY <1>1
<1>3. ASSUME NEW i \in 1..Len(longer)
      PROVE  longer[i] = (n + 1) - i + 1
  <2>1. longer[i] = IF i <= 1 THEN <<n + 1>>[i] ELSE log[i - 1]
    BY <1>1, <1>2, <1>3
  <2>2. CASE i = 1
    BY <1>1, <2>1, <2>2
  <2>3. CASE i # 1
    <3>1. i - 1 \in 1..Len(log) /\ i \in Int
      BY <1>1, <1>2, <1>3, <2>3
    <3>2. log[i - 1] = n - (i - 1) + 1
      BY <1>1, <3>1
    <3> QED
      BY <1>1, <1>3, <2>1, <2>3, <3>1, <3>2
  <2> QED
    BY <2>2, <2>3
<1>4. n + 1 \in Nat /\ first <= n + 1 /\ first \in Nat
  BY <1>1
<1>5. CASE Len(longer) > MaxMemory
  <2>1. new = SubSeq(longer, 1, MaxMemory) /\ MaxMemory <= Len(longer)
    BY <1>1, <1>2, <1>5
  <2>2. new \in Seq(Nat) /\ Len(new) = MaxMemory
    <3>1. longer \in Seq(Nat) /\ MaxMemory \in Nat
      BY <1>1, <1>2
    <3>2. Len(new) = MaxMemory
      BY <2>1, <3>1
    <3>3. new \in Seq(Nat)
      BY <2>1, <3>1
    <3> QED
      BY <3>2, <3>3
  <2>3. \A i \in 1..MaxMemory : new[i] = (n + 1) - i + 1
    <3> SUFFICES ASSUME NEW i \in 1..MaxMemory
                 PROVE  new[i] = (n + 1) - i + 1
      OBVIOUS
    <3>1. i \in 1..Len(longer)
      BY <1>1, <1>2, <2>1
    <3>2. new[i] = longer[i]
      BY <1>1, <1>2, <2>1
    <3> QED
      BY <1>3, <3>1, <3>2
  <2>4. ~((n + 1) - first < MaxMemory)
    BY <1>1, <1>2, <1>5
  <2> QED
    <3>1. Len(new) = IF (n + 1) - first < MaxMemory THEN (n + 1) - first ELSE MaxMemory
      BY <2>2, <2>4
    <3>2. \A i \in 1..Len(new) : new[i] = (n + 1) - i + 1
      BY <2>2, <2>3, Zenon
    <3> QED
      BY <1>4, <2>2, <3>1, <3>2 DEF Newest
<1>6. CASE ~(Len(longer) > MaxMemory)
  <2>1. /\ new = longer
        /\ Len(longer) = IF (n + 1) - first < MaxMemory THEN (n + 1) - first ELSE MaxMemory
    BY <1>1, <1>2, <1>6
  <2> QED
    <3>1. \A i \in 1..Len(new) : new[i] = (n + 1) - i + 1
      BY <1>3, <2>1, Zenon
    <3>2. new \in Seq(Nat) /\ Len(new) = IF (n + 1) - first < MaxMemory THEN (n + 1) - first ELSE MaxMemory
      BY <1>2, <2>1, Zenon
    <3> QED
      BY <1>4, <3>1, <3>2 DEF Newest
<1> QED
  BY <1>5, <1>6

LEMMA OrgStep == OrgInv /\ (OrgNext \/ UNCHANGED orgVars) => OrgInv'
<1> SUFFICES ASSUME OrgInv, OrgNext \/ UNCHANGED orgVars PROVE OrgInv'
  OBVIOUS
<1>1. ASSUME NEW r \in Requesters, NEW l \in {"audit", "mint"}, NEW o, Goes(r, l, o),
             UNCHANGED auditLog
      PROVE  OrgInv'
  <2>1. DOMAIN requests' = Requesters /\ \A q \in Requesters \ {r} : requests'[q] = requests[q]
    BY <1>1 DEF Goes, OrgInv
  <2>2. requests'[r].next = l
    BY <1>1 DEF Goes, OrgInv, Resting
  <2> QED
    BY <1>1, <2>1, <2>2 DEF OrgInv, auditLog
<1>2. ASSUME NEW r \in Requesters, NEW email, NEW o \in Orgs,
             Create(r, email, o) \/ SoftDelete(r, email, o) \/ AskForKey(r, email, o)
      PROVE  OrgInv'
  BY <1>1, <1>2 DEF Create, SoftDelete, AskForKey
<1>3. ASSUME NEW r \in Requesters, Mint(r) PROVE OrgInv'
  BY <1>1, <1>3 DEF Mint
<1>4. ASSUME NEW r \in Requesters, Audit(r) PROVE OrgInv'
  <2>1. /\ audits' = audits + 1
        /\ UNCHANGED <<auditRows, begun, answered>>
        /\ memoryLog' = LET log == <<audits + 1>> \o memoryLog
                        IN IF Len(log) > MaxMemory THEN SubSeq(log, 1, MaxMemory) ELSE log
    BY <1>4 DEF Audit
  <2>2. Newest(memoryLog', audits', begun')
    <3>1. PICK longer : longer = <<audits + 1>> \o memoryLog
      OBVIOUS
    <3>2. PICK new : new = IF Len(longer) > MaxMemory THEN SubSeq(longer, 1, MaxMemory) ELSE longer
      OBVIOUS
    <3>3. Newest(new, audits + 1, begun)
      BY <3>1, <3>2, NewestFirst DEF OrgInv
    <3> QED
      BY <2>1, <3>1, <3>2, <3>3
  <2>3. DOMAIN requests' = Requesters /\ \A q \in Requesters \ {r} : requests'[q] = requests[q]
    BY <1>4 DEF Audit, OrgInv
  <2>4. requests'[r].next = "row" => requests'[r].entry = audits + 1
    BY <1>4 DEF Audit, OrgInv
  <2>5. \A q \in Requesters : requests'[q].next = "row" => requests'[q].entry \in 1..audits'
    BY <2>1, <2>3, <2>4 DEF OrgInv, Newest
  <2>6. \A a \in answered' : a.entry \in 1..audits' /\ (a.up => a.entry \in auditRows')
    BY <2>1 DEF OrgInv, Newest
  <2> QED
    BY <2>2, <2>3, <2>5, <2>6 DEF OrgInv
<1>5. ASSUME NEW r \in Requesters, AuditRow(r) PROVE OrgInv'
  <2>1. /\ requests[r].entry \in 1..audits
        /\ auditRows' = IF databaseUp THEN auditRows \cup {requests[r].entry} ELSE auditRows
        /\ answered' = answered \cup {[entry |-> requests[r].entry, up |-> databaseUp]}
        /\ UNCHANGED <<memoryLog, audits, begun>>
    BY <1>5 DEF AuditRow, OrgInv
  <2>2. \A a \in answered' : a.entry \in 1..audits /\ (a.up => a.entry \in auditRows')
    BY <2>1 DEF OrgInv
  <2>3. /\ DOMAIN requests' = Requesters /\ requests'[r].next = "rest"
        /\ \A q \in Requesters \ {r} : requests'[q] = requests[q]
    BY <1>5 DEF AuditRow, OrgInv, Resting
  <2> QED
    BY <2>1, <2>2, <2>3 DEF OrgInv
<1>6. CASE DatabaseFails \/ DatabaseReturns
  BY <1>6 DEF DatabaseFails, DatabaseReturns, auditLog, OrgInv
<1>7. CASE OrgRestart
  <2>1. /\ memoryLog' = <<>> /\ begun' = audits /\ UNCHANGED <<auditRows, audits, answered>>
        /\ DOMAIN requests' = Requesters /\ \A r \in Requesters : requests'[r].next = "rest"
    BY <1>7 DEF OrgRestart, Resting
  <2> QED
    BY <2>1, MaxMemoryAssumption DEF OrgInv, Newest
<1>8. CASE UNCHANGED orgVars
  BY <1>8 DEF orgVars, OrgInv
<1> QED
  BY <1>2, <1>3, <1>4, <1>5, <1>6, <1>7, <1>8 DEF OrgNext

\* For any number of overlapping requests, outages and restarts and any size of
\* the memory: a change a client was told of has its row if the database could
\* be reached, and its entry in memory until a restart or as many newer ones as
\* memory holds (shared/src/audit.ts, gateway/src/routes/orgs.ts).
THEOREM AnsweredChangesAreAuditedHolds == Spec => []AnsweredChangesAreAudited
<1>1. OrgInv => AnsweredChangesAreAudited
  <2> SUFFICES ASSUME OrgInv, NEW a \in answered
               PROVE  /\ a.up => a.entry \in auditRows
                      /\ a.entry > begun /\ a.entry + MaxMemory > audits
                           => a.entry \in ToSet(memoryLog)
    BY DEF AnsweredChangesAreAudited
  <2>1. a.entry \in 1..audits /\ (a.up => a.entry \in auditRows)
    BY DEF OrgInv
  <2>2. ASSUME a.entry > begun, a.entry + MaxMemory > audits
        PROVE  a.entry \in ToSet(memoryLog)
    <3>1. PICK e \in Nat : e = a.entry
      BY <2>1 DEF OrgInv, Newest
    <3>2. PICK i \in Int : i = audits - e + 1
      BY <3>1 DEF OrgInv, Newest
    <3>3. i \in 1..Len(memoryLog)
      BY <2>1, <2>2, <3>1, <3>2, MaxMemoryAssumption DEF OrgInv, Newest
    <3>4. memoryLog[i] = e
      <4>1. memoryLog[i] = audits - i + 1 /\ audits \in Nat
        BY <3>3 DEF OrgInv, Newest
      <4> QED
        BY <3>1, <3>2, <4>1
    <3>5. i \in DOMAIN memoryLog
      BY <3>3 DEF OrgInv, Newest
    <3> QED
      BY <3>1, <3>4, <3>5 DEF ToSet
  <2> QED
    BY <2>1, <2>2
<1> QED
  BY <1>1, FollowsParts, OrgStart, OrgStep, PTL DEF Spec
=============================================================================
