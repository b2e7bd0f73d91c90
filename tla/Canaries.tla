------------------------------- MODULE Canaries -------------------------------
(***************************************************************************)
(* Canary markers, their rotation and their signatures                     *)
(* (canaries/src/manager.ts, detector.ts, shared/src/canary-sign.ts, the   *)
(* canary routes of gateway/src/routes/phase4.ts).                         *)
(*                                                                         *)
(* Each process (the gateway, the onboarding script, the command line)     *)
(* has markers and signatures of its own, in memory; the two key files are *)
(* shared.  A process runs one of these operations at a time, and those of *)
(* different processes interleave where they read or write a key file.     *)
(* The id of a key is in a third file and only named in answers.           *)
(***************************************************************************)
EXTENDS Naturals, FiniteSets

CONSTANTS
  Gateway, Processes,   \* the gateway is one of the processes
  Markers,              \* `${canaryId}::${name}`
  CanaryOf,             \* [Markers -> canary ids]
  NoKey, Unsigned,
  MaxRotations, MaxSignings, MaxKeys   \* bounds

ASSUME GatewayAssumption == Gateway \in Processes
ASSUME KeyAssumption == NoKey \notin Nat

VARIABLES
  keyFiles,      \* the key in the private and in the public file, or NoKey
  generated,     \* keys generated so far: key k is the k-th
  rotations, signings,
  active,        \* per process: runtimeMarkers, the value of each marker
  signatures,    \* per process and marker: the current signature and the one before
  task,          \* per process: the operation under way
  torn,          \* (history) markers a failed rotation changed, not signed since
  triggered,     \* canary ids noted by the gateway
  slipped        \* (history) whether enforcement has let by a text with an active value

canaryVars == <<keyFiles, generated, rotations, signings, active, signatures, task,
                torn, triggered, slipped>>

\* A value is the marker it is of and the rotation it stems from, 0 for the
\* shipped one; rotated_at goes with it.
Value(m, n) == [marker |-> m, rotation |-> n]
Shipped == {Value(m, 0) : m \in Markers}

\* Ed25519 signs the same payload the same way: a signature is its key and
\* its payload, the value and the signature before.
Signature(key, value, prev) == [key |-> key, value |-> value, prev |-> prev]

NoSignature == [current |-> Unsigned, prev |-> Unsigned]

\* An operation as it begins: which it is, the markers it has to do, the one it
\* has given a new value and has to sign, the key it holds, the key it has
\* generated and whether the private file has that.
Operation(op, todo, rotation) ==
  [op |-> op, todo |-> todo, changed |-> {}, key |-> NoKey, fresh |-> NoKey,
   written |-> FALSE, rotation |-> rotation]
Idle == Operation("idle", {}, 0)

\* verifyCanarySignature against the public file.
Verifies(p, m) ==
  signatures[p][m].current =
    Signature(keyFiles.public, active[p][m], signatures[p][m].prev)

CanaryInit ==
  /\ keyFiles = [private |-> NoKey, public |-> NoKey]
  /\ generated = 0 /\ rotations = 0 /\ signings = 0
  /\ active = [p \in Processes |-> [m \in Markers |-> Value(m, 0)]]
  /\ signatures = [p \in Processes |-> [m \in Markers |-> NoSignature]]
  /\ task = [p \in Processes |-> Idle]
  /\ torn = [p \in Processes |-> {}]
  /\ triggered = {} /\ slipped = FALSE

Runtime == <<active, signatures, torn>>
Seen == <<triggered, slipped>>

\* rotateCanary: every marker of the canary, or the one named.
StartRotation(p, ms) ==
  /\ task[p].op = "idle" /\ rotations < MaxRotations
  /\ rotations' = rotations + 1
  /\ task' = [task EXCEPT ![p] = Operation("rotate", ms, rotations + 1)]
  /\ UNCHANGED <<keyFiles, generated, signings, Runtime, Seen>>

\* signAllCanaries, or verifyAllCanaries, which makes keys too if there are none.
StartSigning(p, op) ==
  /\ task[p].op = "idle" /\ signings < MaxSignings
  /\ signings' = signings + 1
  /\ task' = [task EXCEPT ![p] = 
             Operation(op, IF op = "sign" THEN Markers ELSE {}, 0)]
  /\ UNCHANGED <<keyFiles, generated, rotations, Runtime, Seen>>

\* rotateCanary gives a marker its new value first.
ChangeValue(p, m) ==
  /\ task[p].op = "rotate" /\ task[p].changed = {} /\ m \in task[p].todo
  /\ active' = [active EXCEPT ![p][m] = Value(m, task[p].rotation)]
  /\ task' = [task EXCEPT ![p].changed = {m}]
  /\ UNCHANGED <<keyFiles, generated, rotations, signings, signatures, torn, Seen>>

\* ensureCanaryKeys: both files, or a new key, written one file after the
\* other; a process that generates goes on with its own.
WantsKey(p) ==
  /\ task[p].op # "idle" /\ task[p].key = NoKey
  /\ task[p].op = "rotate" => task[p].changed # {}
NeedsKey(p) == WantsKey(p) /\ task[p].fresh = NoKey
KeysExist == keyFiles.private # NoKey /\ keyFiles.public # NoKey

ReadKeys(p) ==
  /\ NeedsKey(p) /\ KeysExist
  /\ task' = [task EXCEPT ![p].key = keyFiles.private]
  /\ UNCHANGED <<keyFiles, generated, rotations, signings, Runtime, Seen>>

GenerateKeys(p) ==
  /\ NeedsKey(p) /\ ~KeysExist /\ generated < MaxKeys
  /\ generated' = generated + 1
  /\ task' = [task EXCEPT ![p].fresh = generated + 1]
  /\ UNCHANGED <<keyFiles, rotations, signings, Runtime, Seen>>

WritePrivate(p) ==
  /\ task[p].fresh # NoKey /\ ~task[p].written
  /\ keyFiles' = [keyFiles EXCEPT !.private = task[p].fresh]
  /\ task' = [task EXCEPT ![p].written = TRUE]
  /\ UNCHANGED <<generated, rotations, signings, Runtime, Seen>>

\* The private file may be another's by now.
WritePublic(p) ==
  /\ task[p].written /\ task[p].key = NoKey
  /\ keyFiles' = [keyFiles EXCEPT !.public = task[p].fresh]
  /\ task' = [task EXCEPT ![p].key = task[p].fresh]
  /\ UNCHANGED <<generated, rotations, signings, Runtime, Seen>>

\* A directory or file that cannot be made, read or written, or that holds no
\* key: the operation throws, and what it has changed stays.
Fails(p) ==
  /\ WantsKey(p)
  /\ task' = [task EXCEPT ![p] = Idle]
  /\ torn' = [torn EXCEPT ![p] = @ \cup task[p].changed]
  /\ UNCHANGED <<keyFiles, generated, rotations, signings, active, signatures, Seen>>

\* One marker of an operation is done; a rotation looks for its keys again.
Done(p, m) ==
  LET left == task[p].todo \ {m} IN
  /\ torn' = [torn EXCEPT ![p] = @ \ {m}]
  /\ task' = [task EXCEPT ![p] =
               IF left = {} THEN Idle
               ELSE IF task[p].op = "rotate"
                 THEN Operation("rotate", left, task[p].rotation)
                 ELSE [task[p] EXCEPT !.todo = left]]

\* A slip the runs must notice: the signature before the last stays on record.
SignKeepingPrev(p, m) ==
  signatures' = [signatures EXCEPT ![p][m] =
    [current |-> Signature(task[p].key, active[p][m], @.current),
     prev |-> IF @.prev = Unsigned THEN @.current ELSE @.prev]]

\* The payload names the signature it replaces, and the record keeps it.
Sign(p, m) ==
  signatures' = [signatures EXCEPT ![p][m] =
    [current |-> Signature(task[p].key, active[p][m], @.current), prev |-> @.current]]

\* A rotation signs the marker it has changed, signAllCanaries each in turn.
SignOne(p, m) ==
  /\ task[p].key # NoKey
  /\ \/ task[p].op = "rotate" /\ m \in task[p].changed
     \/ task[p].op = "sign" /\ m \in task[p].todo
  /\ Sign(p, m)
  /\ Done(p, m)
  /\ UNCHANGED <<keyFiles, generated, rotations, signings, active, Seen>>

\* verifyAllCanaries only answers, which invariants do here.
EndVerification(p) ==
  /\ task[p].op = "verify" /\ task[p].key # NoKey
  /\ task' = [task EXCEPT ![p] = Idle]
  /\ UNCHANGED <<keyFiles, generated, rotations, signings, Runtime, Seen>>

\* Nothing in memory outlives the process: the shipped values are back.
Restart(p) ==
  /\ active' = [active EXCEPT ![p] = [m \in Markers |-> Value(m, 0)]]
  /\ signatures' = [signatures EXCEPT ![p] = [m \in Markers |-> NoSignature]]
  /\ task' = [task EXCEPT ![p] = Idle]
  /\ torn' = [torn EXCEPT ![p] = {}]
  /\ UNCHANGED <<keyFiles, generated, rotations, signings, Seen>>

\* matchCanaries, which enforcement and the policy ladder use, knows the
\* shipped values; matchCanariesRuntime, of the match route, the active too.
Matched(values) == {v \in values : v \in Shipped}
MatchedRuntime(values) == {v \in values : v \in Shipped \cup {active[Gateway][m] : m \in Markers}}
Hits(route, values) == IF route = "match" THEN MatchedRuntime(values) ELSE Matched(values)

\* A text with some value in it: noteCanaryTrigger.  The gateway's own
\* operations are synchronous: it reads no text in the middle of one.
Text(route, v) ==
  /\ task[Gateway].op = "idle"
  /\ triggered' = triggered \cup {CanaryOf[h.marker] : h \in Hits(route, {v})}
  /\ slipped' = (slipped \/ ( /\ route = "enforce" /\ v = active[Gateway][v.marker]
                             /\ Hits(route, {v}) = {} ))
  /\ UNCHANGED <<keyFiles, generated, rotations, signings, Runtime, task>>

CanaryNext ==
  \/ \E p \in Processes :
       \/ \E m \in Markers : \/ StartRotation(p, {m})
                             \/ StartRotation(p, {n \in Markers : CanaryOf[n] = CanaryOf[m]})
                             \/ ChangeValue(p, m)
                             \/ SignOne(p, m)
       \/ \E op \in {"sign", "verify"} : StartSigning(p, op)
       \/ ReadKeys(p) \/ GenerateKeys(p) \/ WritePrivate(p) \/ WritePublic(p)
       \/ Fails(p) \/ EndVerification(p) \/ Restart(p)
  \/ \E route \in {"enforce", "match"}, m \in Markers, n \in 0..MaxRotations :
       Text(route, Value(m, n))

-----------------------------------------------------------------------------
\* A signature on record verifies after any signings, rotations, failures and
\* restarts of any process (manager.ts, "rotate ... and re-sign").  One that does
\* not is of a marker whose new value its rotation has yet to sign, or threw
\* before it could, and is of an older value; or it was made with a key that is
\* not in the public file, and then two keys were generated, by processes that
\* both found none.
SignaturesHold ==
  \A p \in Processes, m \in Markers :
    signatures[p][m] # NoSignature =>
      \/ Verifies(p, m)
      \/ /\ m \in task[p].changed \cup torn[p]
         /\ signatures[p][m].current.value.rotation < active[p][m].rotation
      \/ generated > 1 /\ signatures[p][m].current.key # keyFiles.public

\* Detection fires when an active value appears in a call or in egress.
ActiveMarkersAreSeen == ~slipped
=============================================================================
