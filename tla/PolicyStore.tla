----------------------------- MODULE PolicyStore -----------------------------
(***************************************************************************)
(* The policy file and the policy in force: savePolicyYaml with its        *)
(* backups (shared/src/policy-save.ts), loadPolicy and getPolicy           *)
(* (policy/src/engine.ts), the routes that save, reload and change the     *)
(* trust of an agent (gateway/src/routes/phase3.ts, phase4.ts), edits of   *)
(* the file by hand, and restarts of the gateway.                          *)
(*                                                                         *)
(* A handler reads and writes files synchronously: it is one step.  What   *)
(* it records in the audit afterwards is Orgs's.  A text is what is        *)
(* written in it: its flaw if it has one, a tag for all of the policy but  *)
(* the lists of agents, and these lists.                                   *)
(***************************************************************************)
EXTENDS Naturals, FiniteSets, Functions

CONSTANTS
  Texts,         \* what is put in a request or typed into the file
  StartText,     \* the file at the start
  Agents,
  NoPolicy,      \* nothing is loaded
  LastMs, MaxChanges   \* bounds: milliseconds, changes of the file

VARIABLES
  file,          \* the text in the policy file
  backups,       \* [milliseconds -> text], partial: the .bak files by their stamp
  policy,        \* cachedPolicy
  storeClock,    \* milliseconds
  changes,       \* changes of the file so far
  savedTags,     \* (history) what was saved and not replaced by hand, nor its
                 \* backup by another of the same millisecond
  confined       \* (history) agents quarantined through the API, no change of
                 \* trust, save or edit of the file having said otherwise since

storeVars == <<file, backups, policy, storeClock, changes, savedTags, confined>>

TrustLists == {"trusted", "untrusted", "verified", "quarantined"}

Flaws == {"empty", "large", "syntax", "shape", "key", "unnamed"}

\* Refused: nothing or too much, no YAML or no mapping, a key that is not one
\* of ALLOWED_POLICY_KEYS, no version or name.  What the keys hold is not read.
Valid(t) == t.flaw \notin Flaws

\* YAML.parse of the file; it throws on what is no YAML.
Parses(t) == t.flaw # "syntax"
Parsed(t) == [tag |-> t.tag, lists |-> t.lists]

\* YAML.stringify
Stringified(p) == [flaw |-> "none", tag |-> p.tag, lists |-> p.lists]

Up == policy # NoPolicy

StoreInit ==
  /\ file = StartText
  /\ backups = [at \in {} |-> StartText]
  /\ policy = NoPolicy
  /\ storeClock = 0
  /\ changes = 0
  /\ savedTags = {}
  /\ confined = {}

Change == changes < MaxChanges /\ changes' = changes + 1

\* A slip the runs must notice: only the last copy is kept.
BackupLast(t) == backups' = [at \in {storeClock} |-> t]

\* backupPolicyFile: a copy named by the time; one of the same millisecond is
\* replaced.
Backup(t) ==
  backups' = [at \in DOMAIN backups \cup {storeClock} |->
                IF at = storeClock THEN t ELSE backups[at]]

Replaced == IF storeClock \in DOMAIN backups THEN {backups[storeClock].tag} ELSE {}

QuarantinedIn(t) == t.lists["quarantined"]

\* PUT /v1/phaseone/policy and /policy/v2.  A dry run ends before the backup;
\* a text that is refused changes nothing either.
Save(t) ==
  /\ Up /\ Valid(t)
  /\ Change
  /\ file' = t
  /\ Backup(file)
  /\ policy' = IF Parses(t) THEN Parsed(t) ELSE policy
  /\ savedTags' = (savedTags \ Replaced) \cup {t.tag}
  /\ confined' = confined \cap QuarantinedIn(t)
  /\ UNCHANGED storeClock

\* POST /v1/phaseone/a2a/trust: the agent is stripped from every list of the
\* policy in force and put on one, or none for "clear".  The file is replaced
\* by that policy whether persist is asked for or not, without a backup.
WithTrust(p, a, level) ==
  [p EXCEPT !.lists = [l \in TrustLists |->
     (p.lists[l] \ {a}) \cup (IF l = level THEN {a} ELSE {})]]

\* A slip the runs must notice: without persist only memory is changed.
TrustInMemory(a, level) ==
  /\ Up
  /\ Change
  /\ policy' = WithTrust(policy, a, level)
  /\ confined' = IF level = "quarantined" THEN confined \cup {a} ELSE confined \ {a}
  /\ UNCHANGED <<file, backups, storeClock, savedTags>>

Trust(a, level) ==
  /\ Up
  /\ Change
  /\ policy' = WithTrust(policy, a, level)
  /\ file' = Stringified(WithTrust(policy, a, level))
  /\ confined' = IF level = "quarantined" THEN confined \cup {a} ELSE confined \ {a}
  /\ UNCHANGED <<backups, storeClock, savedTags>>

\* GET /v1/phaseone/policy loads the file again; what is no YAML leaves the
\* policy as it is and fails the request.
Reload ==
  /\ Up /\ Parses(file)
  /\ policy' = Parsed(file)
  /\ UNCHANGED <<file, backups, storeClock, changes, savedTags, confined>>

\* Somebody edits the file; what replaces a saved policy so is not kept.
EditByHand(t) ==
  /\ Change
  /\ file' = t
  /\ savedTags' = savedTags \ {file.tag}
  /\ confined' = confined \cap QuarantinedIn(t)
  /\ UNCHANGED <<backups, policy, storeClock>>

\* The gateway loads the policy before it serves, and does not start without.
StoreStart ==
  /\ ~Up /\ Parses(file)
  /\ policy' = Parsed(file)
  /\ UNCHANGED <<file, backups, storeClock, changes, savedTags, confined>>

StoreStop ==
  /\ Up
  /\ policy' = NoPolicy
  /\ UNCHANGED <<file, backups, storeClock, changes, savedTags, confined>>

MsPasses ==
  /\ storeClock < LastMs
  /\ storeClock' = storeClock + 1
  /\ UNCHANGED <<file, backups, policy, changes, savedTags, confined>>

StoreNext ==
  \/ \E t \in Texts : Save(t) \/ EditByHand(t)
  \/ \E a \in Agents, level \in TrustLists \cup {"clear"} : Trust(a, level)
  \/ Reload \/ StoreStart \/ StoreStop \/ MsPasses

-----------------------------------------------------------------------------
\* A policy saved through the API can be had again, from the file or a backup,
\* after any saves, changes of trust, reloads and restarts: it is lost only to
\* an edit by hand, or when two saves fall in one millisecond.
SavedPoliciesAreRecoverable ==
  savedTags \subseteq {file.tag} \cup {t.tag : t \in Range(backups)}

\* An agent quarantined through the API stays so, in the file and in the policy
\* in force whenever there is one, through changes of other agents, reloads and
\* restarts, until a change of trust, a save or an edit says otherwise.
QuarantineSticks ==
  /\ confined \subseteq QuarantinedIn(file)
  /\ Up => confined \subseteq policy.lists["quarantined"]
=============================================================================
