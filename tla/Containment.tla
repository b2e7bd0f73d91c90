---------------------------- MODULE Containment ----------------------------
(***************************************************************************)
(* The restrictions that contain actions of the gatekeeper put in force:   *)
(* runtimeOverrides, a map from keys such as deny_tool:<tool> to an entry  *)
(* with an expiry, kept in the gateway's memory; and the tool calls that   *)
(* the same gateway goes on judging.  left[k] counts the ticks at which    *)
(* now <= expires_at still holds.                                          *)
(***************************************************************************)
EXTENDS Naturals

CONSTANTS
  Timed,      \* keys of the actions with duration_ms; a tool's key denies the tool
  Trust,      \* keys a2a_trust:<agent> of lower_a2a_trust, which set no expires_at
  Durations   \* the values duration_ms takes in the playbooks, in ticks

ASSUME ContainmentAssumption == Durations \subseteq Nat

OverrideKeys == Timed \cup Trust

VARIABLES
  left,    \* runtimeOverrides: key -> ticks left; a trust key keeps its entry
  asked,   \* history: ticks left of what was last asked for each key
  ran      \* history: keys of tools that ran while their override was in force

overrideVars == <<left, asked, ran>>

OverrideInit ==
  /\ left = [k \in {} |-> 0]
  /\ asked = [k \in OverrideKeys |-> 0]
  /\ ran = {}

\* A slip the runs must notice: an entry is taken for one without expires_at.
ExpiredNever(k) == FALSE

Expired(k) == k \in Timed /\ left[k] = 0

\* listRuntimeOverrides, and what getRuntimeOverride would return.
InForce == {k \in DOMAIN left : ~Expired(k)}

Without(gone) == [k \in DOMAIN left \ gone |-> left[k]]

\* tighten_rate_limit, force_approval, deny_tool, deny_domain: the last one
\* to set a key decides, be it shorter than the one before.
Contain(k, d) ==
  /\ left' = [q \in DOMAIN left \cup {k} |-> IF q = k THEN d + 1 ELSE left[q]]
  /\ asked' = [asked EXCEPT ![k] = d + 1]
  /\ UNCHANGED ran

LowerTrust(k) ==
  /\ left' = [q \in DOMAIN left \cup {k} |-> IF q = k THEN 1 ELSE left[q]]
  /\ asked' = [asked EXCEPT ![k] = 1]
  /\ UNCHANGED ran

\* getRuntimeOverride drops the entry it finds expired.
Get(k) ==
  /\ k \in DOMAIN left
  /\ Expired(k)
  /\ left' = Without({k})
  /\ UNCHANGED <<asked, ran>>

\* A slip the runs must notice: entries go at expires_at instead of after it.
ClearEarly ==
  /\ left' = Without({k \in DOMAIN left : k \in Timed /\ left[k] <= 1})
  /\ UNCHANGED <<asked, ran>>

\* clearExpiredOverrides, at the end of a cycle or by POST overrides/cleanup.
Clear ==
  /\ \E k \in DOMAIN left : Expired(k)
  /\ left' = Without({k \in DOMAIN left : Expired(k)})
  /\ UNCHANGED <<asked, ran>>

\* A tool call that policy allows: evaluateToolCall reads the policy alone.
Call(k) ==
  /\ k \in Timed
  /\ ran' = IF k \in InForce THEN ran \cup {k} ELSE ran
  /\ UNCHANGED <<left, asked>>

Tick ==
  /\ \E k \in Timed : asked[k] > 0
  /\ left' = [k \in DOMAIN left |->
       IF k \in Timed /\ left[k] > 0 THEN left[k] - 1 ELSE left[k]]
  /\ asked' = [k \in OverrideKeys |-> IF k \in Timed /\ asked[k] > 0 THEN asked[k] - 1 ELSE asked[k]]
  /\ UNCHANGED ran

\* The gateway stops: its memory is gone, and the restrictions with it.
Restart ==
  /\ left' = [k \in {} |-> 0]
  /\ asked' = [k \in OverrideKeys |-> 0]
  /\ UNCHANGED ran

OverrideNext ==
  \/ \E k \in Timed, d \in Durations : Contain(k, d)
  \/ \E k \in Trust : LowerTrust(k)
  \/ \E k \in OverrideKeys : Get(k) \/ Call(k)
  \/ Clear \/ Tick \/ Restart

OverrideSpec == OverrideInit /\ [][OverrideNext]_overrideVars
OverrideFairness == WF_overrideVars(Tick)

-----------------------------------------------------------------------------
(* Properties.                                                             *)

\* A restriction is in force exactly until the expiry last asked for it,
\* whatever reads and cleanups drop entries meanwhile, and in whatever order.
InForceAsAsked == InForce = {k \in OverrideKeys : asked[k] > 0}

\* README.md calls runtime overrides temporary policy mutations that deny a
\* tool: a denied tool does not run while its override is in force.
DeniedToolsDoNotRun == ran = {}

Renew(k) == LowerTrust(k) \/ \E d \in Durations : Contain(k, d)

Ceases(k) == []<>(k \notin InForce) \/ []<><<Renew(k)>>_overrideVars

\* A restriction with a duration ends, again and again, unless somebody keeps
\* renewing it: nothing has to clean it up.
TimedRestrictionsEnd == \A k \in Timed : Ceases(k)
=============================================================================
