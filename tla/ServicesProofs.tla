--------------------------- MODULE ServicesProofs ---------------------------
(* What is proved of the overrides, of the operator's MCP server and of the *)
(* caps on actions, for all keys, durations, calls, callers and limits, and *)
(* of all three where Services composes them.                               *)
EXTENDS Services, RateLimitProofs, FiniteSetTheorems, NaturalsInduction,
        WellFoundedInduction, TLAPS

-----------------------------------------------------------------------------
(* The overrides.                                                          *)

\* Entries are those last asked for: a key without an entry has run out, and
\* one with an entry has as long as was asked.  Keys without an expiry never
\* run out.
EntriesAreAsAsked ==
  /\ left = [k \in DOMAIN left |-> left[k]]
  /\ DOMAIN left \subseteq OverrideKeys
  /\ asked \in [OverrideKeys -> Nat]
  /\ \A k \in OverrideKeys :
       /\ k \in DOMAIN left => left[k] = asked[k] /\ (k \notin Timed => asked[k] > 0)
       /\ k \notin DOMAIN left => asked[k] = 0

LEMMA SetKeeps ==
  ASSUME NEW k \in OverrideKeys, NEW n \in Nat, n > 0, EntriesAreAsAsked,
         left' = [q \in DOMAIN left \cup {k} |-> IF q = k THEN n ELSE left[q]],
         asked' = [asked EXCEPT ![k] = n]
  PROVE  EntriesAreAsAsked'
BY DEF EntriesAreAsAsked

LEMMA DropKeeps ==
  ASSUME NEW gone, \A k \in gone : k \in DOMAIN left /\ Expired(k), EntriesAreAsAsked,
         left' = Without(gone), UNCHANGED asked
  PROVE  EntriesAreAsAsked'
BY DEF EntriesAreAsAsked, Without, Expired

LEMMA TickKeeps == EntriesAreAsAsked /\ Tick => EntriesAreAsAsked'
<1> SUFFICES ASSUME EntriesAreAsAsked, Tick PROVE EntriesAreAsAsked'
  OBVIOUS
<1>1. /\ DOMAIN left' = DOMAIN left
      /\ left' = [k \in DOMAIN left' |-> left'[k]]
      /\ asked' \in [OverrideKeys -> Nat]
  BY DEF EntriesAreAsAsked, Tick
<1>2. ASSUME NEW k \in OverrideKeys
      PROVE  /\ k \in DOMAIN left' => left'[k] = asked'[k] /\ (k \notin Timed => asked'[k] > 0)
             /\ k \notin DOMAIN left' => asked'[k] = 0
  BY <1>1 DEF EntriesAreAsAsked, Tick
<1> QED
  BY <1>1, <1>2 DEF EntriesAreAsAsked

LEMMA AsAskedInductive ==
  /\ OverrideInit => EntriesAreAsAsked
  /\ EntriesAreAsAsked /\ [OverrideNext]_overrideVars => EntriesAreAsAsked'
<1>1. OverrideInit => EntriesAreAsAsked
  BY DEF OverrideInit, EntriesAreAsAsked
<1>2. ASSUME EntriesAreAsAsked, [OverrideNext]_overrideVars
      PROVE  EntriesAreAsAsked'
  <2>1. ASSUME NEW k \in Timed, NEW d \in Durations, Contain(k, d)
        PROVE  EntriesAreAsAsked'
    <3>1. d + 1 \in Nat /\ d + 1 > 0 /\ k \in OverrideKeys
      BY ContainmentAssumption DEF OverrideKeys
    <3> QED
      BY <1>2, <2>1, <3>1, SetKeeps DEF Contain
  <2>2. ASSUME NEW k \in Trust, LowerTrust(k)
        PROVE  EntriesAreAsAsked'
    <3>1. 1 \in Nat /\ 1 > 0 /\ k \in OverrideKeys
      BY DEF OverrideKeys
    <3> QED
      BY <1>2, <2>2, <3>1, SetKeeps DEF LowerTrust
  <2>3. ASSUME NEW k \in OverrideKeys, Get(k)
        PROVE  EntriesAreAsAsked'
    BY <1>2, <2>3, DropKeeps DEF Get
  <2>4. ASSUME NEW k \in OverrideKeys, Call(k)
        PROVE  EntriesAreAsAsked'
    BY <1>2, <2>4 DEF Call, EntriesAreAsAsked
  <2>5. CASE Clear
    BY <1>2, <2>5, DropKeeps DEF Clear
  <2>6. CASE Tick
    BY <1>2, <2>6, TickKeeps
  <2>7. CASE Restart
    BY <2>7 DEF Restart, EntriesAreAsAsked
  <2>8. CASE UNCHANGED overrideVars
    BY <1>2, <2>8 DEF overrideVars, EntriesAreAsAsked
  <2> QED
    BY <1>2, <2>1, <2>2, <2>3, <2>4, <2>5, <2>6, <2>7, <2>8 DEF OverrideNext
<1> QED
  BY <1>1, <1>2

\* Whatever the keys and their durations, a restriction is in force exactly as
\* long as it was last asked for: reads, cleanups and restarts neither shorten
\* nor prolong one (gatekeeper/src/actions.ts, runtimeOverrides).
THEOREM InForceHolds == OverrideSpec => []InForceAsAsked
<1>1. EntriesAreAsAsked => InForceAsAsked
  BY DEF EntriesAreAsAsked, InForceAsAsked, InForce, Expired
<1> QED
  BY <1>1, AsAskedInductive, PTL DEF OverrideSpec

-----------------------------------------------------------------------------
(* The operator's MCP server.                                              *)

CallTyped ==
  calls \in [Calls -> [next : {"call", "fetch", "audit", "answered"}, write : BOOLEAN,
                       reply : {"none", "ok", "error"}]]

\* Until a call has begun there is no request of it, and only when its request
\* is over is there an entry.
HasEntry(c) == \E e \in console : e.call = c
RequestsFollowCalls ==
  /\ underWay \cup applied \subseteq Calls
  /\ \A e \in console : e.call \in Calls
  /\ trail \subseteq console
  /\ \A c \in Calls :
       /\ calls[c].next = "call" => c \notin underWay /\ c \notin applied /\ calls[c].reply = "none"
       /\ c \in applied => calls[c].write
       /\ calls[c].next \in {"call", "fetch"} => ~HasEntry(c)

\* A request that is under way, or has made its change, though nobody waits for
\* it any more, has an entry: it was begun, and giving up writes one.
AbandonedHaveEntries ==
  \A c \in Calls :
    c \in underWay \cup applied /\ calls[c].next \in {"audit", "answered"} => HasEntry(c)

\* What was answered ok, and a change an entry calls done, was done.
SuccessIsApplied ==
  /\ \A c \in Calls : calls[c].reply = "ok" /\ calls[c].write => c \in applied
  /\ \A e \in console : e.ok /\ calls[e.call].write => e.call \in applied

RecordInv == CallTyped /\ RequestsFollowCalls /\ AbandonedHaveEntries /\ SuccessIsApplied

LEMMA RecordInit == McpInit => RecordInv
BY DEF McpInit, NotCalled, RecordInv, CallTyped, RequestsFollowCalls, HasEntry,
       AbandonedHaveEntries, SuccessIsApplied

\* What a step that sets fields of one call leaves alone.
OnlyCall(c, next, write, reply) ==
  /\ CallTyped'
  /\ \A d \in Calls \ {c} : calls'[d] = calls[d]
  /\ calls'[c].next = next /\ calls'[c].write = write /\ calls'[c].reply = reply

LEMMA CallFields ==
  ASSUME CallTyped, NEW c \in Calls
  PROVE  /\ calls[c].next \in {"call", "fetch", "audit", "answered"}
         /\ calls[c].write \in BOOLEAN /\ calls[c].reply \in {"none", "ok", "error"}
         /\ calls[c] \in [next : {"call", "fetch", "audit", "answered"}, write : BOOLEAN,
                          reply : {"none", "ok", "error"}]
BY DEF CallTyped

LEMMA NextAndWriteSet ==
  ASSUME CallTyped, NEW c \in Calls, NEW next \in {"call", "fetch", "audit", "answered"},
         NEW write \in BOOLEAN,
         calls' = [calls EXCEPT ![c].next = next, ![c].write = write]
  PROVE  OnlyCall(c, next, write, calls[c].reply)
BY CallFields DEF CallTyped, OnlyCall

LEMMA NextSet ==
  ASSUME CallTyped, NEW c \in Calls, NEW next \in {"call", "fetch", "audit", "answered"},
         calls' = [calls EXCEPT ![c].next = next]
  PROVE  OnlyCall(c, next, calls[c].write, calls[c].reply)
BY CallFields DEF CallTyped, OnlyCall

LEMMA ReplySet ==
  ASSUME CallTyped, NEW c \in Calls, NEW reply \in {"none", "ok", "error"},
         calls' = [calls EXCEPT ![c].reply = reply]
  PROVE  OnlyCall(c, calls[c].next, calls[c].write, reply)
BY CallFields DEF CallTyped, OnlyCall

USE DEF RecordInv, RequestsFollowCalls, HasEntry, AbandonedHaveEntries, SuccessIsApplied

LEMMA RequestKeeps ==
  ASSUME NEW c \in Calls, NEW write \in BOOLEAN, RecordInv, calls[c].next = "call",
         Request(c, write)
  PROVE  RecordInv'
<1>1. OnlyCall(c, "fetch", write, calls[c].reply)
  <2>1. "fetch" \in {"call", "fetch", "audit", "answered"}
    OBVIOUS
  <2>2. calls' = [calls EXCEPT ![c].next = "fetch", ![c].write = write]
    BY DEF Request
  <2>3. CallTyped
    OBVIOUS
  <2> HIDE DEF RecordInv, RequestsFollowCalls, HasEntry, AbandonedHaveEntries, SuccessIsApplied
  <2> QED
    BY <2>1, <2>2, <2>3, NextAndWriteSet, Zenon
<1>2. underWay' = underWay \cup {c} /\ UNCHANGED <<applied, console, trail>>
  BY DEF Request
<1> QED
  BY <1>1, <1>2 DEF OnlyCall

LEMMA AnsweredKeeps ==
  ASSUME NEW c \in Calls, NEW write \in BOOLEAN, RecordInv, calls[c].next = "call",
         Answered(c, write)
  PROVE  RecordInv'
<1>1. OnlyCall(c, "answered", write, calls[c].reply)
  <2>1. "answered" \in {"call", "fetch", "audit", "answered"}
    OBVIOUS
  <2>2. calls' = [calls EXCEPT ![c].next = "answered", ![c].write = write]
    BY DEF Answered
  <2>3. CallTyped
    OBVIOUS
  <2> HIDE DEF RecordInv, RequestsFollowCalls, HasEntry, AbandonedHaveEntries, SuccessIsApplied
  <2> QED
    BY <2>1, <2>2, <2>3, NextAndWriteSet, Zenon
<1>2. UNCHANGED <<underWay, applied, console, trail>>
  BY DEF Answered
<1> QED
  BY <1>1, <1>2 DEF OnlyCall

LEMMA AuditedKeeps ==
  ASSUME NEW c \in Calls, NEW write \in BOOLEAN, NEW ok \in BOOLEAN, RecordInv,
         \/ calls[c].next = "call" /\ ~ok
         \/ calls[c].next = "fetch" /\ write = calls[c].write /\ (ok => calls[c].reply = "ok"),
         Audited(c, write, ok)
  PROVE  RecordInv'
<1>1. OnlyCall(c, "audit", write, calls[c].reply)
  <2>1. "audit" \in {"call", "fetch", "audit", "answered"}
    OBVIOUS
  <2>2. calls' = [calls EXCEPT ![c].next = "audit", ![c].write = write]
    BY DEF Audited
  <2>3. CallTyped
    OBVIOUS
  <2> HIDE DEF RecordInv, RequestsFollowCalls, HasEntry, AbandonedHaveEntries, SuccessIsApplied
  <2> QED
    BY <2>1, <2>2, <2>3, NextAndWriteSet, Zenon
<1>2. /\ console' = console \cup {Entry(c, ok)}
      /\ Entry(c, ok).call = c /\ Entry(c, ok).ok = ok
      /\ UNCHANGED <<underWay, applied, trail>>
  BY DEF Audited, Entry
<1>3. RequestsFollowCalls'
  BY <1>1, <1>2 DEF OnlyCall
<1>4. AbandonedHaveEntries'
  BY <1>1, <1>2 DEF OnlyCall
<1>5. SuccessIsApplied'
  BY <1>1, <1>2 DEF OnlyCall
<1> QED
  BY <1>1, <1>3, <1>4, <1>5 DEF OnlyCall

LEMMA HandlingKeeps ==
  ASSUME NEW c \in Calls, RecordInv, GatewayHandles(c)
  PROVE  RecordInv'
<1>1. PICK ok \in BOOLEAN :
        /\ calls' = [calls EXCEPT ![c].reply = IF ok THEN "ok" ELSE "error"]
        /\ applied' = IF ok /\ calls[c].write THEN applied \cup {c} ELSE applied
  BY DEF GatewayHandles
<1>2. OnlyCall(c, calls[c].next, calls[c].write, IF ok THEN "ok" ELSE "error")
  <2>1. (IF ok THEN "ok" ELSE "error") \in {"none", "ok", "error"}
    OBVIOUS
  <2> QED
    BY <1>1, <2>1, ReplySet
<1>3. c \in underWay /\ underWay' = underWay \ {c} /\ UNCHANGED <<console, trail>>
  BY DEF GatewayHandles
<1>4. RequestsFollowCalls'
  BY <1>1, <1>2, <1>3 DEF OnlyCall
<1>5. AbandonedHaveEntries'
  BY <1>1, <1>2, <1>3 DEF OnlyCall
<1>6. SuccessIsApplied'
  BY <1>1, <1>2, <1>3 DEF OnlyCall
<1> QED
  BY <1>2, <1>4, <1>5, <1>6 DEF OnlyCall

LEMMA PostingKeeps ==
  ASSUME NEW c \in Calls, RecordInv, PostAudit(c)
  PROVE  RecordInv'
<1>1. OnlyCall(c, "answered", calls[c].write, calls[c].reply)
  <2>1. "answered" \in {"call", "fetch", "audit", "answered"}
    OBVIOUS
  <2>2. calls' = [calls EXCEPT ![c].next = "answered"]
    BY DEF PostAudit
  <2> QED
    BY <2>1, <2>2, NextSet
<1>2. /\ calls[c].next = "audit" /\ UNCHANGED <<underWay, applied, console>>
      /\ trail' \subseteq trail \cup console
  BY DEF PostAudit
<1> QED
  BY <1>1, <1>2 DEF OnlyCall

LEMMA RecordStep == RecordInv /\ [McpNext]_mcpVars => RecordInv'
<1> SUFFICES ASSUME RecordInv, [McpNext]_mcpVars PROVE RecordInv'
  OBVIOUS
<1>1. CASE UNCHANGED <<calls, underWay, applied, console, trail>>
  BY <1>1 DEF CallTyped
<1>2. ASSUME NEW c \in Calls, Reject(c) PROVE RecordInv'
  BY <1>2, AnsweredKeeps DEF Reject
<1>3. ASSUME NEW c \in Calls, RunReadTool(c) PROVE RecordInv'
  BY <1>3, RequestKeeps DEF RunReadTool
<1>4. ASSUME NEW c \in Calls, Unauthorized(c) PROVE RecordInv'
  BY <1>4, AuditedKeeps DEF Unauthorized
<1>5. ASSUME NEW c \in Calls, NEW actor \in Keys, RateLimited(c, actor) PROVE RecordInv'
  BY <1>5, AuditedKeeps DEF RateLimited
<1>6. ASSUME NEW c \in Calls, NEW actor \in Keys, RunWriteTool(c, actor) PROVE RecordInv'
  BY <1>6, RequestKeeps, AnsweredKeeps DEF RunWriteTool
<1>7. ASSUME NEW c \in Calls, GatewayHandles(c) PROVE RecordInv'
  BY <1>7, HandlingKeeps
<1>8. ASSUME NEW c \in Calls, RequestLost(c) PROVE RecordInv'
  BY <1>8 DEF RequestLost, CallTyped
<1>9. ASSUME NEW c \in Calls, ReplyArrives(c) PROVE RecordInv'
  <2>1. calls[c].write \in BOOLEAN /\ (calls[c].reply = "ok") \in BOOLEAN
    BY CallFields
  <2>2. calls[c].next = "fetch" /\ Audited(c, calls[c].write, calls[c].reply = "ok")
    BY <1>9 DEF ReplyArrives
  <2> HIDE DEF RecordInv
  <2> QED
    BY <2>1, <2>2, AuditedKeeps, Zenon
<1>10. ASSUME NEW c \in Calls, GiveUp(c) PROVE RecordInv'
  <2>1. calls[c].write \in BOOLEAN
    BY CallFields
  <2>2. calls[c].next = "fetch" /\ Audited(c, calls[c].write, FALSE)
    BY <1>10 DEF GiveUp
  <2> HIDE DEF RecordInv
  <2> QED
    BY <2>1, <2>2, AuditedKeeps, Zenon
<1>11. ASSUME NEW c \in Calls, PostAudit(c) PROVE RecordInv'
  BY <1>11, PostingKeeps
<1> QED
  BY <1>1, <1>2, <1>3, <1>4, <1>5, <1>6, <1>7, <1>8, <1>9, <1>10, <1>11 DEF McpNext, mcpVars

LEMMA RecordInvSuffices == RecordInv => ChangesAreOnRecord
BY DEF ChangesAreOnRecord

\* The server's own steps, from its start, without what it shares no state with.
McpSpec == McpInit /\ [][McpNext]_mcpVars

\* For every number of calls and callers: a change that the gateway has made is
\* on record once nobody waits for it any more, even if it was made after the
\* server had given it up, and what the record calls done was done
\* (mcp-server/src/tools.ts, runWriteTool; audit.ts, auditManagementCall).
THEOREM ChangesAreRecorded == McpSpec => []ChangesAreOnRecord
<1> HIDE DEF RecordInv
<1> QED
  BY RecordInit, RecordStep, RecordInvSuffices, PTL DEF McpSpec

\* The limiter admits management calls and nothing else touches it: the server
\* implements module RateLimit, and inherits what is proved there.
THEOREM McpLimits == McpSpec => RateSpec
<1>1. McpInit => RateInit
  BY DEF McpInit
<1>2. [McpNext]_mcpVars => [RateNext]_rateVars
  <2> SUFFICES ASSUME [McpNext]_mcpVars PROVE [RateNext]_rateVars
    OBVIOUS
  <2>1. CASE UNCHANGED mcpVars
    BY <2>1 DEF mcpVars
  <2>2. CASE PassTime
    BY <2>2 DEF RateNext
  <2>3. ASSUME NEW c \in Calls, Reject(c) \/ RunReadTool(c) \/ Unauthorized(c)
        PROVE  UNCHANGED rateVars
    BY <2>3 DEF Reject, RunReadTool, Unauthorized
  <2>4. ASSUME NEW c \in Calls, NEW actor \in Keys,
               RateLimited(c, actor) \/ RunWriteTool(c, actor)
        PROVE  RateNext
    BY <2>4 DEF RateLimited, RunWriteTool, RateNext
  <2>5. ASSUME NEW c \in Calls, \/ GatewayHandles(c) \/ RequestLost(c) \/ ReplyArrives(c)
                                \/ GiveUp(c) \/ PostAudit(c)
        PROVE  UNCHANGED rateVars
    BY <2>5 DEF GatewayHandles, RequestLost, ReplyArrives, GiveUp, PostAudit
  <2> QED
    BY <2>1, <2>2, <2>3, <2>4, <2>5 DEF McpNext
<1> QED
  BY <1>1, <1>2, PTL DEF McpSpec, RateSpec

\* No caller has more management calls let through in a window than the limit,
\* and one that waits as told has its call let through.
THEOREM ManagementIsLimited == McpSpec => [](AtMostMaxPerWindow /\ RoomWhenPromised)
BY McpLimits, LimitHolds, PromiseHolds, PTL

HIDE DEF RecordInv, RequestsFollowCalls, HasEntry, AbandonedHaveEntries, SuccessIsApplied

-----------------------------------------------------------------------------
(* The caps on actions.                                                    *)

LEMMA LeastOf ==
  ASSUME NEW S \in SUBSET Nat, S # {}
  PROVE  Earliest(S) \in S /\ \A n \in S : Earliest(S) <= n
<1>1. PICK t \in S : \A u \in S : ~(<<u, t>> \in OpToRel(<, Nat))
  BY NatLessThanWellFounded, WFMin
<1>2. ASSUME NEW u \in S, ~(t <= u) PROVE FALSE
  <2>1. t \in Nat /\ u \in Nat /\ u < t
    BY <1>2
  <2> QED
    BY <1>1, <2>1 DEF OpToRel
<1> QED
  BY <1>2 DEF Earliest

LEMMA GreatestOf ==
  ASSUME NEW S \in SUBSET Nat, S # {}, NEW n \in Nat, \A t \in S : t <= n
  PROVE  Latest(S) \in S /\ \A t \in S : t <= Latest(S)
<1> DEFINE D == {n - t : t \in S}
<1>1. D \in SUBSET Nat /\ D # {}
  <2>1. \A t \in S : n - t \in Nat
    OBVIOUS
  <2> QED
    BY <2>1
<1>2. Earliest(D) \in D /\ \A d \in D : Earliest(D) <= d
  BY <1>1, LeastOf
<1>3. PICK t \in S : Earliest(D) = n - t
  BY <1>2
<1>4. ASSUME NEW u \in S PROVE u <= t
  <2>1. t \in Nat /\ u \in Nat /\ n - t <= n - u
    BY <1>2, <1>3
  <2> QED
    BY <2>1
<1> QED
  BY <1>4 DEF Latest

CapsTyped ==
  /\ moment \in Nat /\ breakerUntil \in Nat
  /\ IsFiniteSet(taken)
  /\ \A t \in taken : t.at \in Nat /\ t.at <= moment

\* What keeps a refusal true: the breaker stays tripped until its time and then
\* finds nothing left in the window; the oldest of as many actions as the cap
\* leaves it at that time; the last of the same actions is as old as that.
BreakerHolds ==
  /\ \A t \in taken : t.at + BreakerCooldown <= told.again
  /\ moment < told.again => breakerUntil = told.again
  /\ moment >= told.again => ~Tripped
WindowHolds ==
  /\ moment < told.again =>
       /\ Cardinality(Kept) = MaxActions
       /\ \A t \in Kept : told.again <= t.at + CapWindow
       /\ \E t \in Kept : told.again = t.at + CapWindow
  /\ moment >= told.again => Cardinality(Kept) < MaxActions
CooldownHolds ==
  /\ \A t \in Same(told.action, told.agent) : t + Cooldown <= told.again
  /\ moment < told.again =>
       \E t \in Same(told.action, told.agent) : t + Cooldown = told.again
ToldHolds ==
  told # NotTold =>
    /\ told.again \in Nat /\ told.reason \in {"breaker", "window", "cooldown"}
    /\ told.reason = "breaker" => BreakerHolds
    /\ told.reason = "window" => WindowHolds
    /\ told.reason = "cooldown" => CooldownHolds

CapsInv == CapsTyped /\ ToldHolds

LEMMA CapNumbers ==
  /\ MaxActions \in Nat \ {0} /\ CapWindow \in Nat \ {0} /\ Cooldown \in Nat \ {0}
  /\ Threshold \in Nat \ {0} /\ BreakerCooldown \in Nat \ {0}
  /\ Cooldown <= CapWindow /\ CapWindow <= BreakerCooldown
BY CapAssumption

LEMMA KeptIsFinite ==
  ASSUME CapsTyped
  PROVE  /\ Kept \subseteq taken /\ IsFiniteSet(Kept) /\ Cardinality(Kept) \in Nat
         /\ \A t \in Kept : t.at \in Nat /\ t.at <= moment
<1>1. Kept \in SUBSET taken
  BY DEF Kept
<1>2. IsFiniteSet(Kept)
  BY <1>1, FS_Subset DEF CapsTyped
<1> QED
  BY <1>1, <1>2, FS_CardinalityType DEF CapsTyped

\* What a check cleans away is not in the window.
LEMMA CleaningKeeps ==
  ASSUME CapsTyped, taken' \in {taken, Kept}, moment' = moment, breakerUntil' \in Nat
  PROVE  CapsTyped' /\ Kept' = Kept
BY KeptIsFinite DEF CapsTyped, Kept

LEMMA CheckTyped ==
  ASSUME CapsInv, NEW action, NEW agent, CheckRateCap(action, agent)
  PROVE  /\ breakerUntil' \in Nat /\ taken' \in {taken, Kept} /\ moment' = moment
         /\ CapsTyped' /\ Kept' = Kept
<1>1. /\ taken' \in {taken, Kept} /\ moment' = moment
      /\ breakerUntil' \in {0, breakerUntil, moment + BreakerCooldown}
  BY DEF CheckRateCap, RetryAt
<1>2. breakerUntil' \in Nat
  BY <1>1, CapNumbers DEF CapsInv, CapsTyped
<1> QED
  BY <1>1, <1>2, CleaningKeeps DEF CapsInv

\* A check after a refusal leaves it as true as it was.
LEMMA OldToldKeeps ==
  ASSUME CapsInv, NEW action, NEW agent, CheckRateCap(action, agent), told' = told
  PROVE  ToldHolds'
<1> SUFFICES ASSUME told # NotTold PROVE ToldHolds'
  BY DEF ToldHolds
<1>1. /\ told.again \in Nat /\ told.reason \in {"breaker", "window", "cooldown"}
      /\ told.reason = "breaker" => BreakerHolds
      /\ told.reason = "window" => WindowHolds
      /\ told.reason = "cooldown" => CooldownHolds
  BY DEF CapsInv, ToldHolds
<1>2. /\ breakerUntil' \in Nat /\ taken' \in {taken, Kept} /\ moment' = moment /\ Kept' = Kept
  BY CheckTyped
<1>3. moment \in Nat /\ breakerUntil \in Nat
  BY DEF CapsInv, CapsTyped
<1>4. ASSUME BreakerHolds PROVE BreakerHolds'
  <2>1. taken' \subseteq taken
    BY <1>2 DEF Kept
  <2>2. CASE moment < told.again
    <3>1. Tripped
      BY <1>4, <2>2 DEF BreakerHolds, Tripped
    <3>2. breakerUntil' = breakerUntil
      BY <3>1 DEF CheckRateCap, Verdict, RetryAt
    <3> QED
      BY <1>1, <1>2, <1>3, <1>4, <2>1, <2>2, <3>2 DEF BreakerHolds
  <2>3. CASE moment >= told.again
    <3>1. ~Tripped /\ Kept = {}
      BY <1>1, <1>3, <1>4, <2>3, CapNumbers, KeptIsFinite DEF BreakerHolds, Kept, CapsInv, CapsTyped
    <3>2. Verdict(action, agent) # "breaker"
      <4>1. Cardinality(Kept) = 0
        BY <3>1, FS_EmptySet
      <4> QED
        BY <3>1, <4>1, CapNumbers DEF Verdict
    <3>3. breakerUntil' = 0
      BY <3>2 DEF CheckRateCap
    <3> QED
      BY <1>1, <1>2, <1>3, <1>4, <2>1, <2>3, <3>3 DEF BreakerHolds, Tripped
  <2> QED
    BY <1>1, <1>3, <2>2, <2>3
<1>5. WindowHolds => WindowHolds'
  BY <1>2 DEF WindowHolds
<1>6. CooldownHolds => CooldownHolds'
  BY <1>2 DEF CooldownHolds, Same
<1> QED
  BY <1>1, <1>4, <1>5, <1>6 DEF ToldHolds

\* A refusal is true when it is made.
LEMMA NewToldHolds ==
  ASSUME CapsInv, NEW action, NEW agent, CheckRateCap(action, agent),
         NEW reason, reason = Verdict(action, agent),
         reason \in {"breaker", "window", "cooldown"}, Orderly,
         told' = [reason |-> reason, action |-> action, agent |-> agent,
                  again |-> RetryAt(reason, action, agent)]
  PROVE  ToldHolds'
<1>1. /\ breakerUntil' \in Nat /\ taken' \in {taken, Kept} /\ moment' = moment /\ Kept' = Kept
      /\ taken' \subseteq taken
  BY CheckTyped DEF Kept
<1>2. /\ moment \in Nat /\ breakerUntil \in Nat
      /\ \A t \in taken : t.at \in Nat /\ t.at <= moment
  BY DEF CapsInv, CapsTyped
<1>3. /\ told'.reason = reason /\ told'.action = action /\ told'.agent = agent
      /\ told'.again = RetryAt(reason, action, agent)
  OBVIOUS
<1>4. CASE reason = "breaker"
  <2>1. told'.again \in Nat /\ breakerUntil' = told'.again /\ moment < told'.again
    BY <1>2, <1>3, <1>4, CapNumbers DEF CheckRateCap, RetryAt, Tripped
  <2>2. \A t \in taken : t.at + BreakerCooldown <= told'.again
    BY <1>2, <1>3, <1>4, CapNumbers DEF RetryAt, Orderly
  <2>3. BreakerHolds'
    BY <1>1, <1>2, <2>1, <2>2 DEF BreakerHolds
  <2> QED
    BY <1>3, <1>4, <2>1, <2>3 DEF ToldHolds
<1>5. CASE reason = "window"
  <2> DEFINE T == {t.at : t \in Kept}
  <2>1. Cardinality(Kept) >= MaxActions /\ Cardinality(Kept) <= MaxActions
    BY <1>5 DEF Verdict, Orderly
  <2>2. Cardinality(Kept) = MaxActions /\ Kept # {}
    BY <2>1, CapNumbers, KeptIsFinite, FS_EmptySet DEF CapsInv
  <2>3. T \in SUBSET Nat /\ T # {}
    BY <2>2, KeptIsFinite DEF CapsInv
  <2>4. Earliest(T) \in T /\ \A n \in T : Earliest(T) <= n
    BY <2>3, LeastOf
  <2>5. told'.again = Earliest(T) + CapWindow
    BY <1>3, <1>5 DEF RetryAt
  <2>6. PICK o \in Kept : o.at = Earliest(T)
    BY <2>4
  <2>7. o.at \in Nat /\ told'.again = o.at + CapWindow /\ told'.again > moment
    BY <1>2, <2>5, <2>6 DEF Kept
  <2>8. ASSUME NEW t \in Kept PROVE told'.again <= t.at + CapWindow
    <3>1. t.at \in T /\ t.at \in Nat /\ Earliest(T) \in Nat
      BY <2>3, <2>4
    <3>2. Earliest(T) <= t.at
      BY <2>4, <3>1
    <3> QED
      BY <2>5, <3>1, <3>2, CapNumbers
  <2>9. WindowHolds' /\ told'.again \in Nat
    BY <1>1, <1>2, <2>2, <2>7, <2>8, CapNumbers DEF WindowHolds
  <2> QED
    BY <1>3, <1>5, <2>9 DEF ToldHolds
<1>6. CASE reason = "cooldown"
  <2> DEFINE S == Same(action, agent)
  <2>1. PICK s \in S : moment < s + Cooldown
    BY <1>6 DEF Verdict
  <2>2. S \in SUBSET Nat /\ S # {} /\ \A t \in S : t <= moment
    BY <2>1, KeptIsFinite DEF Same, CapsInv
  <2>3. Latest(S) \in S /\ \A t \in S : t <= Latest(S)
    BY <1>2, <2>2, GreatestOf
  <2>4. told'.again = Latest(S) + Cooldown /\ told'.again \in Nat
    BY <1>3, <1>6, <2>2, <2>3, CapNumbers DEF RetryAt
  <2>5. \A t \in S : t + Cooldown <= told'.again
    BY <2>2, <2>3, <2>4, CapNumbers
  <2>6. Same(action, agent)' = S
    BY <1>1 DEF Same
  <2>7. CooldownHolds'
    BY <1>1, <1>3, <2>3, <2>4, <2>5, <1>1 DEF CooldownHolds, Same
  <2> QED
    BY <1>3, <1>6, <2>4, <2>7 DEF ToldHolds
<1> QED
  BY <1>4, <1>5, <1>6

LEMMA CheckKeeps ==
  ASSUME CapsInv, NEW action, NEW agent, CheckRateCap(action, agent)
  PROVE  CapsInv'
<1>1. CASE told' = told
  BY <1>1, CheckTyped, OldToldKeeps DEF CapsInv
<1>2. CASE told' # told
  <2>1. /\ Verdict(action, agent) \in {"breaker", "window", "cooldown"} /\ Orderly
        /\ told' = [reason |-> Verdict(action, agent), action |-> action, agent |-> agent,
                    again |-> RetryAt(Verdict(action, agent), action, agent)]
    BY <1>2 DEF CheckRateCap
  <2> QED
    BY <2>1, CheckTyped, NewToldHolds DEF CapsInv
<1> QED
  BY <1>1, <1>2

LEMMA RecordKeeps ==
  ASSUME CapsInv, NEW action, NEW agent, RecordAction(action, agent)
  PROVE  CapsInv'
<1>1. told' = NotTold /\ UNCHANGED <<moment, breakerUntil>>
  BY DEF RecordAction
<1>2. PICK t : t.at = moment /\ taken' = taken \cup {t}
  BY DEF RecordAction
<1>3. IsFiniteSet(taken')
  BY <1>2, FS_AddElement DEF CapsInv, CapsTyped
<1>4. CapsTyped'
  BY <1>1, <1>2, <1>3 DEF CapsInv, CapsTyped
<1> QED
  BY <1>1, <1>4 DEF CapsInv, ToldHolds

LEMMA TimeKeeps ==
  ASSUME CapsInv, TimeGoesBy
  PROVE  CapsInv'
<1>1. moment' = moment + 1 /\ UNCHANGED <<taken, breakerUntil, told>> /\ moment \in Nat
  BY DEF TimeGoesBy, CapsInv, CapsTyped
<1>2. CapsTyped'
  BY <1>1 DEF CapsInv, CapsTyped
<1>3. breakerUntil \in Nat /\ \A t \in taken : t.at \in Nat
  BY DEF CapsInv, CapsTyped
<1>4. Kept' \subseteq Kept /\ Kept' \in SUBSET Kept
  BY <1>1, <1>3, CapNumbers DEF Kept
<1> SUFFICES ASSUME told # NotTold PROVE ToldHolds'
  BY <1>1, <1>2 DEF CapsInv, ToldHolds
<1>5. /\ told.again \in Nat /\ told.reason \in {"breaker", "window", "cooldown"}
      /\ told.reason = "breaker" => BreakerHolds
      /\ told.reason = "window" => WindowHolds
      /\ told.reason = "cooldown" => CooldownHolds
  BY DEF CapsInv, ToldHolds
<1>6. ASSUME BreakerHolds PROVE BreakerHolds'
  BY <1>1, <1>3, <1>5, <1>6 DEF BreakerHolds, Tripped
<1>7. ASSUME WindowHolds PROVE WindowHolds'
  <2>1. CASE moment + 1 < told.again
    <3>1. Kept' = Kept
      BY <1>1, <1>3, <1>5, <1>7, <2>1, CapNumbers DEF WindowHolds, Kept
    <3> QED
      BY <1>1, <1>5, <1>7, <2>1, <3>1 DEF WindowHolds
  <2>2. CASE moment + 1 = told.again
    <3>1. PICK t \in Kept : told.again = t.at + CapWindow
      BY <1>1, <1>7, <2>2 DEF WindowHolds
    <3>2. t \notin Kept'
      BY <1>1, <2>2, <3>1, <1>5 DEF Kept
    <3>3. Cardinality(Kept) = MaxActions
      BY <1>1, <1>7, <2>2 DEF WindowHolds
    <3>4. /\ Cardinality(Kept') <= Cardinality(Kept)
          /\ Cardinality(Kept) = Cardinality(Kept') => Kept = Kept'
      BY <1>4, KeptIsFinite, FS_Subset DEF CapsInv
    <3>5. Cardinality(Kept') \in Nat
      BY <1>4, KeptIsFinite, FS_Subset, FS_CardinalityType DEF CapsInv
    <3>6. Cardinality(Kept') < MaxActions
      BY <3>1, <3>2, <3>3, <3>4, <3>5, CapNumbers
    <3> QED
      BY <1>1, <1>5, <2>2, <3>6 DEF WindowHolds
  <2>3. CASE moment >= told.again
    <3>1. Cardinality(Kept) < MaxActions
      BY <1>7, <2>3 DEF WindowHolds
    <3>2. Cardinality(Kept') <= Cardinality(Kept) /\ Cardinality(Kept') \in Nat
      BY <1>4, KeptIsFinite, FS_Subset, FS_CardinalityType DEF CapsInv
    <3>3. Cardinality(Kept') < MaxActions
      BY <3>1, <3>2, KeptIsFinite, CapNumbers DEF CapsInv
    <3> QED
      BY <1>1, <1>5, <2>3, <3>3 DEF WindowHolds
  <2> QED
    BY <1>1, <1>5, <2>1, <2>2, <2>3
<1>8. ASSUME CooldownHolds PROVE CooldownHolds'
  <2>1. \A t \in Same(told.action, told.agent)' : t \in Same(told.action, told.agent)
    BY <1>1, <1>4 DEF Same
  <2>2. ASSUME moment + 1 < told.again
        PROVE  \E t \in Same(told.action, told.agent)' : t + Cooldown = told.again
    <3>1. PICK t \in Kept : /\ t.action = told.action /\ told.agent \in {AnyAgent, t.agent}
                            /\ t.at + Cooldown = told.again
      BY <1>1, <1>5, <1>8, <2>2 DEF CooldownHolds, Same
    <3>2. t \in Kept'
      BY <1>1, <1>3, <1>5, <2>2, <3>1, CapNumbers DEF Kept
    <3> QED
      BY <1>1, <3>1, <3>2 DEF Same
  <2> QED
    BY <1>1, <1>5, <1>8, <2>1, <2>2 DEF CooldownHolds
<1> QED
  BY <1>1, <1>5, <1>6, <1>7, <1>8 DEF ToldHolds, CapsInv, CapsTyped

LEMMA CapsInductive ==
  /\ CapInit => CapsInv
  /\ CapsInv /\ [CapNext]_capVars => CapsInv'
<1>1. CapInit => CapsInv
  BY FS_EmptySet DEF CapInit, CapsInv, CapsTyped, ToldHolds
<1>2. ASSUME CapsInv, ReleaseApproval \/ UNCHANGED capVars
      PROVE  CapsInv'
  BY <1>2 DEF ReleaseApproval, capVars, CapsInv, CapsTyped, ToldHolds, BreakerHolds,
     WindowHolds, CooldownHolds, Kept, Same, Tripped
<1>3. ASSUME CapsInv, [CapNext]_capVars
      PROVE  CapsInv'
  BY <1>2, <1>3, CheckKeeps, RecordKeeps, TimeKeeps DEF CapNext
<1> QED
  BY <1>1, <1>3

LEMMA ToldIsExact == CapsInv => RetryTimesAreExact
<1> SUFFICES ASSUME CapsInv, told # NotTold
             PROVE  /\ moment < told.again => Verdict(told.action, told.agent) # "allowed"
                    /\ moment >= told.again => Verdict(told.action, told.agent) # told.reason
  BY DEF RetryTimesAreExact
<1>1. /\ told.again \in Nat /\ told.reason \in {"breaker", "window", "cooldown"}
      /\ told.reason = "breaker" => BreakerHolds
      /\ told.reason = "window" => WindowHolds
      /\ told.reason = "cooldown" => CooldownHolds
  BY DEF CapsInv, ToldHolds
<1>2. moment \in Nat /\ breakerUntil \in Nat /\ \A t \in taken : t.at \in Nat /\ t.at <= moment
  BY DEF CapsInv, CapsTyped
<1>3. Cardinality(Kept) \in Nat
  BY KeptIsFinite DEF CapsInv
<1>4. CASE told.reason = "breaker"
  <2>1. moment < told.again => Tripped
    BY <1>1, <1>4 DEF BreakerHolds, Tripped
  <2>2. ASSUME moment >= told.again PROVE ~Tripped /\ Cardinality(Kept) = 0
    <3>1. Kept = {}
      BY <1>1, <1>2, <1>4, <2>2, CapNumbers DEF BreakerHolds, Kept
    <3> QED
      BY <1>1, <1>4, <2>2, <3>1, FS_EmptySet DEF BreakerHolds
  <2> QED
    BY <1>4, <2>1, <2>2, CapNumbers DEF Verdict
<1>5. CASE told.reason = "window"
  BY <1>1, <1>3, <1>5, CapNumbers DEF WindowHolds, Verdict
<1>6. CASE told.reason = "cooldown"
  <2>1. \A t \in Same(told.action, told.agent) : t \in Nat
    BY KeptIsFinite DEF Same, CapsInv
  <2> QED
    BY <1>1, <1>2, <1>6, <2>1, CapNumbers DEF CooldownHolds, Verdict
<1> QED
  BY <1>1, <1>4, <1>5, <1>6

\* The caps' own steps, from their start, without what they share no state with.
CapSpec == CapInit /\ [][CapNext]_capVars

\* For all caps, windows and cooldowns, an action's no longer than the window and
\* the breaker's no shorter: the time a refusal names is the right one, whatever
\* others check meanwhile (shared/src/gatekeeper.ts, checkRateCap).
THEOREM RetryTimesHold == CapSpec => []RetryTimesAreExact
BY CapsInductive, ToldIsExact, PTL DEF CapSpec

-----------------------------------------------------------------------------
(* Their composition.                                                      *)

LEMMA FollowsOverrides == FairSpec => OverrideSpec
<1>1. Init => OverrideInit
  BY DEF Init
<1>2. [Next]_vars => [OverrideNext]_overrideVars
  BY DEF Next, vars
<1> QED
  BY <1>1, <1>2, PTL DEF FairSpec, OverrideSpec

LEMMA FollowsMcp == FairSpec => McpSpec
<1>1. Init => McpInit
  BY DEF Init
<1>2. [Next]_vars => [McpNext]_mcpVars
  BY DEF Next, vars
<1> QED
  BY <1>1, <1>2, PTL DEF FairSpec, McpSpec

LEMMA FollowsCaps == FairSpec => CapSpec
<1>1. Init => CapInit
  BY DEF Init
<1>2. [Next]_vars => [CapNext]_capVars
  BY DEF Next, vars
<1> QED
  BY <1>1, <1>2, PTL DEF FairSpec, CapSpec

\* In every instance of the services, restrictions are in force as asked, changes
\* by the operator are on record and refusals of the caps name the exact time
\* (gatekeeper/src/actions.ts, mcp-server/src/tools.ts, shared/src/gatekeeper.ts).
THEOREM ServicesKeepTheirWord ==
  FairSpec => [](InForceAsAsked /\ ChangesAreOnRecord /\ RetryTimesAreExact)
BY FollowsOverrides, FollowsMcp, FollowsCaps, InForceHolds, ChangesAreRecorded,
   RetryTimesHold, PTL
=============================================================================
