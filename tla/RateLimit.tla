----------------------------- MODULE RateLimit -----------------------------
(***************************************************************************)
(* The sliding-window limiter that the system has three times: for API     *)
(* clients (shared/src/rate-limit.ts), for requests of sign-in codes       *)
(* (dashboard/src/auth.ts) and for management calls (mcp-server).  Check   *)
(* and record have no await between them, so a request is one step.        *)
(*                                                                         *)
(* A hit is known by its position in the history of its key, accepted; a   *)
(* bucket is the set of the hits it still holds.  The clock is the host's  *)
(* and is taken to run forward.                                            *)
(***************************************************************************)
EXTENDS Naturals, Sequences, FiniteSets

CONSTANTS
  Keys,      \* clients, emails or actors
  Max,       \* requests a key has per window
  Window,    \* windowMs, in ticks
  LastTick   \* bound: the last tick of the clock

ASSUME RateAssumption ==
  /\ Max \in Nat \ {0}
  /\ Window \in Nat \ {0}
  /\ LastTick \in Nat

VARIABLES
  now,       \* Date.now()
  accepted,  \* history: accepted[k], the times at which requests of k were let through
  bucket,    \* bucket[k]: the positions in accepted[k] of the hits kept for k
  back       \* back[k]: when k was told to come back by its last refusal, 0 if by none

rateVars == <<now, accepted, bucket, back>>

RateTypeOK ==
  /\ now \in Nat
  /\ accepted \in [Keys -> Seq(Nat)]
  /\ bucket \in [Keys -> SUBSET (Nat \ {0})]
  /\ \A k \in Keys : bucket[k] \subseteq DOMAIN accepted[k]
  /\ back \in [Keys -> Nat]

RateInit ==
  /\ now = 0
  /\ accepted = [k \in Keys |-> <<>>]
  /\ bucket = [k \in Keys |-> {}]
  /\ back = [k \in Keys |-> 0]

\* A slip the runs must notice: a hit is dropped one tick early.
FreshTooShort(k) == {i \in bucket[k] : now - accepted[k][i] < Window - 1}

\* A slip the runs must notice: a hit is dropped one tick late.
FreshTooLong(k) == {i \in bucket[k] : now - accepted[k][i] <= Window}

\* The hits of k that still count.
Fresh(k) == {i \in bucket[k] : now - accepted[k][i] < Window}

Oldest(S) == CHOOSE i \in S : \A j \in S : i <= j

Admit(k) ==
  /\ Cardinality(Fresh(k)) < Max
  /\ accepted' = [accepted EXCEPT ![k] = Append(@, now)]
  /\ bucket' = [bucket EXCEPT ![k] = Fresh(k) \cup {Len(accepted[k]) + 1}]
  /\ back' = [back EXCEPT ![k] = 0]
  /\ UNCHANGED now

\* The limiter of management calls leaves the bucket as it was.
Refuse(k) ==
  /\ Cardinality(Fresh(k)) >= Max
  /\ bucket' = [bucket EXCEPT ![k] = Fresh(k)] \/ UNCHANGED bucket
  /\ back' = [back EXCEPT ![k] = accepted[k][Oldest(Fresh(k))] + Window]
  /\ UNCHANGED <<now, accepted>>

PassTime ==
  /\ now < LastTick
  /\ now' = now + 1
  /\ UNCHANGED <<accepted, bucket, back>>

RateNext == PassTime \/ \E k \in Keys : Admit(k) \/ Refuse(k)

RateSpec == RateInit /\ [][RateNext]_rateVars

-----------------------------------------------------------------------------
(* Properties.                                                             *)

\* However requests are spread over time, no stretch shorter than the window
\* ever sees more than Max requests of a key let through: the one that comes
\* Max after another is at least a window later.
AtMostMaxPerWindow ==
  \A k \in Keys : \A i \in DOMAIN accepted[k] :
    i + Max \in DOMAIN accepted[k] => accepted[k][i + Max] >= accepted[k][i] + Window

\* A key that stays away until the time its refusal named finds room.
RoomWhenPromised ==
  \A k \in Keys : back[k] # 0 /\ now >= back[k] => Cardinality(Fresh(k)) < Max
=============================================================================
