--------------------------- MODULE RateLimitProofs ---------------------------
(***************************************************************************)
(* The sliding-window limiter keeps its limit and its promise, for every   *)
(* limit, window and set of keys.  The argument is one about positions: a  *)
(* hit that still counts is in its bucket, hits are in the order of their  *)
(* times, so if the hit Max places back still counted, so would all Max    *)
(* of them, and the next request would have been refused.                  *)
(***************************************************************************)
EXTENDS RateLimit, FiniteSetTheorems, TLAPS

\* The strengthening: hits are in the order of their times, ...
InOrder ==
  \A k \in Keys : \A i, j \in DOMAIN accepted[k] :
    accepted[k][i] <= now /\ (i <= j => accepted[k][i] <= accepted[k][j])

\* ... no hit that counts is missing from its bucket, ...
KeptWhileFresh ==
  \A k \in Keys : \A i \in DOMAIN accepted[k] :
    now - accepted[k][i] < Window => i \in bucket[k]

\* ... and a refusal named a hit among the last Max of its key.
PromisesAreRecent ==
  \A k \in Keys :
    back[k] # 0 => \E o \in DOMAIN accepted[k] :
                     back[k] = accepted[k][o] + Window /\ o + Max > Len(accepted[k])

RateInv ==
  RateTypeOK /\ InOrder /\ KeptWhileFresh /\ PromisesAreRecent /\ AtMostMaxPerWindow

-----------------------------------------------------------------------------
\* What a bucket holds and what counts of it are finite sets of positions.
LEMMA FreshIsFinite ==
  ASSUME RateTypeOK, NEW k \in Keys
  PROVE  /\ Len(accepted[k]) \in Nat
         /\ DOMAIN accepted[k] = 1 .. Len(accepted[k])
         /\ Fresh(k) \subseteq 1 .. Len(accepted[k])
         /\ IsFiniteSet(Fresh(k))
         /\ Cardinality(Fresh(k)) \in Nat
<1>1. accepted[k] \in Seq(Nat)
  BY DEF RateTypeOK
<1>2. Len(accepted[k]) \in Nat /\ DOMAIN accepted[k] = 1 .. Len(accepted[k])
  BY <1>1
<1>3. Fresh(k) \subseteq 1 .. Len(accepted[k])
  BY <1>2 DEF Fresh, RateTypeOK
<1>4. IsFiniteSet(1 .. Len(accepted[k]))
  BY <1>2, FS_Interval
<1>5. IsFiniteSet(Fresh(k))
  BY <1>3, <1>4, FS_Subset
<1>6. Cardinality(Fresh(k)) \in Nat
  BY <1>5, FS_CardinalityType
<1> QED
  BY <1>2, <1>3, <1>5, <1>6

\* If the hit at position i still counts, so do all later ones.
LEMMA LaterHitsCount ==
  ASSUME RateTypeOK, InOrder, KeptWhileFresh, NEW k \in Keys,
         NEW i \in DOMAIN accepted[k], accepted[k][i] + Window > now
  PROVE  Cardinality(Fresh(k)) >= Len(accepted[k]) - i + 1
<1> DEFINE n == Len(accepted[k])
<1>1. n \in Nat /\ DOMAIN accepted[k] = 1 .. n /\ IsFiniteSet(Fresh(k))
      /\ Cardinality(Fresh(k)) \in Nat
  BY FreshIsFinite
<1>2. now \in Nat /\ Window \in Nat /\ accepted[k] \in Seq(Nat)
  BY RateAssumption DEF RateTypeOK
<1>3. \A j \in i .. n : j \in Fresh(k)
  <2> TAKE j \in i .. n
  <2>1. j \in DOMAIN accepted[k] /\ i <= j
    BY <1>1
  <2>2. accepted[k][i] \in Nat /\ accepted[k][j] \in Nat
    BY <1>1, <1>2, <2>1
  <2>3. accepted[k][i] <= accepted[k][j] /\ accepted[k][j] <= now
    BY <2>1 DEF InOrder
  <2>4. now - accepted[k][j] < Window
    BY <1>2, <2>2, <2>3
  <2> QED
    BY <2>1, <2>4 DEF KeptWhileFresh, Fresh
<1>4. i .. n \subseteq Fresh(k)
  BY <1>3
<1>5. Cardinality(i .. n) <= Cardinality(Fresh(k))
  BY <1>1, <1>4, FS_Subset
<1>6. i \in Int /\ n \in Int /\ ~(i > n)
  BY <1>1
<1>7. Cardinality(i .. n) = n - i + 1
  BY <1>6, FS_Interval
<1> QED
  BY <1>1, <1>5, <1>7

-----------------------------------------------------------------------------
LEMMA InitRate == RateInit => RateInv
  BY RateAssumption DEF RateInit, RateInv, RateTypeOK, InOrder, KeptWhileFresh,
                        PromisesAreRecent, AtMostMaxPerWindow

LEMMA TimePasses == RateInv /\ PassTime => RateInv'
<1> SUFFICES ASSUME RateInv, PassTime PROVE RateInv'
  OBVIOUS
<1> USE RateAssumption DEF RateInv, PassTime
<1>1. RateTypeOK'
  BY DEF RateTypeOK
<1>2. \A k \in Keys : \A i \in DOMAIN accepted[k] : accepted[k][i] \in Nat
  BY DEF RateTypeOK
<1>3. InOrder'
  BY <1>2 DEF InOrder, RateTypeOK
<1>4. KeptWhileFresh'
  BY <1>2 DEF KeptWhileFresh, RateTypeOK
<1>5. PromisesAreRecent' /\ AtMostMaxPerWindow'
  BY DEF PromisesAreRecent, AtMostMaxPerWindow
<1> QED
  BY <1>1, <1>3, <1>4, <1>5

\* A request that is let through.
LEMMA AdmitKeeps ==
  ASSUME RateInv, NEW k \in Keys, Admit(k)
  PROVE  RateInv'
<1> DEFINE n == Len(accepted[k])
<1>1. n \in Nat /\ DOMAIN accepted[k] = 1 .. n /\ Fresh(k) \subseteq 1 .. n
      /\ Cardinality(Fresh(k)) \in Nat
  BY FreshIsFinite DEF RateInv
<1>2. now \in Nat /\ accepted[k] \in Seq(Nat) /\ now' = now
  BY DEF RateInv, RateTypeOK, Admit
<1>3. accepted'[k] = Append(accepted[k], now)
  BY DEF Admit, RateInv, RateTypeOK
<1>4. /\ accepted'[k] \in Seq(Nat)
      /\ Len(accepted'[k]) = n + 1
      /\ DOMAIN accepted'[k] = 1 .. n + 1
      /\ accepted'[k][n + 1] = now
      /\ \A i \in 1 .. n : accepted'[k][i] = accepted[k][i]
  BY <1>1, <1>2, <1>3
<1>5. bucket'[k] = Fresh(k) \cup {n + 1} /\ back'[k] = 0
  BY DEF Admit, RateInv, RateTypeOK
<1>6. \A q \in Keys \ {k} : accepted'[q] = accepted[q] /\ bucket'[q] = bucket[q]
                            /\ back'[q] = back[q]
  BY DEF Admit, RateInv, RateTypeOK
<1>7. RateTypeOK'
  <2>1. bucket' \in [Keys -> SUBSET (Nat \ {0})]
    BY <1>1 DEF Admit, RateInv, RateTypeOK
  <2>2. accepted' \in [Keys -> Seq(Nat)] /\ back' \in [Keys -> Nat]
    BY <1>2, <1>3 DEF Admit, RateInv, RateTypeOK
  <2>3. bucket'[k] \subseteq DOMAIN accepted'[k]
    BY <1>1, <1>4, <1>5
  <2>4. \A q \in Keys : bucket'[q] \subseteq DOMAIN accepted'[q]
    <3> TAKE q \in Keys
    <3>1. CASE q = k
      BY <2>3, <3>1
    <3>2. CASE q # k
      BY <1>6, <3>2 DEF RateInv, RateTypeOK
    <3> QED
      BY <3>1, <3>2
  <2> QED
    BY <1>2, <2>1, <2>2, <2>4 DEF RateTypeOK
<1>8. InOrder'
  <2>1. ASSUME NEW i \in DOMAIN accepted'[k], NEW j \in DOMAIN accepted'[k]
        PROVE  accepted'[k][i] <= now /\ (i <= j => accepted'[k][i] <= accepted'[k][j])
    <3>1. \A h \in 1 .. n : accepted[k][h] \in Nat /\ accepted[k][h] <= now
      BY <1>1, <1>2 DEF RateInv, InOrder
    <3>2. CASE i \in 1 .. n /\ j \in 1 .. n
      BY <1>1, <1>4, <3>1, <3>2 DEF RateInv, InOrder
    <3>3. CASE j = n + 1
      <4>1. accepted'[k][j] = now
        BY <1>4, <3>3
      <4>2. accepted'[k][i] <= now
        <5>1. CASE i \in 1 .. n
          BY <1>4, <3>1, <5>1
        <5>2. CASE i = n + 1
          BY <1>2, <1>4, <5>2
        <5> QED
          BY <1>1, <1>4, <2>1, <5>1, <5>2
      <4> QED
        BY <4>1, <4>2
    <3>4. CASE i = n + 1 /\ j \in 1 .. n
      BY <1>1, <1>2, <1>4, <3>4
    <3> QED
      BY <1>1, <1>4, <2>1, <3>2, <3>3, <3>4
  <2> QED
    BY <1>2, <1>6, <2>1 DEF RateInv, InOrder
<1>9. KeptWhileFresh'
  <2>1. ASSUME NEW i \in DOMAIN accepted'[k], now - accepted'[k][i] < Window
        PROVE  i \in bucket'[k]
    <3>1. CASE i \in 1 .. n
      <4>1. now - accepted[k][i] < Window
        BY <1>4, <2>1, <3>1
      <4>2. i \in bucket[k]
        BY <1>1, <3>1, <4>1 DEF RateInv, KeptWhileFresh
      <4> QED
        BY <1>5, <4>1, <4>2 DEF Fresh
    <3>2. CASE i = n + 1
      BY <1>5, <3>2
    <3> QED
      BY <1>1, <1>4, <2>1, <3>1, <3>2
  <2> QED
    BY <1>2, <1>6, <2>1 DEF RateInv, KeptWhileFresh
<1>10. PromisesAreRecent'
  BY <1>5, <1>6 DEF RateInv, PromisesAreRecent
<1>11. AtMostMaxPerWindow'
  <2>1. ASSUME NEW i \in DOMAIN accepted'[k], i + Max \in DOMAIN accepted'[k]
        PROVE  accepted'[k][i + Max] >= accepted'[k][i] + Window
    <3>1. i \in 1 .. n /\ Max \in Nat \ {0} /\ Window \in Nat
      BY <1>1, <1>4, <2>1, RateAssumption
    <3>2. CASE i + Max \in 1 .. n
      BY <1>1, <1>4, <3>1, <3>2 DEF RateInv, AtMostMaxPerWindow
    <3>3. CASE i + Max = n + 1
      <4>1. accepted'[k][i + Max] = now
        BY <1>4, <3>3
      <4>2. accepted'[k][i] = accepted[k][i]
        BY <1>4, <3>1
      <4>3. accepted[k][i] \in Nat
        BY <1>1, <1>2, <3>1
      <4>4. SUFFICES ASSUME accepted[k][i] + Window > now PROVE FALSE
        BY <1>2, <3>1, <4>1, <4>2, <4>3
      <4>5. Cardinality(Fresh(k)) >= n - i + 1
        BY <1>1, <3>1, <4>4, LaterHitsCount DEF RateInv
      <4> QED
        BY <1>1, <3>1, <3>3, <4>5, RateAssumption DEF Admit
    <3> QED
      BY <1>1, <1>4, <2>1, <3>1, <3>2, <3>3
  <2> QED
    BY <1>6, <2>1 DEF RateInv, AtMostMaxPerWindow
<1> QED
  BY <1>7, <1>8, <1>9, <1>10, <1>11 DEF RateInv

\* A request that is refused.
LEMMA RefuseKeeps ==
  ASSUME RateInv, NEW k \in Keys, Refuse(k)
  PROVE  RateInv'
<1> DEFINE n == Len(accepted[k])
           o == Oldest(Fresh(k))
<1>1. n \in Nat /\ DOMAIN accepted[k] = 1 .. n /\ Fresh(k) \subseteq 1 .. n
      /\ IsFiniteSet(Fresh(k)) /\ Cardinality(Fresh(k)) \in Nat
  BY FreshIsFinite DEF RateInv
<1>2. now \in Nat /\ Window \in Nat /\ Max \in Nat \ {0} /\ accepted[k] \in Seq(Nat)
  BY RateAssumption DEF RateInv, RateTypeOK
<1>3. UNCHANGED <<now, accepted>>
  BY DEF Refuse
<1>5. o \in Fresh(k)
  <2> DEFINE c == Cardinality(Fresh(k))
             m == n - c + 1
  <2>1. c \in Nat \ {0}
    BY <1>1, <1>2 DEF Refuse
  <2>2. ASSUME NEW j \in Fresh(k) PROVE j \in m .. n
    <3>1. j \in 1 .. n /\ accepted[k][j] \in Nat /\ now - accepted[k][j] < Window
      BY <1>1, <1>2 DEF Fresh
    <3>2. accepted[k][j] + Window > now
      BY <1>2, <3>1
    <3>3. c >= n - j + 1
      BY <1>1, <3>1, <3>2, LaterHitsCount DEF RateInv
    <3> QED
      BY <1>1, <2>1, <3>1, <3>3
  <2>3. m \in Int /\ n \in Int /\ ~(m > n)
    BY <1>1, <2>1
  <2>4. IsFiniteSet(m .. n) /\ Cardinality(m .. n) = n - m + 1
    BY <2>3, FS_Interval
  <2>5. Cardinality(m .. n) = c
    BY <1>1, <2>1, <2>4
  <2>6. Fresh(k) = m .. n
    BY <2>2, <2>4, <2>5, FS_Subset
  <2>7. m \in Fresh(k) /\ \A j \in Fresh(k) : m <= j
    BY <2>3, <2>6
  <2> QED
    BY <2>7 DEF Oldest
<1>6. o \in 1 .. n /\ accepted[k][o] + Window > now /\ accepted[k][o] \in Nat
  <2>1. o \in 1 .. n /\ now - accepted[k][o] < Window
    BY <1>1, <1>5 DEF Fresh
  <2>2. accepted[k][o] \in Nat
    BY <1>1, <1>2, <2>1
  <2> QED
    BY <1>2, <2>1, <2>2
<1>7. o + Max > n
  <2>1. SUFFICES ASSUME o + Max <= n PROVE FALSE
    BY <1>1, <1>2, <1>6
  <2>2. o + Max \in DOMAIN accepted[k]
    BY <1>1, <1>2, <1>6, <2>1
  <2>3. accepted[k][o + Max] >= accepted[k][o] + Window
    BY <1>1, <1>6, <2>2 DEF RateInv, AtMostMaxPerWindow
  <2>4. accepted[k][o + Max] <= now /\ accepted[k][o + Max] \in Nat
    BY <1>2, <2>2 DEF RateInv, InOrder
  <2>5. \A a, b, t, w \in Nat : b >= a + w /\ b <= t => ~(a + w > t)
    OBVIOUS
  <2> QED
    BY <1>2, <1>6, <2>3, <2>4, <2>5
<1>8. back'[k] = accepted[k][o] + Window /\ \A q \in Keys \ {k} : back'[q] = back[q]
  BY DEF Refuse, RateInv, RateTypeOK
<1>9. \A q \in Keys : bucket'[q] = bucket[q] \/ (q = k /\ bucket'[q] = Fresh(k))
  BY DEF Refuse, RateInv, RateTypeOK
<1>10. RateTypeOK'
  <2>1. bucket' \in [Keys -> SUBSET (Nat \ {0})]
    <3>1. CASE bucket' = [bucket EXCEPT ![k] = Fresh(k)]
      BY <1>1, <3>1 DEF RateInv, RateTypeOK
    <3>2. CASE UNCHANGED bucket
      BY <3>2 DEF RateInv, RateTypeOK
    <3> QED
      BY <3>1, <3>2 DEF Refuse
  <2>2. back' \in [Keys -> Nat]
    BY <1>2, <1>6 DEF Refuse, RateInv, RateTypeOK
  <2> QED
    BY <1>1, <1>3, <1>9, <2>1, <2>2 DEF RateInv, RateTypeOK
<1>11. KeptWhileFresh'
  BY <1>1, <1>3, <1>9 DEF RateInv, KeptWhileFresh, Fresh
<1>12. PromisesAreRecent'
  BY <1>1, <1>3, <1>6, <1>7, <1>8 DEF RateInv, PromisesAreRecent
<1>13. InOrder' /\ AtMostMaxPerWindow'
  BY <1>3 DEF RateInv, InOrder, AtMostMaxPerWindow
<1> QED
  BY <1>10, <1>11, <1>12, <1>13 DEF RateInv

\* Every step of the limiter keeps the invariant.
LEMMA StepRate == RateInv /\ [RateNext]_rateVars => RateInv'
<1> SUFFICES ASSUME RateInv, [RateNext]_rateVars PROVE RateInv'
  OBVIOUS
<1>1. CASE UNCHANGED rateVars
  BY <1>1 DEF rateVars, RateInv, RateTypeOK, InOrder, KeptWhileFresh, PromisesAreRecent,
              AtMostMaxPerWindow
<1>2. CASE RateNext
  BY <1>2, TimePasses, AdmitKeeps, RefuseKeeps DEF RateNext
<1> QED
  BY <1>1, <1>2

\* Hits promised to be over by now leave room: what counts lies behind the hit
\* named, and fewer than Max positions do.
LEMMA PromiseLeavesRoom == RateInv => RoomWhenPromised
<1> SUFFICES ASSUME RateInv, NEW k \in Keys, back[k] # 0, now >= back[k]
             PROVE  Cardinality(Fresh(k)) < Max
  BY DEF RoomWhenPromised
<1> DEFINE n == Len(accepted[k])
<1>1. n \in Nat /\ DOMAIN accepted[k] = 1 .. n /\ Fresh(k) \subseteq 1 .. n
      /\ Cardinality(Fresh(k)) \in Nat
  BY FreshIsFinite DEF RateInv
<1>2. now \in Nat /\ Window \in Nat /\ Max \in Nat \ {0} /\ accepted[k] \in Seq(Nat)
  BY RateAssumption DEF RateInv, RateTypeOK
<1>3. PICK o \in DOMAIN accepted[k] : back[k] = accepted[k][o] + Window /\ o + Max > n
  BY DEF RateInv, PromisesAreRecent
<1>4. o \in 1 .. n /\ accepted[k][o] \in Nat
  BY <1>1, <1>2, <1>3
<1>5. ASSUME NEW j \in Fresh(k) PROVE j \in o + 1 .. n
  <2>1. j \in 1 .. n /\ accepted[k][j] \in Nat /\ now - accepted[k][j] < Window
    BY <1>1, <1>2, <1>5 DEF Fresh
  <2>2. accepted[k][j] > accepted[k][o]
    <3>1. now >= accepted[k][o] + Window
      BY <1>3
    <3>2. \A a, b, t, w \in Nat : t >= a + w /\ t - b < w => b > a
      OBVIOUS
    <3> QED
      BY <1>2, <1>4, <2>1, <3>1, <3>2
  <2>3. ~(j <= o)
    BY <1>1, <1>4, <2>1, <2>2 DEF RateInv, InOrder
  <2> QED
    BY <1>1, <1>4, <2>1, <2>3
<1>6. IsFiniteSet(o + 1 .. n) /\ Cardinality(o + 1 .. n) = n - o
  <2>1. o + 1 \in Int /\ n \in Int
    BY <1>1, <1>4
  <2>2. /\ IsFiniteSet(o + 1 .. n)
        /\ Cardinality(o + 1 .. n) = IF o + 1 > n THEN 0 ELSE n - (o + 1) + 1
    BY <2>1, FS_Interval
  <2> QED
    BY <1>1, <1>4, <2>2
<1>7. Cardinality(Fresh(k)) <= n - o
  BY <1>5, <1>6, FS_Subset
<1> QED
  BY <1>1, <1>2, <1>3, <1>4, <1>7

-----------------------------------------------------------------------------
\* However requests are spread, at most Max of a key are let through in any
\* stretch shorter than the window.
THEOREM LimitHolds == RateSpec => []AtMostMaxPerWindow
<1>1. RateInv => AtMostMaxPerWindow
  BY DEF RateInv
<1> QED
  BY <1>1, InitRate, StepRate, PTL DEF RateSpec

\* A key that comes back when it was told to finds room.
THEOREM PromiseHolds == RateSpec => []RoomWhenPromised
  BY InitRate, StepRate, PromiseLeavesRoom, PTL DEF RateSpec

-----------------------------------------------------------------------------
(* How many there are: the bound on the clock bounds the hits.             *)

HitsFit ==
  /\ now <= LastTick
  /\ \A k \in Keys : \A i \in DOMAIN accepted[k] : i <= Max * (accepted[k][i] + 1)

LEMMA TimesMax ==
  ASSUME NEW a \in Nat, NEW b \in Nat, a <= b
  PROVE  Max * a <= Max * b /\ Max * (b + 1) = Max * b + Max /\ Max * b \in Nat
<1>1. Max \in Nat
  BY RateAssumption
<1>2. PICK d \in Nat : b = a + d
  <2>1. b - a \in Nat /\ b = a + (b - a)
    OBVIOUS
  <2> QED
    BY <2>1
<1>3. Max * b = Max * a + Max * d /\ Max * d \in Nat /\ Max * a \in Nat
  BY <1>1, <1>2
<1> QED
  BY <1>1, <1>3

\* The hit let through comes a window, and so a tick, after the one Max before.
LEMMA AdmitFits ==
  ASSUME RateInv, RateInv', HitsFit, NEW k \in Keys, Admit(k)
  PROVE  HitsFit'
<1> DEFINE n == Len(accepted[k])
<1>1. now \in Nat /\ now' = now /\ accepted[k] \in Seq(Nat)
      /\ Max \in Nat \ {0} /\ Window \in Nat \ {0}
  BY RateAssumption DEF RateInv, RateTypeOK, Admit
<1>2. accepted'[k] = Append(accepted[k], now)
      /\ \A q \in Keys \ {k} : accepted'[q] = accepted[q]
  BY DEF Admit, RateInv, RateTypeOK
<1>3. /\ n \in Nat /\ DOMAIN accepted[k] = 1 .. n /\ DOMAIN accepted'[k] = 1 .. n + 1
      /\ accepted'[k][n + 1] = now
      /\ \A i \in 1 .. n : accepted'[k][i] = accepted[k][i] /\ accepted[k][i] \in Nat
  BY <1>1, <1>2
<1>4. n + 1 <= Max * (now + 1)
  <2>1. CASE n + 1 <= Max
    <3>1. Max * (0 + 1) <= Max * (now + 1)
      BY <1>1, TimesMax
    <3>2. Max * (0 + 1) = Max
      BY <1>1
    <3>3. Max * (now + 1) \in Nat
      BY <1>1, TimesMax
    <3> QED
      BY <1>1, <1>3, <2>1, <3>1, <3>2, <3>3
  <2>2. CASE ~(n + 1 <= Max)
    <3> DEFINE j == n + 1 - Max
    <3>1. j \in 1 .. n /\ j + Max = n + 1
      BY <1>1, <1>3, <2>2
    <3>2. now >= accepted[k][j] + Window
      <4>1. j \in DOMAIN accepted'[k] /\ j + Max \in DOMAIN accepted'[k]
        BY <1>3, <3>1
      <4>2. accepted'[k][j + Max] >= accepted'[k][j] + Window
        BY <4>1 DEF RateInv, AtMostMaxPerWindow
      <4> QED
        BY <1>3, <3>1, <4>2
    <3>3. accepted[k][j] \in Nat /\ j <= Max * (accepted[k][j] + 1)
      BY <1>3, <3>1 DEF HitsFit
    <3>4. PICK a \in Nat : a = accepted[k][j]
      BY <3>3
    <3>5. a + 1 \in Nat /\ a + 1 <= now
      BY <1>1, <3>2, <3>4
    <3>6. /\ Max * (a + 1) <= Max * now
          /\ Max * (now + 1) = Max * now + Max
          /\ Max * now \in Nat
      BY <1>1, <3>5, TimesMax
    <3>7. Max * (a + 1) \in Nat /\ j <= Max * (a + 1)
      <4>1. Max * (a + 1) \in Nat
        BY <1>1, <3>5
      <4> QED
        BY <3>3, <3>4, <4>1
    <3>8. j <= Max * now
      BY <3>1, <3>6, <3>7
    <3> QED
      BY <1>1, <1>3, <3>6, <3>8
  <2> QED
    BY <2>1, <2>2
<1>5. \A i \in DOMAIN accepted'[k] : i <= Max * (accepted'[k][i] + 1)
  <2> TAKE i \in DOMAIN accepted'[k]
  <2>1. CASE i = n + 1
    BY <1>3, <1>4, <2>1
  <2>2. CASE i \in 1 .. n
    BY <1>3, <2>2 DEF HitsFit
  <2> QED
    BY <1>3, <2>1, <2>2
<1> QED
  BY <1>1, <1>2, <1>5 DEF HitsFit

LEMMA HitsKeepFitting == RateInv /\ RateInv' /\ HitsFit /\ [RateNext]_rateVars => HitsFit'
<1> SUFFICES ASSUME RateInv, RateInv', HitsFit, [RateNext]_rateVars PROVE HitsFit'
  OBVIOUS
<1>1. CASE UNCHANGED rateVars
  BY <1>1 DEF rateVars, HitsFit
<1>2. CASE PassTime
  <2>1. now' <= LastTick /\ accepted' = accepted
    BY <1>2, RateAssumption DEF PassTime, RateInv, RateTypeOK
  <2> QED
    BY <2>1 DEF HitsFit
<1>3. ASSUME NEW k \in Keys, Refuse(k) PROVE HitsFit'
  BY <1>3 DEF Refuse, HitsFit
<1> QED
  BY <1>1, <1>2, <1>3, AdmitFits DEF RateNext

\* No key has more than Max hits a tick, all told: the positions that signing
\* in bounds are all there are.
THEOREM HitsAreFew ==
  RateSpec => [](\A k \in Keys : DOMAIN accepted[k] \subseteq 1 .. Max * (LastTick + 1))
<1>1. RateInit => RateInv /\ HitsFit
  BY InitRate, RateAssumption DEF RateInit, HitsFit
<1>2. RateInv /\ HitsFit =>
        \A k \in Keys : DOMAIN accepted[k] \subseteq 1 .. Max * (LastTick + 1)
  <2> SUFFICES ASSUME RateInv, HitsFit, NEW k \in Keys, NEW i \in DOMAIN accepted[k]
               PROVE  i \in 1 .. Max * (LastTick + 1)
    OBVIOUS
  <2>1. i \in Nat \ {0} /\ accepted[k][i] \in Nat
    BY DEF RateInv, RateTypeOK
  <2>2. accepted[k][i] + 1 \in Nat /\ LastTick + 1 \in Nat
        /\ accepted[k][i] + 1 <= LastTick + 1
    BY <2>1, RateAssumption DEF RateInv, RateTypeOK, InOrder, HitsFit
  <2>3. Max * (accepted[k][i] + 1) <= Max * (LastTick + 1)
        /\ Max * (LastTick + 1) \in Nat /\ Max * (accepted[k][i] + 1) \in Nat
    BY <2>2, TimesMax
  <2>4. i <= Max * (accepted[k][i] + 1)
    BY DEF HitsFit
  <2> QED
    BY <2>1, <2>3, <2>4
<1> QED
  BY <1>1, <1>2, StepRate, HitsKeepFitting, PTL DEF RateSpec
=============================================================================
