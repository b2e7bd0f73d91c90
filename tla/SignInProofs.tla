----------------------------- MODULE SignInProofs -----------------------------
(***************************************************************************)
(* Signing in, for every number of emails, sign-ons and attempts: requests *)
(* of codes keep to the limiter, guesses at a code stay within its         *)
(* attempts, a code or a single sign-on opens one session at most, who has *)
(* signed out stays out, and a sign-on begun at /oidc/login is honoured.   *)
(* Each is an argument about what may still happen to a code (it is not    *)
(* requested yet, on its way, stored, or gone) and to a sign-on (not       *)
(* begun, stored, held by one callback, or gone).                          *)
(***************************************************************************)
EXTENDS SignIn, RateLimitProofs

-----------------------------------------------------------------------------
(* The limiter.                                                            *)

LEMMA NextLimits == Next => [RateNext]_rateVars
<1> SUFFICES ASSUME Next PROVE [RateNext]_rateVars
  OBVIOUS
<1>1. ASSUME NEW k \in Keys, RequestOtp(k) PROVE RateNext
  BY <1>1 DEF RequestOtp, RateNext
<1>2. CASE Clock
  BY <1>2 DEF Clock, RateNext
<1>3. ASSUME NEW k \in Keys, NEW g \in 0 .. Len(accepted[k]), Verify(k, g)
      PROVE  UNCHANGED rateVars
  BY <1>3 DEF Verify
<1>4. ASSUME NEW c \in sending, Delivered(c) PROVE UNCHANGED rateVars
  BY <1>4 DEF Delivered
<1>5. ASSUME NEW s \in Starts, BeginAtLogin(s) \/ BeginAtButton(s) \/ Forget(s)
      PROVE  UNCHANGED rateVars
  BY <1>5 DEF BeginAtLogin, BeginAtButton, Forget
<1>6. ASSUME NEW v \in Visits, NEW s \in Starts, Callback(v, s) PROVE UNCHANGED rateVars
  BY <1>6 DEF Callback
<1>7. ASSUME NEW v \in Visits, Exchanged(v) \/ Named(v) PROVE UNCHANGED rateVars
  BY <1>7 DEF Exchanged, Named
<1>8. ASSUME NEW x \in sessions, Visited(x) \/ Logout(x) \/ OidcLogout(x)
      PROVE  UNCHANGED rateVars
  BY <1>8 DEF Visited, Logout, OidcLogout
<1>9. ASSUME NEW id \in leaving, LoggedOut(id) PROVE UNCHANGED rateVars
  BY <1>9 DEF LoggedOut
<1> QED
  BY <1>1, <1>2, <1>3, <1>4, <1>5, <1>6, <1>7, <1>8, <1>9 DEF Next

\* Requests of codes go through the limiter and nothing else touches it.
THEOREM SignInLimits == Spec => RateSpec
<1>1. Init => RateInit
  BY DEF Init
<1>2. [Next]_vars => [RateNext]_rateVars
  BY NextLimits DEF vars
<1> QED
  BY <1>1, <1>2, PTL DEF Spec, RateSpec

\* Nobody makes the dashboard send more than Max codes in a window, and who
\* waits as told gets one.
THEOREM CodesAreLimited == Spec => [](AtMostMaxPerWindow /\ RoomWhenPromised)
  BY SignInLimits, LimitHolds, PromiseHolds, PTL
-----------------------------------------------------------------------------
(* Codes.                                                                  *)

\* Nobody has guessed at code n of k, and it has opened nothing.
Untried(k, n) == n \in Positions => guesses[<<k, n>>] = 0 /\ opened[ByCode(k, n)] = 0

CodesTyped ==
  /\ now \in Nat /\ accepted \in [Keys -> Seq(Nat)]
  /\ sending \subseteq Keys \X (Nat \ {0})
  /\ otps \in [Keys -> [n : Nat, until : Nat, tries : 0 .. MaxAttempts]]
  /\ guesses \in [Codes -> Nat]
  /\ opened \in [Ids -> Nat]

\* A code is untried before it is requested, ...
NewCodesUntried == \A k \in Keys, n \in Nat : n > Len(accepted[k]) => Untried(k, n)

\* ... and while it is on its way, which it is once; ...
CodesOnTheirWay ==
  \A k \in Keys, n \in Nat :
    <<k, n>> \in sending => n <= Len(accepted[k]) /\ otps[k].n # n /\ Untried(k, n)

\* ... the attempts at a stored code count the guesses; ...
StoredCodesCounted ==
  \A k \in Keys :
    /\ otps[k].n <= Len(accepted[k])
    /\ otps[k].n \in Positions =>
         guesses[<<k, otps[k].n>>] <= otps[k].tries /\ opened[ByCode(k, otps[k].n)] = 0

\* ... and no code had more than it may have.
CodesSpentOnce ==
  \A k \in Keys, n \in Positions :
    guesses[<<k, n>>] <= MaxAttempts /\ opened[ByCode(k, n)] <= 1

CodesInv ==
  CodesTyped /\ NewCodesUntried /\ CodesOnTheirWay /\ StoredCodesCounted /\ CodesSpentOnce

LEMMA PositionsCount == Positions \subseteq Nat \ {0}
  BY DEF Positions

LEMMA IdsDiffer ==
  /\ \A k, n, j, m : ByCode(k, n) = ByCode(j, m) => k = j /\ n = m
  /\ \A s, t : BySso(s) = BySso(t) => s = t
  /\ \A k, n, s : ByCode(k, n) # BySso(s)
<1>1. ASSUME NEW k, NEW n, NEW j, NEW m, ByCode(k, n) = ByCode(j, m) PROVE k = j /\ n = m
  <2>1. ByCode(k, n).of = <<k, n>> /\ ByCode(j, m).of = <<j, m>>
    BY DEF ByCode
  <2> QED
    BY <1>1, <2>1
<1>2. ASSUME NEW s, NEW t, BySso(s) = BySso(t) PROVE s = t
  <2>1. BySso(s).of = <<s>> /\ BySso(t).of = <<t>>
    BY DEF BySso
  <2> QED
    BY <1>2, <2>1
<1>3. ASSUME NEW k, NEW n, NEW s PROVE ByCode(k, n) # BySso(s)
  <2>1. ByCode(k, n).by = "code" /\ BySso(s).by = "sso"
    BY DEF ByCode, BySso
  <2> QED
    BY <2>1
<1> QED
  BY <1>1, <1>2, <1>3

LEMMA IdsOfCodes ==
  ASSUME NEW k \in Keys, NEW n \in Positions
  PROVE  <<k, n>> \in Codes /\ ByCode(k, n) \in Ids
<1>1. <<k, n>> \in Codes
  BY DEF Codes
<1>2. ByCode(k, n) = ByCode(<<k, n>>[1], <<k, n>>[2])
  OBVIOUS
<1> QED
  BY <1>1, <1>2 DEF Ids

LEMMA CountUp ==
  ASSUME NEW S, NEW f \in [S -> Nat], NEW x
  PROVE  [f EXCEPT ![x] = @ + 1] \in [S -> Nat]
<1>1. \A y \in S : [f EXCEPT ![x] = @ + 1][y] \in Nat
  <2> TAKE y \in S
  <2>1. CASE y = x
    BY <2>1
  <2>2. CASE y # x
    BY <2>2
  <2> QED
    BY <2>1, <2>2
<1> QED
  BY <1>1

LEMMA InitCodes == Init => CodesInv
<1> SUFFICES ASSUME Init PROVE CodesInv
  OBVIOUS
<1>1. now = 0 /\ accepted = [k \in Keys |-> <<>>] /\ sending = {} /\ otps = [k \in Keys |-> None]
      /\ guesses = [c \in Codes |-> 0] /\ opened = [i \in Ids |-> 0]
  BY DEF Init, RateInit
<1>2. None \in [n : Nat, until : Nat, tries : 0 .. MaxAttempts] /\ None.n = 0
  BY SignInAssumption DEF None
<1>3. CodesTyped
  BY <1>1, <1>2 DEF CodesTyped
<1>4. \A k \in Keys, n \in Positions : guesses[<<k, n>>] = 0 /\ opened[ByCode(k, n)] = 0
  BY <1>1, IdsOfCodes
<1>5. \A k \in Keys : Len(accepted[k]) = 0 /\ otps[k].n = 0
  BY <1>1, <1>2
<1>6. 0 \notin Positions
  BY PositionsCount
<1>7. NewCodesUntried /\ CodesOnTheirWay
  BY <1>1, <1>4 DEF NewCodesUntried, CodesOnTheirWay, Untried
<1>8. StoredCodesCounted
  BY <1>5, <1>6 DEF StoredCodesCounted
<1>9. CodesSpentOnce
  <2> SUFFICES ASSUME NEW k \in Keys, NEW n \in Positions
               PROVE  guesses[<<k, n>>] <= MaxAttempts /\ opened[ByCode(k, n)] <= 1
    BY DEF CodesSpentOnce
  <2>1. guesses[<<k, n>>] = 0 /\ opened[ByCode(k, n)] = 0
    BY <1>4
  <2>2. MaxAttempts \in Nat
    BY SignInAssumption
  <2> QED
    BY <2>1, <2>2
<1> QED
  BY <1>3, <1>7, <1>8, <1>9 DEF CodesInv

\* Steps that have nothing to do with codes keep what is true of them.
LEMMA CodesFramed ==
  ASSUME CodesInv, UNCHANGED <<accepted, codeVars>>, now' \in Nat, opened' \in [Ids -> Nat],
         \A k \in Keys, n \in Positions : opened'[ByCode(k, n)] = opened[ByCode(k, n)]
  PROVE  CodesInv'
<1>1. UNCHANGED <<accepted, sending, otps, guesses>>
  BY DEF codeVars
<1>2. CodesTyped'
  BY <1>1 DEF CodesInv, CodesTyped
<1>3. \A k \in Keys, n \in Nat : Untried(k, n) => Untried(k, n)'
  BY <1>1 DEF Untried
<1>4. NewCodesUntried'
  BY <1>1, <1>3 DEF CodesInv, NewCodesUntried
<1>5. CodesOnTheirWay'
  BY <1>1, <1>3 DEF CodesInv, CodesOnTheirWay
<1>6. StoredCodesCounted'
  BY <1>1 DEF CodesInv, StoredCodesCounted
<1>7. CodesSpentOnce'
  BY <1>1 DEF CodesInv, CodesSpentOnce
<1> QED
  BY <1>2, <1>4, <1>5, <1>6, <1>7 DEF CodesInv

LEMMA RequestKeeps ==
  ASSUME CodesInv, NEW k \in Keys, RequestOtp(k)
  PROVE  CodesInv'
<1> DEFINE n == Len(accepted[k]) + 1
<1>0. UNCHANGED <<otps, guesses, opened, now>>
  BY DEF RequestOtp, sessionVars, Admit, Refuse
<1>1. CASE Refuse(k) /\ UNCHANGED sending
  <2>1. UNCHANGED <<accepted, codeVars>>
    BY <1>0, <1>1 DEF Refuse, codeVars
  <2> QED
    BY <1>0, <2>1, CodesFramed DEF CodesInv, CodesTyped
<1>2. CASE Admit(k) /\ sending' = sending \cup {<<k, n>>}
  <2>1. accepted \in [Keys -> Seq(Nat)] /\ now \in Nat
    BY DEF CodesInv, CodesTyped
  <2>2. accepted' = [accepted EXCEPT ![k] = Append(@, now)]
    BY <1>2 DEF Admit
  <2>3. accepted' \in [Keys -> Seq(Nat)]
    BY <2>1, <2>2
  <2>4. Len(accepted[k]) \in Nat /\ Len(accepted'[k]) = n
        /\ \A q \in Keys \ {k} : accepted'[q] = accepted[q]
    BY <2>1, <2>2
  <2>5. \A q \in Keys : Len(accepted[q]) \in Nat
    BY <2>1
  <2>6. \A q \in Keys : Len(accepted'[q]) \in Nat /\ Len(accepted[q]) <= Len(accepted'[q])
    <3> TAKE q \in Keys
    <3>1. CASE q = k
      BY <2>4, <3>1
    <3>2. CASE q # k
      BY <2>4, <2>5, <3>2
    <3> QED
      BY <3>1, <3>2
  <2>7. CodesTyped'
    BY <1>0, <1>2, <2>1, <2>3, <2>4 DEF CodesInv, CodesTyped
  <2>8. \A q \in Keys, m \in Nat : Untried(q, m)' = Untried(q, m)
    BY <1>0 DEF Untried
  <2>9. NewCodesUntried'
    <3> SUFFICES ASSUME NEW q \in Keys, NEW m \in Nat, m > Len(accepted'[q]) PROVE Untried(q, m)'
      BY DEF NewCodesUntried
    <3>1. m > Len(accepted[q])
      BY <2>5, <2>6
    <3> QED
      BY <2>8, <3>1 DEF CodesInv, NewCodesUntried
  <2>10. CodesOnTheirWay'
    <3> SUFFICES ASSUME NEW q \in Keys, NEW m \in Nat, <<q, m>> \in sending'
                 PROVE  m <= Len(accepted'[q]) /\ otps'[q].n # m /\ Untried(q, m)'
      BY DEF CodesOnTheirWay
    <3>1. CASE <<q, m>> \in sending
      <4>1. m <= Len(accepted[q]) /\ otps[q].n # m /\ Untried(q, m)
        BY <3>1 DEF CodesInv, CodesOnTheirWay
      <4> QED
        BY <1>0, <2>5, <2>6, <2>8, <4>1
    <3>2. CASE q = k /\ m = n
      <4>1. Untried(k, n)
        BY <2>4 DEF CodesInv, NewCodesUntried
      <4>2. otps[k].n <= Len(accepted[k]) /\ otps[k].n \in Nat
        BY DEF CodesInv, StoredCodesCounted, CodesTyped
      <4> QED
        BY <1>0, <2>4, <2>8, <3>2, <4>1, <4>2
    <3> QED
      BY <1>2, <3>1, <3>2
  <2>11. StoredCodesCounted'
    <3> SUFFICES ASSUME NEW q \in Keys
                 PROVE  /\ otps[q].n <= Len(accepted'[q])
                        /\ otps[q].n \in Positions =>
                             guesses[<<q, otps[q].n>>] <= otps[q].tries
                             /\ opened[ByCode(q, otps[q].n)] = 0
      BY <1>0 DEF StoredCodesCounted
    <3>1. otps[q].n \in Nat
      BY DEF CodesInv, CodesTyped
    <3> QED
      BY <2>5, <2>6, <3>1 DEF CodesInv, StoredCodesCounted
  <2>12. CodesSpentOnce'
    BY <1>0 DEF CodesInv, CodesSpentOnce
  <2> QED
    BY <2>7, <2>9, <2>10, <2>11, <2>12 DEF CodesInv
<1> QED
  BY <1>1, <1>2 DEF RequestOtp
LEMMA DeliveryKeeps ==
  ASSUME CodesInv, NEW c \in sending, Delivered(c)
  PROVE  CodesInv'
<1>1. PICK k \in Keys, n \in Nat \ {0} : c = <<k, n>>
  BY DEF CodesInv, CodesTyped
<1> DEFINE rec == [n |-> n, until |-> now + OtpTtl, tries |-> 0]
<1>2. UNCHANGED <<accepted, now, guesses, opened>>
  BY DEF Delivered, rateVars, sessionVars
<1>3. sending' = sending \ {<<k, n>>} /\ otps' = [otps EXCEPT ![k] = rec]
  BY <1>1 DEF Delivered
<1>4. rec \in [n : Nat, until : Nat, tries : 0 .. MaxAttempts]
  BY SignInAssumption DEF CodesInv, CodesTyped
<1>5. otps'[k] = rec /\ \A q \in Keys \ {k} : otps'[q] = otps[q]
  BY <1>3 DEF CodesInv, CodesTyped
<1>6. n <= Len(accepted[k]) /\ Untried(k, n)
  BY <1>1 DEF CodesInv, CodesOnTheirWay
<1>7. CodesTyped'
  BY <1>2, <1>3, <1>4 DEF CodesInv, CodesTyped
<1>8. \A q \in Keys, m \in Nat : Untried(q, m)' = Untried(q, m)
  BY <1>2 DEF Untried
<1>9. NewCodesUntried'
  BY <1>2, <1>8 DEF CodesInv, NewCodesUntried
<1>10. CodesOnTheirWay'
  <2> SUFFICES ASSUME NEW q \in Keys, NEW m \in Nat, <<q, m>> \in sending'
               PROVE  m <= Len(accepted[q]) /\ otps'[q].n # m /\ Untried(q, m)
    BY <1>2, <1>8 DEF CodesOnTheirWay
  <2>1. <<q, m>> \in sending /\ <<q, m>> # <<k, n>>
    BY <1>3
  <2>2. m <= Len(accepted[q]) /\ otps[q].n # m /\ Untried(q, m)
    BY <2>1 DEF CodesInv, CodesOnTheirWay
  <2>3. CASE q = k
    BY <1>5, <2>1, <2>2, <2>3
  <2>4. CASE q # k
    BY <1>5, <2>2, <2>4
  <2> QED
    BY <2>3, <2>4
<1>11. StoredCodesCounted'
  <2> SUFFICES ASSUME NEW q \in Keys
               PROVE  /\ otps'[q].n <= Len(accepted[q])
                      /\ otps'[q].n \in Positions =>
                           guesses[<<q, otps'[q].n>>] <= otps'[q].tries
                           /\ opened[ByCode(q, otps'[q].n)] = 0
    BY <1>2 DEF StoredCodesCounted
  <2>1. CASE q = k
    <3>1. otps'[q].n = n /\ otps'[q].tries = 0
      BY <1>5, <2>1
    <3>2. n \in Positions => guesses[<<k, n>>] = 0 /\ opened[ByCode(k, n)] = 0
      BY <1>6 DEF Untried
    <3> QED
      BY <1>6, <2>1, <3>1, <3>2
  <2>2. CASE q # k
    BY <1>5, <2>2 DEF CodesInv, StoredCodesCounted
  <2> QED
    BY <2>1, <2>2
<1>12. CodesSpentOnce'
  BY <1>2 DEF CodesInv, CodesSpentOnce
<1> QED
  BY <1>7, <1>9, <1>10, <1>11, <1>12 DEF CodesInv
LEMMA VerifyKeeps ==
  ASSUME CodesInv, NEW k \in Keys, NEW g, Verify(k, g)
  PROVE  CodesInv'
<1> DEFINE n == otps[k].n
           id == ByCode(k, n)
           spentOrUsed == otps' = [otps EXCEPT ![k] = None]
<1>1. UNCHANGED <<accepted, now, sending>>
  BY DEF Verify, rateVars
<1>2. /\ n \in Nat /\ otps[k].tries \in 0 .. MaxAttempts /\ MaxAttempts \in Nat
      /\ n <= Len(accepted[k])
      /\ n \in Positions => guesses[<<k, n>>] <= otps[k].tries /\ opened[id] = 0
  BY SignInAssumption DEF CodesInv, CodesTyped, StoredCodesCounted
<1>3. \A q \in Keys, m \in Positions :
        /\ guesses[<<q, m>>] \in Nat /\ opened[ByCode(q, m)] \in Nat
        /\ <<q, m>> \in Codes /\ ByCode(q, m) \in Ids
  BY IdsOfCodes DEF CodesInv, CodesTyped
<1>4. None \in [n : Nat, until : Nat, tries : 0 .. MaxAttempts] /\ None.n = 0
  BY SignInAssumption DEF None
<1>5. 0 \notin Positions /\ \A q \in Keys : Len(accepted[q]) \in Nat
  BY PositionsCount DEF CodesInv, CodesTyped
\* What the step does to the code that is stored, and that it does nothing else.
<1>6. /\ otps' \in [Keys -> [n : Nat, until : Nat, tries : 0 .. MaxAttempts]]
      /\ guesses' \in [Codes -> Nat] /\ opened' \in [Ids -> Nat]
      /\ \A q \in Keys \ {k} : otps'[q] = otps[q]
      /\ \A q \in Keys, m \in Positions : <<q, m>> # <<k, n>> =>
           guesses'[<<q, m>>] = guesses[<<q, m>>] /\ opened'[ByCode(q, m)] = opened[ByCode(q, m)]
      /\ n \in Positions => guesses'[<<k, n>>] <= MaxAttempts /\ opened'[id] <= 1
      /\ \/ otps'[k].n = 0
         \/ /\ otps'[k].n = n
            /\ n \in Positions => guesses'[<<k, n>>] <= otps'[k].tries /\ opened'[id] = 0
  <2>1. CASE spentOrUsed /\ UNCHANGED <<guesses, sessionVars>>
    BY <1>2, <1>3, <1>4, <2>1 DEF CodesInv, CodesTyped, sessionVars
  <2>2. ASSUME ~Spent(otps[k]), guesses' = [guesses EXCEPT ![<<k, n>>] = @ + 1]
        PROVE  /\ otps[k].tries < MaxAttempts
               /\ guesses' \in [Codes -> Nat]
               /\ \A q \in Keys, m \in Positions : <<q, m>> # <<k, n>> =>
                    guesses'[<<q, m>>] = guesses[<<q, m>>]
               /\ n \in Positions => guesses'[<<k, n>>] <= otps[k].tries + 1
    <3>1. otps[k].tries < MaxAttempts
      BY <1>2, <2>2 DEF Spent, Exhausted
    <3>2. guesses \in [Codes -> Nat]
      BY DEF CodesInv, CodesTyped
    <3>3. guesses' \in [Codes -> Nat]
      BY <2>2, <3>2, CountUp
    <3>4. ASSUME NEW q \in Keys, NEW m \in Positions, <<q, m>> # <<k, n>>
          PROVE  guesses'[<<q, m>>] = guesses[<<q, m>>]
      BY <1>3, <2>2, <3>2, <3>4
    <3>5. ASSUME n \in Positions PROVE guesses'[<<k, n>>] <= otps[k].tries + 1
      <4>1. guesses'[<<k, n>>] = guesses[<<k, n>>] + 1
        BY <1>3, <2>2, <3>2, <3>5
      <4>2. guesses[<<k, n>>] \in Nat /\ guesses[<<k, n>>] <= otps[k].tries
        BY <1>2, <1>3, <3>5
      <4> QED
        BY <1>2, <4>1, <4>2
    <3> QED
      BY <3>1, <3>3, <3>4, <3>5
  <2>3. CASE /\ ~Spent(otps[k]) /\ guesses' = [guesses EXCEPT ![<<k, n>>] = @ + 1]
             /\ spentOrUsed /\ Open(id, k)
    <3>1. opened' = [opened EXCEPT ![id] = @ + 1] /\ opened \in [Ids -> Nat]
      BY <2>3 DEF Open, CodesInv, CodesTyped
    <3>2. opened' \in [Ids -> Nat]
      BY <3>1, CountUp
    <3>3. ASSUME NEW q \in Keys, NEW m \in Positions, <<q, m>> # <<k, n>>
          PROVE  opened'[ByCode(q, m)] = opened[ByCode(q, m)]
      <4>1. ByCode(q, m) # id
        BY <3>3, IdsDiffer
      <4> QED
        BY <1>3, <3>1, <4>1
    <3>4. n \in Positions => opened'[id] = 1
      BY <1>2, <1>3, <3>1
    <3>5. otps' \in [Keys -> [n : Nat, until : Nat, tries : 0 .. MaxAttempts]]
          /\ otps'[k].n = 0 /\ \A q \in Keys \ {k} : otps'[q] = otps[q]
      BY <1>4, <2>3 DEF CodesInv, CodesTyped
    <3>6. n \in Positions => guesses'[<<k, n>>] <= MaxAttempts
      <4>1. ASSUME n \in Positions PROVE guesses'[<<k, n>>] <= MaxAttempts
        <5>1. guesses'[<<k, n>>] \in Nat /\ guesses'[<<k, n>>] <= otps[k].tries + 1
              /\ otps[k].tries < MaxAttempts
          BY <1>3, <2>2, <2>3, <4>1
        <5> QED
          BY <1>2, <5>1
      <4> QED
        BY <4>1
    <3> QED
      BY <2>2, <2>3, <3>2, <3>3, <3>4, <3>5, <3>6
  <2>4. CASE /\ ~Spent(otps[k]) /\ guesses' = [guesses EXCEPT ![<<k, n>>] = @ + 1]
             /\ otps' = [otps EXCEPT ![k].tries = @ + 1] /\ UNCHANGED sessionVars
    <3>1. otps[k].tries < MaxAttempts
      BY <2>2, <2>4
    <3>2. /\ otps' \in [Keys -> [n : Nat, until : Nat, tries : 0 .. MaxAttempts]]
          /\ otps'[k].n = n /\ otps'[k].tries = otps[k].tries + 1
          /\ \A q \in Keys \ {k} : otps'[q] = otps[q]
      <4> DEFINE rec == [otps[k] EXCEPT !.tries = @ + 1]
      <4>1. otps \in [Keys -> [n : Nat, until : Nat, tries : 0 .. MaxAttempts]]
        BY DEF CodesInv, CodesTyped
      <4>2. otps' = [otps EXCEPT ![k] = rec]
        BY <2>4
      <4>3. otps[k].tries + 1 \in 0 .. MaxAttempts
        BY <1>2, <3>1
      <4>4. rec \in [n : Nat, until : Nat, tries : 0 .. MaxAttempts]
            /\ rec.n = n /\ rec.tries = otps[k].tries + 1
        BY <4>1, <4>3
      <4> QED
        BY <4>1, <4>2, <4>4
    <3>3. opened' = opened /\ opened \in [Ids -> Nat]
      BY <2>4 DEF sessionVars, CodesInv, CodesTyped
    <3>4. ASSUME n \in Positions
          PROVE  guesses'[<<k, n>>] <= MaxAttempts /\ guesses'[<<k, n>>] <= otps'[k].tries
      <4>1. guesses'[<<k, n>>] \in Nat /\ guesses'[<<k, n>>] <= otps[k].tries + 1
        BY <1>3, <2>2, <2>4, <3>4
      <4> QED
        BY <1>2, <3>1, <3>2, <4>1
    <3> QED
      BY <1>2, <2>2, <2>4, <3>2, <3>3, <3>4
  <2> QED
    BY <2>1, <2>3, <2>4 DEF Verify
<1>7. CodesTyped'
  BY <1>1, <1>6 DEF CodesInv, CodesTyped
<1>8. \A q \in Keys, m \in Nat : <<q, m>> # <<k, n>> /\ Untried(q, m) => Untried(q, m)'
  BY <1>6 DEF Untried
<1>9. NewCodesUntried'
  <2> SUFFICES ASSUME NEW q \in Keys, NEW m \in Nat, m > Len(accepted[q]) PROVE Untried(q, m)'
    BY <1>1 DEF NewCodesUntried
  <2>1. <<q, m>> # <<k, n>>
    BY <1>2, <1>5
  <2> QED
    BY <1>8, <2>1 DEF CodesInv, NewCodesUntried
<1>10. CodesOnTheirWay'
  <2> SUFFICES ASSUME NEW q \in Keys, NEW m \in Nat, <<q, m>> \in sending
               PROVE  m <= Len(accepted[q]) /\ otps'[q].n # m /\ Untried(q, m)'
    BY <1>1 DEF CodesOnTheirWay
  <2>1. m <= Len(accepted[q]) /\ otps[q].n # m /\ Untried(q, m) /\ m # 0
    BY DEF CodesInv, CodesOnTheirWay, CodesTyped
  <2>2. <<q, m>> # <<k, n>>
    BY <2>1
  <2>3. Untried(q, m)'
    BY <1>8, <2>1, <2>2
  <2>4. CASE q = k
    BY <1>6, <2>1, <2>3, <2>4
  <2>5. CASE q # k
    BY <1>6, <2>1, <2>3, <2>5
  <2> QED
    BY <2>4, <2>5
<1>11. StoredCodesCounted'
  <2> SUFFICES ASSUME NEW q \in Keys
               PROVE  /\ otps'[q].n <= Len(accepted[q])
                      /\ otps'[q].n \in Positions =>
                           guesses'[<<q, otps'[q].n>>] <= otps'[q].tries
                           /\ opened'[ByCode(q, otps'[q].n)] = 0
    BY <1>1 DEF StoredCodesCounted
  <2>1. CASE q = k /\ otps'[k].n = 0
    <3>1. 0 <= Len(accepted[k])
      BY <1>5
    <3> QED
      BY <1>5, <2>1, <3>1
  <2>2. CASE /\ q = k /\ otps'[k].n = n
             /\ n \in Positions => guesses'[<<k, n>>] <= otps'[k].tries /\ opened'[id] = 0
    BY <1>2, <2>2
  <2>3. CASE q # k
    BY <1>6, <2>3 DEF CodesInv, StoredCodesCounted
  <2> QED
    BY <1>6, <2>1, <2>3, <2>2
<1>12. CodesSpentOnce'
  BY <1>6 DEF CodesInv, CodesSpentOnce
<1> QED
  BY <1>7, <1>9, <1>10, <1>11, <1>12 DEF CodesInv
-----------------------------------------------------------------------------
(* Single sign-ons.                                                        *)

\* Callback v goes on with sign-on s.
Holds(v, s) == visit[v].at \in {"token", "user"} /\ visit[v].s = s

\* A sign-on that was not begun, is stored or is held by a callback has opened
\* nothing; one callback holds it, and only when it is stored no more.
SignOnsUsedOnce ==
  \A s \in Starts :
    /\ begun[s] = NotBegun \/ s \in stored \/ (\E v \in Visits : Holds(v, s)) =>
         opened[BySso(s)] = 0
    /\ begun[s] = NotBegun => s \notin stored
    /\ \A v \in Visits : Holds(v, s) =>
         begun[s] # NotBegun /\ s \notin stored /\ \A w \in Visits : Holds(w, s) => w = v
    /\ opened[BySso(s)] <= 1

SignOnsInv ==
  /\ opened \in [Ids -> Nat]
  /\ begun \in [Starts -> [at : {"none", "login", "button"}, born : Nat]]
  /\ visit \in [Visits -> [at : {"idle", "token", "user", "done"}, s : Starts \cup {"none"}]]
  /\ \A v \in Visits : visit[v].at \in {"token", "user"} => visit[v].s \in Starts
  /\ SignOnsUsedOnce

LEMMA InitSignOns == Init => SignOnsInv
<1> SUFFICES ASSUME Init PROVE SignOnsInv
  OBVIOUS
<1>1. opened = [i \in Ids |-> 0] /\ begun = [s \in Starts |-> NotBegun] /\ stored = {}
      /\ visit = [v \in Visits |-> NoVisit]
  BY DEF Init
<1>2. \A s \in Starts : BySso(s) \in Ids
  BY DEF Ids
<1>3. \A v \in Visits : visit[v].at = "idle"
  BY <1>1 DEF NoVisit
<1>4. SignOnsUsedOnce
  BY <1>1, <1>2, <1>3 DEF SignOnsUsedOnce, Holds
<1> QED
  BY <1>1, <1>3, <1>4 DEF SignOnsInv, NoVisit, NotBegun

\* Steps that have nothing to do with sign-ons keep what is true of them.
LEMMA SignOnsFramed ==
  ASSUME SignOnsInv, UNCHANGED <<begun, stored, visit>>, opened' \in [Ids -> Nat],
         \A s \in Starts : opened'[BySso(s)] = opened[BySso(s)]
  PROVE  SignOnsInv'
<1>1. \A s \in Starts, v \in Visits : Holds(v, s)' = Holds(v, s)
  BY DEF Holds
<1>2. SignOnsUsedOnce'
  BY <1>1 DEF SignOnsInv, SignOnsUsedOnce
<1> QED
  BY <1>2 DEF SignOnsInv

LEMMA BeginKeeps ==
  ASSUME SignOnsInv, now \in Nat, NEW s \in Starts, BeginAtLogin(s) \/ BeginAtButton(s)
  PROVE  SignOnsInv'
<1>1. UNCHANGED <<opened, visit>> /\ begun[s] = NotBegun /\ stored' \subseteq stored \cup {s}
  BY DEF BeginAtLogin, BeginAtButton, sessionVars
<1>2. PICK at \in {"login", "button"} : begun' = [begun EXCEPT ![s] = [at |-> at, born |-> now]]
  BY DEF BeginAtLogin, BeginAtButton
<1>3. begun' \in [Starts -> [at : {"none", "login", "button"}, born : Nat]]
      /\ begun'[s] # NotBegun /\ \A t \in Starts \ {s} : begun'[t] = begun[t]
  BY <1>2 DEF SignOnsInv, NotBegun
<1>4. \A t \in Starts, v \in Visits : Holds(v, t)' = Holds(v, t)
  BY <1>1 DEF Holds
<1>5. SignOnsUsedOnce'
  BY <1>1, <1>3, <1>4 DEF SignOnsInv, SignOnsUsedOnce
<1> QED
  BY <1>1, <1>3, <1>5 DEF SignOnsInv

LEMMA ForgetKeeps ==
  ASSUME SignOnsInv, NEW s \in Starts, Forget(s)
  PROVE  SignOnsInv'
<1>1. UNCHANGED <<opened, visit, begun>> /\ stored' \subseteq stored
  BY DEF Forget, sessionVars
<1>2. \A t \in Starts, v \in Visits : Holds(v, t)' = Holds(v, t)
  BY <1>1 DEF Holds
<1>3. SignOnsUsedOnce'
  BY <1>1, <1>2 DEF SignOnsInv, SignOnsUsedOnce
<1> QED
  BY <1>1, <1>3 DEF SignOnsInv

LEMMA CallbackKeeps ==
  ASSUME SignOnsInv, NEW v \in Visits, NEW s \in Starts, Callback(v, s)
  PROVE  SignOnsInv'
<1>1. UNCHANGED <<opened, begun>> /\ begun[s] # NotBegun /\ visit[v] = NoVisit
      /\ stored' = stored \ {s}
  BY DEF Callback, sessionVars
<1> DEFINE Reaches(at) == visit' = [visit EXCEPT ![v] = [at |-> at, s |-> s]]
                          /\ (at = "token" => s \in stored)
<1>2. PICK at \in {"token", "done"} : Reaches(at)
  BY DEF Callback
<1>3. /\ visit'[v].at = at /\ visit'[v].s = s
      /\ \A w \in Visits \ {v} : visit'[w] = visit[w]
      /\ visit' \in [Visits -> [at : {"idle", "token", "user", "done"}, s : Starts \cup {"none"}]]
  <2>1. visit \in [Visits -> [at : {"idle", "token", "user", "done"}, s : Starts \cup {"none"}]]
    BY DEF SignOnsInv
  <2>2. [at |-> at, s |-> s] \in [at : {"idle", "token", "user", "done"}, s : Starts \cup {"none"}]
    OBVIOUS
  <2>3. visit' = [visit EXCEPT ![v] = [at |-> at, s |-> s]]
    BY <1>2
  <2>4. visit'[v] = [at |-> at, s |-> s] /\ \A w \in Visits \ {v} : visit'[w] = visit[w]
    BY <2>1, <2>3
  <2>5. visit'[v].at = at /\ visit'[v].s = s
    BY <2>4
  <2>6. visit' \in [Visits -> [at : {"idle", "token", "user", "done"}, s : Starts \cup {"none"}]]
    BY <2>1, <2>2, <2>3
  <2> QED
    BY <2>4, <2>5, <2>6
<1>4. \A w \in Visits \ {v}, t \in Starts : Holds(w, t)' = Holds(w, t)
  BY <1>3 DEF Holds
<1>5. \A t \in Starts : Holds(v, t)' => t = s /\ s \in stored
  <2> SUFFICES ASSUME NEW t \in Starts, Holds(v, t)' PROVE t = s /\ s \in stored
    OBVIOUS
  <2>1. at \in {"token", "user"} /\ t = s
    BY <1>3 DEF Holds
  <2>2. at = "token"
    BY <2>1
  <2>3. s \in stored
    BY <1>2, <2>2
  <2> QED
    BY <2>1, <2>3
<1>6. \A t \in Starts : ~Holds(v, t)
  BY <1>1 DEF Holds, NoVisit
<1>7. ASSUME NEW t \in Starts
      PROVE  /\ begun[t] = NotBegun \/ t \in stored' \/ (\E w \in Visits : Holds(w, t)') =>
                  opened[BySso(t)] = 0
             /\ begun[t] = NotBegun => t \notin stored'
             /\ \A w \in Visits : Holds(w, t)' =>
                  begun[t] # NotBegun /\ t \notin stored'
                  /\ \A x \in Visits : Holds(x, t)' => x = w
             /\ opened[BySso(t)] <= 1
  <2>1. CASE Holds(v, t)'
    <3>1. t = s /\ s \in stored
      BY <1>5, <2>1
    <3>2. \A w \in Visits : Holds(w, t)' => w = v
      BY <1>4, <3>1 DEF SignOnsInv, SignOnsUsedOnce
    <3> QED
      BY <1>1, <3>1, <3>2 DEF SignOnsInv, SignOnsUsedOnce
  <2>2. CASE ~Holds(v, t)'
    <3>1. \A w \in Visits : Holds(w, t)' => Holds(w, t)
      BY <1>4, <2>2
    <3> QED
      BY <1>1, <3>1 DEF SignOnsInv, SignOnsUsedOnce
  <2> QED
    BY <2>1, <2>2
<1>8. SignOnsUsedOnce'
  BY <1>1, <1>7 DEF SignOnsUsedOnce
<1>9. \A w \in Visits : visit'[w].at \in {"token", "user"} => visit'[w].s \in Starts
  BY <1>3 DEF SignOnsInv
<1> QED
  BY <1>1, <1>3, <1>8, <1>9 DEF SignOnsInv

LEMMA ExchangedKeeps ==
  ASSUME SignOnsInv, NEW v \in Visits, Exchanged(v)
  PROVE  SignOnsInv'
<1>1. UNCHANGED <<opened, begun, stored>> /\ visit[v].at = "token"
  BY DEF Exchanged, sessionVars
<1>2. PICK at \in {"user", "done"} : visit' = [visit EXCEPT ![v].at = at]
  BY DEF Exchanged
<1>3. visit[v].s \in Starts
  BY <1>1 DEF SignOnsInv
<1>4. visit' = [visit EXCEPT ![v] = [at |-> at, s |-> visit[v].s]]
  <2>1. visit[v] \in [at : {"idle", "token", "user", "done"}, s : Starts \cup {"none"}]
    BY DEF SignOnsInv
  <2>2. [visit[v] EXCEPT !.at = at] = [at |-> at, s |-> visit[v].s]
    BY <2>1
  <2> QED
    BY <1>2, <2>2
<1>5. /\ visit' \in [Visits -> [at : {"idle", "token", "user", "done"}, s : Starts \cup {"none"}]]
      /\ visit'[v].s = visit[v].s /\ \A w \in Visits \ {v} : visit'[w] = visit[w]
  BY <1>3, <1>4 DEF SignOnsInv
<1>6. \A w \in Visits, t \in Starts : Holds(w, t)' => Holds(w, t)
  BY <1>1, <1>5 DEF Holds
<1>7. SignOnsUsedOnce'
  BY <1>1, <1>6 DEF SignOnsInv, SignOnsUsedOnce
<1>8. \A w \in Visits : visit'[w].at \in {"token", "user"} => visit'[w].s \in Starts
  BY <1>3, <1>5 DEF SignOnsInv
<1> QED
  BY <1>1, <1>5, <1>7, <1>8 DEF SignOnsInv
LEMMA NamedKeeps ==
  ASSUME SignOnsInv, NEW v \in Visits, Named(v)
  PROVE  SignOnsInv'
<1> DEFINE s == visit[v].s
<1>1. UNCHANGED <<begun, stored>> /\ visit[v].at = "user" /\ s \in Starts
  BY DEF Named, SignOnsInv
<1>2. visit' = [visit EXCEPT ![v] = [at |-> "done", s |-> s]]
  <2>1. visit[v] \in [at : {"idle", "token", "user", "done"}, s : Starts \cup {"none"}]
    BY DEF SignOnsInv
  <2>2. [visit[v] EXCEPT !.at = "done"] = [at |-> "done", s |-> s]
    BY <2>1
  <2> QED
    BY <2>2 DEF Named
<1>3. /\ visit' \in [Visits -> [at : {"idle", "token", "user", "done"}, s : Starts \cup {"none"}]]
      /\ visit'[v].at = "done" /\ \A w \in Visits \ {v} : visit'[w] = visit[w]
  BY <1>1, <1>2 DEF SignOnsInv
<1>4. \A w \in Visits, t \in Starts : Holds(w, t)' => w # v /\ Holds(w, t)
  BY <1>3 DEF Holds
<1>5. Holds(v, s)
  BY <1>1 DEF Holds
<1>6. /\ opened[BySso(s)] = 0 /\ begun[s] # NotBegun /\ s \notin stored
      /\ \A w \in Visits : Holds(w, s) => w = v
  BY <1>1, <1>5 DEF SignOnsInv, SignOnsUsedOnce
<1>7. /\ opened' \in [Ids -> Nat] /\ opened'[BySso(s)] <= 1
      /\ \A t \in Starts \ {s} : opened'[BySso(t)] = opened[BySso(t)]
  <2>1. CASE UNCHANGED sessionVars
    BY <1>6, <2>1 DEF sessionVars, SignOnsInv
  <2>2. CASE opened' = [opened EXCEPT ![BySso(s)] = @ + 1]
    <3>1. opened \in [Ids -> Nat]
      BY DEF SignOnsInv
    <3>2. \A t \in Starts : BySso(t) \in Ids
      BY DEF Ids
    <3>3. opened' \in [Ids -> Nat]
      BY <2>2, <3>1, CountUp
    <3>4. opened'[BySso(s)] = 1
      BY <1>1, <1>6, <2>2, <3>1, <3>2
    <3>5. \A t \in Starts \ {s} : opened'[BySso(t)] = opened[BySso(t)]
      BY <2>2, <3>1, <3>2, IdsDiffer
    <3> QED
      BY <3>3, <3>4, <3>5
  <2> QED
    BY <2>1, <2>2 DEF Named, Open
<1>8. ASSUME NEW t \in Starts
      PROVE  /\ begun[t] = NotBegun \/ t \in stored \/ (\E w \in Visits : Holds(w, t)') =>
                  opened'[BySso(t)] = 0
             /\ begun[t] = NotBegun => t \notin stored
             /\ \A w \in Visits : Holds(w, t)' =>
                  begun[t] # NotBegun /\ t \notin stored
                  /\ \A x \in Visits : Holds(x, t)' => x = w
             /\ opened'[BySso(t)] <= 1
  <2>1. CASE t = s
    BY <1>4, <1>6, <1>7, <2>1
  <2>2. CASE t # s
    BY <1>4, <1>7, <2>2 DEF SignOnsInv, SignOnsUsedOnce
  <2> QED
    BY <2>1, <2>2
<1>9. SignOnsUsedOnce'
  BY <1>1, <1>8 DEF SignOnsUsedOnce
<1>10. \A w \in Visits : visit'[w].at \in {"token", "user"} => visit'[w].s \in Starts
  BY <1>3 DEF SignOnsInv
<1> QED
  BY <1>1, <1>3, <1>7, <1>9, <1>10 DEF SignOnsInv

-----------------------------------------------------------------------------
(* Every step.                                                             *)

SignInInv == CodesInv /\ SignOnsInv

\* A step that leaves codes, the sign-ons and what has been opened alone.
LEMMA NothingOpened ==
  ASSUME SignInInv, UNCHANGED <<accepted, codeVars, begun, stored, visit, opened>>, now' \in Nat
  PROVE  SignInInv'
<1>1. opened' \in [Ids -> Nat]
  BY DEF SignInInv, CodesInv, CodesTyped
<1>2. CodesInv'
  BY <1>1, CodesFramed DEF SignInInv
<1>3. SignOnsInv'
  BY <1>1, SignOnsFramed DEF SignInInv
<1> QED
  BY <1>2, <1>3 DEF SignInInv

LEMMA StepSignIn == SignInInv /\ [Next]_vars => SignInInv'
<1> SUFFICES ASSUME SignInInv, [Next]_vars PROVE SignInInv'
  OBVIOUS
<1>0. now \in Nat /\ opened \in [Ids -> Nat]
  BY DEF SignInInv, CodesInv, CodesTyped
<1>1. ASSUME NEW k \in Keys, RequestOtp(k) PROVE SignInInv'
  <2>1. UNCHANGED <<begun, stored, visit, opened>>
    BY <1>1 DEF RequestOtp, ssoVars, sessionVars
  <2> QED
    BY <1>0, <1>1, <2>1, RequestKeeps, SignOnsFramed DEF SignInInv
<1>2. ASSUME NEW k \in Keys, NEW g \in 0 .. Len(accepted[k]), Verify(k, g) PROVE SignInInv'
  <2>1. UNCHANGED <<begun, stored, visit>>
    BY <1>2 DEF Verify, ssoVars
  <2>2. CodesInv'
    BY <1>2, VerifyKeeps DEF SignInInv
  <2>3. \A s \in Starts : opened'[BySso(s)] = opened[BySso(s)]
    <3>1. CASE UNCHANGED sessionVars
      BY <3>1 DEF sessionVars
    <3>2. CASE Open(ByCode(k, otps[k].n), k)
      <4>1. \A s \in Starts : BySso(s) \in Ids
        BY DEF Ids
      <4> QED
        BY <1>0, <3>2, <4>1, IdsDiffer DEF Open
    <3> QED
      BY <1>2, <3>1, <3>2 DEF Verify
  <2> QED
    BY <2>1, <2>2, <2>3, SignOnsFramed DEF SignInInv, CodesInv, CodesTyped
<1>3. ASSUME NEW c \in sending, Delivered(c) PROVE SignInInv'
  <2>1. UNCHANGED <<begun, stored, visit, opened>>
    BY <1>3 DEF Delivered, ssoVars, sessionVars
  <2> QED
    BY <1>0, <1>3, <2>1, DeliveryKeeps, SignOnsFramed DEF SignInInv
<1>4. ASSUME NEW s \in Starts, BeginAtLogin(s) \/ BeginAtButton(s) \/ Forget(s) PROVE SignInInv'
  <2>1. UNCHANGED <<accepted, codeVars, now, opened>>
    BY <1>4 DEF BeginAtLogin, BeginAtButton, Forget, rateVars, sessionVars
  <2> QED
    BY <1>0, <1>4, <2>1, BeginKeeps, ForgetKeeps, CodesFramed DEF SignInInv
<1>5. ASSUME NEW v \in Visits, NEW s \in Starts, Callback(v, s) PROVE SignInInv'
  <2>1. UNCHANGED <<accepted, codeVars, now, opened>>
    BY <1>5 DEF Callback, rateVars, sessionVars
  <2> QED
    BY <1>0, <1>5, <2>1, CallbackKeeps, CodesFramed DEF SignInInv
<1>6. ASSUME NEW v \in Visits, Exchanged(v) PROVE SignInInv'
  <2>1. UNCHANGED <<accepted, codeVars, now, opened>>
    BY <1>6 DEF Exchanged, rateVars, sessionVars
  <2> QED
    BY <1>0, <1>6, <2>1, ExchangedKeeps, CodesFramed DEF SignInInv
<1>7. ASSUME NEW v \in Visits, Named(v) PROVE SignInInv'
  <2>1. UNCHANGED <<accepted, codeVars, now>>
    BY <1>7 DEF Named, rateVars
  <2>2. SignOnsInv'
    BY <1>7, NamedKeeps DEF SignInInv
  <2>3. \A k \in Keys, n \in Positions : opened'[ByCode(k, n)] = opened[ByCode(k, n)]
    <3>1. CASE UNCHANGED sessionVars
      BY <3>1 DEF sessionVars
    <3>2. CASE opened' = [opened EXCEPT ![BySso(visit[v].s)] = @ + 1]
      BY <1>0, <3>2, IdsDiffer, IdsOfCodes
    <3> QED
      BY <1>7, <3>1, <3>2 DEF Named, Open
  <2> QED
    BY <1>0, <2>1, <2>2, <2>3, CodesFramed DEF SignInInv, SignOnsInv
<1>8. ASSUME NEW x \in sessions, Visited(x) \/ Logout(x) \/ OidcLogout(x) PROVE SignInInv'
  <2>1. UNCHANGED <<accepted, codeVars, begun, stored, visit, opened, now>>
    BY <1>8 DEF Visited, Logout, OidcLogout, Drop, rateVars, ssoVars
  <2> QED
    BY <1>0, <2>1, NothingOpened
<1>9. ASSUME NEW id \in leaving, LoggedOut(id) PROVE SignInInv'
  <2>1. UNCHANGED <<accepted, codeVars, begun, stored, visit, opened, now>>
    BY <1>9 DEF LoggedOut, Drop, rateVars, ssoVars
  <2> QED
    BY <1>0, <2>1, NothingOpened
<1>10. CASE Clock
  <2>1. UNCHANGED <<accepted, codeVars, begun, stored, visit, opened>> /\ now' \in Nat
    BY <1>0, <1>10 DEF Clock, PassTime, ssoVars, sessionVars
  <2> QED
    BY <2>1, NothingOpened
<1>11. CASE UNCHANGED vars
  <2>1. UNCHANGED <<accepted, codeVars, begun, stored, visit, opened, now>>
    BY <1>11 DEF vars, rateVars, ssoVars, sessionVars
  <2> QED
    BY <1>0, <2>1, NothingOpened
<1> QED
  BY <1>1, <1>2, <1>3, <1>4, <1>5, <1>6, <1>7, <1>8, <1>9, <1>10, <1>11 DEF Next

LEMMA SignInInvariant == Spec => []SignInInv
<1>1. Init => SignInInv
  BY InitCodes, InitSignOns DEF SignInInv
<1> QED
  BY <1>1, StepSignIn, PTL DEF Spec

\* No code is guessed at more often than it has attempts.
THEOREM GuessesAreBounded == Spec => []GuessesBounded
<1>1. SignInInv => GuessesBounded
  <2> SUFFICES ASSUME SignInInv, NEW c \in Codes PROVE guesses[c] <= MaxAttempts
    BY DEF GuessesBounded
  <2>1. PICK k \in Keys, n \in Positions : c = <<k, n>>
    BY DEF Codes
  <2> QED
    BY <2>1 DEF SignInInv, CodesInv, CodesSpentOnce
<1> QED
  BY <1>1, SignInInvariant, PTL

LEMMA OpenedOnce == SignInInv => OneSessionEach
<1> SUFFICES ASSUME SignInInv, NEW id \in Ids PROVE opened[id] <= 1
  BY DEF OneSessionEach
<1>1. CASE \E c \in Codes : id = ByCode(c[1], c[2])
  <2>1. PICK k \in Keys, n \in Positions : id = ByCode(k, n)
    BY <1>1 DEF Codes
  <2> QED
    BY <2>1 DEF SignInInv, CodesInv, CodesSpentOnce
<1>2. CASE \E s \in Starts : id = BySso(s)
  BY <1>2 DEF SignInInv, SignOnsInv, SignOnsUsedOnce
<1> QED
  BY <1>1, <1>2 DEF Ids

\* A code, and a single sign-on, opens one session at most.
THEOREM OneSessionEachHolds == Spec => []OneSessionEach
  BY SignInInvariant, OpenedOnce, PTL

-----------------------------------------------------------------------------
(* Sessions.  A session that is opened has an id never used before, so the *)
(* ids that were signed out stay unused.                                   *)

\* Every code ever requested is one of Positions.
CodesCounted == \A k \in Keys : DOMAIN accepted[k] \subseteq Positions

SessionsInv ==
  /\ \A k \in Keys : otps[k].n = 0 => otps[k] = None
  /\ \A x \in sessions : x.id \in Ids /\ opened[x.id] > 0 /\ x.id \notin ended
  /\ \A id \in leaving \cup ended : id \in Ids /\ opened[id] > 0

\* Opening the session id, which nothing has opened before.
LEMMA OpenKeeps ==
  ASSUME SignInInv, OneSessionEach', SessionsInv, NEW id \in Ids, NEW k, Open(id, k),
         \A q \in Keys : otps'[q].n = 0 => otps'[q] = None
  PROVE  SessionsInv'
<1>1. opened \in [Ids -> Nat] /\ opened' = [opened EXCEPT ![id] = @ + 1]
  BY DEF Open, SignInInv, CodesInv, CodesTyped
<1>2. opened[id] = 0
  <2>1. opened'[id] = opened[id] + 1 /\ opened'[id] <= 1 /\ opened[id] \in Nat
    BY <1>1 DEF OneSessionEach
  <2> QED
    BY <2>1
<1>3. \A i \in Ids : opened[i] > 0 => opened'[i] > 0
  BY <1>1
<1>4. opened'[id] > 0
  BY <1>1, <1>2
<1>5. leaving' = leaving /\ ended' = ended /\ id \notin ended
  BY <1>2 DEF Open, SessionsInv
<1>6. ASSUME NEW x \in sessions' PROVE x.id \in Ids /\ opened'[x.id] > 0 /\ x.id \notin ended'
  <2>1. CASE x \in sessions
    BY <1>3, <1>5, <2>1 DEF SessionsInv
  <2>2. CASE x = [id |-> id, email |-> k, until |-> now + SessionTtl]
    BY <1>4, <1>5, <2>2
  <2> QED
    BY <1>6, <2>1, <2>2 DEF Open
<1> QED
  BY <1>3, <1>5, <1>6 DEF SessionsInv

LEMMA VerifyKeepsSessions ==
  ASSUME SignInInv, OneSessionEach', SessionsInv, CodesCounted,
         NEW k \in Keys, NEW g, Verify(k, g)
  PROVE  SessionsInv'
<1>1. otps \in [Keys -> [n : Nat, until : Nat, tries : 0 .. MaxAttempts]]
  BY DEF SignInInv, CodesInv, CodesTyped
<1>2. otps[k] # None
  BY DEF Verify
<1>3. CASE otps' = [otps EXCEPT ![k] = None] \/ otps' = [otps EXCEPT ![k].tries = @ + 1]
  <2>1. \A q \in Keys : otps'[q].n = 0 => otps'[q] = None
    <3>1. \A q \in Keys \ {k} : otps'[q] = otps[q]
      BY <1>1, <1>3
    <3>2. otps'[k] = None \/ otps'[k].n = otps[k].n
      BY <1>1, <1>3
    <3>3. otps[k].n # 0
      BY <1>2 DEF SessionsInv
    <3> QED
      BY <3>1, <3>2, <3>3 DEF SessionsInv
  <2>2. CASE UNCHANGED sessionVars
    BY <2>1, <2>2 DEF SessionsInv, sessionVars
  <2>3. CASE Open(ByCode(k, otps[k].n), k)
    <3>1. otps[k].n \in Nat /\ otps[k].n # 0 /\ otps[k].n <= Len(accepted[k])
      BY <1>1, <1>2 DEF SessionsInv, SignInInv, CodesInv, StoredCodesCounted
    <3>2. otps[k].n \in DOMAIN accepted[k]
      BY <3>1 DEF SignInInv, CodesInv, CodesTyped
    <3>3. ByCode(k, otps[k].n) \in Ids
      BY <3>2, IdsOfCodes DEF CodesCounted
    <3> QED
      BY <2>1, <2>3, <3>3, OpenKeeps
  <2> QED
    BY <2>2, <2>3 DEF Verify
<1> QED
  BY <1>3 DEF Verify

LEMMA NamedKeepsSessions ==
  ASSUME SignInInv, OneSessionEach', SessionsInv, NEW v \in Visits, Named(v)
  PROVE  SessionsInv'
<1>1. BySso(visit[v].s) \in Ids /\ otps' = otps
  BY DEF Named, codeVars, Ids, SignInInv, SignOnsInv
<1>2. CASE UNCHANGED sessionVars
  BY <1>1, <1>2 DEF SessionsInv, sessionVars
<1>3. ASSUME NEW k \in Keys, Open(BySso(visit[v].s), k) PROVE SessionsInv'
  <2>1. \A q \in Keys : otps'[q].n = 0 => otps'[q] = None
    BY <1>1 DEF SessionsInv
  <2> QED
    BY <1>1, <1>3, <2>1, OpenKeeps
<1> QED
  BY <1>2, <1>3 DEF Named

LEMMA DeliveryKeepsSessions ==
  ASSUME SignInInv, SessionsInv, NEW c \in sending, Delivered(c)
  PROVE  SessionsInv'
<1>1. PICK k \in Keys, n \in Nat \ {0} : c = <<k, n>>
  BY DEF SignInInv, CodesInv, CodesTyped
<1>2. otps' = [otps EXCEPT ![k] = [n |-> n, until |-> now + OtpTtl, tries |-> 0]]
  BY <1>1 DEF Delivered
<1>3. \A q \in Keys : otps'[q].n = 0 => otps'[q] = None
  BY <1>1, <1>2 DEF SessionsInv, SignInInv, CodesInv, CodesTyped
<1> QED
  BY <1>3 DEF Delivered, sessionVars, SessionsInv

LEMMA StepSessions ==
  SignInInv /\ OneSessionEach' /\ CodesCounted /\ SessionsInv /\ [Next]_vars => SessionsInv'
<1> SUFFICES ASSUME SignInInv, OneSessionEach', CodesCounted, SessionsInv, [Next]_vars
             PROVE  SessionsInv'
  OBVIOUS
<1>0. UNCHANGED <<otps, sessionVars>> => SessionsInv'
  BY DEF SessionsInv, sessionVars
<1>1. ASSUME NEW k \in Keys, RequestOtp(k) PROVE SessionsInv'
  BY <1>0, <1>1 DEF RequestOtp
<1>2. ASSUME NEW c \in sending, Delivered(c) PROVE SessionsInv'
  BY <1>2, DeliveryKeepsSessions
<1>3. ASSUME NEW k \in Keys, NEW g \in 0 .. Len(accepted[k]), Verify(k, g) PROVE SessionsInv'
  BY <1>3, VerifyKeepsSessions
<1>4. ASSUME NEW s \in Starts, BeginAtLogin(s) \/ BeginAtButton(s) \/ Forget(s)
      PROVE  SessionsInv'
  BY <1>0, <1>4 DEF BeginAtLogin, BeginAtButton, Forget, codeVars
<1>5. ASSUME NEW v \in Visits, NEW s \in Starts, Callback(v, s) PROVE SessionsInv'
  BY <1>0, <1>5 DEF Callback, codeVars
<1>6. ASSUME NEW v \in Visits, Exchanged(v) PROVE SessionsInv'
  BY <1>0, <1>6 DEF Exchanged, codeVars
<1>7. ASSUME NEW v \in Visits, Named(v) PROVE SessionsInv'
  BY <1>7, NamedKeepsSessions
<1>8. ASSUME NEW x \in sessions, Visited(x) PROVE SessionsInv'
  <2>1. UNCHANGED <<opened, otps, leaving, ended>> /\ sessions' \subseteq sessions
    BY <1>8 DEF Visited, codeVars
  <2> QED
    BY <2>1 DEF SessionsInv
<1>9. ASSUME NEW x \in sessions, Logout(x) PROVE SessionsInv'
  <2>1. UNCHANGED <<opened, otps, sessions, ended>> /\ leaving' = leaving \cup {x.id}
    BY <1>9 DEF Logout, codeVars
  <2> QED
    BY <2>1 DEF SessionsInv
<1>10. ASSUME NEW id \in Ids, opened[id] > 0, Drop(id), UNCHANGED <<opened, otps>>,
              leaving' \subseteq leaving
       PROVE  SessionsInv'
  BY <1>10 DEF Drop, SessionsInv
<1>11. ASSUME NEW x \in sessions, OidcLogout(x) PROVE SessionsInv'
  BY <1>10, <1>11 DEF OidcLogout, SessionsInv, codeVars
<1>12. ASSUME NEW id \in leaving, LoggedOut(id) PROVE SessionsInv'
  BY <1>10, <1>12 DEF LoggedOut, SessionsInv, codeVars
<1>13. CASE Clock \/ UNCHANGED vars
  BY <1>0, <1>13 DEF Clock, vars, codeVars
<1> QED
  BY <1>1, <1>2, <1>3, <1>4, <1>5, <1>6, <1>7, <1>8, <1>9, <1>11, <1>12, <1>13 DEF Next

LEMMA InitSessions == Init => SessionsInv
  BY DEF Init, SessionsInv, None

\* A session that was signed out is over, whatever was under way meanwhile.
THEOREM SignedOutHolds == Spec => []SignedOutStaysOut
<1>1. SessionsInv => SignedOutStaysOut
  BY DEF SessionsInv, SignedOutStaysOut
<1>2. Spec => []CodesCounted
  BY SignInLimits, HitsAreFew, PTL DEF CodesCounted, Positions
<1> QED
  BY <1>1, <1>2, InitSessions, StepSessions, SignInInvariant, OneSessionEachHolds, PTL DEF Spec

-----------------------------------------------------------------------------
(* Single sign-ons begun at /oidc/login are stored as long as they may be  *)
(* used: a callback made for one, and its timer, are all that ends that.   *)

Made(s) == \E v \in Visits : visit[v].at # "idle" /\ visit[v].s = s

LoginsInv ==
  /\ \A s \in spurned : s \in Starts /\ begun[s] # NotBegun /\ begun[s].at # "login"
  /\ \A s \in Starts :
       begun[s].at = "login" /\ Young(s) => s \in stored \/ Made(s)

LEMMA InitLogins == Init => LoginsInv
  BY DEF Init, LoginsInv, NotBegun

LEMMA LoginsFramed ==
  ASSUME SignInInv, LoginsInv, UNCHANGED ssoVars, now' \in Nat, now' >= now
  PROVE  LoginsInv'
<1>1. \A s \in Starts : Made(s)' = Made(s) /\ (Young(s)' => Young(s))
  <2> TAKE s \in Starts
  <2>1. Made(s)' = Made(s) /\ begun' = begun
    BY DEF Made, ssoVars
  <2>2. now \in Nat /\ begun[s].born + StateTtl \in Nat
    BY SignInAssumption DEF SignInInv, CodesInv, CodesTyped, SignOnsInv
  <2>3. Young(s)' => Young(s)
    <3>1. Young(s)' <=> now' < begun[s].born + StateTtl
      BY <2>1 DEF Young
    <3> QED
      BY <2>2, <3>1 DEF Young
  <2> QED
    BY <2>1, <2>3
<1> QED
  BY <1>1 DEF LoginsInv, ssoVars

LEMMA BeginKeepsLogins ==
  ASSUME SignInInv, LoginsInv, NEW s \in Starts, BeginAtLogin(s) \/ BeginAtButton(s)
  PROVE  LoginsInv'
<1>1. UNCHANGED <<visit, spurned, now>> /\ begun[s] = NotBegun
      /\ stored \subseteq stored' /\ (BeginAtLogin(s) => s \in stored')
  BY DEF BeginAtLogin, BeginAtButton, rateVars
<1>2. /\ \A t \in Starts \ {s} : begun'[t] = begun[t]
      /\ BeginAtButton(s) => begun'[s].at = "button"
  BY DEF BeginAtLogin, BeginAtButton, SignInInv, SignOnsInv
<1>3. \A t \in Starts : Made(t)' = Made(t)
  BY <1>1 DEF Made
<1>4. \A t \in Starts \ {s} : Young(t)' = Young(t)
  BY <1>1, <1>2 DEF Young
<1>5. \A t \in spurned : t \in Starts \ {s} /\ begun'[t] # NotBegun /\ begun'[t].at # "login"
  BY <1>1, <1>2 DEF LoginsInv
<1>6. \A t \in Starts : begun'[t].at = "login" /\ Young(t)' => t \in stored' \/ Made(t)'
  <2> TAKE t \in Starts
  <2>1. CASE t = s
    BY <1>1, <1>2, <2>1
  <2>2. CASE t # s
    BY <1>1, <1>2, <1>3, <1>4, <2>2 DEF LoginsInv
  <2> QED
    BY <2>1, <2>2
<1> QED
  BY <1>1, <1>5, <1>6 DEF LoginsInv, NotBegun

LEMMA ForgetKeepsLogins ==
  ASSUME SignInInv, LoginsInv, NEW s \in Starts, Forget(s)
  PROVE  LoginsInv'
<1>1. UNCHANGED <<visit, spurned, begun, now>> /\ stored' = stored \ {s}
      /\ now >= begun[s].born + StateTtl
  BY DEF Forget, rateVars
<1>2. \A t \in Starts : Made(t)' = Made(t) /\ Young(t)' = Young(t)
  BY <1>1 DEF Made, Young
<1>3. ~Young(s)
  <2>1. now \in Nat /\ begun[s].born + StateTtl \in Nat
    BY SignInAssumption DEF SignInInv, CodesInv, CodesTyped, SignOnsInv
  <2> QED
    BY <1>1, <2>1 DEF Young
<1> QED
  BY <1>1, <1>2, <1>3 DEF LoginsInv

LEMMA CallbackKeepsLogins ==
  ASSUME SignInInv, LoginsInv, NEW v \in Visits, NEW s \in Starts, Callback(v, s)
  PROVE  LoginsInv'
<1>1. UNCHANGED <<begun, now>> /\ begun[s] # NotBegun /\ visit[v] = NoVisit
      /\ stored' = stored \ {s}
  BY DEF Callback, rateVars
<1>2. visit'[v].at # "idle" /\ visit'[v].s = s /\ \A w \in Visits \ {v} : visit'[w] = visit[w]
  <2> DEFINE Reached(at) == visit' = [visit EXCEPT ![v] = [at |-> at, s |-> s]]
  <2>1. PICK at \in {"token", "done"} : Reached(at)
    BY DEF Callback
  <2>2. visit' = [visit EXCEPT ![v] = [at |-> at, s |-> s]]
    BY <2>1
  <2>3. visit'[v] = [at |-> at, s |-> s] /\ \A w \in Visits \ {v} : visit'[w] = visit[w]
    BY <2>2 DEF SignInInv, SignOnsInv
  <2> QED
    BY <2>3
<1>3. \A t \in Starts : Young(t)' = Young(t)
  BY <1>1 DEF Young
<1>4. Made(s)' /\ \A t \in Starts : Made(t) => Made(t)'
  BY <1>1, <1>2 DEF Made, NoVisit
<1>5. \A t \in spurned' : t \in Starts /\ begun'[t] # NotBegun /\ begun'[t].at # "login"
  <2> TAKE t \in spurned'
  <2>1. CASE t \in spurned
    BY <1>1, <2>1 DEF LoginsInv
  <2>2. CASE t \notin spurned
    <3>1. t = s /\ s \notin stored /\ Young(s) /\ ~Used(s)
      BY <2>2 DEF Callback
    <3>2. ~Made(s)
      BY <3>1 DEF Made, Used
    <3> QED
      BY <1>1, <3>1, <3>2 DEF LoginsInv
  <2> QED
    BY <2>1, <2>2
<1> QED
  BY <1>1, <1>3, <1>4, <1>5 DEF LoginsInv

\* A callback that was made goes on; nothing else of single sign-on changes.
LEMMA VisitKeepsLogins ==
  ASSUME SignInInv, LoginsInv, NEW v \in Visits, Exchanged(v) \/ Named(v)
  PROVE  LoginsInv'
<1>1. UNCHANGED <<stored, spurned, begun, now>>
  BY DEF Exchanged, Named, rateVars
<1>2. visit'[v].at # "idle" /\ visit'[v].s = visit[v].s
      /\ \A w \in Visits \ {v} : visit'[w] = visit[w]
  <2> DEFINE Reached(at) == visit' = [visit EXCEPT ![v].at = at]
  <2>1. PICK at \in {"user", "done"} : Reached(at)
    BY DEF Exchanged, Named
  <2>2. visit' = [visit EXCEPT ![v].at = at]
    BY <2>1
  <2> QED
    BY <2>2 DEF SignInInv, SignOnsInv
<1>3. \A t \in Starts : Young(t)' = Young(t) /\ (Made(t) => Made(t)')
  BY <1>1, <1>2 DEF Young, Made
<1> QED
  BY <1>1, <1>3 DEF LoginsInv

LEMMA StepLogins == SignInInv /\ LoginsInv /\ [Next]_vars => LoginsInv'
<1> SUFFICES ASSUME SignInInv, LoginsInv, [Next]_vars PROVE LoginsInv'
  OBVIOUS
<1>0. now \in Nat
  BY DEF SignInInv, CodesInv, CodesTyped
<1>1. ASSUME UNCHANGED ssoVars, now' = now \/ now' = now + 1 PROVE LoginsInv'
  BY <1>0, <1>1, LoginsFramed
<1>2. ASSUME NEW k \in Keys, RequestOtp(k) PROVE LoginsInv'
  BY <1>1, <1>2 DEF RequestOtp, Admit, Refuse
<1>3. ASSUME NEW k \in Keys, NEW g \in 0 .. Len(accepted[k]), Verify(k, g) PROVE LoginsInv'
  BY <1>1, <1>3 DEF Verify, rateVars
<1>4. ASSUME NEW c \in sending, Delivered(c) PROVE LoginsInv'
  BY <1>1, <1>4 DEF Delivered, rateVars
<1>5. ASSUME NEW s \in Starts, BeginAtLogin(s) \/ BeginAtButton(s) \/ Forget(s) PROVE LoginsInv'
  BY <1>5, BeginKeepsLogins, ForgetKeepsLogins
<1>6. ASSUME NEW v \in Visits, NEW s \in Starts, Callback(v, s) PROVE LoginsInv'
  BY <1>6, CallbackKeepsLogins
<1>7. ASSUME NEW v \in Visits, Exchanged(v) \/ Named(v) PROVE LoginsInv'
  BY <1>7, VisitKeepsLogins
<1>8. ASSUME NEW x \in sessions, Visited(x) \/ Logout(x) \/ OidcLogout(x) PROVE LoginsInv'
  BY <1>1, <1>8 DEF Visited, Logout, OidcLogout, rateVars
<1>9. ASSUME NEW id \in leaving, LoggedOut(id) PROVE LoginsInv'
  BY <1>1, <1>9 DEF LoggedOut, rateVars
<1>10. CASE Clock
  BY <1>1, <1>10 DEF Clock, PassTime
<1>11. CASE UNCHANGED vars
  BY <1>1, <1>11 DEF vars, rateVars
<1> QED
  BY <1>2, <1>3, <1>4, <1>5, <1>6, <1>7, <1>8, <1>9, <1>10, <1>11 DEF Next

\* A single sign-on begun at /oidc/login is refused only if it took too long
\* or was used before.
THEOREM LoginsHonoured == Spec => []LoginsAreHonoured
<1>1. LoginsInv => LoginsAreHonoured
  BY DEF LoginsInv, LoginsAreHonoured
<1> QED
  BY <1>1, InitLogins, StepLogins, SignInInvariant, PTL DEF Spec
=============================================================================
