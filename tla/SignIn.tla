------------------------------- MODULE SignIn -------------------------------
(***************************************************************************)
(* Signing in to the dashboard: one-time codes sent by email, single sign- *)
(* on with an identity provider, sessions and signing out.  All state is   *)
(* memory of the dashboard's one event loop; what lies between two awaits  *)
(* is one step.  The limiter of code requests is module RateLimit, its     *)
(* keys the allowlisted emails: the n-th code of an email is known by the  *)
(* position n of its request.                                              *)
(***************************************************************************)
EXTENDS RateLimit

CONSTANTS
  OtpTtl,       \* otpTtlMs, in ticks
  MaxAttempts,  \* maxOtpAttempts
  SessionTtl,   \* sessionTtlMs, in ticks
  StateTtl,     \* the 10 minutes a single sign-on may take, in ticks
  Starts,       \* single sign-ons that browsers begin
  Visits        \* requests to the callback, each made once

ASSUME SignInAssumption ==
  /\ OtpTtl \in Nat /\ SessionTtl \in Nat /\ StateTtl \in Nat
  /\ MaxAttempts \in Nat \ {0}

VARIABLES
  sending,   \* the codes <<k, n>> whose deliverOtp is not over
  otps,      \* otps: none or one record per email
  sessions,  \* sessions: the records by id
  leaving,   \* ids of sessions whose logout awaits its audit entry
  begun,     \* begun[s]: where a browser began s, and when
  stored,    \* oidcStates, the sign-ons begun at /oidc/login
  pendings,  \* pendingAuths, the sign-ons begun at /oidc/initiate
  visit,     \* visit[v]: the await callback v has reached, and its sign-on
  guesses,   \* history: how often code <<k, n>> was compared with a guess
  opened,    \* history: how many sessions each id has been given to
  ended,     \* history: the ids that were signed out
  spurned    \* history: sign-ons refused although neither old nor used before

codeVars == <<sending, otps, guesses>>
ssoVars == <<begun, stored, pendings, visit, spurned>>
sessionVars == <<sessions, leaving, opened, ended>>
vars == <<rateVars, codeVars, ssoVars, sessionVars>>

Positions == 1 .. Max * (LastTick + 1)
Codes == Keys \X Positions

\* The session that code <<k, n>>, or sign-on s, opens.
ByCode(k, n) == [by |-> "code", of |-> <<k, n>>]
BySso(s) == [by |-> "sso", of |-> <<s>>]
Ids == {ByCode(c[1], c[2]) : c \in Codes} \cup {BySso(s) : s \in Starts}

None == [n |-> 0, until |-> 0, tries |-> 0]
NotBegun == [at |-> "none", born |-> 0]
NoVisit == [at |-> "idle", s |-> "none"]

TypeOK ==
  /\ RateTypeOK
  /\ sending \subseteq Codes
  /\ otps \in [Keys -> [n : 0 .. Max * (LastTick + 1), until : Nat, tries : 0 .. MaxAttempts]]
  /\ sessions \subseteq [id : Ids, email : Keys, until : Nat]
  /\ leaving \subseteq Ids /\ ended \subseteq Ids
  /\ begun \in [Starts -> [at : {"none", "login", "button"}, born : Nat]]
  /\ stored \subseteq Starts /\ pendings \subseteq Starts /\ spurned \subseteq Starts
  /\ visit \in [Visits -> [at : {"idle", "token", "user", "done"}, s : Starts \cup {"none"}]]
  /\ guesses \in [Codes -> Nat]
  /\ opened \in [Ids -> Nat]

Init ==
  /\ RateInit
  /\ sending = {} /\ otps = [k \in Keys |-> None] /\ guesses = [c \in Codes |-> 0]
  /\ sessions = {} /\ leaving = {} /\ ended = {} /\ opened = [i \in Ids |-> 0]
  /\ begun = [s \in Starts |-> NotBegun]
  /\ stored = {} /\ pendings = {} /\ spurned = {}
  /\ visit = [v \in Visits |-> NoVisit]

Open(id, k) ==
  /\ sessions' = sessions \cup {[id |-> id, email |-> k, until |-> now + SessionTtl]}
  /\ opened' = [opened EXCEPT ![id] = @ + 1]
  /\ UNCHANGED <<leaving, ended>>

-----------------------------------------------------------------------------
(* Codes by email.                                                         *)

\* requestOtp up to the await of deliverOtp, for an allowlisted email.
RequestOtp(k) ==
  /\ \/ Admit(k) /\ sending' = sending \cup {<<k, Len(accepted[k]) + 1>>}
     \/ Refuse(k) /\ UNCHANGED sending
  /\ UNCHANGED <<otps, guesses, ssoVars, sessionVars>>

\* deliverOtp ends, by mail or by its fallback: only now the code is stored,
\* in place of any other, be it a newer one whose delivery was faster.
Delivered(c) ==
  /\ c \in sending
  /\ sending' = sending \ {c}
  /\ otps' = [otps EXCEPT ![c[1]] = [n |-> c[2], until |-> now + OtpTtl, tries |-> 0]]
  /\ UNCHANGED <<rateVars, guesses, ssoVars, sessionVars>>

\* A slip the runs must notice: one guess more than there are attempts.
ExhaustedLate(o) == o.tries > MaxAttempts

\* verifyOtp gives the code up.
Exhausted(o) == o.tries >= MaxAttempts
Spent(o) == now > o.until \/ Exhausted(o)

\* verifyOtp, for a code g of that email, or 0 for a guess that is none.
Verify(k, g) ==
  LET o == otps[k] IN
  /\ o # None
  /\ \/ Spent(o) /\ otps' = [otps EXCEPT ![k] = None] /\ UNCHANGED <<guesses, sessionVars>>
     \/ /\ ~Spent(o)
        /\ guesses' = [guesses EXCEPT ![<<k, o.n>>] = @ + 1]
        /\ \/ /\ g = o.n
              /\ otps' = [otps EXCEPT ![k] = None]
              /\ Open(ByCode(k, o.n), k)
           \/ /\ g # o.n
              /\ otps' = [otps EXCEPT ![k].tries = @ + 1]
              /\ UNCHANGED sessionVars
  /\ UNCHANGED <<rateVars, sending, ssoVars>>

-----------------------------------------------------------------------------
(* Single sign-on.                                                         *)

\* GET /api/auth/oidc/login.
BeginAtLogin(s) ==
  /\ begun[s] = NotBegun
  /\ begun' = [begun EXCEPT ![s] = [at |-> "login", born |-> now]]
  /\ stored' = stored \cup {s}
  /\ UNCHANGED <<rateVars, codeVars, sessionVars, pendings, visit, spurned>>

\* GET /api/auth/oidc/initiate, which the button of the sign-in page calls.
BeginAtButton(s) ==
  /\ begun[s] = NotBegun
  /\ begun' = [begun EXCEPT ![s] = [at |-> "button", born |-> now]]
  /\ pendings' = pendings \cup {s}
  /\ UNCHANGED <<rateVars, codeVars, sessionVars, stored, visit, spurned>>

\* A slip the runs must notice: the timer of a sign-on runs out a tick early.
ForgetEarly(s) ==
  /\ s \in stored \cup pendings
  /\ now + 1 >= begun[s].born + StateTtl
  /\ stored' = stored \ {s}
  /\ pendings' = pendings \ {s}
  /\ UNCHANGED <<rateVars, codeVars, sessionVars, begun, visit, spurned>>

\* The timer set when s began; it may fire late.
Forget(s) ==
  /\ s \in stored \cup pendings
  /\ now >= begun[s].born + StateTtl
  /\ stored' = stored \ {s}
  /\ pendings' = pendings \ {s}
  /\ UNCHANGED <<rateVars, codeVars, sessionVars, begun, visit, spurned>>

\* A slip the runs must notice: the state is not taken away before the awaits.
CallbackReading(v, s) ==
  /\ visit[v] = NoVisit /\ begun[s] # NotBegun
  /\ visit' = [visit EXCEPT ![v] =
       [at |-> IF s \in stored /\ now <= begun[s].born + StateTtl THEN "token" ELSE "done",
        s |-> s]]
  /\ UNCHANGED <<rateVars, codeVars, sessionVars, begun, stored, pendings, spurned>>

Used(s) == \E v \in Visits : visit[v].s = s
Young(s) == now < begun[s].born + StateTtl

\* handleOIDCCallback up to its first await: the state is used up, whatever
\* becomes of the sign-on.
Callback(v, s) ==
  /\ visit[v] = NoVisit /\ begun[s] # NotBegun
  /\ stored' = stored \ {s}
  /\ visit' = [visit EXCEPT ![v] =
       [at |-> IF s \in stored /\ now <= begun[s].born + StateTtl THEN "token" ELSE "done",
        s |-> s]]
  /\ spurned' = IF s \notin stored /\ Young(s) /\ ~Used(s) THEN spurned \cup {s} ELSE spurned
  /\ UNCHANGED <<rateVars, codeVars, sessionVars, begun, pendings>>

\* The provider answers the exchange of the code.
Exchanged(v) ==
  /\ visit[v].at = "token"
  /\ \E at \in {"user", "done"} : visit' = [visit EXCEPT ![v].at = at]
  /\ UNCHANGED <<rateVars, codeVars, sessionVars, begun, stored, pendings, spurned>>

\* The provider names the user: an allowlisted email gets a session.
Named(v) ==
  /\ visit[v].at = "user"
  /\ visit' = [visit EXCEPT ![v].at = "done"]
  /\ \/ \E k \in Keys : Open(BySso(visit[v].s), k)
     \/ UNCHANGED sessionVars
  /\ UNCHANGED <<rateVars, codeVars, begun, stored, pendings, spurned>>

-----------------------------------------------------------------------------
(* Sessions.                                                               *)

Live(x) == now <= x.until

\* getSession drops a session it finds expired.
Visited(x) ==
  /\ ~Live(x)
  /\ sessions' = sessions \ {x}
  /\ UNCHANGED <<rateVars, codeVars, ssoVars, leaving, opened, ended>>

\* POST /api/auth/logout: the session ends when the audit entry is written.
Logout(x) ==
  /\ Live(x)
  /\ leaving' = leaving \cup {x.id}
  /\ UNCHANGED <<rateVars, codeVars, ssoVars, sessions, opened, ended>>

Drop(id) ==
  /\ sessions' = {x \in sessions : x.id # id}
  /\ ended' = ended \cup {id}

\* A slip the runs must notice: signing out clears the cookies only.
LoggedOutCookiesOnly(id) ==
  /\ id \in leaving
  /\ leaving' = leaving \ {id}
  /\ ended' = ended \cup {id}
  /\ UNCHANGED <<rateVars, codeVars, ssoVars, sessions, opened>>

LoggedOut(id) ==
  /\ id \in leaving
  /\ leaving' = leaving \ {id}
  /\ Drop(id)
  /\ UNCHANGED <<rateVars, codeVars, ssoVars, opened>>

\* POST /api/auth/oidc/logout: the session ends at once.
OidcLogout(x) ==
  /\ Live(x)
  /\ Drop(x.id)
  /\ UNCHANGED <<rateVars, codeVars, ssoVars, leaving, opened>>

Clock == PassTime /\ UNCHANGED <<codeVars, ssoVars, sessionVars>>

Next ==
  \/ \E k \in Keys : RequestOtp(k) \/ \E g \in 0 .. Len(accepted[k]) : Verify(k, g)
  \/ \E c \in sending : Delivered(c)
  \/ \E s \in Starts : BeginAtLogin(s) \/ BeginAtButton(s) \/ Forget(s)
  \/ \E v \in Visits, s \in Starts : Callback(v, s)
  \/ \E v \in Visits : Exchanged(v) \/ Named(v)
  \/ \E x \in sessions : Visited(x) \/ Logout(x) \/ OidcLogout(x)
  \/ \E id \in leaving : LoggedOut(id)
  \/ Clock

Spec == Init /\ [][Next]_vars

-----------------------------------------------------------------------------
(* Properties.                                                             *)

\* Nobody gets more guesses at a code than it has attempts, however requests,
\* deliveries and guesses overlap: with AtMostMaxPerWindow that bounds the
\* guesses at the codes of an email.
GuessesBounded == \A c \in Codes : guesses[c] <= MaxAttempts

\* A code, and a single sign-on, opens one session at most: double clicks and
\* reloaded callbacks open no other.
OneSessionEach == \A id \in Ids : opened[id] <= 1

\* A session that was signed out is over, whatever was under way meanwhile.
SignedOutStaysOut == \A x \in sessions : x.id \notin ended

\* A single sign-on begun at /oidc/login is refused only if it took too long
\* or was used before.
LoginsAreHonoured == \A s \in spurned : begun[s].at # "login"

\* What README.md says of single sign-on, that it works: one begun in time, at
\* either of the two addresses, is not refused as invalid.
SignOnsAreHonoured == spurned = {}
=============================================================================
