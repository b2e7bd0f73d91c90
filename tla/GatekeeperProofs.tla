-------------------------- MODULE GatekeeperProofs --------------------------
(***************************************************************************)
(* Theorems about the gatekeeper worker, for any events, playbooks,        *)
(* requests and queue limits: nothing is contained unless live processing  *)
(* was asked for, a harden action is carried out on one yes, events are    *)
(* taken up in order and none of them vanishes.  And about the matcher,    *)
(* with which it shares no state: thresholds count whole windows, and      *)
(* cooldowns and limits are kept as far as overlapping requests allow.     *)
(***************************************************************************)
EXTENDS Gatekeeper, Matcher, FiniteSetTheorems, SequenceTheorems, WellFoundedInduction, TLAPS

Opts == {"none", "dry", "live"}
Jobs == [at : {"idle", "act", "audit", "take"}, opt : Opts,
         ev : {<<>>} \cup {<<e>> : e \in Events}, dry : BOOLEAN,
         todo : SUBSET Playbooks, step : Nat, rest : Seq(Events)]

TypeOK ==
  /\ dryRun \in BOOLEAN /\ isRunning \in BOOLEAN /\ wentLive \in BOOLEAN
  /\ queue \in Seq(Events) /\ accepted \in Seq(Events) /\ taken \in Seq(Events)
  /\ job \in [Workers -> Jobs]
  /\ pending \subseteq [id : Ids, left : Nat]
  /\ fresh \subseteq Events /\ lost \subseteq Events
  /\ rotated \in [Ids -> Nat]
  /\ verdicts \in [Ids -> SUBSET {"confirm", "deny"}]

\* What each request is about: an action that exists, and one cycle at a time.
JobsMakeSense ==
  /\ \A w \in Workers :
       /\ job[w].at = "idle" => job[w] = Idle
       /\ job[w].at \in {"act", "audit"} => job[w].todo # {} /\ job[w].ev # <<>>
       /\ job[w].at = "act" => job[w].step < Len(Actions[Book(w)])
  /\ \A w \in Processors : job[w].rest = <<>>
  /\ \A k \in Cycles : job[k].at # "idle" =>
       isRunning /\ \A l \in Cycles : job[l].at # "idle" => l = k

\* Whoever works live was asked to.
LiveIsAskedFor ==
  /\ ~dryRun => wentLive
  /\ \A w \in Workers : job[w].opt = "live" \/ ~job[w].dry => wentLive
  /\ ContainedOnlyLive

\* x comes before y in sequence s, the elements of t come as they do in s, and
\* those of A before those of B.
Before(s, x, y) == \E a, b \in 1 .. Len(s) : a < b /\ s[a] = x /\ s[b] = y
Follows(s, t) == \A i, j \in 1 .. Len(t) : i < j => Before(s, t[i], t[j])
Precede(s, A, B) == \A x \in A : \A y \in B : Before(s, x, y)

\* What was taken up, the rest of the cycle under way and the queue, one after
\* the other, are as they were accepted; nothing was accepted twice.
EventsInOrder ==
  /\ \A a, b \in 1 .. Len(accepted) : accepted[a] = accepted[b] => a = b
  /\ Range(accepted) \cap fresh = {}
  /\ Range(taken) \subseteq Range(accepted) /\ Range(queue) \subseteq Range(accepted)
  /\ Follows(accepted, taken) /\ Follows(accepted, queue)
  /\ Precede(accepted, Range(taken), Range(queue))
  /\ \A k \in Cycles :
       /\ Range(job[k].rest) \subseteq Range(accepted)
       /\ Follows(accepted, job[k].rest)
       /\ Precede(accepted, Range(taken), Range(job[k].rest))
       /\ Precede(accepted, Range(job[k].rest), Range(queue))

\* An event is processed by one request, which is not about another one ...
EventsOnce ==
  /\ \A k \in Cycles : \A e \in Events : job[k].ev = <<e>> => e \in Range(taken)
  /\ \A w \in Processors : \A e \in Events :
       job[w].ev = <<e>> => e \notin fresh /\ e \notin Range(accepted)
  /\ \A v, w \in Processors : job[v].ev = job[w].ev /\ job[v].ev # <<>> => v = w

\* ... and until then, and until its action is in turn, nobody is asked.
Waiting(e) ==
  e \in fresh \/ e \in Range(queue) \/ \E k \in Cycles : e \in Range(job[k].rest)

Ahead(w, e, p, n) ==
  job[w].ev = <<e>> /\ p \in job[w].todo /\ (p = Book(w) => n > job[w].step)

Untouched(i) == verdicts[i] = {} /\ rotated[i] = 0 /\ ~\E c \in pending : c.id = i

AskedInTurn ==
  \A p \in Playbooks : \A e \in Events, n \in DOMAIN Actions[p] :
    Waiting(e) \/ (\E w \in Workers : Ahead(w, e, p, n)) => Untouched(<<e, p, n>>)

PendingOnce ==
  /\ \A c, d \in pending : c.id = d.id => c = d
  /\ \A c \in pending : verdicts[c.id] = {} /\ rotated[c.id] = 0
  /\ HardenedOnOneYes

GatekeeperInv ==
  /\ TypeOK /\ JobsMakeSense /\ LiveIsAskedFor /\ EventsInOrder /\ EventsOnce
  /\ AskedInTurn /\ PendingOnce /\ NothingVanishes

-----------------------------------------------------------------------------
(* Sequences, and the first playbook of a set.                             *)

LEMMA RangeOf ==
  ASSUME NEW S, NEW s \in Seq(S)
  PROVE  /\ Range(s) \subseteq S
         /\ \A x : x \in Range(s) <=> \E i \in 1 .. Len(s) : s[i] = x
  BY RangeEquality, RangeOfSeq

LEMMA EmptyRange == Range(<<>>) = {}
<1>1. <<>> \in Seq({})
  OBVIOUS
<1>2. Range(<<>>) \in SUBSET {}
  BY <1>1, RangeOfSeq
<1> QED
  BY <1>2

LEMMA RangeOfAppend ==
  ASSUME NEW S, NEW s \in Seq(S), NEW e \in S
  PROVE  /\ Append(s, e) \in Seq(S)
         /\ Range(Append(s, e)) = Range(s) \cup {e}
<1>1. Append(s, e) \in Seq(S) /\ Len(Append(s, e)) = Len(s) + 1 /\ Len(s) \in Nat
  BY AppendProperties
<1>2. /\ \A i \in 1 .. Len(s) : Append(s, e)[i] = s[i]
      /\ Append(s, e)[Len(s) + 1] = e
  BY AppendProperties
<1>3. ASSUME NEW x \in Range(Append(s, e))
      PROVE  x \in Range(s) \cup {e}
  <2>1. PICK i \in 1 .. Len(Append(s, e)) : Append(s, e)[i] = x
    BY <1>1, RangeOf
  <2>2. CASE i = Len(s) + 1
    BY <1>2, <2>1, <2>2
  <2>3. CASE i \in 1 .. Len(s)
    BY <1>2, <2>1, <2>3, RangeOf
  <2> QED
    BY <1>1, <2>1, <2>2, <2>3
<1>4. ASSUME NEW x \in Range(s) \cup {e}
      PROVE  x \in Range(Append(s, e))
  <2>1. CASE x = e
    <3>1. Len(s) + 1 \in 1 .. Len(Append(s, e))
      BY <1>1
    <3> QED
      BY <1>1, <1>2, <2>1, <3>1, RangeOf
  <2>2. CASE x \in Range(s)
    <3>1. PICK i \in 1 .. Len(s) : s[i] = x
      BY <2>2, RangeOf
    <3>2. i \in 1 .. Len(Append(s, e))
      BY <1>1
    <3> QED
      BY <1>1, <1>2, <3>1, <3>2, RangeOf
  <2> QED
    BY <2>1, <2>2
<1> QED
  BY <1>1, <1>3, <1>4

LEMMA HeadAndTail ==
  ASSUME NEW S, NEW s \in Seq(S), s # <<>>
  PROVE  /\ Head(s) \in S /\ Tail(s) \in Seq(S)
         /\ Len(s) \in Nat \ {0} /\ Len(Tail(s)) = Len(s) - 1
         /\ Head(s) = s[1] /\ \A i \in 1 .. Len(Tail(s)) : Tail(s)[i] = s[i + 1]
         /\ Range(s) = {Head(s)} \cup Range(Tail(s))
<1>1. /\ Head(s) \in S /\ Tail(s) \in Seq(S)
      /\ Len(s) \in Nat \ {0} /\ Len(Tail(s)) = Len(s) - 1
      /\ Head(s) = s[1] /\ \A i \in 1 .. Len(Tail(s)) : Tail(s)[i] = s[i + 1]
  BY HeadTailProperties, EmptySeq
<1> DEFINE t == Tail(s)
<1>2. t \in Seq(S) /\ Len(t) = Len(s) - 1 /\ \A i \in 1 .. Len(t) : t[i] = s[i + 1]
  BY <1>1
<1> HIDE DEF t
<1>3. \A x : x \in Range(t) <=> \E i \in 1 .. Len(t) : t[i] = x
  BY <1>2, RangeOf
<1>4. ASSUME NEW x \in Range(s)
      PROVE  x \in {Head(s)} \cup Range(t)
  <2>1. PICK i \in 1 .. Len(s) : s[i] = x
    BY RangeOf
  <2>2. CASE i = 1
    BY <1>1, <2>1, <2>2
  <2>3. CASE i # 1
    <3>1. i - 1 \in 1 .. Len(t) /\ (i - 1) + 1 = i
      BY <1>1, <1>2, <2>3
    <3>2. t[i - 1] = x
      BY <1>2, <2>1, <3>1
    <3> QED
      BY <1>3, <3>1, <3>2
  <2> QED
    BY <2>2, <2>3
<1>5. ASSUME NEW x \in Range(t)
      PROVE  x \in Range(s)
  <2>1. PICK i \in 1 .. Len(t) : t[i] = x
    BY <1>3
  <2>2. i + 1 \in 1 .. Len(s) /\ s[i + 1] = x
    BY <1>2, <1>1, <2>1
  <2> QED
    BY <2>2, RangeOf
<1>6. Head(s) \in Range(s)
  <2>1. 1 \in 1 .. Len(s)
    BY <1>1
  <2> QED
    BY <1>1, <2>1, RangeOf
<1> QED
  BY <1>1, <1>4, <1>5, <1>6 DEF t

LEMMA FirstIsOne ==
  ASSUME NEW matched \in SUBSET Playbooks, matched # {}
  PROVE  First(matched) \in matched
<1> DEFINE Hits == {i \in DOMAIN Books : Books[i] \in matched}
<1>1. Hits # {} /\ Hits \subseteq Nat
  <2>1. matched \subseteq Range(Books) /\ DOMAIN Books = 1 .. Len(Books)
    BY GatekeeperAssumption DEF Playbooks
  <2> QED
    BY <2>1 DEF Range
<1>2. PICK i \in Hits : \A j \in Hits : ~(<<j, i>> \in OpToRel(<, Nat))
  <2> HIDE DEF Hits
  <2> QED
    BY <1>1, NatLessThanWellFounded, WFMin
<1>3. \A j \in 1 .. i - 1 : Books[j] \notin matched
  <2> SUFFICES ASSUME NEW j \in 1 .. i - 1, Books[j] \in matched
               PROVE  FALSE
    OBVIOUS
  <2>1. i \in Nat /\ i \in 1 .. Len(Books) /\ Len(Books) \in Nat
    BY <1>1, GatekeeperAssumption
  <2>2. j \in Nat /\ j < i /\ j \in Hits
    BY <2>1, GatekeeperAssumption
  <2> QED
    BY <1>2, <2>1, <2>2 DEF OpToRel
<1>4. \E k \in DOMAIN Books : Books[k] \in matched /\ \A j \in 1 .. k - 1 : Books[j] \notin matched
  BY <1>2, <1>3
<1> QED
  BY <1>4 DEF First

-----------------------------------------------------------------------------
(* The order of events.                                                    *)

LEMMA BeforeInAppend ==
  ASSUME NEW S, NEW s \in Seq(S), NEW e \in S
  PROVE  /\ \A x, y : Before(s, x, y) => Before(Append(s, e), x, y)
         /\ \A x \in Range(s) : Before(Append(s, e), x, e)
<1> DEFINE t == Append(s, e)
<1>1. /\ t \in Seq(S) /\ Len(t) = Len(s) + 1 /\ Len(s) \in Nat
      /\ t[Len(s) + 1] = e /\ \A i \in 1 .. Len(s) : t[i] = s[i]
  BY AppendProperties
<1> HIDE DEF t
<1>2. ASSUME NEW x, NEW y, Before(s, x, y)
      PROVE  Before(t, x, y)
  <2>1. PICK a \in 1 .. Len(s), b \in 1 .. Len(s) : a < b /\ s[a] = x /\ s[b] = y
    BY <1>2 DEF Before
  <2>2. a \in 1 .. Len(t) /\ b \in 1 .. Len(t) /\ t[a] = x /\ t[b] = y
    BY <1>1, <2>1
  <2> QED
    BY <2>1, <2>2 DEF Before
<1>3. ASSUME NEW x \in Range(s)
      PROVE  Before(t, x, e)
  <2>1. PICK a \in 1 .. Len(s) : s[a] = x
    BY RangeOf
  <2>2. /\ a \in 1 .. Len(t) /\ Len(s) + 1 \in 1 .. Len(t) /\ a < Len(s) + 1
        /\ t[a] = x /\ t[Len(s) + 1] = e
    BY <1>1, <2>1
  <2> QED
    BY <2>2 DEF Before
<1> QED
  BY <1>2, <1>3 DEF t

LEMMA FollowsInAppend ==
  ASSUME NEW S, NEW s \in Seq(S), NEW e \in S, NEW r, Follows(r, s),
         \A x \in Range(s) : Before(r, x, e)
  PROVE  Follows(r, Append(s, e))
<1> DEFINE t == Append(s, e)
<1>1. /\ t \in Seq(S) /\ Len(t) = Len(s) + 1 /\ Len(s) \in Nat
      /\ t[Len(s) + 1] = e /\ \A i \in 1 .. Len(s) : t[i] = s[i] /\ s[i] \in Range(s)
  BY AppendProperties, RangeOf
<1> HIDE DEF t
<1>2. ASSUME NEW i \in 1 .. Len(t), NEW j \in 1 .. Len(t), i < j
      PROVE  Before(r, t[i], t[j])
  <2>1. i \in 1 .. Len(s) /\ t[i] = s[i] /\ s[i] \in Range(s)
    BY <1>1, <1>2
  <2>2. CASE j = Len(s) + 1
    BY <1>1, <2>1, <2>2
  <2>3. CASE j \in 1 .. Len(s)
    <3>1. Before(r, s[i], s[j])
      BY <1>2, <2>1, <2>3 DEF Follows
    <3> QED
      BY <1>1, <2>1, <2>3, <3>1
  <2> QED
    BY <1>1, <2>2, <2>3
<1>3. Follows(r, t)
  BY <1>2 DEF Follows
<1> QED
  BY <1>3 DEF t

LEMMA FollowsInTail ==
  ASSUME NEW S, NEW s \in Seq(S), s # <<>>, NEW r, Follows(r, s)
  PROVE  /\ Follows(r, Tail(s))
         /\ \A x \in Range(Tail(s)) : Before(r, Head(s), x)
<1> DEFINE t == Tail(s)
<1>1. /\ t \in Seq(S) /\ Len(t) = Len(s) - 1 /\ Len(s) \in Nat \ {0}
      /\ Head(s) = s[1] /\ \A i \in 1 .. Len(t) : t[i] = s[i + 1]
  BY HeadAndTail
<1> HIDE DEF t
<1>2. ASSUME NEW i \in 1 .. Len(t)
      PROVE  i + 1 \in 1 .. Len(s) /\ t[i] = s[i + 1] /\ 1 \in 1 .. Len(s) /\ 1 < i + 1
  BY <1>1
<1>3. ASSUME NEW i \in 1 .. Len(t), NEW j \in 1 .. Len(t), i < j
      PROVE  Before(r, t[i], t[j])
  <2>1. i + 1 \in 1 .. Len(s) /\ j + 1 \in 1 .. Len(s) /\ i + 1 < j + 1
    BY <1>2, <1>3
  <2>2. Before(r, s[i + 1], s[j + 1])
    BY <2>1 DEF Follows
  <2> QED
    BY <1>2, <2>2
<1>4. ASSUME NEW x \in Range(t)
      PROVE  Before(r, Head(s), x)
  <2>1. PICK i \in 1 .. Len(t) : t[i] = x
    BY <1>1, RangeOf
  <2>2. Before(r, s[1], s[i + 1])
    BY <1>2 DEF Follows
  <2> QED
    BY <1>1, <1>2, <2>1, <2>2
<1>5. Follows(r, t) /\ \A x \in Range(t) : Before(r, Head(s), x)
  BY <1>3, <1>4 DEF Follows
<1> QED
  BY <1>5 DEF t

-----------------------------------------------------------------------------
(* Jobs.                                                                   *)

LEMMA TypesOfConstants ==
  /\ \A p \in Playbooks :
       Actions[p] \in Seq(Tiers) /\ Len(Actions[p]) \in Nat /\ Len(Actions[p]) > 0
         /\ DOMAIN Actions[p] = 1 .. Len(Actions[p])
  /\ \A e \in Events, p \in Playbooks, n \in Nat :
       n \in 1 .. Len(Actions[p]) => <<e, p, n>> \in Ids
  /\ Idle \in Jobs
<1>1. ASSUME NEW p \in Playbooks
      PROVE  Actions[p] \in Seq(Tiers) /\ Len(Actions[p]) \in Nat /\ Len(Actions[p]) > 0
               /\ DOMAIN Actions[p] = 1 .. Len(Actions[p])
  <2>1. Actions[p] \in Seq(Tiers) /\ Actions[p] # <<>>
    BY GatekeeperAssumption
  <2> QED
    BY <2>1, EmptySeq, LenProperties
<1>2. ASSUME NEW e \in Events, NEW p \in Playbooks, NEW n \in Nat, n \in 1 .. Len(Actions[p])
      PROVE  <<e, p, n>> \in Ids
  <2>1. <<e, p, n>> \in Events \X {p} \X DOMAIN Actions[p]
    BY <1>1, <1>2
  <2> QED
    BY <2>1 DEF Ids
<1>3. Idle \in Jobs
  <2>1. <<>> \in Seq(Events)
    OBVIOUS
  <2> QED
    BY <2>1 DEF Idle, Jobs, Opts
<1> QED
  BY <1>1, <1>2, <1>3

LEMMA BeganIs ==
  ASSUME TypeOK, NEW j \in Jobs, NEW e \in Events, NEW m \in SUBSET Playbooks
  PROVE  /\ Began(j, e, m) \in Jobs
         /\ Began(j, e, m).at = (IF m = {} THEN "take" ELSE "act")
         /\ Began(j, e, m).opt = j.opt /\ Began(j, e, m).rest = j.rest
         /\ Began(j, e, m).ev = <<e>> /\ Began(j, e, m).dry = DryFor(j.opt)
         /\ Began(j, e, m).todo = m /\ Began(j, e, m).step = 0
<1>1. DryFor(j.opt) \in BOOLEAN
  BY DEF DryFor, TypeOK
<1>2. <<e>> \in {<<>>} \cup {<<f>> : f \in Events}
  OBVIOUS
<1> QED
  BY <1>1, <1>2 DEF Began, Jobs

LEMMA EventsApart ==
  ASSUME TypeOK, JobsMakeSense, EventsInOrder, EventsOnce,
         NEW w \in Workers, NEW e \in Events, job[w].ev = <<e>>
  PROVE  ~Waiting(e) /\ \A v \in Workers : job[v].ev = <<e>> => v = w
<1>1. \A v \in Cycles : job[v].ev # <<>> => job[v].at # "idle"
  BY DEF JobsMakeSense, Workers, Idle
<1>2. ~Before(accepted, e, e)
  <2>1. Len(accepted) \in Nat
    BY LenProperties DEF TypeOK
  <2>2. \A a, b \in 1 .. Len(accepted) : a < b => a # b
    BY <2>1
  <2> QED
    BY <2>2 DEF Before, EventsInOrder
<1>3. CASE w \in Cycles
  <2>1. e \in Range(taken)
    BY <1>3 DEF EventsOnce
  <2>2. ~Waiting(e)
    BY <1>2, <2>1 DEF EventsInOrder, Precede, Waiting
  <2>3. \A v \in Cycles : job[v].ev = <<e>> => v = w
    BY <1>1, <1>3 DEF JobsMakeSense
  <2>4. \A v \in Processors : job[v].ev # <<e>>
    BY <2>1 DEF EventsOnce, EventsInOrder
  <2> QED
    BY <2>2, <2>3, <2>4 DEF Workers
<1>4. CASE w \in Processors
  <2>1. e \notin fresh /\ e \notin Range(accepted)
    BY <1>4 DEF EventsOnce
  <2>2. ~Waiting(e)
    BY <2>1 DEF EventsInOrder, Waiting
  <2>3. \A v \in Processors : job[v].ev = <<e>> => v = w
    BY <1>4 DEF EventsOnce
  <2>4. \A v \in Cycles : job[v].ev # <<e>>
    BY <2>1 DEF EventsOnce, EventsInOrder
  <2> QED
    BY <2>2, <2>3, <2>4 DEF Workers
<1> QED
  BY <1>3, <1>4 DEF Workers

LEMMA IdleCyclesHaveNoRest ==
  ASSUME JobsMakeSense, NEW k \in Cycles, job[k].at = "idle"
  PROVE  job[k].rest = <<>> /\ Range(job[k].rest) = {} /\ job[k].ev = <<>>
BY EmptyRange DEF JobsMakeSense, Workers, Idle

LEMMA NoOrder ==
  ASSUME NEW r, NEW A
  PROVE  Follows(r, <<>>) /\ Precede(r, A, {}) /\ Precede(r, {}, A)
BY DEF Follows, Precede

\* What cycle k does with the drained events s, whatever they were drained from.
LEMMA GoOnKeeps ==
  ASSUME GatekeeperInv, NEW k \in Cycles, NEW j \in Jobs, NEW s \in Seq(Events), GoOn(k, j, s),
         \A l \in Cycles \ {k} : job[l].at = "idle",
         UNCHANGED <<dryRun, fresh, accepted, effects, people>>,
         queue' \in Seq(Events), Range(queue') \subseteq Range(queue), Follows(accepted, queue'),
         Range(s) \subseteq Range(accepted), Follows(accepted, s),
         Precede(accepted, Range(taken), Range(s)), Precede(accepted, Range(s), Range(queue')),
         \A e \in Range(s) : Waiting(e),
         Range(accepted) = Range(queue') \cup Range(taken) \cup lost \cup Range(s),
         wentLive' \in BOOLEAN, wentLive => wentLive', j.opt = "live" => wentLive'
  PROVE  GatekeeperInv'
<1> DEFINE J == job'[k]
<1>1. /\ k \in Workers /\ accepted \in Seq(Events) /\ taken \in Seq(Events)
      /\ job \in [Workers -> Jobs] /\ lost \subseteq Events
      /\ \A e \in Range(s) : e \in Events
      /\ Idle \in Jobs
      /\ Idle.at = "idle" /\ Idle.opt = "none" /\ Idle.ev = <<>> /\ Idle.dry /\ Idle.rest = <<>>
      /\ \A e \in Events : Idle.ev # <<e>>
  <2>1. \A e \in Events : <<>> # <<e>>
    OBVIOUS
  <2> QED
    BY <2>1, RangeOf, TypesOfConstants DEF GatekeeperInv, TypeOK, Workers, Idle
<1>2. /\ J \in Jobs /\ job' = [job EXCEPT ![k] = J] /\ pending' \subseteq pending
      /\ taken' \in Seq(Events) /\ lost' \subseteq Events /\ isRunning' \in BOOLEAN
      /\ J.at = "idle" => J = Idle
      /\ J.at # "idle" => isRunning'
      /\ J.at # "audit" /\ (J.at = "act" => J.step = 0 /\ J.todo # {} /\ J.ev # <<>>)
      /\ J.opt = "live" \/ ~J.dry => wentLive'
      /\ \A e \in Events : J.ev = <<e>> => e \in Range(s) /\ e \in Range(taken')
      /\ Range(taken) \subseteq Range(taken') /\ Range(taken') \subseteq Range(accepted)
      /\ Range(J.rest) \subseteq Range(s)
      /\ Follows(accepted, taken') /\ Follows(accepted, J.rest)
      /\ Precede(accepted, Range(taken'), Range(queue'))
      /\ Precede(accepted, Range(taken'), Range(J.rest))
      /\ Precede(accepted, Range(J.rest), Range(queue'))
      /\ Range(accepted) = Range(queue') \cup Range(taken') \cup lost' \cup Range(J.rest)
  <2>1. /\ Range(taken) \subseteq Range(accepted) /\ Follows(accepted, taken)
        /\ Precede(accepted, Range(taken), Range(queue'))
    BY DEF GatekeeperInv, EventsInOrder, Precede
  <2>2. CASE s = <<>> /\ EndCycle(k)
    <3>1. /\ job' = [job EXCEPT ![k] = Idle] /\ isRunning' = FALSE
          /\ pending' \subseteq pending /\ taken' = taken /\ lost' = lost
      BY <2>2 DEF EndCycle, CleanedUp
    <3>2. J = Idle /\ Range(J.rest) = {} /\ Range(s) = {} /\ Follows(accepted, J.rest)
      BY <1>1, <2>2, <3>1, EmptyRange, NoOrder
    <3>3. job' = [job EXCEPT ![k] = J]
      BY <1>1, <3>1, <3>2
    <3>4. \A e \in Events : J.ev # <<e>>
      BY <1>1, <3>2
    <3> HIDE DEF J
    <3> QED
      BY <1>1, <2>1, <3>1, <3>2, <3>3, <3>4, NoOrder
  <2>3. ASSUME s # <<>>
        PROVE  /\ Head(s) \in Range(s) /\ Head(s) \in Events /\ Tail(s) \in Seq(Events)
               /\ Range(s) = {Head(s)} \cup Range(Tail(s))
               /\ Append(taken, Head(s)) \in Seq(Events)
               /\ Range(Append(taken, Head(s))) = Range(taken) \cup {Head(s)}
               /\ Follows(accepted, Append(taken, Head(s))) /\ Follows(accepted, Tail(s))
               /\ Precede(accepted, Range(taken) \cup {Head(s)}, Range(queue'))
               /\ Precede(accepted, Range(taken) \cup {Head(s)}, Range(Tail(s)))
               /\ Precede(accepted, Range(Tail(s)), Range(queue'))
    <3>1. /\ Head(s) \in Range(s) /\ Head(s) \in Events /\ Tail(s) \in Seq(Events)
          /\ Range(s) = {Head(s)} \cup Range(Tail(s))
      BY <2>3, HeadAndTail
    <3>2. /\ Append(taken, Head(s)) \in Seq(Events)
          /\ Range(Append(taken, Head(s))) = Range(taken) \cup {Head(s)}
      BY <1>1, <3>1, RangeOfAppend
    <3>3. \A x \in Range(taken) : Before(accepted, x, Head(s))
      BY <3>1 DEF Precede
    <3>4. Follows(accepted, Append(taken, Head(s)))
      BY <1>1, <2>1, <3>1, <3>3, FollowsInAppend
    <3>5. Follows(accepted, Tail(s)) /\ \A x \in Range(Tail(s)) : Before(accepted, Head(s), x)
      BY <2>3, FollowsInTail
    <3> QED
      BY <2>1, <3>1, <3>2, <3>4, <3>5 DEF Precede
  <2>4. CASE s # <<>> /\ TakeUp(k, j, Head(s), Tail(s))
    <3> DEFINE i == [j EXCEPT !.rest = Tail(s)]
    <3>1. PICK m \in SUBSET Playbooks : job' = [job EXCEPT ![k] = Began(i, Head(s), m)]
      <4>1. Concerns[Head(s)] \subseteq Playbooks
        BY <2>3, <2>4, GatekeeperAssumption
      <4>2. \E m \in SUBSET Concerns[Head(s)] : job' = [job EXCEPT ![k] = Began(i, Head(s), m)]
        BY <2>4 DEF TakeUp
      <4> QED
        BY <4>1, <4>2
    <3>2. i \in Jobs /\ i.opt = j.opt /\ i.rest = Tail(s)
      BY <2>3, <2>4 DEF Jobs
    <3> HIDE DEF i
    <3>3. J = Began(i, Head(s), m) /\ job' = [job EXCEPT ![k] = J]
      BY <1>1, <3>1
    <3>4. /\ J \in Jobs /\ J.at = (IF m = {} THEN "take" ELSE "act") /\ J.opt = j.opt
          /\ J.rest = Tail(s) /\ J.ev = <<Head(s)>> /\ J.dry = DryFor(j.opt)
          /\ J.todo = m /\ J.step = 0
      BY <2>3, <2>4, <3>2, <3>3, BeganIs DEF GatekeeperInv
    <3>5. taken' = Append(taken, Head(s)) /\ isRunning' = TRUE /\ pending' = pending /\ lost' = lost
      BY <2>4 DEF TakeUp
    <3>6. ~DryFor(j.opt) => wentLive'
      BY DEF GatekeeperInv, LiveIsAskedFor, DryFor, Jobs, Opts
    <3>7. \A e \in Events : J.ev = <<e>> => e = Head(s)
      BY <3>4
    <3>8. J.ev # <<>>
      BY <3>4
    <3> HIDE DEF J
    <3> QED
      BY <1>1, <2>1, <2>3, <2>4, <3>3, <3>4, <3>5, <3>6, <3>7, <3>8
  <2>5. CASE s # <<>> /\ FailCycle(k, Head(s), Tail(s))
    <3>1. /\ job' = [job EXCEPT ![k] = Idle] /\ isRunning' = FALSE /\ pending' = pending
          /\ taken' = Append(taken, Head(s)) /\ lost' = lost \cup Range(Tail(s))
      BY <2>5 DEF FailCycle
    <3>2. J = Idle /\ Range(J.rest) = {} /\ Follows(accepted, J.rest)
      BY <1>1, <3>1, EmptyRange, NoOrder
    <3>3. job' = [job EXCEPT ![k] = J]
      BY <1>1, <3>1, <3>2
    <3>4. \A e \in Events : J.ev # <<e>>
      BY <1>1, <3>2
    <3>5. /\ lost' \subseteq Events
          /\ Range(accepted) = Range(queue') \cup Range(taken') \cup lost' \cup Range(J.rest)
      BY <1>1, <2>3, <2>5, <3>1, <3>2
    <3>6. /\ Precede(accepted, Range(taken'), Range(J.rest))
          /\ Precede(accepted, Range(J.rest), Range(queue'))
      BY <3>2, NoOrder
    <3> HIDE DEF J
    <3> QED
      BY <1>1, <2>1, <2>3, <2>5, <3>1, <3>2, <3>3, <3>4, <3>5, <3>6
  <2> QED
    BY <2>2, <2>4, <2>5 DEF GoOn
<1>3. \A w \in Workers \ {k} : job'[w] = job[w]
  BY <1>1, <1>2
<1> HIDE DEF J
<1>4. \A l \in Cycles \ {k} : job'[l] = Idle
  BY <1>3 DEF GatekeeperInv, JobsMakeSense, Workers
<1>5. \A w \in Processors : job'[w] = job[w]
  BY <1>3, GatekeeperAssumption DEF Workers
<1>6. TypeOK'
  BY <1>1, <1>2 DEF GatekeeperInv, TypeOK, people
<1>7. JobsMakeSense'
  <2>1. ASSUME NEW w \in Workers
        PROVE  /\ job'[w].at = "idle" => job'[w] = Idle
               /\ job'[w].at \in {"act", "audit"} => job'[w].todo # {} /\ job'[w].ev # <<>>
               /\ job'[w].at = "act" => job'[w].step < Len(Actions[First(job'[w].todo)])
    <3>1. CASE w = k
      <4>1. ASSUME J.at = "act"
            PROVE  J.step < Len(Actions[First(J.todo)])
        <5>1. J.todo \in SUBSET Playbooks /\ J.todo # {} /\ J.step = 0
          BY <1>1, <1>2, <4>1 DEF Jobs
        <5> QED
          BY <5>1, FirstIsOne, TypesOfConstants
      <4> QED
        BY <1>1, <1>2, <3>1, <4>1 DEF J
    <3>2. CASE w # k
      BY <1>3, <3>2 DEF GatekeeperInv, JobsMakeSense, Book
    <3> QED
      BY <3>1, <3>2
  <2>2. \A w \in Processors : job'[w].rest = <<>>
    BY <1>5 DEF GatekeeperInv, JobsMakeSense
  <2>3. \A l \in Cycles : job'[l].at # "idle" => l = k /\ isRunning'
    BY <1>1, <1>2, <1>4 DEF J
  <2> QED
    BY <2>1, <2>2, <2>3 DEF JobsMakeSense, Book
<1>8. LiveIsAskedFor'
  BY <1>2, <1>3 DEF GatekeeperInv, LiveIsAskedFor, ContainedOnlyLive, J
<1>9. EventsInOrder'
  <2>1. ASSUME NEW l \in Cycles
        PROVE  /\ Range(job'[l].rest) \subseteq Range(accepted)
               /\ Follows(accepted, job'[l].rest)
               /\ Precede(accepted, Range(taken'), Range(job'[l].rest))
               /\ Precede(accepted, Range(job'[l].rest), Range(queue'))
    <3>1. CASE l = k
      BY <1>2, <3>1 DEF J
    <3>2. CASE l # k
      <4>1. job'[l].rest = <<>>
        BY <1>1, <1>4, <3>2
      <4> QED
        BY <4>1, EmptyRange, NoOrder
    <3> QED
      BY <3>1, <3>2
  <2> QED
    BY <1>2, <2>1 DEF GatekeeperInv, EventsInOrder
<1>10. EventsOnce'
  <2>1. \A l \in Cycles \ {k} : \A e \in Events : job'[l].ev # <<e>>
    BY <1>1, <1>4
  <2>2. \A l \in Cycles : \A e \in Events : job'[l].ev = <<e>> => e \in Range(taken')
    BY <1>2, <2>1 DEF J
  <2> QED
    BY <1>5, <2>2 DEF GatekeeperInv, EventsOnce
<1>11. AskedInTurn'
  <2>1. ASSUME NEW e \in Events, NEW p \in Playbooks, NEW n \in DOMAIN Actions[p],
               Waiting(e)' \/ \E w \in Workers : Ahead(w, e, p, n)'
        PROVE  Waiting(e) \/ \E w \in Workers : Ahead(w, e, p, n)
    <3>1. CASE Waiting(e)'
      <4>1. CASE \E l \in Cycles : e \in Range(job'[l].rest)
        BY <1>1, <1>2, <1>4, <4>1, EmptyRange DEF J
      <4> QED
        BY <3>1, <4>1 DEF Waiting
    <3>2. CASE \E w \in Workers : Ahead(w, e, p, n)'
      <4>1. PICK w \in Workers : Ahead(w, e, p, n)'
        BY <3>2
      <4>2. CASE w = k
        BY <1>2, <4>1, <4>2 DEF Ahead, J
      <4>3. CASE w # k
        BY <1>3, <4>1, <4>3 DEF Ahead, Book
      <4> QED
        BY <4>2, <4>3
    <3> QED
      BY <2>1, <3>1, <3>2
  <2>2. \A i : Untouched(i) => Untouched(i)'
    BY <1>2 DEF Untouched, people
  <2> QED
    BY <2>1, <2>2 DEF GatekeeperInv, AskedInTurn
<1>12. PendingOnce'
  BY <1>2 DEF GatekeeperInv, PendingOnce, HardenedOnOneYes, people
<1>13. NothingVanishes'
  <2>1. UNION {Range(job'[l].rest) : l \in Cycles} = Range(J.rest)
    BY <1>1, <1>4, EmptyRange DEF J
  <2> QED
    BY <1>2, <2>1 DEF NothingVanishes
<1> QED
  BY <1>6, <1>7, <1>8, <1>9, <1>10, <1>11, <1>12, <1>13 DEF GatekeeperInv

-----------------------------------------------------------------------------
(* Every step keeps the invariant.                                         *)

LEMMA ConfigureKeeps ==
  ASSUME GatekeeperInv, Configure
  PROVE  GatekeeperInv'
<1> USE DEF Configure, trace, people
<1>1. TypeOK'
  BY DEF GatekeeperInv, TypeOK
<1>2. JobsMakeSense'
  BY DEF GatekeeperInv, JobsMakeSense, Book
<1>3. LiveIsAskedFor'
  BY DEF GatekeeperInv, TypeOK, LiveIsAskedFor, ContainedOnlyLive
<1>4. EventsInOrder' /\ EventsOnce' /\ NothingVanishes'
  BY DEF GatekeeperInv, EventsInOrder, EventsOnce, NothingVanishes
<1>5. AskedInTurn' /\ PendingOnce'
  BY DEF GatekeeperInv, AskedInTurn, Waiting, Ahead, Book, Untouched, PendingOnce, HardenedOnOneYes
<1> QED
  BY <1>1, <1>2, <1>3, <1>4, <1>5 DEF GatekeeperInv

LEMMA EnqueueKeeps ==
  ASSUME GatekeeperInv, NEW e \in Events, Enqueue(e)
  PROVE  GatekeeperInv'
<1> DEFINE q == IF Len(queue) = QueueMax THEN Tail(queue) ELSE queue
<1>1. /\ queue \in Seq(Events) /\ accepted \in Seq(Events) /\ taken \in Seq(Events)
      /\ e \in fresh /\ e \notin Range(accepted)
      /\ Range(queue) \subseteq Range(accepted) /\ Range(taken) \subseteq Range(accepted)
      /\ \A k \in Cycles : Range(job[k].rest) \subseteq Range(accepted)
  BY DEF GatekeeperInv, TypeOK, EventsInOrder, Enqueue
<1>2. Len(queue) = QueueMax => queue # <<>>
  BY <1>1, GatekeeperAssumption
<1>3. /\ q \in Seq(Events) /\ Range(q) \subseteq Range(queue) /\ Follows(accepted, q)
      /\ queue' = Append(q, e)
      /\ lost \subseteq lost' /\ lost' \subseteq Events /\ lost' \cup Range(q) = lost \cup Range(queue)
  <2>1. Follows(accepted, queue)
    BY DEF GatekeeperInv, EventsInOrder
  <2>2. CASE Len(queue) = QueueMax
    <3>1. /\ Head(queue) \in Events /\ Tail(queue) \in Seq(Events)
          /\ Range(queue) = {Head(queue)} \cup Range(Tail(queue))
      BY <1>1, <1>2, <2>2, HeadAndTail
    <3>2. Follows(accepted, Tail(queue))
      BY <1>1, <1>2, <2>1, <2>2, FollowsInTail
    <3>3. q = Tail(queue) /\ queue' = Append(q, e) /\ lost' = lost \cup {Head(queue)}
      BY <2>2 DEF Enqueue
    <3> HIDE DEF q
    <3> QED
      BY <3>1, <3>2, <3>3 DEF GatekeeperInv, TypeOK
  <2>3. CASE Len(queue) # QueueMax
    <3>1. q = queue /\ queue' = Append(q, e) /\ lost' = lost
      BY <2>3 DEF Enqueue
    <3> HIDE DEF q
    <3> QED
      BY <1>1, <2>1, <3>1 DEF GatekeeperInv, TypeOK
  <2> QED
    BY <2>2, <2>3
<1> HIDE DEF q
<1>4. /\ accepted' = Append(accepted, e) /\ accepted' \in Seq(Events)
      /\ Range(accepted') = Range(accepted) \cup {e}
      /\ queue' \in Seq(Events) /\ Range(queue') = Range(q) \cup {e}
  BY <1>1, <1>3, RangeOfAppend DEF Enqueue
<1>5. /\ \A x, y : Before(accepted, x, y) => Before(accepted', x, y)
      /\ \A x \in Range(accepted) : Before(accepted', x, e)
  BY <1>1, <1>4, BeforeInAppend
<1>6. /\ job' = job /\ taken' = taken /\ fresh' = fresh \ {e} /\ pending' = pending
      /\ rotated' = rotated /\ verdicts' = verdicts /\ effects' = effects
      /\ dryRun' = dryRun /\ isRunning' = isRunning /\ wentLive' = wentLive
  BY DEF Enqueue, people
<1>7. TypeOK'
  BY <1>3, <1>4, <1>6 DEF GatekeeperInv, TypeOK
<1>8. JobsMakeSense' /\ LiveIsAskedFor'
  BY <1>6 DEF GatekeeperInv, JobsMakeSense, Book, LiveIsAskedFor, ContainedOnlyLive
<1>9. EventsInOrder'
  <2>1. \A a, b \in 1 .. Len(accepted') : accepted'[a] = accepted'[b] => a = b
    <3>1. /\ Len(accepted') = Len(accepted) + 1 /\ Len(accepted) \in Nat
          /\ accepted'[Len(accepted) + 1] = e
          /\ \A i \in 1 .. Len(accepted) : accepted'[i] = accepted[i] /\ accepted[i] # e
      BY <1>1, <1>4, AppendProperties, RangeOf
    <3>2. \A a, b \in 1 .. Len(accepted) : accepted[a] = accepted[b] => a = b
      BY DEF GatekeeperInv, EventsInOrder
    <3> QED
      BY <3>1, <3>2
  <2>2. Range(accepted') \cap fresh' = {}
    BY <1>4, <1>6 DEF GatekeeperInv, EventsInOrder
  <2>3. \A s : Follows(accepted, s) => Follows(accepted', s)
    BY <1>5 DEF Follows
  <2>4. \A A, B : Precede(accepted, A, B) => Precede(accepted', A, B)
    BY <1>5 DEF Precede
  <2>5. Follows(accepted', queue')
    <3>1. Follows(accepted', q) /\ \A x \in Range(q) : Before(accepted', x, e)
      BY <1>1, <1>3, <1>5, <2>3
    <3> QED
      BY <1>3, <3>1, FollowsInAppend
  <2>6. \A A : Precede(accepted, A, Range(queue)) /\ A \subseteq Range(accepted)
                 => Precede(accepted', A, Range(queue'))
    BY <1>3, <1>4, <1>5 DEF Precede
  <2>7. ASSUME NEW k \in Cycles
        PROVE  /\ Range(job'[k].rest) \subseteq Range(accepted')
               /\ Follows(accepted', job'[k].rest)
               /\ Precede(accepted', Range(taken'), Range(job'[k].rest))
               /\ Precede(accepted', Range(job'[k].rest), Range(queue'))
    BY <1>1, <1>4, <1>6, <2>3, <2>4, <2>6 DEF GatekeeperInv, EventsInOrder
  <2>8. Range(taken') \subseteq Range(accepted') /\ Range(queue') \subseteq Range(accepted')
    BY <1>1, <1>3, <1>4, <1>6
  <2>9. Follows(accepted', taken') /\ Precede(accepted', Range(taken'), Range(queue'))
    BY <1>1, <1>6, <2>3, <2>6 DEF GatekeeperInv, EventsInOrder
  <2> QED
    BY <2>1, <2>2, <2>5, <2>7, <2>8, <2>9 DEF EventsInOrder
<1>10. EventsOnce'
  BY <1>1, <1>4, <1>6 DEF GatekeeperInv, EventsOnce
<1>11. AskedInTurn'
  <2>1. \A f \in Events : Waiting(f)' => Waiting(f)
    BY <1>1, <1>3, <1>4, <1>6 DEF Waiting
  <2> QED
    BY <1>6, <2>1 DEF GatekeeperInv, AskedInTurn, Ahead, Book, Untouched
<1>12. PendingOnce'
  BY <1>6 DEF GatekeeperInv, PendingOnce, HardenedOnOneYes
<1>13. NothingVanishes'
  BY <1>3, <1>4, <1>6 DEF GatekeeperInv, NothingVanishes
<1> QED
  BY <1>7, <1>8, <1>9, <1>10, <1>11, <1>12, <1>13 DEF GatekeeperInv

LEMMA AnswerKeeps ==
  ASSUME GatekeeperInv, NEW w \in Processors, Answer(w)
  PROVE  GatekeeperInv'
<1>1. /\ job \in [Workers -> Jobs] /\ w \in Workers /\ job' = [job EXCEPT ![w] = Idle]
      /\ Idle \in Jobs /\ Idle.at = "idle" /\ Idle.opt = "none" /\ Idle.dry
      /\ Idle.ev = <<>> /\ Idle.rest = <<>>
  BY TypesOfConstants DEF GatekeeperInv, TypeOK, Workers, Answer, Idle
<1>2. /\ job'[w] = Idle /\ \A v \in Workers \ {w} : job'[v] = job[v]
      /\ \A k \in Cycles : job'[k] = job[k]
      /\ \A e \in Events : job'[w].ev # <<e>>
  <2>1. \A e \in Events : <<>> # <<e>>
    OBVIOUS
  <2> QED
    BY <1>1, <2>1, GatekeeperAssumption DEF Workers
<1> USE DEF Answer, trace, people
<1>3. TypeOK'
  BY <1>1 DEF GatekeeperInv, TypeOK
<1>4. JobsMakeSense' /\ LiveIsAskedFor'
  BY <1>1, <1>2 DEF GatekeeperInv, JobsMakeSense, Book, LiveIsAskedFor, ContainedOnlyLive, Workers
<1>5. EventsInOrder' /\ EventsOnce' /\ NothingVanishes'
  BY <1>1, <1>2 DEF GatekeeperInv, EventsInOrder, EventsOnce, NothingVanishes, Workers
<1>6. AskedInTurn' /\ PendingOnce'
  BY <1>1, <1>2 DEF GatekeeperInv, AskedInTurn, Waiting, Ahead, Book, Untouched, PendingOnce, HardenedOnOneYes
<1> QED
  BY <1>3, <1>4, <1>5, <1>6 DEF GatekeeperInv

LEMMA ProcessKeeps ==
  ASSUME GatekeeperInv, NEW w \in Processors, NEW opt \in Opts, Process(w, opt)
  PROVE  GatekeeperInv'
<1> DEFINE J == job'[w]
<1>1. PICK e \in fresh :
        /\ fresh' = fresh \ {e}
        /\ \/ \E m \in SUBSET Playbooks :
                job' = [job EXCEPT ![w] = Began([Idle EXCEPT !.opt = opt], e, m)]
           \/ job' = job
  <2>1. PICK e \in fresh :
          /\ fresh' = fresh \ {e}
          /\ \/ \E m \in SUBSET Concerns[e] :
                  job' = [job EXCEPT ![w] = Began([Idle EXCEPT !.opt = opt], e, m)]
             \/ job' = job
    BY DEF Process
  <2>2. Concerns[e] \subseteq Playbooks
    BY GatekeeperAssumption DEF GatekeeperInv, TypeOK
  <2> QED
    BY <2>1, <2>2
<1>2. /\ w \in Workers /\ w \notin Cycles /\ job \in [Workers -> Jobs] /\ e \in Events
      /\ fresh \subseteq Events /\ job[w] = Idle
      /\ Idle \in Jobs /\ Idle.ev = <<>> /\ Idle.rest = <<>>
      /\ e \notin Range(accepted) /\ \A f \in Events : <<>> # <<f>>
  BY GatekeeperAssumption, TypesOfConstants DEF GatekeeperInv, TypeOK, EventsInOrder, Workers, Process, Idle
<1>3. /\ wentLive' = (wentLive \/ opt = "live") /\ wentLive' \in BOOLEAN
      /\ UNCHANGED <<dryRun, queue, isRunning, pending, accepted, taken, lost, effects, rotated, verdicts>>
  BY DEF Process, AskedFor, trace, people
<1>4. /\ J \in Jobs /\ job' = [job EXCEPT ![w] = J] /\ J.rest = <<>>
      /\ J.at = "idle" => J = Idle
      /\ J.at # "audit" /\ (J.at = "act" => J.step = 0 /\ J.todo # {} /\ J.ev # <<>>)
      /\ J.opt = "live" \/ ~J.dry => wentLive'
      /\ J.ev # <<>> => J.ev = <<e>>
  <2>1. CASE job' = job
    BY <1>2, <1>3, <2>1 DEF GatekeeperInv, JobsMakeSense, LiveIsAskedFor, Idle
  <2>2. ASSUME NEW m \in SUBSET Playbooks,
               job' = [job EXCEPT ![w] = Began([Idle EXCEPT !.opt = opt], e, m)]
        PROVE  <1>4!:
    <3> DEFINE i == [Idle EXCEPT !.opt = opt]
    <3>1. i \in Jobs /\ i.opt = opt /\ i.rest = <<>>
      BY <1>2 DEF Jobs, Idle
    <3> HIDE DEF i
    <3>2. J = Began(i, e, m) /\ job' = [job EXCEPT ![w] = J]
      BY <1>2, <2>2 DEF i
    <3>3. /\ J \in Jobs /\ J.at = (IF m = {} THEN "take" ELSE "act") /\ J.opt = opt
          /\ J.rest = <<>> /\ J.ev = <<e>> /\ J.dry = DryFor(opt)
          /\ J.todo = m /\ J.step = 0
      BY <1>2, <3>1, <3>2, BeganIs DEF GatekeeperInv
    <3>4. ~DryFor(opt) => wentLive'
      BY <1>3 DEF GatekeeperInv, LiveIsAskedFor, DryFor, Opts
    <3> HIDE DEF J
    <3> QED
      BY <1>2, <1>3, <3>2, <3>3, <3>4
  <2> QED
    BY <1>1, <2>1, <2>2
<1>5. /\ \A v \in Workers \ {w} : job'[v] = job[v]
      /\ \A k \in Cycles : job'[k] = job[k]
  BY <1>2, <1>4 DEF Workers
<1> HIDE DEF J
<1>6. TypeOK'
  BY <1>1, <1>2, <1>3, <1>4 DEF GatekeeperInv, TypeOK
<1>7. JobsMakeSense'
  <2>1. ASSUME J.at = "act"
        PROVE  J.step < Len(Actions[First(J.todo)])
    <3>1. J.todo \in SUBSET Playbooks /\ J.todo # {} /\ J.step = 0
      BY <1>4, <2>1 DEF Jobs
    <3> QED
      BY <3>1, FirstIsOne, TypesOfConstants
  <2>2. /\ J.at = "idle" => J = Idle
        /\ J.at \in {"act", "audit"} => J.todo # {} /\ J.ev # <<>>
        /\ J.at = "act" => J.step < Len(Actions[First(J.todo)])
    BY <1>4, <2>1
  <2>3. \A v \in Workers :
          /\ job'[v].at = "idle" => job'[v] = Idle
          /\ job'[v].at \in {"act", "audit"} => job'[v].todo # {} /\ job'[v].ev # <<>>
          /\ job'[v].at = "act" => job'[v].step < Len(Actions[First(job'[v].todo)])
    BY <1>5, <2>2 DEF GatekeeperInv, JobsMakeSense, Book, J
  <2>4. \A v \in Processors : job'[v].rest = <<>>
    BY <1>4, <1>5 DEF GatekeeperInv, JobsMakeSense, Workers, J
  <2>5. \A k \in Cycles : job'[k].at # "idle" =>
          isRunning' /\ \A l \in Cycles : job'[l].at # "idle" => l = k
    BY <1>3, <1>5 DEF GatekeeperInv, JobsMakeSense
  <2> QED
    BY <2>3, <2>4, <2>5 DEF JobsMakeSense, Book
<1>8. LiveIsAskedFor'
  BY <1>3, <1>4, <1>5 DEF GatekeeperInv, LiveIsAskedFor, ContainedOnlyLive, J
<1>9. EventsInOrder' /\ NothingVanishes'
  BY <1>1, <1>3, <1>5 DEF GatekeeperInv, EventsInOrder, NothingVanishes
<1>10. EventsOnce'
  <2>1. \A v \in Processors : job'[v].ev = <<e>> => v = w
    BY <1>1, <1>2, <1>5 DEF GatekeeperInv, EventsOnce, Workers
  <2>2. \A f \in Events : J.ev = <<f>> => f = e
    BY <1>2, <1>4
  <2>3. \A v \in Processors : \A f \in Events :
          job'[v].ev = <<f>> => f \notin fresh' /\ f \notin Range(accepted')
    BY <1>1, <1>2, <1>3, <1>5, <2>2 DEF GatekeeperInv, EventsOnce, Workers, J
  <2>4. \A v, x \in Processors : job'[v].ev = job'[x].ev /\ job'[v].ev # <<>> => v = x
    BY <1>4, <1>5, <2>1 DEF GatekeeperInv, EventsOnce, Workers, J
  <2>5. \A k \in Cycles : \A f \in Events : job'[k].ev = <<f>> => f \in Range(taken')
    BY <1>3, <1>5 DEF GatekeeperInv, EventsOnce
  <2> QED
    BY <2>3, <2>4, <2>5 DEF EventsOnce
<1>11. AskedInTurn'
  <2>1. ASSUME NEW f \in Events, NEW p \in Playbooks, NEW n \in DOMAIN Actions[p],
               Waiting(f)' \/ \E v \in Workers : Ahead(v, f, p, n)'
        PROVE  Waiting(f) \/ \E v \in Workers : Ahead(v, f, p, n)
    <3>1. Waiting(f)' => Waiting(f)
      BY <1>1, <1>3, <1>5 DEF Waiting
    <3>2. ASSUME NEW v \in Workers, Ahead(v, f, p, n)'
          PROVE  Waiting(f) \/ Ahead(v, f, p, n)
      <4>1. CASE v = w
        BY <1>1, <1>2, <1>4, <3>2, <4>1 DEF Ahead, Waiting, J
      <4>2. CASE v # w
        BY <1>5, <3>2, <4>2 DEF Ahead, Book
      <4> QED
        BY <4>1, <4>2
    <3> QED
      BY <2>1, <3>1, <3>2
  <2> QED
    BY <1>3, <2>1 DEF GatekeeperInv, AskedInTurn, Untouched
<1>12. PendingOnce'
  BY <1>3 DEF GatekeeperInv, PendingOnce, HardenedOnOneYes
<1> QED
  BY <1>6, <1>7, <1>8, <1>9, <1>10, <1>11, <1>12 DEF GatekeeperInv

LEMMA RunKeeps ==
  ASSUME GatekeeperInv, NEW k \in Cycles, NEW opt \in Opts, Run(k, opt)
  PROVE  GatekeeperInv'
<1> DEFINE j == [Idle EXCEPT !.opt = opt]
<1>1. j \in Jobs /\ j.opt = opt
  BY TypesOfConstants DEF Jobs, Idle
<1>2. \A l \in Cycles : job[l].at = "idle"
  BY DEF GatekeeperInv, JobsMakeSense, Run
<1>3. UNION {Range(job[l].rest) : l \in Cycles} = {}
  BY <1>2, IdleCyclesHaveNoRest DEF GatekeeperInv
<1>4. /\ queue' = <<>> /\ Range(<<>>) = {} /\ <<>> \in Seq(Events)
      /\ wentLive' = (wentLive \/ opt = "live")
      /\ UNCHANGED <<dryRun, fresh, accepted, effects, people>>
  BY EmptyRange DEF Run, AskedFor, people
<1>5. GoOn(k, j, queue)
  BY DEF Run
<1> HIDE DEF j
<1>6. /\ queue \in Seq(Events) /\ Range(queue) \subseteq Range(accepted) /\ Follows(accepted, queue)
      /\ Precede(accepted, Range(taken), Range(queue))
      /\ \A e \in Range(queue) : Waiting(e)
  BY DEF GatekeeperInv, TypeOK, EventsInOrder, Waiting
<1>7. Range(accepted) = Range(queue') \cup Range(taken) \cup lost \cup Range(queue)
  BY <1>3, <1>4 DEF GatekeeperInv, NothingVanishes
<1>8. Follows(accepted, queue') /\ Precede(accepted, Range(queue), Range(queue'))
  BY <1>4, NoOrder
<1> QED
  BY <1>1, <1>2, <1>4, <1>5, <1>6, <1>7, <1>8, GoOnKeeps DEF GatekeeperInv, TypeOK

LEMMA TakeKeeps ==
  ASSUME GatekeeperInv, NEW k \in Cycles, Take(k)
  PROVE  GatekeeperInv'
<1> DEFINE j == job[k]
           s == job[k].rest
<1>1. /\ j \in Jobs /\ s \in Seq(Events) /\ (j.opt = "live" => wentLive)
  BY DEF GatekeeperInv, TypeOK, LiveIsAskedFor, Workers, Jobs
<1>2. \A l \in Cycles \ {k} : job[l].at = "idle"
  BY DEF GatekeeperInv, JobsMakeSense, Take
<1>3. UNION {Range(job[l].rest) : l \in Cycles} = Range(s)
  BY <1>2, IdleCyclesHaveNoRest DEF GatekeeperInv
<1>4. /\ queue' = queue /\ wentLive' = wentLive
      /\ UNCHANGED <<dryRun, fresh, accepted, effects, people>>
  BY DEF Take, people
<1>5. GoOn(k, j, s)
  BY DEF Take
<1>6. /\ Range(s) \subseteq Range(accepted) /\ Follows(accepted, s) /\ Follows(accepted, queue)
      /\ Precede(accepted, Range(taken), Range(s)) /\ Precede(accepted, Range(s), Range(queue))
      /\ \A e \in Range(s) : Waiting(e)
  BY DEF GatekeeperInv, EventsInOrder, Waiting
<1>7. Range(accepted) = Range(queue') \cup Range(taken) \cup lost \cup Range(s)
  BY <1>3, <1>4 DEF GatekeeperInv, NothingVanishes
<1> HIDE DEF j, s
<1> QED
  BY <1>1, <1>2, <1>4, <1>5, <1>6, <1>7, GoOnKeeps DEF GatekeeperInv, TypeOK

\* Facts about the playbook that request w is busy with.
LEMMA AtWork ==
  ASSUME GatekeeperInv, NEW w \in Workers, job[w].at \in {"act", "audit"}
  PROVE  /\ Book(w) \in Playbooks /\ Book(w) \in job[w].todo /\ job[w].step \in Nat
         /\ \E e \in Events : job[w].ev = <<e>> /\ job[w].ev[1] = e
<1>1. /\ job[w] \in Jobs /\ job[w].todo # {} /\ job[w].ev # <<>>
  BY DEF GatekeeperInv, TypeOK, JobsMakeSense
<1>2. job[w].todo \in SUBSET Playbooks /\ job[w].step \in Nat /\ job[w].ev \in {<<>>} \cup {<<e>> : e \in Events}
  BY <1>1 DEF Jobs
<1>3. Book(w) \in job[w].todo
  BY <1>1, <1>2, FirstIsOne DEF Book
<1>4. PICK e \in Events : job[w].ev = <<e>>
  BY <1>1, <1>2
<1> QED
  BY <1>2, <1>3, <1>4

LEMMA ActKeeps ==
  ASSUME GatekeeperInv, NEW w \in Workers, Act(w)
  PROVE  GatekeeperInv'
<1>1. PICK e \in Events : job[w].ev = <<e>> /\ job[w].ev[1] = e /\ job[w].ev # <<>>
  BY AtWork DEF Act
<1>2. PICK p \in Playbooks : p = Book(w) /\ p \in job[w].todo
  BY AtWork DEF Act
<1>3. PICK n \in Nat : /\ n = job[w].step + 1 /\ n >= 1 /\ n <= Len(Actions[p])
                       /\ job[w].step \in Nat /\ n > job[w].step
  <2>1. job[w].step \in Nat /\ Len(Actions[p]) \in Nat /\ job[w].step < Len(Actions[p])
    BY <1>2, AtWork, TypesOfConstants DEF Act, GatekeeperInv, JobsMakeSense
  <2> QED
    BY <2>1
<1>4. n \in 1 .. Len(Actions[p]) /\ DOMAIN Actions[p] = 1 .. Len(Actions[p]) /\ <<e, p, n>> \in Ids
  <2>1. n \in 1 .. Len(Actions[p])
    BY <1>2, <1>3, TypesOfConstants
  <2> QED
    BY <1>2, <2>1, TypesOfConstants
<1>5. Asking(w) = <<e, p, n>>
  BY <1>1, <1>2, <1>3 DEF Asking
<1>6. /\ job' = [job EXCEPT ![w].step = @ + 1,
                            ![w].at = IF n = Len(Actions[p]) THEN "audit" ELSE "act"]
      /\ effects' = effects \cup EffectsOf(w, Actions[p][n])
      /\ \/ pending' = pending
         \/ pending' = pending \cup {[id |-> <<e, p, n>>, left |-> Patience + 1]}
      /\ UNCHANGED <<dryRun, queue, isRunning, fresh, accepted, taken, lost, rotated, verdicts, wentLive>>
  BY <1>2, <1>3, <1>5 DEF Act, trace, people
<1>7. job \in [Workers -> Jobs] /\ job[w] \in Jobs
  BY DEF GatekeeperInv, TypeOK
<1>8. /\ job' \in [Workers -> Jobs] /\ \A v \in Workers \ {w} : job'[v] = job[v]
      /\ job'[w] \in Jobs
      /\ job'[w].step = n /\ job'[w].at = (IF n = Len(Actions[p]) THEN "audit" ELSE "act")
      /\ job'[w].todo = job[w].todo /\ job'[w].ev = job[w].ev /\ job'[w].opt = job[w].opt
      /\ job'[w].dry = job[w].dry /\ job'[w].rest = job[w].rest
  BY <1>3, <1>6, <1>7 DEF Jobs
<1>9. /\ \A v \in Workers : /\ job'[v].todo = job[v].todo /\ job'[v].ev = job[v].ev
                            /\ job'[v].opt = job[v].opt /\ job'[v].dry = job[v].dry
                            /\ job'[v].rest = job[v].rest
                            /\ job'[v].at # "idle" => job[v].at # "idle"
      /\ \A v \in Cycles : v \in Workers
      /\ \A v \in Processors : v \in Workers
  BY <1>8 DEF Act, Workers
<1>10. Untouched(<<e, p, n>>)
  <2>1. Ahead(w, e, p, n)
    BY <1>1, <1>2, <1>3 DEF Ahead
  <2> QED
    BY <1>4, <2>1 DEF GatekeeperInv, AskedInTurn
<1>11. TypeOK'
  <2>1. pending' \subseteq [id : Ids, left : Nat]
    <3>1. [id |-> <<e, p, n>>, left |-> Patience + 1] \in [id : Ids, left : Nat]
      BY <1>4, GatekeeperAssumption
    <3> QED
      BY <1>6, <3>1 DEF GatekeeperInv, TypeOK
  <2> QED
    BY <1>6, <1>8, <2>1 DEF GatekeeperInv, TypeOK
<1>12. JobsMakeSense'
  <2>1. ASSUME NEW v \in Workers
        PROVE  /\ job'[v].at = "idle" => job'[v] = Idle
               /\ job'[v].at \in {"act", "audit"} => job'[v].todo # {} /\ job'[v].ev # <<>>
               /\ job'[v].at = "act" => job'[v].step < Len(Actions[First(job'[v].todo)])
    <3>1. CASE v = w
      <4>1. First(job'[w].todo) = p
        BY <1>2, <1>8 DEF Book
      <4>2. Len(Actions[p]) \in Nat
        BY <1>2, TypesOfConstants
      <4>3. job'[w].at = "act" => job'[w].step < Len(Actions[p])
        BY <1>3, <1>8, <4>2
      <4> QED
        BY <1>1, <1>2, <1>8, <3>1, <4>1, <4>3
    <3>2. CASE v # w
      BY <1>8, <3>2 DEF GatekeeperInv, JobsMakeSense, Book
    <3> QED
      BY <3>1, <3>2
  <2>2. \A v \in Processors : job'[v].rest = <<>>
    BY <1>9 DEF GatekeeperInv, JobsMakeSense
  <2>3. \A k \in Cycles : job'[k].at # "idle" =>
          isRunning' /\ \A l \in Cycles : job'[l].at # "idle" => l = k
    BY <1>6, <1>9 DEF GatekeeperInv, JobsMakeSense
  <2> QED
    BY <2>1, <2>2, <2>3 DEF JobsMakeSense, Book
<1>13. LiveIsAskedFor'
  <2>1. effects' # {} => wentLive
    BY <1>6 DEF GatekeeperInv, LiveIsAskedFor, ContainedOnlyLive, EffectsOf
  <2> QED
    BY <1>6, <1>9, <2>1 DEF GatekeeperInv, LiveIsAskedFor, ContainedOnlyLive
<1>14. EventsInOrder' /\ EventsOnce' /\ NothingVanishes'
  <2>1. /\ UNCHANGED <<queue, fresh, accepted, taken, lost>>
        /\ \A v \in Processors : job'[v].ev = job[v].ev
        /\ \A k \in Cycles : job'[k].ev = job[k].ev /\ job'[k].rest = job[k].rest
    BY <1>6, <1>9
  <2> QED
    BY <2>1 DEF GatekeeperInv, EventsInOrder, EventsOnce, NothingVanishes
<1>15. AskedInTurn'
  <2> SUFFICES ASSUME NEW q \in Playbooks, NEW f \in Events, NEW m \in DOMAIN Actions[q],
                      Waiting(f)' \/ \E v \in Workers : Ahead(v, f, q, m)'
               PROVE  Untouched(<<f, q, m>>)'
    BY DEF AskedInTurn
  <2>1. Waiting(f)' => Waiting(f)
    BY <1>6, <1>9 DEF Waiting
  <2>2. ASSUME NEW v \in Workers, Ahead(v, f, q, m)'
        PROVE  Ahead(v, f, q, m) /\ ~(v = w /\ q = p /\ m = n)
    <3>1. CASE v = w
      <4>1. job[w].ev = <<f>> /\ q \in job[w].todo /\ (q = p => m > n)
        BY <1>2, <1>8, <2>2, <3>1 DEF Ahead, Book
      <4>2. m \in Nat
        BY TypesOfConstants
      <4> QED
        BY <1>2, <1>3, <3>1, <4>1, <4>2 DEF Ahead
    <3>2. CASE v # w
      BY <1>8, <2>2, <3>2 DEF Ahead, Book
    <3> QED
      BY <3>1, <3>2
  <2>3. Untouched(<<f, q, m>>)
    BY <2>1, <2>2 DEF GatekeeperInv, AskedInTurn
  <2>4. <<f, q, m>> # <<e, p, n>>
    <3>1. ~Waiting(e) /\ \A v \in Workers : job[v].ev = <<e>> => v = w
      BY <1>1, EventsApart DEF GatekeeperInv
    <3>2. \A v \in Workers : Ahead(v, e, q, m) => v = w
      BY <3>1 DEF Ahead
    <3>3. ~(f = e /\ q = p /\ m = n)
      BY <2>1, <2>2, <3>1, <3>2
    <3> QED
      BY <3>3
  <2>5. \A c \in pending' : c.id = <<f, q, m>> => c \in pending
    BY <1>6, <2>4
  <2> QED
    BY <1>6, <2>3, <2>5 DEF Untouched
<1>16. PendingOnce'
  <2>1. CASE pending' = pending
    BY <1>6, <2>1 DEF GatekeeperInv, PendingOnce, HardenedOnOneYes
  <2>2. CASE pending' = pending \cup {[id |-> <<e, p, n>>, left |-> Patience + 1]}
    <3> DEFINE new == [id |-> <<e, p, n>>, left |-> Patience + 1]
    <3>1. new.id = <<e, p, n>> /\ pending' = pending \cup {new}
      BY <2>2
    <3> HIDE DEF new
    <3> QED
      BY <1>6, <1>10, <3>1 DEF GatekeeperInv, PendingOnce, HardenedOnOneYes, Untouched
  <2> QED
    BY <1>6, <2>1, <2>2
<1> QED
  BY <1>11, <1>12, <1>13, <1>14, <1>15, <1>16 DEF GatekeeperInv

LEMMA EndBookKeeps ==
  ASSUME GatekeeperInv, NEW w \in Workers, EndBook(w)
  PROVE  GatekeeperInv'
<1>1. PICK left : left = job[w].todo \ {Book(w)}
  OBVIOUS
<1>2. /\ job \in [Workers -> Jobs] /\ job[w] \in Jobs /\ left \in SUBSET Playbooks
      /\ Book(w) \notin left /\ left \subseteq job[w].todo
      /\ job[w].at \notin {"idle", "act"} /\ job[w].ev # <<>>
  BY <1>1 DEF GatekeeperInv, TypeOK, JobsMakeSense, Jobs, EndBook
<1>3. job' = [job EXCEPT ![w].todo = left, ![w].step = 0,
                         ![w].at = IF left = {} THEN "take" ELSE "act"]
  BY <1>1 DEF EndBook
<1>4. UNCHANGED <<dryRun, queue, isRunning, pending, fresh, accepted, taken, lost, effects, rotated, verdicts, wentLive>>
  BY DEF EndBook, trace, people
<1>5. /\ job' \in [Workers -> Jobs] /\ \A v \in Workers \ {w} : job'[v] = job[v]
      /\ job'[w].step = 0 /\ job'[w].at = (IF left = {} THEN "take" ELSE "act")
      /\ job'[w].todo = left /\ job'[w].ev = job[w].ev /\ job'[w].opt = job[w].opt
      /\ job'[w].dry = job[w].dry /\ job'[w].rest = job[w].rest
  BY <1>2, <1>3 DEF Jobs
<1>6. /\ \A v \in Workers : /\ job'[v].ev = job[v].ev
                            /\ job'[v].opt = job[v].opt /\ job'[v].dry = job[v].dry
                            /\ job'[v].rest = job[v].rest
                            /\ job'[v].at # "idle" => job[v].at # "idle"
      /\ \A v \in Cycles : v \in Workers
      /\ \A v \in Processors : v \in Workers
  BY <1>2, <1>5 DEF Workers
<1>7. TypeOK'
  BY <1>4, <1>5 DEF GatekeeperInv, TypeOK
<1>8. JobsMakeSense'
  <2>1. left # {} => 0 < Len(Actions[First(left)])
    BY <1>2, FirstIsOne, TypesOfConstants
  <2>2. \A v \in Workers :
          /\ job'[v].at = "idle" => job'[v] = Idle
          /\ job'[v].at \in {"act", "audit"} => job'[v].todo # {} /\ job'[v].ev # <<>>
          /\ job'[v].at = "act" => job'[v].step < Len(Actions[First(job'[v].todo)])
    BY <1>2, <1>5, <2>1 DEF GatekeeperInv, JobsMakeSense, Book
  <2>3. \A v \in Processors : job'[v].rest = <<>>
    BY <1>6 DEF GatekeeperInv, JobsMakeSense
  <2>4. \A k \in Cycles : job'[k].at # "idle" =>
          isRunning' /\ \A l \in Cycles : job'[l].at # "idle" => l = k
    BY <1>4, <1>6 DEF GatekeeperInv, JobsMakeSense
  <2> QED
    BY <2>2, <2>3, <2>4 DEF JobsMakeSense, Book
<1>9. LiveIsAskedFor'
  BY <1>4, <1>6 DEF GatekeeperInv, LiveIsAskedFor, ContainedOnlyLive
<1>10. EventsInOrder' /\ EventsOnce' /\ NothingVanishes'
  BY <1>4, <1>6 DEF GatekeeperInv, EventsInOrder, EventsOnce, NothingVanishes
<1>11. AskedInTurn'
  <2>1. \A e \in Events : Waiting(e)' => Waiting(e)
    BY <1>4, <1>6 DEF Waiting
  <2>2. ASSUME NEW e \in Events, NEW p \in Playbooks, NEW n \in DOMAIN Actions[p],
               NEW v \in Workers, Ahead(v, e, p, n)'
        PROVE  Ahead(v, e, p, n)
    BY <1>2, <1>5, <2>2 DEF Ahead, Book
  <2> QED
    BY <1>4, <2>1, <2>2 DEF GatekeeperInv, AskedInTurn, Untouched
<1>12. PendingOnce'
  BY <1>4 DEF GatekeeperInv, PendingOnce, HardenedOnOneYes
<1> QED
  BY <1>7, <1>8, <1>9, <1>10, <1>11, <1>12 DEF GatekeeperInv

\* A confirmation goes, with or without an answer carried out.
LEMMA AnsweredKeeps ==
  ASSUME GatekeeperInv, NEW c \in pending, Confirm(c) \/ Deny(c)
  PROVE  GatekeeperInv'
<1>1. /\ UNCHANGED <<dryRun, queue, isRunning, job, fresh, accepted, taken, lost, effects, wentLive>>
      /\ pending' = pending \ {c}
  BY DEF Confirm, Deny, trace, people
<1>2. /\ c.id \in Ids /\ rotated[c.id] = 0 /\ verdicts[c.id] = {}
      /\ rotated \in [Ids -> Nat] /\ verdicts \in [Ids -> SUBSET {"confirm", "deny"}]
  BY DEF GatekeeperInv, TypeOK, PendingOnce
<1>3. /\ rotated' \in [Ids -> Nat] /\ verdicts' \in [Ids -> SUBSET {"confirm", "deny"}]
      /\ \A i \in Ids \ {c.id} : rotated'[i] = rotated[i] /\ verdicts'[i] = verdicts[i]
      /\ rotated'[c.id] \in {0, 1} /\ (rotated'[c.id] = 1 => verdicts'[c.id] = {"confirm"})
  <2>1. CASE Confirm(c)
    <3>1. verdicts' = [verdicts EXCEPT ![c.id] = {"confirm"}]
      BY <1>2, <2>1 DEF Confirm
    <3>2. rotated' = rotated \/ rotated' = [rotated EXCEPT ![c.id] = 1]
      BY <1>2, <2>1 DEF Confirm
    <3> QED
      BY <1>2, <3>1, <3>2
  <2>2. CASE Deny(c)
    <3>1. verdicts' = [verdicts EXCEPT ![c.id] = {"deny"}] /\ rotated' = rotated
      BY <1>2, <2>2 DEF Deny
    <3> QED
      BY <1>2, <3>1
  <2> QED
    BY <2>1, <2>2
<1>4. TypeOK'
  BY <1>1, <1>3 DEF GatekeeperInv, TypeOK
<1>5. JobsMakeSense' /\ LiveIsAskedFor'
  BY <1>1 DEF GatekeeperInv, JobsMakeSense, Book, LiveIsAskedFor, ContainedOnlyLive
<1>6. EventsInOrder' /\ EventsOnce' /\ NothingVanishes'
  BY <1>1 DEF GatekeeperInv, EventsInOrder, EventsOnce, NothingVanishes
<1>7. AskedInTurn'
  <2> SUFFICES ASSUME NEW p \in Playbooks, NEW e \in Events, NEW n \in DOMAIN Actions[p],
                      Waiting(e) \/ \E w \in Workers : Ahead(w, e, p, n)
               PROVE  Untouched(<<e, p, n>>)'
    BY <1>1 DEF AskedInTurn, Waiting, Ahead, Book
  <2>1. Untouched(<<e, p, n>>) /\ <<e, p, n>> \in Ids
    BY TypesOfConstants DEF GatekeeperInv, AskedInTurn
  <2>2. <<e, p, n>> # c.id
    BY <2>1 DEF Untouched
  <2> QED
    BY <1>1, <1>3, <2>1, <2>2 DEF Untouched
<1>8. PendingOnce'
  <2>1. \A d \in pending' : d.id \in Ids \ {c.id}
    BY <1>1 DEF GatekeeperInv, TypeOK, PendingOnce
  <2>2. HardenedOnOneYes'
    BY <1>2, <1>3 DEF GatekeeperInv, PendingOnce, HardenedOnOneYes
  <2> QED
    BY <1>1, <1>3, <2>1, <2>2 DEF GatekeeperInv, PendingOnce
<1> QED
  BY <1>4, <1>5, <1>6, <1>7, <1>8 DEF GatekeeperInv

LEMMA TickKeeps ==
  ASSUME GatekeeperInv, Tick
  PROVE  GatekeeperInv'
<1>1. UNCHANGED <<dryRun, queue, isRunning, job, fresh, accepted, taken, lost, effects,
                  rotated, verdicts, wentLive>>
  BY DEF Tick, trace, people
<1>2. pending \subseteq [id : Ids, left : Nat]
  BY DEF GatekeeperInv, TypeOK
<1>3. \A d \in pending' : \E c \in pending :
        d = [c EXCEPT !.left = IF @ > 0 THEN @ - 1 ELSE 0]
  BY DEF Tick
<1>4. \A d \in pending' : d \in [id : Ids, left : Nat] /\ \E c \in pending : d.id = c.id
  <2> SUFFICES ASSUME NEW d \in pending'
               PROVE  d \in [id : Ids, left : Nat] /\ \E c \in pending : d.id = c.id
    OBVIOUS
  <2>1. PICK c \in pending : d = [c EXCEPT !.left = IF @ > 0 THEN @ - 1 ELSE 0]
    BY <1>3
  <2>2. c.left \in Nat
    BY <1>2
  <2>3. (IF c.left > 0 THEN c.left - 1 ELSE 0) \in Nat
    BY <2>2
  <2> QED
    BY <1>2, <2>1, <2>3
<1>5. \A c, d \in pending' : c.id = d.id => c = d
  <2> SUFFICES ASSUME NEW c \in pending', NEW d \in pending', c.id = d.id
               PROVE  c = d
    OBVIOUS
  <2>1. PICK a \in pending : c = [a EXCEPT !.left = IF @ > 0 THEN @ - 1 ELSE 0]
    BY <1>3
  <2>2. PICK b \in pending : d = [b EXCEPT !.left = IF @ > 0 THEN @ - 1 ELSE 0]
    BY <1>3
  <2>3. a.id = b.id
    BY <1>2, <2>1, <2>2
  <2>4. a = b
    BY <2>3 DEF GatekeeperInv, PendingOnce
  <2> QED
    BY <2>1, <2>2, <2>4
<1>6. TypeOK'
  BY <1>1, <1>4 DEF GatekeeperInv, TypeOK
<1>7. JobsMakeSense' /\ LiveIsAskedFor'
  BY <1>1 DEF GatekeeperInv, JobsMakeSense, Book, LiveIsAskedFor, ContainedOnlyLive
<1>8. EventsInOrder' /\ EventsOnce' /\ NothingVanishes'
  BY <1>1 DEF GatekeeperInv, EventsInOrder, EventsOnce, NothingVanishes
<1>9. AskedInTurn'
  <2>1. \A i : Untouched(i) => Untouched(i)'
    BY <1>1, <1>4 DEF Untouched
  <2> QED
    BY <1>1, <2>1 DEF GatekeeperInv, AskedInTurn, Waiting, Ahead, Book
<1>10. PendingOnce'
  BY <1>1, <1>4, <1>5 DEF GatekeeperInv, PendingOnce, HardenedOnOneYes
<1> QED
  BY <1>6, <1>7, <1>8, <1>9, <1>10 DEF GatekeeperInv

-----------------------------------------------------------------------------
(* The theorems.                                                           *)

\* GatekeeperInv is an inductive invariant of the worker.
THEOREM GatekeeperInvariant == Spec => []GatekeeperInv
<1>1. Init => GatekeeperInv
  <2> SUFFICES ASSUME Init
               PROVE  GatekeeperInv
    OBVIOUS
  <2> USE DEF Init
  <2>1. /\ \A w \in Workers : job[w] = Idle
        /\ Idle \in Jobs /\ Idle.at = "idle" /\ Idle.opt = "none" /\ Idle.ev = <<>>
        /\ Idle.dry /\ Idle.todo = {} /\ Idle.rest = <<>>
        /\ \A e \in Events : <<>> # <<e>>
        /\ \A k \in Cycles : k \in Workers
        /\ \A k \in Processors : k \in Workers
    BY TypesOfConstants DEF Workers, Idle
  <2>2. TypeOK
    <3>1. <<>> \in Seq(Events)
      OBVIOUS
    <3>2. /\ job \in [Workers -> Jobs] /\ rotated \in [Ids -> Nat]
          /\ verdicts \in [Ids -> SUBSET {"confirm", "deny"}]
      BY <2>1
    <3> QED
      BY <3>1, <3>2 DEF TypeOK
  <2>3. JobsMakeSense /\ LiveIsAskedFor /\ EventsOnce
    BY <2>1 DEF JobsMakeSense, LiveIsAskedFor, ContainedOnlyLive, EventsOnce
  <2>4. EventsInOrder
    <3>1. \A a, b \in 1 .. Len(accepted) : accepted[a] = accepted[b] => a = b
      OBVIOUS
    <3>2. \A k \in Cycles : job[k].rest = <<>>
      BY <2>1
    <3>3. Range(accepted) = {} /\ Range(taken) = {} /\ Range(queue) = {}
      BY EmptyRange
    <3>4. \A A : Follows(accepted, <<>>) /\ Precede(accepted, A, {}) /\ Precede(accepted, {}, A)
      BY NoOrder
    <3>5. /\ Follows(accepted, taken) /\ Follows(accepted, queue)
          /\ Precede(accepted, Range(taken), Range(queue))
      BY <3>3, <3>4
    <3>6. \A k \in Cycles :
            /\ Range(job[k].rest) = {} /\ Follows(accepted, job[k].rest)
            /\ Precede(accepted, Range(taken), Range(job[k].rest))
            /\ Precede(accepted, Range(job[k].rest), Range(queue))
      BY <3>2, <3>3, <3>4, EmptyRange
    <3> QED
      BY <3>1, <3>3, <3>5, <3>6 DEF EventsInOrder
  <2>5. AskedInTurn
    BY <2>1, TypesOfConstants DEF AskedInTurn, Untouched
  <2>6. PendingOnce
    BY DEF PendingOnce, HardenedOnOneYes
  <2>7. NothingVanishes
    BY <2>1, EmptyRange DEF NothingVanishes
  <2> QED
    BY <2>2, <2>3, <2>4, <2>5, <2>6, <2>7 DEF GatekeeperInv
<1>2. GatekeeperInv /\ [Next]_vars => GatekeeperInv'
  <2> SUFFICES ASSUME GatekeeperInv, [Next]_vars
               PROVE  GatekeeperInv'
    OBVIOUS
  <2>1. CASE Configure
    BY <2>1, ConfigureKeeps
  <2>2. ASSUME NEW e \in Events, Enqueue(e)
        PROVE  GatekeeperInv'
    BY <2>2, EnqueueKeeps
  <2>3. ASSUME NEW w \in Processors, NEW opt \in Opts, Process(w, opt)
        PROVE  GatekeeperInv'
    BY <2>3, ProcessKeeps
  <2>4. ASSUME NEW k \in Cycles, NEW opt \in Opts, Run(k, opt)
        PROVE  GatekeeperInv'
    BY <2>4, RunKeeps
  <2>5. ASSUME NEW w \in Workers, Proceed(w)
        PROVE  GatekeeperInv'
    BY <2>5, ActKeeps, EndBookKeeps, TakeKeeps, AnswerKeeps DEF Proceed
  <2>6. ASSUME NEW c \in pending, Confirm(c) \/ Deny(c)
        PROVE  GatekeeperInv'
    BY <2>6, AnsweredKeeps
  <2>7. CASE Tick
    BY <2>7, TickKeeps
  <2>8. CASE UNCHANGED vars
    <3> USE <2>8 DEF vars, trace, people
    <3>1. TypeOK' /\ JobsMakeSense' /\ LiveIsAskedFor'
      BY DEF GatekeeperInv, TypeOK, JobsMakeSense, Book, LiveIsAskedFor, ContainedOnlyLive
    <3>2. EventsInOrder' /\ EventsOnce' /\ NothingVanishes'
      BY DEF GatekeeperInv, EventsInOrder, EventsOnce, NothingVanishes
    <3>3. AskedInTurn' /\ PendingOnce'
      BY DEF GatekeeperInv, AskedInTurn, Waiting, Ahead, Book, Untouched, PendingOnce, HardenedOnOneYes
    <3> QED
      BY <3>1, <3>2, <3>3 DEF GatekeeperInv
  <2> QED
    BY <2>1, <2>2, <2>3, <2>4, <2>5, <2>6, <2>7, <2>8 DEF Next, Opts
<1> QED
  BY <1>1, <1>2, PTL DEF Spec

\* Whatever is sent and whenever the knobs are turned, a contain action takes
\* effect only after live processing was asked for (worker.ts, executeAction).
THEOREM ContainedOnlyLiveHolds == Spec => []ContainedOnlyLive
<1>1. GatekeeperInv => ContainedOnlyLive
  BY DEF GatekeeperInv, LiveIsAskedFor
<1> QED
  BY <1>1, GatekeeperInvariant, PTL

\* A harden action is put in front of people once, so that it is carried out at
\* most once and only on a yes nobody contradicts (confirmPendingAction).
THEOREM HardenedOnOneYesHolds == Spec => []HardenedOnOneYes
<1>1. GatekeeperInv => HardenedOnOneYes
  BY DEF GatekeeperInv, PendingOnce
<1> QED
  BY <1>1, GatekeeperInvariant, PTL

\* However many requests to run a cycle race, events are taken up in the order
\* they were queued, none of them twice (runGatekeeperCycle).
THEOREM InOrderHolds == Spec => []InOrder
<1>1. GatekeeperInv => InOrder
  BY DEF GatekeeperInv, EventsInOrder, Follows, Before, InOrder
<1> QED
  BY <1>1, GatekeeperInvariant, PTL

\* A queued event is queued, drained, taken up or lost to one of the two causes
\* the code has: a full queue, a cycle that failed (queueEvent, runGatekeeperCycle).
THEOREM NothingVanishesHolds == Spec => []NothingVanishes
<1>1. GatekeeperInv => NothingVanishes
  BY DEF GatekeeperInv
<1> QED
  BY <1>1, GatekeeperInvariant, PTL

-----------------------------------------------------------------------------
(* The matcher: the windows it counts.                                     *)

Bags == [Ages -> Nat]

\* Every event offered to a window within window_ms is in it.
WindowsKeep ==
  /\ offered \in [EnabledPlaybooks -> Bags]
  /\ DOMAIN windows \subseteq EnabledPlaybooks
  /\ \A p \in DOMAIN windows :
       /\ windows[p] \in [events : Bags, cleaned : Nat]
       /\ \A a \in 0 .. Window[p] : windows[p].events[a] = offered[p][a]
  /\ \A p \in EnabledPlaybooks \ DOMAIN windows : offered[p] = Nothing

LEMMA MatcherNumbers ==
  /\ Forever \in Nat \ {0} /\ Ages \subseteq Nat /\ 0 \in Ages /\ Delays \subseteq Ages
  /\ \A p \in EnabledPlaybooks : /\ Window[p] \in Nat /\ Window[p] < Forever
                                 /\ Cooldown[p] \in Nat /\ Cooldown[p] <= Forever
BY MatcherAssumption DEF Ages

LEMMA BagAdd ==
  ASSUME NEW bag \in Bags, NEW a \in Ages
  PROVE  /\ Add(bag, a) \in Bags
         /\ \A b \in Ages : Add(bag, a)[b] = IF b = a THEN bag[b] + 1 ELSE bag[b]
BY DEF Add, Bags

LEMMA BagShift ==
  ASSUME NEW bag \in Bags
  PROVE  /\ Shift(bag) \in Bags /\ Forget(bag) \in Bags
         /\ \A a \in Ages : a < Forever =>
              /\ Shift(bag)[a] = IF a = 0 THEN 0 ELSE bag[a - 1]
              /\ Forget(bag)[a] = Shift(bag)[a]
<1>1. ASSUME NEW a \in Ages, a # 0 PROVE a - 1 \in Ages
  BY <1>1, MatcherNumbers DEF Ages
<1>2. ASSUME NEW a \in Ages
      PROVE  /\ Shift(bag)[a] \in Nat
             /\ a < Forever => Shift(bag)[a] = IF a = 0 THEN 0 ELSE bag[a - 1]
  <2>1. CASE a = 0
    BY <2>1, MatcherNumbers DEF Shift
  <2>2. CASE a # 0 /\ a = Forever
    BY <1>1, <2>2, MatcherNumbers DEF Shift, Bags
  <2>3. CASE a # 0 /\ a # Forever
    BY <1>1, <2>3 DEF Shift, Bags
  <2> QED
    BY <2>1, <2>2, <2>3
<1>3. Shift(bag) \in Bags
  <2>1. Shift(bag) = [a \in Ages |-> Shift(bag)[a]]
    BY DEF Shift
  <2> QED
    BY <1>2, <2>1 DEF Bags
<1>4. Forget(bag) \in Bags /\ \A a \in Ages : a < Forever => Forget(bag)[a] = Shift(bag)[a]
  <2> DEFINE shifted == Shift(bag)
  <2>1. Forget(bag) = [shifted EXCEPT ![Forever] = 0]
    BY DEF Forget
  <2>2. shifted \in [Ages -> Nat]
    BY <1>3 DEF Bags
  <2> HIDE DEF shifted
  <2>3. Forget(bag) = [a \in Ages |-> IF a = Forever THEN 0 ELSE shifted[a]]
    BY <2>1, <2>2
  <2>4. Forget(bag) \in Bags /\ \A a \in Ages : a # Forever => Forget(bag)[a] = shifted[a]
    BY <2>2, <2>3 DEF Bags
  <2>5. \A a \in Ages : a < Forever => a # Forever
    BY MatcherNumbers
  <2> QED
    BY <2>4, <2>5 DEF shifted
<1> QED
  BY <1>2, <1>3, <1>4

LEMMA EmptyBag == Nothing \in Bags /\ \A a \in Ages : Nothing[a] = 0
BY DEF Nothing, Bags

\* The window once the event is pushed holds what was offered, the event included.
LEMMA PushedIs ==
  ASSUME WindowsKeep, NEW p \in EnabledPlaybooks, NEW a \in Ages
  PROVE  /\ Pushed(p, a) \in [events : Bags, cleaned : Nat]
         /\ \A b \in 0 .. Window[p] :
              Pushed(p, a).events[b] = IF b = a THEN offered[p][b] + 1 ELSE offered[p][b]
<1> DEFINE w == IF p \in DOMAIN windows
                THEN Cleaned(p, windows[p]) ELSE [events |-> Nothing, cleaned |-> 0]
<1>1. w \in [events : Bags, cleaned : Nat] /\ \A b \in 0 .. Window[p] : w.events[b] = offered[p][b]
  <2>1. CASE p \notin DOMAIN windows
    BY <2>1, EmptyBag, MatcherNumbers DEF WindowsKeep, Ages
  <2>2. CASE p \in DOMAIN windows
    <3>1. /\ windows[p] \in [events : Bags, cleaned : Nat]
          /\ \A b \in 0 .. Window[p] : windows[p].events[b] = offered[p][b]
      BY <2>2 DEF WindowsKeep
    <3>2. [b \in Ages |-> IF b <= Window[p] THEN windows[p].events[b] ELSE 0] \in Bags
      BY <3>1 DEF Bags
    <3>3. \A b \in 0 .. Window[p] : b \in Ages /\ b <= Window[p]
      BY MatcherNumbers DEF Ages
    <3> QED
      BY <2>2, <3>1, <3>2, <3>3 DEF Cleaned
  <2> QED
    BY <2>1, <2>2
<1>2. Pushed(p, a) = [w EXCEPT !.events = Add(@, a)]
  BY DEF Pushed
<1> HIDE DEF w
<1>3. /\ Pushed(p, a).events = Add(w.events, a)
      /\ Pushed(p, a) = [events |-> Add(w.events, a), cleaned |-> w.cleaned]
  BY <1>1, <1>2
<1>4. \A b \in 0 .. Window[p] : b \in Ages
  BY MatcherNumbers DEF Ages
<1> QED
  BY <1>1, <1>3, <1>4, BagAdd

LEMMA MatchKeepsWindows ==
  ASSUME WindowsKeep, NEW t, NEW k, NEW a \in Delays, Match(t, k, a)
  PROVE  WindowsKeep'
<1>1. a \in Ages
  BY MatcherNumbers
<1>2. /\ DOMAIN windows' = DOMAIN windows \cup {q \in EnabledPlaybooks : Counts(q, k)}
      /\ \A p \in DOMAIN windows' :
           windows'[p] = IF Counts(p, k) THEN Pushed(p, a) ELSE windows[p]
  BY DEF Match
<1>3. \A p \in EnabledPlaybooks :
        offered'[p] = IF Counts(p, k) /\ a < Forever THEN Add(offered[p], a) ELSE offered[p]
  BY DEF Match
<1>4. offered' \in [EnabledPlaybooks -> Bags]
  <2>1. \A p \in EnabledPlaybooks : offered[p] \in Bags /\ Add(offered[p], a) \in Bags
    BY <1>1, BagAdd DEF WindowsKeep
  <2> QED
    BY <2>1 DEF Match
<1>5. ASSUME NEW p \in DOMAIN windows'
      PROVE  /\ p \in EnabledPlaybooks /\ windows'[p] \in [events : Bags, cleaned : Nat]
             /\ \A b \in 0 .. Window[p] : windows'[p].events[b] = offered'[p][b]
  <2>1. p \in EnabledPlaybooks
    BY <1>2 DEF WindowsKeep
  <2>2. CASE ~Counts(p, k)
    BY <1>2, <1>3, <2>1, <2>2 DEF WindowsKeep
  <2>3. CASE Counts(p, k)
    <3>1. windows'[p] = Pushed(p, a)
      BY <1>2, <2>3
    <3>2. ASSUME NEW b \in 0 .. Window[p] PROVE windows'[p].events[b] = offered'[p][b]
      <4>1. b \in Ages /\ b # Forever
        BY <2>1, MatcherNumbers DEF Ages
      <4>2. offered[p] \in Bags
        BY <2>1 DEF WindowsKeep
      <4>3. offered'[p][b] = IF b = a THEN offered[p][b] + 1 ELSE offered[p][b]
        <5>1. CASE a < Forever
          BY <1>1, <1>3, <2>1, <2>3, <4>1, <4>2, <5>1, BagAdd
        <5>2. CASE a = Forever
          BY <1>3, <2>1, <4>1, <5>2, MatcherNumbers
        <5> QED
          BY <1>1, <5>1, <5>2, MatcherNumbers DEF Ages
      <4> QED
        BY <1>1, <2>1, <3>1, <4>3, PushedIs
    <3> QED
      BY <1>1, <2>1, <3>1, <3>2, PushedIs
  <2> QED
    BY <2>2, <2>3
<1>6. \A p \in EnabledPlaybooks \ DOMAIN windows' : offered'[p] = Nothing
  BY <1>2, <1>3 DEF WindowsKeep
<1> QED
  BY <1>4, <1>5, <1>6 DEF WindowsKeep

LEMMA TickKeepsWindows ==
  ASSUME WindowsKeep, MatcherTick
  PROVE  WindowsKeep'
<1>1. /\ DOMAIN windows' = DOMAIN windows
      /\ \A p \in DOMAIN windows : windows'[p] =
           [events |-> Shift(windows[p].events), cleaned |-> Aged(windows[p].cleaned)]
      /\ offered' = [p \in EnabledPlaybooks |-> Forget(offered[p])]
  BY DEF MatcherTick
<1>2. offered' \in [EnabledPlaybooks -> Bags]
  BY <1>1, BagShift DEF WindowsKeep
<1>3. ASSUME NEW p \in DOMAIN windows
      PROVE  /\ windows'[p] \in [events : Bags, cleaned : Nat]
             /\ \A a \in 0 .. Window[p] : windows'[p].events[a] = offered'[p][a]
  <2>1. /\ p \in EnabledPlaybooks /\ windows[p].events \in Bags /\ windows[p].cleaned \in Nat
        /\ offered[p] \in Bags
        /\ \A a \in 0 .. Window[p] : windows[p].events[a] = offered[p][a]
    BY <1>3 DEF WindowsKeep
  <2>2. Aged(windows[p].cleaned) \in Nat
    BY <2>1, MatcherNumbers DEF Aged
  <2>3. ASSUME NEW a \in 0 .. Window[p] PROVE windows'[p].events[a] = offered'[p][a]
    <3>1. a \in Ages /\ a < Forever
      BY <2>1, MatcherNumbers DEF Ages
    <3>2. a = 0 \/ a - 1 \in 0 .. Window[p]
      BY <2>1, MatcherNumbers
    <3> QED
      BY <1>1, <2>1, <3>1, <3>2, BagShift
  <2> QED
    BY <1>1, <1>3, <2>1, <2>2, <2>3, BagShift
<1>4. ASSUME NEW p \in EnabledPlaybooks \ DOMAIN windows PROVE offered'[p] = Nothing
  <2>1. offered[p] = Nothing
    BY <1>4 DEF WindowsKeep
  <2>2. Forget(Nothing) = Nothing
    <3>1. \A a \in Ages : a # 0 => a - 1 \in Ages
      BY MatcherNumbers DEF Ages
    <3> QED
      BY <3>1 DEF Forget, Shift, Nothing
  <2> QED
    BY <1>1, <2>1, <2>2
<1> QED
  BY <1>1, <1>2, <1>3, <1>4 DEF WindowsKeep

LEMMA WindowsInductive ==
  /\ MatcherInit => WindowsKeep
  /\ WindowsKeep /\ [MatcherNext]_matcherVars => WindowsKeep'
<1>1. MatcherInit => WindowsKeep
  BY EmptyBag DEF MatcherInit, WindowsKeep
<1>2. ASSUME WindowsKeep, UNCHANGED <<windows, offered>>
      PROVE  WindowsKeep'
  BY <1>2 DEF WindowsKeep
<1>3. ASSUME WindowsKeep, [MatcherNext]_matcherVars
      PROVE  WindowsKeep'
  BY <1>2, <1>3, MatchKeepsWindows, TickKeepsWindows DEF MatcherNext, Record, matcherVars
<1> QED
  BY <1>1, <1>3

\* Whatever playbooks, windows and delays: cleaning up lazily, and only now and
\* then, loses nothing that a threshold counts (gatekeeper/src/matcher.ts,
\* cleanupOldEvents).
THEOREM WindowsAreCompleteHolds == MatcherSpec => []WindowsAreComplete
<1>1. WindowsKeep => WindowsAreComplete
  BY DEF WindowsKeep, WindowsAreComplete
<1> QED
  BY <1>1, WindowsInductive, PTL DEF MatcherSpec

-----------------------------------------------------------------------------
(* Executions, their cooldowns and their counters, for any number of        *)
(* requests that overlap.                                                  *)

LEMMA FreeIsFree ==
  ASSUME NEW runs, IsFiniteSet(DOMAIN runs)
  PROVE  Free(runs) \notin DOMAIN runs
<1> DEFINE c == Cardinality(DOMAIN runs)
<1>1. c \in Nat
  BY FS_CardinalityType
<1>2. PICK n \in 0 .. c : n \notin DOMAIN runs
  <2> SUFFICES ASSUME 0 .. c \subseteq DOMAIN runs PROVE FALSE
    OBVIOUS
  <2>1. Cardinality(0 .. c) = c + 1
    BY <1>1, FS_Interval
  <2>2. Cardinality(0 .. c) <= c
    BY FS_Subset
  <2> HIDE DEF c
  <2> QED
    BY <1>1, <2>1, <2>2
<1> QED
  BY <1>2 DEF Free

\* The requests that have matched p and not yet recorded its execution, and the
\* executions recorded since the counter of p last restarted.
Busy(p) == {t \in Tasks : p \in due[t]}
Recorded(p) == IF p \in DOMAIN execData THEN execData[p].count ELSE 0
CounterAge(p) == IF p \in DOMAIN execData THEN execData[p].age ELSE 0

MatcherTyped ==
  /\ due \in [Tasks -> SUBSET EnabledPlaybooks] /\ cool \in [EnabledPlaybooks -> Nat]
  /\ DOMAIN execData \subseteq EnabledPlaybooks
  /\ \A p \in DOMAIN execData : execData[p] \in [count : Nat, age : Ages]
  /\ DOMAIN started = EnabledPlaybooks
  /\ \A p \in EnabledPlaybooks :
       /\ IsFiniteSet(DOMAIN started[p])
       /\ \A n \in DOMAIN started[p] : started[p][n] \in Nat /\ started[p][n] < Span(p)

\* An execution of p is one of those under way (open), or what is left of the
\* cooldown covers the rest of its own.
Covered(p, open) ==
  /\ Cardinality(open) <= Cardinality(Busy(p))
  /\ \A n \in DOMAIN started[p] \ open : cool[p] + started[p][n] >= Cooldown[p]
CooldownLasts(p) ==
  /\ Cardinality(Younger(p, Cooldown[p])) <= Cardinality(Tasks)
  /\ \E open \in SUBSET DOMAIN started[p] : Covered(p, open)

\* Executions of p were matched since its counter last restarted, or before: then
\* each life of a counter further back holds no more of them than one counter
\* lets through.
Further(p, before, m) == {n \in before : started[p][n] < CounterAge(p) + m * Life(p)}
SplitInto(p, before, since) ==
  /\ DOMAIN started[p] = before \cup since
  /\ p \notin DOMAIN execData => before = {}
  /\ \A m \in Nat : Cardinality(Further(p, before, m)) <= m * PerCounter(p)
  /\ Cardinality(since) <= Recorded(p) + Cardinality(Busy(p))
LimitKept(p) ==
  /\ Recorded(p) + Cardinality(Busy(p)) <= PerCounter(p)
  /\ \E before, since \in SUBSET DOMAIN started[p] : SplitInto(p, before, since)

MatcherInv ==
  MatcherTyped /\ \A p \in EnabledPlaybooks : CooldownLasts(p) /\ LimitKept(p)

LEMMA MatcherConstants ==
  ASSUME NEW p \in EnabledPlaybooks
  PROVE  /\ Window[p] \in Nat /\ Cooldown[p] \in Nat /\ MaxExecutions[p] \in Nat
         /\ RecordWindow \in Nat \ {0} /\ Life(p) \in Nat /\ Life(p) <= RecordWindow
         /\ Life(p) <= Window[p] /\ Span(p) \in Nat /\ Cooldown[p] <= Span(p) /\ Window[p] <= Span(p)
         /\ Cardinality(Tasks) \in Nat /\ PerCounter(p) \in Nat
         /\ MaxExecutions[p] - 1 + Cardinality(Tasks) <= PerCounter(p)
         /\ Cardinality(Tasks) <= PerCounter(p)
<1>1. Window[p] \in Nat /\ Cooldown[p] \in Nat /\ MaxExecutions[p] \in Nat
  <2>1. MaxExecutions[p] \in Nat
    BY MatcherAssumption
  <2> QED
    BY <2>1, MatcherNumbers
<1>2. RecordWindow \in Nat \ {0}
  <2>1. Forever \in Nat /\ RecordWindow \in 1 .. Forever
    BY MatcherAssumption
  <2> QED
    BY <2>1
<1>3. Cardinality(Tasks) \in Nat
  BY MatcherAssumption, FS_CardinalityType
<1> QED
  BY <1>1, <1>2, <1>3 DEF Life, Span, PerCounter

LEMMA CounterNumbers ==
  ASSUME MatcherTyped, NEW p \in EnabledPlaybooks
  PROVE  /\ Recorded(p) \in Nat /\ CounterAge(p) \in Nat
         /\ IsFiniteSet(Busy(p)) /\ Cardinality(Busy(p)) \in Nat
         /\ Cardinality(Busy(p)) <= Cardinality(Tasks)
<1>1. p \in DOMAIN execData => execData[p].count \in Nat /\ execData[p].age \in Nat
  BY MatcherNumbers DEF MatcherTyped
<1>2. IsFiniteSet(Tasks) /\ Busy(p) \subseteq Tasks
  BY MatcherAssumption DEF Busy
<1>3. IsFiniteSet(Busy(p)) /\ Cardinality(Busy(p)) <= Cardinality(Tasks)
  BY <1>2, FS_Subset
<1>4. Cardinality(Busy(p)) \in Nat
  BY <1>3, FS_CardinalityType
<1> QED
  BY <1>1, <1>3, <1>4 DEF Recorded, CounterAge

LEMMA CounterNumbersNext ==
  ASSUME MatcherTyped', NEW p \in EnabledPlaybooks
  PROVE  /\ Recorded(p)' \in Nat /\ CounterAge(p)' \in Nat
         /\ Cardinality(Busy(p)') \in Nat /\ Cardinality(Busy(p)') <= Cardinality(Tasks)
<1>1. p \in DOMAIN execData' => execData'[p].count \in Nat /\ execData'[p].age \in Nat
  BY MatcherNumbers DEF MatcherTyped
<1>2. IsFiniteSet(Tasks) /\ Busy(p)' \subseteq Tasks
  BY MatcherAssumption DEF Busy
<1>3. IsFiniteSet(Busy(p)') /\ Cardinality(Busy(p)') <= Cardinality(Tasks)
  BY <1>2, FS_Subset
<1>4. Cardinality(Busy(p)') \in Nat
  BY <1>3, FS_CardinalityType
<1> QED
  BY <1>1, <1>3, <1>4 DEF Recorded, CounterAge

LEMMA PartOf ==
  ASSUME NEW T, IsFiniteSet(T), NEW S \in SUBSET T
  PROVE  /\ IsFiniteSet(S) /\ Cardinality(S) <= Cardinality(T)
         /\ Cardinality(S) \in Nat /\ Cardinality(T) \in Nat
BY FS_Subset, FS_CardinalityType

LEMMA UnionOf ==
  ASSUME NEW S, NEW T, IsFiniteSet(S), IsFiniteSet(T)
  PROVE  /\ IsFiniteSet(S \cup T) /\ Cardinality(S \cup T) <= Cardinality(S) + Cardinality(T)
         /\ Cardinality(S) \in Nat /\ Cardinality(T) \in Nat /\ Cardinality(S \cup T) \in Nat
<1>1. IsFiniteSet(S \cap T)
  BY FS_Subset
<1>2. IsFiniteSet(S \cup T) /\ Cardinality(S \cup T) = Cardinality(S) + Cardinality(T) - Cardinality(S \cap T)
  BY FS_Union
<1>3. /\ Cardinality(S) \in Nat /\ Cardinality(T) \in Nat /\ Cardinality(S \cap T) \in Nat
      /\ Cardinality(S \cup T) \in Nat
  BY <1>1, <1>2, FS_CardinalityType
<1> QED
  BY <1>2, <1>3

LEMMA OneMore ==
  ASSUME NEW m \in Nat, NEW n \in Nat
  PROVE  /\ m * n \in Nat /\ (m + 1) * n = m * n + n
         /\ m >= 1 => m - 1 \in Nat /\ m * n = (m - 1) * n + n /\ (m - 1) * n \in Nat
OBVIOUS

-----------------------------------------------------------------------------
(* What each step does to the executions a playbook has had.               *)

LEMMA MatchBegins ==
  ASSUME MatcherTyped, NEW t \in Tasks, NEW k, NEW a, Match(t, k, a), NEW p \in EnabledPlaybooks
  PROVE  \/ p \notin Matched(k, a) /\ Busy(p)' = Busy(p) /\ started'[p] = started[p]
         \/ /\ p \in Matched(k, a) /\ cool[p] = 0 /\ ~Exhausted(p)
            /\ Cardinality(Busy(p)') = Cardinality(Busy(p)) + 1
            /\ \/ Span(p) = 0 /\ started'[p] = started[p]
               \/ /\ Span(p) > 0
                  /\ \E new : /\ new \notin DOMAIN started[p] /\ DOMAIN started'[p] = DOMAIN started[p] \cup {new}
                              /\ started'[p][new] = 0
                              /\ \A n \in DOMAIN started[p] : started'[p][n] = started[p][n]
<1>1. /\ due[t] = {} /\ due' = [due EXCEPT ![t] = Matched(k, a)]
      /\ started'[p] = IF p \in Matched(k, a) /\ Span(p) > 0 THEN Begun(started[p]) ELSE started[p]
  BY DEF Match
<1>2. \A u \in Tasks : u # t => due'[u] = due[u]
  BY <1>1 DEF MatcherTyped
<1>3. due'[t] = Matched(k, a)
  BY <1>1 DEF MatcherTyped
<1>4. CASE p \notin Matched(k, a)
  BY <1>1, <1>2, <1>3, <1>4 DEF Busy
<1>5. CASE p \in Matched(k, a)
  <2>1. cool[p] = 0 /\ ~Exhausted(p)
    BY <1>5 DEF Matched, Meets, Blocked, MatcherTyped
  <2>2. Busy(p)' = Busy(p) \cup {t} /\ t \notin Busy(p)
    BY <1>1, <1>2, <1>3, <1>5 DEF Busy
  <2>3. Cardinality(Busy(p)') = Cardinality(Busy(p)) + 1
    BY <2>2, CounterNumbers, FS_AddElement
  <2>4. ASSUME Span(p) > 0
        PROVE  \E new : /\ new \notin DOMAIN started[p] /\ DOMAIN started'[p] = DOMAIN started[p] \cup {new}
                        /\ started'[p][new] = 0
                        /\ \A n \in DOMAIN started[p] : started'[p][n] = started[p][n]
    <3>1. PICK runs : runs = started[p]
      OBVIOUS
    <3>2. IsFiniteSet(DOMAIN runs) /\ started'[p] = Begun(runs)
      BY <1>1, <1>5, <2>4, <3>1 DEF MatcherTyped
    <3>3. Free(runs) \notin DOMAIN runs
      BY <3>2, FreeIsFree
    <3>4. /\ DOMAIN Begun(runs) = DOMAIN runs \cup {Free(runs)}
          /\ \A n \in DOMAIN Begun(runs) : Begun(runs)[n] = IF n \in DOMAIN runs THEN runs[n] ELSE 0
      BY DEF Begun
    <3> QED
      BY <3>1, <3>2, <3>3, <3>4
  <2>5. Span(p) = 0 \/ Span(p) > 0
    BY MatcherConstants
  <2> QED
    BY <1>1, <1>5, <2>1, <2>3, <2>4, <2>5
<1> QED
  BY <1>4, <1>5

LEMMA TickAges ==
  ASSUME MatcherTyped, MatcherTick, NEW p \in EnabledPlaybooks
  PROVE  /\ DOMAIN started'[p] \subseteq DOMAIN started[p]
         /\ \A n \in DOMAIN started'[p] :
              started'[p][n] = started[p][n] + 1 /\ started'[p][n] < Span(p)
         /\ Busy(p)' = Busy(p)
         /\ cool'[p] \in Nat /\ cool'[p] + 1 >= cool[p]
<1>1. /\ due' = due /\ started'[p] = StillCounting(p)
      /\ cool'[p] = IF cool[p] > 0 THEN cool[p] - 1 ELSE 0
  BY DEF MatcherTick
<1>2. /\ DOMAIN started'[p] = {m \in DOMAIN started[p] : started[p][m] + 1 < Span(p)}
      /\ \A n \in DOMAIN started'[p] : started'[p][n] = started[p][n] + 1
  BY <1>1 DEF StillCounting
<1>3. Busy(p)' = Busy(p)
  BY <1>1 DEF Busy
<1>4. cool[p] \in Nat
  BY DEF MatcherTyped
<1> QED
  BY <1>1, <1>2, <1>3, <1>4

LEMMA RecordIs ==
  ASSUME MatcherTyped, NEW t \in Tasks, NEW q \in EnabledPlaybooks, Record(t, q)
  PROVE  /\ started' = started /\ cool' \in [EnabledPlaybooks -> Nat] /\ cool'[q] = Cooldown[q]
         /\ due' \in [Tasks -> SUBSET EnabledPlaybooks]
         /\ Cardinality(Busy(q)') = Cardinality(Busy(q)) - 1 /\ Cardinality(Busy(q)') \in Nat
         /\ DOMAIN execData' = DOMAIN execData \cup {q}
         /\ \A p \in EnabledPlaybooks : p # q =>
              /\ cool'[p] = cool[p] /\ Busy(p)' = Busy(p)
              /\ p \in DOMAIN execData => execData'[p] = execData[p]
<1>1. /\ q \in due[t] /\ due' = [due EXCEPT ![t] = @ \ {q}]
      /\ cool' = [cool EXCEPT ![q] = Cooldown[q]] /\ started' = started
      /\ DOMAIN execData' = DOMAIN execData \cup {q}
      /\ \A p \in DOMAIN execData : p # q => execData'[p] = execData[p]
  BY DEF Record
<1>2. /\ cool' \in [EnabledPlaybooks -> Nat] /\ cool'[q] = Cooldown[q]
      /\ \A p \in EnabledPlaybooks : p # q => cool'[p] = cool[p]
      /\ due' \in [Tasks -> SUBSET EnabledPlaybooks]
  BY <1>1, MatcherConstants DEF MatcherTyped
<1>3. /\ due'[t] = due[t] \ {q}
      /\ \A u \in Tasks : u # t => due'[u] = due[u]
  BY <1>1 DEF MatcherTyped
<1>4. \A p \in EnabledPlaybooks : p # q => Busy(p)' = Busy(p)
  BY <1>3 DEF Busy
<1>5. Busy(q)' = Busy(q) \ {t} /\ t \in Busy(q)
  BY <1>1, <1>3 DEF Busy
<1>6. Cardinality(Busy(q)') = Cardinality(Busy(q)) - 1 /\ Cardinality(Busy(q)') \in Nat
  <2>1. IsFiniteSet(Busy(q)) /\ IsFiniteSet(Busy(q)')
    BY <1>5, CounterNumbers, FS_Subset
  <2> QED
    BY <1>5, <2>1, FS_RemoveElement, FS_CardinalityType
<1> QED
  BY <1>1, <1>2, <1>4, <1>6

LEMMA TypesInductive ==
  /\ MatcherInit => MatcherTyped
  /\ MatcherTyped /\ [MatcherNext]_matcherVars => MatcherTyped'
<1>1. ASSUME MatcherInit PROVE MatcherTyped
  <2>1. \A p \in EnabledPlaybooks : started[p] = <<>> /\ DOMAIN started[p] = {}
    BY <1>1 DEF MatcherInit
  <2> QED
    BY <1>1, <2>1, FS_EmptySet DEF MatcherInit, MatcherTyped
<1>2. ASSUME MatcherTyped, NEW t \in Tasks, NEW k, NEW a, Match(t, k, a) PROVE MatcherTyped'
  <2>1. /\ due' = [due EXCEPT ![t] = Matched(k, a)] /\ Matched(k, a) \subseteq EnabledPlaybooks
        /\ execData' = [p \in DOMAIN execData |->
             IF cool[p] = 0 /\ Stale(p) THEN [count |-> 0, age |-> 0] ELSE execData[p]]
        /\ cool' = cool /\ DOMAIN started' = EnabledPlaybooks
    BY <1>2 DEF Match, Matched
  <2>2. [count |-> 0, age |-> 0] \in [count : Nat, age : Ages]
    BY MatcherNumbers
  <2>3. ASSUME NEW p \in EnabledPlaybooks
        PROVE  /\ IsFiniteSet(DOMAIN started'[p])
               /\ \A n \in DOMAIN started'[p] : started'[p][n] \in Nat /\ started'[p][n] < Span(p)
    <3>1. /\ IsFiniteSet(DOMAIN started[p])
          /\ \A n \in DOMAIN started[p] : started[p][n] \in Nat /\ started[p][n] < Span(p)
      BY <1>2 DEF MatcherTyped
    <3>2. CASE started'[p] = started[p]
      BY <3>1, <3>2
    <3>3. CASE started'[p] # started[p]
      <4>1. PICK new : /\ DOMAIN started'[p] = DOMAIN started[p] \cup {new} /\ started'[p][new] = 0
                       /\ \A n \in DOMAIN started[p] : started'[p][n] = started[p][n]
                       /\ Span(p) > 0
        BY <1>2, <3>3, MatchBegins
      <4>2. IsFiniteSet(DOMAIN started'[p])
        BY <3>1, <4>1, FS_AddElement
      <4> QED
        BY <3>1, <4>1, <4>2
    <3> QED
      BY <3>2, <3>3
  <2>4. \A q \in DOMAIN execData' : execData'[q] \in [count : Nat, age : Ages]
    BY <1>2, <2>1, <2>2 DEF MatcherTyped
  <2>5. due' \in [Tasks -> SUBSET EnabledPlaybooks] /\ DOMAIN execData' \subseteq EnabledPlaybooks
    BY <1>2, <2>1 DEF MatcherTyped
  <2> QED
    BY <1>2, <2>1, <2>3, <2>4, <2>5 DEF MatcherTyped, Span
<1>3. ASSUME MatcherTyped, NEW t \in Tasks, NEW q \in EnabledPlaybooks, Record(t, q) PROVE MatcherTyped'
  <2>1. execData'[q] \in [count : Nat, age : Ages]
    BY <1>3, MatcherNumbers DEF Record, MatcherTyped
  <2>2. ASSUME NEW p \in DOMAIN execData' PROVE execData'[p] \in [count : Nat, age : Ages]
    <3>1. p = q \/ (p \in DOMAIN execData /\ p \in EnabledPlaybooks)
      BY <1>3 DEF Record, MatcherTyped
    <3>2. p \in DOMAIN execData => execData[p] \in [count : Nat, age : Ages]
      BY <1>3 DEF MatcherTyped
    <3>3. p # q => execData'[p] = execData[p]
      BY <1>3, <3>1, RecordIs
    <3> QED
      BY <2>1, <3>1, <3>2, <3>3
  <2> QED
    BY <1>3, <2>2, RecordIs DEF MatcherTyped, Span
<1>4. ASSUME MatcherTyped, MatcherTick PROVE MatcherTyped'
  <2>1. /\ due' = due /\ DOMAIN execData' = DOMAIN execData
        /\ \A p \in DOMAIN execData : execData'[p] = [execData[p] EXCEPT !.age = Aged(@)]
        /\ DOMAIN started' = EnabledPlaybooks
        /\ cool' = [p \in EnabledPlaybooks |-> IF cool[p] > 0 THEN cool[p] - 1 ELSE 0]
    BY <1>4 DEF MatcherTick
  <2>2. cool' \in [EnabledPlaybooks -> Nat]
    BY <1>4, <2>1 DEF MatcherTyped
  <2>3. ASSUME NEW p \in DOMAIN execData PROVE execData'[p] \in [count : Nat, age : Ages]
    <3>1. execData[p] \in [count : Nat, age : Ages]
      BY <1>4 DEF MatcherTyped
    <3>2. Aged(execData[p].age) \in Ages
      BY <3>1, MatcherNumbers DEF Aged, Ages
    <3> QED
      BY <2>1, <3>1, <3>2
  <2>4. ASSUME NEW p \in EnabledPlaybooks
        PROVE  /\ IsFiniteSet(DOMAIN started'[p])
               /\ \A n \in DOMAIN started'[p] : started'[p][n] \in Nat /\ started'[p][n] < Span(p)
    <3>1. IsFiniteSet(DOMAIN started[p]) /\ \A n \in DOMAIN started[p] : started[p][n] \in Nat
      BY <1>4 DEF MatcherTyped
    <3>2. IsFiniteSet(DOMAIN started'[p])
      BY <1>4, <3>1, TickAges, FS_Subset
    <3> QED
      BY <1>4, <3>1, <3>2, TickAges
  <2> QED
    BY <1>4, <2>1, <2>2, <2>3, <2>4 DEF MatcherTyped, Span
<1>5. ASSUME MatcherTyped, UNCHANGED matcherVars PROVE MatcherTyped'
  BY <1>5 DEF MatcherTyped, matcherVars, Span
<1> QED
  BY <1>1, <1>2, <1>3, <1>4, <1>5 DEF MatcherNext

-----------------------------------------------------------------------------
(* Cooldowns.                                                              *)

LEMMA CooldownStarts ==
  ASSUME MatcherInit, NEW p \in EnabledPlaybooks
  PROVE  CooldownLasts(p)
<1>1. started[p] = <<>> /\ DOMAIN started[p] = {}
  BY DEF MatcherInit
<1>2. Younger(p, Cooldown[p]) = {} /\ Cardinality({}) = 0
  BY <1>1, FS_EmptySet DEF Younger
<1>3. 0 <= Cardinality(Tasks)
  BY MatcherConstants
<1>4. 0 <= Cardinality(Busy(p))
  BY TypesInductive, CounterNumbers
<1>5. Covered(p, {})
  BY <1>1, <1>2, <1>4 DEF Covered
<1> QED
  BY <1>1, <1>2, <1>3, <1>5 DEF CooldownLasts

\* A request passes the check when the cooldown is over: then every execution
\* younger than the cooldown is under way, in another request.
LEMMA MatchKeepsCooldown ==
  ASSUME MatcherTyped, NEW t \in Tasks, NEW k, NEW a, Match(t, k, a), MatcherTyped',
         NEW p \in EnabledPlaybooks, CooldownLasts(p)
  PROVE  CooldownLasts(p)'
<1>1. PICK open \in SUBSET DOMAIN started[p] : Covered(p, open)
  BY DEF CooldownLasts
<1>2. cool'[p] = cool[p]
  BY DEF Match
<1>3. ASSUME started'[p] = started[p], Cardinality(Busy(p)') >= Cardinality(Busy(p))
      PROVE  CooldownLasts(p)'
  <2>1. Younger(p, Cooldown[p])' = Younger(p, Cooldown[p])
    BY <1>3 DEF Younger
  <2>2. Cardinality(open) <= Cardinality(Busy(p)')
    <3>1. Cardinality(open) \in Nat
      BY PartOf DEF MatcherTyped
    <3>2. Cardinality(Busy(p)) \in Nat /\ Cardinality(Busy(p)') \in Nat
      BY CounterNumbers, CounterNumbersNext
    <3> QED
      BY <1>1, <1>3, <3>1, <3>2 DEF Covered
  <2>3. Covered(p, open)'
    BY <1>1, <1>2, <1>3, <2>2 DEF Covered
  <2> QED
    BY <1>3, <2>1, <2>3 DEF CooldownLasts
<1>4. ASSUME cool[p] = 0, Cardinality(Busy(p)') = Cardinality(Busy(p)) + 1,
             NEW new, new \notin DOMAIN started[p], DOMAIN started'[p] = DOMAIN started[p] \cup {new},
             \A n \in DOMAIN started[p] : started'[p][n] = started[p][n]
      PROVE  CooldownLasts(p)'
  <2>1. PICK more : more = open \cup {new}
    OBVIOUS
  <2>2. IsFiniteSet(open) /\ new \notin open
    BY <1>4, PartOf DEF MatcherTyped
  <2>3. IsFiniteSet(more) /\ Cardinality(more) = Cardinality(open) + 1 /\ Cardinality(open) \in Nat
    BY <2>1, <2>2, FS_AddElement, FS_CardinalityType
  <2>4. Cardinality(more) <= Cardinality(Busy(p)')
    BY <1>1, <1>4, <2>3, CounterNumbers DEF Covered
  <2>5. Covered(p, more)'
    BY <1>1, <1>2, <1>4, <2>1, <2>4 DEF Covered
  <2>6. Younger(p, Cooldown[p])' \subseteq more
    <3>1. ASSUME NEW n \in DOMAIN started[p] \ open PROVE started[p][n] >= Cooldown[p]
      <4>1. cool[p] + started[p][n] >= Cooldown[p] /\ started[p][n] \in Nat
        BY <1>1, <3>1 DEF Covered, MatcherTyped
      <4> QED
        BY <1>4, <4>1, MatcherConstants
    <3>2. ASSUME NEW n \in DOMAIN started'[p], started'[p][n] < Cooldown[p] PROVE n \in more
      <4>1. CASE n \in DOMAIN started[p] \ open
        <5>1. started[p][n] >= Cooldown[p] /\ started[p][n] \in Nat /\ started[p][n] < Cooldown[p]
          BY <1>4, <3>1, <3>2, <4>1 DEF MatcherTyped
        <5> QED
          BY <5>1, MatcherConstants
      <4> QED
        BY <1>4, <2>1, <4>1
    <3> QED
      BY <3>2 DEF Younger
  <2>7. Cardinality(Younger(p, Cooldown[p])') <= Cardinality(Tasks)
    <3>1. Cardinality(Younger(p, Cooldown[p])') <= Cardinality(more)
          /\ Cardinality(Younger(p, Cooldown[p])') \in Nat
      BY <2>3, <2>6, PartOf
    <3>2. Cardinality(Busy(p)') <= Cardinality(Tasks) /\ Cardinality(Busy(p)') \in Nat
      BY CounterNumbersNext
    <3>3. Cardinality(more) \in Nat
      BY <2>3
    <3> QED
      BY <2>4, <3>1, <3>2, <3>3, MatcherConstants
  <2>8. more \in SUBSET DOMAIN started'[p]
    BY <1>4, <2>1
  <2> QED
    BY <2>5, <2>7, <2>8 DEF CooldownLasts
<1>5. Cardinality(Busy(p)) \in Nat
  BY CounterNumbers
<1>6. CASE started'[p] = started[p]
  <2>1. Busy(p)' = Busy(p) \/ Cardinality(Busy(p)') = Cardinality(Busy(p)) + 1
    BY MatchBegins
  <2>2. Cardinality(Busy(p)') >= Cardinality(Busy(p))
    BY <1>5, <2>1
  <2> QED
    BY <1>3, <1>6, <2>2
<1>7. CASE started'[p] # started[p]
  BY <1>4, <1>7, MatchBegins
<1> QED
  BY <1>6, <1>7

LEMMA RecordKeepsCooldown ==
  ASSUME MatcherTyped, NEW t \in Tasks, NEW q \in EnabledPlaybooks, Record(t, q),
         NEW p \in EnabledPlaybooks, CooldownLasts(p)
  PROVE  CooldownLasts(p)'
<1>1. PICK open \in SUBSET DOMAIN started[p] : Covered(p, open)
  BY DEF CooldownLasts
<1>2. Younger(p, Cooldown[p])' = Younger(p, Cooldown[p]) /\ started' = started
  BY RecordIs DEF Younger
<1>3. CASE p # q
  <2>1. cool'[p] = cool[p] /\ Busy(p)' = Busy(p)
    BY <1>3, RecordIs
  <2>2. Covered(p, open)'
    BY <1>1, <1>2, <2>1 DEF Covered
  <2> QED
    BY <1>2, <2>2 DEF CooldownLasts
<1>4. CASE p = q
  <2>1. \A n \in DOMAIN started[p] : cool'[p] + started[p][n] >= Cooldown[p]
    <3>1. cool'[p] = Cooldown[p] /\ Cooldown[p] \in Nat
      BY <1>4, RecordIs, MatcherConstants
    <3>2. \A n \in DOMAIN started[p] : started[p][n] \in Nat
      BY DEF MatcherTyped
    <3> QED
      BY <3>1, <3>2
  <2>2. Cardinality({}) <= Cardinality(Busy(p)')
    <3>1. Cardinality(Busy(p)') \in Nat
      BY <1>4, RecordIs
    <3>2. Cardinality({}) = 0
      BY FS_EmptySet
    <3> QED
      BY <3>1, <3>2
  <2>3. Covered(p, {})'
    BY <1>2, <2>1, <2>2 DEF Covered
  <2> QED
    BY <1>2, <2>3 DEF CooldownLasts
<1> QED
  BY <1>3, <1>4

LEMMA TickKeepsCooldown ==
  ASSUME MatcherTyped, MatcherTick, NEW p \in EnabledPlaybooks, CooldownLasts(p)
  PROVE  CooldownLasts(p)'
<1>1. PICK open \in SUBSET DOMAIN started[p] : Covered(p, open)
  BY DEF CooldownLasts
<1>2. \A n \in DOMAIN started'[p] : n \in DOMAIN started[p] /\ started[p][n] \in Nat
                                    /\ started'[p][n] = started[p][n] + 1
  BY TickAges DEF MatcherTyped
<1>3. Younger(p, Cooldown[p])' \subseteq Younger(p, Cooldown[p])
  BY <1>2, MatcherConstants DEF Younger
<1>4. IsFiniteSet(Younger(p, Cooldown[p]))
  <2>1. Younger(p, Cooldown[p]) \subseteq DOMAIN started[p]
    BY DEF Younger
  <2> QED
    BY <2>1, PartOf DEF MatcherTyped
<1>5. Cardinality(Younger(p, Cooldown[p])') <= Cardinality(Tasks)
  <2>1. /\ Cardinality(Younger(p, Cooldown[p])') <= Cardinality(Younger(p, Cooldown[p]))
        /\ Cardinality(Younger(p, Cooldown[p])') \in Nat /\ Cardinality(Younger(p, Cooldown[p])) \in Nat
    BY <1>3, <1>4, PartOf
  <2>2. Cardinality(Younger(p, Cooldown[p])) <= Cardinality(Tasks)
    BY DEF CooldownLasts
  <2> QED
    BY <2>1, <2>2, MatcherConstants
<1>6. PICK still : still = open \cap DOMAIN started'[p]
  OBVIOUS
<1>7. Covered(p, still)'
  <2>1. Cardinality(still) <= Cardinality(open) /\ Cardinality(still) \in Nat /\ Cardinality(open) \in Nat
    <3>1. IsFiniteSet(open) /\ still \subseteq open
      BY <1>6, PartOf DEF MatcherTyped
    <3> QED
      BY <3>1, PartOf
  <2>2. Cardinality(still) <= Cardinality(Busy(p)')
    BY <1>1, <2>1, TickAges, CounterNumbers DEF Covered
  <2>3. ASSUME NEW n \in DOMAIN started'[p] \ still PROVE cool'[p] + started'[p][n] >= Cooldown[p]
    <3>1. cool[p] + started[p][n] >= Cooldown[p] /\ started'[p][n] = started[p][n] + 1
          /\ started[p][n] \in Nat
      BY <1>1, <1>2, <1>6, <2>3 DEF Covered
    <3>2. cool'[p] \in Nat /\ cool'[p] + 1 >= cool[p] /\ cool[p] \in Nat
      BY TickAges DEF MatcherTyped
    <3> QED
      BY <3>1, <3>2, MatcherConstants
  <2> QED
    BY <2>2, <2>3 DEF Covered
<1> QED
  BY <1>5, <1>6, <1>7 DEF CooldownLasts

-----------------------------------------------------------------------------
(* Limits.                                                                 *)

LEMMA LimitStarts ==
  ASSUME MatcherInit, NEW p \in EnabledPlaybooks
  PROVE  LimitKept(p)
<1>1. started[p] = <<>> /\ DOMAIN started[p] = {} /\ Recorded(p) = 0 /\ Busy(p) = {}
  BY DEF MatcherInit, Recorded, Busy
<1>2. Cardinality({}) = 0
  BY FS_EmptySet
<1>3. SplitInto(p, {}, {})
  <2>1. ASSUME NEW m \in Nat PROVE Cardinality(Further(p, {}, m)) <= m * PerCounter(p)
    <3>1. Further(p, {}, m) = {}
      BY DEF Further
    <3>2. m * PerCounter(p) \in Nat
      BY MatcherConstants, OneMore
    <3> QED
      BY <1>2, <3>1, <3>2
  <2>2. Cardinality({}) <= Recorded(p) + Cardinality(Busy(p))
    BY <1>1, <1>2
  <2> QED
    BY <1>1, <2>1, <2>2 DEF SplitInto
<1> QED
  BY <1>1, <1>2, <1>3, MatcherConstants DEF LimitKept

\* A counter restarts no earlier than one life after the last time: what was
\* matched since then is now one life further back, and the rest moves with it.
LEMMA RestartKeeps ==
  ASSUME MatcherTyped, NEW p \in EnabledPlaybooks, LimitKept(p),
         p \in DOMAIN execData => execData[p].age >= Life(p)
  PROVE  \A m \in Nat : Cardinality({n \in DOMAIN started[p] : started[p][n] < 0 + m * Life(p)})
                          <= m * PerCounter(p)
<1> SUFFICES ASSUME NEW m \in Nat
             PROVE  Cardinality({n \in DOMAIN started[p] : started[p][n] < 0 + m * Life(p)})
                      <= m * PerCounter(p)
  OBVIOUS
<1>1. PICK before, since \in SUBSET DOMAIN started[p] : SplitInto(p, before, since)
  BY DEF LimitKept
<1>2. \A n \in DOMAIN started[p] : started[p][n] \in Nat
  BY DEF MatcherTyped
<1>3. PICK near : near = {n \in DOMAIN started[p] : started[p][n] < 0 + m * Life(p)}
  OBVIOUS
<1>4. CASE m = 0
  <2>1. m * Life(p) = 0 /\ m * PerCounter(p) = 0
    BY <1>4, MatcherConstants
  <2>2. near = {}
    BY <1>2, <1>3, <2>1
  <2>3. Cardinality(near) = 0
    BY <2>2, FS_EmptySet
  <2>4. Cardinality(near) <= m * PerCounter(p)
    BY <2>1, <2>3
  <2> QED
    BY <1>3, <2>4
<1>5. CASE m >= 1
  <2>1. /\ m - 1 \in Nat /\ m * Life(p) = (m - 1) * Life(p) + Life(p)
        /\ m * PerCounter(p) = (m - 1) * PerCounter(p) + PerCounter(p)
        /\ (m - 1) * Life(p) \in Nat /\ (m - 1) * PerCounter(p) \in Nat
    BY <1>5, OneMore, MatcherConstants
  <2>2. PICK far : far = Further(p, before, m - 1)
    OBVIOUS
  <2>3. near \subseteq since \cup far
    <3> SUFFICES ASSUME NEW n \in near, n \notin since PROVE n \in far
      OBVIOUS
    <3>1. n \in before /\ p \in DOMAIN execData
      BY <1>1, <1>3 DEF SplitInto
    <3>2. started[p][n] \in Nat /\ started[p][n] < 0 + m * Life(p)
      BY <1>2, <1>3
    <3>3. CounterAge(p) >= Life(p) /\ CounterAge(p) \in Nat
      BY <3>1, CounterNumbers DEF CounterAge
    <3>4. started[p][n] < CounterAge(p) + (m - 1) * Life(p)
      BY <2>1, <3>2, <3>3, MatcherConstants
    <3> QED
      BY <2>2, <3>1, <3>4 DEF Further
  <2>4. IsFiniteSet(since) /\ IsFiniteSet(far) /\ Cardinality(since) \in Nat /\ Cardinality(far) \in Nat
    <3>1. far \subseteq DOMAIN started[p]
      BY <2>2 DEF Further
    <3> QED
      BY <3>1, PartOf DEF MatcherTyped
  <2>5. Cardinality(near) <= Cardinality(since) + Cardinality(far) /\ Cardinality(near) \in Nat
    <3>1. IsFiniteSet(since \cup far) /\ Cardinality(since \cup far) <= Cardinality(since) + Cardinality(far)
      BY <2>4, UnionOf
    <3>2. Cardinality(near) <= Cardinality(since \cup far) /\ Cardinality(near) \in Nat
          /\ Cardinality(since \cup far) \in Nat
      BY <2>3, <3>1, PartOf
    <3> QED
      BY <2>4, <3>1, <3>2
  <2>6. Cardinality(far) <= (m - 1) * PerCounter(p)
    BY <1>1, <2>1, <2>2 DEF SplitInto
  <2>7. Cardinality(since) <= PerCounter(p)
    <3>1. /\ Cardinality(since) <= Recorded(p) + Cardinality(Busy(p))
          /\ Recorded(p) + Cardinality(Busy(p)) <= PerCounter(p)
      BY <1>1 DEF SplitInto, LimitKept
    <3> QED
      BY <2>4, <3>1, CounterNumbers, MatcherConstants
  <2>8. Cardinality(near) <= m * PerCounter(p)
    BY <2>1, <2>4, <2>5, <2>6, <2>7, MatcherConstants
  <2> QED
    BY <1>3, <2>8
<1> QED
  BY <1>4, <1>5

\* The counter as a match leaves it, before the new execution is counted in.
LEMMA MatchSplits ==
  ASSUME MatcherTyped, NEW t \in Tasks, NEW k, NEW a, Match(t, k, a), MatcherTyped',
         NEW p \in EnabledPlaybooks, LimitKept(p)
  PROVE  \E before, since \in SUBSET DOMAIN started[p] :
           /\ DOMAIN started[p] = before \cup since
           /\ p \notin DOMAIN execData' => before = {}
           /\ \A m \in Nat :
                Cardinality({n \in before : started[p][n] < CounterAge(p)' + m * Life(p)}) <= m * PerCounter(p)
           /\ Cardinality(since) <= Recorded(p)' + Cardinality(Busy(p))
<1>1. execData' = [q \in DOMAIN execData |->
        IF cool[q] = 0 /\ Stale(q) THEN [count |-> 0, age |-> 0] ELSE execData[q]]
  BY DEF Match
<1>2. CASE p \in DOMAIN execData /\ cool[p] = 0 /\ Stale(p)
  <2>1. execData'[p] = [count |-> 0, age |-> 0] /\ p \in DOMAIN execData'
    BY <1>1, <1>2
  <2>2. CounterAge(p)' = 0 /\ Recorded(p)' = 0
    BY <2>1 DEF CounterAge, Recorded
  <2>3. execData[p].age >= Life(p)
    <3>1. execData[p].age > Window[p] /\ execData[p].age \in Nat
      BY <1>2, CounterNumbers DEF Stale, CounterAge
    <3> QED
      BY <3>1, MatcherConstants
  <2>4. \A m \in Nat :
          Cardinality({n \in DOMAIN started[p] : started[p][n] < CounterAge(p)' + m * Life(p)})
            <= m * PerCounter(p)
    BY <2>2, <2>3, RestartKeeps
  <2>5. Cardinality({}) <= Recorded(p)' + Cardinality(Busy(p))
    BY <2>2, FS_EmptySet, CounterNumbers
  <2> WITNESS DOMAIN started[p] \in SUBSET DOMAIN started[p]
  <2> WITNESS {} \in SUBSET DOMAIN started[p]
  <2> QED
    BY <2>1, <2>4, <2>5
<1>3. CASE ~(p \in DOMAIN execData /\ cool[p] = 0 /\ Stale(p))
  <2>1. CounterAge(p)' = CounterAge(p) /\ Recorded(p)' = Recorded(p)
        /\ DOMAIN execData' = DOMAIN execData
    BY <1>1, <1>3 DEF CounterAge, Recorded
  <2>2. PICK before, since \in SUBSET DOMAIN started[p] : SplitInto(p, before, since)
    BY DEF LimitKept
  <2> QED
    BY <2>1, <2>2 DEF SplitInto, Further
<1> QED
  BY <1>2, <1>3

LEMMA MatchKeepsLimit ==
  ASSUME MatcherTyped, NEW t \in Tasks, NEW k, NEW a, Match(t, k, a), MatcherTyped',
         NEW p \in EnabledPlaybooks, LimitKept(p)
  PROVE  LimitKept(p)'
<1>1. PICK before, since \in SUBSET DOMAIN started[p] :
        /\ DOMAIN started[p] = before \cup since
        /\ p \notin DOMAIN execData' => before = {}
        /\ \A m \in Nat :
             Cardinality({n \in before : started[p][n] < CounterAge(p)' + m * Life(p)}) <= m * PerCounter(p)
        /\ Cardinality(since) <= Recorded(p)' + Cardinality(Busy(p))
  BY MatchSplits
<1>2. Cardinality(since) \in Nat /\ IsFiniteSet(since)
  BY PartOf DEF MatcherTyped
<1>3. Recorded(p)' + Cardinality(Busy(p)') <= PerCounter(p)
  <2>1. Recorded(p)' = Recorded(p) \/ Recorded(p)' = 0
    BY DEF Match, Recorded
  <2>2. Recorded(p) + Cardinality(Busy(p)) <= PerCounter(p)
    BY DEF LimitKept
  <2>3. CASE Busy(p)' = Busy(p)
    BY <2>1, <2>2, <2>3, CounterNumbers, MatcherConstants
  <2>4. CASE Busy(p)' # Busy(p)
    <3>1. cool[p] = 0 /\ ~Exhausted(p)
      BY <2>4, MatchBegins
    <3>2. Recorded(p)' = 0 \/ Recorded(p)' + 1 <= MaxExecutions[p]
      <4>1. CASE p \notin DOMAIN execData
        BY <4>1 DEF Match, Recorded
      <4>2. CASE p \in DOMAIN execData /\ Stale(p)
        BY <3>1, <4>2 DEF Match, Recorded
      <4>3. CASE p \in DOMAIN execData /\ ~Stale(p)
        <5>1. Recorded(p)' = execData[p].count /\ execData[p].count \in Nat
              /\ ~(execData[p].count >= MaxExecutions[p])
          BY <3>1, <4>3 DEF Match, Recorded, Exhausted, MatcherTyped
        <5> QED
          BY <5>1, MatcherConstants
      <4> QED
        BY <4>1, <4>2, <4>3
    <3>3. Cardinality(Busy(p)') <= Cardinality(Tasks) /\ Cardinality(Busy(p)') \in Nat
          /\ Recorded(p)' \in Nat
      BY CounterNumbersNext
    <3> QED
      BY <3>2, <3>3, MatcherConstants
  <2> QED
    BY <2>3, <2>4
<1>4. CASE started'[p] = started[p]
  <2>1. Cardinality(Busy(p)) <= Cardinality(Busy(p)')
    BY MatchBegins, CounterNumbers
  <2>2. Cardinality(since) <= Recorded(p)' + Cardinality(Busy(p)')
    BY <1>1, <1>2, <2>1, CounterNumbers, CounterNumbersNext
  <2>3. SplitInto(p, before, since)'
    BY <1>1, <1>4, <2>2 DEF SplitInto, Further, PerCounter, Life
  <2> QED
    BY <1>3, <1>4, <2>3 DEF LimitKept, PerCounter
<1>5. CASE started'[p] # started[p]
  <2>1. PICK new : /\ new \notin DOMAIN started[p] /\ DOMAIN started'[p] = DOMAIN started[p] \cup {new}
                   /\ \A n \in DOMAIN started[p] : started'[p][n] = started[p][n]
                   /\ Cardinality(Busy(p)') = Cardinality(Busy(p)) + 1
    BY <1>5, MatchBegins
  <2>2. PICK more : more = since \cup {new}
    OBVIOUS
  <2>3. Cardinality(more) = Cardinality(since) + 1
    BY <1>2, <2>1, <2>2, FS_AddElement
  <2>4. Cardinality(more) <= Recorded(p)' + Cardinality(Busy(p)')
    BY <1>1, <1>2, <2>1, <2>3, CounterNumbers, CounterNumbersNext
  <2>5. ASSUME NEW m \in Nat PROVE Further(p, before, m)' = {n \in before : started[p][n] < CounterAge(p)' + m * Life(p)}
    BY <1>1, <2>1 DEF Further, Life
  <2>6. SplitInto(p, before, more)'
    BY <1>1, <2>1, <2>2, <2>4, <2>5 DEF SplitInto, PerCounter
  <2>7. before \in SUBSET DOMAIN started'[p] /\ more \in SUBSET DOMAIN started'[p]
    BY <1>1, <2>1, <2>2
  <2> QED
    BY <1>3, <2>6, <2>7 DEF LimitKept, PerCounter
<1> QED
  BY <1>4, <1>5

LEMMA RecordKeepsLimit ==
  ASSUME MatcherTyped, NEW t \in Tasks, NEW q \in EnabledPlaybooks, Record(t, q), MatcherTyped',
         NEW p \in EnabledPlaybooks, LimitKept(p)
  PROVE  LimitKept(p)'
<1>1. PICK before, since \in SUBSET DOMAIN started[p] : SplitInto(p, before, since)
  BY DEF LimitKept
<1>2. started' = started
  BY RecordIs
<1>3. CASE p # q
  <2>1. Busy(p)' = Busy(p) /\ Recorded(p)' = Recorded(p) /\ CounterAge(p)' = CounterAge(p)
        /\ (p \in DOMAIN execData' <=> p \in DOMAIN execData)
    BY <1>3, RecordIs DEF Recorded, CounterAge
  <2>2. SplitInto(p, before, since)'
    BY <1>1, <1>2, <2>1 DEF SplitInto, Further, PerCounter, Life
  <2> QED
    BY <1>2, <2>1, <2>2 DEF LimitKept, PerCounter
<1>4. CASE p = q
  <2>1. Cardinality(Busy(p)') = Cardinality(Busy(p)) - 1 /\ Cardinality(Busy(p)') \in Nat
        /\ p \in DOMAIN execData'
    BY <1>4, RecordIs
  <2>2. Recorded(p) + Cardinality(Busy(p)) <= PerCounter(p)
    BY DEF LimitKept
  <2>3. CASE p \in DOMAIN execData /\ execData[p].age < RecordWindow
    <3>1. execData'[p] = [execData[p] EXCEPT !.count = @ + 1] /\ execData[p] \in [count : Nat, age : Ages]
      BY <1>4, <2>3 DEF Record, MatcherTyped
    <3>2. Recorded(p)' = Recorded(p) + 1 /\ CounterAge(p)' = CounterAge(p)
      BY <2>1, <2>3, <3>1 DEF Recorded, CounterAge
    <3>3. Recorded(p)' + Cardinality(Busy(p)') = Recorded(p) + Cardinality(Busy(p))
      BY <2>1, <3>2, CounterNumbers
    <3>4. SplitInto(p, before, since)'
      BY <1>1, <1>2, <2>1, <3>2, <3>3 DEF SplitInto, Further, PerCounter, Life
    <3> QED
      BY <1>2, <2>2, <3>3, <3>4 DEF LimitKept, PerCounter
  <2>4. CASE ~(p \in DOMAIN execData /\ execData[p].age < RecordWindow)
    <3>1. execData'[p] = [count |-> 1, age |-> 0]
      BY <1>4, <2>4 DEF Record
    <3>2. Recorded(p)' = 1 /\ CounterAge(p)' = 0
      BY <2>1, <3>1 DEF Recorded, CounterAge
    <3>3. p \in DOMAIN execData => execData[p].age >= Life(p)
      <4>1. p \in DOMAIN execData => execData[p].age \in Nat
        BY CounterNumbers DEF CounterAge
      <4> QED
        BY <2>4, <4>1, MatcherConstants
    <3>4. \A m \in Nat : Cardinality({n \in DOMAIN started[p] : started[p][n] < 0 + m * Life(p)})
                           <= m * PerCounter(p)
      BY <3>3, RestartKeeps
    <3>5. Recorded(p)' + Cardinality(Busy(p)') <= PerCounter(p)
      BY <2>1, <2>2, <3>2, CounterNumbers, MatcherConstants
    <3>6. Cardinality({}) <= Recorded(p)' + Cardinality(Busy(p)')
      BY <2>1, <3>2, FS_EmptySet
    <3>7. SplitInto(p, DOMAIN started[p], {})'
      BY <1>2, <2>1, <3>2, <3>4, <3>6 DEF SplitInto, Further, PerCounter, Life
    <3> QED
      BY <1>2, <3>5, <3>7 DEF LimitKept, PerCounter
  <2> QED
    BY <2>3, <2>4
<1> QED
  BY <1>3, <1>4

LEMMA TickKeepsLimit ==
  ASSUME MatcherTyped, MatcherTick, NEW p \in EnabledPlaybooks, LimitKept(p)
  PROVE  LimitKept(p)'
<1>1. PICK before, since \in SUBSET DOMAIN started[p] : SplitInto(p, before, since)
  BY DEF LimitKept
<1>2. /\ DOMAIN execData' = DOMAIN execData
      /\ \A r \in DOMAIN execData : execData'[r] = [execData[r] EXCEPT !.age = Aged(@)]
  BY DEF MatcherTick
<1>3. /\ Recorded(p)' = Recorded(p)
      /\ CounterAge(p)' \in Nat /\ CounterAge(p)' <= CounterAge(p) + 1
  <2>1. CASE p \notin DOMAIN execData
    BY <1>2, <2>1 DEF Recorded, CounterAge
  <2>2. CASE p \in DOMAIN execData
    <3>1. execData[p] \in [count : Nat, age : Ages]
      BY <2>2 DEF MatcherTyped
    <3>2. Aged(execData[p].age) \in Nat /\ Aged(execData[p].age) <= execData[p].age + 1
      BY <3>1, MatcherNumbers DEF Aged, Ages
    <3>3. execData'[p].count = execData[p].count /\ execData'[p].age = Aged(execData[p].age)
      BY <1>2, <2>2, <3>1
    <3> QED
      BY <1>2, <2>2, <3>2, <3>3 DEF Recorded, CounterAge
  <2> QED
    BY <2>1, <2>2
<1>4. Busy(p)' = Busy(p) /\ DOMAIN started'[p] \subseteq DOMAIN started[p]
      /\ \A n \in DOMAIN started'[p] : started'[p][n] = started[p][n] + 1 /\ started[p][n] \in Nat
  BY TickAges DEF MatcherTyped
<1>5. PICK b : b = before \cap DOMAIN started'[p]
  OBVIOUS
<1>6. PICK s : s = since \cap DOMAIN started'[p]
  OBVIOUS
<1>7. ASSUME NEW m \in Nat PROVE Cardinality(Further(p, b, m)') <= m * PerCounter(p)
  <2>1. Further(p, b, m)' \subseteq Further(p, before, m)
    <3> SUFFICES ASSUME NEW n \in b, started'[p][n] < CounterAge(p)' + m * Life(p)
                 PROVE  n \in before /\ started[p][n] < CounterAge(p) + m * Life(p)
      BY DEF Further, Life
    <3>1. n \in before /\ started'[p][n] = started[p][n] + 1 /\ started[p][n] \in Nat
      BY <1>4, <1>5
    <3>2. m * Life(p) \in Nat
      BY OneMore, MatcherConstants
    <3> QED
      BY <1>3, <3>1, <3>2, CounterNumbers
  <2>2. Further(p, before, m) \subseteq DOMAIN started[p]
    BY DEF Further
  <2>3. /\ Cardinality(Further(p, b, m)') <= Cardinality(Further(p, before, m))
        /\ Cardinality(Further(p, b, m)') \in Nat /\ Cardinality(Further(p, before, m)) \in Nat
    <3>1. IsFiniteSet(Further(p, before, m))
      BY <2>2, PartOf DEF MatcherTyped
    <3> QED
      BY <2>1, <3>1, PartOf
  <2>4. Cardinality(Further(p, before, m)) <= m * PerCounter(p)
    BY <1>1 DEF SplitInto
  <2>5. m * PerCounter(p) \in Nat
    BY OneMore, MatcherConstants
  <2> QED
    BY <2>3, <2>4, <2>5
<1>8. Cardinality(s) <= Recorded(p)' + Cardinality(Busy(p)')
  <2>1. IsFiniteSet(since) /\ s \subseteq since
    BY <1>6, PartOf DEF MatcherTyped
  <2>2. Cardinality(s) <= Cardinality(since) /\ Cardinality(s) \in Nat /\ Cardinality(since) \in Nat
    BY <2>1, PartOf
  <2>3. Cardinality(since) <= Recorded(p) + Cardinality(Busy(p))
    BY <1>1 DEF SplitInto
  <2> QED
    BY <1>3, <1>4, <2>2, <2>3, CounterNumbers
<1>9. SplitInto(p, b, s)'
  <2>1. DOMAIN started'[p] = b \cup s
    BY <1>1, <1>4, <1>5, <1>6 DEF SplitInto
  <2>2. p \notin DOMAIN execData' => b = {}
    BY <1>1, <1>2, <1>5 DEF SplitInto
  <2> QED
    BY <1>7, <1>8, <2>1, <2>2 DEF SplitInto, PerCounter
<1> QED
  BY <1>3, <1>4, <1>5, <1>6, <1>9 DEF LimitKept, PerCounter

LEMMA MatcherInductive ==
  /\ MatcherInit => MatcherInv
  /\ MatcherInv /\ [MatcherNext]_matcherVars => MatcherInv'
<1>1. MatcherInit => MatcherInv
  BY TypesInductive, CooldownStarts, LimitStarts DEF MatcherInv
<1>2. ASSUME MatcherInv, [MatcherNext]_matcherVars PROVE MatcherInv'
  <2>1. MatcherTyped /\ MatcherTyped'
    BY <1>2, TypesInductive DEF MatcherInv
  <2>2. ASSUME NEW p \in EnabledPlaybooks PROVE CooldownLasts(p)' /\ LimitKept(p)'
    <3>1. CooldownLasts(p) /\ LimitKept(p)
      BY <1>2 DEF MatcherInv
    <3>2. CASE UNCHANGED matcherVars
      BY <3>1, <3>2 DEF matcherVars, CooldownLasts, Covered, Younger, Busy, LimitKept, SplitInto,
                        Further, Recorded, CounterAge, PerCounter, Life
    <3>3. ASSUME NEW t \in Tasks, NEW k \in Kinds, NEW a \in Delays, Match(t, k, a)
          PROVE  CooldownLasts(p)' /\ LimitKept(p)'
      BY <2>1, <3>1, <3>3, MatchKeepsCooldown, MatchKeepsLimit
    <3>4. ASSUME NEW t \in Tasks, NEW q \in EnabledPlaybooks, Record(t, q)
          PROVE  CooldownLasts(p)' /\ LimitKept(p)'
      BY <2>1, <3>1, <3>4, RecordKeepsCooldown, RecordKeepsLimit
    <3>5. ASSUME MatcherTick PROVE CooldownLasts(p)' /\ LimitKept(p)'
      BY <2>1, <3>1, <3>5, TickKeepsCooldown, TickKeepsLimit
    <3> QED
      BY <1>2, <3>2, <3>3, <3>4, <3>5 DEF MatcherNext
  <2> QED
    BY <2>1, <2>2 DEF MatcherInv
<1> QED
  BY <1>1, <1>2

LEMMA CountersTogether ==
  ASSUME MatcherInv
  PROVE  RateLimited
<1> SUFFICES ASSUME NEW p \in EnabledPlaybooks, NEW m \in 1 .. Window[p], m * Life(p) >= Window[p]
             PROVE  Cardinality(Younger(p, Window[p])) <= (m + 1) * PerCounter(p)
  BY DEF RateLimited
<1>1. LimitKept(p) /\ MatcherTyped
  BY DEF MatcherInv
<1>2. PICK before, since \in SUBSET DOMAIN started[p] : SplitInto(p, before, since)
  BY <1>1 DEF LimitKept
<1>3. m \in Nat
  BY MatcherConstants
<1>4. m * Life(p) \in Nat /\ m * PerCounter(p) \in Nat /\ (m + 1) * PerCounter(p) = m * PerCounter(p) + PerCounter(p)
  BY <1>3, OneMore, MatcherConstants
<1>5. PICK far : far = Further(p, before, m)
  OBVIOUS
<1>6. PICK young : young = Younger(p, Window[p])
  OBVIOUS
<1>7. young \subseteq since \cup far
  <2> SUFFICES ASSUME NEW n \in young, n \notin since PROVE n \in far
    OBVIOUS
  <2>1. n \in before /\ started[p][n] \in Nat /\ started[p][n] < Window[p]
    BY <1>1, <1>2, <1>6 DEF Younger, SplitInto, MatcherTyped
  <2>2. started[p][n] < CounterAge(p) + m * Life(p)
    BY <1>1, <1>4, <2>1, CounterNumbers, MatcherConstants
  <2> QED
    BY <1>5, <2>1, <2>2 DEF Further
<1>8. IsFiniteSet(since) /\ IsFiniteSet(far) /\ Cardinality(since) \in Nat /\ Cardinality(far) \in Nat
  <2>1. far \subseteq DOMAIN started[p]
    BY <1>5 DEF Further
  <2> QED
    BY <1>1, <2>1, PartOf DEF MatcherTyped
<1>9. Cardinality(young) <= Cardinality(since) + Cardinality(far) /\ Cardinality(young) \in Nat
  <2>1. IsFiniteSet(since \cup far) /\ Cardinality(since \cup far) <= Cardinality(since) + Cardinality(far)
    BY <1>8, UnionOf
  <2>2. Cardinality(young) <= Cardinality(since \cup far) /\ Cardinality(young) \in Nat
        /\ Cardinality(since \cup far) \in Nat
    BY <1>7, <2>1, PartOf
  <2> QED
    BY <1>8, <2>1, <2>2
<1>10. Cardinality(far) <= m * PerCounter(p)
  BY <1>2, <1>3, <1>5 DEF SplitInto
<1>11. Cardinality(since) <= PerCounter(p)
  <2>1. /\ Cardinality(since) <= Recorded(p) + Cardinality(Busy(p))
        /\ Recorded(p) + Cardinality(Busy(p)) <= PerCounter(p)
    BY <1>1, <1>2 DEF SplitInto, LimitKept
  <2> QED
    BY <1>1, <1>8, <2>1, CounterNumbers, MatcherConstants
<1> QED
  BY <1>4, <1>6, <1>8, <1>9, <1>10, <1>11, MatcherConstants

\* Within one cooldown a playbook is executed once per overlapping request at most,
\* for any number of requests and however long executions take (gatekeeper/src/
\* matcher.ts, matchPlaybook, recordPlaybookExecution).
THEOREM CooldownKeptHolds == MatcherSpec => []CooldownKept
<1>1. MatcherInv => CooldownKept
  BY DEF MatcherInv, CooldownLasts, CooldownKept
<1> QED
  BY <1>1, MatcherInductive, PTL DEF MatcherSpec

\* A playbook's executions within its window are no more than the lives of its
\* counter which the window touches let through, each the limit and one more for
\* every other overlapping request, for windows of any length and any number of
\* requests (gatekeeper/src/matcher.ts, matchPlaybook, recordPlaybookExecution).
THEOREM RateLimitedHolds == MatcherSpec => []RateLimited
BY MatcherInductive, CountersTogether, PTL DEF MatcherSpec
=============================================================================
