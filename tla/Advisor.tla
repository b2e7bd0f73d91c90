------------------------------- MODULE Advisor -------------------------------
(***************************************************************************)
(* The advisor of the gatekeeper (shared/src/gatekeeper-llm.ts): a request *)
(* for advice, or a check of health, asks one provider after another over  *)
(* HTTP.  The timer of a call runs until the headers of the answer have    *)
(* come; the body that follows is under the limits of the HTTP client.     *)
(***************************************************************************)
EXTENDS Naturals

CONSTANTS
  Asks,         \* requests for advice and checks of health that may overlap
  LlmConfigs    \* environments: [key, flag : BOOLEAN, primary, fallback : providers]

VARIABLES
  llm,          \* the environment of the process
  asks,         \* per request: its kind, the provider it waits for, how far
                \* that call is, which providers it has asked and which were of use
  advice        \* per request: its last answer

advisorVars == <<llm, asks, advice>>

Providers == {"openrouter", "ollama"}
Kinds == {"advice", "health"}
NotAsking == [kind |-> "none", provider |-> "none", stage |-> "none",
              asked |-> {}, useful |-> {}]
NoAdvice == [ok |-> FALSE, provider |-> "none", fallback_used |-> FALSE]

AdvisorInit ==
  /\ llm \in LlmConfigs
  /\ asks = [r \in Asks |-> NotAsking]
  /\ advice = [r \in Asks |-> NoAdvice]

Enabled == llm.key \/ llm.flag

\* Whom a request of a kind asks first: nobody if there is no advisor.
First(kind) ==
  IF kind = "health" THEN IF llm.key THEN "openrouter" ELSE "ollama"
  ELSE IF ~Enabled THEN "none"
  ELSE IF llm.primary = "openrouter" /\ llm.key THEN "openrouter"
  ELSE IF llm.primary \in Providers THEN "ollama" ELSE "none"

\* Whom it asks after a call: a check of health asks both, a request for advice
\* turns to the fallback when the primary was of no use.
Then(kind, provider, useful) ==
  IF provider = "openrouter"
     /\ (kind = "health" \/ ("openrouter" \notin useful /\ llm.fallback = "ollama"))
    THEN "ollama" ELSE "none"

\* The answer to advice, and the provider a check of health recommends.  That
\* ollama was asked for want of a key counts as a fallback too.
Answer(kind, asked, useful) ==
  LET provider == IF "openrouter" \in useful THEN "openrouter"
                  ELSE IF "ollama" \in useful THEN "ollama" ELSE "none"
  IN  [ok |-> useful # {}, provider |-> provider,
       fallback_used |-> kind = "advice" /\ llm.primary = "openrouter" /\ "ollama" \in asked]

\* The request r, of a kind, calls a provider, or is answered if there is none to call.
Goes(r, kind, provider, asked, useful) ==
  IF provider = "none"
    THEN /\ asks' = [asks EXCEPT ![r] = NotAsking]
         /\ advice' = [advice EXCEPT ![r] = Answer(kind, asked, useful)]
    ELSE /\ asks' = [asks EXCEPT ![r] =
                      [kind |-> kind, provider |-> provider, stage |-> "fetch",
                       asked |-> asked \cup {provider}, useful |-> useful]]
         /\ UNCHANGED advice

Ask(r, kind) ==
  /\ asks[r] = NotAsking
  /\ Goes(r, kind, First(kind), {}, {})
  /\ UNCHANGED llm

\* The call of r is over.
CallEnds(r, wasUseful) ==
  LET a == asks[r]
      useful == a.useful \cup IF wasUseful THEN {a.provider} ELSE {}
  IN  /\ Goes(r, a.kind, Then(a.kind, a.provider, useful), a.asked, useful)
      /\ UNCHANGED llm

HeadersArrive(r) ==
  /\ asks[r].stage = "fetch"
  /\ asks' = [asks EXCEPT ![r].stage = "body"]
  /\ UNCHANGED <<llm, advice>>

FetchFails(r) == asks[r].stage = "fetch" /\ CallEnds(r, FALSE)

\* A slip the runs must notice: the signal of the timer is not handed to fetch.
TimesOutUnheard(r) == FALSE /\ UNCHANGED advisorVars

\* The timer aborts a call that has brought no headers.
TimesOut(r) == asks[r].stage = "fetch" /\ CallEnds(r, FALSE)

\* The body: an advice, or an error, nothing at all, or not JSON.
BodyEnds(r) == asks[r].stage = "body" /\ \E wasUseful \in BOOLEAN : CallEnds(r, wasUseful)

AdvisorNext ==
  \E r \in Asks :
    \/ \E kind \in Kinds : Ask(r, kind)
    \/ HeadersArrive(r) \/ FetchFails(r) \/ TimesOut(r) \/ BodyEnds(r)

\* Timers fire.  Nothing ends a body but its provider: the timer is cleared
\* before it is read.
AdvisorFairness == \A r \in Asks : WF_advisorVars(TimesOut(r))

-----------------------------------------------------------------------------
\* A request for advice or a check of health is answered, or is reading the body
\* of an answer, whatever providers do that bring no headers, the first or the
\* one it falls back on (callChatCompletion, completeAdvisorPrompt, checkLLMHealth).
AdviceComesOrReads ==
  \A r \in Asks : (asks[r] # NotAsking) ~> (asks[r] = NotAsking \/ asks[r].stage = "body")

\* "Hard timeout prevents hanging on slow LLM responses" (docs/gatekeeper.md:595):
\* every request is answered whatever the providers do.
AdviceComes == \A r \in Asks : (asks[r] # NotAsking) ~> (asks[r] = NotAsking)
=============================================================================
