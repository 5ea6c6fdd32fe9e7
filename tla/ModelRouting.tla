---------------------------- MODULE ModelRouting ----------------------------
(***************************************************************************)
(* The path of a model call: TypedAgent.invoke, ModelRouter.generate with  *)
(* its chain of candidate routes, and the Gemini and Qwen providers, each   *)
(* with a semaphore and a circuit breaker shared by every call. A route may *)
(* also name another implementation of the ModelProvider protocol, which    *)
(* has neither and which may answer that it is unavailable.                 *)
(*                                                                         *)
(* A call is split where the code awaits: the semaphore, the HTTP request   *)
(* and the pause before a retry. Between two attempts of one call the       *)
(* event loop runs nothing else and the model does, so it has more          *)
(* interleavings than the code. Time is abstracted to what the code         *)
(* compares: a routing deadline passes once (expired), and the recovery     *)
(* period of an open breaker has elapsed or not.                            *)
(***************************************************************************)
EXTENDS Naturals, Sequences, FiniteSets

CONSTANTS
  Calls,              \* concurrent calls of one agent
  Gemini, Qwen,       \* the providers of each adapter class
  Others,             \* providers of other classes (tests/test_model_router.py)
  Chain,              \* candidate routes of the role: a sequence of providers
  Tight,              \* the routes whose token budget a large request exceeds
  Concurrency,        \* permits of a provider's semaphore
  max_model_calls,    \* AgentLimits.max_model_calls
  max_retries,        \* ModelRouter: further attempts on one route
  retry_budget,       \* GeminiProvider: further requests in one attempt
  failure_threshold   \* CircuitBreaker

Providers == Gemini \cup Qwen

ASSUME RoutingAssumption ==
  /\ Gemini \cap Qwen = {} /\ Providers \cap Others = {}
  /\ Chain \in Seq(Providers \cup Others) /\ Len(Chain) > 0
  /\ Tight \subseteq DOMAIN Chain
  /\ Concurrency \in Nat \ {0} /\ failure_threshold \in Nat \ {0}
  /\ max_model_calls \in Nat /\ max_retries \in Nat /\ retry_budget \in Nat

VARIABLES
  call,         \* state of each call, see CallType
  model_calls,  \* TypedAgent._model_calls
  permits,      \* free permits of each provider's semaphore
  waiters,      \* calls waiting for a permit, in arrival order
  breaker       \* CircuitBreaker of each provider

routing == <<call, model_calls, permits, waiters, breaker>>

Outcomes == {"success", "failure", "cancelled"}

(* What a provider's answer amounts to. "invalid" is an answer the provider *)
(* accepts and the router's response_model rejects; "retryable" stands for  *)
(* a timeout, a connection error, 429 and 5xx; "final" for every other      *)
(* status, malformed output and a content policy refusal.                   *)
Answers == {"success", "invalid", "retryable", "final"}

CallType ==
  [pc: {"idle", "route", "waiting", "request", "sleep", "calling", "done"},
   route: 1 .. Len(Chain) + 1, attempt: 0 .. max_retries, try: 0 .. retry_budget,
   large: BOOLEAN, skipped: BOOLEAN, cancelled: BOOLEAN, expired: BOOLEAN,
   result: {"none", "success", "agent_budget", "cancellation", "timeout",
            "budget_exhausted", "server", "abandoned"},
   evidence: Seq((1 .. Len(Chain)) \X Outcomes), unavailable: SUBSET DOMAIN Chain,
   late: [DOMAIN Chain -> Nat]]

RoutingTypeOK ==
  /\ call \in [Calls -> CallType]
  /\ model_calls \in 0 .. max_model_calls
  /\ permits \in [Providers -> 0 .. Concurrency]
  /\ waiters \in [Providers -> Seq(Calls)]
  /\ breaker \in [Providers -> [state: {"closed", "open", "half_open"},
                                failures: 0 .. failure_threshold,
                                elapsed: BOOLEAN]]

RoutingInit ==
  /\ call = [c \in Calls |->
       [pc |-> "idle", route |-> 1, attempt |-> 0, try |-> 0,
        large |-> FALSE, skipped |-> FALSE, cancelled |-> FALSE, expired |-> FALSE,
        result |-> "none", evidence |-> <<>>, unavailable |-> {},
        late |-> [r \in DOMAIN Chain |-> 0]]]
  /\ model_calls \in 0 .. max_model_calls   \* the agent may have been invoked before
  /\ permits = [p \in Providers |-> Concurrency]
  /\ waiters = [p \in Providers |-> <<>>]
  /\ \E failures \in 0 .. failure_threshold - 1 :   \* of earlier calls
       breaker = [p \in Providers |->
                    [state |-> "closed", failures |-> failures, elapsed |-> FALSE]]

-----------------------------------------------------------------------------
(* The circuit breaker. failures is only compared with the threshold, so it *)
(* stays at the threshold once there.                                       *)

Allows(b) == b.state # "open" \/ b.elapsed

Allowed(b) == IF b.state = "open" /\ b.elapsed THEN [b EXCEPT !.state = "half_open"] ELSE b

SucceededKeepingCount(b) == [b EXCEPT !.state = "closed", !.elapsed = FALSE]
Succeeded(b) == [state |-> "closed", failures |-> 0, elapsed |-> FALSE]

Failed(b) ==
  IF b.failures + 1 >= failure_threshold
  THEN [state |-> "open", failures |-> failure_threshold, elapsed |-> FALSE]
  ELSE [b EXCEPT !.failures = @ + 1]

-----------------------------------------------------------------------------
(* How a call's record changes. *)

Ended(k, result) == [k EXCEPT !.pc = "done", !.result = result]

(* The attempt succeeded and is recorded. *)
Returned(k) == Ended([k EXCEPT !.evidence = Append(@, <<k.route, "success">>)], "success")

NextRoute(k) == [k EXCEPT !.pc = "route", !.route = @ + 1, !.attempt = 0, !.try = 0]

(* The same route is tried again, or the next one. *)
Again(k, retryable) ==
  IF retryable /\ k.attempt < max_retries
  THEN [k EXCEPT !.pc = "route", !.attempt = @ + 1, !.try = 0]
  ELSE NextRoute(k)

RetriedUnrecorded(k, outcome, retryable) == Again(k, retryable)

(* except ProviderError: the attempt is recorded before the router goes on. *)
Retried(k, outcome, retryable) ==
  Again([k EXCEPT !.evidence = Append(@, <<k.route, outcome>>)], retryable)

(* except ProviderUnavailable: it goes on without any evidence; only the    *)
(* text of the final error would name the route.                            *)
Unavailable(k) == Again([k EXCEPT !.unavailable = @ \cup {k.route}], TRUE)

(* The HTTP request leaves; late counts the ones sent after cancellation.   *)
Sent(k) ==
  [k EXCEPT !.pc = "request",
            !.late[k.route] = IF k.cancelled THEN @ + 1 ELSE @]

Provider(c) == Chain[call[c].route]

Holders(p) == {c \in Calls : /\ call[c].pc \in {"request", "sleep"}
                             /\ Provider(c) = p}

(* Gemini looks at the cancellation event once it holds its permit, Qwen    *)
(* only before it asks for one.                                             *)
StopsAtPermit(c) == call[c].cancelled /\ Provider(c) \in Gemini

-----------------------------------------------------------------------------
(* TypedAgent.invoke up to the router: the budget is charged before the     *)
(* call, and a call whose event is already set ends without being charged.  *)
Invoke(c, large) ==
  /\ call[c].pc = "idle"
  /\ IF model_calls >= max_model_calls
     THEN /\ call' = [call EXCEPT ![c] = Ended(@, "agent_budget")]
          /\ UNCHANGED model_calls
     ELSE IF call[c].cancelled
     THEN /\ call' = [call EXCEPT ![c] = Ended(@, "abandoned")]
          /\ UNCHANGED model_calls
     ELSE /\ call' = [call EXCEPT ![c].pc = "route", ![c].large = large]
          /\ model_calls' = model_calls + 1
  /\ UNCHANGED <<permits, waiters, breaker>>

(* The router at the head of its loops, when it stops there. *)
Conclude(c) ==
  LET k == call[c]
      result == CASE k.route > Len(Chain) /\ k.skipped -> "budget_exhausted"
                  [] k.route > Len(Chain) -> "server"
                  [] k.cancelled -> "cancellation"
                  [] OTHER -> "timeout"
  IN  /\ k.pc = "route"
      /\ \/ k.route > Len(Chain)
         \/ ~(k.large /\ k.route \in Tight) /\ (k.cancelled \/ k.expired)
      /\ call' = [call EXCEPT ![c] = Ended(@, result)]
      /\ UNCHANGED <<model_calls, permits, waiters, breaker>>

SkipOverBudgetStuck(c) ==
  LET k == call[c] IN
  /\ k.pc = "route" /\ k.route <= Len(Chain)
  /\ k.large /\ k.route \in Tight
  /\ call' = [call EXCEPT ![c].skipped = TRUE]
  /\ UNCHANGED <<model_calls, permits, waiters, breaker>>

SkipOverBudget(c) ==
  LET k == call[c] IN
  /\ k.pc = "route" /\ k.route <= Len(Chain)
  /\ k.large /\ k.route \in Tight
  /\ call' = [call EXCEPT ![c] = [NextRoute(k) EXCEPT !.skipped = TRUE]]
  /\ UNCHANGED <<model_calls, permits, waiters, breaker>>

(* The provider is entered: its breaker refuses, or the call takes a permit *)
(* at once, or it waits behind the others.                                  *)
EnterProvider(c) ==
  LET k == call[c]
      p == Provider(c)
  IN  /\ k.pc = "route" /\ k.route <= Len(Chain)
      /\ ~(k.large /\ k.route \in Tight) /\ ~k.cancelled /\ ~k.expired
      /\ p \in Providers
      /\ breaker' = [breaker EXCEPT ![p] = Allowed(@)]
      /\ IF ~Allows(breaker[p])
         THEN /\ call' = [call EXCEPT ![c] = Retried(k, "failure", TRUE)]
              /\ UNCHANGED <<permits, waiters>>
         ELSE IF permits[p] > 0 /\ waiters[p] = <<>>
         THEN /\ call' = [call EXCEPT ![c] = Sent(k)]
              /\ permits' = [permits EXCEPT ![p] = @ - 1]
              /\ UNCHANGED waiters
         ELSE /\ call' = [call EXCEPT ![c].pc = "waiting"]
              /\ waiters' = [waiters EXCEPT ![p] = Append(@, c)]
              /\ UNCHANGED permits
      /\ UNCHANGED model_calls

Acquire(c) ==
  LET p == Provider(c) IN
  /\ call[c].pc = "waiting"
  /\ Head(waiters[p]) = c /\ permits[p] > 0
  /\ waiters' = [waiters EXCEPT ![p] = Tail(@)]
  /\ IF StopsAtPermit(c)
     THEN /\ call' = [call EXCEPT ![c] = Retried(@, "cancelled", FALSE)]
          /\ UNCHANGED permits
     ELSE /\ call' = [call EXCEPT ![c] = Sent(@)]
          /\ permits' = [permits EXCEPT ![p] = @ - 1]
  /\ UNCHANGED <<model_calls, breaker>>

(* A Gemini attempt keeps its permit while it pauses before a retry; every  *)
(* failure that ends the attempt counts against the breaker.                *)
AnswerGemini(c, answer) ==
  LET k == call[c]
      p == Provider(c)
  IN  /\ k.pc = "request" /\ p \in Gemini
      /\ IF answer = "retryable" /\ k.try < retry_budget
         THEN /\ call' = [call EXCEPT ![c].pc = "sleep", ![c].try = @ + 1]
              /\ UNCHANGED <<permits, breaker>>
         ELSE /\ permits' = [permits EXCEPT ![p] = @ + 1]
              /\ IF answer \in {"success", "invalid"}
                 THEN breaker' = [breaker EXCEPT ![p] = Succeeded(@)]
                 ELSE breaker' = [breaker EXCEPT ![p] = Failed(@)]
              /\ call' = [call EXCEPT ![c] =
                   IF answer = "success" THEN Returned(k)
                   ELSE Retried(k, "failure", answer = "retryable")]
      /\ UNCHANGED <<model_calls, waiters>>

(* Qwen sends one request per attempt, and only failures worth retrying     *)
(* count against its breaker.                                               *)
AnswerQwen(c, answer) ==
  LET k == call[c]
      p == Provider(c)
  IN  /\ k.pc = "request" /\ p \in Qwen
      /\ permits' = [permits EXCEPT ![p] = @ + 1]
      /\ breaker' = CASE answer \in {"success", "invalid"} ->
                           [breaker EXCEPT ![p] = Succeeded(@)]
                      [] answer = "retryable" -> [breaker EXCEPT ![p] = Failed(@)]
                      [] answer = "final" -> breaker
      /\ call' = [call EXCEPT ![c] =
           IF answer = "success" THEN Returned(k)
           ELSE Retried(k, "failure", answer = "retryable")]
      /\ UNCHANGED <<model_calls, waiters>>

(* A provider of another class is called, with nothing to wait for first,   *)
(* and answers or is unavailable.                                           *)
CallOther(c) ==
  LET k == call[c] IN
  /\ k.pc = "route" /\ k.route <= Len(Chain)
  /\ ~(k.large /\ k.route \in Tight) /\ ~k.cancelled /\ ~k.expired
  /\ Provider(c) \in Others
  /\ call' = [call EXCEPT ![c].pc = "calling"]
  /\ UNCHANGED <<model_calls, permits, waiters, breaker>>

AnswerOther(c, answer) ==
  LET k == call[c] IN
  /\ k.pc = "calling"
  /\ call' = [call EXCEPT ![c] =
       CASE answer = "success" -> Returned(k)
         [] answer = "unavailable" -> Unavailable(k)
         [] OTHER -> Retried(k, "failure", answer = "retryable")]
  /\ UNCHANGED <<model_calls, permits, waiters, breaker>>

(* The pause before a retry is over; the event is looked at again. *)
WakeUnaware(c) ==
  /\ call[c].pc = "sleep"
  /\ call' = [call EXCEPT ![c] = Sent(@)]
  /\ UNCHANGED <<model_calls, permits, waiters, breaker>>

WakeHolding(c) ==
  /\ call[c].pc = "sleep"
  /\ call' = [call EXCEPT ![c] = IF StopsAtPermit(c) THEN Retried(@, "cancelled", FALSE)
                                                     ELSE Sent(@)]
  /\ UNCHANGED <<model_calls, permits, waiters, breaker>>

Wake(c) ==
  LET p == Provider(c) IN
  /\ call[c].pc = "sleep"
  /\ IF StopsAtPermit(c)
     THEN /\ call' = [call EXCEPT ![c] = Retried(@, "cancelled", FALSE)]
          /\ permits' = [permits EXCEPT ![p] = @ + 1]
     ELSE /\ call' = [call EXCEPT ![c] = Sent(@)]
          /\ UNCHANGED permits
  /\ UNCHANGED <<model_calls, waiters, breaker>>

-----------------------------------------------------------------------------
(* The surroundings of a call. *)

(* The asyncio task of the call is cancelled at an await: the semaphore and *)
(* the finally blocks give back what it holds, the breaker hears nothing.   *)
Abandon(c) ==
  LET p == Provider(c) IN
  /\ call[c].pc \in {"waiting", "request", "sleep", "calling"}
  /\ call' = [call EXCEPT ![c] = Ended(@, "abandoned")]
  /\ permits' = IF c \in Holders(p) THEN [permits EXCEPT ![p] = @ + 1] ELSE permits
  /\ waiters' = IF call[c].pc = "waiting"
                THEN [waiters EXCEPT ![p] = SelectSeq(@, LAMBDA w : w # c)]
                ELSE waiters
  /\ UNCHANGED <<model_calls, breaker>>

(* Others run, and time passes, while the call awaits something. *)
SetCancellation(c) ==
  /\ call[c].pc \in {"idle", "waiting", "request", "sleep", "calling"} /\ ~call[c].cancelled
  /\ call' = [call EXCEPT ![c].cancelled = TRUE]
  /\ UNCHANGED <<model_calls, permits, waiters, breaker>>

DeadlinePasses(c) ==
  /\ call[c].pc \in {"waiting", "request", "sleep", "calling"} /\ ~call[c].expired
  /\ call' = [call EXCEPT ![c].expired = TRUE]
  /\ UNCHANGED <<model_calls, permits, waiters, breaker>>

RecoveryElapses(p) ==
  /\ breaker[p].state = "open" /\ ~breaker[p].elapsed
  /\ breaker' = [breaker EXCEPT ![p].elapsed = TRUE]
  /\ UNCHANGED <<call, model_calls, permits, waiters>>

(* healthy() and health() ask allow(), which half-opens a recovered breaker *)
(* without a request.                                                       *)
Healthy(p) ==
  /\ Allowed(breaker[p]) # breaker[p]
  /\ breaker' = [breaker EXCEPT ![p] = Allowed(@)]
  /\ UNCHANGED <<call, model_calls, permits, waiters>>

Progress(c) ==
  \/ Conclude(c) \/ SkipOverBudget(c) \/ EnterProvider(c) \/ Acquire(c) \/ Wake(c)
  \/ \E answer \in Answers : AnswerGemini(c, answer) \/ AnswerQwen(c, answer)
  \/ CallOther(c)
  \/ \E answer \in Answers \cup {"unavailable"} : AnswerOther(c, answer)

RoutingNext ==
  \/ \E c \in Calls :
       \/ \E large \in BOOLEAN : Invoke(c, large)
       \/ Progress(c) \/ Abandon(c) \/ SetCancellation(c) \/ DeadlinePasses(c)
  \/ \E p \in Providers : RecoveryElapses(p) \/ Healthy(p)

RoutingSpec == RoutingInit /\ [][RoutingNext]_routing

(* The event loop runs what is ready, asyncio.Semaphore wakes its waiters   *)
(* in order and every request is answered or times out.                     *)
RoutingFairness == \A c \in Calls : WF_routing(Progress(c))

FairRoutingSpec == RoutingSpec /\ RoutingFairness

-----------------------------------------------------------------------------
(* Every permit of a provider's semaphore is free or held by a call that is *)
(* talking to it, whichever way its calls end (gemini.py generate, qwen.py  *)
(* generate).                                                               *)
PermitsConserved ==
  \A p \in Providers : permits[p] + Cardinality(Holders(p)) = Concurrency

(* A breaker is closed exactly while its failures are below the threshold,  *)
(* however late answers of calls admitted earlier arrive (resilience.py).   *)
BreakerConsistent ==
  \A p \in Providers :
    (breaker[p].state = "closed") <=> (breaker[p].failures < failure_threshold)

(* Before a call uses a route, every earlier candidate was over budget, has *)
(* its failed attempt in the evidence, in chain order, or is a provider of  *)
(* another class that called itself unavailable (router.py): the evidence   *)
(* explains every fallback away from Gemini and Qwen, and the unrecorded    *)
(* ProviderUnavailable branch is the only way around it.                    *)
FallbackEarned ==
  \A c \in Calls :
    LET k == call[c] IN
    /\ \A i, j \in DOMAIN k.evidence : i < j => k.evidence[i][1] <= k.evidence[j][1]
    /\ \A r \in DOMAIN Chain :
         (r < k.route /\ ~(k.large /\ r \in Tight))
           => \/ \E i \in DOMAIN k.evidence : /\ k.evidence[i][1] = r
                                              /\ k.evidence[i][2] # "success"
              \/ Chain[r] \in Others /\ r \in k.unavailable

(* After its cancellation event is set a call sends no further request to   *)
(* Gemini, and to Qwen at most the one it was already waiting to send.      *)
CancellationHeeded ==
  \A c \in Calls : \A r \in DOMAIN Chain :
    call[c].late[r] <= IF Chain[r] \in Qwen THEN 1 ELSE 0

(* Every call that reaches the router ends: no lost permit and no loop of   *)
(* retries holds it up.                                                     *)
CallsEnd == \A c \in Calls : (call[c].pc # "idle") ~> (call[c].pc = "done")
=============================================================================
