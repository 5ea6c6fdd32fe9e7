---------------------------- MODULE RoutingProofs ----------------------------
(***************************************************************************)
(* Theorems about model routing, for every set of calls and providers, every *)
(* chain of routes and every limit.                                         *)
(***************************************************************************)
EXTENDS ModelRouting, FiniteSetTheorems, TLAPS

(* A call's record on its own: everything the proofs need of it except what  *)
(* it shares with other calls.                                              *)
InOrder(k) == \A i, j \in DOMAIN k.evidence : i < j => k.evidence[i][1] <= k.evidence[j][1]

UpToRoute(k) == \A i \in DOMAIN k.evidence : k.evidence[i][1] <= k.route

Explained(k, r) ==
  \/ \E i \in DOMAIN k.evidence : k.evidence[i][1] = r /\ k.evidence[i][2] # "success"
  \/ Chain[r] \in Others /\ r \in k.unavailable

Earned(k) ==
  \A r \in DOMAIN Chain : (r < k.route /\ ~(k.large /\ r \in Tight)) => Explained(k, r)

NoneLate(k) == \A r \in DOMAIN Chain : k.late[r] = 0

Heeds(k) ==
  /\ ~k.cancelled \/ k.pc = "waiting" => NoneLate(k)
  /\ k.pc = "sleep" => Chain[k.route] \in Gemini
  /\ \A r \in DOMAIN Chain : k.late[r] <= IF Chain[r] \in Qwen THEN 1 ELSE 0

Placed(k) ==
  /\ k.pc = "idle" => k.route = 1
  /\ k.pc \in {"waiting", "request", "sleep"} =>
       k.route \in DOMAIN Chain /\ Chain[k.route] \in Providers
  /\ k.pc = "calling" => k.route \in DOMAIN Chain /\ Chain[k.route] \in Others

Sound(k) == k \in CallType /\ Placed(k) /\ InOrder(k) /\ UpToRoute(k) /\ Earned(k) /\ Heeds(k)

CallsSound == call \in [Calls -> CallType] /\ \A c \in Calls : Sound(call[c])

-----------------------------------------------------------------------------
(* What the helpers make of a sound record. *)

LEMMA ChainTyped ==
  /\ Len(Chain) \in Nat \ {0} /\ DOMAIN Chain = 1 .. Len(Chain)
  /\ \A r \in DOMAIN Chain : Chain[r] \in Providers \cup Others
  BY RoutingAssumption

(* What adding an element to a sequence leaves in it. *)
LEMMA Appended ==
  ASSUME NEW S, NEW s \in Seq(S), NEW x \in S, NEW e, e = Append(s, x)
  PROVE  /\ Len(s) \in Nat /\ DOMAIN s = 1 .. Len(s) /\ \A i \in DOMAIN s : s[i] \in S
         /\ e \in Seq(S) /\ DOMAIN e = 1 .. Len(s) + 1
         /\ \A i \in DOMAIN s : e[i] = s[i]
         /\ e[Len(s) + 1] = x
<1>1. Len(s) \in Nat /\ DOMAIN s = 1 .. Len(s)
  OBVIOUS
<1>2. \A i \in DOMAIN s : s[i] \in S
  OBVIOUS
<1>3. e \in Seq(S) /\ Len(e) = Len(s) + 1
  OBVIOUS
<1>4. DOMAIN e = 1 .. Len(s) + 1
  BY <1>3
<1>5. \A i \in DOMAIN s : e[i] = s[i]
  BY <1>1
<1>6. e[Len(s) + 1] = x
  BY <1>1
<1> QED
  BY <1>1, <1>2, <1>3, <1>4, <1>5, <1>6

(* e is the evidence of the call with that of its current route at the end. *)
Extended(e, k, outcome) == e = Append(k.evidence, <<k.route, outcome>>)

(* What the proofs below need to know of such evidence. *)
Grown(e, k, outcome) ==
  /\ e \in Seq((1 .. Len(Chain)) \X Outcomes)
  /\ Len(k.evidence) \in Nat /\ DOMAIN k.evidence = 1 .. Len(k.evidence)
  /\ DOMAIN e = 1 .. Len(k.evidence) + 1
  /\ \A i \in DOMAIN k.evidence : e[i] = k.evidence[i] /\ e[i][1] \in 1 .. Len(Chain)
  /\ e[Len(k.evidence) + 1][1] = k.route
  /\ e[Len(k.evidence) + 1][2] = outcome

LEMMA Noted ==
  ASSUME NEW k \in CallType, k.route \in DOMAIN Chain, NEW outcome \in Outcomes,
         NEW e, Extended(e, k, outcome)
  PROVE  Grown(e, k, outcome)
<1> DEFINE Pairs == (1 .. Len(Chain)) \X Outcomes
           s == k.evidence
           x == <<k.route, outcome>>
<1>1. s \in Seq(Pairs)
  BY DEF CallType
<1>2. x \in Pairs /\ x[1] = k.route /\ x[2] = outcome
  BY ChainTyped
<1>3. e = Append(s, x)
  BY DEF Extended
<1>4. \A y \in Pairs : y[1] \in 1 .. Len(Chain)
  OBVIOUS
<1> HIDE DEF Pairs, s, x
<1>5. /\ Len(s) \in Nat /\ DOMAIN s = 1 .. Len(s) /\ \A i \in DOMAIN s : s[i] \in Pairs
      /\ e \in Seq(Pairs) /\ DOMAIN e = 1 .. Len(s) + 1
      /\ \A i \in DOMAIN s : e[i] = s[i]
      /\ e[Len(s) + 1] = x
  BY <1>1, <1>2, <1>3, Appended
<1>6. \A i \in DOMAIN s : e[i] = s[i] /\ e[i][1] \in 1 .. Len(Chain)
  BY <1>4, <1>5, Zenon
<1>7. e[Len(s) + 1][1] = k.route /\ e[Len(s) + 1][2] = outcome
  BY <1>2, <1>5, Zenon
<1> QED
  BY <1>5, <1>6, <1>7, Zenon DEF Pairs, s, Grown

(* A record with the evidence of its route added, everything else alike. *)
LEMMA RecordedSound ==
  ASSUME NEW k \in CallType, Sound(k), k.route \in DOMAIN Chain, NEW outcome \in Outcomes
  PROVE  LET n == [k EXCEPT !.evidence = Append(@, <<k.route, outcome>>)] IN
         /\ Sound(n) /\ n.pc = k.pc /\ n.route = k.route
         /\ outcome # "success" => Explained(n, n.route)
<1> DEFINE n == [k EXCEPT !.evidence = Append(@, <<k.route, outcome>>)]
<1>0. /\ n \in CallType /\ n.evidence = Append(k.evidence, <<k.route, outcome>>)
      /\ n.pc = k.pc /\ n.route = k.route /\ n.large = k.large /\ n.cancelled = k.cancelled
      /\ n.late = k.late /\ n.unavailable = k.unavailable
  <2>1. Append(k.evidence, <<k.route, outcome>>) \in Seq((1 .. Len(Chain)) \X Outcomes)
    <3> DEFINE e == Append(k.evidence, <<k.route, outcome>>)
    <3>1. Extended(e, k, outcome)
      BY DEF Extended
    <3> HIDE DEF e
    <3>2. Grown(e, k, outcome)
      BY <3>1, Noted, Zenon
    <3>3. e \in Seq((1 .. Len(Chain)) \X Outcomes)
      BY <3>2, Zenon DEF Grown
    <3> QED
      BY <3>3 DEF e
  <2> QED
    BY <2>1 DEF CallType
<1> HIDE DEF n
<1> DEFINE last == Len(k.evidence) + 1
<1>1. /\ Len(k.evidence) \in Nat /\ DOMAIN k.evidence = 1 .. Len(k.evidence)
      /\ DOMAIN n.evidence = 1 .. last
      /\ \A i \in DOMAIN k.evidence : n.evidence[i] = k.evidence[i] /\ n.evidence[i][1] \in 1 .. Len(Chain)
      /\ n.evidence[last][1] = k.route /\ n.evidence[last][2] = outcome
  <2>1. Extended(n.evidence, k, outcome)
    BY <1>0 DEF Extended
  <2>2. Grown(n.evidence, k, outcome)
    BY <2>1, Noted, Zenon
  <2> QED
    BY <2>2, Zenon DEF Grown
<1>2. k.route \in 1 .. Len(Chain) /\ Len(Chain) \in Nat /\ DOMAIN Chain = 1 .. Len(Chain)
  BY ChainTyped
<1>3. \A i \in 1 .. last : n.evidence[i][1] \in 1 .. Len(Chain) /\ n.evidence[i][1] <= k.route
  <2> SUFFICES ASSUME NEW i \in 1 .. last
               PROVE  n.evidence[i][1] \in 1 .. Len(Chain) /\ n.evidence[i][1] <= k.route
    OBVIOUS
  <2>1. CASE i \in DOMAIN k.evidence
    BY <1>1, <2>1 DEF Sound, UpToRoute
  <2>2. CASE i = last
    <3>1. n.evidence[i][1] = k.route
      BY <1>1, <2>2, Zenon
    <3> QED
      BY <1>2, <3>1
  <2> QED
    BY <1>1, <2>1, <2>2
<1>4. InOrder(n)
  <2> SUFFICES ASSUME NEW i \in 1 .. last, NEW j \in 1 .. last, i < j
               PROVE  n.evidence[i][1] <= n.evidence[j][1]
    BY <1>1 DEF InOrder
  <2>1. CASE j \in DOMAIN k.evidence
    <3>1. i \in DOMAIN k.evidence
      BY <1>1, <2>1
    <3> QED
      BY <1>1, <2>1, <3>1 DEF Sound, InOrder
  <2>2. CASE j = last
    BY <1>1, <1>3, <2>2
  <2> QED
    BY <1>1, <2>1, <2>2
<1>5. UpToRoute(n)
  BY <1>0, <1>1, <1>2, <1>3 DEF UpToRoute
<1>6. ASSUME NEW r \in DOMAIN Chain, Explained(k, r)
      PROVE  Explained(n, r)
  <2>1. CASE Chain[r] \in Others /\ r \in k.unavailable
    BY <1>0, <2>1 DEF Explained
  <2>2. ASSUME NEW i \in DOMAIN k.evidence, k.evidence[i][1] = r, k.evidence[i][2] # "success"
        PROVE  Explained(n, r)
    <3>1. i \in DOMAIN n.evidence /\ n.evidence[i] = k.evidence[i]
      BY <1>1
    <3> QED
      BY <2>2, <3>1 DEF Explained
  <2> QED
    BY <1>6, <2>1, <2>2 DEF Explained
<1>7. Earned(n)
  BY <1>0, <1>6 DEF Sound, Earned
<1>8. outcome # "success" => Explained(n, n.route)
  <2>1. last \in DOMAIN n.evidence
    BY <1>1
  <2> QED
    BY <1>0, <1>1, <2>1 DEF Explained
<1>9. Heeds(n) /\ Placed(n)
  BY <1>0 DEF Sound, Heeds, NoneLate, Placed
<1>10. Sound(n)
  BY <1>0, <1>4, <1>5, <1>7, <1>9 DEF Sound
<1> QED
  BY <1>0, <1>8, <1>10 DEF n

(* A record of a route that called itself unavailable. *)
LEMMA UnavailableNoted ==
  ASSUME NEW k \in CallType, Sound(k), k.pc = "calling"
  PROVE  LET n == [k EXCEPT !.unavailable = @ \cup {k.route}] IN
         /\ Sound(n) /\ n.pc = k.pc /\ n.route = k.route /\ Explained(n, n.route)
<1> DEFINE n == [k EXCEPT !.unavailable = @ \cup {k.route}]
<1>0. k.route \in DOMAIN Chain /\ Chain[k.route] \in Others
  BY DEF Sound, Placed
<1>1. /\ n \in CallType /\ n.evidence = k.evidence
      /\ n.pc = k.pc /\ n.route = k.route /\ n.large = k.large /\ n.cancelled = k.cancelled
      /\ n.late = k.late /\ n.unavailable = k.unavailable \cup {k.route}
  BY <1>0 DEF CallType
<1> HIDE DEF n
<1>2. \A r \in DOMAIN Chain : Explained(k, r) => Explained(n, r)
  BY <1>1 DEF Explained
<1>3. Earned(n)
  BY <1>1, <1>2 DEF Sound, Earned
<1>4. InOrder(n) /\ UpToRoute(n) /\ Placed(n) /\ Heeds(n)
  BY <1>1 DEF Sound, InOrder, UpToRoute, Placed, Heeds, NoneLate
<1>5. Sound(n) /\ Explained(n, n.route)
  BY <1>0, <1>1, <1>3, <1>4 DEF Sound, Explained
<1> QED
  BY <1>1, <1>5 DEF n

(* A record that only goes elsewhere. *)
LEMMA MovedSound ==
  ASSUME NEW k \in CallType, Sound(k), NEW n \in CallType,
         n.evidence = k.evidence, n.route = k.route, n.late = k.late /\ n.unavailable = k.unavailable,
         n.large = k.large \/ k.pc = "idle",
         Placed(n), Heeds(n)
  PROVE  Sound(n)
<1>1. Earned(n)
  <2>1. CASE k.pc = "idle"
    <3>1. n.route = 1
      BY <2>1 DEF Sound, Placed
    <3> QED
      BY <3>1, ChainTyped DEF Earned
  <2>2. CASE n.large = k.large
    BY <2>2 DEF Sound, Earned, Explained
  <2> QED
    BY <2>1, <2>2
<1> QED
  BY <1>1 DEF Sound, InOrder, UpToRoute

(* A record that goes to the next route, the current one being explained or  *)
(* over budget.                                                             *)
LEMMA AdvancedSound ==
  ASSUME NEW k \in CallType, Sound(k), k.route \in DOMAIN Chain,
         Explained(k, k.route) \/ (k.large /\ k.route \in Tight),
         NEW n \in CallType, n.pc = "route", n.evidence = k.evidence, n.route = k.route + 1,
         n.large = k.large, n.cancelled = k.cancelled,
         n.late = k.late, n.unavailable = k.unavailable
  PROVE  Sound(n)
<1>1. k.route \in Nat /\ DOMAIN Chain = 1 .. Len(Chain) /\ Len(Chain) \in Nat
  BY ChainTyped
<1>2. Placed(n) /\ Heeds(n) /\ InOrder(n)
  BY DEF Sound, Placed, Heeds, NoneLate, InOrder
<1>3. UpToRoute(n)
  <2>1. \A i \in DOMAIN k.evidence : k.evidence[i] \in (1 .. Len(Chain)) \X Outcomes
    BY DEF CallType
  <2>2. \A i \in DOMAIN k.evidence : k.evidence[i][1] \in Nat
    BY <2>1, ChainTyped
  <2> QED
    BY <1>1, <2>2 DEF Sound, UpToRoute
<1>4. Earned(n)
  <2> SUFFICES ASSUME NEW r \in DOMAIN Chain, r < n.route, ~(n.large /\ r \in Tight)
               PROVE  Explained(n, r)
    BY DEF Earned
  <2>1. Explained(k, r)
    <3>1. r < k.route \/ r = k.route
      BY <1>1
    <3> QED
      BY <3>1 DEF Sound, Earned
  <2> QED
    BY <2>1 DEF Explained
<1> QED
  BY <1>2, <1>3, <1>4 DEF Sound

(* Once the current route is explained the router may go on. *)
LEMMA AgainSound ==
  ASSUME NEW k \in CallType, Sound(k), k.route \in DOMAIN Chain, Explained(k, k.route),
         NEW retryable \in BOOLEAN
  PROVE  Sound(Again(k, retryable)) /\ Again(k, retryable).pc = "route"
<1>1. k.route + 1 \in 1 .. Len(Chain) + 1 /\ 0 \in 0 .. max_retries /\ 0 \in 0 .. retry_budget
  BY ChainTyped, RoutingAssumption
<1>2. ASSUME k.attempt < max_retries
      PROVE  LET n == [k EXCEPT !.pc = "route", !.attempt = @ + 1, !.try = 0]
             IN  Sound(n) /\ n.pc = "route"
  <2> DEFINE n == [k EXCEPT !.pc = "route", !.attempt = @ + 1, !.try = 0]
  <2>1. k.attempt + 1 \in 0 .. max_retries
    BY <1>2, RoutingAssumption DEF CallType
  <2>2. n \in CallType
    BY <1>1, <2>1 DEF CallType
  <2>3. /\ n.pc = "route" /\ n.evidence = k.evidence /\ n.route = k.route /\ n.large = k.large
        /\ n.cancelled = k.cancelled /\ n.late = k.late /\ n.unavailable = k.unavailable
    BY DEF CallType
  <2> HIDE DEF n
  <2>4. Placed(n) /\ Heeds(n)
    BY <2>3 DEF Sound, Placed, Heeds, NoneLate
  <2>5. Sound(n)
    BY <2>2, <2>3, <2>4, MovedSound
  <2> QED
    BY <2>3, <2>5 DEF n
<1>3. Sound(NextRoute(k)) /\ NextRoute(k).pc = "route"
  <2> DEFINE n == NextRoute(k)
  <2>1. n \in CallType
    BY <1>1 DEF CallType, NextRoute
  <2>2. /\ n.pc = "route" /\ n.evidence = k.evidence /\ n.route = k.route + 1 /\ n.large = k.large
        /\ n.cancelled = k.cancelled /\ n.late = k.late /\ n.unavailable = k.unavailable
    BY DEF CallType, NextRoute
  <2> HIDE DEF n
  <2>3. Sound(n)
    BY <2>1, <2>2, AdvancedSound
  <2> QED
    BY <2>2, <2>3 DEF n
<1> QED
  BY <1>2, <1>3 DEF Again

LEMMA RetriedSound ==
  ASSUME NEW k \in CallType, Sound(k), k.route \in DOMAIN Chain,
         NEW outcome \in {"failure", "cancelled"}, NEW retryable \in BOOLEAN
  PROVE  Sound(Retried(k, outcome, retryable)) /\ Retried(k, outcome, retryable).pc = "route"
<1> DEFINE n == [k EXCEPT !.evidence = Append(@, <<k.route, outcome>>)]
<1>1. outcome \in Outcomes /\ outcome # "success"
  BY DEF Outcomes
<1>2. Sound(n) /\ n.route = k.route /\ Explained(n, n.route)
  BY <1>1, RecordedSound
<1>3. Retried(k, outcome, retryable) = Again(n, retryable)
  BY DEF Retried
<1> HIDE DEF n
<1> QED
  BY <1>2, <1>3, AgainSound DEF Sound

LEMMA UnavailableSound ==
  ASSUME NEW k \in CallType, Sound(k), k.pc = "calling"
  PROVE  Sound(Unavailable(k)) /\ Unavailable(k).pc = "route"
<1> DEFINE n == [k EXCEPT !.unavailable = @ \cup {k.route}]
<1>1. Sound(n) /\ n.route = k.route /\ Explained(n, n.route)
  BY UnavailableNoted
<1>2. Unavailable(k) = Again(n, TRUE)
  BY DEF Unavailable
<1>3. k.route \in DOMAIN Chain
  BY DEF Sound, Placed
<1> HIDE DEF n
<1> QED
  BY <1>1, <1>2, <1>3, AgainSound DEF Sound

LEMMA EndedSound ==
  ASSUME NEW k \in CallType, Sound(k),
         NEW result \in {"success", "agent_budget", "cancellation", "timeout", "budget_exhausted", "server", "abandoned"}
  PROVE  Sound(Ended(k, result)) /\ Ended(k, result).pc = "done"
<1> DEFINE n == Ended(k, result)
<1>1. n \in CallType
  BY DEF Ended, CallType
<1>2. /\ n.pc = "done" /\ n.evidence = k.evidence /\ n.route = k.route /\ n.late = k.late /\ n.unavailable = k.unavailable
      /\ n.large = k.large /\ n.cancelled = k.cancelled
  BY DEF Ended, CallType
<1> HIDE DEF n
<1>3. Placed(n) /\ Heeds(n)
  BY <1>2 DEF Sound, Placed, Heeds, NoneLate
<1>4. Sound(n)
  BY <1>1, <1>2, <1>3, MovedSound
<1> QED
  BY <1>2, <1>4 DEF n

LEMMA ReturnedSound ==
  ASSUME NEW k \in CallType, Sound(k), k.route \in DOMAIN Chain
  PROVE  Sound(Returned(k)) /\ Returned(k).pc = "done"
<1> DEFINE n == [k EXCEPT !.evidence = Append(@, <<k.route, "success">>)]
<1>1. "success" \in Outcomes
  BY DEF Outcomes
<1>2. Sound(n)
  BY <1>1, RecordedSound
<1>3. Returned(k) = Ended(n, "success")
  BY DEF Returned
<1> HIDE DEF n
<1> QED
  BY <1>2, <1>3, EndedSound DEF Sound

(* A request leaves late only from the wait for a Qwen permit, once. *)
LEMMA SentSound ==
  ASSUME NEW k \in CallType, Sound(k), k.route \in DOMAIN Chain, Chain[k.route] \in Providers,
         ~k.cancelled \/ (k.pc = "waiting" /\ Chain[k.route] \in Qwen)
  PROVE  Sound(Sent(k)) /\ Sent(k).pc = "request" /\ Sent(k).route = k.route
<1> DEFINE n == Sent(k)
           l == IF k.cancelled THEN k.late[k.route] + 1 ELSE k.late[k.route]
<1>1. k.late \in [DOMAIN Chain -> Nat] /\ NoneLate(k)
  BY DEF CallType, Sound, Heeds
<1>2. l \in {0, 1} /\ (l = 1 => k.cancelled /\ Chain[k.route] \in Qwen)
  BY <1>1 DEF NoneLate
<1>3. n = [k EXCEPT !.pc = "request", !.late = [k.late EXCEPT ![k.route] = l]]
  BY DEF Sent, CallType
<1>4. [k.late EXCEPT ![k.route] = l] \in [DOMAIN Chain -> Nat]
  BY <1>1, <1>2
<1>5. n \in CallType
  BY <1>3, <1>4 DEF CallType
<1>6. /\ n.pc = "request" /\ n.evidence = k.evidence /\ n.route = k.route
      /\ n.large = k.large /\ n.cancelled = k.cancelled
      /\ n.late = [k.late EXCEPT ![k.route] = l] /\ n.unavailable = k.unavailable
  BY <1>3 DEF CallType
<1> HIDE DEF n, l
<1>7. Placed(n)
  BY <1>6 DEF Placed
<1>8. Heeds(n)
  <2>1. \A r \in DOMAIN Chain : n.late[r] = IF r = k.route THEN l ELSE 0
    BY <1>1, <1>6 DEF NoneLate
  <2> QED
    BY <1>2, <1>6, <2>1 DEF Heeds, NoneLate
<1>9. Earned(n) /\ InOrder(n) /\ UpToRoute(n)
  BY <1>6 DEF Sound, Earned, Explained, InOrder, UpToRoute
<1>10. Sound(n)
  BY <1>5, <1>7, <1>8, <1>9 DEF Sound
<1> QED
  BY <1>6, <1>10 DEF n

LEMMA SkippedSound ==
  ASSUME NEW k \in CallType, Sound(k), k.route \in DOMAIN Chain, k.large, k.route \in Tight
  PROVE  LET n == [NextRoute(k) EXCEPT !.skipped = TRUE] IN Sound(n) /\ n.pc = "route"
<1> DEFINE n == [NextRoute(k) EXCEPT !.skipped = TRUE]
<1>1. k.route + 1 \in 1 .. Len(Chain) + 1 /\ 0 \in 0 .. max_retries /\ 0 \in 0 .. retry_budget
  BY ChainTyped, RoutingAssumption
<1>2. n \in CallType
  BY <1>1 DEF CallType, NextRoute
<1>3. /\ n.pc = "route" /\ n.evidence = k.evidence /\ n.route = k.route + 1 /\ n.large = k.large
      /\ n.cancelled = k.cancelled /\ n.late = k.late /\ n.unavailable = k.unavailable
  BY DEF CallType, NextRoute
<1> HIDE DEF n
<1>4. Sound(n)
  BY <1>2, <1>3, AdvancedSound
<1> QED
  BY <1>3, <1>4 DEF n

-----------------------------------------------------------------------------
(* Every step leaves every record sound. *)

LEMMA CallReplaced ==
  ASSUME CallsSound, NEW c \in Calls, NEW n, Sound(n), call' = [call EXCEPT ![c] = n]
  PROVE  CallsSound'
<1>1. n \in CallType
  BY DEF Sound
<1>2. \A d \in Calls : call'[d] = IF d = c THEN n ELSE call[d]
  BY DEF CallsSound
<1>3. \A d \in Calls : Sound(call'[d])
  BY <1>2 DEF CallsSound
<1> QED
  BY <1>1, <1>3 DEF CallsSound, Sound, Placed, InOrder, UpToRoute, Earned, Explained, Heeds, NoneLate

LEMMA RoutingStepSound == CallsSound /\ [RoutingNext]_routing => CallsSound'
<1> SUFFICES ASSUME CallsSound, [RoutingNext]_routing
             PROVE  CallsSound'
  OBVIOUS
<1>1. \A c \in Calls : call[c] \in CallType /\ Sound(call[c])
  BY DEF CallsSound
<1>2. ASSUME NEW c \in Calls, NEW large \in BOOLEAN, Invoke(c, large)
      PROVE  CallsSound'
  <2> DEFINE k == call[c]
             n == [k EXCEPT !.pc = "route", !.large = large]
  <2>1. k \in CallType /\ Sound(k) /\ k.pc = "idle"
    BY <1>1, <1>2 DEF Invoke
  <2>2. n \in CallType
    BY <2>1 DEF CallType
  <2>3. /\ n.pc = "route" /\ n.evidence = k.evidence /\ n.route = k.route /\ n.late = k.late /\ n.unavailable = k.unavailable
        /\ n.cancelled = k.cancelled
    BY <2>1 DEF CallType
  <2>4. Sound(Ended(k, "agent_budget")) /\ Sound(Ended(k, "abandoned"))
    BY <2>1, EndedSound
  <2>5. call' \in {[call EXCEPT ![c] = Ended(k, "agent_budget")], [call EXCEPT ![c] = Ended(k, "abandoned")],
                   [call EXCEPT ![c] = n]}
    BY <1>2 DEF Invoke, CallsSound
  <2> HIDE DEF k, n
  <2>6. Placed(n) /\ Heeds(n)
    BY <2>1, <2>3 DEF Sound, Placed, Heeds, NoneLate
  <2>7. Sound(n)
    BY <2>1, <2>2, <2>3, <2>6, MovedSound
  <2> QED
    BY <2>4, <2>5, <2>7, CallReplaced
<1>3. ASSUME NEW c \in Calls, Conclude(c)
      PROVE  CallsSound'
  <2>1. PICK result \in {"cancellation", "timeout", "budget_exhausted", "server"} :
           call' = [call EXCEPT ![c] = Ended(@, result)]
    <3> DEFINE k == call[c]
               result == CASE k.route > Len(Chain) /\ k.skipped -> "budget_exhausted"
                           [] k.route > Len(Chain) -> "server"
                           [] k.cancelled -> "cancellation"
                           [] OTHER -> "timeout"
    <3>1. call' = [call EXCEPT ![c] = Ended(@, result)]
      BY <1>3 DEF Conclude
    <3>2. result \in {"cancellation", "timeout", "budget_exhausted", "server"}
      OBVIOUS
    <3> QED
      BY <3>1, <3>2
  <2>2. Sound(Ended(call[c], result))
    BY <1>1, EndedSound
  <2> QED
    BY <2>1, <2>2, CallReplaced
<1>4. ASSUME NEW c \in Calls, SkipOverBudget(c)
      PROVE  CallsSound'
  <2>1. call[c].route \in DOMAIN Chain /\ call[c].large /\ call[c].route \in Tight
    BY <1>4, RoutingAssumption DEF SkipOverBudget
  <2>2. Sound([NextRoute(call[c]) EXCEPT !.skipped = TRUE])
    BY <1>1, <2>1, SkippedSound
  <2> QED
    BY <1>4, <2>2, CallReplaced DEF SkipOverBudget
<1>5. ASSUME NEW c \in Calls, EnterProvider(c)
      PROVE  CallsSound'
  <2> DEFINE k == call[c]
             n == [k EXCEPT !.pc = "waiting"]
  <2>1. /\ k \in CallType /\ Sound(k) /\ k.route <= Len(Chain) /\ ~k.cancelled
        /\ Chain[k.route] \in Providers
    BY <1>1, <1>5 DEF EnterProvider, Provider
  <2>2. k.route \in DOMAIN Chain
    BY <2>1, ChainTyped DEF CallType
  <2>3. call' \in {[call EXCEPT ![c] = Retried(k, "failure", TRUE)], [call EXCEPT ![c] = Sent(k)],
                   [call EXCEPT ![c] = n]}
    BY <1>5 DEF EnterProvider
  <2>4. Sound(Retried(k, "failure", TRUE))
    BY <2>1, <2>2, RetriedSound
  <2>5. Sound(Sent(k))
    BY <2>1, <2>2, SentSound
  <2>6. n \in CallType
    BY <2>1 DEF CallType
  <2>7. /\ n.pc = "waiting" /\ n.evidence = k.evidence /\ n.route = k.route /\ n.late = k.late /\ n.unavailable = k.unavailable
        /\ n.cancelled = k.cancelled /\ n.large = k.large
    BY <2>1 DEF CallType
  <2> HIDE DEF k, n
  <2>8. Placed(n) /\ Heeds(n)
    BY <2>1, <2>2, <2>7 DEF Sound, Placed, Heeds, NoneLate
  <2>9. Sound(n)
    BY <2>1, <2>6, <2>7, <2>8, MovedSound
  <2> QED
    BY <2>3, <2>4, <2>5, <2>9, CallReplaced
<1>6. ASSUME NEW c \in Calls, Acquire(c)
      PROVE  CallsSound'
  <2>1. call[c].pc = "waiting" /\ call[c].route \in DOMAIN Chain /\ Chain[call[c].route] \in Providers
    BY <1>1, <1>6 DEF Acquire, Sound, Placed
  <2>2. CASE StopsAtPermit(c)
    <3>1. Sound(Retried(call[c], "cancelled", FALSE))
      BY <1>1, <2>1, RetriedSound
    <3> QED
      BY <1>6, <2>2, <3>1, CallReplaced DEF Acquire
  <2>3. CASE ~StopsAtPermit(c)
    <3>1. ~call[c].cancelled \/ Chain[call[c].route] \in Qwen
      BY <2>1, <2>3 DEF StopsAtPermit, Provider, Providers
    <3>2. Sound(Sent(call[c]))
      BY <1>1, <2>1, <3>1, SentSound
    <3> QED
      BY <1>6, <2>3, <3>2, CallReplaced DEF Acquire
  <2> QED
    BY <2>2, <2>3
<1>7. ASSUME NEW c \in Calls, Wake(c)
      PROVE  CallsSound'
  <2>1. call[c].pc = "sleep" /\ call[c].route \in DOMAIN Chain /\ Chain[call[c].route] \in Gemini
    BY <1>1, <1>7 DEF Wake, Sound, Placed, Heeds
  <2>2. CASE StopsAtPermit(c)
    <3>1. Sound(Retried(call[c], "cancelled", FALSE))
      BY <1>1, <2>1, RetriedSound
    <3> QED
      BY <1>7, <2>2, <3>1, CallReplaced DEF Wake
  <2>3. CASE ~StopsAtPermit(c)
    <3>1. ~call[c].cancelled /\ Chain[call[c].route] \in Providers
      BY <2>1, <2>3 DEF StopsAtPermit, Provider, Providers
    <3>2. Sound(Sent(call[c]))
      BY <1>1, <2>1, <3>1, SentSound
    <3> QED
      BY <1>7, <2>3, <3>2, CallReplaced DEF Wake
  <2> QED
    BY <2>2, <2>3
<1>8. ASSUME NEW c \in Calls, NEW answer \in Answers, AnswerGemini(c, answer) \/ AnswerQwen(c, answer)
      PROVE  CallsSound'
  <2> DEFINE k == call[c]
             n == [k EXCEPT !.pc = "sleep", !.try = @ + 1]
  <2>1. k \in CallType /\ Sound(k) /\ k.pc = "request" /\ k.route \in DOMAIN Chain
    BY <1>1, <1>8 DEF AnswerGemini, AnswerQwen, Sound, Placed
  <2>2. CASE /\ k.try < retry_budget /\ Chain[k.route] \in Gemini
             /\ call' = [call EXCEPT ![c].pc = "sleep", ![c].try = @ + 1]
    <3>1. call' = [call EXCEPT ![c] = n]
      BY <2>1, <2>2 DEF CallsSound
    <3>2. k.try + 1 \in 0 .. retry_budget
      BY <2>1, <2>2, RoutingAssumption DEF CallType
    <3>3. n \in CallType
      BY <2>1, <3>2 DEF CallType
    <3>4. /\ n.pc = "sleep" /\ n.evidence = k.evidence /\ n.route = k.route /\ n.late = k.late /\ n.unavailable = k.unavailable
          /\ n.cancelled = k.cancelled /\ n.large = k.large
      BY <2>1 DEF CallType
    <3>5. Chain[k.route] \in Gemini
      BY <2>2
    <3> HIDE DEF k, n
    <3>6. Placed(n) /\ Heeds(n)
      BY <2>1, <3>4, <3>5 DEF Sound, Placed, Heeds, NoneLate, Providers
    <3>7. Sound(n)
      BY <2>1, <3>3, <3>4, <3>6, MovedSound
    <3> QED
      BY <3>1, <3>7, CallReplaced
  <2>3. CASE call' = [call EXCEPT ![c] = IF answer = "success" THEN Returned(k)
                                         ELSE Retried(k, "failure", answer = "retryable")]
    <3>1. Sound(Returned(k))
      BY <2>1, ReturnedSound
    <3>2. \A b \in BOOLEAN : Sound(Retried(k, "failure", b))
      BY <2>1, RetriedSound
    <3>3. Sound(IF answer = "success" THEN Returned(k) ELSE Retried(k, "failure", answer = "retryable"))
      BY <3>1, <3>2
    <3> QED
      BY <2>3, <3>3, CallReplaced
  <2> QED
    BY <1>8, <2>2, <2>3 DEF AnswerGemini, AnswerQwen, Provider
<1>9. ASSUME NEW c \in Calls, Abandon(c)
      PROVE  CallsSound'
  <2>1. Sound(Ended(call[c], "abandoned"))
    BY <1>1, EndedSound
  <2> QED
    BY <1>9, <2>1, CallReplaced DEF Abandon
<1>10. ASSUME NEW c \in Calls, SetCancellation(c) \/ DeadlinePasses(c)
       PROVE  CallsSound'
  <2> DEFINE k == call[c]
             m == [k EXCEPT !.cancelled = TRUE]
             n == [k EXCEPT !.expired = TRUE]
  <2>1. k \in CallType /\ Sound(k)
    BY <1>1
  <2>2. call' \in {[call EXCEPT ![c] = m], [call EXCEPT ![c] = n]}
    BY <1>10 DEF SetCancellation, DeadlinePasses, CallsSound
  <2>3. m \in CallType /\ n \in CallType
    BY <2>1 DEF CallType
  <2>4. /\ m.pc = k.pc /\ m.evidence = k.evidence /\ m.route = k.route /\ m.late = k.late /\ m.unavailable = k.unavailable
        /\ m.cancelled /\ m.large = k.large
    BY <2>1 DEF CallType
  <2>5. /\ n.pc = k.pc /\ n.evidence = k.evidence /\ n.route = k.route /\ n.late = k.late /\ n.unavailable = k.unavailable
        /\ n.cancelled = k.cancelled /\ n.large = k.large
    BY <2>1 DEF CallType
  <2> HIDE DEF k, m, n
  <2>6. Placed(m) /\ Heeds(m) /\ Placed(n) /\ Heeds(n)
    BY <2>1, <2>4, <2>5 DEF Sound, Placed, Heeds, NoneLate
  <2>7. Sound(m) /\ Sound(n)
    BY <2>1, <2>3, <2>4, <2>5, <2>6, MovedSound
  <2> QED
    BY <2>2, <2>7, CallReplaced
<1>12. ASSUME NEW c \in Calls, CallOther(c)
       PROVE  CallsSound'
  <2> DEFINE k == call[c]
             n == [k EXCEPT !.pc = "calling"]
  <2>1. /\ k \in CallType /\ Sound(k) /\ k.route <= Len(Chain) /\ Chain[k.route] \in Others
        /\ call' = [call EXCEPT ![c] = n]
    BY <1>1, <1>12 DEF CallOther, Provider
  <2>2. k.route \in DOMAIN Chain
    BY <2>1, ChainTyped DEF CallType
  <2>3. n \in CallType
    BY <2>1 DEF CallType
  <2>4. /\ n.pc = "calling" /\ n.evidence = k.evidence /\ n.route = k.route /\ n.late = k.late
        /\ n.unavailable = k.unavailable /\ n.cancelled = k.cancelled /\ n.large = k.large
    BY <2>1 DEF CallType
  <2> HIDE DEF k, n
  <2>5. Placed(n) /\ Heeds(n)
    BY <2>1, <2>2, <2>4 DEF Sound, Placed, Heeds, NoneLate
  <2>6. Sound(n)
    BY <2>1, <2>3, <2>4, <2>5, MovedSound
  <2> QED
    BY <2>1, <2>6, CallReplaced
<1>13. ASSUME NEW c \in Calls, NEW answer \in Answers \cup {"unavailable"}, AnswerOther(c, answer)
       PROVE  CallsSound'
  <2>1. /\ call[c] \in CallType /\ Sound(call[c]) /\ call[c].pc = "calling"
        /\ call[c].route \in DOMAIN Chain
    BY <1>1, <1>13 DEF AnswerOther, Sound, Placed
  <2>2. PICK n : Sound(n) /\ call' = [call EXCEPT ![c] = n]
    <3>1. Sound(Returned(call[c])) /\ Sound(Unavailable(call[c]))
      BY <2>1, ReturnedSound, UnavailableSound
    <3>2. \A b \in BOOLEAN : Sound(Retried(call[c], "failure", b))
      BY <2>1, RetriedSound
    <3> QED
      BY <1>13, <3>1, <3>2 DEF AnswerOther
  <2> QED
    BY <2>2, CallReplaced
<1>11. CASE call' = call
  BY <1>11 DEF CallsSound, Sound, Placed, InOrder, UpToRoute, Earned, Explained, Heeds, NoneLate
<1> QED
  BY <1>2, <1>3, <1>4, <1>5, <1>6, <1>7, <1>8, <1>9, <1>10, <1>11, <1>12, <1>13
     DEF RoutingNext, Progress, RecoveryElapses, Healthy, routing

LEMMA RoutingInitSound == RoutingInit => CallsSound
<1> SUFFICES ASSUME RoutingInit PROVE CallsSound
  OBVIOUS
<1> DEFINE k == [pc |-> "idle", route |-> 1, attempt |-> 0, try |-> 0,
                 large |-> FALSE, skipped |-> FALSE, cancelled |-> FALSE, expired |-> FALSE,
                 result |-> "none", evidence |-> <<>>, unavailable |-> {},
                 late |-> [r \in DOMAIN Chain |-> 0]]
<1>1. /\ 1 \in 1 .. Len(Chain) + 1 /\ 0 \in 0 .. max_retries /\ 0 \in 0 .. retry_budget
      /\ [r \in DOMAIN Chain |-> 0] \in [DOMAIN Chain -> Nat]
      /\ <<>> \in Seq((1 .. Len(Chain)) \X Outcomes)
  BY ChainTyped, RoutingAssumption
<1>2. k \in CallType
  BY <1>1 DEF CallType
<1>3. k.pc = "idle" /\ k.route = 1 /\ k.evidence = <<>> /\ \A r \in DOMAIN Chain : k.late[r] = 0
  OBVIOUS
<1>4. call = [c \in Calls |-> k]
  BY DEF RoutingInit
<1> HIDE DEF k
<1>5. Sound(k)
  BY <1>2, <1>3, ChainTyped DEF Sound, Placed, InOrder, UpToRoute, Earned, Heeds, NoneLate
<1> QED
  BY <1>2, <1>4, <1>5 DEF CallsSound

LEMMA CallsSoundAlways == RoutingSpec => []CallsSound
  BY RoutingInitSound, RoutingStepSound, PTL DEF RoutingSpec

(* A call reaches a route only when every candidate before it was over its   *)
(* budget, failed on the record, in chain order, or is a provider of another *)
(* class that called itself unavailable: the router never passes over Gemini *)
(* or Qwen without evidence, whatever the retries, breakers and              *)
(* cancellations.                                                           *)
THEOREM FallbackEarnedAlways == RoutingSpec => []FallbackEarned
<1>1. CallsSound => FallbackEarned
  BY DEF CallsSound, Sound, InOrder, Earned, Explained, FallbackEarned
<1> QED
  BY <1>1, CallsSoundAlways, PTL

(* A cancelled call sends nothing more to Gemini, and to Qwen at most the    *)
(* request it was already waiting to send, however often routes are retried. *)
THEOREM CancellationHeededAlways == RoutingSpec => []CancellationHeeded
<1>1. CallsSound => CancellationHeeded
  BY DEF CallsSound, Sound, Heeds, CancellationHeeded
<1> QED
  BY <1>1, CallsSoundAlways, PTL

-----------------------------------------------------------------------------
(* The circuit breakers. *)

BreakerInv ==
  /\ breaker \in [Providers -> [state: {"closed", "open", "half_open"},
                                failures: 0 .. failure_threshold, elapsed: BOOLEAN]]
  /\ BreakerConsistent

Consistent(b) ==
  /\ b \in [state: {"closed", "open", "half_open"}, failures: 0 .. failure_threshold, elapsed: BOOLEAN]
  /\ (b.state = "closed") <=> (b.failures < failure_threshold)

LEMMA BreakerMoves ==
  ASSUME NEW b, Consistent(b)
  PROVE  /\ Consistent(Allowed(b)) /\ Consistent(Succeeded(b)) /\ Consistent(Failed(b))
         /\ b.state = "open" => Consistent([b EXCEPT !.elapsed = TRUE])
<1>1. Consistent(Allowed(b))
  BY DEF Consistent, Allowed
<1>2. Consistent(Succeeded(b))
  BY RoutingAssumption DEF Consistent, Succeeded
<1>3. Consistent(Failed(b))
  <2>1. CASE b.failures + 1 >= failure_threshold
    BY <2>1, RoutingAssumption DEF Consistent, Failed
  <2>2. CASE ~(b.failures + 1 >= failure_threshold)
    BY <2>2, RoutingAssumption DEF Consistent, Failed
  <2> QED
    BY <2>1, <2>2
<1>4. b.state = "open" => Consistent([b EXCEPT !.elapsed = TRUE])
  BY DEF Consistent
<1> QED
  BY <1>1, <1>2, <1>3, <1>4

LEMMA BreakerReplaced ==
  ASSUME BreakerInv, NEW p \in Providers, NEW b, Consistent(b), breaker' = [breaker EXCEPT ![p] = b]
  PROVE  BreakerInv'
  BY DEF BreakerInv, BreakerConsistent, Consistent

LEMMA BreakerStep == CallsSound /\ BreakerInv /\ [RoutingNext]_routing => BreakerInv'
<1> SUFFICES ASSUME CallsSound, BreakerInv, [RoutingNext]_routing
             PROVE  BreakerInv'
  OBVIOUS
<1>1. \A p \in Providers : Consistent(breaker[p])
  BY DEF BreakerInv, BreakerConsistent, Consistent
<1>2. ASSUME NEW p \in Providers,
             \/ breaker' = [breaker EXCEPT ![p] = Allowed(@)]
             \/ breaker' = [breaker EXCEPT ![p] = Succeeded(@)]
             \/ breaker' = [breaker EXCEPT ![p] = Failed(@)]
             \/ breaker[p].state = "open" /\ breaker' = [breaker EXCEPT ![p].elapsed = TRUE]
      PROVE  BreakerInv'
  <2>1. /\ Consistent(Allowed(breaker[p])) /\ Consistent(Succeeded(breaker[p]))
        /\ Consistent(Failed(breaker[p]))
        /\ breaker[p].state = "open" => Consistent([breaker[p] EXCEPT !.elapsed = TRUE])
    BY <1>1, BreakerMoves
  <2> QED
    BY <1>2, <2>1, BreakerReplaced
<1>3. CASE breaker' = breaker
  BY <1>3 DEF BreakerInv, BreakerConsistent
<1>4. ASSUME NEW c \in Calls, EnterProvider(c)
      PROVE  BreakerInv'
  BY <1>2, <1>4 DEF EnterProvider
<1>5. ASSUME NEW c \in Calls, NEW answer \in Answers, AnswerGemini(c, answer)
      PROVE  BreakerInv'
  BY <1>2, <1>3, <1>5 DEF AnswerGemini, Providers
<1>6. ASSUME NEW c \in Calls, NEW answer \in Answers, AnswerQwen(c, answer)
      PROVE  BreakerInv'
  BY <1>2, <1>3, <1>6 DEF AnswerQwen, Providers, Answers
<1>7. ASSUME NEW p \in Providers, RecoveryElapses(p) \/ Healthy(p)
      PROVE  BreakerInv'
  BY <1>2, <1>7 DEF RecoveryElapses, Healthy
<1> QED
  BY <1>3, <1>4, <1>5, <1>6, <1>7
     DEF RoutingNext, Progress, Invoke, Conclude, SkipOverBudget, Acquire, Wake, CallOther, AnswerOther,
         Abandon, SetCancellation, DeadlinePasses, routing

(* A breaker is closed exactly while its failures are below the threshold,   *)
(* whatever order the answers of concurrent calls, recoveries and health     *)
(* checks come in.                                                          *)
THEOREM BreakerConsistentAlways == RoutingSpec => []BreakerConsistent
<1>1. RoutingInit => BreakerInv
  BY RoutingAssumption DEF RoutingInit, BreakerInv, BreakerConsistent
<1>2. BreakerInv => BreakerConsistent
  BY DEF BreakerInv
<1> QED
  BY <1>1, <1>2, BreakerStep, CallsSoundAlways, PTL DEF RoutingSpec

-----------------------------------------------------------------------------
(* The semaphores. The holders of a provider's permits are finitely many     *)
(* because each of them took one.                                           *)

Talking == {"request", "sleep"}

PermitInv ==
  /\ permits \in [Providers -> Nat]
  /\ \A p \in Providers : IsFiniteSet(Holders(p))
  /\ PermitsConserved

LEMMA PermitKept ==
  ASSUME CallsSound, PermitInv, NEW c \in Calls, NEW n, call' = [call EXCEPT ![c] = n], permits' = permits,
         \/ n.pc \notin Talking /\ call[c].pc \notin Talking
         \/ n.pc \in Talking /\ call[c].pc \in Talking /\ n.route = call[c].route
  PROVE  PermitInv'
<1>1. \A d \in Calls : call'[d] = IF d = c THEN n ELSE call[d]
  BY DEF CallsSound
<1>2. ASSUME NEW p \in Providers
      PROVE  Holders(p)' = Holders(p)
  BY <1>1 DEF Holders, Provider, Talking
<1> QED
  BY <1>2 DEF PermitInv, PermitsConserved

LEMMA PermitTaken ==
  ASSUME CallsSound, PermitInv, NEW c \in Calls, NEW n, call' = [call EXCEPT ![c] = n],
         n.pc \in Talking, call[c].pc \notin Talking, n.route = call[c].route,
         Provider(c) \in Providers, permits[Provider(c)] > 0,
         permits' = [permits EXCEPT ![Provider(c)] = @ - 1]
  PROVE  PermitInv'
<1>1. \A d \in Calls : call'[d] = IF d = c THEN n ELSE call[d]
  BY DEF CallsSound
<1>2. PICK q \in Providers : q = Provider(c)
  OBVIOUS
<1>3. c \notin Holders(q) /\ Holders(q)' = Holders(q) \cup {c}
  BY <1>1, <1>2 DEF Holders, Provider, Talking
<1>4. ASSUME NEW p \in Providers, p # q
      PROVE  Holders(p)' = Holders(p)
  BY <1>1, <1>2, <1>4 DEF Holders, Provider, Talking
<1>5. IsFiniteSet(Holders(q)') /\ Cardinality(Holders(q)') = Cardinality(Holders(q)) + 1
  BY <1>3, FS_AddElement DEF PermitInv
<1>6. Cardinality(Holders(q)) \in Nat
  BY FS_CardinalityType DEF PermitInv
<1>7. permits' = [permits EXCEPT ![q] = @ - 1] /\ permits[q] \in Nat /\ permits[q] > 0
  BY <1>2 DEF PermitInv
<1>8. permits' \in [Providers -> Nat] /\ permits'[q] = permits[q] - 1
  BY <1>7 DEF PermitInv
<1>9. \A p \in Providers : IsFiniteSet(Holders(p)')
  BY <1>4, <1>5 DEF PermitInv
<1>10. permits'[q] + Cardinality(Holders(q)') = Concurrency
  BY <1>5, <1>6, <1>7, <1>8 DEF PermitInv, PermitsConserved
<1>11. \A p \in Providers : permits'[p] + Cardinality(Holders(p)') = Concurrency
  BY <1>4, <1>7, <1>10 DEF PermitInv, PermitsConserved
<1> QED
  BY <1>8, <1>9, <1>11 DEF PermitInv, PermitsConserved

LEMMA PermitReturned ==
  ASSUME CallsSound, PermitInv, NEW c \in Calls, NEW n, call' = [call EXCEPT ![c] = n],
         n.pc \notin Talking, call[c].pc \in Talking, Provider(c) \in Providers,
         permits' = [permits EXCEPT ![Provider(c)] = @ + 1]
  PROVE  PermitInv'
<1>1. \A d \in Calls : call'[d] = IF d = c THEN n ELSE call[d]
  BY DEF CallsSound
<1>2. PICK q \in Providers : q = Provider(c)
  OBVIOUS
<1>3. c \in Holders(q) /\ Holders(q)' = Holders(q) \ {c}
  BY <1>1, <1>2 DEF Holders, Provider, Talking
<1>4. ASSUME NEW p \in Providers, p # q
      PROVE  Holders(p)' = Holders(p)
  BY <1>1, <1>2, <1>4 DEF Holders, Provider, Talking
<1>5. IsFiniteSet(Holders(q)') /\ Cardinality(Holders(q)') = Cardinality(Holders(q)) - 1
  BY <1>3, FS_RemoveElement DEF PermitInv
<1>6. Cardinality(Holders(q)) \in Nat
  BY FS_CardinalityType DEF PermitInv
<1>7. permits' = [permits EXCEPT ![q] = @ + 1] /\ permits[q] \in Nat
  BY <1>2 DEF PermitInv
<1>8. permits' \in [Providers -> Nat] /\ permits'[q] = permits[q] + 1
  BY <1>7 DEF PermitInv
<1>9. \A p \in Providers : IsFiniteSet(Holders(p)')
  BY <1>4, <1>5 DEF PermitInv
<1>10. permits'[q] + Cardinality(Holders(q)') = Concurrency
  BY <1>5, <1>6, <1>7, <1>8 DEF PermitInv, PermitsConserved
<1>11. \A p \in Providers : permits'[p] + Cardinality(Holders(p)') = Concurrency
  BY <1>4, <1>7, <1>10 DEF PermitInv, PermitsConserved
<1> QED
  BY <1>8, <1>9, <1>11 DEF PermitInv, PermitsConserved

LEMMA PermitStep == CallsSound /\ PermitInv /\ [RoutingNext]_routing => PermitInv'
<1> SUFFICES ASSUME CallsSound, PermitInv, [RoutingNext]_routing
             PROVE  PermitInv'
  OBVIOUS
<1>1. \A c \in Calls : call[c] \in CallType /\ Sound(call[c])
  BY DEF CallsSound
<1>2. \A c \in Calls : call[c].pc \in {"waiting", "request", "sleep"} => Provider(c) \in Providers
  BY <1>1 DEF Provider, Sound, Placed
<1>3. \A c \in Calls : call[c].pc \in {"waiting", "request", "sleep", "calling"} =>
        call[c].route \in DOMAIN Chain
  BY <1>1 DEF Sound, Placed
<1>4. ASSUME NEW c \in Calls, NEW large \in BOOLEAN, Invoke(c, large)
      PROVE  PermitInv'
  <2>1. call[c].pc = "idle" /\ permits' = permits
    BY <1>4 DEF Invoke
  <2>2. PICK n : call' = [call EXCEPT ![c] = n] /\ n.pc \in {"route", "done"}
    <3>1. /\ Ended(call[c], "agent_budget").pc = "done" /\ Ended(call[c], "abandoned").pc = "done"
          /\ [call[c] EXCEPT !.pc = "route", !.large = large].pc = "route"
      BY <1>1 DEF Ended, CallType
    <3>2. call' \in {[call EXCEPT ![c] = Ended(call[c], "agent_budget")],
                     [call EXCEPT ![c] = Ended(call[c], "abandoned")],
                     [call EXCEPT ![c] = [call[c] EXCEPT !.pc = "route", !.large = large]]}
      BY <1>4 DEF Invoke, CallsSound
    <3> QED
      BY <3>1, <3>2
  <2> QED
    BY <2>1, <2>2, PermitKept DEF Talking
<1>5. ASSUME NEW c \in Calls, Conclude(c) \/ SkipOverBudget(c)
      PROVE  PermitInv'
  <2>1. call[c].pc = "route" /\ permits' = permits
    BY <1>5 DEF Conclude, SkipOverBudget
  <2>2. PICK n : call' = [call EXCEPT ![c] = n] /\ n.pc \in {"route", "done"}
    <3>1. \A result : Ended(call[c], result).pc = "done"
      BY <1>1 DEF Ended, CallType
    <3>2. [NextRoute(call[c]) EXCEPT !.skipped = TRUE].pc = "route"
      BY <1>1 DEF NextRoute, CallType
    <3>3. CASE Conclude(c)
      BY <3>1, <3>3 DEF Conclude
    <3>4. CASE SkipOverBudget(c)
      BY <3>2, <3>4 DEF SkipOverBudget
    <3> QED
      BY <1>5, <3>3, <3>4
  <2> QED
    BY <2>1, <2>2, PermitKept DEF Talking
<1>6. ASSUME NEW c \in Calls, EnterProvider(c)
      PROVE  PermitInv'
  <2>1. /\ call[c].pc = "route" /\ call[c].route \in DOMAIN Chain /\ ~call[c].cancelled
        /\ Provider(c) \in Providers /\ Chain[call[c].route] \in Providers
    BY <1>1, <1>6, ChainTyped DEF EnterProvider, CallType, Provider
  <2>2. CASE call' = [call EXCEPT ![c] = Retried(call[c], "failure", TRUE)] /\ permits' = permits
    <3>1. Retried(call[c], "failure", TRUE).pc = "route"
      BY <1>1, <2>1, RetriedSound
    <3> QED
      BY <2>1, <2>2, <3>1, PermitKept DEF Talking
  <2>3. CASE /\ call' = [call EXCEPT ![c] = Sent(call[c])] /\ permits[Provider(c)] > 0
             /\ permits' = [permits EXCEPT ![Provider(c)] = @ - 1]
    <3>1. Sent(call[c]).pc = "request" /\ Sent(call[c]).route = call[c].route
      BY <1>1, <2>1, SentSound
    <3> QED
      BY <1>2, <2>1, <2>3, <3>1, PermitTaken DEF Talking
  <2>4. CASE call' = [call EXCEPT ![c].pc = "waiting"] /\ permits' = permits
    <3>1. /\ call' = [call EXCEPT ![c] = [call[c] EXCEPT !.pc = "waiting"]]
          /\ [call[c] EXCEPT !.pc = "waiting"].pc = "waiting"
      BY <1>1, <2>4 DEF CallType
    <3> QED
      BY <2>1, <2>4, <3>1, PermitKept DEF Talking
  <2> QED
    BY <1>6, <2>2, <2>3, <2>4 DEF EnterProvider
<1>7. ASSUME NEW c \in Calls, Acquire(c)
      PROVE  PermitInv'
  <2>1. call[c].pc = "waiting" /\ call[c].route \in DOMAIN Chain /\ permits[Provider(c)] > 0
    BY <1>3, <1>7 DEF Acquire
  <2>2. CASE StopsAtPermit(c)
    <3>1. Retried(call[c], "cancelled", FALSE).pc = "route"
      BY <1>1, <2>1, RetriedSound
    <3> QED
      BY <1>7, <2>1, <2>2, <3>1, PermitKept DEF Acquire, Talking
  <2>3. CASE ~StopsAtPermit(c)
    <3>1. Sent(call[c]).pc = "request" /\ Sent(call[c]).route = call[c].route
      BY <1>1 DEF Sent, CallType
    <3> QED
      BY <1>2, <1>7, <2>1, <2>3, <3>1, PermitTaken DEF Acquire, Talking
  <2> QED
    BY <2>2, <2>3
<1>8. ASSUME NEW c \in Calls, Wake(c)
      PROVE  PermitInv'
  <2>1. call[c].pc = "sleep" /\ call[c].route \in DOMAIN Chain
    BY <1>3, <1>8 DEF Wake
  <2>2. CASE StopsAtPermit(c)
    <3>1. Retried(call[c], "cancelled", FALSE).pc = "route"
      BY <1>1, <2>1, RetriedSound
    <3> QED
      BY <1>2, <1>8, <2>1, <2>2, <3>1, PermitReturned DEF Wake, Talking
  <2>3. CASE ~StopsAtPermit(c)
    <3>1. Sent(call[c]).pc = "request" /\ Sent(call[c]).route = call[c].route
      BY <1>1 DEF Sent, CallType
    <3> QED
      BY <1>8, <2>1, <2>3, <3>1, PermitKept DEF Wake, Talking
  <2> QED
    BY <2>2, <2>3
<1>9. ASSUME NEW c \in Calls, NEW answer \in Answers, AnswerGemini(c, answer) \/ AnswerQwen(c, answer)
      PROVE  PermitInv'
  <2>1. call[c].pc = "request" /\ call[c].route \in DOMAIN Chain
    BY <1>3, <1>9 DEF AnswerGemini, AnswerQwen
  <2>2. CASE call' = [call EXCEPT ![c].pc = "sleep", ![c].try = @ + 1] /\ permits' = permits
    <3> DEFINE n == [call[c] EXCEPT !.pc = "sleep", !.try = @ + 1]
    <3>1. call' = [call EXCEPT ![c] = n] /\ n.pc = "sleep" /\ n.route = call[c].route
      BY <1>1, <2>2 DEF CallType, CallsSound
    <3> HIDE DEF n
    <3> QED
      BY <2>1, <2>2, <3>1, PermitKept DEF Talking
  <2>3. CASE /\ permits' = [permits EXCEPT ![Provider(c)] = @ + 1]
             /\ call' = [call EXCEPT ![c] = IF answer = "success" THEN Returned(call[c])
                                            ELSE Retried(call[c], "failure", answer = "retryable")]
    <3>1. Returned(call[c]).pc = "done"
      BY <1>1, <2>1, ReturnedSound
    <3>2. \A b \in BOOLEAN : Retried(call[c], "failure", b).pc = "route"
      BY <1>1, <2>1, RetriedSound
    <3>3. PICK n : call' = [call EXCEPT ![c] = n] /\ n.pc \in {"route", "done"}
      BY <2>3, <3>1, <3>2
    <3> QED
      BY <1>2, <2>1, <2>3, <3>3, PermitReturned DEF Talking
  <2> QED
    BY <1>9, <2>2, <2>3 DEF AnswerGemini, AnswerQwen
<1>10. ASSUME NEW c \in Calls, Abandon(c)
       PROVE  PermitInv'
  <2>1. /\ call' = [call EXCEPT ![c] = Ended(call[c], "abandoned")] /\ Ended(call[c], "abandoned").pc = "done"
    BY <1>1, <1>10 DEF Abandon, Ended, CallType
  <2>2. CASE call[c].pc \in Talking
    <3>1. c \in Holders(Provider(c))
      BY <2>2 DEF Holders, Talking
    <3>2. permits' = [permits EXCEPT ![Provider(c)] = @ + 1]
      BY <1>10, <3>1 DEF Abandon
    <3> QED
      BY <1>2, <2>1, <2>2, <3>2, PermitReturned DEF Talking
  <2>3. CASE call[c].pc \notin Talking
    <3>1. c \notin Holders(Provider(c))
      BY <2>3 DEF Holders, Talking
    <3>2. permits' = permits
      BY <1>10, <3>1 DEF Abandon
    <3> QED
      BY <2>1, <2>3, <3>2, PermitKept DEF Talking
  <2> QED
    BY <2>2, <2>3
<1>11. ASSUME NEW c \in Calls, SetCancellation(c) \/ DeadlinePasses(c)
       PROVE  PermitInv'
  <2>1. PICK n : call' = [call EXCEPT ![c] = n] /\ n.pc = call[c].pc /\ n.route = call[c].route
    <3>1. CASE call' = [call EXCEPT ![c] = [call[c] EXCEPT !.cancelled = TRUE]]
      <4>1. /\ [call[c] EXCEPT !.cancelled = TRUE].pc = call[c].pc
            /\ [call[c] EXCEPT !.cancelled = TRUE].route = call[c].route
        BY <1>1 DEF CallType
      <4> QED
        BY <3>1, <4>1
    <3>2. CASE call' = [call EXCEPT ![c] = [call[c] EXCEPT !.expired = TRUE]]
      <4>1. /\ [call[c] EXCEPT !.expired = TRUE].pc = call[c].pc
            /\ [call[c] EXCEPT !.expired = TRUE].route = call[c].route
        BY <1>1 DEF CallType
      <4> QED
        BY <3>2, <4>1
    <3> QED
      BY <1>11, <3>1, <3>2 DEF SetCancellation, DeadlinePasses, CallsSound
  <2>2. permits' = permits
    BY <1>11 DEF SetCancellation, DeadlinePasses
  <2> QED
    BY <2>1, <2>2, PermitKept
<1>12. CASE call' = call /\ permits' = permits
  BY <1>12 DEF PermitInv, PermitsConserved, Holders, Provider
<1>13. ASSUME NEW c \in Calls, CallOther(c)
       PROVE  PermitInv'
  <2>1. /\ call[c].pc = "route" /\ permits' = permits
        /\ call' = [call EXCEPT ![c] = [call[c] EXCEPT !.pc = "calling"]]
        /\ [call[c] EXCEPT !.pc = "calling"].pc = "calling"
    BY <1>1, <1>13 DEF CallOther, CallType
  <2> QED
    BY <2>1, PermitKept DEF Talking
<1>14. ASSUME NEW c \in Calls, NEW answer \in Answers \cup {"unavailable"}, AnswerOther(c, answer)
       PROVE  PermitInv'
  <2>1. call[c].pc = "calling" /\ call[c].route \in DOMAIN Chain /\ permits' = permits
    BY <1>3, <1>14 DEF AnswerOther
  <2>2. PICK n : call' = [call EXCEPT ![c] = n] /\ n.pc \in {"route", "done"}
    <3>1. Returned(call[c]).pc = "done" /\ Unavailable(call[c]).pc = "route"
      BY <1>1, <2>1, ReturnedSound, UnavailableSound
    <3>2. \A b \in BOOLEAN : Retried(call[c], "failure", b).pc = "route"
      BY <1>1, <2>1, RetriedSound
    <3> QED
      BY <1>14, <3>1, <3>2 DEF AnswerOther
  <2> QED
    BY <2>1, <2>2, PermitKept DEF Talking
<1> QED
  BY <1>4, <1>5, <1>6, <1>7, <1>8, <1>9, <1>10, <1>11, <1>12, <1>13, <1>14
     DEF RoutingNext, Progress, RecoveryElapses, Healthy, routing

(* No permit of a provider's semaphore is lost or made up, whichever way its  *)
(* calls end: success, failure, a retry, cancellation at any await.           *)
THEOREM PermitsConservedAlways == RoutingSpec => []PermitsConserved
<1>1. RoutingInit => PermitInv
  <2> SUFFICES ASSUME RoutingInit PROVE PermitInv
    OBVIOUS
  <2>1. \A p \in Providers : Holders(p) = {}
    BY DEF RoutingInit, Holders
  <2>2. \A p \in Providers : IsFiniteSet(Holders(p)) /\ Cardinality(Holders(p)) = 0
    BY <2>1, FS_EmptySet
  <2>3. permits = [p \in Providers |-> Concurrency] /\ Concurrency \in Nat
    BY RoutingAssumption DEF RoutingInit
  <2> QED
    BY <2>2, <2>3 DEF PermitInv, PermitsConserved
<1>2. PermitInv => PermitsConserved
  BY DEF PermitInv
<1> QED
  BY <1>1, <1>2, PermitStep, CallsSoundAlways, PTL DEF RoutingSpec
-----------------------------------------------------------------------------
(* A call goes on to its end: the safety half of CallsEnd. *)

(* Where a call is within one request: a pause comes before its request. *)
Rank(pc) ==
  IF pc = "idle" THEN 0 ELSE IF pc = "route" THEN 1 ELSE IF pc = "waiting" THEN 2
  ELSE IF pc = "sleep" THEN 3 ELSE IF pc \in {"request", "calling"} THEN 4 ELSE 5

(* Route, attempt, try and place, in this order of importance; each of them  *)
(* is bounded (CallType).                                                   *)
Further(a, b) ==
  /\ a.pc # "done"
  /\ \/ b.pc = "done"
     \/ b.route > a.route
     \/ b.route = a.route /\ b.attempt > a.attempt
     \/ b.route = a.route /\ b.attempt = a.attempt /\ b.try > a.try
     \/ b.route = a.route /\ b.attempt = a.attempt /\ b.try = a.try /\ Rank(b.pc) > Rank(a.pc)

(* A call hears of its cancellation or of its deadline, once. *)
Notified(a, b) ==
  \/ ~a.cancelled /\ b = [a EXCEPT !.cancelled = TRUE]
  \/ ~a.expired /\ b = [a EXCEPT !.expired = TRUE]

AdvanceStep ==
  \A c \in Calls : call'[c] # call[c] => Further(call[c], call'[c]) \/ Notified(call[c], call'[c])

LEMMA AgainFurther ==
  ASSUME NEW k \in CallType, k.pc # "done", NEW retryable \in BOOLEAN,
         NEW n \in {[k EXCEPT !.evidence = e] : e \in {Append(k.evidence, <<k.route, o>>) : o \in Outcomes}}
                     \cup {[k EXCEPT !.unavailable = @ \cup {k.route}]}
  PROVE  Further(k, Again(n, retryable))
<1> DEFINE again == [n EXCEPT !.pc = "route", !.attempt = @ + 1, !.try = 0]
           next == NextRoute(n)
<1>1. k.route \in Nat /\ k.attempt \in Nat
  BY RoutingAssumption DEF CallType
<1>2. again.route = k.route /\ again.attempt = k.attempt + 1
  BY DEF CallType
<1>3. next.route = k.route + 1
  BY DEF CallType, NextRoute
<1>4. Again(n, retryable) \in {again, next}
  BY DEF Again
<1> HIDE DEF again, next
<1>5. Further(k, again)
  BY <1>1, <1>2 DEF Further
<1>6. Further(k, next)
  BY <1>1, <1>3 DEF Further
<1> QED
  BY <1>4, <1>5, <1>6

LEMMA RetriedFurther ==
  ASSUME NEW k \in CallType, k.pc # "done", NEW outcome \in Outcomes, NEW retryable \in BOOLEAN
  PROVE  Further(k, Retried(k, outcome, retryable)) /\ Further(k, Unavailable(k))
<1> DEFINE n == [k EXCEPT !.evidence = Append(@, <<k.route, outcome>>)]
           u == [k EXCEPT !.unavailable = @ \cup {k.route}]
<1>1. n = [k EXCEPT !.evidence = Append(k.evidence, <<k.route, outcome>>)]
  BY DEF CallType
<1>2. Further(k, Again(n, retryable)) /\ Further(k, Again(u, TRUE))
  BY <1>1, AgainFurther
<1> QED
  BY <1>2 DEF Retried, Unavailable

LEMMA SentFurther ==
  ASSUME NEW k \in CallType, k.pc \in {"route", "waiting", "sleep"}
  PROVE  Further(k, Sent(k))
<1>1. /\ Sent(k).pc = "request" /\ Sent(k).route = k.route
      /\ Sent(k).attempt = k.attempt /\ Sent(k).try = k.try
  BY DEF Sent, CallType
<1> QED
  BY <1>1 DEF Further, Rank

LEMMA EndedFurther ==
  ASSUME NEW k \in CallType, k.pc # "done"
  PROVE  (\A result : Further(k, Ended(k, result))) /\ Further(k, Returned(k))
<1>1. \A result : Ended(k, result).pc = "done"
  BY DEF Ended, CallType
<1>2. Returned(k).pc = "done"
  BY DEF Returned, Ended, CallType
<1> QED
  BY <1>1, <1>2 DEF Further

LEMMA CallsAdvanceStep == CallsSound /\ [RoutingNext]_routing => AdvanceStep
<1> SUFFICES ASSUME CallsSound, [RoutingNext]_routing, NEW d \in Calls, call'[d] # call[d]
             PROVE  Further(call[d], call'[d]) \/ Notified(call[d], call'[d])
  BY DEF AdvanceStep
<1>1. \A c \in Calls : call[c] \in CallType
  BY DEF CallsSound
<1>2. ASSUME NEW c \in Calls, NEW n, call' = [call EXCEPT ![c] = n],
             Further(call[c], n) \/ Notified(call[c], n)
      PROVE  Further(call[d], call'[d]) \/ Notified(call[d], call'[d])
  <2>1. c = d /\ call'[d] = n
    BY <1>2 DEF CallsSound
  <2> QED
    BY <1>2, <2>1
<1>3. ASSUME NEW c \in Calls, NEW large \in BOOLEAN, Invoke(c, large)
      PROVE  Further(call[d], call'[d]) \/ Notified(call[d], call'[d])
  <2> DEFINE n == [call[c] EXCEPT !.pc = "route", !.large = large]
  <2>1. call[c].pc = "idle" /\ call[c] \in CallType
    BY <1>1, <1>3 DEF Invoke
  <2>2. Further(call[c], n)
    <3>1. n.pc = "route" /\ n.route = call[c].route /\ n.attempt = call[c].attempt /\ n.try = call[c].try
      BY <2>1 DEF CallType
    <3> QED
      BY <2>1, <3>1 DEF Further, Rank
  <2>3. call' \in {[call EXCEPT ![c] = Ended(call[c], "agent_budget")],
                   [call EXCEPT ![c] = Ended(call[c], "abandoned")], [call EXCEPT ![c] = n]}
    BY <1>3 DEF Invoke, CallsSound
  <2> HIDE DEF n
  <2> QED
    BY <1>2, <2>1, <2>2, <2>3, EndedFurther
<1>4. ASSUME NEW c \in Calls, Conclude(c) \/ Abandon(c)
      PROVE  Further(call[d], call'[d]) \/ Notified(call[d], call'[d])
  <2>1. call[c].pc # "done" /\ call[c] \in CallType
    BY <1>1, <1>4 DEF Conclude, Abandon
  <2>2. \E result : call' = [call EXCEPT ![c] = Ended(call[c], result)]
    BY <1>4 DEF Conclude, Abandon
  <2> QED
    BY <1>2, <2>1, <2>2, EndedFurther
<1>5. ASSUME NEW c \in Calls, SkipOverBudget(c)
      PROVE  Further(call[d], call'[d]) \/ Notified(call[d], call'[d])
  <2> DEFINE n == [NextRoute(call[c]) EXCEPT !.skipped = TRUE]
  <2>1. call[c].pc = "route" /\ call[c] \in CallType /\ call' = [call EXCEPT ![c] = n]
    BY <1>1, <1>5 DEF SkipOverBudget
  <2>2. call[c].route \in Nat /\ n.route = call[c].route + 1
    BY <2>1, RoutingAssumption DEF CallType, NextRoute
  <2> HIDE DEF n
  <2>3. Further(call[c], n)
    BY <2>1, <2>2 DEF Further
  <2> QED
    BY <1>2, <2>1, <2>3
<1>6. ASSUME NEW c \in Calls, EnterProvider(c)
      PROVE  Further(call[d], call'[d]) \/ Notified(call[d], call'[d])
  <2> DEFINE n == [call[c] EXCEPT !.pc = "waiting"]
  <2>1. call[c].pc = "route" /\ call[c] \in CallType
    BY <1>1, <1>6 DEF EnterProvider
  <2>2. call' \in {[call EXCEPT ![c] = Retried(call[c], "failure", TRUE)],
                   [call EXCEPT ![c] = Sent(call[c])], [call EXCEPT ![c] = n]}
    BY <1>6 DEF EnterProvider
  <2>3. n.pc = "waiting" /\ n.route = call[c].route /\ n.attempt = call[c].attempt /\ n.try = call[c].try
    BY <2>1 DEF CallType
  <2> HIDE DEF n
  <2>4. Further(call[c], n)
    BY <2>1, <2>3 DEF Further, Rank
  <2>5. Further(call[c], Retried(call[c], "failure", TRUE)) /\ Further(call[c], Sent(call[c]))
    BY <2>1, RetriedFurther, SentFurther DEF Outcomes
  <2> QED
    BY <1>2, <2>2, <2>4, <2>5
<1>7. ASSUME NEW c \in Calls, Acquire(c) \/ Wake(c)
      PROVE  Further(call[d], call'[d]) \/ Notified(call[d], call'[d])
  <2>1. call[c].pc \in {"waiting", "sleep"} /\ call[c] \in CallType
    BY <1>1, <1>7 DEF Acquire, Wake
  <2>2. call' \in {[call EXCEPT ![c] = Retried(call[c], "cancelled", FALSE)],
                   [call EXCEPT ![c] = Sent(call[c])]}
    BY <1>7 DEF Acquire, Wake
  <2>3. Further(call[c], Retried(call[c], "cancelled", FALSE)) /\ Further(call[c], Sent(call[c]))
    BY <2>1, RetriedFurther, SentFurther DEF Outcomes
  <2> QED
    BY <1>2, <2>2, <2>3
<1>8. ASSUME NEW c \in Calls, NEW answer \in Answers, AnswerGemini(c, answer) \/ AnswerQwen(c, answer)
      PROVE  Further(call[d], call'[d]) \/ Notified(call[d], call'[d])
  <2> DEFINE n == [call[c] EXCEPT !.pc = "sleep", !.try = @ + 1]
             m == IF answer = "success" THEN Returned(call[c])
                  ELSE Retried(call[c], "failure", answer = "retryable")
  <2>1. call[c].pc = "request" /\ call[c] \in CallType
    BY <1>1, <1>8 DEF AnswerGemini, AnswerQwen
  <2>2. call' \in {[call EXCEPT ![c] = n], [call EXCEPT ![c] = m]}
    BY <1>8 DEF AnswerGemini, AnswerQwen, CallsSound
  <2>3. /\ n.route = call[c].route /\ n.attempt = call[c].attempt /\ n.try = call[c].try + 1
        /\ call[c].try \in Nat
    BY <2>1, RoutingAssumption DEF CallType
  <2>4. Further(call[c], m)
    <3>1. Further(call[c], Returned(call[c]))
      BY <2>1, EndedFurther
    <3>2. \A b \in BOOLEAN : Further(call[c], Retried(call[c], "failure", b))
      BY <2>1, RetriedFurther DEF Outcomes
    <3> QED
      BY <3>1, <3>2
  <2> HIDE DEF n, m
  <2>5. Further(call[c], n)
    BY <2>1, <2>3 DEF Further
  <2> QED
    BY <1>2, <2>2, <2>4, <2>5
<1>9. ASSUME NEW c \in Calls, SetCancellation(c) \/ DeadlinePasses(c)
      PROVE  Further(call[d], call'[d]) \/ Notified(call[d], call'[d])
  <2> DEFINE m == [call[c] EXCEPT !.cancelled = TRUE]
             n == [call[c] EXCEPT !.expired = TRUE]
  <2>1. \/ ~call[c].cancelled /\ call' = [call EXCEPT ![c] = m]
        \/ ~call[c].expired /\ call' = [call EXCEPT ![c] = n]
    BY <1>9 DEF SetCancellation, DeadlinePasses, CallsSound
  <2>2. (~call[c].cancelled => Notified(call[c], m)) /\ (~call[c].expired => Notified(call[c], n))
    BY DEF Notified
  <2> HIDE DEF m, n
  <2> QED
    BY <1>2, <2>1, <2>2
<1>10. ASSUME NEW p \in Providers, RecoveryElapses(p) \/ Healthy(p)
       PROVE  FALSE
  BY <1>10 DEF RecoveryElapses, Healthy
<1>11. CASE UNCHANGED routing
  BY <1>11 DEF routing
<1>12. ASSUME NEW c \in Calls, CallOther(c)
       PROVE  Further(call[d], call'[d]) \/ Notified(call[d], call'[d])
  <2> DEFINE n == [call[c] EXCEPT !.pc = "calling"]
  <2>1. call[c].pc = "route" /\ call[c] \in CallType /\ call' = [call EXCEPT ![c] = n]
    BY <1>1, <1>12 DEF CallOther
  <2>2. n.pc = "calling" /\ n.route = call[c].route /\ n.attempt = call[c].attempt /\ n.try = call[c].try
    BY <2>1 DEF CallType
  <2> HIDE DEF n
  <2>3. Further(call[c], n)
    BY <2>1, <2>2 DEF Further, Rank
  <2> QED
    BY <1>2, <2>1, <2>3
<1>13. ASSUME NEW c \in Calls, NEW answer \in Answers \cup {"unavailable"}, AnswerOther(c, answer)
       PROVE  Further(call[d], call'[d]) \/ Notified(call[d], call'[d])
  <2>1. call[c].pc = "calling" /\ call[c] \in CallType
    BY <1>1, <1>13 DEF AnswerOther
  <2>2. PICK n : call' = [call EXCEPT ![c] = n] /\ Further(call[c], n)
    <3>1. Further(call[c], Returned(call[c])) /\ Further(call[c], Unavailable(call[c]))
      BY <2>1, EndedFurther, RetriedFurther DEF Outcomes
    <3>2. \A b \in BOOLEAN : Further(call[c], Retried(call[c], "failure", b))
      BY <2>1, RetriedFurther DEF Outcomes
    <3> QED
      BY <1>13, <3>1, <3>2 DEF AnswerOther
  <2> QED
    BY <1>2, <2>2
<1> QED
  BY <1>3, <1>4, <1>5, <1>6, <1>7, <1>8, <1>9, <1>10, <1>11, <1>12, <1>13 DEF RoutingNext, Progress

(* Retries, fallbacks and pauses lead a call forward only: every step of it   *)
(* takes it to a later route, attempt, try or await, all of which are         *)
(* bounded, or sets one of its two flags; no answer of a provider and no      *)
(* interleaving with other calls sends it back. With the fairness of          *)
(* RoutingFairness, and permits that come back, that is CallsEnd.             *)
THEOREM CallsAdvance ==
  RoutingSpec => [](call \in [Calls -> CallType]) /\ [][AdvanceStep]_routing
<1>1. CallsSound => call \in [Calls -> CallType]
  BY DEF CallsSound
<1> QED
  BY <1>1, CallsAdvanceStep, CallsSoundAlways, PTL DEF RoutingSpec
=============================================================================
