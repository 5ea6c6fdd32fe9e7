----------------------------- MODULE TokenCache -----------------------------
(***************************************************************************)
(* InstallationTokenCache.get and invalidate for one installation: the     *)
(* cached token, the lock around a refresh with its waiters, and the        *)
(* exchange with GitHub, which is the only await while the lock is held.    *)
(***************************************************************************)
EXTENDS Naturals, Sequences, FiniteSets

CONSTANT Getters   \* coroutines that call get

VARIABLES
  cached,   \* the cached token: none, usable, or within early_refresh_seconds
  getting,  \* where each call of get is
  queue     \* calls waiting for the lock, in arrival order

tokens == <<cached, getting, queue>>

Exchanging == {g \in Getters : getting[g] = "exchange"}

TokensTypeOK ==
  /\ cached \in {"none", "usable", "stale"}
  /\ getting \in [Getters -> {"idle", "queued", "exchange", "returned", "raised"}]
  /\ queue \in Seq(Getters)

TokensInit ==
  /\ cached = "none"
  /\ getting = [g \in Getters |-> "idle"]
  /\ queue = <<>>

(* get up to its first await: the fast path, the free lock, or the queue. *)
Get(g) ==
  /\ getting[g] \in {"idle", "returned", "raised"}
  /\ IF cached = "usable"
     THEN getting' = [getting EXCEPT ![g] = "returned"] /\ UNCHANGED queue
     ELSE IF Exchanging = {} /\ queue = <<>>
     THEN getting' = [getting EXCEPT ![g] = "exchange"] /\ UNCHANGED queue
     ELSE getting' = [getting EXCEPT ![g] = "queued"] /\ queue' = Append(queue, g)
  /\ UNCHANGED cached

(* The lock is passed on, and the cache is looked at again. *)
LockedUnchecked(g) ==
  /\ queue # <<>> /\ g = Head(queue) /\ Exchanging = {}
  /\ queue' = Tail(queue)
  /\ getting' = [getting EXCEPT ![g] = "exchange"]
  /\ UNCHANGED cached

Locked(g) ==
  /\ queue # <<>> /\ g = Head(queue) /\ Exchanging = {}
  /\ queue' = Tail(queue)
  /\ getting' = [getting EXCEPT ![g] = IF cached = "usable" THEN "returned" ELSE "exchange"]
  /\ UNCHANGED cached

(* A new token may be short-lived already. *)
ExchangeReturns(g, token) ==
  /\ getting[g] = "exchange"
  /\ cached' = token
  /\ getting' = [getting EXCEPT ![g] = "returned"]
  /\ UNCHANGED queue

(* The exchange raises, or the call is cancelled at either await. *)
GetFailsHeld(g) ==
  /\ getting[g] = "exchange"
  /\ getting' = [getting EXCEPT ![g] = "raised"]
  /\ queue' = SelectSeq(queue, LAMBDA h : h = g)
  /\ UNCHANGED cached

GetFails(g) ==
  /\ getting[g] \in {"queued", "exchange"}
  /\ getting' = [getting EXCEPT ![g] = "raised"]
  /\ queue' = SelectSeq(queue, LAMBDA h : h # g)
  /\ UNCHANGED cached

Invalidate == cached' = "none" /\ UNCHANGED <<getting, queue>>

Ages == cached = "usable" /\ cached' = "stale" /\ UNCHANGED <<getting, queue>>

GetProgress(g) ==
  Locked(g) \/ GetFails(g) \/ \E token \in {"usable", "stale"} : ExchangeReturns(g, token)

TokensNext ==
  \/ \E g \in Getters : Get(g) \/ GetProgress(g)
  \/ Invalidate \/ Ages

TokensSpec == TokensInit /\ [][TokensNext]_tokens

(* The exchange is answered or times out, and asyncio.Lock wakes its        *)
(* waiters in order.                                                        *)
TokensFairness ==
  \A g \in Getters : WF_tokens((Locked(g) \/ (getting[g] = "exchange" /\ GetProgress(g))))

-----------------------------------------------------------------------------
(* docs/github-app.md: concurrent refreshes collapse. One exchange at a     *)
(* time, and none while the cache holds a usable token, however calls,      *)
(* cancellations, invalidations and expiry interleave.                      *)
RefreshesCollapse ==
  /\ Cardinality(Exchanging) <= 1
  /\ Exchanging # {} => cached # "usable"

(* Every call of get ends, also when calls ahead of it fail or are          *)
(* cancelled while they hold or wait for the lock.                          *)
GetsEnd == \A g \in Getters : getting[g] \in {"queued", "exchange"} ~> getting[g] \in {"returned", "raised"}
=============================================================================
