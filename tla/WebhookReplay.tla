---------------------------- MODULE WebhookReplay ----------------------------
(***************************************************************************)
(* WebhookVerifier.verify with its WebhookReplayStore. The clock counts the *)
(* moments the store tells apart; what verify concludes about a request's    *)
(* body, id, signature, payload and repository are inputs.                  *)
(***************************************************************************)
EXTENDS Naturals, Sequences

CONSTANTS
  Deliveries,  \* X-GitHub-Delivery ids
  ttl,         \* WebhookReplayStore.ttl_seconds
  LastSecond   \* bound: the clock

ASSUME ReplayAssumption == ttl \in Nat \ {0} /\ LastSecond \in Nat

VARIABLES
  clock,
  seen,     \* _seen: delivery ids and their expiry
  events    \* history: when each delivery was passed on as an event

webhooks == <<clock, seen, events>>

WebhooksTypeOK ==
  /\ clock \in 0 .. LastSecond
  /\ seen \subseteq [id: Deliveries, expiry: Nat]
  /\ \A s, t \in seen : s.id = t.id => s = t
  /\ events \in [Deliveries -> Seq(0 .. LastSecond)]

WebhooksInit == clock = 0 /\ seen = {} /\ events = [d \in Deliveries |-> <<>>]

(* claim: purge, look up, record. *)
LiveEarly == {s \in seen : s.expiry > clock + 1}
Live == {s \in seen : s.expiry > clock}

Claims(d) == \A s \in Live : s.id # d

(* A delivery with a good length, id and signature; the claim stays when    *)
(* the payload does not parse or names a repository that is not allowed.    *)
Verify(d, sound) ==
  /\ seen' = IF Claims(d) THEN Live \cup {[id |-> d, expiry |-> clock + ttl]} ELSE Live
  /\ events' = IF Claims(d) /\ sound THEN [events EXCEPT ![d] = Append(@, clock)] ELSE events
  /\ UNCHANGED clock

TimePasses == clock < LastSecond /\ clock' = clock + 1 /\ UNCHANGED <<seen, events>>

WebhooksNext == TimePasses \/ \E d \in Deliveries, sound \in BOOLEAN : Verify(d, sound)

WebhooksSpec == WebhooksInit /\ [][WebhooksNext]_webhooks

-----------------------------------------------------------------------------
(* A delivery sent again becomes a second event only when its claim has     *)
(* lived for the whole ttl, whatever was purged or claimed in between. This *)
(* is about one store instance: a restart of the process, which forgets     *)
(* every claim (_seen is in memory), is not modelled.                       *)
ReplaysSpaced ==
  \A d \in Deliveries : \A i \in 1 .. Len(events[d]) - 1 :
    events[d][i + 1] >= events[d][i] + ttl
=============================================================================
