---------------------------- MODULE AdapterProofs ----------------------------
(***************************************************************************)
(* Theorems about the installation token cache, the webhook replay store    *)
(* and the Telegram control surface, for every value of their constants.    *)
(***************************************************************************)
EXTENDS TokenCache, WebhookReplay, TelegramSurface, FiniteSetTheorems, SequenceTheorems, TLAPS

-----------------------------------------------------------------------------
(* TokenCache. *)

Places == {"idle", "queued", "exchange", "returned", "raised"}

(* One exchange at a time, said of calls; the lock is handed on or taken    *)
(* only when nobody exchanges.                                              *)
OneExchange ==
  /\ getting \in [Getters -> Places]
  /\ \A g, h \in Exchanging : g = h
  /\ Exchanging # {} => cached # "usable"

(* No call, failure, cancellation, invalidation or expiry lets a second     *)
(* exchange in.                                                             *)
LEMMA TokensStep == OneExchange /\ [TokensNext]_tokens => OneExchange'
<1> SUFFICES ASSUME OneExchange, [TokensNext]_tokens
             PROVE  OneExchange'
  OBVIOUS
<1> USE DEF OneExchange, Exchanging, Places
<1>1. ASSUME NEW g \in Getters, Get(g)
      PROVE  OneExchange'
  BY <1>1 DEF Get
<1>2. ASSUME NEW g \in Getters, Locked(g)
      PROVE  OneExchange'
  BY <1>2 DEF Locked
<1>3. ASSUME NEW g \in Getters, GetFails(g)
      PROVE  OneExchange'
  BY <1>3 DEF GetFails
<1>4. ASSUME NEW g \in Getters, NEW token \in {"usable", "stale"}, ExchangeReturns(g, token)
      PROVE  OneExchange'
  BY <1>4 DEF ExchangeReturns
<1>5. CASE Invalidate
  BY <1>5 DEF Invalidate
<1>6. CASE Ages
  BY <1>6 DEF Ages
<1>7. CASE UNCHANGED tokens
  BY <1>7 DEF tokens
<1> QED
  BY <1>1, <1>2, <1>3, <1>4, <1>5, <1>6, <1>7 DEF TokensNext, GetProgress

(* Concurrent refreshes of an installation token collapse into one, for any *)
(* number of callers.                                                       *)
THEOREM RefreshesCollapseAlways == TokensSpec => []RefreshesCollapse
<1>1. TokensInit => OneExchange
  BY DEF TokensInit, OneExchange, Exchanging, Places
<1>2. OneExchange => RefreshesCollapse
  <2> SUFFICES ASSUME OneExchange PROVE RefreshesCollapse
    OBVIOUS
  <2>1. CASE Exchanging = {}
    <3>1. Cardinality(Exchanging) = 0
      BY <2>1, FS_EmptySet
    <3> QED
      BY <2>1, <3>1 DEF RefreshesCollapse
  <2>2. CASE Exchanging # {}
    <3>1. PICK g \in Exchanging : TRUE
      BY <2>2
    <3>2. Exchanging = {g}
      BY <3>1 DEF OneExchange
    <3>3. Cardinality(Exchanging) = 1
      BY <3>2, FS_Singleton
    <3> QED
      BY <2>2, <3>3 DEF RefreshesCollapse, OneExchange
  <2> QED
    BY <2>1, <2>2
<1> QED
  BY <1>1, <1>2, TokensStep, PTL DEF TokensSpec

-----------------------------------------------------------------------------
(* WebhookReplay. *)

(* A delivery that became an event is held by a claim of the full ttl, or    *)
(* the ttl has passed.                                                      *)
ClaimHeld ==
  \A d \in Deliveries : \A i \in DOMAIN events[d] :
    \/ events[d][i] + ttl <= clock
    \/ \E s \in seen : s.id = d /\ events[d][i] + ttl <= s.expiry

WebhooksInv ==
  /\ clock \in Nat /\ seen \subseteq [id: Deliveries, expiry: Nat]
  /\ events \in [Deliveries -> Seq(Nat)]
  /\ ClaimHeld /\ ReplaysSpaced

(* Neither a claim, nor a purge, nor the clock breaks the spacing.          *)
LEMMA WebhooksStep == WebhooksInv /\ [WebhooksNext]_webhooks => WebhooksInv'
<1> SUFFICES ASSUME WebhooksInv, [WebhooksNext]_webhooks
             PROVE  WebhooksInv'
  OBVIOUS
<1>0. /\ clock \in Nat /\ seen \subseteq [id: Deliveries, expiry: Nat] /\ ttl \in Nat
      /\ events \in [Deliveries -> Seq(Nat)] /\ ClaimHeld /\ ReplaysSpaced
      /\ \A d \in Deliveries : \A i \in DOMAIN events[d] : events[d][i] \in Nat
  BY ReplayAssumption DEF WebhooksInv
<1>1. CASE TimePasses
  <2>1. clock' = clock + 1 /\ seen' = seen /\ events' = events
    BY <1>1 DEF TimePasses
  <2>2. ClaimHeld'
    BY <1>0, <2>1 DEF ClaimHeld
  <2>3. ReplaysSpaced'
    BY <1>0, <2>1 DEF ReplaysSpaced
  <2> QED
    BY <1>0, <2>1, <2>2, <2>3 DEF WebhooksInv
<1>2. ASSUME NEW d \in Deliveries, NEW sound \in BOOLEAN, Verify(d, sound)
      PROVE  WebhooksInv'
  <2> DEFINE claim == [id |-> d, expiry |-> clock + ttl]
  <2>1. /\ clock' = clock
        /\ seen' = IF Claims(d) THEN Live \cup {claim} ELSE Live
        /\ events' = IF Claims(d) /\ sound
                     THEN [events EXCEPT ![d] = Append(@, clock)] ELSE events
    BY <1>2 DEF Verify
  <2>2. claim \in [id: Deliveries, expiry: Nat] /\ claim.id = d /\ claim.expiry = clock + ttl
    BY <1>0
  <2> HIDE DEF claim
  <2>3. seen' \subseteq [id: Deliveries, expiry: Nat]
    BY <1>0, <2>1, <2>2 DEF Live
  <2>4. \* the purge drops only claims whose ttl is over
        ASSUME NEW e \in Deliveries, NEW i \in DOMAIN events[e]
        PROVE  \/ events[e][i] + ttl <= clock
               \/ \E s \in Live : s.id = e /\ events[e][i] + ttl <= s.expiry
    <3>1. CASE events[e][i] + ttl <= clock
      BY <3>1
    <3>2. ASSUME NEW s \in seen, s.id = e, events[e][i] + ttl <= s.expiry
          PROVE  \/ events[e][i] + ttl <= clock
                 \/ s \in Live
      <4>1. s.expiry \in Nat /\ events[e][i] \in Nat
        BY <1>0, <3>2
      <4> QED
        BY <1>0, <3>2, <4>1 DEF Live
    <3> QED
      BY <1>0, <3>1, <3>2 DEF ClaimHeld
  <2>5. CASE ~(Claims(d) /\ sound)
    <3>1. events' = events
      BY <2>1, <2>5
    <3>2. ClaimHeld'
      <4> SUFFICES ASSUME NEW e \in Deliveries, NEW i \in DOMAIN events[e]
                   PROVE  \/ events[e][i] + ttl <= clock
                          \/ \E s \in seen' : s.id = e /\ events[e][i] + ttl <= s.expiry
        BY <2>1, <3>1 DEF ClaimHeld
      <4>1. Live \subseteq seen'
        BY <2>1
      <4> QED
        BY <2>4, <4>1
    <3>3. ReplaysSpaced'
      BY <1>0, <3>1 DEF ReplaysSpaced
    <3> QED
      BY <1>0, <2>1, <2>3, <3>1, <3>2, <3>3 DEF WebhooksInv
  <2>6. CASE Claims(d) /\ sound
    <3> DEFINE n == Len(events[d])
    <3>1. events' = [events EXCEPT ![d] = Append(@, clock)] /\ seen' = Live \cup {claim}
      BY <2>1, <2>6
    <3>2. /\ n \in Nat /\ DOMAIN events[d] = 1 .. n
          /\ events'[d] \in Seq(Nat) /\ Len(events'[d]) = n + 1
          /\ DOMAIN events'[d] = 1 .. n + 1
          /\ events'[d][n + 1] = clock
          /\ \A i \in 1 .. n : events'[d][i] = events[d][i]
      BY <1>0, <3>1
    <3>3. \A e \in Deliveries : e # d => events'[e] = events[e]
      BY <1>0, <3>1
    <3>4. events' \in [Deliveries -> Seq(Nat)]
      BY <1>0, <3>1
    <3>5. \* no live claim of d: the ttl of its events has passed
          \A i \in 1 .. n : events[d][i] + ttl <= clock
      <4> SUFFICES ASSUME NEW i \in 1 .. n PROVE events[d][i] + ttl <= clock
        OBVIOUS
      <4> QED
        BY <2>4, <2>6, <3>2 DEF Claims
    <3> HIDE DEF n
    <3>6. ClaimHeld'
      <4> SUFFICES ASSUME NEW e \in Deliveries, NEW i \in DOMAIN events'[e]
                   PROVE  \/ events'[e][i] + ttl <= clock
                          \/ \E s \in seen' : s.id = e /\ events'[e][i] + ttl <= s.expiry
        BY <2>1 DEF ClaimHeld
      <4>1. CASE e # d
        <5>1. events'[e] = events[e]
          BY <3>3, <4>1
        <5> QED
          BY <2>4, <3>1, <5>1
      <4>2. CASE e = d /\ i # n + 1
        BY <3>2, <3>5, <4>2
      <4>3. CASE e = d /\ i = n + 1
        <5>1. claim \in seen' /\ claim.id = e
          BY <2>2, <3>1, <4>3
        <5>2. events'[e][i] + ttl <= claim.expiry
          BY <1>0, <2>2, <3>2, <4>3
        <5> QED
          BY <5>1, <5>2
      <4> QED
        BY <4>1, <4>2, <4>3
    <3>7. ReplaysSpaced'
      <4> SUFFICES ASSUME NEW e \in Deliveries, NEW i \in 1 .. Len(events'[e]) - 1
                   PROVE  events'[e][i + 1] >= events'[e][i] + ttl
        BY DEF ReplaysSpaced
      <4>1. CASE e # d
        <5>1. events'[e] = events[e]
          BY <3>3, <4>1
        <5> QED
          BY <1>0, <5>1 DEF ReplaysSpaced
      <4>2. CASE e = d /\ i # n
        <5>1. i \in 1 .. n - 1 /\ i + 1 \in 1 .. n /\ i \in 1 .. n
          BY <3>2, <4>2
        <5>2. events[d][i + 1] >= events[d][i] + ttl
          BY <1>0, <5>1 DEF ReplaysSpaced, n
        <5> QED
          BY <3>2, <4>2, <5>1, <5>2
      <4>3. CASE e = d /\ i = n
        <5>1. events[d][i] + ttl <= clock /\ events'[d][i] = events[d][i] /\ events[d][i] \in Nat
          <6>1. i \in 1 .. n /\ i \in DOMAIN events[d]
            BY <3>2, <4>3
          <6> QED
            BY <1>0, <3>2, <3>5, <6>1
        <5> QED
          BY <1>0, <3>2, <4>3, <5>1
      <4> QED
        BY <4>1, <4>2, <4>3
    <3> QED
      BY <1>0, <2>1, <2>3, <3>4, <3>6, <3>7 DEF WebhooksInv
  <2> QED
    BY <2>5, <2>6
<1>3. CASE UNCHANGED webhooks
  <2>1. clock' = clock /\ seen' = seen /\ events' = events
    BY <1>3 DEF webhooks
  <2>2. ClaimHeld'
    BY <1>0, <2>1 DEF ClaimHeld
  <2>3. ReplaysSpaced'
    BY <1>0, <2>1 DEF ReplaysSpaced
  <2> QED
    BY <1>0, <2>1, <2>2, <2>3 DEF WebhooksInv
<1> QED
  BY <1>1, <1>2, <1>3 DEF WebhooksNext

(* A repeated webhook delivery becomes an event again only a full ttl       *)
(* later, for any ttl, any number of deliveries and any run of the clock.   *)
THEOREM ReplaysSpacedAlways == WebhooksSpec => []ReplaysSpaced
<1>1. WebhooksInit => WebhooksInv
  BY DEF WebhooksInit, WebhooksInv, ClaimHeld, ReplaysSpaced
<1>2. WebhooksInv => ReplaysSpaced
  BY DEF WebhooksInv
<1> QED
  BY <1>1, <1>2, WebhooksStep, PTL DEF WebhooksSpec

-----------------------------------------------------------------------------
(* TelegramSurface. *)

Memory ==
  [updates: SUBSET Updates, order: Seq(Updates),
   rates: [Identities -> Seq(Nat)], used: SUBSET Nonces]

Receipt == [update: Updates, time: Nat, allowed: BOOLEAN]

SurfaceTyped ==
  /\ time \in Nat
  /\ memory \in Memory
  /\ handler \in [Updates -> [pc: {"none", "execute", "decide", "reply", "done"}, tries: Nat]]
  /\ expires \in [Nonces -> Nat]
  /\ handled \in Seq(Receipt)
  /\ decided \in [Nonces -> Nat]
  /\ lives \in Nat

(* What the popped prefix of a bucket leaves. *)
LEMMA PurgedShape ==
  ASSUME NEW bucket \in Seq(Nat), time \in Nat
  PROVE  /\ Cardinality(Outdated(bucket, time)) \in 0 .. Len(bucket)
         /\ Purged(bucket) \in Seq(Nat)
<1> DEFINE gone == Outdated(bucket, time)
           c == Cardinality(gone)
<1>1. Len(bucket) \in Nat /\ DOMAIN bucket = 1 .. Len(bucket)
  OBVIOUS
<1>2. IsFiniteSet(1 .. Len(bucket)) /\ Cardinality(1 .. Len(bucket)) = Len(bucket)
  <2>1. 1 \in Int /\ Len(bucket) \in Int
    BY <1>1
  <2>2. /\ IsFiniteSet(1 .. Len(bucket))
        /\ Cardinality(1 .. Len(bucket)) = IF 1 > Len(bucket) THEN 0 ELSE Len(bucket) - 1 + 1
    BY <2>1, FS_Interval
  <2> QED
    BY <1>1, <2>2
<1>3. gone \in SUBSET (1 .. Len(bucket))
  BY <1>1 DEF Outdated
<1>4. c \in 0 .. Len(bucket)
  BY <1>1, <1>2, <1>3, FS_Subset, FS_CardinalityType
<1>5. Purged(bucket) = SubSeq(bucket, c + 1, Len(bucket))
  BY DEF Purged
<1> HIDE DEF c
<1>6. SubSeq(bucket, c + 1, Len(bucket)) \in Seq(Nat)
  BY <1>1, <1>4
<1> QED
  BY <1>4, <1>5, <1>6 DEF c

(* _remember touches the two update collections only. *)
LEMMA RememberedShape ==
  ASSUME NEW m \in Memory, NEW u \in Updates, maxlen \in Nat \ {0}
  PROVE  LET r == Remembered(m, u) IN
         /\ r \in Memory
         /\ r.rates = m.rates /\ r.used = m.used
         /\ r.order = Append(IF Len(m.order) = maxlen THEN Tail(m.order) ELSE m.order, u)
         /\ r.updates = (IF Len(m.order) = maxlen THEN m.updates \ {Head(m.order)} ELSE m.updates)
                          \cup {u}
<1> DEFINE r == Remembered(m, u)
<1>1. /\ m.updates \in SUBSET Updates /\ m.order \in Seq(Updates)
      /\ m.rates \in [Identities -> Seq(Nat)] /\ m.used \in SUBSET Nonces
      /\ m = [updates |-> m.updates, order |-> m.order, rates |-> m.rates, used |-> m.used]
  BY DEF Memory
<1> DEFINE q == Append(IF Len(m.order) = maxlen THEN Tail(m.order) ELSE m.order, u)
           s == (IF Len(m.order) = maxlen THEN m.updates \ {Head(m.order)} ELSE m.updates) \cup {u}
<1>2. q \in Seq(Updates)
  <2>1. CASE Len(m.order) = maxlen
    <3>1. m.order # <<>>
      BY <1>1, <2>1
    <3>2. Tail(m.order) \in Seq(Updates)
      BY <1>1, <3>1
    <3> QED
      BY <2>1, <3>2
  <2>2. CASE Len(m.order) # maxlen
    BY <1>1, <2>2
  <2> QED
    BY <2>1, <2>2
<1>3. s \in SUBSET Updates
  BY <1>1
<1>4. r = [m EXCEPT !.order = q, !.updates = s]
  BY DEF Remembered
<1> HIDE DEF q, s
<1>5. r = [updates |-> s, order |-> q, rates |-> m.rates, used |-> m.used]
  BY <1>1, <1>4
<1>6. r \in Memory /\ r.rates = m.rates /\ r.used = m.used /\ r.order = q /\ r.updates = s
  BY <1>1, <1>2, <1>3, <1>5 DEF Memory
<1> QED
  BY <1>6 DEF q, s

(* A bucket is purged, and charged when it has room; nothing else changes. *)
LEMMA ChargedShape ==
  ASSUME NEW m \in Memory, NEW identity \in Identities, time \in Nat
  PROVE  LET c == Charged(m, identity)
             p == Purged(m.rates[identity]) IN
         /\ c \in Memory
         /\ c.updates = m.updates /\ c.order = m.order /\ c.used = m.used
         /\ c.rates[identity] = IF HasRoom(m, identity) THEN Append(p, time) ELSE p
         /\ \A other \in Identities : other # identity => c.rates[other] = m.rates[other]
<1> DEFINE c == Charged(m, identity)
           p == Purged(m.rates[identity])
           b == IF HasRoom(m, identity) THEN Append(p, time) ELSE p
<1>1. /\ m.updates \in SUBSET Updates /\ m.order \in Seq(Updates)
      /\ m.rates \in [Identities -> Seq(Nat)] /\ m.used \in SUBSET Nonces
      /\ m = [updates |-> m.updates, order |-> m.order, rates |-> m.rates, used |-> m.used]
  BY DEF Memory
<1>2. p \in Seq(Nat)
  BY <1>1, PurgedShape
<1>3. b \in Seq(Nat)
  BY <1>2
<1>4. c = [m EXCEPT !.rates = [m.rates EXCEPT ![identity] = b]]
  BY <1>1 DEF Charged
<1> HIDE DEF b
<1> DEFINE rates == [m.rates EXCEPT ![identity] = b]
<1>5. /\ rates \in [Identities -> Seq(Nat)] /\ rates[identity] = b
      /\ \A other \in Identities : other # identity => rates[other] = m.rates[other]
  BY <1>1, <1>3
<1>6. c = [m EXCEPT !.rates = rates]
  BY <1>4
<1> HIDE DEF rates
<1>7. c = [updates |-> m.updates, order |-> m.order, rates |-> rates, used |-> m.used]
  BY <1>1, <1>6
<1>8. c \in Memory /\ c.updates = m.updates /\ c.order = m.order /\ c.used = m.used /\ c.rates = rates
  BY <1>1, <1>5, <1>7 DEF Memory
<1> QED
  BY <1>5, <1>8 DEF b

(* What _allow leaves of a bucket; when it allows, both buckets had room    *)
(* and both are charged.                                                    *)
Bucketed(before, after, allow) ==
  /\ after \in {before, Purged(before), Append(Purged(before), time)}
  /\ allow => after = Append(Purged(before), time) /\ Len(Purged(before)) < rate_limit

(* _allow, for a user and the chat. *)
LEMMA AllowedShape ==
  ASSUME NEW m \in Memory, NEW user \in Users, Chat \notin Users, time \in Nat
  PROVE  LET a == Allowed(m, user) IN
         /\ a \in Memory
         /\ a.updates = m.updates /\ a.order = m.order /\ a.used = m.used
         /\ \A identity \in Identities :
              Bucketed(m.rates[identity], a.rates[identity],
                       Allow(m, user) /\ identity \in {user, Chat})
<1>0. user \in Identities /\ Chat \in Identities /\ user # Chat
  BY DEF Identities
<1>1. PICK c : c = Charged(m, user)
  OBVIOUS
<1>2. /\ c \in Memory
      /\ c.updates = m.updates /\ c.order = m.order /\ c.used = m.used
      /\ c.rates[user] = IF HasRoom(m, user) THEN Append(Purged(m.rates[user]), time)
                                             ELSE Purged(m.rates[user])
      /\ \A other \in Identities : other # user => c.rates[other] = m.rates[other]
  BY <1>0, <1>1, ChargedShape
<1>3. CASE ~HasRoom(m, user)
  <2>1. Allowed(m, user) = c /\ ~Allow(m, user)
    BY <1>1, <1>3 DEF Allowed, Allow
  <2> QED
    BY <1>2, <1>3, <2>1 DEF Bucketed
<1>4. CASE HasRoom(m, user)
  <2>1. PICK d : d = Charged(c, Chat)
    OBVIOUS
  <2>2. /\ d \in Memory
        /\ d.updates = c.updates /\ d.order = c.order /\ d.used = c.used
        /\ d.rates[Chat] = IF HasRoom(c, Chat) THEN Append(Purged(c.rates[Chat]), time)
                                               ELSE Purged(c.rates[Chat])
        /\ \A other \in Identities : other # Chat => d.rates[other] = c.rates[other]
    BY <1>0, <1>2, <2>1, ChargedShape
  <2>3. Allowed(m, user) = d
    BY <1>1, <1>4, <2>1 DEF Allowed
  <2>4. c.rates[Chat] = m.rates[Chat] /\ (HasRoom(c, Chat) <=> HasRoom(m, Chat))
    BY <1>0, <1>2 DEF HasRoom
  <2>5. ASSUME NEW identity \in Identities
        PROVE  Bucketed(m.rates[identity], d.rates[identity],
                        Allow(m, user) /\ identity \in {user, Chat})
    <3>1. CASE identity = user
      <4>1. d.rates[user] = Append(Purged(m.rates[user]), time)
        BY <1>0, <1>2, <1>4, <2>2
      <4> QED
        BY <1>4, <3>1, <4>1 DEF Bucketed, HasRoom
    <3>2. CASE identity = Chat
      <4>1. d.rates[Chat] = IF HasRoom(m, Chat) THEN Append(Purged(m.rates[Chat]), time)
                                                ELSE Purged(m.rates[Chat])
        BY <2>2, <2>4
      <4> QED
        BY <3>2, <4>1 DEF Bucketed, Allow, HasRoom
    <3>3. CASE identity # user /\ identity # Chat
      <4>1. d.rates[identity] = m.rates[identity]
        BY <1>2, <2>2, <3>3
      <4> QED
        BY <3>3, <4>1 DEF Bucketed
    <3> QED
      BY <3>1, <3>2, <3>3
  <2> QED
    BY <1>2, <2>2, <2>3, <2>5
<1> QED
  BY <1>3, <1>4

(* Everything handle does before its first await, in one place: the         *)
(* receipt, and what becomes of each of the four memories.                  *)
LEMMA HandleShape ==
  ASSUME SurfaceTyped, SurfaceAssumption, NEW u \in Updates, Handle(u)
  PROVE  \E allow \in BOOLEAN :
           /\ handled' = Append(handled, [update |-> u, time |-> time, allowed |-> allow])
           /\ memory' \in Memory
           /\ memory'.order = Append(IF Len(memory.order) = maxlen THEN Tail(memory.order)
                                                                   ELSE memory.order, u)
           /\ memory'.updates = (IF Len(memory.order) = maxlen
                                   THEN memory.updates \ {Head(memory.order)}
                                   ELSE memory.updates) \cup {u}
           /\ \A identity \in Identities :
                Bucketed(memory.rates[identity], memory'.rates[identity],
                         allow /\ identity \in {Inbox[u].user, Chat})
           /\ \/ /\ memory'.used = memory.used
                 /\ \E pc \in {"execute", "reply", "done"} : Moved(u, pc)
              \/ /\ Inbox[u].nonce \in Nonces /\ Signed(Inbox[u].nonce)
                 /\ memory'.used = Used(memory) \cup {Inbox[u].nonce}
                 /\ \/ Moved(u, "reply")
                    \/ Inbox[u].nonce \notin Used(memory) /\ Moved(u, "decide")
<1> DEFINE user == Inbox[u].user
           kind == Inbox[u].kind
           nonce == Inbox[u].nonce
<1>1. PICK known : known = Remembered(memory, u)
  OBVIOUS
<1>2. PICK allow \in BOOLEAN : allow = (Role[user] # Nil /\ Allow(known, user))
  OBVIOUS
<1>3. PICK charged : charged = IF Role[user] # Nil THEN Allowed(known, user) ELSE known
  OBVIOUS
<1>4. /\ user \in Users /\ Chat \notin Users /\ maxlen \in Nat \ {0}
      /\ kind = "callback" => nonce \in Nonces
  BY DEF SurfaceAssumption, Nonces
<1>5. memory \in Memory /\ time \in Nat
  BY DEF SurfaceTyped
<1>6. /\ known \in Memory
      /\ known.rates = memory.rates /\ known.used = memory.used
      /\ known.order = Append(IF Len(memory.order) = maxlen THEN Tail(memory.order)
                                                            ELSE memory.order, u)
      /\ known.updates = (IF Len(memory.order) = maxlen
                            THEN memory.updates \ {Head(memory.order)}
                            ELSE memory.updates) \cup {u}
  BY <1>1, <1>4, <1>5, RememberedShape
<1>7. /\ charged \in Memory
      /\ charged.updates = known.updates /\ charged.order = known.order
      /\ charged.used = known.used
      /\ \A identity \in Identities :
           Bucketed(memory.rates[identity], charged.rates[identity], allow /\ identity \in {user, Chat})
  <2>1. CASE Role[user] = Nil
    BY <1>2, <1>3, <1>6, <2>1 DEF Bucketed
  <2>2. CASE Role[user] # Nil
    <3>1. charged = Allowed(known, user) /\ allow = Allow(known, user)
      BY <1>2, <1>3, <2>2 DEF Allow
    <3>2. /\ charged \in Memory
          /\ charged.updates = known.updates /\ charged.order = known.order
          /\ charged.used = known.used
          /\ \A identity \in Identities :
               Bucketed(known.rates[identity], charged.rates[identity],
                        Allow(known, user) /\ identity \in {user, Chat})
      BY <1>4, <1>5, <1>6, <3>1, AllowedShape
    <3> QED
      BY <1>6, <3>1, <3>2
  <2> QED
    BY <2>1, <2>2
<1>8. Used(charged) = Used(memory)
  BY <1>6, <1>7 DEF Used
<1>9. /\ handled' = Append(handled, [update |-> u, time |-> time, allowed |-> allow])
      /\ memory' = IF allow /\ kind = "callback" THEN Spent(charged, nonce) ELSE charged
      /\ \/ Role[user] = Nil /\ Moved(u, "done")
         \/ Role[user] # Nil /\ ~allow /\ Moved(u, "reply")
         \/ /\ allow /\ kind = "callback"
            /\ Moved(u, IF Verified(charged, nonce) /\ Permitted(user, "approve")
                        THEN "decide" ELSE "reply")
         \/ /\ allow /\ kind # "callback"
            /\ Moved(u, IF kind # "text" /\ Permitted(user, kind) THEN "execute" ELSE "reply")
  BY <1>1, <1>2, <1>3 DEF Handle
<1>10. CASE allow /\ kind = "callback" /\ Signed(nonce)
  <2>1. memory' = [charged EXCEPT !.used = Used(memory) \cup {nonce}]
    BY <1>8, <1>9, <1>10 DEF Spent
  <2>2. nonce \in Nonces
    BY <1>4, <1>10
  <2> DEFINE used == Used(memory) \cup {nonce}
  <2>3. used \in SUBSET Nonces
    BY <1>5, <2>2 DEF Used, Memory
  <2>4. memory' = [charged EXCEPT !.used = used]
    BY <2>1
  <2> HIDE DEF used
  <2>5. /\ memory' \in Memory
        /\ memory'.updates = charged.updates /\ memory'.order = charged.order
        /\ memory'.rates = charged.rates /\ memory'.used = used
    BY <1>7, <2>3, <2>4 DEF Memory
  <2>6. \/ Moved(u, "reply")
        \/ nonce \notin Used(memory) /\ Moved(u, "decide")
    BY <1>2, <1>8, <1>9, <1>10 DEF Verified
  <2>7. memory'.used = Used(memory) \cup {nonce}
    BY <2>5 DEF used
  <2> HIDE DEF user, kind, nonce
  <2>8. \A identity \in Identities :
          Bucketed(memory.rates[identity], memory'.rates[identity], allow /\ identity \in {user, Chat})
    BY <1>7, <2>5
  <2>9. memory'.order = known.order /\ memory'.updates = known.updates
    BY <1>7, <2>5
  <2> QED
    BY <1>6, <1>9, <1>10, <2>2, <2>5, <2>6, <2>7, <2>8, <2>9 DEF user, nonce
<1>11. CASE ~(allow /\ kind = "callback" /\ Signed(nonce))
  <2>1. memory' = charged
    BY <1>9, <1>11 DEF Spent
  <2>2. Moved(u, "execute") \/ Moved(u, "reply") \/ Moved(u, "done")
    BY <1>2, <1>9, <1>11 DEF Verified
  <2> QED
    BY <1>6, <1>7, <1>9, <2>1, <2>2
<1> QED
  BY <1>10, <1>11

(* The bounds of the instance aside, the surface is well typed. *)
LEMMA SurfaceTypedStep ==
  ASSUME SurfaceTyped, SurfaceAssumption, [SurfaceNext]_surface
  PROVE  SurfaceTyped'
<1> USE DEF SurfaceTyped
<1>1. ASSUME NEW u \in Updates, Handle(u)
      PROVE  SurfaceTyped'
  <2>1. PICK allow \in BOOLEAN :
          handled' = Append(handled, [update |-> u, time |-> time, allowed |-> allow])
    BY <1>1, HandleShape
  <2>2. [update |-> u, time |-> time, allowed |-> allow] \in Receipt
    BY DEF Receipt
  <2>3. handled' \in Seq(Receipt)
    BY <2>1, <2>2
  <2>4. memory' \in Memory
    BY <1>1, HandleShape
  <2>5. \E pc \in {"execute", "decide", "reply", "done"} : Moved(u, pc)
    BY <1>1 DEF Handle
  <2> QED
    BY <1>1, <2>3, <2>4, <2>5 DEF Handle, Moved
<1>2. ASSUME NEW u \in Updates, Execute(u)
      PROVE  SurfaceTyped'
  <2>1. \E pc \in {"reply", "done"} : Moved(u, pc)
    BY <1>2 DEF Execute
  <2>2. UNCHANGED <<time, memory, expires, closing, handled, decided, lives>>
    BY <1>2 DEF Execute
  <2> QED
    BY <2>1, <2>2 DEF Moved
<1>3. ASSUME NEW u \in Updates, Decide(u)
      PROVE  SurfaceTyped'
  BY <1>3 DEF Decide, Moved
<1>4. ASSUME NEW u \in Updates, NEW flooded \in BOOLEAN, Reply(u, flooded)
      PROVE  SurfaceTyped'
  <2>1. UNCHANGED <<time, memory, expires, closing, handled, decided, lives>>
    BY <1>4 DEF Reply
  <2>2. PICK h : h = handler[u]
    OBVIOUS
  <2>3. h.pc \in {"none", "execute", "decide", "reply", "done"} /\ h.tries \in Nat
    BY <2>2
  <2>4. \E k \in Nat : \E pc \in {"none", "execute", "decide", "reply", "done"} :
          handler' = [handler EXCEPT ![u] = [pc |-> pc, tries |-> k]]
    <3>1. CASE flooded /\ MayRetry(u)
      <4>1. handler' = [handler EXCEPT ![u].tries = @ + 1]
        BY <1>4, <3>1 DEF Reply
      <4>2. handler' = [handler EXCEPT ![u] = [pc |-> h.pc, tries |-> h.tries + 1]]
        <5>1. h = [pc |-> h.pc, tries |-> h.tries]
          BY <2>2
        <5>2. [h EXCEPT !.tries = @ + 1] = [pc |-> h.pc, tries |-> h.tries + 1]
          BY <5>1
        <5> QED
          BY <2>2, <4>1, <5>2
      <4>3. h.tries + 1 \in Nat
        BY <2>3
      <4> QED
        BY <2>3, <4>2, <4>3, Zenon
    <3>2. CASE ~(flooded /\ MayRetry(u))
      BY <1>4, <3>2 DEF Reply, Moved
    <3> QED
      BY <3>1, <3>2
  <2> QED
    BY <2>1, <2>4
<1>5. ASSUME NEW n \in Nonces, Sign(n)
      PROVE  SurfaceTyped'
  BY <1>5 DEF Sign, SurfaceAssumption
<1>6. CASE TimeAdvances
  BY <1>6 DEF TimeAdvances
<1>7. CASE Shutdown
  BY <1>7 DEF Shutdown
<1>8. CASE Restart
  BY <1>8 DEF Restart, Fresh, Memory
<1>9. CASE UNCHANGED surface
  BY <1>9 DEF surface
<1> QED
  BY <1>1, <1>2, <1>3, <1>4, <1>5, <1>6, <1>7, <1>8, <1>9 DEF SurfaceNext, Handling

(* Every other action leaves the receipts and the memory alone, or empties  *)
(* both; the clock never goes back.                                         *)
LEMMA SurfaceFrame ==
  ASSUME [SurfaceNext]_surface
  PROVE  \/ \E u \in Updates : Handle(u)
         \/ handled' = handled /\ memory' = memory /\ time' \in {time, time + 1}
         \/ Restart
BY DEF SurfaceNext, Handling, Execute, Decide, Reply, Sign, TimeAdvances, Shutdown, surface

-----------------------------------------------------------------------------
(* The bounded queue is the newest stretch of the receipts, and the set     *)
(* that is asked holds what the queue holds.                                *)
UpdatesInv ==
  LET order == memory.order
      n == Len(order)
      L == Len(handled)
  IN  /\ n <= maxlen /\ n <= L
      /\ n = maxlen \/ n = L
      /\ \A i \in 1 .. n : order[i] = handled[L - n + i].update
      /\ memory.updates = {order[i] : i \in 1 .. n}
      /\ UpdatesOnce

(* The new update is younger than everything remembered. *)
LEMMA UpdatesStep ==
  ASSUME SurfaceTyped, SurfaceAssumption, UpdatesInv, [SurfaceNext]_surface
  PROVE  UpdatesInv'
<1>1. ASSUME NEW u \in Updates, Handle(u)
      PROVE  UpdatesInv'
  <2> DEFINE order == memory.order
             n == Len(order)
             L == Len(handled)
             full == n = maxlen
             base == IF full THEN Tail(order) ELSE order
             k == IF full THEN n - 1 ELSE n
  <2>1. /\ order \in Seq(Updates) /\ n \in Nat /\ L \in Nat /\ maxlen \in Nat /\ maxlen > 0
        /\ handled \in Seq(Receipt)
        /\ memory.updates \in SUBSET Updates
    BY DEF SurfaceTyped, Memory, SurfaceAssumption
  <2>2. /\ n <= maxlen /\ n <= L /\ (n = maxlen \/ n = L)
        /\ \A i \in 1 .. n : order[i] = handled[L - n + i].update
        /\ memory.updates = {order[i] : i \in 1 .. n}
        /\ UpdatesOnce
    BY DEF UpdatesInv
  <2>3. PICK r \in Receipt : handled' = Append(handled, r) /\ r.update = u
    <3>1. PICK allow \in BOOLEAN :
            handled' = Append(handled, [update |-> u, time |-> time, allowed |-> allow])
      BY <1>1, HandleShape
    <3>2. [update |-> u, time |-> time, allowed |-> allow] \in Receipt
      BY DEF Receipt, SurfaceTyped
    <3> QED
      BY <3>1, <3>2
  <2>4. /\ memory'.order = Append(base, u)
        /\ memory'.updates = (IF full THEN memory.updates \ {Head(order)} ELSE memory.updates) \cup {u}
    BY <1>1, HandleShape
  <2>5. u \notin memory.updates
    BY <1>1 DEF Handle
  <2>6. /\ Len(handled') = L + 1 /\ handled'[L + 1].update = u
        /\ DOMAIN handled' = 1 .. L + 1 /\ DOMAIN handled = 1 .. L
        /\ \A i \in 1 .. L : handled'[i] = handled[i]
    BY <2>1, <2>3
  <2>7. /\ base \in Seq(Updates) /\ Len(base) = k /\ k \in Nat
        /\ \A i \in 1 .. k : base[i] = order[IF full THEN i + 1 ELSE i]
    BY <2>1
  <2>8. /\ Len(memory'.order) = k + 1 /\ memory'.order[k + 1] = u
        /\ \A i \in 1 .. k : memory'.order[i] = order[IF full THEN i + 1 ELSE i]
    <3> HIDE DEF base, k
    <3> QED
      BY <2>4, <2>7
  <2>9. Head(order) = order[1]
    BY <2>1
  <2> HIDE DEF order, n, L, base
  <2>10. \A i, j \in 1 .. L : i < j /\ handled[i].update = handled[j].update => j - i > maxlen
    BY <2>2, <2>6 DEF UpdatesOnce
  <2>11. UpdatesOnce'
    <3> SUFFICES ASSUME NEW i \in 1 .. L + 1, NEW j \in 1 .. L + 1,
                        i < j, handled'[i].update = handled'[j].update
                 PROVE  j - i > maxlen
      BY <2>6 DEF UpdatesOnce
    <3>1. CASE j # L + 1
      <4>1. i \in 1 .. L /\ j \in 1 .. L
        <5>1. L \in Nat
          BY <2>1
        <5> QED
          BY <3>1, <5>1
      <4>2. handled[i].update = handled[j].update
        BY <2>6, <4>1
      <4> QED
        BY <2>10, <4>1, <4>2
    <3>2. CASE j = L + 1
      <4>1. i \in 1 .. L /\ handled[i].update = u
        BY <2>1, <2>6, <3>2
      <4>2. ~(i > L - n)
        <5> SUFFICES ASSUME i > L - n PROVE FALSE
          OBVIOUS
        <5>1. i - (L - n) \in 1 .. n /\ L - n + (i - (L - n)) = i
          BY <2>1, <2>2, <4>1
        <5>2. order[i - (L - n)] = u
          BY <2>2, <4>1, <5>1
        <5> QED
          BY <2>2, <2>5, <5>1, <5>2
      <4> QED
        BY <2>1, <2>2, <3>2, <4>1, <4>2
    <3> QED
      BY <3>1, <3>2
  <2>12. \A i \in 1 .. k + 1 : memory'.order[i] = handled'[(L + 1) - (k + 1) + i].update
    <3> SUFFICES ASSUME NEW i \in 1 .. k + 1
                 PROVE  memory'.order[i] = handled'[L - k + i].update
      <4> HIDE DEF k
      <4>1. \A i \in 1 .. k + 1 : (L + 1) - (k + 1) + i = L - k + i
        BY <2>1, <2>7
      <4> QED
        BY <4>1
    <3>1. CASE i = k + 1
      <4>1. L - k + i = L + 1
        BY <2>1, <2>7, <3>1
      <4> QED
        BY <2>6, <2>8, <3>1, <4>1
    <3>2. CASE i \in 1 .. k
      <4> DEFINE at == IF full THEN i + 1 ELSE i
      <4>1. at \in 1 .. n /\ L - n + at = L - k + i /\ L - k + i \in 1 .. L
        BY <2>1, <2>2, <3>2
      <4>2. memory'.order[i] = order[at]
        BY <2>8, <3>2
      <4> HIDE DEF at
      <4> QED
        BY <2>2, <2>6, <4>1, <4>2
    <3> QED
      BY <2>7, <3>1, <3>2
  <2>13. memory'.updates = {memory'.order[i] : i \in 1 .. k + 1}
    <3>1. CASE ~full
      <4>1. k = n /\ memory'.updates = memory.updates \cup {u}
        BY <2>4, <3>1
      <4>2. \A i \in 1 .. k : memory'.order[i] = order[i]
        BY <2>8, <3>1
      <4> HIDE DEF k
      <4>3. 1 .. k + 1 = (1 .. k) \cup {k + 1}
        BY <2>7
      <4>4. {memory'.order[i] : i \in 1 .. k + 1} = {memory'.order[i] : i \in 1 .. k} \cup {u}
        BY <2>8, <4>3
      <4>5. {memory'.order[i] : i \in 1 .. k} = {order[i] : i \in 1 .. k}
        BY <4>2
      <4> QED
        BY <2>2, <4>1, <4>4, <4>5
    <3>2. CASE full
      <4>1. k = n - 1 /\ n >= 1 /\ memory'.updates = (memory.updates \ {order[1]}) \cup {u}
        BY <2>1, <2>4, <2>9, <3>2
      <4>2. \A i \in 1 .. k : memory'.order[i] = order[i + 1]
        BY <2>8, <3>2
      <4> HIDE DEF k
      <4>3. \A i \in 1 .. k : order[i + 1] # order[1]
        <5> SUFFICES ASSUME NEW i \in 1 .. k, order[i + 1] = order[1] PROVE FALSE
          OBVIOUS
        <5>1. i + 1 \in 1 .. n /\ 1 \in 1 .. n
          BY <2>1, <2>7, <4>1
        <5>2. handled[L - n + (i + 1)].update = handled[L - n + 1].update
          BY <2>2, <5>1
        <5>3. L - n + (i + 1) \in 1 .. L /\ L - n + 1 \in 1 .. L
          BY <2>1, <2>2, <5>1
        <5>4. i > maxlen
          <6> DEFINE a == L - n + 1
                     b == L - n + (i + 1)
          <6>1. a < b
            BY <2>1, <2>7
          <6> HIDE DEF a, b
          <6>2. b - a > maxlen
            BY <2>10, <5>2, <5>3, <6>1 DEF a, b
          <6> QED
            BY <2>1, <2>7, <6>2 DEF a, b
        <5> QED
          BY <2>1, <2>2, <2>7, <4>1, <5>4
      <4>4. \A x : x \in memory.updates \ {order[1]} <=> \E i \in 1 .. k : x = order[i + 1]
        <5>1. ASSUME NEW x \in memory.updates, x # order[1]
              PROVE  \E i \in 1 .. k : x = order[i + 1]
          <6>1. PICK j \in 1 .. n : x = order[j]
            BY <2>2
          <6>2. j - 1 \in 1 .. k /\ (j - 1) + 1 = j
            BY <2>1, <2>7, <4>1, <5>1, <6>1
          <6> QED
            BY <6>1, <6>2
        <5>2. ASSUME NEW i \in 1 .. k
              PROVE  order[i + 1] \in memory.updates
          BY <2>1, <2>2, <2>7, <4>1
        <5> QED
          BY <4>3, <5>1, <5>2
      <4>5. 1 .. k + 1 = (1 .. k) \cup {k + 1}
        BY <2>7
      <4>6. {memory'.order[i] : i \in 1 .. k + 1} = {memory'.order[i] : i \in 1 .. k} \cup {u}
        BY <2>8, <4>5
      <4>7. {memory'.order[i] : i \in 1 .. k} = memory.updates \ {order[1]}
        BY <4>2, <4>4
      <4> QED
        BY <4>1, <4>6, <4>7
    <3> QED
      BY <3>1, <3>2
  <2>14. k + 1 <= maxlen /\ k + 1 <= L + 1 /\ (k + 1 = maxlen \/ k + 1 = L + 1)
    BY <2>1, <2>2
  <2> HIDE DEF k
  <2>15. Len(handled)' = L + 1 /\ Len(memory.order)' = k + 1
    BY <2>6, <2>8
  <2>16. \A i \in 1 .. Len(memory.order)' :
           memory.order'[i] = handled'[Len(handled)' - Len(memory.order)' + i].update
    <3>1. \A a, b : a = L + 1 /\ b = k + 1 =>
            \A i \in 1 .. b : memory'.order[i] = handled'[a - b + i].update
      BY <2>12
    <3> QED
      BY <2>15, <3>1
  <2>17. memory.updates' = {memory.order'[i] : i \in 1 .. Len(memory.order)'}
    BY <2>13, <2>15
  <2> QED
    BY <2>11, <2>14, <2>15, <2>16, <2>17 DEF UpdatesInv
<1>2. CASE handled' = handled /\ memory' = memory
  BY <1>2 DEF UpdatesInv, UpdatesOnce
<1>3. CASE Restart
  <2>1. handled' = <<>> /\ memory'.order = <<>> /\ memory'.updates = {}
    BY <1>3 DEF Restart, Fresh
  <2> QED
    BY <2>1 DEF UpdatesInv, UpdatesOnce, SurfaceAssumption
<1> QED
  BY <1>1, <1>2, <1>3, SurfaceFrame

(* For any capacity of the memory, any updates and any restarts, the same   *)
(* update is handled again only after maxlen others.                        *)
THEOREM UpdatesOnceAlways == SurfaceSpec => []UpdatesOnce
<1> DEFINE Inv == SurfaceTyped /\ UpdatesInv
<1>1. SurfaceInit => Inv
  BY SurfaceAssumption DEF SurfaceAssumption, SurfaceInit, Fresh, SurfaceTyped, Memory,
     UpdatesInv, UpdatesOnce
<1>2. Inv /\ [SurfaceNext]_surface => Inv'
  BY SurfaceAssumption, SurfaceTypedStep, UpdatesStep
<1>3. Inv => UpdatesOnce
  BY DEF UpdatesInv
<1> QED
  BY <1>1, <1>2, <1>3, PTL DEF SurfaceSpec

-----------------------------------------------------------------------------
Deciding(u) == handler[u].pc = "decide"

(* A callback that is being decided, or that has had the decision of this   *)
(* life, is remembered as used for as long as it can be verified.           *)
CallbackInv ==
  /\ \A u \in Updates : Deciding(u) => Inbox[u].nonce \in Nonces
  /\ \A u, v \in Updates : Deciding(u) /\ Deciding(v) /\ Inbox[u].nonce = Inbox[v].nonce => u = v
  /\ \A u \in Updates : Deciding(u) => decided[Inbox[u].nonce] <= lives
  /\ \A n \in Nonces :
       (decided[n] = 1 + lives \/ \E u \in Updates : Deciding(u) /\ Inbox[u].nonce = n)
         => expires[n] # 0 /\ (n \in memory.used \/ expires[n] < time)
  /\ CallbackOnce

(* A callback verified now is neither being decided nor decided. *)
LEMMA CallbackStep ==
  ASSUME SurfaceTyped, SurfaceAssumption, CallbackInv, [SurfaceNext]_surface
  PROVE  CallbackInv'
<1>0. /\ time \in Nat /\ expires \in [Nonces -> Nat] /\ decided \in [Nonces -> Nat] /\ lives \in Nat
      /\ memory.used \in SUBSET Nonces
      /\ handler \in [Updates -> [pc: {"none", "execute", "decide", "reply", "done"}, tries: Nat]]
  BY DEF SurfaceTyped, Memory
<1>1. ASSUME NEW u \in Updates, Handle(u)
      PROVE  CallbackInv'
  <2>1. UNCHANGED <<time, expires, decided, lives>>
    BY <1>1 DEF Handle
  <2>2. CASE memory'.used = memory.used /\ \E pc \in {"execute", "reply", "done"} : Moved(u, pc)
    <3>1. \A v \in Updates : Deciding(v)' => Deciding(v)
      BY <1>0, <2>2 DEF Moved, Deciding
    <3> QED
      BY <2>1, <2>2, <3>1 DEF CallbackInv, CallbackOnce
  <2>3. CASE /\ Inbox[u].nonce \in Nonces /\ Signed(Inbox[u].nonce)
             /\ memory'.used = Used(memory) \cup {Inbox[u].nonce}
             /\ Moved(u, "reply")
    <3>1. \A v \in Updates : Deciding(v)' => Deciding(v)
      BY <1>0, <2>3 DEF Moved, Deciding
    <3>2. \A n \in Nonces : n \in memory.used \/ expires[n] < time => n \in memory'.used \/ expires[n] < time
      BY <1>0, <2>3 DEF Used
    <3> QED
      BY <2>1, <3>1, <3>2 DEF CallbackInv, CallbackOnce
  <2>4. CASE /\ Inbox[u].nonce \in Nonces /\ Signed(Inbox[u].nonce)
             /\ memory'.used = Used(memory) \cup {Inbox[u].nonce}
             /\ Inbox[u].nonce \notin Used(memory) /\ Moved(u, "decide")
    <3>1. PICK k \in Nonces : k = Inbox[u].nonce
      BY <2>4
    <3>2. \A v \in Updates : Deciding(v)' => v = u \/ Deciding(v)
      BY <1>0, <2>4 DEF Moved, Deciding
    <3>3. expires[k] # 0 /\ expires[k] >= time /\ k \notin memory.used /\ k \in memory'.used
      BY <1>0, <2>4, <3>1 DEF Used, Signed
    <3>4. \A n \in Nonces : n \in memory.used \/ expires[n] < time => n \in memory'.used \/ expires[n] < time
      BY <1>0, <2>4 DEF Used
    <3>5. ~(k \in memory.used \/ expires[k] < time)
      BY <1>0, <3>3
    <3>6. decided[k] # 1 + lives /\ ~\E v \in Updates : Deciding(v) /\ Inbox[v].nonce = k
      BY <3>5 DEF CallbackInv
    <3>7. decided[k] <= lives
      BY <1>0, <3>6 DEF CallbackInv, CallbackOnce
    <3> QED
      BY <2>1, <3>1, <3>2, <3>3, <3>4, <3>6, <3>7 DEF CallbackInv, CallbackOnce
  <2> QED
    BY <1>1, <2>2, <2>3, <2>4, HandleShape
<1>2. ASSUME NEW u \in Updates, Execute(u)
      PROVE  CallbackInv'
  <2>1. UNCHANGED <<time, expires, decided, lives, memory>>
    BY <1>2 DEF Execute
  <2>2. \A v \in Updates : Deciding(v)' => Deciding(v)
    BY <1>0, <1>2 DEF Execute, Moved, Deciding
  <2> QED
    BY <2>1, <2>2 DEF CallbackInv, CallbackOnce
<1>3. ASSUME NEW u \in Updates, Decide(u)
      PROVE  CallbackInv'
  <2>1. UNCHANGED <<time, expires, lives, memory>> /\ Deciding(u)
    BY <1>3 DEF Decide, At, Deciding
  <2>2. \A v \in Updates : Deciding(v)' => Deciding(v) /\ v # u
    BY <1>0, <1>3 DEF Decide, Moved, Deciding
  <2>3. PICK k \in Nonces : k = Inbox[u].nonce
    BY <2>1 DEF CallbackInv
  <2>4. /\ decided[k] <= lives
        /\ expires[k] # 0 /\ (k \in memory.used \/ expires[k] < time)
        /\ \A v \in Updates : Deciding(v)' => Inbox[v].nonce # k
    BY <2>1, <2>2, <2>3 DEF CallbackInv
  <2>5. decided' \in [Nonces -> Nat] /\ decided'[k] <= 1 + lives
        /\ \A n \in Nonces : n # k => decided'[n] = decided[n]
    BY <1>0, <1>3, <2>3, <2>4 DEF Decide
  <2>6. CallbackOnce'
    BY <2>1, <2>5 DEF CallbackInv, CallbackOnce
  <2> QED
    BY <2>1, <2>2, <2>4, <2>5, <2>6 DEF CallbackInv
<1>4. ASSUME NEW u \in Updates, NEW flooded \in BOOLEAN, Reply(u, flooded)
      PROVE  CallbackInv'
  <2>1. UNCHANGED <<time, expires, decided, lives, memory>> /\ handler[u].pc = "reply"
    BY <1>4 DEF Reply, At
  <2>2. \A v \in Updates : Deciding(v)' => Deciding(v)
    BY <1>0, <1>4, <2>1 DEF Reply, Moved, Deciding
  <2> QED
    BY <2>1, <2>2 DEF CallbackInv, CallbackOnce
<1>5. ASSUME NEW n \in Nonces, Sign(n)
      PROVE  CallbackInv'
  <2>1. UNCHANGED <<time, decided, lives, memory, handler>> /\ expires[n] = 0
    BY <1>5 DEF Sign
  <2>2. \A k \in Nonces : expires[k] # 0 => expires'[k] = expires[k]
    BY <1>0, <1>5 DEF Sign
  <2> QED
    BY <2>1, <2>2 DEF CallbackInv, CallbackOnce, Deciding
<1>6. CASE TimeAdvances
  <2>1. UNCHANGED <<expires, decided, lives, memory, handler>> /\ time' = time + 1
    BY <1>6 DEF TimeAdvances
  <2>2. \A n \in Nonces : expires[n] < time => expires[n] < time'
    BY <1>0, <2>1
  <2> QED
    BY <2>1, <2>2 DEF CallbackInv, CallbackOnce, Deciding
<1>7. CASE Shutdown \/ UNCHANGED surface
  BY <1>7 DEF Shutdown, surface, CallbackInv, CallbackOnce, Deciding
<1>8. CASE Restart
  <2>1. /\ UNCHANGED <<time, expires, decided>> /\ lives' = lives + 1
        /\ \A v \in Updates : ~Deciding(v)'
    BY <1>8 DEF Restart, Deciding
  <2>2. \A n \in Nonces : decided[n] <= 1 + lives /\ decided[n] \in Nat
    BY <1>0 DEF CallbackInv, CallbackOnce
  <2>3. \A n \in Nonces : decided[n] # 1 + lives' /\ decided[n] <= 1 + lives'
    BY <1>0, <2>1, <2>2
  <2> QED
    BY <2>1, <2>3 DEF CallbackInv, CallbackOnce
<1> QED
  BY <1>1, <1>2, <1>3, <1>4, <1>5, <1>6, <1>7, <1>8 DEF SurfaceNext, Handling

(* For any callbacks, lifetimes and handlers that interleave, a signed      *)
(* callback decides no more often than the process was started.             *)
THEOREM CallbackOnceAlways == SurfaceSpec => []CallbackOnce
<1> DEFINE Inv == SurfaceTyped /\ CallbackInv
<1>1. SurfaceInit => Inv
  BY SurfaceAssumption DEF SurfaceInit, Fresh, SurfaceTyped, Memory, CallbackInv, CallbackOnce,
     Deciding
<1>2. Inv /\ [SurfaceNext]_surface => Inv'
  BY SurfaceAssumption, SurfaceTypedStep, CallbackStep
<1>3. Inv => CallbackOnce
  BY DEF CallbackInv
<1> QED
  BY <1>1, <1>2, <1>3, PTL DEF SurfaceSpec

-----------------------------------------------------------------------------
(* What of a bucket, and what of the allowed receipts of an identity, still *)
(* counts at an instant.                                                    *)
Alive(bucket, instant) == {i \in DOMAIN bucket : bucket[i] + rate_window > instant}

Charges(identity, instant) ==
  {j \in DOMAIN handled : Counts(j, identity) /\ handled[j].time + rate_window > instant}

(* At every instant from now on, a bucket holds a live charge for each      *)
(* allowed receipt still in the window: purging too much would break it     *)
(* now, purging by another clock later.                                     *)
RateInv ==
  /\ \A identity \in Identities : \A instant \in Nat :
       instant >= time =>
         Cardinality(Charges(identity, instant)) <= Cardinality(Alive(memory.rates[identity], instant))
  /\ RateHeld

(* A bucket's live charges can be counted. *)
LEMMA FiniteAlive ==
  ASSUME NEW bucket \in Seq(Nat), NEW instant \in Nat
  PROVE  /\ IsFiniteSet(Alive(bucket, instant))
         /\ Cardinality(Alive(bucket, instant)) \in Nat
         /\ Cardinality(Alive(bucket, instant)) <= Len(bucket)
<1>1. Len(bucket) \in Nat /\ DOMAIN bucket = 1 .. Len(bucket)
  OBVIOUS
<1>2. /\ IsFiniteSet(1 .. Len(bucket))
      /\ Cardinality(1 .. Len(bucket)) = IF 1 > Len(bucket) THEN 0 ELSE Len(bucket) - 1 + 1
  <2>1. 1 \in Int /\ Len(bucket) \in Int
    BY <1>1
  <2> QED
    BY <2>1, FS_Interval
<1>3. Cardinality(1 .. Len(bucket)) = Len(bucket)
  BY <1>1, <1>2
<1>4. Alive(bucket, instant) \in SUBSET (1 .. Len(bucket))
  BY <1>1 DEF Alive
<1> QED
  BY <1>2, <1>3, <1>4, FS_Subset, FS_CardinalityType

(* Popping from the left takes nothing that counts now or later. *)
LEMMA PurgeKeeps ==
  ASSUME NEW bucket \in Seq(Nat), time \in Nat, rate_window \in Nat,
         NEW instant \in Nat, instant >= time
  PROVE  Cardinality(Alive(bucket, instant)) <= Cardinality(Alive(Purged(bucket), instant))
<1>1. PICK n \in Nat : n = Len(bucket) /\ DOMAIN bucket = 1 .. n
  OBVIOUS
<1>2. PICK c \in 0 .. n : c = Cardinality(Outdated(bucket, time))
  BY <1>1, PurgedShape
<1>3. PICK p \in Seq(Nat) : p = Purged(bucket)
  BY PurgedShape
<1>4. p = SubSeq(bucket, c + 1, n)
  BY <1>1, <1>2, <1>3 DEF Purged
<1>5. /\ Len(p) = n - c /\ DOMAIN p = 1 .. n - c
      /\ \A i \in 1 .. n - c : p[i] = bucket[c + i]
  <2>1. c \in Nat /\ c + 1 \in Nat /\ n + 1 - (c + 1) = n - c /\ c <= n
    BY <1>2
  <2>2. CASE c = n
    BY <1>1, <1>4, <2>1, <2>2
  <2>3. CASE c < n
    BY <1>1, <1>4, <2>1, <2>3
  <2> QED
    BY <2>1, <2>2, <2>3
<1>6. ASSUME NEW i \in Alive(bucket, instant)
      PROVE  i \in 1 .. n /\ c <= i - 1
  <2>1. i \in 1 .. n /\ bucket[i] \in Nat /\ bucket[i] + rate_window > instant
    BY <1>1 DEF Alive
  <2>2. ~(bucket[i] + rate_window <= time)
    BY <2>1
  <2>3. Outdated(bucket, time) \in SUBSET (1 .. i - 1)
    <3> SUFFICES ASSUME NEW x \in Outdated(bucket, time), ~(x <= i - 1)
                 PROVE  FALSE
      BY <1>1, <2>1 DEF Outdated
    <3>1. x \in 1 .. n /\ \A y \in 1 .. x : bucket[y] + rate_window <= time
      BY <1>1 DEF Outdated
    <3>2. i \in 1 .. x
      BY <2>1, <3>1
    <3> QED
      BY <2>2, <3>1, <3>2
  <2>4. 1 \in Int /\ i - 1 \in Int
    BY <2>1
  <2>5. /\ IsFiniteSet(1 .. i - 1)
        /\ Cardinality(1 .. i - 1) = IF 1 > i - 1 THEN 0 ELSE (i - 1) - 1 + 1
    BY <2>4, FS_Interval
  <2>6. c <= Cardinality(1 .. i - 1)
    BY <1>2, <2>3, <2>5, FS_Subset
  <2> QED
    BY <2>1, <2>5, <2>6
<1> DEFINE S == Alive(bucket, instant)
           T == Alive(p, instant)
           f == [i \in S |-> i - c]
<1>7. ASSUME NEW i \in S
      PROVE  i - c \in T
  <2>1. i \in 1 .. n /\ c <= i - 1 /\ bucket[i] + rate_window > instant
    BY <1>6 DEF Alive
  <2>2. i - c \in 1 .. n - c /\ c + (i - c) = i
    BY <2>1
  <2>3. p[i - c] = bucket[i]
    BY <1>5, <2>2
  <2> QED
    BY <1>5, <2>1, <2>2, <2>3 DEF Alive
<1>8. \A a, b \in S : a - c = b - c => a = b
  BY <1>6
<1>9. IsFiniteSet(T)
  BY FiniteAlive
<1> HIDE DEF S, T
<1>10. f \in [S -> T]
  BY <1>7
<1>11. \A a, b \in S : f[a] = f[b] => a = b
  BY <1>8
<1> HIDE DEF f
<1>12. f \in Injection(S, T)
  BY <1>10, <1>11 DEF Injection, IsInjective
<1> QED
  BY <1>3, <1>9, <1>12, FS_Injection DEF S, T

(* A charge counts while its window lasts. *)
LEMMA ChargeCounts ==
  ASSUME NEW bucket \in Seq(Nat), time \in Nat, rate_window \in Nat, NEW instant \in Nat
  PROVE  Cardinality(Alive(Append(bucket, time), instant)) =
           Cardinality(Alive(bucket, instant)) + (IF time + rate_window > instant THEN 1 ELSE 0)
<1>1. PICK n \in Nat : n = Len(bucket) /\ DOMAIN bucket = 1 .. n
  OBVIOUS
<1>2. PICK b : b = Append(bucket, time)
  OBVIOUS
<1>3. /\ DOMAIN b = 1 .. n + 1 /\ b[n + 1] = time
      /\ \A i \in 1 .. n : b[i] = bucket[i]
  BY <1>1, <1>2
<1>4. IsFiniteSet(Alive(bucket, instant)) /\ Cardinality(Alive(bucket, instant)) \in Nat
  BY FiniteAlive
<1>5. n + 1 \notin Alive(bucket, instant)
  BY <1>1 DEF Alive
<1>6. CASE time + rate_window > instant
  <2>1. Alive(b, instant) = Alive(bucket, instant) \cup {n + 1}
    BY <1>1, <1>3, <1>6 DEF Alive
  <2> QED
    BY <1>2, <1>4, <1>5, <1>6, <2>1, FS_AddElement
<1>7. CASE ~(time + rate_window > instant)
  <2>1. Alive(b, instant) = Alive(bucket, instant)
    BY <1>1, <1>3, <1>7 DEF Alive
  <2> QED
    BY <1>2, <1>4, <1>7, <2>1
<1> QED
  BY <1>6, <1>7

(* So can the receipts that count. *)
LEMMA FiniteCharges ==
  ASSUME SurfaceTyped, NEW identity \in Identities, NEW instant \in Nat
  PROVE  /\ IsFiniteSet(Charges(identity, instant))
         /\ Cardinality(Charges(identity, instant)) \in Nat
<1>1. Len(handled) \in Nat /\ DOMAIN handled = 1 .. Len(handled)
  BY DEF SurfaceTyped
<1>2. 1 \in Int /\ Len(handled) \in Int
  BY <1>1
<1>3. IsFiniteSet(1 .. Len(handled))
  BY <1>2, FS_Interval
<1>4. Charges(identity, instant) \in SUBSET (1 .. Len(handled))
  BY <1>1 DEF Charges
<1> QED
  BY <1>3, <1>4, FS_Subset, FS_CardinalityType

(* A handled update adds at most one charge that counts, and adds it to     *)
(* the buckets that let it in.                                              *)
LEMMA RateStep ==
  ASSUME SurfaceTyped, SurfaceAssumption, RateInv, [SurfaceNext]_surface
  PROVE  RateInv'
<1>0. /\ time \in Nat /\ rate_window \in Nat /\ rate_limit \in Nat
      /\ \A identity \in Identities : memory.rates[identity] \in Seq(Nat)
      /\ handled \in Seq(Receipt)
  BY DEF SurfaceTyped, SurfaceAssumption, Memory
<1>1. ASSUME NEW u \in Updates, Handle(u)
      PROVE  RateInv'
  <2>1. PICK allow \in BOOLEAN :
          /\ handled' = Append(handled, [update |-> u, time |-> time, allowed |-> allow])
          /\ \A identity \in Identities :
               Bucketed(memory.rates[identity], memory'.rates[identity],
                        allow /\ identity \in {Inbox[u].user, Chat})
    BY <1>1, HandleShape
  <2>2. PICK r \in Receipt : r = [update |-> u, time |-> time, allowed |-> allow]
    BY <1>0 DEF Receipt
  <2>3. PICK L \in Nat : L = Len(handled) /\ DOMAIN handled = 1 .. L
    BY <1>0
  <2>4. /\ DOMAIN handled' = 1 .. L + 1 /\ handled'[L + 1] = r
        /\ \A j \in 1 .. L : handled'[j] = handled[j]
    BY <1>0, <2>1, <2>2, <2>3
  <2>5. /\ \A identity \in Identities : \A j \in 1 .. L : Counts(j, identity)' <=> Counts(j, identity)
        /\ \A identity \in Identities :
             Counts(L + 1, identity)' <=> allow /\ identity \in {Inbox[u].user, Chat}
    BY <2>2, <2>4 DEF Counts
  <2>6. time' = time
    BY <1>1 DEF Handle
  <2>7. ASSUME NEW identity \in Identities, NEW instant \in Nat
        PROVE  Charges(identity, instant)' =
                 Charges(identity, instant) \cup
                   (IF allow /\ identity \in {Inbox[u].user, Chat} /\ time + rate_window > instant
                    THEN {L + 1} ELSE {})
    <3>1. \A j \in 1 .. L : j \in Charges(identity, instant)' <=> j \in Charges(identity, instant)
      BY <2>3, <2>4, <2>5 DEF Charges
    <3>2. L + 1 \in Charges(identity, instant)' <=>
            allow /\ identity \in {Inbox[u].user, Chat} /\ time + rate_window > instant
      BY <2>2, <2>4, <2>5 DEF Charges
    <3>3. /\ Charges(identity, instant)' \subseteq (1 .. L) \cup {L + 1}
          /\ Charges(identity, instant) \subseteq 1 .. L
      BY <2>3, <2>4 DEF Charges
    <3> QED
      BY <3>1, <3>2, <3>3
  <2>8. ASSUME NEW identity \in Identities, NEW instant \in Nat, instant >= time
        PROVE  Cardinality(Charges(identity, instant)') <=
                 Cardinality(Alive(memory'.rates[identity], instant))
    <3>1. PICK before \in Seq(Nat) : before = memory.rates[identity]
      BY <1>0
    <3>2. PICK after : after = memory'.rates[identity]
      OBVIOUS
    <3>3. PICK p \in Seq(Nat) : p = Purged(before)
      BY <1>0, PurgedShape
    <3>4. PICK x \in Nat, y \in Nat :
            /\ x = Cardinality(Alive(before, instant)) /\ y = Cardinality(Alive(p, instant))
            /\ x <= y
      BY <1>0, <2>8, <3>3, FiniteAlive, PurgeKeeps
    <3>5. PICK e \in {0, 1} : e = IF time + rate_window > instant THEN 1 ELSE 0
      OBVIOUS
    <3>6. PICK z : z = Cardinality(Alive(after, instant))
      OBVIOUS
    <3>7. PICK C : C = Charges(identity, instant)
      OBVIOUS
    <3>8. PICK w \in Nat : IsFiniteSet(C) /\ w = Cardinality(C) /\ w <= x
      BY <2>8, <3>1, <3>4, <3>7, FiniteCharges DEF RateInv
    <3>9. Cardinality(Alive(Append(p, time), instant)) = y + e
      BY <1>0, <3>4, <3>5, ChargeCounts
    <3>10. /\ after \in {before, p, Append(p, time)}
           /\ allow /\ identity \in {Inbox[u].user, Chat} => after = Append(p, time)
      BY <2>1, <3>1, <3>2, <3>3 DEF Bucketed
    <3>11. z \in {x, y, y + e}
      BY <3>4, <3>6, <3>9, <3>10
    <3>12. PICK D : D = Charges(identity, instant)'
      OBVIOUS
    <3>13. D = C \cup (IF allow /\ identity \in {Inbox[u].user, Chat} /\ time + rate_window > instant
                       THEN {L + 1} ELSE {})
      BY <2>7, <3>7, <3>12
    <3>14. CASE D = C
      <4>1. Cardinality(D) = w /\ w <= z
        BY <3>4, <3>5, <3>8, <3>11, <3>14
      <4> QED
        BY <3>2, <3>6, <3>12, <4>1
    <3>15. CASE D # C
      <4>1. D = C \cup {L + 1} /\ e = 1 /\ allow /\ identity \in {Inbox[u].user, Chat}
        BY <3>5, <3>13, <3>15
      <4>2. z = y + 1
        BY <3>6, <3>9, <3>10, <4>1
      <4>3. Cardinality(D) = w \/ Cardinality(D) = w + 1
        BY <3>8, <4>1, FS_AddElement
      <4>4. Cardinality(D) <= z
        BY <3>4, <3>8, <4>2, <4>3
      <4> QED
        BY <3>2, <3>6, <3>12, <4>4
    <3> QED
      BY <3>14, <3>15
  <2>9. ASSUME NEW identity \in Identities, NEW i \in 1 .. L + 1, Counts(i, identity)'
        PROVE  Cardinality({j \in 1 .. i : /\ Counts(j, identity)'
                                           /\ handled'[j].time + rate_window > handled'[i].time})
                 <= rate_limit
    <3>1. CASE i \in 1 .. L
      <4>1. \A j \in 1 .. i : j \in 1 .. L
        BY <3>1
      <4>2. {j \in 1 .. i : Counts(j, identity)' /\ handled'[j].time + rate_window > handled'[i].time}
              = {j \in 1 .. i : Counts(j, identity) /\ handled[j].time + rate_window > handled[i].time}
        BY <2>4, <2>5, <3>1, <4>1
      <4>3. Counts(i, identity) /\ i \in DOMAIN handled
        BY <2>3, <2>5, <2>9, <3>1
      <4> QED
        BY <4>2, <4>3 DEF RateInv, RateHeld
    <3>2. CASE i = L + 1
      <4>1. allow /\ identity \in {Inbox[u].user, Chat}
        BY <2>5, <2>9, <3>2
      <4>2. PICK before \in Seq(Nat) : before = memory.rates[identity]
        BY <1>0
      <4>3. PICK p \in Seq(Nat) : p = Purged(before)
        BY <1>0, PurgedShape
      <4>4. Len(p) < rate_limit /\ Len(p) \in Nat
        BY <2>1, <4>1, <4>2, <4>3 DEF Bucketed
      <4>5. /\ Cardinality(Alive(before, time)) \in Nat
            /\ Cardinality(Alive(p, time)) \in Nat
            /\ Cardinality(Alive(p, time)) <= Len(p)
            /\ Cardinality(Alive(before, time)) <= Cardinality(Alive(p, time))
        <5>1. time >= time
          BY <1>0
        <5> QED
          BY <1>0, <4>3, <5>1, FiniteAlive, PurgeKeeps
      <4>6. PICK C : C = Charges(identity, time)
        OBVIOUS
      <4>7. /\ IsFiniteSet(C) /\ Cardinality(C) \in Nat
            /\ Cardinality(C) <= Cardinality(Alive(before, time))
        <5>1. time >= time
          BY <1>0
        <5> QED
          BY <1>0, <4>2, <4>6, <5>1, FiniteCharges DEF RateInv
      <4>8. PICK W : W = {j \in 1 .. i : /\ Counts(j, identity)'
                                         /\ handled'[j].time + rate_window > handled'[i].time}
        OBVIOUS
      <4>9. W \in SUBSET (C \cup {L + 1})
        <5>1. handled'[i].time = time
          BY <2>2, <2>4, <3>2
        <5>2. ASSUME NEW j \in W, j # L + 1
              PROVE  j \in C
          <6>1. j \in 1 .. L
            BY <3>2, <4>8, <5>2
          <6> QED
            BY <2>3, <2>4, <2>5, <4>6, <4>8, <5>1, <6>1 DEF Charges
        <5> QED
          BY <5>2
      <4>10. /\ IsFiniteSet(C \cup {L + 1})
             /\ Cardinality(C \cup {L + 1}) <= Cardinality(C) + 1
             /\ Cardinality(C \cup {L + 1}) \in Nat
        <5>1. PICK w \in Nat : w = Cardinality(C)
          BY <4>7
        <5>2. /\ IsFiniteSet(C \cup {L + 1})
              /\ Cardinality(C \cup {L + 1}) = IF L + 1 \in C THEN w ELSE w + 1
          BY <4>7, <5>1, FS_AddElement
        <5> QED
          BY <5>1, <5>2
      <4>11. /\ Cardinality(W) <= Cardinality(C \cup {L + 1})
             /\ Cardinality(W) \in Nat
        BY <4>9, <4>10, FS_Subset, FS_CardinalityType
      <4>12. Cardinality(W) <= rate_limit
        BY <1>0, <4>4, <4>5, <4>7, <4>10, <4>11
      <4> QED
        BY <4>8, <4>12
    <3> QED
      BY <3>1, <3>2
  <2>10. RateHeld'
    BY <2>4, <2>9 DEF RateHeld
  <2> QED
    BY <2>6, <2>8, <2>10 DEF RateInv
<1>2. CASE handled' = handled /\ memory' = memory /\ time' \in {time, time + 1}
  <2>1. \A identity \in Identities : \A instant \in Nat :
          Charges(identity, instant)' = Charges(identity, instant)
    BY <1>2 DEF Charges, Counts
  <2>2. \A instant \in Nat : instant >= time' => instant >= time
    BY <1>0, <1>2
  <2>3. RateHeld'
    BY <1>2 DEF RateInv, RateHeld, Counts
  <2> QED
    BY <1>2, <2>1, <2>2, <2>3 DEF RateInv
<1>3. CASE Restart
  <2>1. handled' = <<>> /\ memory' = Fresh /\ time' = time
    BY <1>3 DEF Restart
  <2>2. \A identity \in Identities : memory'.rates[identity] = <<>>
    BY <2>1 DEF Fresh
  <2>3. \A identity \in Identities : \A instant \in Nat :
          Charges(identity, instant)' = {} /\ Alive(memory'.rates[identity], instant) = {}
    BY <2>1, <2>2 DEF Charges, Alive
  <2>4. RateHeld'
    BY <2>1 DEF RateHeld
  <2> QED
    BY <2>3, <2>4, FS_EmptySet DEF RateInv
<1> QED
  BY <1>1, <1>2, <1>3, SurfaceFrame

(* For any limit, any window and any mix of users and refusals, no window   *)
(* holds more than rate_limit allowed updates of a user or of the chat.     *)
THEOREM RateHeldAlways == SurfaceSpec => []RateHeld
<1> DEFINE Inv == SurfaceTyped /\ RateInv
<1>1. SurfaceInit => Inv
  <2> SUFFICES ASSUME SurfaceInit PROVE Inv
    OBVIOUS
  <2>1. handled = <<>> /\ memory = Fresh
    BY DEF SurfaceInit
  <2>2. \A identity \in Identities : memory.rates[identity] = <<>>
    BY <2>1 DEF Fresh
  <2>3. \A identity \in Identities : \A instant \in Nat :
          Charges(identity, instant) = {} /\ Alive(memory.rates[identity], instant) = {}
    BY <2>1, <2>2 DEF Charges, Alive
  <2>4. RateHeld
    BY <2>1 DEF RateHeld
  <2>5. SurfaceTyped
    BY DEF SurfaceInit, Fresh, SurfaceTyped, Memory
  <2> QED
    BY <2>3, <2>4, <2>5, FS_EmptySet DEF RateInv
<1>2. Inv /\ [SurfaceNext]_surface => Inv'
  BY SurfaceAssumption, SurfaceTypedStep, RateStep
<1>3. Inv => RateHeld
  BY DEF RateInv
<1> QED
  BY <1>1, <1>2, <1>3, PTL DEF SurfaceSpec
=============================================================================
