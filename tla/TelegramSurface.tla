--------------------------- MODULE TelegramSurface ---------------------------
(***************************************************************************)
(* TelegramControlSurface.handle with its update memory, rate buckets and   *)
(* signed callbacks. A handler is split at its awaits: the task service and *)
(* the reply. The service is called here and modelled in ControlPlane.      *)
(* Everything the surface remembers is lost when its process restarts. An   *)
(* update has one handler at a time.                                        *)
(***************************************************************************)
EXTENDS Naturals, Sequences, FiniteSets

CONSTANTS
  Inbox,             \* update id -> [user, kind, nonce]
  Chat,              \* the chat the updates come from
  Role,              \* user -> TelegramRole, or Nil for a user or chat that is not allowed
  rate_limit, rate_window,
  maxlen,            \* of _update_order
  lifetime,          \* of a signed callback
  maximum_retries,   \* of send_with_flood_wait
  MaxTime,           \* bound: the clock
  MaxHandled,        \* bound: updates handled in one life of the process
  MaxLives,          \* bound: restarts
  Nil

Updates == DOMAIN Inbox
Users == DOMAIN Role
Nonces == {Inbox[u].nonce : u \in Updates} \ {Nil}

Roles == {"owner", "operator", "reviewer", "viewer"}

COMMAND_ROLES ==
  [start |-> Roles, help |-> Roles, status |-> Roles,
   analyze |-> {"owner", "operator"}, fix |-> {"owner", "operator"},
   review |-> {"owner", "operator", "reviewer"}, cancel |-> {"owner", "operator"},
   approve |-> {"owner", "reviewer"}, reject |-> {"owner", "reviewer"}, deploy |-> {"owner"}]

ASSUME SurfaceAssumption ==
  /\ \A u \in Updates : Inbox[u].user \in Users
  /\ \A u \in Updates : Inbox[u].kind \in DOMAIN COMMAND_ROLES \cup {"callback", "text"}
  /\ \A u \in Updates : Inbox[u].kind = "callback" => Inbox[u].nonce # Nil
  /\ Chat \notin Users   \* the buckets' keys are prefixed
  /\ maxlen \in Nat \ {0} /\ rate_limit \in Nat /\ rate_window \in Nat
  /\ lifetime \in Nat /\ maximum_retries \in Nat
  /\ MaxTime \in Nat /\ MaxHandled \in Nat /\ MaxLives \in Nat

VARIABLES
  time,
  memory,    \* [updates, order, rates, used]: what the process remembers
  handler,   \* each update's handler: where it is, and attempts of its reply
  expires,   \* expiry of each signed callback, 0 if it was not signed
  closing,
  handled,   \* history: updates remembered in this life, when, and if allowed
  decided,   \* history: decisions each callback led to
  lives

surface == <<time, memory, handler, expires, closing, handled, decided, lives>>

Identities == Users \cup {Chat}

Fresh == [updates |-> {}, order |-> <<>>, rates |-> [i \in Identities |-> <<>>], used |-> {}]

SurfaceTypeOK ==
  /\ time \in 1 .. MaxTime
  /\ memory.updates \subseteq Updates /\ memory.order \in Seq(Updates)
  /\ Len(memory.order) <= maxlen
  /\ memory.rates \in [Identities -> Seq(1 .. MaxTime)]
  /\ memory.used \subseteq Nonces
  /\ handler \in [Updates -> [pc: {"none", "execute", "decide", "reply", "done"},
                              tries: 0 .. maximum_retries]]
  /\ expires \in [Nonces -> Nat]
  /\ closing \in BOOLEAN
  /\ handled \in Seq([update: Updates, time: 1 .. MaxTime, allowed: BOOLEAN])
  /\ decided \in [Nonces -> Nat]
  /\ lives \in 0 .. MaxLives

SurfaceInit ==
  /\ time = 1
  /\ memory = Fresh
  /\ handler = [u \in Updates |-> [pc |-> "none", tries |-> 0]]
  /\ expires = [n \in Nonces |-> 0]
  /\ closing = FALSE
  /\ handled = <<>>
  /\ decided = [n \in Nonces |-> 0]
  /\ lives = 0

-----------------------------------------------------------------------------
(* _remember: the oldest update makes room. *)
RememberedNewest(m, u) ==
  LET full == Len(m.order) = maxlen IN
  [m EXCEPT !.order = Append(IF full THEN Tail(@) ELSE @, u),
            !.updates = IF full THEN {u} ELSE @ \cup {u}]

Remembered(m, u) ==
  LET full == Len(m.order) = maxlen IN
  [m EXCEPT !.order = Append(IF full THEN Tail(@) ELSE @, u),
            !.updates = (IF full THEN @ \ {Head(m.order)} ELSE @) \cup {u}]

(* _allow: what has left the window is popped from the left, and the user's *)
(* bucket is charged before the chat's is looked at.                        *)
Outdated(bucket, now) == {i \in DOMAIN bucket : \A j \in 1 .. i : bucket[j] + rate_window <= now}

PurgedEarly(bucket) == SubSeq(bucket, Cardinality(Outdated(bucket, time + 1)) + 1, Len(bucket))
Purged(bucket) == SubSeq(bucket, Cardinality(Outdated(bucket, time)) + 1, Len(bucket))

HasRoom(m, identity) == Len(Purged(m.rates[identity])) < rate_limit

Charged(m, identity) ==
  [m EXCEPT !.rates[identity] =
     IF HasRoom(m, identity) THEN Append(Purged(@), time) ELSE Purged(@)]

Allow(m, user) == HasRoom(m, user) /\ HasRoom(m, Chat)

Allowed(m, user) == IF HasRoom(m, user) THEN Charged(Charged(m, user), Chat) ELSE Charged(m, user)

(* CallbackSigner.verify: expiry, purge, single use. A nonce stays used     *)
(* until its callback has expired.                                          *)
UsedEarly(m) == {n \in m.used : expires[n] > time}
Used(m) == {n \in m.used : expires[n] >= time}

Signed(n) == expires[n] # 0 /\ expires[n] >= time

Verified(m, n) == Signed(n) /\ n \notin Used(m)

Spent(m, n) == IF Signed(n) THEN [m EXCEPT !.used = Used(m) \cup {n}] ELSE m

Permitted(user, command) == Role[user] \in COMMAND_ROLES[command]

-----------------------------------------------------------------------------
(* handle, up to its first await. *)
At(u, pc) == handler[u].pc = pc

Moved(u, pc) == handler' = [handler EXCEPT ![u] = [pc |-> pc, tries |-> 0]]

Handle(u) ==
  LET user == Inbox[u].user
      kind == Inbox[u].kind
      known == Remembered(memory, u)
      allow == Role[user] # Nil /\ Allow(known, user)
      charged == IF Role[user] # Nil THEN Allowed(known, user) ELSE known
  IN  /\ ~closing /\ u \notin memory.updates
      /\ handler[u].pc \in {"none", "done"} /\ Len(handled) < MaxHandled
      /\ handled' = Append(handled, [update |-> u, time |-> time, allowed |-> allow])
      /\ memory' = IF allow /\ kind = "callback" THEN Spent(charged, Inbox[u].nonce) ELSE charged
      /\ \/ Role[user] = Nil /\ Moved(u, "done")
         \/ Role[user] # Nil /\ ~allow /\ Moved(u, "reply")
         \/ /\ allow /\ kind = "callback"
            /\ Moved(u, IF Verified(charged, Inbox[u].nonce) /\ Permitted(user, "approve")
                        THEN "decide" ELSE "reply")
         \/ /\ allow /\ kind # "callback"
            /\ Moved(u, IF kind # "text" /\ Permitted(user, kind) THEN "execute" ELSE "reply")
      /\ UNCHANGED <<time, expires, closing, decided, lives>>

(* The service answers or refuses; another exception ends the handler, and  *)
(* the update is not handled again while it is remembered.                  *)
Execute(u) ==
  /\ At(u, "execute")
  /\ Moved(u, "reply") \/ Moved(u, "done")
  /\ UNCHANGED <<time, memory, expires, closing, handled, decided, lives>>

Decide(u) ==
  /\ At(u, "decide")
  /\ \/ decided' = [decided EXCEPT ![Inbox[u].nonce] = @ + 1] /\ Moved(u, "reply")
     \/ UNCHANGED decided /\ (Moved(u, "reply") \/ Moved(u, "done"))
  /\ UNCHANGED <<time, memory, expires, closing, handled, lives>>

(* send_with_flood_wait, and answer_callback, which is not retried. *)
MayRetry(u) == Inbox[u].kind # "callback" /\ handler[u].tries < maximum_retries

Reply(u, flooded) ==
  /\ At(u, "reply")
  /\ IF flooded /\ MayRetry(u)
     THEN handler' = [handler EXCEPT ![u].tries = @ + 1]
     ELSE Moved(u, "done")
  /\ UNCHANGED <<time, memory, expires, closing, handled, decided, lives>>

(* CallbackSigner.sign *)
Sign(n) ==
  /\ expires[n] = 0
  /\ expires' = [expires EXCEPT ![n] = time + lifetime]
  /\ UNCHANGED <<time, memory, handler, closing, handled, decided, lives>>

TimeAdvances ==
  /\ time < MaxTime /\ time' = time + 1
  /\ UNCHANGED <<memory, handler, expires, closing, handled, decided, lives>>

Shutdown ==
  /\ ~closing /\ closing' = TRUE
  /\ UNCHANGED <<time, memory, handler, expires, handled, decided, lives>>

Restart ==
  /\ lives < MaxLives /\ lives' = lives + 1
  /\ memory' = Fresh /\ closing' = FALSE /\ handled' = <<>>
  /\ handler' = [u \in Updates |-> [pc |-> "none", tries |-> 0]]
  /\ UNCHANGED <<time, expires, decided>>

Handling(u) == Execute(u) \/ Decide(u) \/ \E flooded \in BOOLEAN : Reply(u, flooded)

SurfaceNext ==
  \/ \E u \in Updates : Handle(u) \/ Handling(u)
  \/ \E n \in Nonces : Sign(n)
  \/ TimeAdvances \/ Shutdown \/ Restart

SurfaceSpec == SurfaceInit /\ [][SurfaceNext]_surface

-----------------------------------------------------------------------------
(* An update delivered again is ignored until maxlen newer ones have come:  *)
(* the set that is asked and the bounded queue that evicts agree.           *)
UpdatesOnce ==
  \A i, j \in DOMAIN handled :
    i < j /\ handled[i].update = handled[j].update => j - i > maxlen

Counts(i, identity) == handled[i].allowed /\ identity \in {Inbox[handled[i].update].user, Chat}

(* In no window does a user or a chat get more than rate_limit updates      *)
(* past _allow, also when refused updates charge one of the two buckets.    *)
RateHeld ==
  \A identity \in Identities : \A i \in DOMAIN handled :
    Counts(i, identity) =>
      Cardinality({j \in 1 .. i : /\ Counts(j, identity)
                                  /\ handled[j].time + rate_window > handled[i].time})
        <= rate_limit

(* A signed callback decides no more often than the process was started, up *)
(* to and including the moment it expires: only a restart, which forgets    *)
(* the used nonces, lets it decide again. The count is over all lives, so   *)
(* it bounds their sum and not each of them.                                *)
CallbackOnce == \A n \in Nonces : decided[n] <= 1 + lives
=============================================================================
