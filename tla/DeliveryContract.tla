-------------------------- MODULE DeliveryContract --------------------------
(***************************************************************************)
(* What a producer and a worker may rely on, whatever the lists, hashes and *)
(* scripts of the queue do: a message that was accepted stays in the        *)
(* queue's care until its newest delivery is settled or nobody wants it any *)
(* more; only the newest delivery of a message can own it; a delivery is    *)
(* settled at most once and only by its owner; a message whose task was     *)
(* revoked, or was over when it was accepted, is not handed out.            *)
(***************************************************************************)
EXTENDS Naturals, Sequences

CONSTANTS Tasks, Messages, Workers

VARIABLES
  tickets,   \* what each message accepted so far is for
  held,      \* messages in the queue's care
  handed,    \* every delivery, in order
  owned,     \* messages whose newest delivery still owns them
  settled,   \* deliveries acknowledged by their owner
  returned,  \* deliveries whose failure was handed back
  revoked,   \* cancelled tasks
  closing    \* messages a recovery was told are finished

contract == <<tickets, held, handed, owned, settled, returned, revoked, closing>>

ContractInit ==
  /\ tickets = [m \in {} |-> m]
  /\ held = {} /\ handed = <<>> /\ owned = {}
  /\ settled = {} /\ returned = {} /\ revoked = {} /\ closing = {}

(* Nobody waits for these messages any more. *)
Moot == {m \in DOMAIN tickets : tickets[m].task \in revoked \/ ~ tickets[m].live}

Newest(k) == \A j \in DOMAIN handed : handed[j].mid = handed[k].mid => j <= k

(* Messages leave the queue's care, and only such as the step may let go.   *)
LetGo(allowed) == held' \subseteq held /\ held \ held' \subseteq allowed /\ owned' \subseteq held'

Accept(m, t, live) ==
  /\ m \notin DOMAIN tickets
  /\ tickets' = [n \in DOMAIN tickets \cup {m} |->
                   IF n = m THEN [task |-> t, live |-> live] ELSE tickets[n]]
  /\ held' = held \cup {m}
  /\ UNCHANGED <<handed, owned, settled, returned, revoked, closing>>

(* Moot messages met on the way may be let go and lose their owner. *)
Deliver(w, m) ==
  /\ m \in held \cap (DOMAIN tickets \ Moot)
  /\ handed' = Append(handed, [mid |-> m, worker |-> w])
  /\ m \in owned' /\ owned' \subseteq owned \cup {m} /\ owned \ owned' \subseteq Moot
  /\ LetGo(Moot)
  /\ UNCHANGED <<tickets, settled, returned, revoked, closing>>

Discard ==
  /\ owned' \subseteq owned /\ owned \ owned' \subseteq Moot
  /\ LetGo(Moot)
  /\ UNCHANGED <<tickets, handed, settled, returned, revoked, closing>>

(* A copy handed back earlier may keep the message in care. *)
Settle(k) ==
  LET m == handed[k].mid
  IN /\ k \notin settled
     /\ m \in owned \cap DOMAIN tickets
     /\ Newest(k)
     /\ tickets[m].task \notin revoked
     /\ settled' = settled \cup {k}
     /\ owned' = owned \ {m}
     /\ LetGo({m})
     /\ UNCHANGED <<tickets, handed, returned, revoked, closing>>

(* Once per delivery, also by one that no longer owns its message. *)
Return(k) ==
  /\ k \notin returned
  /\ returned' = returned \cup {k}
  /\ held' = held \cup {handed[k].mid}
  /\ UNCHANGED <<tickets, handed, owned, settled, revoked, closing>>

Revoke(t) ==
  /\ t \notin revoked
  /\ revoked' = revoked \cup {t}
  /\ LetGo({m \in DOMAIN tickets : tickets[m].task = t})
  /\ UNCHANGED <<tickets, handed, owned, settled, returned, closing>>

(* An owner that went silent loses the message; the queue keeps it unless   *)
(* it is moot or finished.                                                  *)
Lapse(m) ==
  /\ m \in owned
  /\ owned' = owned \ {m}
  /\ LetGo({m} \cap (Moot \cup closing))
  /\ closing' \subseteq closing
  /\ UNCHANGED <<tickets, handed, settled, returned, revoked>>

(* What recoveries are told about durable states. *)
Report ==
  /\ closing' \in SUBSET Messages
  /\ UNCHANGED <<tickets, held, handed, owned, settled, returned, revoked>>

ContractNext ==
  \/ \E m \in Messages, t \in Tasks, live \in BOOLEAN : Accept(m, t, live)
  \/ \E w \in Workers, m \in Messages : Deliver(w, m)
  \/ Discard
  \/ \E k \in DOMAIN handed : Settle(k)
  \/ \E k \in DOMAIN handed : Return(k)
  \/ \E t \in Tasks : Revoke(t)
  \/ \E m \in Messages : Lapse(m)
  \/ Report

ContractSpec == ContractInit /\ [][ContractNext]_contract
=============================================================================
