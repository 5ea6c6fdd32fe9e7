---------------------------- MODULE ApprovalStore ----------------------------
(***************************************************************************)
(* ApprovalStore.add and consume. Both hold the store's lock and await       *)
(* nothing inside it, so each is one step. Task, base and plan, which are    *)
(* compared for equality, are one subject; an approval without a diff covers *)
(* any.                                                                     *)
(***************************************************************************)
EXTENDS Naturals, FiniteSets

CONSTANTS
  ApprovalIds,
  Subjects,    \* what an approval is bound to: task, base and plan
  Diffs,       \* diff hashes
  Scopes,      \* operations an approval may cover
  MaxGrants,   \* bound: approvals consumed
  LastMoment   \* bound: the clock

ASSUME ApprovalAssumption == MaxGrants \in Nat /\ LastMoment \in Nat \ {0}

ActorRoles == {"owner", "reviewer"}

NoDiff == "none"
AnyDiff == Diffs \cup {NoDiff}

ApprovalRecord ==
  [approved: BOOLEAN, expires: 1 .. LastMoment, one_time: BOOLEAN, subject: Subjects,
   diff: AnyDiff, scope: SUBSET Scopes, role: ActorRoles]

VARIABLES
  moment,
  records,   \* _records
  used,      \* _used
  grants     \* history: consumed approvals, with the request and the time

approvals == <<moment, records, used, grants>>

Grant == [id: ApprovalIds, number: 1 .. MaxGrants, moment: 0 .. LastMoment,
          subject: Subjects, diff: AnyDiff, scope: SUBSET Scopes, role: ActorRoles]

ApprovalsTypeOK ==
  /\ moment \in 0 .. LastMoment
  /\ DOMAIN records \subseteq ApprovalIds /\ records \in [DOMAIN records -> ApprovalRecord]
  /\ used \subseteq ApprovalIds
  /\ grants \subseteq Grant

ApprovalsInit ==
  /\ moment = 0
  /\ records = [a \in {} |-> {}]
  /\ used = {}
  /\ grants = {}

AddableAgain(a) == a \notin used
Addable(a) == a \notin DOMAIN records

Add(a, r) ==
  /\ Addable(a)
  /\ records' = [b \in DOMAIN records \cup {a} |-> IF b = a THEN r ELSE records[b]]
  /\ UNCHANGED <<moment, used, grants>>

(* The checks of consume, in its order. *)
Consumable(a, subject, diff, scope, role) ==
  LET r == records[a] IN
  /\ a \in DOMAIN records /\ r.approved
  /\ r.expires > moment
  /\ ~(r.one_time /\ a \in used)
  /\ r.subject = subject /\ scope \subseteq r.scope
  /\ r.diff \in {NoDiff, diff}
  /\ r.role \in {"owner", role}

UsedAfterwards(a) == IF records[a].one_time THEN used \cup {a} ELSE used

Consume(a, subject, diff, scope, role) ==
  /\ Cardinality(grants) < MaxGrants
  /\ Consumable(a, subject, diff, scope, role)
  /\ used' = UsedAfterwards(a)
  /\ grants' = grants \cup {[id |-> a, number |-> Cardinality(grants) + 1, moment |-> moment,
                             subject |-> subject, diff |-> diff, scope |-> scope,
                             role |-> role]}
  /\ UNCHANGED <<moment, records>>

MomentPasses ==
  moment < LastMoment /\ moment' = moment + 1 /\ UNCHANGED <<records, used, grants>>

ApprovalsNext ==
  \/ \E a \in ApprovalIds, r \in ApprovalRecord : Add(a, r)
  \/ \E a \in ApprovalIds, subject \in Subjects, diff \in AnyDiff,
        scope \in SUBSET Scopes, role \in ActorRoles :
       Consume(a, subject, diff, scope, role)
  \/ MomentPasses

ApprovalsSpec == ApprovalsInit /\ [][ApprovalsNext]_approvals

-----------------------------------------------------------------------------
(* Every approval that was ever consumed is still answered for by the       *)
(* record on file: the decision, subject, diff, scope, role and expiry it   *)
(* was consumed under were not replaced later, and a one-time approval was   *)
(* consumed once.                                                           *)
GrantsAccountable ==
  \A g \in grants :
    /\ g.id \in DOMAIN records /\ records[g.id].approved
    /\ g.moment < records[g.id].expires
    /\ records[g.id].diff \in {NoDiff, g.diff}
    /\ g.subject = records[g.id].subject /\ g.scope \subseteq records[g.id].scope
    /\ records[g.id].role \in {"owner", g.role}
    /\ records[g.id].one_time => \A h \in grants : h.id = g.id => h = g
=============================================================================
