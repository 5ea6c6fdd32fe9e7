---------------------------- MODULE GitHubBranch ----------------------------
(***************************************************************************)
(* GitHubClient.create_branch and create_commit on one agent branch of one  *)
(* repository: several callers, pushes by others, requests that fail, are    *)
(* lost, or are carried out after their caller has given up.                *)
(*                                                                         *)
(* A commit is its ancestors and the set of changes in its tree; blobs and   *)
(* trees are objects nobody sees before the commit.                         *)
(* Draft pull requests and comments are single requests that no state here   *)
(* depends on.                                                              *)
(***************************************************************************)
EXTENDS Naturals, Sequences, FiniteSets

CONSTANTS
  Writers,    \* callers of create_commit, each with a change of its own
  Outsider,   \* anybody else who pushes to the branch
  MaxCalls,   \* bound: create_commit calls of a writer
  MaxHeads    \* bound: heads of the branch at which others still push

ASSUME BranchAssumption == Outsider \notin Writers /\ MaxCalls \in Nat /\ MaxHeads \in Nat

VARIABLES
  commits,  \* the commit objects of the repository; the first is the base
  reflog,   \* the commits refs/heads/<branch> pointed to, oldest first
  op,       \* each writer's create_commit call
  wire      \* PATCH requests on their way, with the reflog position they expect

branch == <<commits, reflog, op, wire>>

Authors == Writers \cup {Outsider}
Commit == [past: SUBSET Nat, tree: SUBSET Authors]

(* at is the place of expected_base in the reflog, 0 for a commit the       *)
(* branch never pointed to.                                                 *)
Operation ==
  [pc: {"idle", "ref", "tree", "commit", "patch", "sent", "accepted", "rejected"},
   at: Nat, tree: SUBSET Authors, commit: Nat, calls: 0 .. MaxCalls,
   answer: {"none", "published", "refused", "unknown"}]

Update == [writer: Writers, at: Nat, commit: Nat]

Tip == reflog[Len(reflog)]

BranchTypeOK ==
  /\ commits \in Seq(Commit)
  /\ reflog \in Seq(1 .. Len(commits))
  /\ op \in [Writers -> Operation]
  /\ wire \subseteq Update

BranchInit ==
  /\ commits = <<[past |-> {}, tree |-> {}]>>
  /\ reflog = <<>>
  /\ op = [w \in Writers |-> [pc |-> "idle", at |-> 0, tree |-> {}, commit |-> 0,
                              calls |-> 0, answer |-> "none"]]
  /\ wire = {}

(* create_branch: GitHub answers an existing reference with 422, which the  *)
(* client takes for success whatever the branch points to.                  *)
CreateBranch ==
  /\ reflog = <<>>
  /\ reflog' = <<1>>
  /\ UNCHANGED <<commits, op, wire>>

Pushed(past, tree) == Append(commits, [past |-> past, tree |-> tree])

(* Somebody else pushes to the branch, without force. *)
PushOutside ==
  /\ reflog # <<>> /\ Len(reflog) < MaxHeads
  /\ commits' = Pushed(commits[Tip].past \cup {Tip}, commits[Tip].tree \cup {Outsider})
  /\ reflog' = Append(reflog, Len(commits'))
  /\ UNCHANGED <<op, wire>>

-----------------------------------------------------------------------------
(* create_commit, one action per request whose place among others matters. *)

Closed(o, answer) ==
  [o EXCEPT !.pc = "idle", !.at = 0, !.tree = {}, !.commit = 0, !.answer = answer]

Start(w, at) ==
  /\ op[w].pc = "idle" /\ op[w].calls < MaxCalls
  /\ op' = [op EXCEPT ![w].pc = "ref", ![w].at = at, ![w].calls = @ + 1, ![w].answer = "none"]
  /\ UNCHANGED <<commits, reflog, wire>>

(* Protected branch, file and byte limits, path rules: nothing is sent. *)
RefuseInput(w) ==
  /\ op[w].pc = "ref"
  /\ op' = [op EXCEPT ![w] = Closed(@, "refused")]
  /\ UNCHANGED <<commits, reflog, wire>>

(* 404, or another head than expected_base: "Base branch moved". *)
GetRef(w) ==
  /\ op[w].pc = "ref"
  /\ op' = [op EXCEPT ![w] = IF reflog # <<>> /\ @.at = Len(reflog)
                             THEN [@ EXCEPT !.pc = "tree"] ELSE Closed(@, "refused")]
  /\ UNCHANGED <<commits, reflog, wire>>

(* expected_blob_shas against the contents at expected_base, the tree of    *)
(* expected_base, the blobs and the new tree: what these requests read never *)
(* changes and what they create nobody sees, so they are one step.          *)
PostTree(w, unchanged) ==
  LET base == commits[reflog[op[w].at]] IN
  /\ op[w].pc = "tree"
  /\ op' = [op EXCEPT ![w] = IF unchanged
                             THEN [@ EXCEPT !.pc = "commit", !.tree = base.tree \cup {w}]
                             ELSE Closed(@, "refused")]
  /\ UNCHANGED <<commits, reflog, wire>>

PostCommit(w) ==
  LET base == reflog[op[w].at] IN
  /\ op[w].pc = "commit"
  /\ commits' = Pushed(commits[base].past \cup {base}, op[w].tree)
  /\ op' = [op EXCEPT ![w].pc = "patch", ![w].commit = Len(commits')]
  /\ UNCHANGED <<reflog, wire>>

SendPatch(w) ==
  /\ op[w].pc = "patch"
  /\ op' = [op EXCEPT ![w].pc = "sent"]
  /\ wire' = wire \cup {[writer |-> w, at |-> op[w].at, commit |-> op[w].commit]}
  /\ UNCHANGED <<commits, reflog>>

(* GitHub carries out "force": false, the head must be an ancestor of the    *)
(* commit, or refuses the request for another reason (not served). Its reply *)
(* reaches the writer only if it still waits for it.                        *)
Forced(c) == TRUE
FastForwards(c) == Tip \in commits[c].past

Awaits(u) == op[u.writer].pc = "sent" /\ op[u.writer].commit = u.commit

PatchRef(u, served) ==
  LET moves == served /\ FastForwards(u.commit) IN
  /\ u \in wire
  /\ wire' = wire \ {u}
  /\ reflog' = IF moves THEN Append(reflog, u.commit) ELSE reflog
  /\ op' = IF Awaits(u)
           THEN [op EXCEPT ![u.writer].pc = IF moves THEN "accepted" ELSE "rejected"]
           ELSE op
  /\ UNCHANGED commits

PatchLost(u) ==
  /\ u \in wire
  /\ wire' = wire \ {u}
  /\ UNCHANGED <<commits, reflog, op>>

(* The reply of the PATCH; 422 becomes a VALIDATION failure. *)
Return(w) ==
  /\ op[w].pc \in {"accepted", "rejected"}
  /\ op' = [op EXCEPT ![w] = Closed(@, IF op[w].pc = "accepted" THEN "published" ELSE "refused")]
  /\ UNCHANGED <<commits, reflog, wire>>

(* Any request fails with a status that says it was not carried out ...     *)
Rejected(w) ==
  /\ op[w].pc \in {"ref", "tree", "commit"}
  /\ op' = [op EXCEPT ![w] = Closed(@, "refused")]
  /\ UNCHANGED <<commits, reflog, wire>>

(* ... or with a network error, a timeout, a 5xx or a cancellation.         *)
Retryable(w) ==
  /\ op[w].pc # "idle"
  /\ op' = [op EXCEPT ![w] = Closed(@, "unknown")]
  /\ UNCHANGED <<commits, reflog, wire>>

CreateCommit(w) ==
  \/ \E at \in 0 .. Len(reflog) : Start(w, at)
  \/ RefuseInput(w) \/ GetRef(w) \/ (\E unchanged \in BOOLEAN : PostTree(w, unchanged))
  \/ PostCommit(w) \/ SendPatch(w)
  \/ Return(w) \/ Rejected(w) \/ Retryable(w)

BranchNext ==
  \/ CreateBranch \/ PushOutside
  \/ \E w \in Writers : CreateCommit(w)
  \/ \E u \in wire : PatchLost(u) \/ \E served \in BOOLEAN : PatchRef(u, served)

BranchSpec == BranchInit /\ [][BranchNext]_branch

-----------------------------------------------------------------------------
(* The branch as a log of snapshots. *)
Fate(pc) == CASE pc = "idle" -> "closed" [] pc = "accepted" -> "applied" [] OTHER -> "open"

Snapshots == [i \in DOMAIN reflog |-> commits[reflog[i]].tree]
Requests ==
  [w \in Writers |-> [state |-> Fate(op[w].pc), base |-> op[w].at, answer |-> op[w].answer]]
LateRequests == {<<u.writer, u.at>> : u \in {v \in wire : ~Awaits(v)}}

Log == INSTANCE BranchLog WITH
  snapshots <- Snapshots, request <- Requests, late <- LateRequests

(* create_commit implements a compare-and-set: no reply is wrong about what *)
(* happened, no change is lost from a later head and none is applied twice  *)
(* for one expected_base, although the check of the head and the update are *)
(* several requests apart and an update may arrive after its caller gave up. *)
ImplementsBranchLog == Log!LogSpec
=============================================================================
