------------------------------ MODULE BranchLog ------------------------------
(***************************************************************************)
(* What a writer of an agent branch may rely on. The branch is a log of     *)
(* snapshots, each holding every change of the one before it. A request to  *)
(* change it is a compare-and-set on the latest snapshot: it takes effect   *)
(* once or not at all, it has taken effect when it is answered "published"  *)
(* and never does when it is "refused". "unknown" leaves it open, and the   *)
(* change may still arrive.                                                 *)
(***************************************************************************)
EXTENDS Naturals, Sequences

CONSTANTS
  Writers,   \* callers of create_commit on the branch
  Outsider   \* anybody else who pushes to it

VARIABLES
  snapshots,  \* the changes in each head of the branch, oldest first
  request,    \* each writer's request: the snapshot it builds on, its fate
  late        \* requests answered "unknown" that may still arrive

log == <<snapshots, request, late>>

LogInit ==
  /\ snapshots = <<>>
  /\ request = [w \in Writers |-> [state |-> "closed", base |-> 0, answer |-> "none"]]
  /\ late = {}

Extended(author) == Append(snapshots, snapshots[Len(snapshots)] \cup {author})

CreateLog == snapshots = <<>> /\ snapshots' = <<{}>> /\ UNCHANGED <<request, late>>

PushOutside ==
  /\ snapshots # <<>>
  /\ snapshots' = Extended(Outsider)
  /\ UNCHANGED <<request, late>>

Open(w) ==
  /\ request[w].state = "closed"
  /\ \E base \in 0 .. Len(snapshots) :
       request' = [request EXCEPT ![w] = [state |-> "open", base |-> base, answer |-> "none"]]
  /\ UNCHANGED <<snapshots, late>>

Apply(w) ==
  /\ request[w].state = "open"
  /\ snapshots # <<>> /\ request[w].base = Len(snapshots)
  /\ snapshots' = Extended(w)
  /\ request' = [request EXCEPT ![w].state = "applied"]
  /\ UNCHANGED late

Answered(w, answer) ==
  request' = [request EXCEPT ![w] = [state |-> "closed", base |-> 0, answer |-> answer]]

Answer(w) ==
  /\ \/ request[w].state = "applied" /\ Answered(w, "published")
     \/ request[w].state = "open" /\ Answered(w, "refused")
     \/ request[w].state # "closed" /\ Answered(w, "unknown")
  /\ UNCHANGED <<snapshots, late>>

Abandon(w) ==
  /\ request[w].state = "open"
  /\ Answered(w, "unknown")
  /\ late' = late \cup {<<w, request[w].base>>}
  /\ UNCHANGED snapshots

ApplyLate(w, base) ==
  /\ <<w, base>> \in late
  /\ snapshots # <<>> /\ base = Len(snapshots)
  /\ snapshots' = Extended(w)
  /\ late' \in {late, late \ {<<w, base>>}}
  /\ UNCHANGED request

Forget(w, base) ==
  /\ <<w, base>> \in late
  /\ late' = late \ {<<w, base>>}
  /\ UNCHANGED <<snapshots, request>>

LogNext ==
  \/ CreateLog \/ PushOutside
  \/ \E w \in Writers : Open(w) \/ Apply(w) \/ Answer(w) \/ Abandon(w)
  \/ \E w \in Writers, base \in 0 .. Len(snapshots) : ApplyLate(w, base) \/ Forget(w, base)

LogSpec == LogInit /\ [][LogNext]_log
=============================================================================
