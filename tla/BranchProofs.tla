---------------------------- MODULE BranchProofs ----------------------------
(***************************************************************************)
(* create_commit implements the compare-and-set log of module BranchLog for *)
(* every set of writers, every number of calls and every interleaving of    *)
(* their requests, lost and late ones included.                             *)
(***************************************************************************)
EXTENDS GitHubBranch, SequenceTheorems, TLAPS

(* The commit c a request asks for: one parent, the expected base, and one   *)
(* change more than it.                                                     *)
BuiltOn(at, c, w) ==
  /\ at \in 1 .. Len(reflog)
  /\ c \in 1 .. Len(commits)
  /\ commits[c].past = commits[reflog[at]].past \cup {reflog[at]}
  /\ commits[c].tree = commits[reflog[at]].tree \cup {w}

(* A commit is made after every commit it descends from. *)
AncestorsFirst == \A c \in 1 .. Len(commits) : \A p \in commits[c].past : p < c

(* The branch only ever fast-forwards. *)
HeadsDescend ==
  \A i, j \in 1 .. Len(reflog) : i < j => reflog[i] \in commits[reflog[j]].past

(* What a call holds from its earlier requests still describes its base,     *)
(* however far the branch has moved.                                        *)
CallsBuilt ==
  \A w \in Writers :
    /\ op[w].pc \in {"tree", "commit"} => op[w].at \in 1 .. Len(reflog)
    /\ op[w].pc = "commit" => op[w].tree = commits[reflog[op[w].at]].tree \cup {w}
    /\ op[w].pc \in {"patch", "sent"} => BuiltOn(op[w].at, op[w].commit, w)

WireBuilt == \A u \in wire : BuiltOn(u.at, u.commit, u.writer)

(* A commit is asked for once, by the call that made it. *)
AskedOnce ==
  \A u \in wire :
    /\ op[u.writer].pc = "patch" => u.commit # op[u.writer].commit
    /\ Awaits(u) => u.at = op[u.writer].at

BranchInv ==
  /\ Len(commits) >= 1 /\ commits[1].tree = {}
  /\ BranchTypeOK /\ AncestorsFirst /\ HeadsDescend
  /\ CallsBuilt /\ WireBuilt /\ AskedOnce

-----------------------------------------------------------------------------
(* Sequences and records. *)

LEMMA Appended ==
  ASSUME NEW S, NEW s \in Seq(S), NEW x \in S
  PROVE  /\ Append(s, x) \in Seq(S)
         /\ Len(s) \in Nat
         /\ Len(Append(s, x)) = Len(s) + 1
         /\ \A i \in 1 .. Len(s) : Append(s, x)[i] = s[i] /\ s[i] \in S
         /\ Append(s, x)[Len(s) + 1] = x
  OBVIOUS

LEMMA SeqWidens ==
  ASSUME NEW m \in Nat, NEW n \in Nat, m <= n, NEW s \in Seq(1 .. m)
  PROVE  s \in Seq(1 .. n)
  OBVIOUS

LEMMA Elements ==
  ASSUME NEW S, NEW s \in Seq(S)
  PROVE  Len(s) \in Nat /\ DOMAIN s = 1 .. Len(s) /\ \A i \in 1 .. Len(s) : s[i] \in S
  OBVIOUS

(* What a request leaves of a call's record is one. *)
LEMMA Moved ==
  ASSUME NEW o \in Operation, NEW c \in Nat
  PROVE  /\ [o EXCEPT !.pc = "patch", !.commit = c] \in Operation
         /\ \A pc \in {"tree", "sent", "accepted", "rejected"} : [o EXCEPT !.pc = pc] \in Operation
         /\ \A changes \in SUBSET Authors : [o EXCEPT !.pc = "commit", !.tree = changes] \in Operation
         /\ \A answer \in {"published", "refused", "unknown"} : Closed(o, answer) \in Operation
<1>1. [o EXCEPT !.pc = "patch", !.commit = c] \in Operation
  BY DEF Operation
<1>2. \A pc \in {"tree", "sent", "accepted", "rejected"} : [o EXCEPT !.pc = pc] \in Operation
  BY DEF Operation
<1>3. \A changes \in SUBSET Authors : [o EXCEPT !.pc = "commit", !.tree = changes] \in Operation
  BY DEF Operation
<1>4. \A answer \in {"published", "refused", "unknown"} : Closed(o, answer) \in Operation
  BY DEF Operation, Closed
<1> QED
  BY <1>1, <1>2, <1>3, <1>4

LEMMA Started ==
  ASSUME NEW o \in Operation, NEW at \in Nat, o.calls + 1 \in 0 .. MaxCalls
  PROVE  LET opened == [o EXCEPT !.pc = "ref", !.at = at, !.calls = @ + 1, !.answer = "none"]
         IN  opened \in Operation /\ opened.pc = "ref"
  BY DEF Operation

(* Commits and heads are only added. *)
Grows ==
  /\ Len(commits) <= Len(commits') /\ Len(commits') \in Nat
  /\ \A c \in 1 .. Len(commits) : commits'[c] = commits[c]
  /\ Len(reflog) <= Len(reflog') /\ Len(reflog') \in Nat
  /\ \A i \in 1 .. Len(reflog) : reflog'[i] = reflog[i]

LEMMA BuiltKept ==
  ASSUME BranchTypeOK, Grows, NEW at, NEW c, NEW w, BuiltOn(at, c, w)
  PROVE  BuiltOn(at, c, w)'
<1>1. Len(reflog) \in Nat /\ Len(commits) \in Nat /\ \A i \in 1 .. Len(reflog) : reflog[i] \in 1 .. Len(commits)
  BY Elements DEF BranchTypeOK
<1> QED
  BY <1>1 DEF Grows, BuiltOn

(* A head that is an ancestor of the commit asked for is its base: the check *)
(* GitHub makes at the update is the one GetRef made earlier.                *)
LEMMA FastForwardIsBase ==
  ASSUME BranchInv, NEW at, NEW c, NEW w, BuiltOn(at, c, w), FastForwards(c)
  PROVE  at = Len(reflog) /\ reflog[at] = Tip
<1>1. Len(reflog) \in Nat /\ Len(commits) \in Nat /\ \A i \in 1 .. Len(reflog) : reflog[i] \in 1 .. Len(commits)
  BY Elements DEF BranchInv, BranchTypeOK
<1>2. SUFFICES ASSUME at # Len(reflog) PROVE FALSE
  BY <1>2 DEF Tip
<1>3. at < Len(reflog) /\ Len(reflog) \in 1 .. Len(reflog)
  BY <1>1, <1>2 DEF BuiltOn
<1>4. reflog[at] \in commits[Tip].past /\ Tip \in 1 .. Len(commits) /\ reflog[at] \in 1 .. Len(commits)
  BY <1>1, <1>3 DEF BranchInv, HeadsDescend, BuiltOn, Tip
<1>5. reflog[at] < Tip
  BY <1>4 DEF BranchInv, AncestorsFirst
<1>6. Tip \in commits[reflog[at]].past \cup {reflog[at]}
  BY DEF BuiltOn, FastForwards
<1>7. Tip <= reflog[at]
  BY <1>4, <1>6 DEF BranchInv, AncestorsFirst
<1> QED
  BY <1>4, <1>5, <1>7

-----------------------------------------------------------------------------
(* Each request keeps the invariant. *)

LEMMA PostedKept ==
  ASSUME BranchInv, NEW w \in Writers, PostCommit(w)
  PROVE  BranchInv'
<1> DEFINE base == reflog[op[w].at]
           made == [past |-> commits[base].past \cup {base}, tree |-> op[w].tree]
<1>1. /\ op[w] \in Operation /\ op[w].pc = "commit" /\ op[w].at \in 1 .. Len(reflog)
      /\ op[w].tree = commits[base].tree \cup {w}
  BY DEF BranchInv, BranchTypeOK, CallsBuilt, PostCommit
<1>2. Len(reflog) \in Nat /\ Len(commits) \in Nat /\ \A i \in 1 .. Len(reflog) : reflog[i] \in 1 .. Len(commits)
  BY Elements DEF BranchInv, BranchTypeOK
<1>3. base \in 1 .. Len(commits) /\ commits[base] \in Commit
  BY <1>1, <1>2, Elements DEF BranchInv, BranchTypeOK
<1>4. made \in Commit
  BY <1>1, <1>3 DEF Commit, Operation
<1>5. commits' = Append(commits, made) /\ reflog' = reflog /\ wire' = wire
  BY DEF PostCommit, Pushed
<1>6. /\ commits' \in Seq(Commit) /\ Len(commits') = Len(commits) + 1
      /\ \A c \in 1 .. Len(commits) : commits'[c] = commits[c]
      /\ commits'[Len(commits) + 1] = made
  BY <1>4, <1>5, Appended DEF BranchInv, BranchTypeOK
<1>7. Grows
  BY <1>2, <1>5, <1>6 DEF Grows
<1>8. op' = [op EXCEPT ![w].pc = "patch", ![w].commit = Len(commits) + 1]
  BY <1>6 DEF PostCommit
<1>9. BranchTypeOK'
  <2>1. reflog' \in Seq(1 .. Len(commits'))
    BY <1>2, <1>5, <1>6, SeqWidens DEF BranchInv, BranchTypeOK
  <2>2. op' \in [Writers -> Operation]
    <3>1. [op[w] EXCEPT !.pc = "patch", !.commit = Len(commits) + 1] \in Operation
      <4>1. op[w] \in Operation /\ Len(commits) + 1 \in Nat
        BY <1>1, <1>2
      <4> QED
        BY <4>1, Moved
    <3> QED
      BY <1>8, <3>1 DEF BranchInv, BranchTypeOK
  <2> QED
    BY <1>5, <1>6, <2>1, <2>2 DEF BranchInv, BranchTypeOK
<1>10. AncestorsFirst'
  <2> SUFFICES ASSUME NEW c \in 1 .. Len(commits'), NEW p \in commits'[c].past PROVE p < c
    BY DEF AncestorsFirst
  <2>1. CASE c \in 1 .. Len(commits)
    BY <1>6, <2>1 DEF BranchInv, AncestorsFirst
  <2>2. CASE c = Len(commits) + 1
    <3>1. p \in commits[base].past \/ p = base
      BY <1>6, <2>2
    <3>2. p \in Nat /\ p <= base
      BY <1>3, <3>1 DEF BranchInv, AncestorsFirst, Commit
    <3> QED
      BY <1>2, <1>3, <2>2, <3>2
  <2> QED
    BY <1>2, <1>6, <2>1, <2>2
<1>11. HeadsDescend'
  BY <1>2, <1>5, <1>6 DEF BranchInv, HeadsDescend
<1>12. BuiltOn(op[w].at, op[w].commit, w)'
  <2>1. op'[w].at = op[w].at /\ op'[w].commit = Len(commits) + 1
    BY <1>1, <1>8 DEF BranchInv, BranchTypeOK, Operation
  <2>2. commits'[Len(commits) + 1].past = commits[base].past \cup {base}
    BY <1>6
  <2>3. commits'[Len(commits) + 1].tree = commits[base].tree \cup {w}
    BY <1>1, <1>6
  <2> HIDE DEF base
  <2>4. reflog'[op'[w].at] = base
    BY <1>5, <2>1 DEF base
  <2>5. commits'[base] = commits[base] /\ Len(commits') = Len(commits) + 1
    BY <1>3, <1>6
  <2> QED
    BY <1>1, <1>2, <1>5, <2>1, <2>2, <2>3, <2>4, <2>5 DEF BuiltOn
<1>13. CallsBuilt'
  <2> SUFFICES ASSUME NEW v \in Writers
               PROVE  /\ op'[v].pc \in {"tree", "commit"} => op'[v].at \in 1 .. Len(reflog')
                      /\ op'[v].pc = "commit" => op'[v].tree = commits'[reflog'[op'[v].at]].tree \cup {v}
                      /\ op'[v].pc \in {"patch", "sent"} => BuiltOn(op[v].at, op[v].commit, v)'
    BY DEF CallsBuilt, BuiltOn
  <2>1. CASE v = w
    <3>1. op'[w].pc = "patch"
      BY <1>1, <1>8 DEF BranchInv, BranchTypeOK, Operation
    <3> QED
      BY <1>12, <2>1, <3>1
  <2>2. CASE v # w
    <3>1. op'[v] = op[v]
      BY <1>8, <2>2 DEF BranchInv, BranchTypeOK
    <3>2. op[v].pc \in {"patch", "sent"} => BuiltOn(op[v].at, op[v].commit, v)'
      <4>1. ASSUME op[v].pc \in {"patch", "sent"}
            PROVE  BuiltOn(op[v].at, op[v].commit, v)'
        <5> DEFINE a == op[v].at  c == op[v].commit
        <5>1. BuiltOn(a, c, v)
          BY <4>1 DEF BranchInv, CallsBuilt
        <5>2. a \in 1 .. Len(reflog) /\ c \in 1 .. Len(commits) /\ reflog[a] \in 1 .. Len(commits)
          BY <1>2, <5>1 DEF BuiltOn
        <5>3. reflog'[a] = reflog[a] /\ commits'[c] = commits[c] /\ commits'[reflog[a]] = commits[reflog[a]]
          BY <1>5, <1>6, <5>2
        <5>4. a \in 1 .. Len(reflog') /\ c \in 1 .. Len(commits')
          BY <1>2, <1>5, <1>6, <5>2
        <5>5. op'[v].at = a /\ op'[v].commit = c
          BY <3>1
        <5> HIDE DEF a, c
        <5> QED
          BY <5>1, <5>3, <5>4, <5>5 DEF BuiltOn
      <4> QED
        BY <4>1
    <3> QED
      BY <1>2, <1>5, <1>6, <3>1, <3>2 DEF BranchInv, CallsBuilt
  <2> QED
    BY <2>1, <2>2
<1>14. WireBuilt'
  <2> SUFFICES ASSUME NEW u \in wire' PROVE BuiltOn(u.at, u.commit, u.writer)'
    BY DEF WireBuilt
  <2> QED
    BY <1>5, <1>7, BuiltKept DEF BranchInv, WireBuilt
<1>15. AskedOnce'
  BY <1>2, <1>5, <1>8 DEF BranchInv, BranchTypeOK, WireBuilt, BuiltOn, AskedOnce, Awaits, Update
<1>16. Len(commits') >= 1 /\ commits'[1].tree = {}
  BY <1>2, <1>6 DEF BranchInv
<1> QED
  BY <1>9, <1>10, <1>11, <1>13, <1>14, <1>15, <1>16 DEF BranchInv

(* A step that adds commits or heads, loses requests, and ends the calls it  *)
(* changes or leaves them with nothing to ask.                              *)
LEMMA GrowthKept ==
  ASSUME BranchInv, Grows, BranchTypeOK', AncestorsFirst', HeadsDescend', wire' \subseteq wire,
         \A w \in Writers : op'[w] = op[w] \/ op'[w].pc \in {"idle", "accepted", "rejected"}
  PROVE  BranchInv'
<1>1. Len(reflog) \in Nat /\ Len(commits) \in Nat /\ \A i \in 1 .. Len(reflog) : reflog[i] \in 1 .. Len(commits)
  BY Elements DEF BranchInv, BranchTypeOK
<1>2. CallsBuilt'
  <2> SUFFICES ASSUME NEW w \in Writers
               PROVE  /\ op'[w].pc \in {"tree", "commit"} => op'[w].at \in 1 .. Len(reflog')
                      /\ op'[w].pc = "commit" => op'[w].tree = commits'[reflog'[op'[w].at]].tree \cup {w}
                      /\ op'[w].pc \in {"patch", "sent"} => BuiltOn(op[w].at, op[w].commit, w)'
    BY DEF CallsBuilt
  <2>1. CASE op'[w] = op[w]
    <3>1. op[w].pc \in {"patch", "sent"} => BuiltOn(op[w].at, op[w].commit, w)
      BY DEF BranchInv, CallsBuilt
    <3>2. ASSUME op[w].pc \in {"patch", "sent"}
          PROVE  BuiltOn(op[w].at, op[w].commit, w)'
      <4>1. BuiltOn(op[w].at, op[w].commit, w)
        BY <3>1, <3>2
      <4>2. /\ op[w].at \in 1 .. Len(reflog) /\ op[w].commit \in 1 .. Len(commits)
            /\ reflog[op[w].at] \in 1 .. Len(commits)
        BY <1>1, <4>1 DEF BuiltOn
      <4>3. /\ op[w].at \in 1 .. Len(reflog') /\ op[w].commit \in 1 .. Len(commits')
            /\ reflog'[op[w].at] = reflog[op[w].at]
            /\ commits'[op[w].commit] = commits[op[w].commit]
            /\ commits'[reflog[op[w].at]] = commits[reflog[op[w].at]]
        BY <1>1, <4>2 DEF Grows
      <4> QED
        BY <2>1, <4>1, <4>3 DEF BuiltOn
    <3>3. ASSUME op[w].pc \in {"tree", "commit"}
          PROVE  /\ op[w].at \in 1 .. Len(reflog')
                 /\ op[w].pc = "commit" => op[w].tree = commits'[reflog'[op[w].at]].tree \cup {w}
      <4>1. op[w].at \in 1 .. Len(reflog) /\ reflog[op[w].at] \in 1 .. Len(commits)
        BY <1>1, <3>3 DEF BranchInv, CallsBuilt
      <4>2. /\ op[w].at \in 1 .. Len(reflog') /\ reflog'[op[w].at] = reflog[op[w].at]
            /\ commits'[reflog[op[w].at]] = commits[reflog[op[w].at]]
        BY <1>1, <4>1 DEF Grows
      <4> QED
        BY <4>2 DEF BranchInv, CallsBuilt
    <3> QED
      BY <2>1, <3>2, <3>3
  <2>2. CASE op'[w].pc \in {"idle", "accepted", "rejected"}
    BY <2>2
  <2> QED
    BY <2>1, <2>2
<1>3. WireBuilt'
  <2> SUFFICES ASSUME NEW u \in wire' PROVE BuiltOn(u.at, u.commit, u.writer)'
    BY DEF WireBuilt
  <2> QED
    BY BuiltKept DEF BranchInv, WireBuilt
<1>4. AskedOnce'
  BY DEF BranchInv, BranchTypeOK, AskedOnce, Awaits, Update
<1>5. Len(commits') >= 1 /\ commits'[1].tree = {}
  BY <1>1 DEF BranchInv, Grows
<1> QED
  BY <1>2, <1>3, <1>4, <1>5 DEF BranchInv

(* A new head that descends from every head before it. *)
LEMMA HeadKept ==
  ASSUME BranchInv, NEW c \in 1 .. Len(commits'), reflog' = Append(reflog, c),
         Len(commits) <= Len(commits'), commits' \in Seq(Commit),
         \A d \in 1 .. Len(commits) : commits'[d] = commits[d],
         \A i \in 1 .. Len(reflog) : reflog[i] \in commits'[c].past
  PROVE  Grows /\ HeadsDescend' /\ reflog' \in Seq(1 .. Len(commits'))
<1>1. Len(reflog) \in Nat /\ Len(commits) \in Nat /\ \A i \in 1 .. Len(reflog) : reflog[i] \in 1 .. Len(commits)
  BY Elements DEF BranchInv, BranchTypeOK
<1>2. Len(commits') \in Nat
  OBVIOUS
<1>3. reflog \in Seq(1 .. Len(commits'))
  BY <1>1, <1>2, SeqWidens DEF BranchInv, BranchTypeOK
<1>4. /\ reflog' \in Seq(1 .. Len(commits')) /\ Len(reflog') = Len(reflog) + 1
      /\ \A i \in 1 .. Len(reflog) : reflog'[i] = reflog[i]
      /\ reflog'[Len(reflog) + 1] = c
  BY <1>3, Appended
<1>5. Grows
  BY <1>1, <1>2, <1>4 DEF Grows
<1>6. HeadsDescend'
  <2> SUFFICES ASSUME NEW i \in 1 .. Len(reflog'), NEW j \in 1 .. Len(reflog'), i < j
               PROVE  reflog'[i] \in commits'[reflog'[j]].past
    BY DEF HeadsDescend
  <2>1. CASE j \in 1 .. Len(reflog)
    <3>1. i \in 1 .. Len(reflog) /\ reflog[j] \in 1 .. Len(commits)
      BY <1>1, <2>1
    <3>2. reflog[i] \in commits[reflog[j]].past
      BY <2>1, <3>1 DEF BranchInv, HeadsDescend
    <3> QED
      BY <1>4, <2>1, <3>1, <3>2
  <2>2. CASE j = Len(reflog) + 1
    BY <1>1, <1>4, <2>2
  <2> QED
    BY <1>1, <1>4, <2>1, <2>2
<1> QED
  BY <1>4, <1>5, <1>6

(* The heads are the ancestors of the tip, and the tip. *)
LEMMA HeadsBelowTip ==
  ASSUME BranchInv, reflog # <<>>
  PROVE  /\ Tip \in 1 .. Len(commits)
         /\ \A i \in 1 .. Len(reflog) : reflog[i] \in commits[Tip].past \cup {Tip}
<1>1. Len(reflog) \in Nat /\ Len(commits) \in Nat /\ \A i \in 1 .. Len(reflog) : reflog[i] \in 1 .. Len(commits)
  BY Elements DEF BranchInv, BranchTypeOK
<1>2. Len(reflog) \in 1 .. Len(reflog)
  BY <1>1 DEF BranchInv, BranchTypeOK
<1> QED
  BY <1>1, <1>2 DEF BranchInv, HeadsDescend, Tip

LEMMA PushKept ==
  ASSUME BranchInv, PushOutside
  PROVE  BranchInv'
<1> DEFINE made == [past |-> commits[Tip].past \cup {Tip}, tree |-> commits[Tip].tree \cup {Outsider}]
<1>1. Len(commits) \in Nat /\ reflog # <<>> /\ op' = op /\ wire' = wire
  BY Elements DEF BranchInv, BranchTypeOK, PushOutside
<1>2. Tip \in 1 .. Len(commits) /\ \A i \in 1 .. Len(reflog) : reflog[i] \in commits[Tip].past \cup {Tip}
  BY <1>1, HeadsBelowTip
<1>3. commits[Tip] \in Commit
  BY <1>2, Elements DEF BranchInv, BranchTypeOK
<1>4. made \in Commit
  BY <1>2, <1>3 DEF Commit, Authors
<1>5. commits' = Append(commits, made)
  BY DEF PushOutside, Pushed
<1>6. made.past = commits[Tip].past \cup {Tip}
  OBVIOUS
<1> HIDE DEF made
<1>7. /\ commits' \in Seq(Commit) /\ Len(commits') = Len(commits) + 1
      /\ \A c \in 1 .. Len(commits) : commits'[c] = commits[c]
      /\ commits'[Len(commits) + 1] = made
  BY <1>4, <1>5, Appended DEF BranchInv, BranchTypeOK
<1>8. Grows /\ HeadsDescend' /\ reflog' \in Seq(1 .. Len(commits'))
  <2>1. reflog' = Append(reflog, Len(commits'))
    BY DEF PushOutside
  <2>2. Len(commits') \in 1 .. Len(commits') /\ Len(commits) <= Len(commits')
    BY <1>1, <1>7
  <2>3. \A i \in 1 .. Len(reflog) : reflog[i] \in commits'[Len(commits')].past
    BY <1>2, <1>6, <1>7
  <2> QED
    BY <1>7, <2>1, <2>2, <2>3, HeadKept
<1>9. AncestorsFirst'
  <2> SUFFICES ASSUME NEW c \in 1 .. Len(commits'), NEW p \in commits'[c].past PROVE p < c
    BY DEF AncestorsFirst
  <2>1. CASE c \in 1 .. Len(commits)
    BY <1>7, <2>1 DEF BranchInv, AncestorsFirst
  <2>2. CASE c = Len(commits) + 1
    <3>1. p \in commits[Tip].past \/ p = Tip
      BY <1>6, <1>7, <2>2
    <3>2. p \in Nat /\ p <= Tip
      BY <1>2, <1>3, <3>1 DEF BranchInv, AncestorsFirst, Commit
    <3> QED
      BY <1>1, <1>2, <2>2, <3>2
  <2> QED
    BY <1>1, <1>7, <2>1, <2>2
<1>10. BranchTypeOK'
  BY <1>1, <1>7, <1>8 DEF BranchInv, BranchTypeOK
<1> QED
  BY <1>1, <1>8, <1>9, <1>10, GrowthKept

LEMMA CreateKept ==
  ASSUME BranchInv, CreateBranch
  PROVE  BranchInv'
<1>1. reflog' = Append(reflog, 1) /\ commits' = commits /\ op' = op /\ wire' = wire /\ Len(reflog) = 0
  BY DEF CreateBranch
<1>2. Len(commits) \in Nat /\ commits \in Seq(Commit)
  BY Elements DEF BranchInv, BranchTypeOK
<1>3. Grows /\ HeadsDescend' /\ reflog' \in Seq(1 .. Len(commits'))
  <2>1. 1 \in 1 .. Len(commits')
    BY <1>1, <1>2 DEF BranchInv
  <2> QED
    BY <1>1, <1>2, <2>1, HeadKept
<1>4. BranchTypeOK' /\ AncestorsFirst'
  BY <1>1, <1>3 DEF BranchInv, BranchTypeOK, AncestorsFirst
<1> QED
  BY <1>1, <1>3, <1>4, GrowthKept

LEMMA PatchKept ==
  ASSUME BranchInv, NEW u \in wire, NEW served \in BOOLEAN, PatchRef(u, served)
  PROVE  BranchInv'
<1>1. u \in Update /\ u.writer \in Writers /\ BuiltOn(u.at, u.commit, u.writer)
  BY DEF BranchInv, BranchTypeOK, WireBuilt, Update
<1>2. Len(commits) \in Nat /\ Len(reflog) \in Nat /\ commits \in Seq(Commit) /\ op \in [Writers -> Operation]
  BY Elements DEF BranchInv, BranchTypeOK
<1>3. wire' \subseteq wire /\ commits' = commits
  BY DEF PatchRef
<1>4. /\ op' \in [Writers -> Operation]
      /\ \A w \in Writers : op'[w] = op[w] \/ op'[w].pc \in {"idle", "accepted", "rejected"}
  <2>1. CASE op' = op
    BY <1>2, <2>1
  <2>2. ASSUME NEW pc \in {"accepted", "rejected"}, op' = [op EXCEPT ![u.writer].pc = pc]
        PROVE  <1>4
    <3>1. [op[u.writer] EXCEPT !.pc = pc] \in Operation /\ [op[u.writer] EXCEPT !.pc = pc].pc = pc
      <4>1. op[u.writer] \in Operation /\ 0 \in Nat
        BY <1>1, <1>2
      <4> QED
        BY <4>1, Moved DEF Operation
    <3> QED
      BY <1>1, <1>2, <2>2, <3>1
  <2> QED
    BY <2>1, <2>2 DEF PatchRef
<1>5. CASE served /\ FastForwards(u.commit)
  <2>1. reflog' = Append(reflog, u.commit)
    BY <1>5 DEF PatchRef
  <2>2. reflog[u.at] = Tip /\ u.at \in 1 .. Len(reflog)
    BY <1>1, <1>5, FastForwardIsBase DEF BuiltOn
  <2>3. reflog # <<>>
    BY <2>2
  <2>4. \A i \in 1 .. Len(reflog) : reflog[i] \in commits'[u.commit].past
    BY <1>1, <1>3, <2>2, <2>3, HeadsBelowTip DEF BuiltOn
  <2>5. u.commit \in 1 .. Len(commits')
    BY <1>1, <1>3 DEF BuiltOn
  <2>6. Grows /\ HeadsDescend' /\ reflog' \in Seq(1 .. Len(commits'))
    BY <1>2, <1>3, <2>1, <2>4, <2>5, HeadKept
  <2>7. BranchTypeOK' /\ AncestorsFirst'
    BY <1>3, <1>4, <2>6 DEF BranchInv, BranchTypeOK, AncestorsFirst
  <2> QED
    BY <1>3, <1>4, <2>6, <2>7, GrowthKept
<1>6. CASE ~(served /\ FastForwards(u.commit))
  <2>1. reflog' = reflog
    BY <1>6 DEF PatchRef
  <2>2. Grows
    BY <1>2, <1>3, <2>1 DEF Grows
  <2>3. BranchTypeOK' /\ AncestorsFirst' /\ HeadsDescend'
    BY <1>3, <1>4, <2>1 DEF BranchInv, BranchTypeOK, AncestorsFirst, HeadsDescend
  <2> QED
    BY <1>3, <1>4, <2>2, <2>3, GrowthKept
<1> QED
  BY <1>5, <1>6

(* A step of one call that leaves the repository alone. *)
LEMMA CallKept ==
  ASSUME BranchInv, NEW w \in Writers, NEW o \in Operation,
         commits' = commits, reflog' = reflog, op' = [op EXCEPT ![w] = o], wire' = wire,
         o.pc \in {"tree", "commit"} => o.at \in 1 .. Len(reflog),
         o.pc = "commit" => o.tree = commits[reflog[o.at]].tree \cup {w},
         o.pc \notin {"patch", "sent"}
  PROVE  BranchInv'
<1>1. op \in [Writers -> Operation]
  BY DEF BranchInv, BranchTypeOK
<1>2. op'[w] = o /\ \A v \in Writers : v # w => op'[v] = op[v]
  BY <1>1
<1>3. BranchTypeOK'
  BY <1>1 DEF BranchInv, BranchTypeOK
<1>4. CallsBuilt'
  <2> SUFFICES ASSUME NEW v \in Writers
               PROVE  /\ op'[v].pc \in {"tree", "commit"} => op'[v].at \in 1 .. Len(reflog')
                      /\ op'[v].pc = "commit" => op'[v].tree = commits'[reflog'[op'[v].at]].tree \cup {v}
                      /\ op'[v].pc \in {"patch", "sent"} => BuiltOn(op[v].at, op[v].commit, v)'
    BY DEF CallsBuilt
  <2>1. CASE v = w
    BY <1>2, <2>1
  <2>2. CASE v # w
    <3>1. op'[v] = op[v]
      BY <1>2, <2>2
    <3> QED
      BY <3>1 DEF BranchInv, CallsBuilt, BuiltOn
  <2> QED
    BY <2>1, <2>2
<1>5. AncestorsFirst' /\ HeadsDescend' /\ Len(commits') >= 1 /\ commits'[1].tree = {}
  BY DEF BranchInv, AncestorsFirst, HeadsDescend
<1>6. WireBuilt'
  BY DEF BranchInv, WireBuilt, BuiltOn
<1>7. AskedOnce'
  BY <1>2 DEF BranchInv, BranchTypeOK, Update, AskedOnce, Awaits
<1> QED
  BY <1>3, <1>4, <1>5, <1>6, <1>7 DEF BranchInv

LEMMA ClosedKept ==
  ASSUME BranchInv, NEW w \in Writers, NEW answer \in {"published", "refused", "unknown"},
         op' = [op EXCEPT ![w] = Closed(@, answer)], UNCHANGED <<commits, reflog, wire>>
  PROVE  BranchInv'
<1>1. op[w] \in Operation /\ 0 \in Nat
  BY DEF BranchInv, BranchTypeOK
<1>2. Closed(op[w], answer) \in Operation
  BY <1>1, Moved
<1>3. Closed(op[w], answer).pc = "idle"
  BY <1>1 DEF Closed, Operation
<1> QED
  BY <1>2, <1>3, CallKept

LEMMA SendKept ==
  ASSUME BranchInv, NEW w \in Writers, SendPatch(w)
  PROVE  BranchInv'
<1> DEFINE u == [writer |-> w, at |-> op[w].at, commit |-> op[w].commit]
<1>1. op \in [Writers -> Operation] /\ op[w].pc = "patch" /\ BuiltOn(op[w].at, op[w].commit, w)
  BY DEF BranchInv, BranchTypeOK, SendPatch, CallsBuilt
<1>2. [op[w] EXCEPT !.pc = "sent"] \in Operation
  <2>1. op[w] \in Operation /\ 0 \in Nat
    BY <1>1
  <2> QED
    BY <2>1, Moved
<1>3. commits' = commits /\ reflog' = reflog /\ wire' = wire \cup {u}
  BY DEF SendPatch
<1>4. /\ op'[w].pc = "sent" /\ op'[w].at = op[w].at /\ op'[w].commit = op[w].commit
      /\ \A v \in Writers : v # w => op'[v] = op[v]
  BY <1>1 DEF SendPatch, Operation
<1>5. u \in Update /\ u.writer = w /\ u.at = op[w].at /\ u.commit = op[w].commit
  BY <1>1 DEF Update, Operation
<1> HIDE DEF u
<1>6. BranchTypeOK'
  BY <1>1, <1>2, <1>3, <1>5 DEF BranchInv, BranchTypeOK, SendPatch
<1>7. AncestorsFirst' /\ HeadsDescend' /\ Len(commits') >= 1 /\ commits'[1].tree = {}
  BY <1>3 DEF BranchInv, AncestorsFirst, HeadsDescend
<1>8. CallsBuilt'
  <2> SUFFICES ASSUME NEW v \in Writers
               PROVE  /\ op'[v].pc \in {"tree", "commit"} => op'[v].at \in 1 .. Len(reflog')
                      /\ op'[v].pc = "commit" => op'[v].tree = commits'[reflog'[op'[v].at]].tree \cup {v}
                      /\ op'[v].pc \in {"patch", "sent"} => BuiltOn(op[v].at, op[v].commit, v)'
    BY DEF CallsBuilt
  <2>1. CASE v = w
    BY <1>1, <1>3, <1>4, <2>1 DEF BuiltOn
  <2>2. CASE v # w
    BY <1>3, <1>4, <2>2 DEF BranchInv, CallsBuilt, BuiltOn
  <2> QED
    BY <2>1, <2>2
<1>9. WireBuilt'
  BY <1>1, <1>3, <1>5 DEF BranchInv, WireBuilt, BuiltOn
<1>10. AskedOnce'
  <2> SUFFICES ASSUME NEW x \in wire'
               PROVE  /\ op'[x.writer].pc = "patch" => x.commit # op'[x.writer].commit
                      /\ Awaits(x)' => x.at = op'[x.writer].at
    BY DEF AskedOnce
  <2>1. x.writer \in Writers
    BY <1>6 DEF BranchTypeOK, Update
  <2>2. CASE x.writer # w
    BY <1>3, <1>4, <1>5, <2>1, <2>2 DEF BranchInv, AskedOnce, Awaits
  <2>3. CASE x.writer = w
    BY <1>1, <1>3, <1>4, <1>5, <2>3 DEF BranchInv, AskedOnce, Awaits
  <2> QED
    BY <2>2, <2>3
<1> QED
  BY <1>6, <1>7, <1>8, <1>9, <1>10 DEF BranchInv

LEMMA CallsKept ==
  ASSUME BranchInv, NEW w \in Writers, CreateCommit(w)
  PROVE  BranchInv'
<1>1. op[w] \in Operation /\ op \in [Writers -> Operation] /\ Len(reflog) \in Nat
  BY Elements DEF BranchInv, BranchTypeOK
<1>2. ASSUME NEW at \in 0 .. Len(reflog), Start(w, at)
      PROVE  BranchInv'
  <2> DEFINE o == [op[w] EXCEPT !.pc = "ref", !.at = at, !.calls = @ + 1, !.answer = "none"]
  <2>1. op[w].calls < MaxCalls
    BY <1>2 DEF Start
  <2>2. o \in Operation /\ o.pc = "ref"
    <3>1. op[w].calls + 1 \in 0 .. MaxCalls /\ at \in Nat
      BY <1>1, <2>1, BranchAssumption DEF Operation
    <3> QED
      BY <1>1, <3>1, Started
  <2>3. op' = [op EXCEPT ![w] = o]
    BY <1>1, <1>2 DEF Start
  <2>4. UNCHANGED <<commits, reflog, wire>>
    BY <1>2 DEF Start
  <2> HIDE DEF o
  <2> QED
    BY <2>2, <2>3, <2>4, CallKept
<1>3. CASE RefuseInput(w)
  BY <1>3, ClosedKept DEF RefuseInput
<1>4. CASE GetRef(w)
  <2>1. CASE reflog # <<>> /\ op[w].at = Len(reflog)
    <3>1. op' = [op EXCEPT ![w] = [op[w] EXCEPT !.pc = "tree"]] /\ UNCHANGED <<commits, reflog, wire>>
      BY <1>4, <2>1 DEF GetRef
    <3>2. [op[w] EXCEPT !.pc = "tree"] \in Operation
      BY <1>1, Moved
    <3>3. [op[w] EXCEPT !.pc = "tree"].pc = "tree" /\ [op[w] EXCEPT !.pc = "tree"].at = op[w].at
      BY <1>1 DEF Operation
    <3>4. op[w].at \in 1 .. Len(reflog)
      BY <1>1, <2>1 DEF BranchInv, BranchTypeOK
    <3> QED
      BY <3>1, <3>2, <3>3, <3>4, CallKept
  <2>2. CASE ~(reflog # <<>> /\ op[w].at = Len(reflog))
    <3>1. op' = [op EXCEPT ![w] = Closed(op[w], "refused")] /\ UNCHANGED <<commits, reflog, wire>>
      BY <1>4, <2>2 DEF GetRef
    <3> QED
      BY <3>1, ClosedKept
  <2> QED
    BY <2>1, <2>2
<1>5. ASSUME NEW unchanged \in BOOLEAN, PostTree(w, unchanged)
      PROVE  BranchInv'
  <2>1. CASE unchanged
    <3> DEFINE changes == commits[reflog[op[w].at]].tree \cup {w}
               o == [op[w] EXCEPT !.pc = "commit", !.tree = changes]
    <3>1. op' = [op EXCEPT ![w] = o] /\ UNCHANGED <<commits, reflog, wire>>
      BY <1>5, <2>1 DEF PostTree
    <3>2. op[w].at \in 1 .. Len(reflog)
      BY <1>5 DEF PostTree, BranchInv, CallsBuilt
    <3>3. reflog[op[w].at] \in 1 .. Len(commits)
      BY <3>2, Elements DEF BranchInv, BranchTypeOK
    <3>4. commits[reflog[op[w].at]] \in Commit
      BY <3>3, Elements DEF BranchInv, BranchTypeOK
    <3>5. changes \in SUBSET Authors
      BY <3>4 DEF Commit, Authors
    <3>6. o.pc = "commit" /\ o.at = op[w].at /\ o.tree = changes
      BY <1>1 DEF Operation
    <3>7. o.tree = commits[reflog[o.at]].tree \cup {w}
      BY <3>6
    <3> HIDE DEF changes
    <3>8. o \in Operation
      BY <1>1, <3>5, Moved
    <3> HIDE DEF o
    <3> QED
      BY <3>1, <3>2, <3>6, <3>7, <3>8, CallKept
  <2>2. CASE ~unchanged
    <3>1. op' = [op EXCEPT ![w] = Closed(op[w], "refused")] /\ UNCHANGED <<commits, reflog, wire>>
      BY <1>5, <2>2 DEF PostTree
    <3> QED
      BY <3>1, ClosedKept
  <2> QED
    BY <2>1, <2>2
<1>6. CASE PostCommit(w)
  BY <1>6, PostedKept
<1>7. CASE SendPatch(w)
  BY <1>7, SendKept
<1>8. CASE Return(w)
  BY <1>8, ClosedKept DEF Return
<1>9. CASE Rejected(w)
  BY <1>9, ClosedKept DEF Rejected
<1>10. CASE Retryable(w)
  BY <1>10, ClosedKept DEF Retryable
<1> QED
  BY <1>2, <1>3, <1>4, <1>5, <1>6, <1>7, <1>8, <1>9, <1>10 DEF CreateCommit

(* The invariant the refinement rests on. *)
LEMMA BranchInvAlways == BranchSpec => []BranchInv
<1>1. BranchInit => BranchInv
  <2> SUFFICES ASSUME BranchInit PROVE BranchInv
    OBVIOUS
  <2> DEFINE first == [past |-> {}, tree |-> {}]
             o == [pc |-> "idle", at |-> 0, tree |-> {}, commit |-> 0, calls |-> 0, answer |-> "none"]
  <2>1. first \in Commit /\ first.past = {} /\ first.tree = {}
    BY DEF Commit
  <2>2. o \in Operation /\ o.pc = "idle"
    BY BranchAssumption DEF Operation
  <2>3. commits = <<first>> /\ reflog = <<>> /\ op = [w \in Writers |-> o] /\ wire = {}
    BY DEF BranchInit
  <2> HIDE DEF first, o
  <2>4. commits \in Seq(Commit) /\ Len(commits) = 1 /\ commits[1] = first
    BY <2>1, <2>3
  <2>5. BranchTypeOK
    BY <2>2, <2>3, <2>4 DEF BranchTypeOK
  <2>6. AncestorsFirst /\ HeadsDescend
    BY <2>1, <2>3, <2>4 DEF AncestorsFirst, HeadsDescend
  <2>7. CallsBuilt /\ WireBuilt /\ AskedOnce
    BY <2>2, <2>3 DEF CallsBuilt, WireBuilt, AskedOnce
  <2> QED
    BY <2>1, <2>4, <2>5, <2>6, <2>7 DEF BranchInv
<1>2. BranchInv /\ [BranchNext]_branch => BranchInv'
  <2> SUFFICES ASSUME BranchInv, [BranchNext]_branch PROVE BranchInv'
    OBVIOUS
  <2>1. ASSUME NEW u \in wire, PatchLost(u)
        PROVE  BranchInv'
    <3>1. commits' = commits /\ reflog' = reflog /\ op' = op /\ wire' \subseteq wire
      BY <2>1 DEF PatchLost
    <3>2. Grows
      BY <3>1, Elements DEF Grows, BranchInv, BranchTypeOK
    <3>3. BranchTypeOK' /\ AncestorsFirst' /\ HeadsDescend'
      BY <3>1 DEF BranchInv, BranchTypeOK, AncestorsFirst, HeadsDescend
    <3> QED
      BY <3>1, <3>2, <3>3, GrowthKept
  <2>2. CASE UNCHANGED branch
    BY <2>2 DEF branch, BranchInv, BranchTypeOK, AncestorsFirst, HeadsDescend, CallsBuilt, WireBuilt,
                AskedOnce, BuiltOn, Awaits
  <2> QED
    BY <2>1, <2>2, CreateKept, PushKept, CallsKept, PatchKept DEF BranchNext
<1> QED
  BY <1>1, <1>2, PTL DEF BranchSpec

-----------------------------------------------------------------------------
(* The mapped state: how a step of the code changes the log's variables. *)

SnapshotPerHead ==
  /\ Snapshots \in Seq(SUBSET Authors) /\ Len(Snapshots) = Len(reflog) /\ Len(reflog) \in Nat
  /\ \A i \in 1 .. Len(reflog) : Snapshots[i] = commits[reflog[i]].tree

LEMMA SnapshotsTyped == BranchTypeOK => SnapshotPerHead
<1> SUFFICES ASSUME BranchTypeOK PROVE SnapshotPerHead
  OBVIOUS
<1>1. /\ Len(reflog) \in Nat /\ DOMAIN reflog = 1 .. Len(reflog)
      /\ \A i \in 1 .. Len(reflog) : reflog[i] \in 1 .. Len(commits)
  BY Elements DEF BranchTypeOK
<1>2. \A i \in 1 .. Len(reflog) : commits[reflog[i]].tree \in SUBSET Authors
  <2> SUFFICES ASSUME NEW i \in 1 .. Len(reflog) PROVE commits[reflog[i]].tree \in SUBSET Authors
    OBVIOUS
  <2>1. commits[reflog[i]] \in Commit
    BY <1>1, Elements DEF BranchTypeOK
  <2> QED
    BY <2>1 DEF Commit
<1>3. Snapshots \in [1 .. Len(reflog) -> SUBSET Authors]
  BY <1>1, <1>2 DEF Snapshots
<1>4. Snapshots \in Seq(SUBSET Authors) /\ Len(Snapshots) = Len(reflog)
  BY <1>1, <1>3
<1> QED
  BY <1>1, <1>4 DEF SnapshotPerHead, Snapshots

LEMMA SnapshotsKept ==
  ASSUME BranchTypeOK, reflog' = reflog, Len(commits) <= Len(commits'),
         \A c \in 1 .. Len(commits) : commits'[c] = commits[c]
  PROVE  Snapshots' = Snapshots
<1>1. DOMAIN reflog = 1 .. Len(reflog) /\ \A i \in 1 .. Len(reflog) : reflog[i] \in 1 .. Len(commits)
  BY Elements DEF BranchTypeOK
<1> QED
  BY <1>1 DEF Snapshots

LEMMA SnapshotAppended ==
  ASSUME BranchTypeOK, BranchTypeOK', NEW c \in 1 .. Len(commits'), reflog' = Append(reflog, c),
         \A d \in 1 .. Len(commits) : commits'[d] = commits[d]
  PROVE  Snapshots' = Append(Snapshots, commits'[c].tree)
<1>1. /\ Snapshots \in Seq(SUBSET Authors) /\ Len(Snapshots) = Len(reflog) /\ Len(reflog) \in Nat
      /\ \A i \in 1 .. Len(reflog) : Snapshots[i] = commits[reflog[i]].tree
  BY SnapshotsTyped DEF SnapshotPerHead
<1>2. /\ Snapshots' \in Seq(SUBSET Authors) /\ Len(Snapshots') = Len(reflog')
      /\ \A i \in 1 .. Len(reflog') : Snapshots'[i] = commits'[reflog'[i]].tree
  <2>1. SnapshotPerHead'
    BY SnapshotsTyped, PTL
  <2> QED
    BY <2>1 DEF SnapshotPerHead
<1>3. /\ \A i \in 1 .. Len(reflog) : reflog[i] \in 1 .. Len(commits)
      /\ reflog \in Seq(1 .. Len(commits))
  BY Elements DEF BranchTypeOK
<1>4. /\ Len(reflog') = Len(reflog) + 1 /\ reflog'[Len(reflog) + 1] = c
      /\ \A i \in 1 .. Len(reflog) : reflog'[i] = reflog[i]
  BY <1>3
<1>5. commits'[c].tree \in SUBSET Authors
  <2>1. commits'[c] \in Commit
    BY Elements DEF BranchTypeOK
  <2> QED
    BY <2>1 DEF Commit
<1> DEFINE s == Append(Snapshots, commits'[c].tree)
<1>6. /\ s \in Seq(SUBSET Authors) /\ Len(s) = Len(reflog) + 1
      /\ \A i \in 1 .. Len(reflog) : s[i] = Snapshots[i]
      /\ s[Len(reflog) + 1] = commits'[c].tree
  BY <1>1, <1>5, Appended
<1> HIDE DEF s
<1>7. \A i \in 1 .. Len(reflog) + 1 : Snapshots'[i] = s[i]
  <2> SUFFICES ASSUME NEW i \in 1 .. Len(reflog) + 1 PROVE Snapshots'[i] = s[i]
    OBVIOUS
  <2>1. Snapshots'[i] = commits'[reflog'[i]].tree
    BY <1>2, <1>4
  <2>2. CASE i \in 1 .. Len(reflog)
    BY <1>1, <1>3, <1>4, <1>6, <2>1, <2>2
  <2>3. CASE i = Len(reflog) + 1
    BY <1>4, <1>6, <2>1, <2>3
  <2> QED
    BY <1>1, <2>2, <2>3
<1>8. Len(Snapshots') = Len(s) /\ \A i \in 1 .. Len(s) : Snapshots'[i] = s[i]
  BY <1>2, <1>4, <1>6, <1>7
<1>9. Snapshots' = s
  BY <1>2, <1>6, <1>8, SeqEqual
<1> QED
  BY <1>9 DEF s

LEMMA RequestChanged ==
  ASSUME op \in [Writers -> Operation], NEW w \in Writers, NEW o, op' = [op EXCEPT ![w] = o]
  PROVE  Requests' = [Requests EXCEPT ![w] = [state |-> Fate(o.pc), base |-> o.at, answer |-> o.answer]]
  BY DEF Requests

LEMMA LateIff ==
  \A p : p \in LateRequests <=> \E u \in wire : ~Awaits(u) /\ p = <<u.writer, u.at>>
  BY DEF LateRequests

LEMMA LateIffNext ==
  \A p : p \in LateRequests' <=> \E u \in wire' : ~Awaits(u)' /\ p = <<u.writer, u.at>>
  BY DEF LateRequests

(* Requests whose caller has given up or not are the same ones. *)
LEMMA LateKept ==
  ASSUME \A u \in wire : u \in wire' \/ Awaits(u),
         \A u \in wire' : Awaits(u)' \/ u \in wire,
         \A u \in wire \cap wire' : Awaits(u)' <=> Awaits(u)
  PROVE  LateRequests' = LateRequests
<1>1. \A p : p \in LateRequests' <=> p \in LateRequests
  BY LateIff, LateIffNext
<1> QED
  BY <1>1

(* One of them arrived or was lost; another with the same base may be left. *)
LEMMA LateRemoved ==
  ASSUME NEW u \in wire, wire' = wire \ {u}, ~Awaits(u), op' = op
  PROVE  /\ <<u.writer, u.at>> \in LateRequests
         /\ LateRequests' \in {LateRequests, LateRequests \ {<<u.writer, u.at>>}}
<1>1. \A v : Awaits(v)' <=> Awaits(v)
  BY DEF Awaits
<1>2. <<u.writer, u.at>> \in LateRequests
  BY LateIff
<1>3. CASE \E v \in wire' : ~Awaits(v) /\ <<v.writer, v.at>> = <<u.writer, u.at>>
  <2>1. \A p : p \in LateRequests' <=> p \in LateRequests
    BY <1>1, <1>3, LateIff, LateIffNext
  <2> QED
    BY <1>2, <2>1
<1>4. CASE ~\E v \in wire' : ~Awaits(v) /\ <<v.writer, v.at>> = <<u.writer, u.at>>
  <2>1. \A p : p \in LateRequests' <=> p \in LateRequests /\ p # <<u.writer, u.at>>
    BY <1>1, <1>4, LateIff, LateIffNext
  <2>2. LateRequests' = LateRequests \ {<<u.writer, u.at>>}
    BY <2>1
  <2> QED
    BY <1>2, <2>2
<1> QED
  BY <1>3, <1>4

-----------------------------------------------------------------------------
(* Every step of the code is a step of the log, or none. *)

(* A new head carries one change more than the tip. *)
LEMMA ExtendsLog ==
  ASSUME BranchInv, BranchInv', NEW c \in 1 .. Len(commits'), reflog' = Append(reflog, c), reflog # <<>>,
         \A d \in 1 .. Len(commits) : commits'[d] = commits[d],
         NEW author, commits'[c].tree = commits[Tip].tree \cup {author}
  PROVE  Snapshots # <<>> /\ Snapshots' = Log!Extended(author)
<1>1. Snapshots' = Append(Snapshots, commits'[c].tree)
  BY SnapshotAppended DEF BranchInv
<1>2. SnapshotPerHead
  BY SnapshotsTyped DEF BranchInv
<1>3. Len(reflog) \in 1 .. Len(reflog)
  BY <1>2 DEF BranchInv, BranchTypeOK, SnapshotPerHead
<1>4. Snapshots[Len(Snapshots)] = commits[Tip].tree /\ Snapshots # <<>>
  BY <1>2, <1>3 DEF SnapshotPerHead, Tip
<1> QED
  BY <1>1, <1>4 DEF Log!Extended

LEMMA CreateMaps ==
  ASSUME BranchInv, BranchInv', CreateBranch
  PROVE  Log!CreateLog
<1>1. /\ reflog = <<>> /\ reflog' = Append(reflog, 1) /\ Len(reflog) = 0
      /\ commits' = commits /\ op' = op /\ wire' = wire
  BY DEF CreateBranch
<1>2. 1 \in 1 .. Len(commits') /\ commits'[1].tree = {}
  BY <1>1, Elements DEF BranchInv, BranchTypeOK
<1>3. Snapshots' = Append(Snapshots, {})
  BY <1>1, <1>2, SnapshotAppended DEF BranchInv
<1>4. Snapshots = <<>>
  BY <1>1, SnapshotsTyped DEF BranchInv, SnapshotPerHead
<1>5. Snapshots' = <<{}>>
  BY <1>3, <1>4
<1>6. Requests' = Requests /\ LateRequests' = LateRequests
  BY <1>1 DEF Requests, LateRequests, Awaits
<1> QED
  BY <1>4, <1>5, <1>6 DEF Log!CreateLog

LEMMA PushMaps ==
  ASSUME BranchInv, BranchInv', PushOutside
  PROVE  Log!PushOutside
<1> DEFINE made == [past |-> commits[Tip].past \cup {Tip}, tree |-> commits[Tip].tree \cup {Outsider}]
<1>1. reflog # <<>> /\ op' = op /\ wire' = wire /\ reflog' = Append(reflog, Len(commits'))
  BY DEF PushOutside
<1>2. commits' = Append(commits, made) /\ made.tree = commits[Tip].tree \cup {Outsider}
  BY DEF PushOutside, Pushed
<1> HIDE DEF made
<1>3. /\ Len(commits') = Len(commits) + 1 /\ Len(commits) \in Nat
      /\ \A d \in 1 .. Len(commits) : commits'[d] = commits[d]
      /\ commits'[Len(commits')] = made
  BY <1>2 DEF BranchInv, BranchTypeOK
<1>4. Len(commits') \in 1 .. Len(commits')
  BY <1>3
<1>5. Snapshots # <<>> /\ Snapshots' = Log!Extended(Outsider)
  BY <1>1, <1>2, <1>3, <1>4, ExtendsLog
<1>6. Requests' = Requests /\ LateRequests' = LateRequests
  BY <1>1 DEF Requests, LateRequests, Awaits
<1> QED
  BY <1>5, <1>6 DEF Log!PushOutside

(* The steps of a call that the log does not see. *)
LEMMA CallStutters ==
  ASSUME BranchInv, BranchInv', NEW w \in Writers, NEW o,
         op' = [op EXCEPT ![w] = o], wire' = wire, reflog' = reflog, Len(commits) <= Len(commits'),
         \A c \in 1 .. Len(commits) : commits'[c] = commits[c],
         Fate(o.pc) = Fate(op[w].pc), o.at = op[w].at, o.answer = op[w].answer,
         o.pc # "sent", op[w].pc # "sent"
  PROVE  UNCHANGED Log!log
<1>1. op \in [Writers -> Operation]
  BY DEF BranchInv, BranchTypeOK
<1>2. Snapshots' = Snapshots
  BY SnapshotsKept DEF BranchInv
<1>3. Requests' = Requests
  BY <1>1 DEF Requests
<1>4. \A u \in wire : Awaits(u)' <=> Awaits(u)
  BY <1>1 DEF BranchInv, BranchTypeOK, Update, Awaits
<1>5. LateRequests' = LateRequests
  BY <1>4, LateKept
<1> QED
  BY <1>2, <1>3, <1>5 DEF Log!log

(* The end of a call whose update is not on its way. *)
LEMMA AnswerMaps ==
  ASSUME BranchInv, NEW w \in Writers, NEW answer \in {"published", "refused", "unknown"},
         op' = [op EXCEPT ![w] = Closed(@, answer)], UNCHANGED <<commits, reflog, wire>>,
         op[w].pc # "idle",
         answer = "published" => op[w].pc = "accepted",
         answer = "refused" => op[w].pc # "accepted",
         \A u \in wire : u.writer = w => ~Awaits(u)
  PROVE  Log!Answer(w)
<1>1. op \in [Writers -> Operation] /\ op[w] \in Operation
  BY DEF BranchInv, BranchTypeOK
<1>2. Closed(op[w], answer).pc = "idle" /\ Closed(op[w], answer).at = 0 /\ Closed(op[w], answer).answer = answer
  BY <1>1 DEF Closed, Operation
<1>3. Requests' = [Requests EXCEPT ![w] = [state |-> Fate("idle"), base |-> 0, answer |-> answer]]
  BY <1>1, <1>2, RequestChanged
<1>4. Log!Answered(w, answer)
  BY <1>3 DEF Log!Answered, Fate
<1>5. Requests[w].state = Fate(op[w].pc)
  BY DEF Requests
<1>6. \A u \in wire : Awaits(u)' <=> Awaits(u)
  <2>1. op'[w].pc = "idle" /\ \A v \in Writers : v # w => op'[v] = op[v]
    BY <1>1, <1>2
  <2> QED
    BY <2>1 DEF BranchInv, BranchTypeOK, Update, Awaits
<1>7. LateRequests' = LateRequests
  BY <1>6, LateKept
<1>8. Snapshots' = Snapshots
  BY DEF Snapshots
<1>9. /\ op[w].pc = "accepted" => Requests[w].state = "applied"
      /\ op[w].pc # "accepted" => Requests[w].state = "open"
  BY <1>1, <1>5 DEF Fate
<1> QED
  BY <1>4, <1>7, <1>8, <1>9 DEF Log!Answer

LEMMA OpenMaps ==
  ASSUME BranchInv, NEW w \in Writers, NEW at \in 0 .. Len(reflog), Start(w, at)
  PROVE  Log!Open(w)
<1> DEFINE o == [op[w] EXCEPT !.pc = "ref", !.at = at, !.calls = @ + 1, !.answer = "none"]
<1>1. op \in [Writers -> Operation] /\ op[w] \in Operation /\ op[w].pc = "idle"
  BY DEF BranchInv, BranchTypeOK, Start
<1>2. op' = [op EXCEPT ![w] = o] /\ commits' = commits /\ reflog' = reflog /\ wire' = wire
  BY <1>1 DEF Start
<1>3. o.pc = "ref" /\ o.at = at /\ o.answer = "none"
  BY <1>1 DEF Operation
<1> HIDE DEF o
<1>4. Requests' = [Requests EXCEPT ![w] = [state |-> "open", base |-> at, answer |-> "none"]]
  <2>1. Fate("ref") = "open"
    BY DEF Fate
  <2>2. Requests' = [Requests EXCEPT ![w] = [state |-> Fate(o.pc), base |-> o.at, answer |-> o.answer]]
    BY <1>1, <1>2, RequestChanged
  <2> QED
    BY <1>3, <2>1, <2>2
<1>5. Requests[w].state = "closed"
  BY <1>1 DEF Requests, Fate
<1>6. \A u \in wire : Awaits(u)' <=> Awaits(u)
  BY <1>1, <1>2, <1>3 DEF BranchInv, BranchTypeOK, Update, Awaits
<1>7. LateRequests' = LateRequests
  BY <1>2, <1>6, LateKept
<1>8. Snapshots' = Snapshots
  BY <1>2 DEF Snapshots
<1>9. at \in 0 .. Len(Snapshots)
  BY SnapshotsTyped DEF BranchInv, SnapshotPerHead
<1> QED
  BY <1>4, <1>5, <1>7, <1>8, <1>9 DEF Log!Open

(* Sending the update is no step of the log: its caller awaits it. *)
LEMMA SendStutters ==
  ASSUME BranchInv, NEW w \in Writers, SendPatch(w)
  PROVE  UNCHANGED Log!log
<1>u. PICK u : u = [writer |-> w, at |-> op[w].at, commit |-> op[w].commit]
  OBVIOUS
<1>1. op \in [Writers -> Operation] /\ op[w] \in Operation /\ op[w].pc = "patch"
  BY DEF BranchInv, BranchTypeOK, SendPatch
<1>2. commits' = commits /\ reflog' = reflog /\ wire' = wire \cup {u} /\ u.writer = w /\ u.commit = op[w].commit
  BY <1>u DEF SendPatch
<1>3. /\ op'[w].pc = "sent" /\ op'[w].at = op[w].at /\ op'[w].commit = op[w].commit
      /\ op'[w].answer = op[w].answer
      /\ \A v \in Writers : v # w => op'[v] = op[v]
  BY <1>1 DEF SendPatch, Operation
<1>4. Awaits(u)'
  BY <1>2, <1>3 DEF Awaits
<1>5. \A v \in wire : Awaits(v)' <=> Awaits(v)
  <2> SUFFICES ASSUME NEW v \in wire PROVE Awaits(v)' <=> Awaits(v)
    OBVIOUS
  <2>1. v.writer \in Writers
    BY DEF BranchInv, BranchTypeOK, Update
  <2>2. CASE v.writer # w
    BY <1>3, <2>1, <2>2 DEF Awaits
  <2>3. CASE v.writer = w
    BY <1>1, <1>3, <2>3 DEF Awaits, BranchInv, AskedOnce
  <2> QED
    BY <2>2, <2>3
<1>6. LateRequests' = LateRequests
  BY <1>2, <1>4, <1>5, LateKept
<1>7. Snapshots' = Snapshots
  BY <1>2 DEF Snapshots
<1>8. Requests' = Requests
  <2>1. Fate("sent") = Fate("patch")
    BY DEF Fate
  <2> QED
    BY <1>1, <1>3, <2>1 DEF Requests
<1> QED
  BY <1>6, <1>7, <1>8 DEF Log!log

(* The caller gives up while its update is on its way. *)
LEMMA AbandonMaps ==
  ASSUME BranchInv, NEW w \in Writers, Retryable(w), NEW u \in wire, u.writer = w, Awaits(u)
  PROVE  Log!Abandon(w)
<1>1. op \in [Writers -> Operation] /\ op[w] \in Operation /\ op[w].pc = "sent" /\ u.at = op[w].at
  BY DEF BranchInv, BranchTypeOK, Awaits, AskedOnce
<1>2. op' = [op EXCEPT ![w] = Closed(op[w], "unknown")] /\ commits' = commits /\ reflog' = reflog /\ wire' = wire
  BY DEF Retryable
<1>3. /\ Closed(op[w], "unknown").pc = "idle" /\ Closed(op[w], "unknown").at = 0
      /\ Closed(op[w], "unknown").answer = "unknown"
  BY <1>1 DEF Closed, Operation
<1>4. Requests' = [Requests EXCEPT ![w] = [state |-> Fate("idle"), base |-> 0, answer |-> "unknown"]]
  <2>1. Requests' = [Requests EXCEPT ![w] = [state |-> Fate(Closed(op[w], "unknown").pc),
                                            base |-> Closed(op[w], "unknown").at,
                                            answer |-> Closed(op[w], "unknown").answer]]
    BY <1>1, <1>2, RequestChanged
  <2> QED
    BY <1>3, <2>1
<1>5. Log!Answered(w, "unknown")
  BY <1>4 DEF Log!Answered, Fate
<1>6. Requests[w].state = "open" /\ Requests[w].base = op[w].at
  BY <1>1 DEF Requests, Fate
<1>7. op'[w].pc = "idle" /\ \A v \in Writers : v # w => op'[v] = op[v]
  BY <1>1, <1>2, <1>3
<1>8. \A v \in wire : v.writer # w => (Awaits(v)' <=> Awaits(v))
  BY <1>7 DEF BranchInv, BranchTypeOK, Update, Awaits
<1>9. \A v \in wire : v.writer = w => ~Awaits(v)' /\ (Awaits(v) => v.at = op[w].at)
  BY <1>7 DEF BranchInv, AskedOnce, Awaits
<1>10. \A p : p \in LateRequests' <=> p \in LateRequests \/ p = <<w, op[w].at>>
  <2> SUFFICES ASSUME NEW p PROVE p \in LateRequests' <=> p \in LateRequests \/ p = <<w, op[w].at>>
    OBVIOUS
  <2>1. ASSUME p \in LateRequests'
        PROVE  p \in LateRequests \/ p = <<w, op[w].at>>
    <3>1. PICK v \in wire : ~Awaits(v)' /\ p = <<v.writer, v.at>>
      BY <1>2, <2>1, LateIffNext
    <3> QED
      BY <1>8, <1>9, <3>1, LateIff
  <2>2. ASSUME p \in LateRequests
        PROVE  p \in LateRequests'
    <3>1. PICK v \in wire : ~Awaits(v) /\ p = <<v.writer, v.at>>
      BY <2>2, LateIff
    <3> QED
      BY <1>2, <1>8, <1>9, <3>1, LateIffNext
  <2>3. <<w, op[w].at>> \in LateRequests'
    BY <1>1, <1>2, <1>9, LateIffNext
  <2> QED
    BY <2>1, <2>2, <2>3
<1>11. LateRequests' = LateRequests \cup {<<w, Requests[w].base>>}
  BY <1>6, <1>10
<1>12. Snapshots' = Snapshots
  BY <1>2 DEF Snapshots
<1> QED
  BY <1>5, <1>6, <1>11, <1>12 DEF Log!Abandon

(* The awaited update leaves the wire, and with it the last request for its  *)
(* commit.                                                                  *)
LEMMA AwaitedLeaves ==
  ASSUME BranchInv, NEW u \in wire, Awaits(u), wire' = wire \ {u}, NEW pc \in {"sent", "accepted", "rejected"},
         op' = [op EXCEPT ![u.writer].pc = pc]
  PROVE  LateRequests' = LateRequests
<1>1. op \in [Writers -> Operation] /\ wire \subseteq Update
  BY DEF BranchInv, BranchTypeOK
<1>2. u \in Update /\ u.writer \in Writers
  BY <1>1 DEF Update
<1>3. /\ op'[u.writer].pc = pc /\ op'[u.writer].commit = op[u.writer].commit
      /\ \A v \in Writers : v # u.writer => op'[v] = op[v]
  BY <1>1, <1>2 DEF Operation
<1>4. ASSUME NEW v \in wire, v # u
      PROVE  Awaits(v)' <=> Awaits(v)
  <2>1. v \in Update /\ v.writer \in Writers
    BY <1>1 DEF Update
  <2>2. CASE v.writer # u.writer
    BY <1>3, <2>1, <2>2 DEF Awaits
  <2>3. CASE v.writer = u.writer
    <3>1. v.commit # u.commit
      <4> SUFFICES ASSUME v.commit = u.commit PROVE FALSE
        OBVIOUS
      <4>1. v.at = u.at
        BY <2>3 DEF Awaits, BranchInv, AskedOnce
      <4> QED
        BY <1>2, <1>4, <2>1, <2>3, <4>1 DEF Update
    <3> QED
      BY <1>3, <2>3, <3>1 DEF Awaits
  <2> QED
    BY <2>2, <2>3
<1> QED
  BY <1>4, LateKept

LEMMA PatchMaps ==
  ASSUME BranchInv, BranchInv', NEW u \in wire, NEW served \in BOOLEAN, PatchRef(u, served)
  PROVE  [Log!LogNext]_(Log!log)
<1>1. /\ op \in [Writers -> Operation] /\ u.writer \in Writers /\ BuiltOn(u.at, u.commit, u.writer)
      /\ Len(reflog) \in Nat
  BY Elements DEF BranchInv, BranchTypeOK, WireBuilt, Update
<1>2. wire' = wire \ {u} /\ commits' = commits
  BY DEF PatchRef
<1>3. SnapshotPerHead
  BY SnapshotsTyped DEF BranchInv
<1>4. u.at \in 0 .. Len(Snapshots)
  BY <1>1, <1>3 DEF SnapshotPerHead, BuiltOn
<1>5. CASE served /\ FastForwards(u.commit)
  <2>1. reflog' = Append(reflog, u.commit) /\ u.commit \in 1 .. Len(commits') /\ reflog # <<>>
    BY <1>1, <1>2, <1>5 DEF PatchRef, BuiltOn
  <2>2. u.at = Len(reflog) /\ reflog[u.at] = Tip
    BY <1>1, <1>5, FastForwardIsBase
  <2>3. commits'[u.commit].tree = commits[Tip].tree \cup {u.writer}
    BY <1>1, <1>2, <2>2 DEF BuiltOn
  <2>4. Snapshots # <<>> /\ Snapshots' = Log!Extended(u.writer)
    BY <1>2, <2>1, <2>3, ExtendsLog
  <2>5. u.at = Len(Snapshots)
    BY <1>3, <2>2 DEF SnapshotPerHead
  <2>6. CASE Awaits(u)
    <3>1. op' = [op EXCEPT ![u.writer].pc = "accepted"]
      BY <1>5, <2>6 DEF PatchRef
    <3>2. LateRequests' = LateRequests
      BY <1>2, <2>6, <3>1, AwaitedLeaves
    <3>3. Requests[u.writer].state = "open" /\ Requests[u.writer].base = u.at
      BY <1>1, <2>6 DEF Requests, Fate, Awaits, BranchInv, AskedOnce
    <3>4. Requests' = [Requests EXCEPT ![u.writer].state = "applied"]
      <4>1. Fate("accepted") = "applied"
        BY DEF Fate
      <4>2. op[u.writer] \in Operation
        BY <1>1
      <4>3. /\ op'[u.writer].pc = "accepted" /\ op'[u.writer].at = op[u.writer].at
            /\ op'[u.writer].answer = op[u.writer].answer
            /\ \A v \in Writers : v # u.writer => op'[v] = op[v]
        BY <1>1, <3>1, <4>2 DEF Operation
      <4> DEFINE r == [state |-> "applied", base |-> op[u.writer].at, answer |-> op[u.writer].answer]
      <4>4. \A v \in Writers : Requests'[v] = IF v = u.writer THEN r ELSE Requests[v]
        BY <1>1, <4>1, <4>3 DEF Requests
      <4>5. [Requests[u.writer] EXCEPT !.state = "applied"] = r
        BY <1>1 DEF Requests
      <4> HIDE DEF r
      <4>6. Requests = [v \in Writers |-> Requests[v]] /\ Requests' = [v \in Writers |-> Requests'[v]]
        BY DEF Requests
      <4> QED
        BY <1>1, <4>4, <4>5, <4>6
    <3>5. Log!Apply(u.writer)
      BY <2>4, <2>5, <3>2, <3>3, <3>4 DEF Log!Apply
    <3> QED
      BY <1>1, <3>5 DEF Log!LogNext
  <2>7. CASE ~Awaits(u)
    <3>1. op' = op
      BY <2>7 DEF PatchRef
    <3>2. Requests' = Requests
      BY <3>1 DEF Requests
    <3>3. /\ <<u.writer, u.at>> \in LateRequests
          /\ LateRequests' \in {LateRequests, LateRequests \ {<<u.writer, u.at>>}}
      BY <1>2, <2>7, <3>1, LateRemoved
    <3>4. Log!ApplyLate(u.writer, u.at)
      BY <2>4, <2>5, <3>2, <3>3 DEF Log!ApplyLate
    <3> QED
      BY <1>1, <1>4, <3>4 DEF Log!LogNext
  <2> QED
    BY <2>6, <2>7
<1>6. CASE ~(served /\ FastForwards(u.commit))
  <2>1. reflog' = reflog
    BY <1>6 DEF PatchRef
  <2>2. Snapshots' = Snapshots
    BY <1>2, <2>1 DEF Snapshots
  <2>3. CASE Awaits(u)
    <3>1. op' = [op EXCEPT ![u.writer].pc = "rejected"]
      BY <1>6, <2>3 DEF PatchRef
    <3>2. LateRequests' = LateRequests
      BY <1>2, <2>3, <3>1, AwaitedLeaves
    <3>3. Requests' = Requests
      <4>1. Fate("rejected") = Fate("sent")
        BY DEF Fate
      <4>2. op[u.writer] \in Operation /\ op[u.writer].pc = "sent"
        BY <1>1, <2>3 DEF Awaits
      <4>3. /\ op'[u.writer].pc = "rejected" /\ op'[u.writer].at = op[u.writer].at
            /\ op'[u.writer].answer = op[u.writer].answer
            /\ \A v \in Writers : v # u.writer => op'[v] = op[v]
        BY <1>1, <3>1, <4>2 DEF Operation
      <4> QED
        BY <1>1, <4>1, <4>2, <4>3 DEF Requests
    <3> QED
      BY <2>2, <3>2, <3>3 DEF Log!log
  <2>4. CASE ~Awaits(u)
    <3>1. op' = op
      BY <2>4 DEF PatchRef
    <3>2. Requests' = Requests
      BY <3>1 DEF Requests
    <3>3. /\ <<u.writer, u.at>> \in LateRequests
          /\ LateRequests' \in {LateRequests, LateRequests \ {<<u.writer, u.at>>}}
      BY <1>2, <2>4, <3>1, LateRemoved
    <3> QED
      BY <1>1, <1>4, <2>2, <3>2, <3>3 DEF Log!LogNext, Log!Forget, Log!log
  <2> QED
    BY <2>3, <2>4
<1> QED
  BY <1>5, <1>6

LEMMA LostMaps ==
  ASSUME BranchInv, NEW u \in wire, PatchLost(u)
  PROVE  [Log!LogNext]_(Log!log)
<1>1. /\ op \in [Writers -> Operation] /\ u.writer \in Writers /\ BuiltOn(u.at, u.commit, u.writer)
      /\ Len(reflog) \in Nat
  BY Elements DEF BranchInv, BranchTypeOK, WireBuilt, Update
<1>2. wire' = wire \ {u} /\ commits' = commits /\ reflog' = reflog /\ op' = op
  BY DEF PatchLost
<1>3. Snapshots' = Snapshots /\ Requests' = Requests
  BY <1>2 DEF Snapshots, Requests
<1>4. u.at \in 0 .. Len(Snapshots)
  BY <1>1, SnapshotsTyped DEF SnapshotPerHead, BuiltOn, BranchInv
<1>5. CASE Awaits(u)
  <2>1. \A v \in wire : Awaits(v)' <=> Awaits(v)
    BY <1>2 DEF Awaits
  <2>2. LateRequests' = LateRequests
    BY <1>2, <1>5, <2>1, LateKept
  <2> QED
    BY <1>3, <2>2 DEF Log!log
<1>6. CASE ~Awaits(u)
  <2>1. /\ <<u.writer, u.at>> \in LateRequests
        /\ LateRequests' \in {LateRequests, LateRequests \ {<<u.writer, u.at>>}}
    BY <1>2, <1>6, LateRemoved
  <2> QED
    BY <1>1, <1>3, <1>4, <2>1 DEF Log!LogNext, Log!Forget, Log!log
<1> QED
  BY <1>5, <1>6

LEMMA CallMaps ==
  ASSUME BranchInv, BranchInv', NEW w \in Writers, CreateCommit(w)
  PROVE  [Log!LogNext]_(Log!log)
<1>1. op[w] \in Operation /\ op \in [Writers -> Operation] /\ commits \in Seq(Commit)
  BY DEF BranchInv, BranchTypeOK
<1>2. op[w].pc # "sent" => \A u \in wire : u.writer = w => ~Awaits(u)
  BY DEF Awaits
<1>3. ASSUME NEW at \in 0 .. Len(reflog), Start(w, at)
      PROVE  Log!LogNext
  BY <1>3, OpenMaps DEF Log!LogNext
<1>4. ASSUME op' = [op EXCEPT ![w] = Closed(op[w], "refused")], UNCHANGED <<commits, reflog, wire>>,
             op[w].pc \in {"ref", "tree", "commit", "rejected"}
      PROVE  Log!LogNext
  <2>1. Log!Answer(w)
    BY <1>2, <1>4, AnswerMaps
  <2> QED
    BY <2>1 DEF Log!LogNext
<1>5. ASSUME NEW o, op' = [op EXCEPT ![w] = o], wire' = wire, reflog' = reflog, Len(commits) <= Len(commits'),
             \A c \in 1 .. Len(commits) : commits'[c] = commits[c],
             o.at = op[w].at, o.answer = op[w].answer, op[w].pc \in {"ref", "tree", "commit"},
             o.pc \in {"tree", "commit", "patch"}
      PROVE  UNCHANGED Log!log
  <2>1. Fate(o.pc) = Fate(op[w].pc)
    BY <1>5 DEF Fate
  <2>2. o.pc # "sent" /\ op[w].pc # "sent"
    BY <1>5
  <2> QED
    BY <1>5, <2>1, <2>2, CallStutters
<1>6. CASE RefuseInput(w)
  BY <1>4, <1>6 DEF RefuseInput
<1>7. CASE GetRef(w)
  <2>1. CASE reflog # <<>> /\ op[w].at = Len(reflog)
    <3> DEFINE o == [op[w] EXCEPT !.pc = "tree"]
    <3>1. op' = [op EXCEPT ![w] = o] /\ UNCHANGED <<commits, reflog, wire>> /\ op[w].pc = "ref"
      BY <1>7, <2>1 DEF GetRef
    <3>2. o.pc = "tree" /\ o.at = op[w].at /\ o.answer = op[w].answer
      BY <1>1 DEF Operation
    <3> HIDE DEF o
    <3>3. Len(commits) <= Len(commits') /\ \A c \in 1 .. Len(commits) : commits'[c] = commits[c]
      BY <1>1, <3>1
    <3> QED
      BY <1>5, <3>1, <3>2, <3>3
  <2>2. CASE ~(reflog # <<>> /\ op[w].at = Len(reflog))
    BY <1>4, <1>7, <2>2 DEF GetRef
  <2> QED
    BY <2>1, <2>2
<1>8. ASSUME NEW unchanged \in BOOLEAN, PostTree(w, unchanged)
      PROVE  [Log!LogNext]_(Log!log)
  <2>1. CASE unchanged
    <3> DEFINE o == [op[w] EXCEPT !.pc = "commit", !.tree = commits[reflog[op[w].at]].tree \cup {w}]
    <3>1. op' = [op EXCEPT ![w] = o] /\ UNCHANGED <<commits, reflog, wire>> /\ op[w].pc = "tree"
      BY <1>8, <2>1 DEF PostTree
    <3>2. o.pc = "commit" /\ o.at = op[w].at /\ o.answer = op[w].answer
      BY <1>1 DEF Operation
    <3> HIDE DEF o
    <3>3. Len(commits) <= Len(commits') /\ \A c \in 1 .. Len(commits) : commits'[c] = commits[c]
      BY <1>1, <3>1
    <3> QED
      BY <1>5, <3>1, <3>2, <3>3
  <2>2. CASE ~unchanged
    BY <1>4, <1>8, <2>2 DEF PostTree
  <2> QED
    BY <2>1, <2>2
<1>9. CASE PostCommit(w)
  <2> DEFINE o == [op[w] EXCEPT !.pc = "patch", !.commit = Len(commits')]
             base == reflog[op[w].at]
             made == [past |-> commits[base].past \cup {base}, tree |-> op[w].tree]
  <2>1. op' = [op EXCEPT ![w] = o] /\ reflog' = reflog /\ wire' = wire /\ op[w].pc = "commit"
    BY <1>1, <1>9 DEF PostCommit
  <2>2. o.pc = "patch" /\ o.at = op[w].at /\ o.answer = op[w].answer
    BY <1>1 DEF Operation
  <2>3. commits' = Append(commits, made)
    BY <1>9 DEF PostCommit, Pushed
  <2> HIDE DEF o, made
  <2>4. Len(commits) <= Len(commits') /\ \A c \in 1 .. Len(commits) : commits'[c] = commits[c]
    BY <1>1, <2>3
  <2> QED
    BY <1>5, <2>1, <2>2, <2>4
<1>10. CASE SendPatch(w)
  BY <1>10, SendStutters
<1>11. CASE Return(w)
  <2>1. CASE op[w].pc = "accepted"
    <3>1. op' = [op EXCEPT ![w] = Closed(@, "published")] /\ UNCHANGED <<commits, reflog, wire>>
      BY <1>11, <2>1 DEF Return
    <3>2. Log!Answer(w)
      BY <1>2, <2>1, <3>1, AnswerMaps
    <3> QED
      BY <3>2 DEF Log!LogNext
  <2>2. CASE op[w].pc = "rejected"
    BY <1>4, <1>11, <2>2 DEF Return
  <2> QED
    BY <1>11, <2>1, <2>2 DEF Return
<1>12. CASE Rejected(w)
  BY <1>4, <1>12 DEF Rejected
<1>13. CASE Retryable(w)
  <2>1. ASSUME NEW u \in wire, u.writer = w, Awaits(u)
        PROVE  Log!LogNext
    BY <1>13, <2>1, AbandonMaps DEF Log!LogNext
  <2>2. CASE \A u \in wire : u.writer = w => ~Awaits(u)
    <3>1. op' = [op EXCEPT ![w] = Closed(@, "unknown")] /\ UNCHANGED <<commits, reflog, wire>> /\ op[w].pc # "idle"
      BY <1>13 DEF Retryable
    <3>2. Log!Answer(w)
      BY <2>2, <3>1, AnswerMaps
    <3> QED
      BY <3>2 DEF Log!LogNext
  <2> QED
    BY <2>1, <2>2
<1> QED
  BY <1>3, <1>6, <1>7, <1>8, <1>9, <1>10, <1>11, <1>12, <1>13 DEF CreateCommit

(* create_commit is a compare-and-set on the branch: for any writers, calls  *)
(* and interleaving of their requests with pushes, lost updates and updates  *)
(* that arrive after their caller gave up, every reply is right about what    *)
(* happened and no change is lost or applied twice for one expected_base.    *)
THEOREM BranchRefinesLog == BranchSpec => ImplementsBranchLog
<1>1. BranchInit => Log!LogInit
  <2> SUFFICES ASSUME BranchInit PROVE Log!LogInit
    OBVIOUS
  <2>1. Snapshots = <<>>
    BY DEF BranchInit, Snapshots
  <2>2. Requests = [w \in Writers |-> [state |-> "closed", base |-> 0, answer |-> "none"]]
    BY DEF BranchInit, Requests, Fate
  <2>3. LateRequests = {}
    BY DEF BranchInit, LateRequests
  <2> QED
    BY <2>1, <2>2, <2>3 DEF Log!LogInit
<1>2. BranchInv /\ BranchInv' /\ [BranchNext]_branch => [Log!LogNext]_(Log!log)
  <2> SUFFICES ASSUME BranchInv, BranchInv', [BranchNext]_branch PROVE [Log!LogNext]_(Log!log)
    OBVIOUS
  <2>1. CASE UNCHANGED branch
    <3>1. Snapshots' = Snapshots /\ Requests' = Requests /\ LateRequests' = LateRequests
      BY <2>1 DEF branch, Snapshots, Requests, LateRequests, Awaits
    <3> QED
      BY <3>1 DEF Log!log
  <2>2. CASE CreateBranch
    BY <2>2, CreateMaps DEF Log!LogNext
  <2>3. CASE PushOutside
    BY <2>3, PushMaps DEF Log!LogNext
  <2> QED
    BY <2>1, <2>2, <2>3, CallMaps, PatchMaps, LostMaps DEF BranchNext
<1> QED
  BY <1>1, <1>2, BranchInvAlways, PTL DEF BranchSpec, ImplementsBranchLog, Log!LogSpec
=============================================================================
