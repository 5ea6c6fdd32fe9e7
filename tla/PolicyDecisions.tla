--------------------------- MODULE PolicyDecisions ---------------------------
(***************************************************************************)
(* PolicyEngine.decide with assess_risk and _mandatory_effect, for one      *)
(* request, rule by rule. The risk input is the set of its raised flags; a  *)
(* rule is its effect and the conditions of _matches the request fails.     *)
(***************************************************************************)
EXTENDS Naturals, Sequences, FiniteSets

CONSTANTS
  MaxFlags,   \* bound: risk flags raised at once
  MaxRules    \* bound: declarative rules

ASSUME PolicyAssumption == MaxFlags \in Nat /\ MaxRules \in Nat

Flags ==
  {"critical_findings", "destructive_command", "secret_changed", "migration_changed",
   "workflow_changed", "infrastructure_changed", "deployment_requested", "network_expanded",
   "resource_escalation", "authentication_changed", "authorization_changed",
   "large_change", "dependency_changed"}

Effects == {"allow", "approval", "deny"}

Conditions == {"action", "path", "command", "role"}

Rule == [effect: Effects, failing: {s \in SUBSET Conditions : Cardinality(s) <= 1}]

Request == [flags: {s \in SUBSET Flags : Cardinality(s) <= MaxFlags},
            protected: BOOLEAN, blocked: BOOLEAN]

assess_risk(flags) ==
  IF flags \cap {"critical_findings", "destructive_command", "secret_changed"} # {}
  THEN "critical"
  ELSE IF flags \cap {"migration_changed", "workflow_changed", "infrastructure_changed",
                      "deployment_requested", "network_expanded", "resource_escalation",
                      "authentication_changed", "authorization_changed"} # {}
  THEN "high"
  ELSE IF flags # {} THEN "medium" ELSE "low"

(* blocked: the command is rm, dd or mkfs; protected: a path is under a     *)
(* protected root.                                                          *)
mandatory_effect(request) ==
  IF request.blocked \/ "destructive_command" \in request.flags THEN "deny"
  ELSE IF request.protected
          \/ request.flags \cap {"migration_changed", "workflow_changed", "deployment_requested",
                                 "secret_changed", "network_expanded", "resource_escalation",
                                 "critical_findings"} # {}
  THEN "approval" ELSE "allow"

matches(rule) == rule.failing = {}

\* Mutant of Strengthened: the last effect that is not "allow" wins.
StrengthenedLast(strongest, effect) ==
  IF effect = "allow" THEN strongest ELSE effect

(* What a matching rule makes of the strongest effect so far. *)
Strengthened(strongest, effect) ==
  IF effect = "deny" THEN "deny"
  ELSE IF effect = "approval" /\ strongest = "allow" THEN "approval"
  ELSE strongest

(* One call of decide: the rules examined so far and the strongest effect;  *)
(* the risk is assessed after the loop.                                     *)
Ruling == [pc: {"idle", "rules", "risk", "decided"}, request: Request, rules: Seq(Rule),
           at: Nat, strongest: Effects, risk: {"low", "medium", "high", "critical"}]

Harmless == [flags |-> {}, protected |-> FALSE, blocked |-> FALSE]

VARIABLE ruling

PolicyTypeOK == ruling \in Ruling

PolicyInit ==
  ruling = [pc |-> "idle", request |-> Harmless, rules |-> <<>>, at |-> 0,
            strongest |-> "allow", risk |-> "low"]

RuleSets == UNION {[1 .. n -> Rule] : n \in 0 .. MaxRules}

Decide(request, rules) ==
  ruling' = [ruling EXCEPT !.pc = "rules", !.request = request, !.rules = rules,
                           !.strongest = mandatory_effect(request)]

(* One turn of the loop, with the filter that precedes it applied to the    *)
(* rule; a matching "deny" ends the loop.                                   *)
ExamineRule ==
  LET rule == ruling.rules[ruling.at + 1]
  IN /\ ruling.pc = "rules"
     /\ ruling.at < Len(ruling.rules)
     /\ ruling' = [ruling EXCEPT
                     !.at = @ + 1,
                     !.strongest = IF matches(rule) THEN Strengthened(@, rule.effect) ELSE @,
                     !.pc = IF matches(rule) /\ rule.effect = "deny" THEN "risk" ELSE @]

RulesExhausted ==
  /\ ruling.pc = "rules"
  /\ ruling.at = Len(ruling.rules)
  /\ ruling' = [ruling EXCEPT !.pc = "risk"]

AssessRisk ==
  /\ ruling.pc = "risk"
  /\ ruling' = [ruling EXCEPT !.pc = "decided", !.risk = assess_risk(ruling.request.flags)]

PolicyNext ==
  \/ ruling.pc = "idle" /\ \E request \in Request, rules \in RuleSets : Decide(request, rules)
  \/ ExamineRule
  \/ RulesExhausted
  \/ AssessRisk

PolicySpec == PolicyInit /\ [][PolicyNext]_ruling

-----------------------------------------------------------------------------
(* The effects that have a say: the mandatory one and those of the matching *)
(* rules among the first n.                                                 *)
EffectsAmong(n) ==
  {ruling.rules[i].effect : i \in {j \in 1 .. n : matches(ruling.rules[j])}}
    \cup {mandatory_effect(ruling.request)}

(* docs/policies.md: no rule weakens a matched deny or a mandatory effect.  *)
(* The effect is the strongest of the mandatory one and those of all        *)
(* matching rules, whatever their order and although the loop stops at a    *)
(* deny; and although the two lists of risk flags differ, what assess_risk  *)
(* calls critical is never simply allowed.                                  *)
StrongestWins ==
  ruling.pc = "decided" =>
    LET effects == EffectsAmong(Len(ruling.rules))
    IN /\ (ruling.strongest = "deny") <=> ("deny" \in effects)
       /\ (ruling.strongest = "allow") <=> (effects = {"allow"})
       /\ ruling.risk = "critical" => ruling.strongest # "allow"

(* The inductive invariant: after each turn the effect is the strongest of  *)
(* those examined, and the loop leaves rules unexamined only after a deny.  *)
PolicyInv ==
  /\ PolicyTypeOK
  /\ ruling.at <= Len(ruling.rules)
  /\ ruling.pc # "idle" =>
       /\ (ruling.strongest = "deny") <=> ("deny" \in EffectsAmong(ruling.at))
       /\ (ruling.strongest = "allow") <=> (EffectsAmong(ruling.at) = {"allow"})
  /\ ruling.pc = "idle" => ruling.at = 0
  /\ ruling.pc \in {"risk", "decided"} =>
       ruling.at = Len(ruling.rules) \/ ruling.strongest = "deny"
  /\ ruling.pc = "decided" => ruling.risk = assess_risk(ruling.request.flags)
=============================================================================
