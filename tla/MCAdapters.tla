----------------------------- MODULE MCAdapters -----------------------------
(* The adapters to GitHub and Telegram, for TLC. They share no state, so a   *)
(* behaviour runs one of them (focus) while the others stay initial.         *)
EXTENDS GitHubBranch, TokenCache, WebhookReplay, TelegramSurface

(* An operator's task, a reviewer who presses one button twice, a stranger. *)
TheInbox ==
  [task |-> [user |-> "operator", kind |-> "fix", nonce |-> Nil],
   press |-> [user |-> "reviewer", kind |-> "callback", nonce |-> "n"],
   again |-> [user |-> "reviewer", kind |-> "callback", nonce |-> "n"],
   stray |-> [user |-> "stranger", kind |-> "text", nonce |-> Nil]]

TheRole == [operator |-> "operator", reviewer |-> "reviewer", stranger |-> Nil]

VARIABLE focus

allVars == <<focus, branch, tokens, webhooks, surface>>

AdaptersInit ==
  /\ focus \in {"branch", "tokens", "webhooks", "surface"}
  /\ BranchInit /\ TokensInit /\ WebhooksInit /\ SurfaceInit

AdaptersNext ==
  /\ UNCHANGED focus
  /\ \/ focus = "branch" /\ BranchNext /\ UNCHANGED <<tokens, webhooks, surface>>
     \/ focus = "tokens" /\ TokensNext /\ UNCHANGED <<branch, webhooks, surface>>
     \/ focus = "webhooks" /\ WebhooksNext /\ UNCHANGED <<branch, tokens, surface>>
     \/ focus = "surface" /\ SurfaceNext /\ UNCHANGED <<branch, tokens, webhooks>>

AdaptersSpec == AdaptersInit /\ [][AdaptersNext]_allVars /\ TokensFairness
=============================================================================
