---------------------------- MODULE OperatorChat -----------------------------
(***************************************************************************)
(* The prompts in the operator's chat, which the askers post and the       *)
(* daemon edits (policy.py, inbound.py): the other thing the two share.    *)
(***************************************************************************)
EXTENDS FleetLedger

CONSTANT Prompts    \* message ids Telegram may give a prompt
VARIABLE prompts    \* what the operator's chat shows of each prompt

\* Not there yet, with its buttons, without them, or with the decision tapped.
PromptStates == {"absent", "pending", "cleared"} \cup Decisions
=============================================================================
