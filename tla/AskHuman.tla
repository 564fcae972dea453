------------------------------ MODULE AskHuman -------------------------------
(***************************************************************************)
(* TelegramPolicy.evaluate (policy.py): each asker is one short-lived      *)
(* process that needs a verdict on one action.  When its own policy says   *)
(* ASK, it sends a prompt with Allow/Deny buttons to the operator's chat   *)
(* and watches the ledger for the entry the daemon writes when a button of *)
(* that very message is tapped.  Every failure and the deadline resolve to *)
(* deny.                                                                   *)
(***************************************************************************)
EXTENDS OperatorChat

CONSTANTS
    Askers,
    NoMessage       \* no message id
ASSUME MessagesAssumption == NoMessage \notin Prompts

VARIABLES
    stage,      \* where each asker is in evaluate
    inner,      \* what its inner policy decided
    sent,       \* the message Telegram made of its prompt
    awaited,    \* the message id it learned, telegram_message_id in its entry
    expired,    \* whether its deadline has passed
    reply,      \* what await_decision returned
    verdict     \* the PolicyResult's decision

askerVars == <<stage, inner, sent, awaited, expired, reply, verdict>>
aloneVars == <<ledger, prompts, askerVars>>

AskStages ==
    {"new", "sending", "reading", "checking", "resolving", "done", "killed"}

AskInit ==
    /\ stage = [a \in Askers |-> "new"]
    /\ inner = [a \in Askers |-> "none"]
    /\ sent = [a \in Askers |-> NoMessage]
    /\ awaited = [a \in Askers |-> NoMessage]
    /\ expired = [a \in Askers |-> FALSE]
    /\ reply = [a \in Askers |-> "none"]
    /\ verdict = [a \in Askers |-> "none"]

GoTo(a, next) == stage' = [stage EXCEPT ![a] = next]

\* A decision other than ASK is passed through untouched.
PassThrough(a) ==
    /\ stage[a] = "new"
    /\ \E d \in Decisions :
          /\ inner' = [inner EXCEPT ![a] = d]
          /\ verdict' = [verdict EXCEPT ![a] = d]
    /\ GoTo(a, "done")
    /\ UNCHANGED <<ledger, prompts, sent, awaited, expired, reply>>

\* _send_prompt reaches Telegram: the prompt's last chunk appears with its
\* buttons, under an id of its own, before the asker hears of it.
PostPrompt(a) ==
    /\ stage[a] = "new"
    /\ \E m \in Prompts :
          /\ prompts[m] = "absent"
          /\ prompts' = [prompts EXCEPT ![m] = "pending"]
          /\ sent' = [sent EXCEPT ![a] = m]
    /\ inner' = [inner EXCEPT ![a] = "ask"]
    /\ GoTo(a, "sending")
    /\ UNCHANGED <<ledger, awaited, expired, reply, verdict>>

\* A chunk before the last one, or the last one, is rejected.
PostFails(a) ==
    /\ stage[a] = "new"
    /\ inner' = [inner EXCEPT ![a] = "ask"]
    /\ GoTo(a, "resolving")
    /\ UNCHANGED <<ledger, prompts, sent, awaited, expired, reply, verdict>>

\* (Mutant: it waits on a message that carries no buttons.)
LearnNothing(a) ==
    /\ stage[a] = "sending"
    /\ GoTo(a, "reading")
    /\ UNCHANGED <<ledger, prompts, inner, sent, awaited, expired, reply, verdict>>

LearnMessage(a) ==
    /\ stage[a] = "sending"
    /\ awaited' = [awaited EXCEPT ![a] = sent[a]]
    /\ GoTo(a, "reading")
    /\ UNCHANGED <<ledger, prompts, inner, sent, expired, reply, verdict>>

\* Telegram's answer is lost: the prompt stands in the chat, and nobody waits.
AnswerLost(a) ==
    /\ stage[a] = "sending"
    /\ GoTo(a, "resolving")
    /\ UNCHANGED <<ledger, prompts, inner, sent, awaited, expired, reply, verdict>>

-----------------------------------------------------------------------------
(* await_decision: read the ledger, then look at the clock, then sleep. *)

ReadDecision(a) ==
    /\ stage[a] = "reading"
    /\ FirstDecision(ledger, awaited[a]) # "none"
    /\ reply' = [reply EXCEPT ![a] = FirstDecision(ledger, awaited[a])]
    /\ GoTo(a, "resolving")
    /\ UNCHANGED <<ledger, prompts, inner, sent, awaited, expired, verdict>>

ReadNothing(a) ==
    /\ stage[a] = "reading"
    /\ FirstDecision(ledger, awaited[a]) = "none"
    /\ GoTo(a, "checking")
    /\ UNCHANGED <<ledger, prompts, inner, sent, awaited, expired, reply, verdict>>

\* The ledger cannot be read: ask_human catches it and fails closed.
ReadRaises(a) ==
    /\ stage[a] = "reading"
    /\ GoTo(a, "resolving")
    /\ UNCHANGED <<ledger, prompts, inner, sent, awaited, expired, reply, verdict>>

Deadline(a) ==
    /\ stage[a] \in {"reading", "checking"} /\ ~expired[a]
    /\ expired' = [expired EXCEPT ![a] = TRUE]
    /\ UNCHANGED <<ledger, prompts, stage, inner, sent, awaited, reply, verdict>>

\* Past the deadline the wait ends with no reply, otherwise it reads again
\* (mutant: it always reads again).
CheckNothing(a) ==
    /\ stage[a] = "checking"
    /\ GoTo(a, "reading")
    /\ UNCHANGED <<ledger, prompts, inner, sent, awaited, expired, reply, verdict>>

CheckClock(a) ==
    /\ stage[a] = "checking"
    /\ GoTo(a, IF expired[a] THEN "resolving" ELSE "reading")
    /\ UNCHANGED <<ledger, prompts, inner, sent, awaited, expired, reply, verdict>>

-----------------------------------------------------------------------------

\* The outcome its entry records (mutant: no answer is taken for consent).
OutcomeOpen(r) == IF r = "deny" THEN "denied" ELSE "allowed"
Outcome(r) == CASE r = "allow" -> "allowed" [] r = "deny" -> "denied" [] OTHER -> "timeout"

\* The `ask` entry is written, then the verdict is returned.
Resolve(a) ==
    /\ stage[a] = "resolving"
    /\ Record(AskEntry(awaited[a], Outcome(reply[a])))
    /\ verdict' = [verdict EXCEPT ![a] = IF reply[a] = "allow" THEN "allow" ELSE "deny"]
    /\ GoTo(a, "done")
    /\ UNCHANGED <<prompts, inner, sent, awaited, expired, reply>>

\* The process is killed, or cannot write its entry: no verdict at all.
Kill(a) ==
    /\ stage[a] \notin {"new", "done", "killed"}
    /\ GoTo(a, "killed")
    /\ UNCHANGED <<ledger, prompts, inner, sent, awaited, expired, reply, verdict>>

AskStep(a) ==
    \/ PassThrough(a) \/ PostPrompt(a) \/ PostFails(a) \/ LearnMessage(a) \/ AnswerLost(a)
    \/ ReadDecision(a) \/ ReadNothing(a) \/ ReadRaises(a) \/ CheckClock(a) \/ Resolve(a)

Ask(a) == AskStep(a) \/ Deadline(a) \/ Kill(a)

-----------------------------------------------------------------------------
(* By itself: the daemon is whatever appends callback entries for a prompt  *)
(* that was shown, at any time and any number of times.                     *)

Tapped(m, d) ==
    /\ prompts[m] # "absent"
    /\ Record(CallbackEntry(m, d))
    /\ UNCHANGED <<prompts, askerVars>>

AloneInit == AskInit /\ ledger = <<>> /\ prompts = [m \in Prompts |-> "absent"]
AloneNext ==
    (\E a \in Askers : Ask(a)) \/ (\E m \in Prompts, d \in Decisions : Tapped(m, d))
AloneSpec == AloneInit /\ [][AloneNext]_aloneVars

\* An action the inner policy would not allow by itself is allowed only while
\* the ledger holds an Allow for the asker's own prompt and no Deny before it:
\* not on another asker's answer, nor because something failed or came late, and
\* no later entry can turn the record against the verdict.
AllowedOnlyByTap ==
    \A a \in Askers :
        verdict[a] = "allow" /\ inner[a] # "allow" =>
            \E i \in DOMAIN ledger :
                /\ ledger[i] = CallbackEntry(sent[a], "allow")
                /\ \A j \in 1..(i - 1) : ledger[j] # CallbackEntry(sent[a], "deny")
=============================================================================
