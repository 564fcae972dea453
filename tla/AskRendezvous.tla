---------------------------- MODULE AskRendezvous ----------------------------
(***************************************************************************)
(* The daemon and the askers together.  They share the ledger and the      *)
(* operator's chat and nothing else: a tap on a prompt travels through     *)
(* Telegram's queue, the daemon writes it down, the asker reads it there.  *)
(* Either side may die, be late, or lose its connection.                   *)
(***************************************************************************)
EXTENDS Inbound, AskHuman

allVars == <<vars, askerVars>>

RInit ==
    /\ DaemonInit /\ AskInit
    /\ ledger = <<>>
    /\ prompts = [m \in Prompts |-> "absent"]

DaemonStep == (World \/ Daemon) /\ UNCHANGED askerVars
AskerStep(a) == Ask(a) /\ UNCHANGED <<seen, daemonVars, history, world>>

RNext == DaemonStep \/ \E a \in Askers : AskerStep(a)

RSpec == RInit /\ [][RNext]_allVars

\* The daemon as in Inbound; an asker's process runs.  ReadNothing and
\* CheckClock alternate while it waits, so reading the answer needs no more.
RFairness ==
    /\ WF_allVars(Start /\ UNCHANGED askerVars)
    /\ WF_allVars(PollBatch /\ UNCHANGED askerVars)
    /\ WF_allVars(HandleUpdate /\ UNCHANGED askerVars)
    /\ WF_allVars(Commit /\ UNCHANGED askerVars)
    /\ \A a \in Askers :
          WF_allVars(AskStep(a) /\ UNCHANGED <<seen, daemonVars, history, world>>)

RFairSpec == RSpec /\ RFairness

-----------------------------------------------------------------------------
\* What the operator said about an asker's action: his first tap on its prompt,
\* in Telegram's queue, before any process of this tool has seen it.
OperatorTaps(m) ==
    {u \in DOMAIN inbox :
        inbox[u].kind = "tap" /\ inbox[u].chat = Operator /\ inbox[u].message = m}
Said(a) ==
    IF OperatorTaps(sent[a]) = {} THEN "none"
    ELSE inbox[Min(OperatorTaps(sent[a]))].decision

P == INSTANCE AskPromise WITH said <- [a \in Askers |-> Said(a)]

\* The whole arrangement keeps the promise: whatever dies, is lost or arrives
\* late between the tap and the verdict, allow is returned only for an action
\* the operator's own first tap allowed, and no verdict changes.
KeepsThePromise == P!PSpec

\* No ask waits for ever: it ends in a verdict or is killed, unless its clock
\* stands still while it waits.
EveryAskEnds ==
    \A a \in Askers :
        \/ <>[](stage[a] \in {"reading", "checking"} /\ ~expired[a])
        \/ (inner[a] = "ask") ~> (stage[a] \in {"done", "killed"})

\* A tap ends the ask it answers even if no deadline ever comes: the daemon
\* writes it down though it died on the way, and the asker finds it.
TappedAskEnds ==
    \A a \in Askers :
        (Said(a) # "none") ~> (stage[a] \in {"done", "killed"})

\* The audit trail is true: an `ask` entry says "allowed" or "denied" only if that
\* is what the operator's first tap on its prompt said.
AskEntriesTellTheTap ==
    \A i \in EntriesOf(ledger, "ask") :
        LET taps == OperatorTaps(ledger[i].telegram_message_id)
        IN  /\ ledger[i].outcome = "allowed" =>
                    taps # {} /\ inbox[Min(taps)].decision = "allow"
            /\ ledger[i].outcome = "denied" =>
                    taps # {} /\ inbox[Min(taps)].decision = "deny"

\* transport.py says that an answered prompt is rewritten "to say what was decided".
\* Read: when an ask took its verdict from a tap and its prompt shows a decision, the
\* two are the same.  A second tap, queued before the first was acknowledged, has the
\* prompt say the opposite of the verdict.
PromptSaysWhatWasDecided ==
    \A a \in Askers :
        stage[a] = "done" /\ reply[a] # "none" /\ prompts[sent[a]] \in Decisions =>
            prompts[sent[a]] = verdict[a]
=============================================================================
