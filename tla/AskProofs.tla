------------------------------ MODULE AskProofs ------------------------------
(***************************************************************************)
(* What is proved of the askers, for any number of them and any traffic:   *)
(* alone (AloneSpec) they allow only what a tap allowed, and together with *)
(* the daemon (RSpec) they keep the promise of AskPromise.                 *)
(*                                                                         *)
(* AskerInv holds of both; with the daemon, its own invariant of           *)
(* InboundProofs joins it, over the ledger the two share.                  *)
(***************************************************************************)
EXTENDS AskRendezvous, InboundProofs

Messages == Prompts \cup {NoMessage}
Outcomes == {"allowed", "denied", "timeout"}
AskRows == {AskEntry(m, o) : m \in Messages, o \in Outcomes}
SharedRows == Entry \cup AskRows

AskerTypes ==
    /\ stage \in [Askers -> AskStages]
    /\ inner \in [Askers -> Decisions \cup {"none", "ask"}]
    /\ sent \in [Askers -> Messages]
    /\ awaited \in [Askers -> Messages]
    /\ expired \in [Askers -> BOOLEAN]
    /\ reply \in [Askers -> Decisions \cup {"none"}]
    /\ verdict \in [Askers -> Decisions \cup {"none"}]
    /\ prompts \in [Prompts -> PromptStates]
    /\ ledger \in Seq(SharedRows)

\* What an asker has by the stage it is in.
StageInv ==
    \A a \in Askers :
        /\ stage[a] = "new" =>
              /\ inner[a] = "none" /\ sent[a] = NoMessage /\ awaited[a] = NoMessage
              /\ reply[a] = "none" /\ verdict[a] = "none"
        /\ stage[a] \notin {"new", "done"} => inner[a] = "ask" /\ verdict[a] = "none"
        /\ stage[a] = "sending" => sent[a] # NoMessage
        /\ stage[a] \in {"reading", "checking"} =>
              awaited[a] = sent[a] /\ sent[a] # NoMessage
        /\ stage[a] \in {"sending", "reading", "checking"} => reply[a] = "none"

\* A prompt belongs to the one asker whose message it is, and is on show.
PromptInv ==
    /\ \A a \in Askers :
          sent[a] # NoMessage => inner[a] = "ask" /\ prompts[sent[a]] # "absent"
    /\ \A a, b \in Askers : sent[a] # NoMessage /\ sent[a] = sent[b] => a = b

\* A reply is the decision of the asker's own prompt, in the ledger for good, and
\* without it nothing left to the operator is allowed.
ReplyInv ==
    \A a \in Askers :
        /\ reply[a] # "none" =>
              /\ awaited[a] = sent[a] /\ sent[a] # NoMessage
              /\ CallbacksFor(ledger, sent[a]) # {}
              /\ reply[a] = FirstDecision(ledger, sent[a])
        /\ verdict[a] = "allow" /\ inner[a] # "allow" => reply[a] = "allow"

AskerInv == AskerTypes /\ StageInv /\ PromptInv /\ ReplyInv

\* The operator has tapped only prompts that were shown.
ShownInv ==
    \A u \in DOMAIN inbox :
        inbox[u].kind = "tap" /\ inbox[u].chat = Operator
            => prompts[inbox[u].message] # "absent"

TogetherInv ==
    IInv(SharedRows) /\ Kept /\ AskerInv /\ ShownInv /\ AskEntriesTellTheTap

-----------------------------------------------------------------------------
\* The daemon's rows and the askers' are the ones the ledger may hold.
LEMMA RowsAreShared == Rows(SharedRows)
BY DEF Rows, SharedRows, AskRows, AskEntry

\* The decision on a prompt is one of the two, taken by a row that has none before it.
LEMMA DecisionIsTaken ==
    ASSUME NEW l \in Seq(SharedRows), NEW m, CallbacksFor(l, m) # {}
    PROVE  /\ FirstDecision(l, m) \in Decisions
           /\ \E i \in CallbacksFor(l, m) :
                 /\ l[i] = CallbackEntry(m, FirstDecision(l, m))
                 /\ \A j \in CallbacksFor(l, m) : i <= j
<1> DEFINE C == CallbacksFor(l, m)
<1>1. C \subseteq 1..Len(l) /\ C \subseteq Nat /\ Len(l) \in Nat
  BY DEF CallbacksFor, EntriesOf
<1>2. \E i \in C : \A j \in C : i <= j
  <2> HIDE DEF C
  <2> QED BY <1>1, LeastExists DEF C
<1>3. PICK i \in C : i = (CHOOSE k \in C : \A j \in C : k <= j) /\ \A j \in C : i <= j
  <2> HIDE DEF C
  <2> QED BY <1>2
<1>4. FirstDecision(l, m) = l[i].decision
  BY <1>3 DEF FirstDecision
<1>5. l[i] \in SharedRows /\ l[i].kind = "callback" /\ l[i].message_id = m
  BY <1>1, <1>3 DEF CallbacksFor, EntriesOf
<1>6. PICK n \in Prompts, d \in Decisions : l[i] = CallbackEntry(n, d)
  BY <1>5 DEF SharedRows, Entry, AskRows, PollEntry, CallbackEntry, KnockEntry, AskEntry
<1>7. l[i].message_id = n /\ l[i].decision = d
  BY <1>6 DEF CallbackEntry
<1> QED BY <1>3, <1>4, <1>5, <1>6, <1>7

\* An asker writes one row, when it resolves, and it is an `ask` entry.
LEMMA AskerRow ==
    ASSUME AskerInv, NEW a \in Askers, Ask(a)
    PROVE  \/ ledger' = ledger
           \/ /\ Resolve(a)
              /\ AskEntry(awaited[a], Outcome(reply[a])) \in SharedRows
              /\ ledger' = Append(ledger, AskEntry(awaited[a], Outcome(reply[a])))
<1>1. CASE Resolve(a)
  <2>1. Outcome(reply[a]) \in Outcomes
    BY DEF Outcome, Outcomes
  <2>2. AskEntry(awaited[a], Outcome(reply[a])) \in SharedRows
    BY <2>1 DEF AskerInv, AskerTypes, SharedRows, AskRows
  <2> QED BY <1>1, <2>2 DEF Resolve, Record
<1>2. CASE ~Resolve(a)
  BY <1>2 DEF Ask, AskStep, Deadline, Kill, PassThrough, PostPrompt,
     PostFails, LearnMessage, AnswerLost, ReadDecision, ReadNothing,
     ReadRaises, CheckClock
<1> QED BY <1>1, <1>2

\* Rows of others take no decision back.
LEMMA DecisionsStay ==
    ASSUME NEW l \in Seq(SharedRows), NEW k,
           k = l \/ \E e \in SharedRows : k = Append(l, e)
    PROVE  /\ k \in Seq(SharedRows)
           /\ \A m : CallbacksFor(l, m) # {} =>
                 CallbacksFor(k, m) # {} /\ FirstDecision(k, m) = FirstDecision(l, m)
<1>1. CASE k = l
  BY <1>1
<1>2. ASSUME NEW e \in SharedRows, k = Append(l, e)
      PROVE  /\ k \in Seq(SharedRows)
             /\ \A m : CallbacksFor(l, m) # {} =>
                   CallbacksFor(k, m) # {} /\ FirstDecision(k, m) = FirstDecision(l, m)
  <2>1. ASSUME NEW m, CallbacksFor(l, m) # {}
        PROVE  CallbacksFor(k, m) # {} /\ FirstDecision(k, m) = FirstDecision(l, m)
    BY <1>2, <2>1, DecisionAppended
  <2> QED BY <1>2, <2>1
<1> QED BY <1>1, <1>2

\* What others do leaves an asker's invariant alone, as long as they take back
\* neither a decision nor a prompt.
LEMMA OthersStep ==
    ASSUME AskerInv, UNCHANGED askerVars,
           ledger' \in Seq(SharedRows),
           \A m : CallbacksFor(ledger, m) # {} =>
               /\ CallbacksFor(ledger', m) # {}
               /\ FirstDecision(ledger', m) = FirstDecision(ledger, m),
           prompts' \in [Prompts -> PromptStates],
           \A m \in Prompts : prompts[m] # "absent" => prompts'[m] # "absent"
    PROVE  AskerInv'
<1> USE DEF askerVars
<1>1. AskerTypes'
  BY DEF AskerInv, AskerTypes
<1>2. StageInv'
  BY DEF AskerInv, StageInv
<1>3. PromptInv'
  BY DEF AskerInv, AskerTypes, PromptInv, Messages
<1>4. ReplyInv'
  BY DEF AskerInv, ReplyInv
<1> QED BY <1>1, <1>2, <1>3, <1>4 DEF AskerInv

\* Every action of an asker keeps the invariant.
LEMMA AskerStepKeeps ==
    ASSUME AskerInv, NEW a \in Askers, Ask(a) PROVE AskerInv'
<1>0. /\ AskerTypes /\ StageInv /\ PromptInv /\ ReplyInv
      /\ ledger' \in Seq(SharedRows)
      /\ \A m : CallbacksFor(ledger, m) # {} =>
            /\ CallbacksFor(ledger', m) # {}
            /\ FirstDecision(ledger', m) = FirstDecision(ledger, m)
  <2>1. ledger \in Seq(SharedRows)
    BY DEF AskerInv, AskerTypes
  <2>2. ledger' = ledger \/ \E e \in SharedRows : ledger' = Append(ledger, e)
    BY AskerRow
  <2> QED BY <2>1, <2>2, DecisionsStay DEF AskerInv
<1>1. CASE PassThrough(a)
  <2>1. AskerTypes'
    BY <1>0, <1>1 DEF PassThrough, GoTo, AskerTypes, AskStages, Decisions
  <2>2. StageInv'
    BY <1>0, <1>1 DEF PassThrough, GoTo, AskerTypes, StageInv, Decisions
  <2>3. PromptInv'
    BY <1>0, <1>1 DEF PassThrough, GoTo, AskerTypes, StageInv, PromptInv, Decisions
  <2>4. ReplyInv'
    BY <1>0, <1>1 DEF PassThrough, GoTo, AskerTypes, StageInv, ReplyInv, Decisions
  <2> QED BY <2>1, <2>2, <2>3, <2>4 DEF AskerInv
<1>2. CASE PostPrompt(a)
  <2>1. AskerTypes'
    BY <1>0, <1>2 DEF PostPrompt, GoTo, AskerTypes, AskStages, Messages, PromptStates
  <2>2. StageInv'
    BY <1>0, <1>2, MessagesAssumption
       DEF PostPrompt, GoTo, AskerTypes, StageInv, Messages, PromptStates
  <2>3. PromptInv'
    BY <1>0, <1>2 DEF PostPrompt, GoTo, AskerTypes, StageInv, PromptInv, Messages, PromptStates
  <2>4. ReplyInv'
    BY <1>0, <1>2 DEF PostPrompt, GoTo, AskerTypes, StageInv, ReplyInv, Messages, PromptStates
  <2> QED BY <2>1, <2>2, <2>3, <2>4 DEF AskerInv
<1>3. CASE PostFails(a)
  <2>1. AskerTypes'
    BY <1>0, <1>3 DEF PostFails, GoTo, AskerTypes, AskStages
  <2>2. StageInv'
    BY <1>0, <1>3 DEF PostFails, GoTo, AskerTypes, StageInv
  <2>3. PromptInv'
    BY <1>0, <1>3 DEF PostFails, GoTo, AskerTypes, StageInv, PromptInv
  <2>4. ReplyInv'
    BY <1>0, <1>3 DEF PostFails, GoTo, AskerTypes, StageInv, ReplyInv
  <2> QED BY <2>1, <2>2, <2>3, <2>4 DEF AskerInv
<1>4. CASE LearnMessage(a)
  <2>1. AskerTypes'
    BY <1>0, <1>4 DEF LearnMessage, GoTo, AskerTypes, AskStages
  <2>2. StageInv'
    BY <1>0, <1>4 DEF LearnMessage, GoTo, AskerTypes, StageInv
  <2>3. PromptInv'
    BY <1>0, <1>4 DEF LearnMessage, GoTo, AskerTypes, StageInv, PromptInv
  <2>4. ReplyInv'
    BY <1>0, <1>4 DEF LearnMessage, GoTo, AskerTypes, StageInv, ReplyInv
  <2> QED BY <2>1, <2>2, <2>3, <2>4 DEF AskerInv
<1>5. CASE AnswerLost(a)
  <2>1. AskerTypes'
    BY <1>0, <1>5 DEF AnswerLost, GoTo, AskerTypes, AskStages
  <2>2. StageInv'
    BY <1>0, <1>5 DEF AnswerLost, GoTo, AskerTypes, StageInv
  <2>3. PromptInv'
    BY <1>0, <1>5 DEF AnswerLost, GoTo, AskerTypes, StageInv, PromptInv
  <2>4. ReplyInv'
    BY <1>0, <1>5 DEF AnswerLost, GoTo, AskerTypes, StageInv, ReplyInv
  <2> QED BY <2>1, <2>2, <2>3, <2>4 DEF AskerInv
<1>6. CASE ReadDecision(a)
  <2>0. /\ stage[a] = "reading" /\ ledger' = ledger
        /\ FirstDecision(ledger, sent[a]) # "none"
        /\ reply' = [reply EXCEPT ![a] = FirstDecision(ledger, sent[a])]
        /\ CallbacksFor(ledger, sent[a]) # {}
    <3>1. stage[a] = "reading" /\ awaited[a] = sent[a]
      BY <1>0, <1>6 DEF ReadDecision, StageInv
    <3>2. FirstDecision(ledger, awaited[a]) = FirstDecision(ledger, sent[a])
      BY <3>1
    <3> QED BY <1>6, <3>1, <3>2 DEF ReadDecision, FirstDecision
  <2>a. FirstDecision(ledger, sent[a]) \in Decisions
    BY <1>0, <2>0, DecisionIsTaken DEF AskerTypes
  <2>1. AskerTypes'
    BY <1>0, <1>6, <2>0, <2>a DEF ReadDecision, GoTo, AskerTypes, AskStages
  <2>2. StageInv'
    BY <1>0, <1>6 DEF ReadDecision, GoTo, AskerTypes, StageInv
  <2>3. PromptInv'
    BY <1>0, <1>6 DEF ReadDecision, GoTo, AskerTypes, StageInv, PromptInv
  <2>4. ReplyInv'
    BY <1>0, <1>6, <2>0 DEF ReadDecision, GoTo, AskerTypes, StageInv, ReplyInv
  <2> QED BY <2>1, <2>2, <2>3, <2>4 DEF AskerInv
<1>7. CASE ReadNothing(a)
  <2>1. AskerTypes'
    BY <1>0, <1>7 DEF ReadNothing, GoTo, AskerTypes, AskStages
  <2>2. StageInv'
    BY <1>0, <1>7 DEF ReadNothing, GoTo, AskerTypes, StageInv
  <2>3. PromptInv'
    BY <1>0, <1>7 DEF ReadNothing, GoTo, AskerTypes, StageInv, PromptInv
  <2>4. ReplyInv'
    BY <1>0, <1>7 DEF ReadNothing, GoTo, AskerTypes, StageInv, ReplyInv
  <2> QED BY <2>1, <2>2, <2>3, <2>4 DEF AskerInv
<1>8. CASE ReadRaises(a)
  <2>1. AskerTypes'
    BY <1>0, <1>8 DEF ReadRaises, GoTo, AskerTypes, AskStages
  <2>2. StageInv'
    BY <1>0, <1>8 DEF ReadRaises, GoTo, AskerTypes, StageInv
  <2>3. PromptInv'
    BY <1>0, <1>8 DEF ReadRaises, GoTo, AskerTypes, StageInv, PromptInv
  <2>4. ReplyInv'
    BY <1>0, <1>8 DEF ReadRaises, GoTo, AskerTypes, StageInv, ReplyInv
  <2> QED BY <2>1, <2>2, <2>3, <2>4 DEF AskerInv
<1>9. CASE CheckClock(a)
  <2>1. AskerTypes'
    BY <1>0, <1>9 DEF CheckClock, GoTo, AskerTypes, AskStages
  <2>2. StageInv'
    BY <1>0, <1>9 DEF CheckClock, GoTo, AskerTypes, StageInv
  <2>3. PromptInv'
    BY <1>0, <1>9 DEF CheckClock, GoTo, AskerTypes, StageInv, PromptInv
  <2>4. ReplyInv'
    BY <1>0, <1>9 DEF CheckClock, GoTo, AskerTypes, StageInv, ReplyInv
  <2> QED BY <2>1, <2>2, <2>3, <2>4 DEF AskerInv
<1>10. CASE Resolve(a)
  <2>1. AskerTypes'
    BY <1>0, <1>10 DEF Resolve, GoTo, AskerTypes, AskStages, Decisions
  <2>2. StageInv'
    BY <1>0, <1>10 DEF Resolve, GoTo, AskerTypes, StageInv, Decisions
  <2>3. PromptInv'
    BY <1>0, <1>10 DEF Resolve, GoTo, AskerTypes, StageInv, PromptInv, Decisions
  <2>4. ReplyInv'
    BY <1>0, <1>10 DEF Resolve, GoTo, AskerTypes, StageInv, ReplyInv, Decisions
  <2> QED BY <2>1, <2>2, <2>3, <2>4 DEF AskerInv
<1>11. CASE Deadline(a)
  <2>1. AskerTypes'
    BY <1>0, <1>11 DEF Deadline, GoTo, AskerTypes, AskStages
  <2>2. StageInv'
    BY <1>0, <1>11 DEF Deadline, GoTo, AskerTypes, StageInv
  <2>3. PromptInv'
    BY <1>0, <1>11 DEF Deadline, GoTo, AskerTypes, StageInv, PromptInv
  <2>4. ReplyInv'
    BY <1>0, <1>11 DEF Deadline, GoTo, AskerTypes, StageInv, ReplyInv
  <2> QED BY <2>1, <2>2, <2>3, <2>4 DEF AskerInv
<1>12. CASE Kill(a)
  <2>1. AskerTypes'
    BY <1>0, <1>12 DEF Kill, GoTo, AskerTypes, AskStages
  <2>2. StageInv'
    BY <1>0, <1>12 DEF Kill, GoTo, AskerTypes, StageInv
  <2>3. PromptInv'
    BY <1>0, <1>12 DEF Kill, GoTo, AskerTypes, StageInv, PromptInv
  <2>4. ReplyInv'
    BY <1>0, <1>12 DEF Kill, GoTo, AskerTypes, StageInv, ReplyInv
  <2> QED BY <2>1, <2>2, <2>3, <2>4 DEF AskerInv
<1> QED BY <1>1, <1>2, <1>3, <1>4, <1>5, <1>6, <1>7, <1>8, <1>9, <1>10, <1>11, <1>12
    DEF Ask, AskStep

\* Allowed without the inner policy's word: its reply was the first decision on its
\* prompt, and that is an Allow with no Deny before it.
LEMMA AllowHasItsTap ==
    ASSUME AskerInv PROVE AllowedOnlyByTap
<1>1. SUFFICES ASSUME NEW a \in Askers, verdict[a] = "allow", inner[a] # "allow"
               PROVE  \E i \in DOMAIN ledger :
                         /\ ledger[i] = CallbackEntry(sent[a], "allow")
                         /\ \A j \in 1..(i - 1) :
                               ledger[j] # CallbackEntry(sent[a], "deny")
  BY DEF AllowedOnlyByTap
<1>2. /\ CallbacksFor(ledger, sent[a]) # {} /\ FirstDecision(ledger, sent[a]) = "allow"
      /\ ledger \in Seq(SharedRows)
  BY <1>1 DEF AskerInv, ReplyInv, AskerTypes
<1>3. PICK i \in CallbacksFor(ledger, sent[a]) :
          /\ ledger[i] = CallbackEntry(sent[a], "allow")
          /\ \A j \in CallbacksFor(ledger, sent[a]) : i <= j
  BY <1>2, DecisionIsTaken
<1>4. i \in 1..Len(ledger) /\ Len(ledger) \in Nat /\ DOMAIN ledger = 1..Len(ledger)
  BY <1>2 DEF CallbacksFor, EntriesOf
<1>5. ASSUME NEW j \in 1..(i - 1), ledger[j] = CallbackEntry(sent[a], "deny") PROVE FALSE
  <2>1. j \in 1..Len(ledger) /\ ~(i <= j)
    BY <1>4
  <2>2. ledger[j].kind = "callback" /\ ledger[j].message_id = sent[a]
    BY <1>5 DEF CallbackEntry
  <2>3. j \in CallbacksFor(ledger, sent[a])
    BY <2>1, <2>2 DEF CallbacksFor, EntriesOf
  <2> QED BY <1>3, <2>1, <2>3
<1> QED BY <1>3, <1>4, <1>5

\* An asker starts with nothing.
LEMMA AskerStart ==
    ASSUME AskInit, ledger = <<>>, prompts = [m \in Prompts |-> "absent"]
    PROVE  AskerInv
<1>1. AskerTypes
  BY DEF AskInit, AskerTypes, AskStages, Messages, PromptStates
<1>2. StageInv /\ PromptInv /\ ReplyInv
  BY DEF AskInit, StageInv, PromptInv, ReplyInv
<1> QED BY <1>1, <1>2 DEF AskerInv

\* By themselves, with taps recorded at any time and any number of times, the askers
\* allow an action its own policy did not only if its own prompt was allowed first.
THEOREM AllowNeedsATap == AloneSpec => []AllowedOnlyByTap
<1>1. AloneInit => AskerInv
  BY AskerStart DEF AloneInit
<1>2. ASSUME AskerInv, [AloneNext]_aloneVars PROVE AskerInv'
  <2>0. /\ ledger \in Seq(SharedRows) /\ prompts \in [Prompts -> PromptStates]
    BY <1>2 DEF AskerInv, AskerTypes
  <2>1. ASSUME NEW a \in Askers, Ask(a) PROVE AskerInv'
    BY <1>2, <2>1, AskerStepKeeps
  <2>2. ASSUME NEW m \in Prompts, NEW d \in Decisions, Tapped(m, d) PROVE AskerInv'
    <3>1. /\ ledger' = Append(ledger, CallbackEntry(m, d)) /\ prompts' = prompts
          /\ UNCHANGED askerVars
      BY <2>2 DEF Tapped, Record, askerVars
    <3>2. CallbackEntry(m, d) \in SharedRows
      BY DEF SharedRows, Entry
    <3> QED BY <1>2, <2>0, <3>1, <3>2, DecisionsStay, OthersStep
  <2>3. CASE UNCHANGED aloneVars
    <3>1. ledger' = ledger /\ prompts' = prompts /\ UNCHANGED askerVars
      BY <2>3 DEF aloneVars, askerVars
    <3> QED BY <1>2, <2>0, <3>1, OthersStep
  <2> QED BY <1>2, <2>1, <2>2, <2>3 DEF AloneNext
<1>3. AskerInv => AllowedOnlyByTap
  BY AllowHasItsTap
<1> QED BY <1>1, <1>2, <1>3, PTL DEF AloneSpec

-----------------------------------------------------------------------------
(* Askers and daemon together. *)

\* The operator's taps on a prompt are the same to the askers as to the daemon.
LEMMA SameTaps == \A m : OperatorTaps(m) = Taps(m)
BY DEF OperatorTaps, Taps

\* The daemon never takes a prompt away.
LEMMA PromptsStay ==
    ASSUME IInv(SharedRows), [Next]_vars, NEW m \in Prompts, prompts[m] # "absent"
    PROVE  prompts'[m] # "absent"
<1>1. prompts \in [Prompts -> PromptStates]
  BY DEF IInv, Types
<1>2. CASE AcknowledgeDecision
  <2>1. inbox[cur] \in Update /\ inbox[cur].kind = "tap"
    BY <1>2, RowsAreShared, HandInRange DEF AcknowledgeDecision, Working, IInv, BatchInv
  <2>2. inbox[cur].decision \in Decisions /\ inbox[cur].decision # "absent"
    BY <2>1 DEF Update, Decisions
  <2> QED BY <1>1, <1>2, <2>2 DEF AcknowledgeDecision
<1>3. CASE ~AcknowledgeDecision
  BY <1>3 DEF vars, Next, World, Send, Admit, Revoke, StoreBreaks, StoreHeals, Daemon,
     Start, PollEmpty, PollBatch, SendReply, Commit, Crash, HandleUpdate,
     AuthorizeRaises, DropUnknown, DropForeignDecision, RecordDecision, AnswerTap,
     DropUnroutedTap, Dispatch, IgnoreUpdate, DrainEnds, HandlerFails
<1> QED BY <1>2, <1>3

\* A tap of the operator is on one of the prompts.
LEMMA TapsAreOnPrompts ==
    ASSUME inbox \in Seq(Traffic), NEW u \in DOMAIN inbox, inbox[u].kind = "tap"
    PROVE  inbox[u].message \in Prompts /\ inbox[u].decision \in Decisions
<1>1. inbox[u] \in Update
  BY TrafficAssumption
<1> QED BY <1>1 DEF Update

\* A row that is no `ask` entry leaves what the `ask` entries say.
LEMMA AskEntriesStay ==
    ASSUME NEW l \in Seq(SharedRows), NEW k,
           k = l \/ \E e \in SharedRows : e.kind # "ask" /\ k = Append(l, e)
    PROVE  /\ EntriesOf(k, "ask") = EntriesOf(l, "ask")
           /\ \A i \in EntriesOf(l, "ask") : k[i] = l[i]
<1>1. ASSUME NEW e \in SharedRows, e.kind # "ask", k = Append(l, e)
      PROVE  /\ EntriesOf(k, "ask") = EntriesOf(l, "ask")
             /\ \A i \in EntriesOf(l, "ask") : k[i] = l[i]
  <2>1. /\ \A i \in 1..Len(l) : Append(l, e)[i] = l[i]
        /\ EntriesOf(l, "ask") \subseteq 1..Len(l)
        /\ EntriesOf(Append(l, e), "ask") =
              EntriesOf(l, "ask") \cup (IF e.kind = "ask" THEN {Len(l) + 1} ELSE {})
    BY RowAppended
  <2> QED BY <1>1, <2>1
<1> QED BY <1>1

\* Whatever the daemon and the world do, both sides' invariants stand.
LEMMA DaemonStepKeeps ==
    ASSUME TogetherInv, [Next]_vars, UNCHANGED askerVars PROVE TogetherInv'
<1>0. /\ IInv(SharedRows) /\ Kept /\ AskerInv /\ ShownInv /\ AskEntriesTellTheTap
      /\ ledger \in Seq(SharedRows) /\ inbox \in Seq(Traffic)
  BY DEF TogetherInv, IInv, Types
<1>1. IInv(SharedRows)' /\ Kept'
  BY <1>0, RowsAreShared, InvStep, KeptStep
<1>2. /\ ledger' \in Seq(SharedRows) /\ prompts' \in [Prompts -> PromptStates]
      /\ inbox' \in Seq(Traffic)
  BY <1>1 DEF IInv, Types
<1>3. \A m \in Prompts : prompts[m] # "absent" => prompts'[m] # "absent"
  BY <1>0, PromptsStay
<1>4. \A m : CallbacksFor(ledger, m) # {} =>
          /\ CallbacksFor(ledger', m) # {}
          /\ FirstDecision(ledger', m) = FirstDecision(ledger, m)
  BY <1>0, RowsAreShared, DecisionStep
<1>5. AskerInv'
  BY <1>0, <1>2, <1>3, <1>4, OthersStep
<1>6. ShownInv'
  <2>1. SUFFICES ASSUME NEW u \in DOMAIN inbox', inbox'[u].kind = "tap",
                        inbox'[u].chat = Operator
                 PROVE  prompts'[inbox'[u].message] # "absent"
    BY DEF ShownInv
  <2>2. CASE u \in DOMAIN inbox
    <3>1. inbox'[u] = inbox[u]
      BY <1>0, <2>2, RowsAreShared, QueueStep
    <3>2. inbox[u].message \in Prompts /\ prompts[inbox[u].message] # "absent"
      BY <1>0, <2>1, <2>2, <3>1, TapsAreOnPrompts DEF ShownInv
    <3> QED BY <1>3, <3>1, <3>2
  <2>3. CASE u \notin DOMAIN inbox
    <3>1. PICK v \in Traffic : Send(v)
      BY <1>0, <2>1, <2>3, RowsAreShared, QueueStep
    <3>2. inbox' = Append(inbox, v) /\ prompts' = prompts
      BY <3>1 DEF Send
    <3>3. inbox'[u] = v
      BY <1>0, <2>1, <2>3, <3>2
    <3> QED BY <2>1, <3>1, <3>2, <3>3 DEF Send
  <2> QED BY <2>2, <2>3
<1>7. AskEntriesTellTheTap'
  <2>1. ledger' = ledger \/ \E e \in SharedRows : e.kind # "ask" /\ ledger' = Append(ledger, e)
    BY <1>0, RowsAreShared, RowStep DEF PollEntry, CallbackEntry, KnockEntry
  <2>2. /\ EntriesOf(ledger', "ask") = EntriesOf(ledger, "ask")
        /\ \A i \in EntriesOf(ledger, "ask") : ledger'[i] = ledger[i]
    BY <1>0, <2>1, AskEntriesStay
  <2>3. ASSUME NEW m, Taps(m) # {}
        PROVE  /\ Taps(m)' # {}
               /\ inbox'[Min(Taps(m)')].decision = inbox[Min(Taps(m))].decision
    BY <1>0, <2>3, RowsAreShared, TapsStay
  <2>4. SUFFICES ASSUME NEW i \in EntriesOf(ledger, "ask"),
                        NEW m, m = ledger[i].telegram_message_id
                 PROVE  /\ ledger[i].outcome = "allowed" =>
                              Taps(m)' # {} /\ inbox'[Min(Taps(m)')].decision = "allow"
                        /\ ledger[i].outcome = "denied" =>
                              Taps(m)' # {} /\ inbox'[Min(Taps(m)')].decision = "deny"
    BY <2>2 DEF AskEntriesTellTheTap, OperatorTaps, Taps
  <2>5. /\ ledger[i].outcome = "allowed" =>
              Taps(m) # {} /\ inbox[Min(Taps(m))].decision = "allow"
        /\ ledger[i].outcome = "denied" =>
              Taps(m) # {} /\ inbox[Min(Taps(m))].decision = "deny"
    BY <1>0, <2>4, SameTaps DEF AskEntriesTellTheTap
  <2> QED BY <2>3, <2>5
<1> QED BY <1>1, <1>5, <1>6, <1>7 DEF TogetherInv

\* A reply is what the operator's first tap said: the asker takes the first decision,
\* and that is the first tap's.
LEMMA ReplyIsTheTap ==
    ASSUME TogetherInv, NEW a \in Askers, reply[a] # "none"
    PROVE  /\ awaited[a] = sent[a]
           /\ Taps(sent[a]) # {} /\ reply[a] = inbox[Min(Taps(sent[a]))].decision
<1>1. /\ awaited[a] = sent[a] /\ sent[a] \in Prompts
      /\ CallbacksFor(ledger, sent[a]) # {} /\ reply[a] = FirstDecision(ledger, sent[a])
  BY DEF TogetherInv, AskerInv, AskerTypes, ReplyInv, Messages
<1>2. FirstTapDecides
  BY DEF TogetherInv, Kept, TapInv
<1> QED BY <1>1, <1>2 DEF FirstTapDecides, Taps

\* An asker's step keeps both sides' invariants too.
LEMMA AskerStepTogether ==
    ASSUME TogetherInv, NEW a \in Askers, AskerStep(a) PROVE TogetherInv'
<1> USE DEF daemonVars, history, world
<1>0. /\ IInv(SharedRows) /\ Kept /\ AskerInv /\ ShownInv /\ AskEntriesTellTheTap
      /\ ledger \in Seq(SharedRows) /\ inbox \in Seq(Traffic)
      /\ Ask(a) /\ UNCHANGED <<seen, daemonVars, history, world>>
  BY DEF TogetherInv, IInv, Types, AskerStep
<1>1. AskerInv' /\ prompts' \in [Prompts -> PromptStates]
  BY <1>0, AskerStepKeeps DEF AskerInv, AskerTypes
<1>2. \/ ledger' = ledger
      \/ \E e \in SharedRows : e.kind = "ask" /\ ledger' = Append(ledger, e)
  BY <1>0, AskerRow DEF AskEntry
<1>3. IInv(SharedRows)' /\ Kept'
  BY <1>0, <1>1, <1>2, RowsAreShared, AskersUnnoticed
<1>4. ShownInv'
  <2>1. \A m \in Prompts : prompts[m] # "absent" => prompts'[m] # "absent"
    BY <1>0 DEF Ask, AskStep, Deadline, Kill, PassThrough, PostPrompt,
       PostFails, LearnMessage, AnswerLost, ReadDecision, ReadNothing,
       ReadRaises, CheckClock, Resolve, AskerInv, AskerTypes
  <2> QED BY <1>0, <2>1, TapsAreOnPrompts DEF ShownInv
<1>5. AskEntriesTellTheTap'
  <2>1. CASE ledger' = ledger
    BY <1>0, <2>1 DEF AskEntriesTellTheTap, OperatorTaps
  <2>2. CASE /\ Resolve(a)
             /\ AskEntry(awaited[a], Outcome(reply[a])) \in SharedRows
             /\ ledger' = Append(ledger, AskEntry(awaited[a], Outcome(reply[a])))
    <3>1. PICK e, m : /\ e \in SharedRows
                      /\ e = AskEntry(awaited[a], Outcome(reply[a])) /\ m = awaited[a]
      BY <2>2
    <3>2. /\ e.kind = "ask" /\ e.telegram_message_id = m
          /\ e.outcome = Outcome(reply[a]) /\ ledger' = Append(ledger, e)
      BY <2>2, <3>1 DEF AskEntry
    <3>3. /\ ledger'[Len(ledger) + 1] = e
          /\ \A i \in 1..Len(ledger) : ledger'[i] = ledger[i]
          /\ EntriesOf(ledger, "ask") \subseteq 1..Len(ledger)
          /\ EntriesOf(ledger', "ask") = EntriesOf(ledger, "ask") \cup {Len(ledger) + 1}
      BY <1>0, <3>1, <3>2, RowAppended
    <3>4. /\ e.outcome = "allowed" => reply[a] = "allow"
          /\ e.outcome = "denied" => reply[a] = "deny"
      BY <3>2 DEF Outcome
    <3>5. reply[a] # "none" => Taps(m) # {} /\ reply[a] = inbox[Min(Taps(m))].decision
      BY <3>1, ReplyIsTheTap
    <3>6. \A n : OperatorTaps(n)' = Taps(n) /\ OperatorTaps(n) = Taps(n)
      BY <1>0 DEF OperatorTaps, Taps
    <3>7. ASSUME NEW i \in EntriesOf(ledger', "ask"),
                 NEW n, n = ledger'[i].telegram_message_id
          PROVE  /\ ledger'[i].outcome = "allowed" =>
                        Taps(n) # {} /\ inbox[Min(Taps(n))].decision = "allow"
                 /\ ledger'[i].outcome = "denied" =>
                        Taps(n) # {} /\ inbox[Min(Taps(n))].decision = "deny"
      <4>1. CASE i = Len(ledger) + 1
        BY <3>2, <3>3, <3>4, <3>5, <3>7, <4>1
      <4>2. CASE i \in EntriesOf(ledger, "ask")
        BY <1>0, <3>3, <3>6, <3>7, <4>2 DEF AskEntriesTellTheTap
      <4> QED BY <3>3, <3>7, <4>1, <4>2
    <3> QED BY <1>0, <3>6, <3>7 DEF AskEntriesTellTheTap
  <2> QED BY <1>0, <2>1, <2>2, AskerRow
<1> QED BY <1>1, <1>3, <1>4, <1>5 DEF TogetherInv

\* Daemon and askers together keep the whole invariant, the daemon's own included.
THEOREM TogetherInvariant == RSpec => []TogetherInv
<1>1. RInit => TogetherInv
  <2> SUFFICES ASSUME RInit PROVE TogetherInv
    OBVIOUS
  <2>1. /\ DaemonInit /\ AskInit /\ ledger = <<>> /\ inbox = <<>>
        /\ prompts = [m \in Prompts |-> "absent"]
    BY DEF RInit, DaemonInit
  <2>2. prompts \in [Prompts -> PromptStates]
    BY <2>1 DEF PromptStates
  <2>3. IInv(SharedRows) /\ Kept
    BY <2>1, <2>2, RowsAreShared, InitInv, KeptInit
  <2>4. AskerInv
    BY <2>1, AskerStart
  <2>5. ShownInv /\ AskEntriesTellTheTap
    BY <2>1 DEF ShownInv, AskEntriesTellTheTap, EntriesOf
  <2> QED BY <2>3, <2>4, <2>5 DEF TogetherInv
<1>2. ASSUME TogetherInv, [RNext]_allVars PROVE TogetherInv'
  <2>1. CASE [Next]_vars /\ UNCHANGED askerVars
    BY <1>2, <2>1, DaemonStepKeeps
  <2>2. ASSUME NEW a \in Askers, AskerStep(a) PROVE TogetherInv'
    BY <1>2, <2>2, AskerStepTogether
  <2> QED BY <1>2, <2>1, <2>2 DEF RNext, DaemonStep, Next, allVars
<1> QED BY <1>1, <1>2, PTL DEF RSpec

\* Sharing its ledger takes nothing from the daemon: what it promises by itself about
\* updates, decisions and knocks it keeps with askers around it.
THEOREM DaemonUndisturbed ==
    RSpec => [](/\ NothingLost /\ OncePerProcess /\ FirstTapDecides /\ TapsAreRecorded
                /\ KnocksBounded /\ KnockNotLost)
<1>1. TogetherInv => NothingLost
  BY RowsAreShared, ForgottenIsDone DEF TogetherInv
<1>2. TogetherInv /\ NothingLost => TapsAreRecorded
  BY DEF TogetherInv, Kept, TapInv, OperatorsTap, NothingLost, TapsAreRecorded
<1>3. TogetherInv => /\ OncePerProcess /\ FirstTapDecides
                     /\ KnocksBounded /\ KnockNotLost
  BY DEF TogetherInv, IInv, RunsInv, OncePerProcess, Kept, TapInv, KnockInv, KnocksBounded
<1> QED BY <1>1, <1>2, <1>3, TogetherInvariant, PTL

\* Nor does it serve anybody else: an asker's step calls no handler and sends no reply.
THEOREM ServesOnlyTheEnabledTogether == RSpec => OnlyTheEnabledAreServed
<1> DEFINE Enabled == LET served == {u \in UpdateIds : runs'[u] > runs[u]}
                                     \cup {h[2] : h \in heard' \ heard}
                      IN  \A u \in served : inbox[u].chat \in {Operator} \cup guests
<1>1. ASSUME TogetherInv, [RNext]_allVars PROVE Enabled
  <2>1. /\ IInv(SharedRows) /\ HandInv
        /\ runs \in [UpdateIds -> Nat]
    BY <1>1 DEF TogetherInv, Kept, IInv, Types
  <2>2. CASE [Next]_vars
    BY <2>1, <2>2, RowsAreShared, ServedAreEnabled
  <2>3. ASSUME NEW a \in Askers, AskerStep(a) PROVE Enabled
    <3>1. UNCHANGED <<runs, heard>>
      BY <2>3 DEF AskerStep, history
    <3>2. \A u \in UpdateIds : ~(runs[u] > runs[u])
      BY <2>1
    <3> QED BY <3>1, <3>2
  <2> QED BY <1>1, <2>2, <2>3 DEF RNext, DaemonStep, Next, allVars
<1>2. TogetherInv /\ [RNext]_allVars => [Enabled]_vars
  BY <1>1
<1> QED BY <1>2, TogetherInvariant, PTL DEF RSpec, OnlyTheEnabledAreServed

\* And the askers allow no more with the real daemon than with any recorder of taps.
THEOREM AllowNeedsATapTogether == RSpec => []AllowedOnlyByTap
<1>1. TogetherInv => AllowedOnlyByTap
  BY AllowHasItsTap DEF TogetherInv
<1> QED BY <1>1, TogetherInvariant, PTL

\* What the `ask` entries say is what the operator tapped, first and on that prompt:
\* it is so when an entry is written, and no later tap becomes the first.
THEOREM AuditTrailIsTrue == RSpec => []AskEntriesTellTheTap
<1>1. TogetherInv => AskEntriesTellTheTap
  BY DEF TogetherInv
<1> QED BY <1>1, TogetherInvariant, PTL

-----------------------------------------------------------------------------
(* The arrangement keeps the promise. *)

\* A step of the daemon or the world changes what the operator said about at most
\* one action, one left to him of which he had said nothing.
LEMMA SaidStep ==
    ASSUME TogetherInv, [Next]_vars, UNCHANGED askerVars,
           ~(\A a \in Askers : Said(a)' = Said(a))
    PROVE  \E b \in Askers, d \in Decisions :
              /\ inner[b] = "ask" /\ Said(b) = "none" /\ Said(b)' = d
              /\ \A a \in Askers \ {b} : Said(a)' = Said(a)
<1> USE DEF askerVars
<1>0. /\ IInv(SharedRows) /\ AskerInv /\ inbox \in Seq(Traffic)
      /\ sent \in [Askers -> Messages] /\ sent' = sent
      /\ \A a \in Askers : sent[a] # NoMessage => inner[a] = "ask"
      /\ \A a, c \in Askers : sent[a] # NoMessage /\ sent[a] = sent[c] => a = c
  BY DEF TogetherInv, AskerInv, AskerTypes, PromptInv, IInv, Types
<1>1. inbox' # inbox
  BY <1>0 DEF Said, OperatorTaps
<1>2. PICK v \in Traffic : Send(v)
  BY <1>0, <1>1, RowsAreShared, QueueStep
<1>3. /\ inbox' = Append(inbox, v) /\ inbox' \in Seq(Traffic) /\ Len(inbox) \in Nat
      /\ DOMAIN inbox = 1..Len(inbox) /\ DOMAIN inbox' = 1..(Len(inbox) + 1)
      /\ inbox'[Len(inbox) + 1] = v /\ \A u \in 1..Len(inbox) : inbox'[u] = inbox[u]
  BY <1>0, <1>2 DEF Send
<1>4. ASSUME NEW m
      PROVE  Taps(m)' = Taps(m) \cup (IF /\ v.kind = "tap" /\ v.chat = Operator
                                         /\ v.message = m
                                      THEN {Len(inbox) + 1} ELSE {})
  BY <1>3 DEF Taps
<1>5. ASSUME NEW a \in Askers
      PROVE  /\ Said(a) = IF Taps(sent[a]) = {} THEN "none"
                          ELSE inbox[Min(Taps(sent[a]))].decision
             /\ \A m : m = sent[a] =>
                  Said(a)' = IF Taps(m)' = {} THEN "none"
                             ELSE inbox'[Min(Taps(m)')].decision
  BY <1>0 DEF Said, OperatorTaps, Taps
<1>6. ASSUME NEW a \in Askers,
             Taps(sent[a]) # {} \/ ~(/\ v.kind = "tap" /\ v.chat = Operator
                                     /\ v.message = sent[a])
      PROVE  Said(a)' = Said(a)
  <2>1. PICK m : m = sent[a]
    OBVIOUS
  <2>2. CASE Taps(m) # {}
    <3>1. Min(Taps(m)') = Min(Taps(m)) /\ inbox'[Min(Taps(m))] = inbox[Min(Taps(m))]
      BY <1>0, <2>2, RowsAreShared, TapsStay
    <3>2. Taps(m)' # {}
      BY <1>4, <2>2
    <3> QED BY <1>5, <2>1, <2>2, <3>1, <3>2
  <2>3. CASE Taps(m) = {}
    <3>1. Taps(m)' = {}
      BY <1>4, <1>6, <2>1, <2>3
    <3> QED BY <1>5, <2>1, <2>3, <3>1
  <2> QED BY <2>2, <2>3
<1>7. PICK b \in Askers : Said(b)' # Said(b)
  OBVIOUS
<1>8. /\ Taps(sent[b]) = {} /\ v.kind = "tap" /\ v.chat = Operator
      /\ v.message = sent[b]
  BY <1>6, <1>7
<1>9. v.message \in Prompts /\ v.decision \in Decisions /\ sent[b] # NoMessage
  <2>1. v \in Update
    BY TrafficAssumption
  <2> QED BY <1>8, <2>1, MessagesAssumption DEF Update
<1>10. Said(b) = "none" /\ Said(b)' = v.decision
  <2>1. PICK m : m = sent[b]
    OBVIOUS
  <2>2. Taps(m)' = {Len(inbox) + 1}
    BY <1>4, <1>8, <2>1
  <2>3. PICK S : S = Taps(m)'
    OBVIOUS
  <2>4. Min(S) \in S
    <3>1. S \subseteq Nat /\ S # {}
      BY <1>3, <2>2, <2>3
    <3> QED BY <3>1, MinIsLeast
  <2>5. Min(Taps(m)') = Len(inbox) + 1
    BY <2>2, <2>3, <2>4
  <2>6. Said(b)' = IF Taps(m)' = {} THEN "none" ELSE inbox'[Min(Taps(m)')].decision
    BY <1>5, <2>1
  <2>7. Taps(m)' # {}
    BY <2>2
  <2>8. Said(b)' = v.decision
    BY <1>3, <2>5, <2>6, <2>7
  <2>9. Said(b) = "none"
    BY <1>5, <1>8
  <2> QED BY <2>8, <2>9
<1>11. ASSUME NEW a \in Askers \ {b} PROVE Said(a)' = Said(a)
  <2>1. v.message # sent[a]
    BY <1>0, <1>8, <1>9
  <2> QED BY <1>6, <2>1
<1> QED BY <1>0, <1>9, <1>10, <1>11

\* Nothing is said of an action before its prompt is shown.
LEMMA NothingSaidYet ==
    ASSUME TogetherInv, NEW m, m = NoMessage \/ (m \in Prompts /\ prompts[m] = "absent")
    PROVE  OperatorTaps(m) = {}
<1>1. SUFFICES ASSUME NEW u \in DOMAIN inbox, inbox[u].kind = "tap",
                      inbox[u].chat = Operator, inbox[u].message = m
               PROVE  FALSE
  BY DEF OperatorTaps
<1>2. inbox[u].message \in Prompts /\ prompts[inbox[u].message] # "absent"
  BY <1>1, TapsAreOnPrompts DEF TogetherInv, ShownInv, IInv, Types
<1> QED BY <1>1, <1>2, MessagesAssumption

\* An asker changes nothing of what was said: the prompt it posts is a new one.
LEMMA SaidStays ==
    ASSUME TogetherInv, NEW a \in Askers, AskerStep(a), NEW c \in Askers
    PROVE  Said(c)' = Said(c)
<1>1. /\ inbox' = inbox /\ Ask(a) /\ AskerTypes /\ StageInv
      /\ sent \in [Askers -> Messages]
  BY DEF AskerStep, world, TogetherInv, AskerInv, AskerTypes
<1>2. CASE sent' = sent
  BY <1>1, <1>2 DEF Said, OperatorTaps
<1>3. CASE PostPrompt(a)
  <2>1. PICK m \in Prompts : prompts[m] = "absent" /\ sent' = [sent EXCEPT ![a] = m]
    BY <1>3 DEF PostPrompt
  <2>2. sent[a] = NoMessage
    BY <1>1, <1>3 DEF PostPrompt, StageInv
  <2>3. OperatorTaps(NoMessage) = {} /\ OperatorTaps(m) = {}
    BY <2>1, NothingSaidYet
  <2>4. CASE c = a
    <3>1. sent[c] = NoMessage /\ sent'[c] = m
      BY <1>1, <2>1, <2>2, <2>4
    <3>2. Said(c) = "none"
      BY <2>3, <3>1 DEF Said
    <3>3. \A n : OperatorTaps(n)' = OperatorTaps(n)
      BY <1>1 DEF OperatorTaps
    <3>4. Said(c)' = "none"
      BY <1>1, <2>3, <3>1, <3>3 DEF Said, OperatorTaps
    <3> QED BY <3>2, <3>4
  <2>5. CASE c # a
    <3>1. sent'[c] = sent[c]
      BY <1>1, <2>1, <2>5
    <3> QED BY <1>1, <3>1 DEF Said, OperatorTaps
  <2> QED BY <2>4, <2>5
<1> QED BY <1>1, <1>2, <1>3 DEF Ask, AskStep, Deadline, Kill, PassThrough,
   PostFails, LearnMessage, AnswerLost, ReadDecision, ReadNothing,
   ReadRaises, CheckClock, Resolve

\* What the promise speaks of.
SaidOf == [a \in Askers |-> Said(a)]

\* Each step of an asker is a step of the promise, or none of its business.
LEMMA AskerKeepsPromise ==
    ASSUME TogetherInv, NEW a \in Askers, AskerStep(a)
    PROVE  [P!PNext]_(P!pvars)
<1>1. SaidOf' = SaidOf
  BY SaidStays DEF SaidOf
<1>2. /\ Ask(a)
      /\ AskerTypes /\ StageInv /\ PromptInv /\ ReplyInv
  BY DEF AskerStep, TogetherInv, AskerInv
<1>3. CASE PassThrough(a)
  <2>1. \E d \in Decisions : P!Decide(a, d)
    BY <1>1, <1>2, <1>3 DEF PassThrough, StageInv, P!Decide, SaidOf
  <2> QED BY <2>1 DEF P!PNext
<1>4. CASE PostPrompt(a) \/ PostFails(a)
  <2>1. P!Escalate(a)
    BY <1>1, <1>2, <1>4 DEF PostPrompt, PostFails, StageInv, P!Escalate, SaidOf
  <2> QED BY <2>1 DEF P!PNext
<1>5. CASE Resolve(a)
  <2>1. inner[a] = "ask" /\ verdict[a] = "none" /\ inner' = inner
    BY <1>2, <1>5 DEF Resolve, StageInv
  <2>2. reply[a] = "allow" => SaidOf[a] = "allow"
    BY ReplyIsTheTap, SameTaps DEF SaidOf, Said
  <2>3. PICK d \in Decisions : d = IF reply[a] = "allow" THEN "allow" ELSE "deny"
    BY DEF Decisions
  <2>4. verdict' = [verdict EXCEPT ![a] = d]
    BY <1>5, <2>3 DEF Resolve
  <2>5. P!Conclude(a, d)
    BY <1>1, <2>1, <2>2, <2>3, <2>4 DEF P!Conclude, SaidOf
  <2> QED BY <2>5 DEF P!PNext
<1>6. CASE inner' = inner /\ verdict' = verdict
  BY <1>1, <1>6 DEF P!pvars, SaidOf
<1> QED BY <1>2, <1>3, <1>4, <1>5, <1>6 DEF Ask, AskStep, Deadline, Kill,
   LearnMessage, AnswerLost, ReadDecision, ReadNothing, ReadRaises,
   CheckClock

\* Each step of the daemon and the world is a saying, or none of its business.
LEMMA DaemonKeepsPromise ==
    ASSUME TogetherInv, [Next]_vars, UNCHANGED askerVars
    PROVE  [P!PNext]_(P!pvars)
<1>1. CASE \A a \in Askers : Said(a)' = Said(a)
  BY <1>1 DEF P!pvars, askerVars
<1>2. CASE ~(\A a \in Askers : Said(a)' = Said(a))
  <2>1. PICK b \in Askers, d \in Decisions :
            /\ inner[b] = "ask" /\ Said(b) = "none" /\ Said(b)' = d
            /\ \A a \in Askers \ {b} : Said(a)' = Said(a)
    BY <1>2, SaidStep
  <2>2. SaidOf' = [SaidOf EXCEPT ![b] = d] /\ SaidOf[b] = "none"
    BY <2>1 DEF SaidOf
  <2>3. P!Say(b, d)
    BY <2>1, <2>2 DEF P!Say, SaidOf, askerVars
  <2> QED BY <2>3 DEF P!PNext
<1> QED BY <1>1, <1>2

\* Daemon and askers together implement the promise: what the operator said is his
\* first tap in Telegram's queue, and every step between it and the verdict keeps to
\* the four things the promise lets happen.
THEOREM PromiseIsKept == RSpec => KeepsThePromise
<1>1. RInit => P!PInit
  <2> SUFFICES ASSUME RInit PROVE P!PInit
    OBVIOUS
  <2>1. AskInit /\ inbox = <<>>
    BY DEF RInit, DaemonInit
  <2>2. \A m : OperatorTaps(m) = {}
    BY <2>1 DEF OperatorTaps
  <2>3. \A a \in Askers : Said(a) = "none"
    BY <2>2 DEF Said
  <2> QED BY <2>1, <2>3 DEF P!PInit, AskInit
<1>2. TogetherInv /\ [RNext]_allVars => [P!PNext]_(P!pvars)
  <2> SUFFICES ASSUME TogetherInv, [RNext]_allVars PROVE [P!PNext]_(P!pvars)
    OBVIOUS
  <2>1. CASE [Next]_vars /\ UNCHANGED askerVars
    BY <2>1, DaemonKeepsPromise
  <2>2. ASSUME NEW a \in Askers, AskerStep(a) PROVE [P!PNext]_(P!pvars)
    BY <2>2, AskerKeepsPromise
  <2> QED BY <2>1, <2>2 DEF RNext, DaemonStep, Next, allVars
<1> QED BY <1>1, <1>2, TogetherInvariant, PTL DEF RSpec, KeepsThePromise, P!PSpec
=============================================================================
