---------------------------- MODULE IdeaRequests -----------------------------
(***************************************************************************)
(* What a tester's requests do to the ideas (idea_command.py): /idea files *)
(* a GitHub issue, hands over a receipt and explores it; the buttons under *)
(* the brief explore it again or close it.  The issues are shared with the *)
(* operator; a private ledger file (authz.ledger_for) says which of them   *)
(* are the tester's own.  Every step is a step of EngineQuota or leaves    *)
(* the metering alone.                                                     *)
(*                                                                         *)
(* file_idea and explore are outside the repository: the issue exists      *)
(* before it is recorded, since the entry carries its number, and either   *)
(* may raise in between.  A note is filed in another repository: of it     *)
(* only the metering is modelled.                                          *)
(***************************************************************************)
EXTENDS EngineQuota, Sequences, FiniteSets

CONSTANT MaxIssues      \* bound of the instance

VARIABLES
    issues,     \* who had each issue filed, by number
    filed,      \* idea_filed entries of the tester's ledger
    closed,     \* its idea_closed entries
    number,     \* the issue the request in hand is about; 0 when there is none
    progress,   \* how far that request has come, beyond the metering
    told,       \* ideas whose receipt the tester was sent
    touched,    \* history: issues written to on the tester's behalf
    shut,       \* history: issues closed on his behalf
    untold,     \* history: receipts lost to a failed send or a crash
    unrecorded  \* history: closings lost to an error or a refused repetition

ideas == <<issues, filed, closed, number, progress, told, touched, shut, untold, unrecorded>>
ivars == <<vars, ideas>>

Owners == {"operator", "tester"}
Taps == {"explore", "close"}

IInit ==
    /\ Init
    /\ issues = <<>> /\ filed = {} /\ closed = {}
    /\ number = 0 /\ progress = "none"
    /\ told = {} /\ touched = {} /\ shut = {}
    /\ untold = {} /\ unrecorded = {}

\* The operator's own /idea, handled between two requests of the tester's.
OperatorFiles ==
    /\ stage = "idle" /\ Len(issues) < MaxIssues
    /\ issues' = Append(issues, "operator")
    /\ UNCHANGED <<vars, filed, closed, number, progress, told, touched, shut,
                   untold, unrecorded>>

\* The tester's ledger holds only his own ideas (mutant: any issue will do).
MayActOnAny(n) == n \in DOMAIN issues
MayActOn(n) == n \in filed

\* A tap carries whatever number the tester's client sends, or none.
Request ==
    \E r \in Requests, n \in 0..Len(issues) :
        /\ r.kind \in Taps => r.fit = MayActOn(n)
        /\ r.kind \notin Taps => n = 0
        /\ Arrive(r)
        /\ number' = n /\ progress' = "none"
        /\ UNCHANGED <<issues, filed, closed, told, touched, shut, untold, unrecorded>>

-----------------------------------------------------------------------------
(* handle_idea and explore_idea. *)

CreateIssue ==
    /\ stage = "reserved" /\ request.kind = "idea" /\ request.fit
    /\ number = 0 /\ Len(issues) < MaxIssues
    /\ issues' = Append(issues, "tester")
    /\ number' = Len(issues) + 1
    /\ UNCHANGED <<vars, filed, closed, progress, told, touched, shut, untold, unrecorded>>

RecordFiling ==
    /\ FileCapture
    /\ number # 0
    /\ filed' = filed \cup {number}
    /\ progress' = "receipt due"
    /\ UNCHANGED <<issues, closed, number, told, touched, shut, untold, unrecorded>>

\* The receipt is yielded before the Engine is called; sending it may fail.
SendReceipt ==
    /\ progress = "receipt due"
    /\ \/ told' = told \cup {number} /\ UNCHANGED untold
       \/ untold' = untold \cup {number} /\ UNCHANGED told
    /\ progress' = "receipt gone"
    /\ UNCHANGED <<vars, issues, filed, closed, number, touched, shut, unrecorded>>

\* (Mutant: the handler goes on, or fails, before it has yielded the receipt.)
Regardless == TRUE
ReceiptGone == progress # "receipt due"

\* explore posts its brief as a comment, if the policy lets it.
Explore ==
    /\ CallEngine /\ ReceiptGone
    /\ touched' \in {touched, touched \cup ({number} \ {0})}
    /\ UNCHANGED <<issues, filed, closed, number, progress, told, shut, untold, unrecorded>>

\* (Mutant: a handler that raised is tried again.)
TryAgain ==
    /\ Spending \/ (stage = "reserved" /\ request.fit)
    /\ ReceiptGone
    /\ Release
    /\ stage' = "arrived"
    /\ number' = IF request.kind = "idea" THEN 0 ELSE number
    /\ UNCHANGED <<request, enabled, quiet, issues, filed, closed, progress, told,
                   touched, shut, untold, unrecorded>>
HandlerRaises ==
    /\ RaiseRefunding /\ ReceiptGone
    /\ UNCHANGED ideas

\* What the handlers do that concerns no idea.
MeteringOnly ==
    /\ \/ SwitchTester \/ RefuseUnfit \/ Meter \/ ReserveCall \/ RefuseExhausted
       \/ ReplyUsage \/ BeginClose \/ ReplyBrief \/ CommitRequest
       \/ FilingDenied /\ number = 0
       \/ FileCapture /\ request.kind = "note"
    /\ UNCHANGED ideas

-----------------------------------------------------------------------------
(* close_idea. *)

\* A closing nobody will record any more, if this request was to record it.
GiveUpRecord == unrecorded' = unrecorded \cup ({number} \cap (shut' \ closed))

CloseDenied ==
    /\ EndClose /\ progress = "none"
    /\ UNCHANGED shut /\ GiveUpRecord
    /\ UNCHANGED <<issues, filed, closed, number, progress, told, touched, untold>>

CloseOnGitHub ==
    /\ stage = "closing" /\ progress = "none"
    /\ shut' = shut \cup {number} /\ touched' = touched \cup {number}
    /\ progress' = "issue closed"
    /\ UNCHANGED <<vars, issues, filed, closed, number, told, untold, unrecorded>>

\* gh reports an error, whether or not GitHub has closed the issue.
CloseRaises ==
    /\ EndClose /\ progress = "none"
    /\ \/ UNCHANGED <<shut, touched>>
       \/ shut' = shut \cup {number} /\ touched' = touched \cup {number}
    /\ GiveUpRecord
    /\ UNCHANGED <<issues, filed, closed, number, progress, told, untold>>

\* (Mutant: it is recorded whatever gh said.)
RecordAnyClose ==
    /\ EndClose
    /\ closed' = closed \cup {number}
    /\ UNCHANGED <<issues, filed, number, progress, told, touched, shut, untold, unrecorded>>
RecordClose ==
    /\ EndClose /\ progress = "issue closed"
    /\ closed' = closed \cup {number}
    /\ UNCHANGED <<issues, filed, number, progress, told, touched, shut, untold, unrecorded>>

-----------------------------------------------------------------------------
\* A disabled tester's request is dropped, the repetition of one too.
DropRequest ==
    /\ DropDisabled
    /\ UNCHANGED shut
    /\ IF request.kind = "close" THEN GiveUpRecord ELSE UNCHANGED unrecorded
    /\ UNCHANGED <<issues, filed, closed, number, progress, told, touched, untold>>

\* The handler's place is lost; the tap still says which idea it is about.
DieAndRedeliver ==
    /\ CrashAndRedeliver
    /\ number' = IF request.kind = "idea" THEN 0 ELSE number
    /\ progress' = "none"
    /\ untold' = IF progress = "receipt due" THEN untold \cup {number} ELSE untold
    /\ UNCHANGED <<issues, filed, closed, told, touched, shut, unrecorded>>

INext ==
    \/ OperatorFiles \/ Request \/ MeteringOnly
    \/ CreateIssue \/ RecordFiling \/ SendReceipt \/ Explore \/ HandlerRaises
    \/ CloseDenied \/ CloseOnGitHub \/ CloseRaises \/ RecordClose
    \/ DropRequest \/ DieAndRedeliver

ISpec == IInit /\ [][INext]_ivars

-----------------------------------------------------------------------------
\* Whatever number a forged button carries, nothing is written to an issue on the
\* tester's behalf that he did not file himself (_may_act_on), nor is he ever
\* refused an idea he was told is his.
OwnIdeasOnly ==
    /\ \A n \in touched : issues[n] = "tester"
    /\ \A n \in told : MayActOn(n) /\ issues[n] = "tester"

\* idea_command.py: "if the Engine call dies they still know the idea was captured".
\* The receipt of every filing on record went out, unless its own send failed or
\* the daemon died in that moment.
CapturedIsTold ==
    \A n \in filed :
        n \in told \cup untold \/ (n = number /\ progress = "receipt due")

\* What the ledger says of closed ideas is what GitHub shows: nothing is recorded
\* that was not closed, and a closing is recorded, after a crash by the repeated
\* request, unless gh reported an error or the repetition was refused.
ClosingsOnRecord ==
    /\ closed \subseteq shut
    /\ \A n \in shut \ closed :
          n \in unrecorded \/ (n = number /\ stage \notin {"idle", "finished"})

\* A request files one issue, whatever raises and whatever reply is lost: only a
\* crash before the cursor is recorded files a second one.
OneIssuePerRequest ==
    Cardinality({n \in DOMAIN issues : issues[n] = "tester"})
        <= requests + crashes + (IF stage = "idle" THEN 0 ELSE 1)
=============================================================================
