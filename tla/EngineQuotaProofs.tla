-------------------------- MODULE EngineQuotaProofs --------------------------
(***************************************************************************)
(* What is proved of the metering for every quota, however many requests   *)
(* and crashes: TypeOK, QuotaIsHard and OverCountHasAReason; that the idea *)
(* handlers implement it; and of these, OwnIdeasOnly, CapturedIsTold,      *)
(* ClosingsOnRecord and OneIssuePerRequest.                                *)
(***************************************************************************)
EXTENDS IdeaRequests, FiniteSetTheorems, TLAPS

\* A handler that holds a reservation it has not spent holds one beyond the calls:
\* without it QuotaIsHard could be left by the next call, or by a refund.
Held == stage \in {"reserved", "filed"} => calls < used

IInv == TypeOK /\ QuotaIsHard /\ OverCountHasAReason /\ Held

\* Nothing is used before the first request.
LEMMA InitHolds == Init => IInv
  BY QuotaAssumption
  DEF Init, IInv, TypeOK, Stages, Requests, QuotaIsHard, OverCountHasAReason, Held

\* Every step of a handler, a crash at any of them and every switch of the tester
\* keeps the invariant.
LEMMA StepHolds == IInv /\ [Next]_vars => IInv'
<1> SUFFICES ASSUME IInv, [Next]_vars PROVE IInv'
  OBVIOUS
<1> USE QuotaAssumption
    DEF IInv, TypeOK, QuotaIsHard, OverCountHasAReason, Held, quiet, Finish
<1>1. ASSUME NEW r \in Requests, Arrive(r) PROVE IInv'
  BY <1>1 DEF Arrive, Stages
<1>2. CASE SwitchTester
  BY <1>2 DEF SwitchTester
<1>3. CASE DropDisabled \/ RefuseUnfit \/ RefuseExhausted \/ ReplyBrief
  BY <1>3 DEF DropDisabled, RefuseUnfit, RefuseExhausted, ReplyBrief, Stages
<1>13. CASE BeginClose \/ EndClose
  BY <1>13 DEF BeginClose, EndClose, Stages
<1>4. CASE Meter
  BY <1>4 DEF Meter, Stages
<1>5. CASE ReserveCall
  BY <1>5 DEF ReserveCall, Stages
<1>6. CASE ReplyUsage \/ FilingDenied
  BY <1>6 DEF ReplyUsage, FilingDenied, Stages
<1>7. CASE FileCapture
  BY <1>7 DEF FileCapture, Stages
\* The reservation in hand is the one that is spent or given back.
<1>8. CASE CallEngine
  BY <1>8 DEF CallEngine, Spending, Stages
<1>9. CASE RaiseRefunding
  <2>1. stage \in {"reserved", "filed"}
    BY <1>9 DEF RaiseRefunding, Spending
  <2>2. used - 1 \in Nat /\ calls <= used - 1
    BY <2>1
  <2> QED
    BY <1>9, <2>1, <2>2 DEF RaiseRefunding, Release, Stages
<1>10. CASE CommitRequest
  BY <1>10 DEF CommitRequest, Stages
\* The crash is what an abandoned reservation is booked under.
<1>11. CASE CrashAndRedeliver
  BY <1>11 DEF CrashAndRedeliver, Stages
<1>12. CASE UNCHANGED vars
  BY <1>12 DEF vars
<1> QED
  BY <1>1, <1>2, <1>3, <1>4, <1>5, <1>6, <1>7, <1>8, <1>9, <1>10, <1>11, <1>12, <1>13
  DEF Next

\* The invariant of the metering: a handler that holds a reservation has one to spend.
THEOREM MeteringInvariant == Spec => []IInv
  BY InitHolds, StepHolds, PTL DEF Spec

\* The counters and the handler's stage keep their types; a refund never takes
\* engine_used below zero (release_engine_call).
THEOREM MeteringTypes == Spec => []TypeOK
<1>1. IInv => TypeOK
  BY DEF IInv
<1> QED
  BY <1>1, MeteringInvariant, PTL

\* No more calls are made than were reserved, nor more reserved than the quota.
THEOREM CallsWithinQuota == Spec => []QuotaIsHard
<1>1. IInv => QuotaIsHard
  BY DEF IInv
<1> QED
  BY <1>1, MeteringInvariant, PTL

\* What a tester is billed beyond his calls is accounted for by crashes, denials
\* and blank texts, one each.
THEOREM OverCountExplained == Spec => []OverCountHasAReason
<1>1. IInv => OverCountHasAReason
  BY DEF IInv
<1> QED
  BY <1>1, MeteringInvariant, PTL

\* A step of the idea handlers is a step of the metering or leaves it alone.
LEMMA IdeaStepMeters == [INext]_ivars => [Next]_vars
<1> SUFFICES ASSUME [INext]_ivars PROVE [Next]_vars
  OBVIOUS
<1>1. CASE OperatorFiles \/ CreateIssue \/ SendReceipt \/ CloseOnGitHub
  BY <1>1 DEF OperatorFiles, CreateIssue, SendReceipt, CloseOnGitHub
<1>2. CASE Request
  BY <1>2 DEF Request, Next
<1>3. CASE MeteringOnly
  BY <1>3 DEF MeteringOnly, Next
<1>4. CASE RecordFiling \/ Explore \/ HandlerRaises
  BY <1>4 DEF RecordFiling, Explore, HandlerRaises, Next
<1>5. CASE CloseDenied \/ CloseRaises \/ RecordClose
  BY <1>5 DEF CloseDenied, CloseRaises, RecordClose, Next
<1>6. CASE DropRequest \/ DieAndRedeliver
  BY <1>6 DEF DropRequest, DieAndRedeliver, Next
<1>7. CASE UNCHANGED ivars
  BY <1>7 DEF ivars
<1> QED
  BY <1>1, <1>2, <1>3, <1>4, <1>5, <1>6, <1>7 DEF INext

\* The idea handlers implement the metering: whatever they do with issues, receipts
\* and closings, the theorems above hold of them.
THEOREM IdeasAreMetered == ISpec => Spec
<1>1. IInit => Init
  BY DEF IInit
<1> QED
  BY <1>1, IdeaStepMeters, PTL DEF ISpec, Spec

\* So no tester's ideas cost more Engine calls than his quota.
THEOREM IdeasWithinQuota == ISpec => []QuotaIsHard
  BY IdeasAreMetered, CallsWithinQuota, PTL

-----------------------------------------------------------------------------
(* The ideas themselves. *)

\* What the ledgers and the histories say of issues they say of the tester's own.
IssuesInv ==
    /\ issues \in Seq(Owners) /\ number \in 0..Len(issues)
    /\ filed \subseteq DOMAIN issues /\ \A n \in filed : issues[n] = "tester"
    /\ touched \subseteq filed /\ told \subseteq filed
    /\ closed \subseteq shut /\ shut \subseteq filed

\* The request in hand: how far it has come tells what its number stands for.
InHandInv ==
    /\ request.kind \in {"note", "wish"} => number = 0
    /\ request.kind = "idea" /\ number # 0 => issues[number] = "tester"
    /\ request.kind \in Taps /\ stage # "idle" => (request.fit <=> number \in filed)
    /\ stage = "closing" => request.kind = "close" /\ request.fit
    /\ stage \in {"metering", "reserved", "filed", "called"} =>
          request.kind # "close" /\ (request.kind \in Captures \/ request.fit)
    /\ stage = "filed" => request.kind \in Captures
    /\ stage = "filed" /\ request.kind = "idea" => number \in filed
    /\ progress = "receipt due" => stage = "filed" /\ request.kind = "idea"
    /\ progress = "issue closed" => request.kind = "close" /\ number \in shut

\* A closing that is not on record yet belongs to the request in hand, or is given up.
ShutInv ==
    \A n \in shut \ closed :
        \/ n \in unrecorded
        \/ n = number /\ request.kind = "close" /\ stage \notin {"idle", "finished"}

TestersIssues == {n \in DOMAIN issues : issues[n] = "tester"}

\* An /idea that has filed nothing yet still has its issue to spare.
SpareInv ==
    /\ OneIssuePerRequest
    /\ stage # "idle" /\ request.kind = "idea" /\ number = 0
          => Cardinality(TestersIssues) <= requests + crashes

IdeasInv == TypeOK /\ IssuesInv /\ InHandInv /\ CapturedIsTold /\ ShutInv /\ SpareInv

\* Steps that concern no idea leave issues, ledgers and histories alone.
LEMMA MeteringLeavesIdeas == MeteringOnly => UNCHANGED ideas
  BY DEF MeteringOnly

\* Only the tester's own issues get into his ledger, are written to or are closed.
LEMMA IssuesStep ==
    ASSUME TypeOK, IssuesInv, InHandInv, [INext]_ivars
    PROVE  IssuesInv'
<1>a. Len(issues) \in Nat /\ DOMAIN issues = 1..Len(issues)
  BY DEF IssuesInv
<1>1. CASE OperatorFiles
  BY <1>1, <1>a DEF OperatorFiles, IssuesInv, Owners
<1>2. CASE Request
  BY <1>2 DEF Request, IssuesInv
<1>3. CASE MeteringOnly \/ HandlerRaises \/ UNCHANGED ivars
  BY <1>3, MeteringLeavesIdeas DEF HandlerRaises, IssuesInv, ideas, ivars
<1>4. CASE CreateIssue
  BY <1>4, <1>a DEF CreateIssue, IssuesInv, Owners
<1>5. CASE RecordFiling
  <2>1. request.kind = "idea" /\ number # 0
    BY <1>5 DEF RecordFiling, FileCapture, InHandInv, Captures
  <2>2. number \in DOMAIN issues /\ issues[number] = "tester"
    <3>1. number \in Nat /\ number <= Len(issues)
      BY <1>a DEF IssuesInv
    <3>2. number \in 1..Len(issues)
      BY <1>a, <2>1, <3>1
    <3>3. issues[number] = "tester"
      BY <2>1 DEF InHandInv
    <3> QED
      BY <1>a, <3>2, <3>3
  <2>3. /\ filed' = filed \cup {number}
        /\ UNCHANGED <<issues, closed, number, told, touched, shut>>
    BY <1>5 DEF RecordFiling
  <2> QED
    BY <2>2, <2>3 DEF IssuesInv
<1>6. CASE SendReceipt
  BY <1>6 DEF SendReceipt, IssuesInv, InHandInv
<1>7. CASE Explore
  <2>1. number = 0 \/ number \in filed
    BY <1>7 DEF Explore, CallEngine, Spending, InHandInv, Captures, Taps, TypeOK, Requests
  <2> QED
    BY <1>7, <2>1 DEF Explore, IssuesInv
<1>8. CASE CloseDenied \/ CloseOnGitHub \/ CloseRaises \/ RecordClose
  <2>1. stage = "closing" /\ number \in filed
    BY <1>8 DEF CloseDenied, CloseOnGitHub, CloseRaises, RecordClose, EndClose,
                InHandInv, Taps
  <2> QED
    BY <1>8, <2>1
    DEF CloseDenied, CloseOnGitHub, CloseRaises, RecordClose, IssuesInv, InHandInv
<1>9. CASE DropRequest \/ DieAndRedeliver
  <2>1. number' \in {0, number} /\ UNCHANGED <<issues, filed, closed, told, touched, shut>>
    BY <1>9 DEF DropRequest, DieAndRedeliver
  <2>2. number' \in 0..Len(issues)
    BY <1>a, <2>1 DEF IssuesInv
  <2> QED
    BY <2>1, <2>2 DEF IssuesInv
<1> QED
  BY <1>1, <1>2, <1>3, <1>4, <1>5, <1>6, <1>7, <1>8, <1>9 DEF INext

\* The handler's place goes with its request, through crash and repetition.
LEMMA InHandStep ==
    ASSUME TypeOK, IssuesInv, InHandInv, [INext]_ivars
    PROVE  InHandInv'
<1>a. /\ Len(issues) \in Nat /\ DOMAIN issues = 1..Len(issues)
      /\ number \in Nat /\ number <= Len(issues) /\ 0 \notin filed
      /\ request.kind \in {"idea", "note", "wish", "explore", "close"}
  BY DEF IssuesInv, TypeOK, Requests
<1>1. CASE OperatorFiles
  <2>1. \A n \in DOMAIN issues : issues'[n] = issues[n]
    BY <1>1, <1>a DEF OperatorFiles, IssuesInv
  <2>2. number # 0 => number \in DOMAIN issues
    BY <1>a
  <2>3. UNCHANGED <<stage, request, filed, number, progress, shut>>
    BY <1>1 DEF OperatorFiles, vars
  <2> QED
    BY <2>1, <2>2, <2>3 DEF InHandInv
<1>2. CASE Request
  <2>1. PICK r \in Requests, n \in 0..Len(issues) :
            /\ r.kind \in Taps => r.fit = MayActOn(n)
            /\ r.kind \notin Taps => n = 0
            /\ Arrive(r)
            /\ number' = n /\ progress' = "none"
            /\ UNCHANGED <<issues, filed, closed, told, touched, shut, untold, unrecorded>>
    BY <1>2 DEF Request
  <2> QED
    BY <2>1 DEF Arrive, InHandInv, Taps, MayActOn
<1>3. CASE MeteringOnly
  <2>1. UNCHANGED <<issues, filed, number, progress, shut, request>>
    BY <1>3, MeteringLeavesIdeas
    DEF ideas, MeteringOnly, SwitchTester, RefuseUnfit, Meter, ReserveCall, RefuseExhausted,
        ReplyUsage, BeginClose, ReplyBrief, CommitRequest, FilingDenied, FileCapture
  <2>2. progress # "receipt due" \/ (SwitchTester /\ stage' = stage)
    BY <1>3
    DEF MeteringOnly, SwitchTester, RefuseUnfit, Meter, ReserveCall, RefuseExhausted,
        ReplyUsage, BeginClose, ReplyBrief, CommitRequest, FilingDenied, FileCapture, InHandInv
  <2>3. CASE SwitchTester \/ RefuseUnfit \/ RefuseExhausted \/ ReplyUsage \/ ReplyBrief
             \/ CommitRequest \/ FilingDenied
    BY <2>1, <2>2, <2>3
    DEF SwitchTester, RefuseUnfit, RefuseExhausted, ReplyUsage, ReplyBrief, CommitRequest,
        FilingDenied, Finish, InHandInv
  <2>4. CASE Meter \/ ReserveCall \/ BeginClose
    BY <2>1, <2>2, <2>4, <1>a DEF Meter, ReserveCall, BeginClose, InHandInv, Captures
  <2>5. CASE FileCapture /\ request.kind = "note"
    BY <2>1, <2>2, <2>5 DEF FileCapture, InHandInv, Captures
  <2> QED
    BY <1>3, <2>3, <2>4, <2>5 DEF MeteringOnly
<1>4. CASE CreateIssue
  <2>1. /\ issues'[number'] = "tester" /\ number' # 0 /\ number' = Len(issues) + 1
        /\ UNCHANGED <<stage, request, filed, progress, shut>>
        /\ request.kind = "idea" /\ stage = "reserved"
    BY <1>4, <1>a DEF CreateIssue, IssuesInv, vars
  <2> QED
    BY <2>1 DEF InHandInv, Taps
<1>5. CASE RecordFiling
  <2>1. request.kind = "idea" /\ number # 0
    BY <1>5 DEF RecordFiling, FileCapture, InHandInv, Captures
  <2> QED
    BY <1>5, <2>1 DEF RecordFiling, FileCapture, InHandInv, Captures, Taps
<1>6. CASE SendReceipt
  BY <1>6 DEF SendReceipt, InHandInv, vars
<1>7. CASE Explore
  BY <1>7, <1>a DEF Explore, CallEngine, Spending, ReceiptGone, InHandInv
<1>8. CASE HandlerRaises
  BY <1>8 DEF HandlerRaises, RaiseRefunding, Spending, Finish, ReceiptGone, ideas, InHandInv
<1>9. CASE CloseDenied \/ CloseRaises \/ RecordClose
  BY <1>9 DEF CloseDenied, CloseRaises, RecordClose, EndClose, Finish, InHandInv
<1>10. CASE CloseOnGitHub
  BY <1>10 DEF CloseOnGitHub, InHandInv, vars
<1>11. CASE DropRequest
  BY <1>11 DEF DropRequest, DropDisabled, Finish, InHandInv
<1>12. CASE DieAndRedeliver
  BY <1>12, <1>a DEF DieAndRedeliver, CrashAndRedeliver, InHandInv, Taps
<1>13. CASE UNCHANGED ivars
  BY <1>13 DEF ivars, vars, ideas, InHandInv
<1> QED
  BY <1>1, <1>2, <1>3, <1>4, <1>5, <1>6, <1>7, <1>8, <1>9, <1>10, <1>11, <1>12, <1>13
  DEF INext

\* A receipt that is due is sent, or lost with its send or its daemon.
LEMMA ToldStep ==
    ASSUME TypeOK, IssuesInv, InHandInv, CapturedIsTold, [INext]_ivars
    PROVE  CapturedIsTold'
<1>1. CASE OperatorFiles \/ CloseOnGitHub
  BY <1>1 DEF OperatorFiles, CloseOnGitHub, CapturedIsTold, InHandInv
<1>2. CASE Request
  <2>1. progress # "receipt due"
    BY <1>2 DEF Request, Arrive, InHandInv
  <2> QED
    BY <1>2, <2>1 DEF Request, CapturedIsTold
<1>3. CASE MeteringOnly \/ HandlerRaises \/ UNCHANGED ivars
  BY <1>3, MeteringLeavesIdeas DEF HandlerRaises, ideas, ivars, CapturedIsTold
<1>4. CASE CreateIssue
  <2>1. number = 0 /\ 0 \notin filed
    BY <1>4 DEF CreateIssue, IssuesInv
  <2> QED
    BY <1>4, <2>1 DEF CreateIssue, CapturedIsTold
<1>5. CASE RecordFiling
  BY <1>5 DEF RecordFiling, CapturedIsTold
<1>6. CASE SendReceipt
  BY <1>6 DEF SendReceipt, CapturedIsTold
<1>7. CASE Explore
  BY <1>7 DEF Explore, CapturedIsTold
<1>8. CASE CloseDenied \/ CloseRaises \/ RecordClose \/ DropRequest
  BY <1>8 DEF CloseDenied, CloseRaises, RecordClose, DropRequest, CapturedIsTold
<1>9. CASE DieAndRedeliver
  BY <1>9 DEF DieAndRedeliver, CapturedIsTold
<1> QED
  BY <1>1, <1>2, <1>3, <1>4, <1>5, <1>6, <1>7, <1>8, <1>9 DEF INext

\* A closing that took place stays with its request until it is recorded or given up.
LEMMA ShutStep ==
    ASSUME TypeOK, IssuesInv, InHandInv, ShutInv, [INext]_ivars
    PROVE  ShutInv'
<1>1. CASE OperatorFiles
  BY <1>1 DEF OperatorFiles, vars, ShutInv
<1>2. CASE Request
  <2>1. stage = "idle" /\ UNCHANGED <<shut, closed, unrecorded>>
    BY <1>2 DEF Request, Arrive
  <2> QED
    BY <2>1 DEF ShutInv
<1>3. CASE MeteringOnly
  <2>1. UNCHANGED <<shut, closed, unrecorded, number, filed, request>>
    BY <1>3, MeteringLeavesIdeas
    DEF ideas, MeteringOnly, SwitchTester, RefuseUnfit, Meter, ReserveCall, RefuseExhausted,
        ReplyUsage, BeginClose, ReplyBrief, CommitRequest, FilingDenied, FileCapture
  <2>2. CASE stage \in {"idle", "finished"}
    BY <2>1, <2>2 DEF ShutInv
  <2>3. CASE stage \notin {"idle", "finished"} /\ RefuseUnfit
    <3>1. request.kind = "close" => number \notin shut
      BY <2>3 DEF RefuseUnfit, InHandInv, IssuesInv, Taps
    <3> QED
      BY <2>1, <3>1 DEF ShutInv
  <2>4. CASE stage \notin {"idle", "finished"} /\ ~RefuseUnfit
    <3>1. request.kind = "close" => stage' \notin {"idle", "finished"}
      BY <1>3, <2>4
      DEF MeteringOnly, SwitchTester, Meter, ReserveCall, RefuseExhausted, ReplyUsage,
          BeginClose, ReplyBrief, CommitRequest, FilingDenied, FileCapture, InHandInv, Captures
    <3> QED
      BY <2>1, <2>4, <3>1 DEF ShutInv
  <2> QED
    BY <2>2, <2>3, <2>4
<1>4. CASE CreateIssue
  BY <1>4 DEF CreateIssue, ShutInv
<1>5. CASE RecordFiling
  BY <1>5 DEF RecordFiling, FileCapture, Captures, ShutInv
<1>6. CASE SendReceipt
  BY <1>6 DEF SendReceipt, vars, ShutInv
<1>7. CASE Explore
  BY <1>7 DEF Explore, CallEngine, ShutInv
<1>8. CASE HandlerRaises
  BY <1>8 DEF HandlerRaises, RaiseRefunding, Spending, InHandInv, ideas, ShutInv
<1>9. CASE CloseDenied \/ CloseRaises \/ RecordClose
  BY <1>9 DEF CloseDenied, CloseRaises, RecordClose, GiveUpRecord, ShutInv
<1>10. CASE CloseOnGitHub
  BY <1>10 DEF CloseOnGitHub, vars, InHandInv, ShutInv
<1>11. CASE DropRequest
  BY <1>11 DEF DropRequest, DropDisabled, GiveUpRecord, ShutInv
<1>12. CASE DieAndRedeliver
  BY <1>12 DEF DieAndRedeliver, CrashAndRedeliver, ShutInv
<1>13. CASE UNCHANGED ivars
  BY <1>13 DEF ivars, vars, ideas, ShutInv
<1> QED
  BY <1>1, <1>2, <1>3, <1>4, <1>5, <1>6, <1>7, <1>8, <1>9, <1>10, <1>11, <1>12, <1>13
  DEF INext

\* The tester's issues are some of the issues: a finite set, one larger with one more.
LEMMA IssuesAreFinite ==
    ASSUME IssuesInv
    PROVE  /\ Cardinality(TestersIssues) \in Nat
           /\ issues' = issues => TestersIssues' = TestersIssues
           /\ issues' = Append(issues, "operator") => TestersIssues' = TestersIssues
           /\ issues' = Append(issues, "tester") =>
                 Cardinality(TestersIssues') = Cardinality(TestersIssues) + 1
<1>1. Len(issues) \in Nat /\ DOMAIN issues = 1..Len(issues)
  BY DEF IssuesInv
<1>2. IsFiniteSet(TestersIssues)
  <2>1. IsFiniteSet(1..Len(issues)) /\ TestersIssues \subseteq 1..Len(issues)
    BY <1>1, FS_Interval DEF TestersIssues
  <2> QED
    BY <2>1, FS_Subset
<1>3. ASSUME NEW w \in Owners, issues' = Append(issues, w)
      PROVE  /\ DOMAIN issues' = 1..Len(issues) \cup {Len(issues) + 1}
             /\ \A n \in 1..Len(issues) : issues'[n] = issues[n]
             /\ issues'[Len(issues) + 1] = w
  BY <1>1, <1>3 DEF IssuesInv
<1>4. ASSUME issues' = Append(issues, "operator") PROVE TestersIssues' = TestersIssues
  BY <1>1, <1>3, <1>4 DEF TestersIssues, Owners
<1>5. ASSUME issues' = Append(issues, "tester")
      PROVE  Cardinality(TestersIssues') = Cardinality(TestersIssues) + 1
  <2>1. /\ TestersIssues' = TestersIssues \cup {Len(issues) + 1}
        /\ Len(issues) + 1 \notin TestersIssues
    BY <1>1, <1>3, <1>5 DEF TestersIssues, Owners
  <2> QED
    BY <1>2, <2>1, FS_AddElement
<1> QED
  BY <1>2, <1>4, <1>5, FS_CardinalityType DEF TestersIssues

\* A request files its one issue, and only a crash lets it file another.
LEMMA SpareStep ==
    ASSUME TypeOK, IssuesInv, InHandInv, SpareInv, [INext]_ivars
    PROVE  SpareInv'
<1> DEFINE count == Cardinality(TestersIssues)
<1>a. count \in Nat /\ requests \in Nat /\ crashes \in Nat
  BY IssuesAreFinite DEF TypeOK
<1>b. /\ count <= requests + crashes + (IF stage = "idle" THEN 0 ELSE 1)
      /\ stage # "idle" /\ request.kind = "idea" /\ number = 0 => count <= requests + crashes
  BY DEF SpareInv, OneIssuePerRequest, TestersIssues
<1>c. ASSUME TestersIssues' = TestersIssues, UNCHANGED <<requests, crashes>>,
             stage' = "idle" => stage = "idle",
             stage' # "idle" /\ request'.kind = "idea" /\ number' = 0 =>
                stage = "idle" \/ (request.kind = "idea" /\ number = 0)
      PROVE  SpareInv'
  BY <1>a, <1>b, <1>c DEF SpareInv, OneIssuePerRequest, TestersIssues
<1>1. CASE OperatorFiles
  BY <1>1, <1>c, IssuesAreFinite DEF OperatorFiles, vars
<1>2. CASE Request
  BY <1>2, <1>c, IssuesAreFinite DEF Request, Arrive, quiet
<1>3. CASE MeteringOnly /\ ~CommitRequest
  <2>1. UNCHANGED <<issues, number, request, requests, crashes>>
    BY <1>3, MeteringLeavesIdeas
    DEF ideas, quiet, MeteringOnly, SwitchTester, RefuseUnfit, Meter, ReserveCall,
        RefuseExhausted, ReplyUsage, BeginClose, ReplyBrief, FilingDenied, FileCapture
  <2>2. stage' = "idle" <=> stage = "idle"
    BY <1>3
    DEF MeteringOnly, SwitchTester, RefuseUnfit, Meter, ReserveCall, RefuseExhausted,
        ReplyUsage, BeginClose, ReplyBrief, FilingDenied, FileCapture, Finish
  <2> QED
    BY <1>c, <2>1, <2>2, IssuesAreFinite
<1>4. CASE MeteringOnly /\ CommitRequest
  <2>1. /\ issues' = issues /\ crashes' = crashes /\ stage = "finished" /\ stage' = "idle"
    BY <1>4, MeteringLeavesIdeas DEF CommitRequest, ideas
  <2>2. PICK n \in Nat : n = requests + 1 /\ requests' = n
    BY <1>4, <1>a DEF CommitRequest
  <2>3. count <= n + crashes
    BY <1>a, <1>b, <2>1, <2>2
  <2> QED
    BY <1>a, <2>1, <2>2, <2>3, IssuesAreFinite DEF SpareInv, OneIssuePerRequest, TestersIssues
<1>5. CASE CreateIssue
  <2>1. /\ count <= requests + crashes /\ Cardinality(TestersIssues') = count + 1
        /\ UNCHANGED <<requests, crashes, stage>> /\ stage = "reserved"
    BY <1>5, <1>b, IssuesAreFinite DEF CreateIssue, vars
  <2>2. number' # 0
    BY <1>5 DEF CreateIssue, IssuesInv
  <2> QED
    BY <1>a, <2>1, <2>2 DEF SpareInv, OneIssuePerRequest, TestersIssues
<1>6. CASE RecordFiling \/ SendReceipt \/ Explore \/ HandlerRaises
  BY <1>6, <1>c, IssuesAreFinite
  DEF RecordFiling, FileCapture, SendReceipt, Explore, CallEngine, HandlerRaises,
      RaiseRefunding, Spending, Finish, quiet, vars, ideas
<1>7. CASE CloseDenied \/ CloseOnGitHub \/ CloseRaises \/ RecordClose \/ DropRequest
  BY <1>7, <1>c, IssuesAreFinite
  DEF CloseDenied, CloseOnGitHub, CloseRaises, RecordClose, EndClose, DropRequest,
      DropDisabled, Finish, quiet, vars
<1>8. CASE DieAndRedeliver
  <2>1. /\ issues' = issues /\ requests' = requests /\ stage # "idle" /\ stage' # "idle"
    BY <1>8 DEF DieAndRedeliver, CrashAndRedeliver
  <2>2. PICK n \in Nat : n = crashes + 1 /\ crashes' = n
    <3>1. crashes' = crashes + 1
      BY <1>8 DEF DieAndRedeliver, CrashAndRedeliver
    <3> QED
      BY <1>a, <3>1
  <2>3. count <= requests + n
    BY <1>a, <1>b, <2>1, <2>2
  <2> QED
    BY <1>a, <2>1, <2>2, <2>3, IssuesAreFinite DEF SpareInv, OneIssuePerRequest, TestersIssues
<1>9. CASE UNCHANGED ivars
  BY <1>9, <1>c, IssuesAreFinite DEF ivars, vars, ideas
<1> QED
  BY <1>1, <1>2, <1>3, <1>4, <1>5, <1>6, <1>7, <1>8, <1>9 DEF INext

\* No ideas in the beginning.
LEMMA IdeasInit == IInit => IdeasInv
<1> SUFFICES ASSUME IInit PROVE IdeasInv
  OBVIOUS
<1> USE DEF IInit
<1>1. TypeOK
  BY InitHolds DEF IInv
<1>2. IssuesInv /\ InHandInv /\ CapturedIsTold /\ ShutInv
  BY DEF Init, IssuesInv, InHandInv, CapturedIsTold, ShutInv
<1>3. TestersIssues = {} /\ requests = 0 /\ crashes = 0 /\ stage = "idle"
  BY DEF Init, TestersIssues
<1>4. SpareInv
  BY <1>3, FS_EmptySet DEF SpareInv, OneIssuePerRequest, TestersIssues
<1> QED
  BY <1>1, <1>2, <1>4 DEF IdeasInv

\* The invariant of the idea handlers: what a request's number stands for, and what of
\* its work is still to be told, recorded or filed.
THEOREM IdeasInvariant == ISpec => []IdeasInv
<1>1. IdeasInv /\ TypeOK' /\ [INext]_ivars => IdeasInv'
  BY IssuesStep, InHandStep, ToldStep, ShutStep, SpareStep DEF IdeasInv
<1>2. ISpec => []TypeOK
  BY IdeasAreMetered, MeteringTypes, PTL
<1> QED
  BY IdeasInit, <1>1, <1>2, PTL DEF ISpec

\* A forged button writes to no issue but the tester's own, and what he was told is
\* his stays his.
THEOREM OwnIdeas == ISpec => []OwnIdeasOnly
<1>1. IdeasInv => OwnIdeasOnly
  BY DEF IdeasInv, IssuesInv, OwnIdeasOnly, MayActOn
<1> QED
  BY <1>1, IdeasInvariant, PTL

\* Whoever's idea is on record was told so, unless that message or the daemon failed.
THEOREM CapturesAreTold == ISpec => []CapturedIsTold
<1>1. IdeasInv => CapturedIsTold
  BY DEF IdeasInv
<1> QED
  BY <1>1, IdeasInvariant, PTL

\* What the ledger says is closed is closed, and what is closed it says or never will
\* for a reason.
THEOREM ClosingsAreRecorded == ISpec => []ClosingsOnRecord
<1>1. IdeasInv => ClosingsOnRecord
  BY DEF IdeasInv, IssuesInv, ShutInv, ClosingsOnRecord
<1> QED
  BY <1>1, IdeasInvariant, PTL

\* One issue for each request, and one more for each crash.
THEOREM IssuesAreRequested == ISpec => []OneIssuePerRequest
<1>1. IdeasInv => OneIssuePerRequest
  BY DEF IdeasInv, SpareInv
<1> QED
  BY <1>1, IdeasInvariant, PTL
=============================================================================
