----------------------------- MODULE EngineQuota -----------------------------
(***************************************************************************)
(* The metering of Engine calls (metered_idea, explore_idea, metered_note, *)
(* metered_wish): one tester's requests, each reserving a call from the    *)
(* testers database before it spends one, and giving it back when the call *)
(* raised.  The daemon handles one request at a time; a request is the     *)
(* tester's update, delivered again if the daemon dies before the cursor   *)
(* is recorded.  The Engine and the database are outside the repository:   *)
(* an Engine call that raises is taken, as the handlers take it, not to    *)
(* have happened, and a reservation is one atomic check and increment.     *)
(***************************************************************************)
EXTENDS Naturals

CONSTANTS
    Quota,                      \* engine_quota of the tester
    MaxRequests, MaxCrashes     \* bounds of the instance
ASSUME QuotaAssumption == Quota \in Nat /\ MaxRequests \in Nat /\ MaxCrashes \in Nat

VARIABLES
    stage,      \* where the handler is
    request,    \* the request in hand: its kind, and whether it can be acted on
    used,       \* engine_used of the tester
    enabled,    \* whether the tester is enabled
    requests,   \* requests committed so far
    crashes,
    calls,      \* history: Engine calls made for the tester
    denied,     \* history: filings the policy denied after a reservation
    blank       \* history: reservations taken for a request without a title

vars == <<stage, request, used, enabled, requests, crashes, calls, denied, blank>>
quiet == <<requests, crashes, calls, denied, blank>>

\* fit: a title or wish that is not blank, an idea of the tester's own.
Requests == [kind : {"idea", "note", "wish", "explore", "close"}, fit : BOOLEAN]
Captures == {"idea", "note"}

Init ==
    /\ stage = "idle" /\ request \in Requests
    /\ used = 0 /\ enabled = TRUE
    /\ requests = 0 /\ crashes = 0 /\ calls = 0 /\ denied = 0 /\ blank = 0

Finish == stage' = "finished"
Release == used' = used - 1

Arrive(r) ==
    /\ stage = "idle" /\ requests < MaxRequests
    /\ request' = r
    /\ stage' = "arrived"
    /\ UNCHANGED <<used, enabled, quiet>>

\* testers disable, testers enable.
SwitchTester ==
    /\ enabled' = ~enabled
    /\ UNCHANGED <<stage, request, used, quiet>>

\* ChatAuthorizer drops a disabled tester's update.
DropDisabled ==
    /\ stage = "arrived" /\ ~enabled
    /\ Finish
    /\ UNCHANGED <<request, used, enabled, quiet>>

\* A wish and the taps on an idea's buttons are looked at before anything is done.
RefuseUnfit ==
    /\ stage = "arrived" /\ enabled
    /\ request.kind \notin Captures /\ ~request.fit
    /\ Finish
    /\ UNCHANGED <<request, used, enabled, quiet>>

Meter ==
    /\ stage = "arrived" /\ enabled
    /\ request.kind # "close" /\ (request.kind \in Captures \/ request.fit)
    /\ stage' = "metering"
    /\ UNCHANGED <<request, used, enabled, quiet>>

\* Closing an idea spends no Engine call, so it takes no reservation.
BeginClose ==
    /\ stage = "arrived" /\ enabled
    /\ request.kind = "close" /\ request.fit
    /\ stage' = "closing"
    /\ UNCHANGED <<request, used, enabled, quiet>>

EndClose ==
    /\ stage = "closing"
    /\ Finish
    /\ UNCHANGED <<request, used, enabled, quiet>>

\* reserve_engine_call: the tester may have been disabled since.
ReserveCall ==
    /\ stage = "metering" /\ enabled /\ used < Quota
    /\ used' = used + 1
    /\ stage' = "reserved"
    /\ UNCHANGED <<request, enabled, quiet>>

\* (Mutant: a refusal gives back the call it did not take.)
RefuseReleasing ==
    /\ stage = "metering" /\ (~enabled \/ used >= Quota)
    /\ Release
    /\ Finish
    /\ UNCHANGED <<request, enabled, quiet>>
RefuseExhausted ==
    /\ stage = "metering" /\ (~enabled \/ used >= Quota)
    /\ Finish
    /\ UNCHANGED <<request, used, enabled, quiet>>

\* An idea or note without a title gets a usage reply, after the reservation.
ReplyUsage ==
    /\ stage = "reserved" /\ ~request.fit
    /\ Finish
    /\ blank' = blank + 1
    /\ UNCHANGED <<request, used, enabled, requests, crashes, calls, denied>>

\* file_idea, file_note: filed, denied by policy, or raised.
FileCapture ==
    /\ stage = "reserved" /\ request.kind \in Captures /\ request.fit
    /\ stage' = "filed"
    /\ UNCHANGED <<request, used, enabled, quiet>>

FilingDenied ==
    /\ stage = "reserved" /\ request.kind \in Captures /\ request.fit
    /\ Finish
    /\ denied' = denied + 1
    /\ UNCHANGED <<request, used, enabled, requests, crashes, calls, blank>>

Spending ==
    \/ stage = "filed"
    \/ stage = "reserved" /\ request.kind \notin Captures

\* explore, tag, guide.wish: the Engine call.
CallEngine ==
    /\ Spending
    /\ calls' = calls + 1
    /\ stage' = "called"
    /\ UNCHANGED <<request, used, enabled, requests, crashes, denied, blank>>

\* An exception before the call, from the filing or the Engine, refunds it
\* (mutant: it does not).
RaiseKeeping ==
    /\ Spending \/ (stage = "reserved" /\ request.fit)
    /\ Finish
    /\ UNCHANGED <<request, used, enabled, quiet>>
RaiseRefunding ==
    /\ Spending \/ (stage = "reserved" /\ request.fit)
    /\ Release
    /\ Finish
    /\ UNCHANGED <<request, enabled, quiet>>

\* The brief is handed over; sending it cannot raise into the handler (mutant: a
\* failed send refunds the call).
ReplyRefunding ==
    /\ stage = "called"
    /\ Release
    /\ Finish
    /\ UNCHANGED <<request, enabled, quiet>>
ReplyBrief ==
    /\ stage = "called"
    /\ Finish
    /\ UNCHANGED <<request, used, enabled, quiet>>

\* run_forever records the cursor: the request will not come again.
CommitRequest ==
    /\ stage = "finished"
    /\ stage' = "idle"
    /\ requests' = requests + 1
    /\ UNCHANGED <<request, used, enabled, crashes, calls, denied, blank>>

\* The daemon dies, nothing is refunded, and the request is delivered again.
CrashAndRedeliver ==
    /\ stage # "idle" /\ crashes < MaxCrashes
    /\ crashes' = crashes + 1
    /\ stage' = "arrived"
    /\ UNCHANGED <<request, used, enabled, requests, calls, denied, blank>>

Next ==
    \/ \E r \in Requests : Arrive(r)
    \/ SwitchTester \/ DropDisabled \/ RefuseUnfit \/ BeginClose \/ EndClose \/ Meter
    \/ ReserveCall \/ RefuseExhausted \/ ReplyUsage \/ FileCapture \/ FilingDenied
    \/ CallEngine \/ RaiseRefunding \/ ReplyBrief \/ CommitRequest \/ CrashAndRedeliver

Spec == Init /\ [][Next]_vars

-----------------------------------------------------------------------------
Stages ==
    {"idle", "arrived", "closing", "metering", "reserved", "filed", "called", "finished"}

TypeOK ==
    /\ stage \in Stages /\ request \in Requests
    /\ used \in Nat /\ enabled \in BOOLEAN
    /\ requests \in Nat /\ crashes \in Nat
    /\ calls \in Nat /\ denied \in Nat /\ blank \in Nat

\* A crash "over-counts against the tester rather than letting an unbilled call
\* through": the calls made never exceed the reservations held, and these never
\* the quota, however often the daemon dies, refunds and starts again.
QuotaIsHard == calls <= used /\ used <= Quota

\* What is billed without a call has a reason: the daemon died, the policy denied
\* the filing, the text was blank, or the call is about to be made.
OverCountHasAReason ==
    used <= calls + crashes + denied + blank
              + (IF stage \in {"reserved", "filed"} THEN 1 ELSE 0)

\* test_metered_idea.py: "If the call never happened, the tester must not be
\* billed for it."  Read with the exceptions the code names, crashes and
\* policy-denied filings: between requests all that is billed was called.
UncalledIsUnbilled ==
    stage = "idle" /\ crashes = 0 => used = calls + denied
=============================================================================
