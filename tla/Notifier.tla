------------------------------ MODULE Notifier -------------------------------
(***************************************************************************)
(* `mytelegrambot notify` (notifier.py): short-lived processes that push   *)
(* what is new in the ledger to the operator.  A run takes a snapshot of   *)
(* the ledger, reads the cursor in a second pass over the file, sends the  *)
(* digest in chunks and records how far the snapshot reached.  Nothing     *)
(* keeps two runs apart, and the fleet goes on writing all the while.      *)
(***************************************************************************)
EXTENDS FleetLedger, FiniteSetsExt

CONSTANTS
    Runs,           \* processes that run notify, one run after another
    Manual,         \* those an operator starts by hand, perhaps with --since
    MaxEntries,     \* bound of the instance: entries before runs and tools stop
    MaxTroubles     \* bound of the instance: failed sends and dying processes
ASSUME RunsAssumption == Manual \subseteq Runs
ASSUME NotifierBounds == MaxEntries \in Nat /\ MaxTroubles \in Nat

VARIABLES
    stage,      \* where each run is in notify
    window,     \* "incremental" or "since"
    snap,       \* len(all_entries)
    todo,       \* the entries of the digest not yet delivered
    copies,     \* history: how often each entry reached the operator
    troubles,   \* history: failed sends and crashes so far
    manual      \* history: a --since run, or two runs at once, took place

runVars == <<stage, window, snap, todo>>
vars == <<ledger, runVars, copies, troubles, manual>>

Windows == {"incremental", "since"}

\* A fleet event stands for every entry that is not this tool's bookkeeping, a
\* poll entry for the daemon's bookkeeping in the same file.
Event == [kind |-> "event"]

\* A --since run leaves out notified_count: 0 says the same to the maximum
\* (mutant: it carries one as well).
NotifyEntryAlways(w, outcome, count) ==
    [kind |-> "notify", outcome |-> outcome, notified_count |-> count]
NotifyEntry(w, outcome, count) ==
    [kind |-> "notify", outcome |-> outcome,
     notified_count |-> IF w = "incremental" THEN count ELSE 0]

\* _notifiable
Notifiable(l) == {i \in 1..Len(l) : l[i].kind \notin {"notify", "poll", "thread_anchor"}}

\* last_notified_count
NotifyCounts(l) == {0} \cup {l[i].notified_count : i \in EntriesOf(l, "notify")}
LastNotified(l) == Max(NotifyCounts(l))

\* /status prints "Last digest: none pushed yet" unless the last notify entry is
\* a success.
StatusSaysNonePushed(l) ==
    \/ EntriesOf(l, "notify") = {}
    \/ l[Max(EntriesOf(l, "notify"))].outcome # "success"

Init ==
    /\ ledger = <<>>
    /\ stage = [r \in Runs |-> "idle"]
    /\ window = [r \in Runs |-> "incremental"]
    /\ snap = [r \in Runs |-> 0]
    /\ todo = [r \in Runs |-> {}]
    /\ copies = [i \in 1..MaxEntries |-> 0]
    /\ troubles = 0 /\ manual = FALSE

-----------------------------------------------------------------------------
\* Another tool, or the daemon, writes to the ledger.
ToolWrites ==
    /\ Len(ledger) < MaxEntries
    /\ \E entry \in {Event, PollEntry(1)} : Record(entry)
    /\ UNCHANGED <<runVars, copies, troubles, manual>>

\* list(ledger).  Past the bound a run starts only if something waits to be told.
Begin(r, w) ==
    /\ stage[r] = "idle"
    /\ w = "since" => r \in Manual
    /\ \/ Len(ledger) < MaxEntries
       \/ w = "incremental" /\ \E i \in Notifiable(ledger) : i > LastNotified(ledger)
    /\ stage' = [stage EXCEPT ![r] = "slicing"]
    /\ window' = [window EXCEPT ![r] = w]
    /\ snap' = [snap EXCEPT ![r] = Len(ledger)]
    /\ manual' = (manual \/ w = "since" \/ \E q \in Runs : stage[q] # "idle")
    /\ UNCHANGED <<ledger, todo, copies, troubles>>

\* The entries of the window; --since takes those after any moment in the past
\* (mutant: the last entry already notified is taken again).
SliceAgain(r) ==
    /\ stage[r] = "slicing"
    /\ todo' = [todo EXCEPT ![r] = Notifiable(ledger) \cap LastNotified(ledger)..snap[r]]
    /\ stage' = [stage EXCEPT ![r] = IF todo'[r] = {} THEN "skipping" ELSE "sending"]
    /\ UNCHANGED <<ledger, window, snap, copies, troubles, manual>>

Slice(r) ==
    /\ stage[r] = "slicing"
    /\ \E from \in IF window[r] = "since" THEN 0..snap[r] ELSE {LastNotified(ledger)} :
          todo' = [todo EXCEPT ![r] = Notifiable(ledger) \cap (from + 1)..snap[r]]
    /\ stage' = [stage EXCEPT ![r] = IF todo'[r] = {} THEN "skipping" ELSE "sending"]
    /\ UNCHANGED <<ledger, window, snap, copies, troubles, manual>>

\* The operator receives some of the digest's entries; past two nobody counts.
Receive(entries) ==
    copies' = [i \in DOMAIN copies |->
                 IF i \in entries THEN Min({2, copies[i] + 1}) ELSE copies[i]]

\* A process ends, and its local variables with it.
Exit(r) ==
    /\ stage' = [stage EXCEPT ![r] = "idle"]
    /\ window' = [window EXCEPT ![r] = "incremental"]
    /\ snap' = [snap EXCEPT ![r] = 0]
    /\ todo' = [todo EXCEPT ![r] = {}]

\* The digest's order is by bucket, so a chunk may hold any of its entries.
SendChunk(r) ==
    /\ stage[r] = "sending"
    /\ \E chunk \in SUBSET todo[r] \ {{}} :
          /\ Receive(chunk)
          /\ todo' = [todo EXCEPT ![r] = @ \ chunk]
    /\ stage' = [stage EXCEPT ![r] = IF todo'[r] = {} THEN "recording" ELSE "sending"]
    /\ UNCHANGED <<ledger, window, snap, troubles, manual>>

\* A send raises, the chunk delivered or not: the run ends and records nothing.
SendFails(r) ==
    /\ stage[r] = "sending" /\ troubles < MaxTroubles
    /\ \E chunk \in SUBSET todo[r] : Receive(chunk)
    /\ troubles' = troubles + 1
    /\ Exit(r)
    /\ UNCHANGED <<ledger, manual>>

Outcome(r) == IF stage[r] = "skipping" THEN "skipped" ELSE "success"

\* Mutant: the cursor covers what was written while the digest was sent.
RecordNotifyNow(r) ==
    /\ stage[r] \in {"recording", "skipping"}
    /\ Record(NotifyEntry(window[r], Outcome(r), Len(ledger)))
    /\ Exit(r)
    /\ UNCHANGED <<copies, troubles, manual>>

RecordNotify(r) ==
    /\ stage[r] \in {"recording", "skipping"}
    /\ Record(NotifyEntry(window[r], Outcome(r), snap[r]))
    /\ Exit(r)
    /\ UNCHANGED <<copies, troubles, manual>>

\* The process dies, wherever it is.
Die(r) ==
    /\ stage[r] # "idle" /\ troubles < MaxTroubles
    /\ troubles' = troubles + 1
    /\ Exit(r)
    /\ UNCHANGED <<ledger, copies, manual>>

Progress(r) == Slice(r) \/ SendChunk(r) \/ RecordNotify(r)

Next ==
    \/ ToolWrites
    \/ \E r \in Runs :
          \/ \E w \in Windows : Begin(r, w)
          \/ Progress(r) \/ SendFails(r) \/ Die(r)

Spec == Init /\ [][Next]_vars

\* notify is run again and again, by a timer, and a run that started goes on.
FairSpec ==
    /\ Spec
    /\ \A r \in Runs : WF_vars(Progress(r))
    /\ \A r \in Runs \ Manual : WF_vars(Begin(r, "incremental"))

-----------------------------------------------------------------------------
\* Whatever the cursor has passed the operator has been told: a failed or dying
\* run, a --since run, or two runs over each other never let an entry slip by.
\* (Entries past MaxEntries are only notify's own.)
NothingSkipped ==
    \A i \in Notifiable(ledger) : i <= LastNotified(ledger) => copies[i] >= 1

\* Entries are repeated only for a reason: a send that failed or a process that
\* died after some chunks, a --since run, or two runs at once.
RepeatsHaveAReason ==
    (troubles = 0 /\ ~manual) => \A i \in DOMAIN copies : copies[i] <= 1

\* Every fleet event reaches the operator, if notify keeps being run and
\* Telegram's outages end.
EveryEventTold ==
    \A i \in 1..MaxEntries : (i \in Notifiable(ledger)) ~> (copies[i] >= 1)

-----------------------------------------------------------------------------
(* What the repository says and a run refutes. *)

\* README.md: "/status reports what the bot has done so far, read straight from
\* the ledger".  Read: it says no digest was pushed only if none was.
StatusKnowsTheDigest ==
    StatusSaysNonePushed(ledger) =>
        \A i \in EntriesOf(ledger, "notify") : ledger[i].outcome # "success"
=============================================================================
