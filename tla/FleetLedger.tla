----------------------------- MODULE FleetLedger -----------------------------
(***************************************************************************)
(* The fleet's append-only ledger, the only state the tool's processes     *)
(* share (mythings.ledger.Ledger, a JSON-lines file outside this           *)
(* repository: `record` appends one entry, `read` returns the entries of a *)
(* kind in file order, and no entry is ever changed or removed).           *)
(*                                                                         *)
(* An entry keeps the fields somebody reads back; its tool, timestamp and  *)
(* detail text are left out.                                               *)
(***************************************************************************)
EXTENDS Naturals, Sequences, FiniteSets

VARIABLE ledger     \* the entries, oldest first

\* What Ledger.record does: one entry is appended.
Record(entry) == ledger' = Append(ledger, entry)

\* The positions of the entries of a kind, what Ledger.read(kind=...) selects.
EntriesOf(l, kind) == {i \in 1..Len(l) : l[i].kind = kind}

\* The entries this tool writes and reads back.
PollEntry(last) == [kind |-> "poll", last_update_id |-> last]
CallbackEntry(message, decision) ==
    [kind |-> "callback", message_id |-> message, decision |-> decision]
KnockEntry(chat) == [kind |-> "unknown_chat", chat_id |-> chat]
AskEntry(message, outcome) ==
    [kind |-> "ask", telegram_message_id |-> message, outcome |-> outcome]
AnchorEntry(subject, message) ==
    [kind |-> "thread_anchor", subject |-> subject, message_id |-> message]

Decisions == {"allow", "deny"}

\* The recorded taps on a prompt.
AnyCallback(l, message) == EntriesOf(l, "callback")     \* mutant: whatever prompt it was
CallbacksFor(l, message) ==
    {i \in EntriesOf(l, "callback") : l[i].message_id = message}

\* The one that counts: a waiting ask takes the first it finds, so a later tap on
\* the same prompt changes nothing.  (LastDecision is its mutant.)
LastDecision(l, message) ==
    IF CallbacksFor(l, message) = {} THEN "none"
    ELSE l[CHOOSE i \in CallbacksFor(l, message) :
              \A j \in CallbacksFor(l, message) : i >= j].decision
FirstDecision(l, message) ==
    IF CallbacksFor(l, message) = {} THEN "none"
    ELSE l[CHOOSE i \in CallbacksFor(l, message) :
              \A j \in CallbacksFor(l, message) : i <= j].decision

\* The message the next one about a subject replies to: the last anchor recorded
\* (mutant: the first); 0 when there is none.
AnchorsOf(l, subject) ==
    {i \in EntriesOf(l, "thread_anchor") : l[i].subject = subject}
FirstAnchor(l, subject) ==
    IF AnchorsOf(l, subject) = {} THEN 0
    ELSE l[CHOOSE i \in AnchorsOf(l, subject) :
              \A j \in AnchorsOf(l, subject) : i <= j].message_id
AnchorFor(l, subject) ==
    IF AnchorsOf(l, subject) = {} THEN 0
    ELSE l[CHOOSE i \in AnchorsOf(l, subject) :
              \A j \in AnchorsOf(l, subject) : i >= j].message_id
=============================================================================
