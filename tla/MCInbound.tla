------------------------------ MODULE MCInbound ------------------------------
(* Small instances of the daemon for TLC. *)
EXTENDS Inbound, TLC

CONSTANTS
    op, t1, s1, s2, nobody, p1,
    MaxEntries      \* bound of the instance: a longer ledger sees no further restart

MCChats == {op, t1, s1, s2}
MCAdmissible == {t1}
MCPrompts == {p1}

Plain(k, c) == [kind |-> k, chat |-> c]

Tap(c, m, d) == [kind |-> "tap", chat |-> c, message |-> m, decision |-> d]

\* A command, a button, media and an update without a chat; two strangers, who can fill the
\* pending list before a tester who is not let in; taps on the operator's prompt, and the
\* tester's forged one.
MCTraffic ==
    {Plain("command", c) : c \in {op, s1, s2}}
      \cup {Plain("button", t1), Plain("other", op), Plain("other", nobody)}
      \cup {Tap(op, p1, d) : d \in Decisions} \cup {Tap(t1, p1, "allow")}

MCSymmetry == Permutations({s1, s2})

\* The operator and a stranger, for the run on the testers database.
OwnerTraffic == {Plain("command", op), Plain("command", s1)}

\* A testers database that stays broken has the daemon raise, restart and record the
\* taps before it once more, for ever: only so many restarts are looked at.
Restart == Len(ledger) < MaxEntries /\ Start

MCNext ==
    \/ World \/ Restart \/ PollEmpty \/ PollBatch \/ HandleUpdate
    \/ SendReply \/ Commit \/ Crash
MCSpec == Init /\ [][MCNext]_vars
=============================================================================
