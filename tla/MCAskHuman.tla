----------------------------- MODULE MCAskHuman ------------------------------
(* Two askers by themselves, the daemon any process that records taps. *)
EXTENDS AskHuman, TLC

CONSTANTS
    a1, a2, p1, p2,
    MaxEntries      \* bound of the instance: taps are recorded in a shorter ledger only

MCAskers == {a1, a2}
MCPrompts == {p1, p2}
MCNext ==
    \/ \E a \in Askers : Ask(a)
    \/ \E m \in Prompts, d \in Decisions : Len(ledger) < MaxEntries /\ Tapped(m, d)
MCSpec == AloneInit /\ [][MCNext]_aloneVars
MCSymmetry == Permutations(MCAskers) \cup Permutations(MCPrompts)
=============================================================================
