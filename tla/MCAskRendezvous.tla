--------------------------- MODULE MCAskRendezvous ---------------------------
(* The operator's taps, a tester's forged one and his button, and one asker. *)
EXTENDS AskRendezvous, TLC

CONSTANTS op, t1, nobody, p1, a1

MCChats == {op, t1}
MCAdmissible == {t1}
MCPrompts == {p1}
MCAskers == {a1}
Nobody == {}

Tap(c, m, d) == [kind |-> "tap", chat |-> c, message |-> m, decision |-> d]

TapTraffic == {Tap(op, p1, d) : d \in Decisions}
MCTraffic == TapTraffic \cup {Tap(t1, p1, "allow"), [kind |-> "button", chat |-> t1]}
=============================================================================
