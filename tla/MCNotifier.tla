----------------------------- MODULE MCNotifier ------------------------------
(* A timer's run and a manual one over a ledger of a few entries. *)
EXTENDS Notifier, TLC

CONSTANTS timer, hand

MCRuns == {timer, hand}
MCManual == {hand}
OneRun == {timer}
NoManual == {}
=============================================================================
