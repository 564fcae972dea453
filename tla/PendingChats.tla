---------------------------- MODULE PendingChats -----------------------------
(***************************************************************************)
(* Who knocked and was not let in (pending.py).  The daemon keeps the set  *)
(* of recorded chats in memory (`seen`) and one ledger row per chat; the   *)
(* set is rebuilt from the rows when the daemon starts, and no row is      *)
(* written past Cap distinct chats (MAX_PENDING in the code).              *)
(***************************************************************************)
EXTENDS FleetLedger

CONSTANT Cap
ASSUME CapAssumption == Cap \in Nat

VARIABLE seen       \* PendingChats._seen

\* knocks(ledger): the distinct chats the ledger's rows name.
Knocks(l) == {l[i].chat_id : i \in EntriesOf(l, "unknown_chat")}

\* PendingChats.__init__ (mutant: a restart forgets the rows it wrote).
ForgetSeen == seen' = {}
LoadSeen == seen' = Knocks(ledger)

\* PendingChats.record: a chat already seen, or one past the cap, leaves no row
\* (mutant: the cap is reached one chat too early).
RecordKnockEarlyCap(chat) ==
    IF chat \in seen \/ Cardinality(seen) + 1 >= Cap
    THEN UNCHANGED <<ledger, seen>>
    ELSE /\ seen' = seen \cup {chat}
         /\ Record(KnockEntry(chat))

RecordKnock(chat) ==
    IF chat \in seen \/ Cardinality(seen) >= Cap
    THEN UNCHANGED <<ledger, seen>>
    ELSE /\ seen' = seen \cup {chat}
         /\ Record(KnockEntry(chat))

\* pending(ledger, store): the knocks whose chat resolves to no enabled tester.
Pending(l, admitted) == Knocks(l) \ admitted
=============================================================================
