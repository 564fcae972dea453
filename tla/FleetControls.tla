---------------------------- MODULE FleetControls ----------------------------
(***************************************************************************)
(* The controls an operator has over the fleet from his phone: /halt and   *)
(* /resume (halt_command.py), the buttons of a spend alert                 *)
(* (spend_command.py) and those of a blocker (blocker_command.py).  An     *)
(* order comes through the daemon's queue, batch by batch, and again if    *)
(* the daemon died before it recorded the cursor (Inbound).  Halting and   *)
(* raising the cap are commands of another program, which may take effect  *)
(* and still fail or run out of time; a blocker's decision is recorded and *)
(* nothing else.                                                           *)
(***************************************************************************)
EXTENDS Integers, Sequences, FiniteSets, SequencesExt

CONSTANTS
    Caps,                               \* amounts on raise-cap buttons
    Traffic,                            \* orders that may be sent
    Policies,                           \* what the guard may say of each kind
    MaxOrders, MaxBatch, MaxCrashes     \* bounds of the instance
ASSUME ControlBounds ==
    MaxOrders \in Nat /\ MaxBatch \in Nat \ {0} /\ MaxCrashes \in Nat

VARIABLES
    policy,     \* what the guard says of each kind of action
    wired,      \* whether the daemon was started with --halt-cmd
    orders,     \* every order sent, first to last
    cursor,     \* the last order whose batch is recorded as handled
    at, last,   \* the order in hand and the last of its batch
    pc,
    ok,         \* what the command returned
    fleet,      \* what the last command that took effect set
    ledger,     \* this tool's entries about orders
    crashes

vars == <<policy, wired, orders, cursor, at, last, pc, ok, fleet, ledger, crashes>>
wiring == <<policy, wired>>
batch == <<cursor, last>>

Kinds == {"fleet-halt", "fleet-resume", "fleet-raise-cap"}
KindOf(verb) ==
    CASE verb = "halt" -> "fleet-halt"
      [] verb = "resume" -> "fleet-resume"
      [] OTHER -> "fleet-raise-cap"

\* An amount that is no number, a button without a candidate: "stale".
Blocker == {"retry", "skip"}
Commands == {"halt", "resume"} \cup Caps
Verbs == Commands \cup Blocker \cup {"stale"}
Orders == [by : {"operator", "tester"}, verb : Verbs]
ControlOf(verb) ==
    CASE verb \in {"halt", "resume"} -> "switch"
      [] verb \in Caps -> "cap"
      [] verb \in Blocker -> "blocker"
      [] OTHER -> "none"
ASSUME CapsAreAmounts == Caps \cap ({"halt", "resume", "stale"} \cup Blocker) = {}
ASSUME TrafficIsOrders ==
    Traffic \subseteq Orders /\ Policies \subseteq [Kinds -> {"allow", "ask", "deny"}]

Init ==
    /\ policy \in Policies /\ wired \in BOOLEAN
    /\ orders = <<>> /\ cursor = 0 /\ at = 1 /\ last = 0
    /\ pc = "polling" /\ ok = FALSE
    /\ fleet = [c \in {"switch", "cap"} |-> "untouched"]
    /\ ledger = <<>> /\ crashes = 0

Order(o) ==
    /\ Len(orders) < MaxOrders
    /\ orders' = Append(orders, o)
    /\ UNCHANGED <<wiring, cursor, at, last, pc, ok, fleet, ledger, crashes>>

\* Mutant: the cursor is recorded before the batch is handled.
PollCommits ==
    /\ pc = "polling" /\ at <= Len(orders)
    /\ last' \in at..Len(orders) /\ last' < at + MaxBatch
    /\ cursor' = last'
    /\ pc' = "order"
    /\ UNCHANGED <<wiring, orders, at, ok, fleet, ledger, crashes>>
Poll ==
    /\ pc = "polling" /\ at <= Len(orders)
    /\ last' \in at..Len(orders) /\ last' < at + MaxBatch
    /\ pc' = "order"
    /\ UNCHANGED <<wiring, orders, cursor, at, ok, fleet, ledger, crashes>>

\* The next order of the batch (mutant: one too many).
AdvanceBeyond ==
    /\ at' = at + 1
    /\ pc' = IF at > last THEN "handled" ELSE "order"
Advance ==
    /\ at' = at + 1
    /\ pc' = IF at = last THEN "handled" ELSE "order"

\* _gate: the daemon is unattended, so an ASK is a DENY.
Gate(verb) == policy[KindOf(verb)] = "allow"

Obeyed(o) ==
    /\ o.by = "operator"
    /\ \/ o.verb \in Commands /\ wired /\ Gate(o.verb)
       \/ o.verb \in Blocker

\* Mutant: where the guard says ASK, the daemon waits for a tap to answer it.
RefuseUnlessAsk ==
    /\ pc = "order" /\ ~Obeyed(orders[at])
    /\ ~( /\ orders[at].by = "operator" /\ orders[at].verb \in Commands /\ wired
          /\ policy[KindOf(orders[at].verb)] = "ask" )
    /\ Advance
    /\ UNCHANGED <<wiring, orders, batch, ok, fleet, ledger, crashes>>
Refuse ==
    /\ pc = "order" /\ ~Obeyed(orders[at])
    /\ Advance
    /\ UNCHANGED <<wiring, orders, batch, ok, fleet, ledger, crashes>>

\* HaltControl.run: exit code 0 means it took effect; any other, a timeout or a
\* command that is not there may mean either.
RunCommand ==
    /\ pc = "order" /\ Obeyed(orders[at]) /\ orders[at].verb \in Commands
    /\ ok' \in BOOLEAN
    /\ \E took \in {ok', TRUE} :
          fleet' = IF took
                   THEN [fleet EXCEPT ![ControlOf(orders[at].verb)] = orders[at].verb]
                   ELSE fleet
    /\ pc' = "ran"
    /\ UNCHANGED <<wiring, orders, batch, at, ledger, crashes>>

Entry(i, outcome) == [order |-> i, verb |-> orders[i].verb, outcome |-> outcome]

\* Mutants: a success whatever the command returned; a failure returns early.
RecordSuccess ==
    /\ pc = "ran"
    /\ ledger' = Append(ledger, Entry(at, "success"))
    /\ Advance
    /\ UNCHANGED <<wiring, orders, batch, ok, fleet, crashes>>
RecordIfOk ==
    /\ pc = "ran"
    /\ ledger' = IF ok THEN Append(ledger, Entry(at, "success")) ELSE ledger
    /\ Advance
    /\ UNCHANGED <<wiring, orders, batch, ok, fleet, crashes>>
RecordCommand ==
    /\ pc = "ran"
    /\ ledger' = Append(ledger, Entry(at, IF ok THEN "success" ELSE "failure"))
    /\ Advance
    /\ UNCHANGED <<wiring, orders, batch, ok, fleet, crashes>>

\* _handle_decision.
RecordBlocker ==
    /\ pc = "order" /\ Obeyed(orders[at]) /\ orders[at].verb \in Blocker
    /\ ledger' = Append(ledger, Entry(at, "success"))
    /\ Advance
    /\ UNCHANGED <<wiring, orders, batch, ok, fleet, crashes>>

Commit ==
    /\ pc = "handled"
    /\ cursor' = last
    /\ pc' = "polling"
    /\ UNCHANGED <<wiring, orders, at, last, ok, fleet, ledger, crashes>>

\* A command that was running runs to its end or not at all: RunCommand, then this.
Crash ==
    /\ pc # "down" /\ crashes < MaxCrashes
    /\ crashes' = crashes + 1
    /\ pc' = "down"
    /\ UNCHANGED <<wiring, orders, batch, at, ok, fleet, ledger>>

\* Mutant: goes on behind the order it died in.
Continue ==
    /\ pc = "down"
    /\ at' = IF at > last THEN at ELSE at + 1
    /\ pc' = "polling"
    /\ UNCHANGED <<wiring, orders, batch, ok, fleet, ledger, crashes>>
Restart ==
    /\ pc = "down"
    /\ at' = cursor + 1
    /\ pc' = "polling"
    /\ UNCHANGED <<wiring, orders, batch, ok, fleet, ledger, crashes>>

Daemon ==
    Poll \/ Refuse \/ RunCommand \/ RecordCommand \/ RecordBlocker \/ Commit \/ Restart

Next == (\E o \in Traffic : Order(o)) \/ Daemon \/ Crash

Spec == Init /\ [][Next]_vars

\* The daemon is one thread that goes on while it can, a command has a time limit,
\* and the service is restarted whenever it ends.
FairSpec == Spec /\ WF_vars(Daemon)

-----------------------------------------------------------------------------
\* The types; nothing is in hand beyond the batch, and no batch beyond the orders.
TypeOK ==
    /\ policy \in Policies /\ wired \in BOOLEAN
    /\ orders \in Seq(Traffic)
    /\ cursor \in 0..last /\ last \in 0..Len(orders) /\ at \in 1..(last + 1)
    /\ pc \in {"polling", "order", "ran", "handled", "down"} /\ ok \in BOOLEAN
    /\ pc \in {"order", "ran"} => at <= last
    /\ fleet \in [{"switch", "cap"} -> Commands \cup {"untouched"}]
    /\ ledger \in Seq([order : 1..MaxOrders, verb : Verbs,
                       outcome : {"success", "failure"}])
    /\ crashes \in 0..MaxCrashes

\* Orders the operator was entitled to give, by what he and the guard said alone.
Permitted(i) ==
    /\ orders[i].by = "operator"
    /\ \/ orders[i].verb \in Blocker
       \/ /\ orders[i].verb \in Commands /\ wired
          /\ policy[KindOf(orders[i].verb)] = "allow"

OrdersFor(c) == {i \in DOMAIN orders : Permitted(i) /\ ControlOf(orders[i].verb) = c}
EntriesFor(c) == {k \in DOMAIN ledger : ControlOf(ledger[k].verb) = c}
LastIn(S) == CHOOSE k \in S : \A j \in S : j <= k
LastEntry(c) == ledger[LastIn(EntriesFor(c))]

AtRest == pc = "polling" /\ cursor = Len(orders)

\* Once every order is handled, the fleet is as the operator last ordered it, a
\* replay of earlier orders notwithstanding, unless the ledger shows that the last
\* command failed; and his last word on a blocker is the one on record.
FleetFollowsOrders ==
    AtRest =>
        /\ \A c \in {"switch", "cap"} :
              IF OrdersFor(c) = {} THEN fleet[c] = "untouched"
              ELSE /\ EntriesFor(c) # {}
                   /\ (LastEntry(c).outcome = "success"
                          => fleet[c] = orders[LastIn(OrdersFor(c))].verb)
        /\ OrdersFor("blocker") # {} =>
              /\ EntriesFor("blocker") # {}
              /\ LastEntry("blocker").verb = orders[LastIn(OrdersFor("blocker"))].verb

\* "The dangerous lie": the ledger never shows a success the fleet does not, except
\* while a later command has run and is not on record yet.
LedgerTellsTheFleet ==
    (pc \in {"polling", "order", "handled"} /\ crashes = 0) \/ AtRest =>
        \A c \in {"switch", "cap"} :
            EntriesFor(c) # {} /\ LastEntry(c).outcome = "success"
                => fleet[c] = LastEntry(c).verb

\* No order moves the fleet in silence: one that was carried out is on record by the
\* time the cursor passes it, and no more often than the daemon started.
EveryOrderOnRecord ==
    \A i \in 1..Len(orders) :
        LET entries == {k \in DOMAIN ledger : ledger[k].order = i} IN
        /\ i <= cursor /\ Permitted(i) => entries # {}
        /\ Cardinality(entries) <= crashes + 1

\* An order recorded as handled is never carried out again, so it cannot undo what
\* the operator did since, here or at a terminal.
SettledOrdersRest ==
    [][fleet' # fleet \/ ledger' # ledger => at > cursor /\ Permitted(at)]_vars

\* No order is left lying: the daemon catches up with every one of them, whatever the
\* guard says of it, an ASK that only this daemon could answer included.
EveryOrderHandled == []<>(cursor = Len(orders))
=============================================================================
