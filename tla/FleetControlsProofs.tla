------------------------- MODULE FleetControlsProofs -------------------------
(***************************************************************************)
(* What is proved of the operator's controls for any number of orders,     *)
(* batches and crashes: TypeOK, EveryOrderOnRecord, FleetFollowsOrders,    *)
(* LedgerTellsTheFleet and SettledOrdersRest.                              *)
(***************************************************************************)
EXTENDS FleetControls, Extrema, FiniteSetTheorems, TLAPS

Controls == {"switch", "cap", "blocker"}

\* Where the order in hand lies, and what is known while its command has run and is
\* not on record yet.
PlaceInv ==
    /\ Len(orders) <= MaxOrders
    /\ pc = "polling" => at = cursor + 1
    /\ pc \in {"order", "ran"} => cursor < at
    /\ pc = "handled" => at = last + 1
    /\ pc = "ran" =>
          /\ Permitted(at) /\ orders[at].verb \in Commands
          /\ ok => fleet[ControlOf(orders[at].verb)] = orders[at].verb
    /\ pc = "down" => crashes > 0

\* The orders this pass is through with: those before the one in hand, or, while the
\* daemon is down, those the recorded cursor will spare it.
Through(i) == i <= cursor \/ (pc # "down" /\ i < at)

EntriesOfOrder(i) == {k \in DOMAIN ledger : ledger[k].order = i}

\* An entry is about an order that was permitted, and the pass leaves none out.
RecordInv ==
    /\ \A k \in DOMAIN ledger :
          /\ ledger[k].order \in DOMAIN orders /\ Permitted(ledger[k].order)
          /\ ledger[k].verb = orders[ledger[k].order].verb
    /\ \A i \in DOMAIN orders : Permitted(i) /\ Through(i) => EntriesOfOrder(i) # {}

\* One entry each time the daemon started; in this pass not before the order's turn.
CountInv ==
    \A i \in DOMAIN orders :
        /\ Cardinality(EntriesOfOrder(i)) <= crashes + 1
        /\ pc = "down" \/ i >= at => Cardinality(EntriesOfOrder(i)) <= crashes

IsLast(k, S) == k \in S /\ \A j \in S : j <= k

\* The fleet and the record follow the orders for a control: its last entry is about
\* an order like the last one given, and if it is a success the fleet is that way.
Follows(c) ==
    /\ OrdersFor(c) = {} /\ c # "blocker" => fleet[c] = "untouched"
    /\ \A i \in DOMAIN orders : IsLast(i, OrdersFor(c)) =>
          \E k \in DOMAIN ledger :
              /\ IsLast(k, EntriesFor(c))
              /\ ledger[k].verb = orders[i].verb
              /\ (c # "blocker" /\ ledger[k].outcome = "success"
                    => fleet[c] = orders[i].verb)

\* In the middle of a replay an earlier order may be in force again; but not once
\* the pass is through with all of a control's orders.
FollowInv ==
    \A c \in Controls : (\A i \in OrdersFor(c) : Through(i)) => Follows(c)

\* The last entry of a control tells its state, as long as the daemon never died.
TellsInv ==
    \A c \in Controls \ {"blocker"} :
        crashes = 0 /\ ~(pc = "ran" /\ c = ControlOf(orders[at].verb)) =>
            \A k \in DOMAIN ledger :
                IsLast(k, EntriesFor(c)) /\ ledger[k].outcome = "success"
                    => fleet[c] = ledger[k].verb

IInv == TypeOK /\ PlaceInv /\ RecordInv /\ CountInv /\ FollowInv /\ TellsInv

-----------------------------------------------------------------------------
\* A verb moves one control: a command the switch or the cap, a decision the blocker.
LEMMA VerbsAndControls ==
    ASSUME NEW v \in Verbs
    PROVE  /\ v \in Commands => ControlOf(v) \in {"switch", "cap"}
           /\ v \in Blocker => ControlOf(v) = "blocker"
           /\ v \notin Commands \cup Blocker => ControlOf(v) = "none"
  BY CapsAreAmounts DEF ControlOf, Verbs, Commands, Blocker

\* An order of the traffic is a record of its two fields.
LEMMA OrderFields ==
    ASSUME NEW o \in Traffic
    PROVE  o \in Orders /\ o.verb \in Verbs /\ o.by \in {"operator", "tester"}
  BY TrafficIsOrders DEF Orders

\* What the daemon obeys is what the operator and the guard permit.
LEMMA ObeyedIsPermitted ==
    ASSUME NEW i
    PROVE  Obeyed(orders[i]) <=> Permitted(i)
  BY DEF Obeyed, Permitted, Gate

-----------------------------------------------------------------------------
\* Nothing is ordered, set or recorded in the beginning.
LEMMA InitHolds == Init => IInv
<1> SUFFICES ASSUME Init PROVE IInv
  OBVIOUS
<1> USE DEF Init
<1>1. TypeOK
  <2>1. fleet \in [{"switch", "cap"} -> Commands \cup {"untouched"}]
    OBVIOUS
  <2>2. Len(orders) = 0 /\ orders \in Seq(Traffic)
    OBVIOUS
  <2>3. cursor \in 0..last /\ last \in 0..Len(orders)
    BY <2>2
  <2>4. at \in 1..(last + 1)
    BY <2>2
  <2>5. ledger \in Seq([order : 1..MaxOrders, verb : Verbs,
                       outcome : {"success", "failure"}])
    BY <2>2
  <2>6. crashes \in 0..MaxCrashes
    BY ControlBounds
  <2>7. ok \in BOOLEAN
    OBVIOUS
  <2>8. wired \in BOOLEAN
    OBVIOUS
  <2> QED
    BY <2>1, <2>2, <2>3, <2>4, <2>5, <2>6, <2>7, <2>8, ControlBounds DEF TypeOK
<1>2. PlaceInv
  BY ControlBounds DEF PlaceInv
<1>3. RecordInv /\ CountInv
  BY DEF RecordInv, CountInv
<1>4. FollowInv /\ TellsInv
  <2>1. \A c \in Controls \ {"blocker"} : fleet[c] = "untouched"
    BY DEF Controls
  <2> QED
    BY <2>1 DEF FollowInv, TellsInv, Follows, Controls
<1> QED
  BY <1>1, <1>2, <1>3, <1>4 DEF IInv

\* The types, and where the order in hand lies, after every step.
LEMMA TypeStep == TypeOK /\ PlaceInv /\ [Next]_vars => TypeOK' /\ PlaceInv'
<1> SUFFICES ASSUME TypeOK, PlaceInv, [Next]_vars PROVE TypeOK' /\ PlaceInv'
  OBVIOUS
<1>a. /\ orders \in Seq(Traffic) /\ Len(orders) \in Nat /\ DOMAIN orders = 1..Len(orders)
      /\ cursor \in Nat /\ last \in Nat /\ at \in Nat
      /\ cursor <= last /\ last <= Len(orders) /\ 1 <= at /\ at <= last + 1
      /\ crashes \in Nat
  BY DEF TypeOK
<1>1. ASSUME NEW o \in Traffic, Order(o) PROVE TypeOK' /\ PlaceInv'
  <2>1. orders' \in Seq(Traffic) /\ Len(orders') = Len(orders) + 1
    BY <1>1, <1>a DEF Order
  <2>2. \A i \in 1..Len(orders) : orders'[i] = orders[i]
    BY <1>1, <1>a DEF Order
  <2>3. TypeOK'
    BY <1>1, <1>a, <2>1 DEF Order, TypeOK, wiring
  <2>4. pc = "ran" => at \in 1..Len(orders)
    BY <1>a DEF TypeOK
  <2> QED
    BY <1>1, <1>a, <2>1, <2>2, <2>3, <2>4, ControlBounds
    DEF Order, PlaceInv, Permitted, wiring
<1>2. CASE Poll
  <2>1. PICK n \in at..Len(orders) : last' = n
    BY <1>2 DEF Poll
  <2>2. cursor' = cursor /\ orders' = orders /\ at' = at /\ at = cursor + 1
    BY <1>2 DEF Poll, PlaceInv
  <2>3. cursor \in 0..n /\ n \in 0..Len(orders) /\ at \in 1..(n + 1) /\ at <= n
    BY <1>a, <2>1, <2>2
  <2>4. TypeOK'
    BY <1>2, <2>1, <2>2, <2>3 DEF Poll, TypeOK, wiring
  <2> QED
    BY <1>2, <1>a, <2>1, <2>2, <2>4 DEF Poll, PlaceInv
<1>3. CASE Refuse
  <2>1. pc = "order" /\ at <= last /\ at' = at + 1 /\ pc' = (IF at = last THEN "handled" ELSE "order")
    BY <1>3 DEF Refuse, Advance, TypeOK
  <2>2. at' \in 1..(last' + 1)
    BY <1>3, <1>a, <2>1 DEF Refuse, batch
  <2>3. TypeOK'
    BY <1>3, <1>a, <2>1, <2>2 DEF Refuse, TypeOK, wiring, batch
  <2> QED
    BY <1>3, <1>a, <2>1, <2>3 DEF Refuse, PlaceInv, batch
<1>4. CASE RunCommand
  <2>1. pc = "order" /\ at <= last
    BY <1>4 DEF RunCommand, TypeOK
  <2>2. orders[at] \in Traffic /\ orders[at].verb \in Commands
    BY <1>4, <1>a, <2>1 DEF RunCommand
  <2>3. orders[at].verb \in Verbs /\ ControlOf(orders[at].verb) \in {"switch", "cap"}
    BY <2>2, OrderFields, VerbsAndControls
  <2>4. Permitted(at)
    BY <1>4, ObeyedIsPermitted DEF RunCommand
  <2>5. /\ fleet' \in [{"switch", "cap"} -> Commands \cup {"untouched"}]
        /\ ok' => fleet'[ControlOf(orders[at].verb)] = orders[at].verb
    <3> DEFINE set == [fleet EXCEPT ![ControlOf(orders[at].verb)] = orders[at].verb]
    <3>1. fleet \in [{"switch", "cap"} -> Commands \cup {"untouched"}]
      BY DEF TypeOK
    <3>2. /\ set \in [{"switch", "cap"} -> Commands \cup {"untouched"}]
          /\ set[ControlOf(orders[at].verb)] = orders[at].verb
      BY <2>2, <2>3, <3>1
    <3>3. fleet' = set \/ (fleet' = fleet /\ ~ok')
      BY <1>4 DEF RunCommand
    <3> HIDE DEF set
    <3> QED
      BY <3>1, <3>2, <3>3
  <2>6. ok' \in BOOLEAN
    BY <1>4 DEF RunCommand
  <2>7. TypeOK'
    BY <1>4, <2>1, <2>5, <2>6 DEF RunCommand, TypeOK, wiring, batch
  <2>8. Permitted(at)'
    BY <1>4, <2>4 DEF RunCommand, Permitted, wiring
  <2> QED
    BY <1>4, <2>1, <2>2, <2>5, <2>7, <2>8 DEF RunCommand, PlaceInv, batch
<1>5. CASE RecordCommand \/ RecordBlocker
  <2>1. pc \in {"order", "ran"} /\ at <= last /\ cursor < at
    BY <1>5 DEF RecordCommand, RecordBlocker, TypeOK, PlaceInv
  <2>2. orders[at] \in Traffic /\ at \in 1..MaxOrders
    BY <1>a, <2>1, ControlBounds DEF PlaceInv
  <2>3. orders[at].verb \in Verbs
    BY <2>2, OrderFields
  <2>4. PICK outcome \in {"success", "failure"} :
            ledger' = Append(ledger, Entry(at, outcome))
    BY <1>5 DEF RecordCommand, RecordBlocker
  <2>5. ledger' \in Seq([order : 1..MaxOrders, verb : Verbs,
                         outcome : {"success", "failure"}])
    BY <2>2, <2>3, <2>4 DEF Entry, TypeOK
  <2>6. /\ at' = at + 1 /\ pc' = (IF at = last THEN "handled" ELSE "order")
        /\ UNCHANGED <<policy, wired, orders, cursor, last, ok, fleet, crashes>>
    BY <1>5 DEF RecordCommand, RecordBlocker, Advance, wiring, batch
  <2>7. at' \in 1..(last' + 1)
    BY <1>a, <2>1, <2>6
  <2>8. TypeOK'
    BY <1>a, <2>1, <2>5, <2>6, <2>7 DEF TypeOK
  <2> QED
    BY <1>a, <2>1, <2>6, <2>8 DEF PlaceInv
<1>6. CASE Commit
  BY <1>6, <1>a DEF Commit, TypeOK, PlaceInv, wiring
<1>7. CASE Restart
  BY <1>7, <1>a DEF Restart, TypeOK, PlaceInv, wiring, batch
<1>8. CASE Crash
  BY <1>8, <1>a, ControlBounds DEF Crash, TypeOK, PlaceInv, wiring, batch
<1>9. CASE UNCHANGED vars
  BY <1>9 DEF vars, TypeOK, PlaceInv, Permitted
<1> QED
  BY <1>1, <1>2, <1>3, <1>4, <1>5, <1>6, <1>7, <1>8, <1>9 DEF Next, Daemon

-----------------------------------------------------------------------------
\* A step that polls, runs a command, commits, dies or starts again leaves orders
\* and ledger alone, and is through with no more orders than before.
LEMMA QuietSteps ==
    ASSUME TypeOK, PlaceInv,
           Poll \/ RunCommand \/ Commit \/ Restart \/ Crash \/ UNCHANGED vars
    PROVE  /\ UNCHANGED <<policy, wired, orders, ledger>>
           /\ \A i \in DOMAIN orders : Through(i)' => Through(i)
<1> USE DEF Through
<1>1. DOMAIN orders \subseteq Nat /\ cursor \in Nat /\ at \in Nat /\ last \in Nat
  BY DEF TypeOK
<1>2. CASE Poll \/ RunCommand \/ UNCHANGED vars
  BY <1>1, <1>2 DEF Poll, RunCommand, vars, wiring, batch
<1>3. CASE Commit
  BY <1>1, <1>3 DEF Commit, PlaceInv, wiring
<1>4. CASE Restart
  BY <1>1, <1>4 DEF Restart, wiring, batch
<1>5. CASE Crash
  BY <1>1, <1>5 DEF Crash, wiring, batch
<1> QED
  BY <1>2, <1>3, <1>4, <1>5

\* What a permitted order's turn ends with: one entry about it.
LEMMA EntrySteps ==
    ASSUME TypeOK, PlaceInv, RecordCommand \/ RecordBlocker
    PROVE  /\ at \in DOMAIN orders /\ cursor < at /\ at \in Nat /\ Permitted(at)
           /\ pc \in {"order", "ran"} /\ pc' \in {"order", "handled"}
           /\ ControlOf(orders[at].verb) \in Controls
           /\ \E outcome \in {"success", "failure"} :
                 /\ ledger' = Append(ledger, Entry(at, outcome))
                 /\ outcome = "success" /\ ControlOf(orders[at].verb) # "blocker"
                       => fleet[ControlOf(orders[at].verb)] = orders[at].verb
           /\ at' = at + 1
           /\ UNCHANGED <<policy, wired, orders, cursor, fleet, crashes>>
<1>1. pc \in {"order", "ran"} /\ at <= last /\ cursor < at
  BY DEF RecordCommand, RecordBlocker, TypeOK, PlaceInv
<1>2. at \in DOMAIN orders /\ at \in Nat
  BY <1>1 DEF TypeOK
<1>3. Permitted(at)
  <2>1. CASE RecordCommand
    BY <2>1 DEF RecordCommand, PlaceInv
  <2>2. CASE RecordBlocker
    BY <2>2, ObeyedIsPermitted DEF RecordBlocker
  <2> QED
    BY <2>1, <2>2
<1>4. /\ at' = at + 1 /\ pc' \in {"order", "handled"}
      /\ UNCHANGED <<policy, wired, orders, cursor, fleet, crashes>>
  BY DEF RecordCommand, RecordBlocker, Advance, wiring, batch
<1>5. orders[at].verb \in Verbs
  BY <1>2, OrderFields DEF TypeOK
<1>6. CASE RecordCommand
  <2>1. /\ ControlOf(orders[at].verb) \in Controls
        /\ ok => fleet[ControlOf(orders[at].verb)] = orders[at].verb
    BY <1>5, <1>6, VerbsAndControls DEF RecordCommand, PlaceInv, Controls
  <2> DEFINE outcome == IF ok THEN "success" ELSE "failure"
  <2>2. outcome \in {"success", "failure"} /\ (outcome = "success" => ok)
    OBVIOUS
  <2>3. ledger' = Append(ledger, Entry(at, outcome))
    BY <1>6 DEF RecordCommand
  <2> HIDE DEF outcome
  <2> QED
    BY <1>1, <1>2, <1>3, <1>4, <2>1, <2>2, <2>3
<1>7. CASE RecordBlocker
  <2>1. ControlOf(orders[at].verb) = "blocker"
    BY <1>5, <1>7, VerbsAndControls DEF RecordBlocker
  <2>2. ledger' = Append(ledger, Entry(at, "success"))
    BY <1>7 DEF RecordBlocker
  <2> QED
    BY <1>1, <1>2, <1>3, <1>4, <2>1, <2>2 DEF Controls
<1> QED
  BY <1>6, <1>7

\* What the turn of any other order ends with.
LEMMA RefusalStep ==
    ASSUME TypeOK, PlaceInv, Refuse
    PROVE  /\ at \in Nat /\ cursor < at /\ ~Permitted(at)
           /\ pc = "order" /\ pc' \in {"order", "handled"} /\ at' = at + 1
           /\ UNCHANGED <<policy, wired, orders, cursor, fleet, ledger, crashes>>
  BY ObeyedIsPermitted DEF Refuse, Advance, TypeOK, PlaceInv, wiring, batch

\* A new order comes after all that is in hand; the earlier ones stay what they are.
LEMMA NewOrder ==
    ASSUME TypeOK, PlaceInv, NEW o \in Traffic, Order(o)
    PROVE  /\ DOMAIN orders' = DOMAIN orders \cup {Len(orders) + 1}
           /\ DOMAIN orders = 1..Len(orders) /\ Len(orders) \in Nat
           /\ \A i \in DOMAIN orders :
                 orders'[i] = orders[i] /\ (Permitted(i)' <=> Permitted(i))
           /\ ~Through(Len(orders) + 1)
           /\ UNCHANGED <<policy, wired, cursor, at, pc, fleet, ledger, crashes>>
<1>1. /\ orders \in Seq(Traffic) /\ Len(orders) \in Nat
      /\ cursor \in Nat /\ at \in Nat /\ cursor <= Len(orders) /\ at <= Len(orders) + 1
  BY DEF TypeOK
<1>2. /\ orders' = Append(orders, o)
      /\ UNCHANGED <<policy, wired, cursor, at, pc, fleet, ledger, crashes>>
  BY DEF Order, wiring
<1>3. /\ DOMAIN orders' = DOMAIN orders \cup {Len(orders) + 1}
      /\ \A i \in DOMAIN orders : orders'[i] = orders[i]
  BY <1>1, <1>2
<1>4. ~Through(Len(orders) + 1)
  BY <1>1 DEF Through
<1> QED
  BY <1>1, <1>2, <1>3, <1>4 DEF Permitted

\* The entries stay true to the orders, and none is left out by the pass.
LEMMA RecordStep ==
    ASSUME TypeOK, PlaceInv, RecordInv, [Next]_vars
    PROVE  RecordInv'
<1>1. ASSUME NEW o \in Traffic, Order(o) PROVE RecordInv'
  BY <1>1, NewOrder DEF RecordInv, EntriesOfOrder, Through
<1>2. CASE Refuse
  BY <1>2, RefusalStep DEF RecordInv, EntriesOfOrder, Through, Permitted, TypeOK
<1>3. CASE RecordCommand \/ RecordBlocker
  <2>1. PICK outcome : ledger' = Append(ledger, Entry(at, outcome))
    BY <1>3, EntrySteps
  <2>2. /\ DOMAIN ledger' = DOMAIN ledger \cup {Len(ledger) + 1}
        /\ ledger'[Len(ledger) + 1] = Entry(at, outcome)
        /\ \A k \in DOMAIN ledger : ledger'[k] = ledger[k]
    BY <2>1 DEF TypeOK
  <2>3. \A i : Permitted(i)' <=> Permitted(i)
    BY <1>3, EntrySteps DEF Permitted
  <2>4. \A i \in DOMAIN orders : Through(i)' => Through(i) \/ i = at
    BY <1>3, EntrySteps DEF Through, TypeOK
  <2>5. ASSUME NEW k \in DOMAIN ledger'
        PROVE  /\ ledger'[k].order \in DOMAIN orders' /\ Permitted(ledger[k].order)'
               /\ ledger'[k].verb = orders'[ledger'[k].order].verb
    <3>1. orders' = orders /\ at \in DOMAIN orders /\ Permitted(at)
      BY <1>3, EntrySteps
    <3>2. CASE k \in DOMAIN ledger
      BY <2>2, <2>3, <3>1, <3>2 DEF RecordInv
    <3>3. CASE k = Len(ledger) + 1
      BY <2>2, <2>3, <3>1, <3>3 DEF Entry
    <3> QED
      BY <2>2, <2>5, <3>2, <3>3
  <2>6. ASSUME NEW i \in DOMAIN orders', Permitted(i)', Through(i)'
        PROVE  EntriesOfOrder(i)' # {}
    <3>1. CASE i = at
      <4>1. Len(ledger) + 1 \in EntriesOfOrder(i)'
        BY <2>2, <3>1 DEF Entry, EntriesOfOrder
      <4> QED
        BY <4>1
    <3>2. CASE i # at
      <4>1. orders' = orders
        BY <1>3, EntrySteps
      <4>2. EntriesOfOrder(i) # {}
        BY <2>3, <2>4, <2>6, <3>2, <4>1 DEF RecordInv
      <4> QED
        BY <2>2, <4>2 DEF EntriesOfOrder
    <3> QED
      BY <3>1, <3>2
  <2> QED
    BY <2>5, <2>6 DEF RecordInv
<1>4. CASE Poll \/ RunCommand \/ Commit \/ Restart \/ Crash \/ UNCHANGED vars
  <2>1. \A i : Permitted(i)' <=> Permitted(i)
    BY <1>4, QuietSteps DEF Permitted
  <2> QED
    BY <1>4, <2>1, QuietSteps DEF RecordInv, EntriesOfOrder
<1> QED
  BY <1>1, <1>2, <1>3, <1>4 DEF Next, Daemon

-----------------------------------------------------------------------------
\* The entries about an order are some of the ledger's: a finite set.
LEMMA EntriesAreFinite ==
    ASSUME TypeOK, NEW i
    PROVE  IsFiniteSet(EntriesOfOrder(i)) /\ Cardinality(EntriesOfOrder(i)) \in Nat
<1>1. DOMAIN ledger = 1..Len(ledger) /\ Len(ledger) \in Nat
  BY DEF TypeOK
<1>2. IsFiniteSet(1..Len(ledger)) /\ EntriesOfOrder(i) \subseteq 1..Len(ledger)
  BY <1>1, FS_Interval DEF EntriesOfOrder
<1>3. IsFiniteSet(EntriesOfOrder(i))
  BY <1>2, FS_Subset
<1> QED
  BY <1>3, FS_CardinalityType

\* An order gets no second entry before the daemon has died over it.
LEMMA CountStep ==
    ASSUME TypeOK, PlaceInv, RecordInv, CountInv, [Next]_vars
    PROVE  CountInv'
<1>a. crashes \in Nat /\ at \in Nat /\ DOMAIN orders \subseteq Nat
  BY DEF TypeOK
<1>b. \A i : Cardinality(EntriesOfOrder(i)) \in Nat
  BY EntriesAreFinite
<1>1. ASSUME NEW o \in Traffic, Order(o) PROVE CountInv'
  <2>1. EntriesOfOrder(Len(orders) + 1) = {}
    BY <1>1, NewOrder DEF RecordInv, EntriesOfOrder
  <2>2. Cardinality(EntriesOfOrder(Len(orders) + 1)) = 0
    BY <2>1, FS_EmptySet
  <2>3. \A i : EntriesOfOrder(i)' = EntriesOfOrder(i)
    BY <1>1, NewOrder DEF EntriesOfOrder
  <2>4. /\ DOMAIN orders' = DOMAIN orders \cup {Len(orders) + 1}
        /\ crashes' = crashes /\ pc' = pc /\ at' = at
    BY <1>1, NewOrder
  <2> QED
    BY <1>a, <2>2, <2>3, <2>4 DEF CountInv
<1>2. CASE Refuse
  BY <1>2, <1>a, RefusalStep DEF CountInv, EntriesOfOrder
<1>3. CASE RecordCommand \/ RecordBlocker
  <2>1. PICK outcome : ledger' = Append(ledger, Entry(at, outcome))
    BY <1>3, EntrySteps
  <2>2. /\ DOMAIN ledger' = DOMAIN ledger \cup {Len(ledger) + 1}
        /\ Len(ledger) + 1 \notin DOMAIN ledger
        /\ ledger'[Len(ledger) + 1] = Entry(at, outcome)
        /\ \A k \in DOMAIN ledger : ledger'[k] = ledger[k]
    BY <2>1 DEF TypeOK
  <2>3. ASSUME NEW i, i # at PROVE EntriesOfOrder(i)' = EntriesOfOrder(i)
    BY <2>2, <2>3 DEF EntriesOfOrder, Entry
  <2>4. ASSUME NEW i, i = at
        PROVE  Cardinality(EntriesOfOrder(i)') = Cardinality(EntriesOfOrder(i)) + 1
    <3>1. /\ EntriesOfOrder(i)' = EntriesOfOrder(i) \cup {Len(ledger) + 1}
          /\ Len(ledger) + 1 \notin EntriesOfOrder(i)
      BY <2>2, <2>4 DEF Entry, EntriesOfOrder
    <3>2. IsFiniteSet(EntriesOfOrder(i))
      BY EntriesAreFinite
    <3> QED
      BY <3>1, <3>2, FS_AddElement
  <2>5. /\ pc \in {"order", "ran"} /\ pc' \in {"order", "handled"} /\ at \in DOMAIN orders
        /\ at' = at + 1 /\ orders' = orders /\ crashes' = crashes
    BY <1>3, EntrySteps
  <2> QED
    BY <1>a, <1>b, <2>3, <2>4, <2>5 DEF CountInv
<1>4. CASE Poll \/ RunCommand \/ Commit
  BY <1>4 DEF Poll, RunCommand, Commit, CountInv, EntriesOfOrder, batch
<1>5. CASE Restart
  BY <1>5, <1>a, <1>b DEF Restart, CountInv, EntriesOfOrder, batch
<1>6. CASE Crash
  <2>1. PICK n \in Nat : crashes' = n /\ n = crashes + 1
    BY <1>6, <1>a DEF Crash
  <2>2. orders' = orders /\ \A i : EntriesOfOrder(i)' = EntriesOfOrder(i)
    BY <1>6 DEF Crash, EntriesOfOrder
  <2>3. \A i \in DOMAIN orders : Cardinality(EntriesOfOrder(i)) <= n
    BY <2>1 DEF CountInv
  <2>4. \A i \in DOMAIN orders : Cardinality(EntriesOfOrder(i)) <= n + 1
    BY <1>b, <2>3
  <2> QED
    BY <2>1, <2>2, <2>3, <2>4 DEF CountInv
<1>7. CASE UNCHANGED vars
  BY <1>7 DEF vars, CountInv, EntriesOfOrder
<1> QED
  BY <1>1, <1>2, <1>3, <1>4, <1>5, <1>6, <1>7 DEF Next, Daemon

-----------------------------------------------------------------------------
\* An order's entry is the last one of its control, and no other control's.
LEMMA EntryOfControl ==
    ASSUME TypeOK, NEW outcome, ledger' = Append(ledger, Entry(at, outcome)), NEW c
    PROVE  /\ Len(ledger) \in Nat /\ DOMAIN ledger' = DOMAIN ledger \cup {Len(ledger) + 1}
           /\ \A k \in DOMAIN ledger : ledger'[k] = ledger[k]
           /\ ledger'[Len(ledger) + 1].verb = orders[at].verb
           /\ ledger'[Len(ledger) + 1].outcome = outcome
           /\ c # ControlOf(orders[at].verb) => EntriesFor(c)' = EntriesFor(c)
           /\ c = ControlOf(orders[at].verb) =>
                 \A k : IsLast(k, EntriesFor(c)') <=> k = Len(ledger) + 1
<1>1. /\ Len(ledger) \in Nat /\ DOMAIN ledger = 1..Len(ledger)
      /\ DOMAIN ledger' = DOMAIN ledger \cup {Len(ledger) + 1}
      /\ \A k \in DOMAIN ledger : ledger'[k] = ledger[k]
      /\ ledger'[Len(ledger) + 1] = Entry(at, outcome)
  BY DEF TypeOK
<1>2. /\ ledger'[Len(ledger) + 1].verb = orders[at].verb
      /\ ledger'[Len(ledger) + 1].outcome = outcome
  BY <1>1 DEF Entry
<1>3. ASSUME c # ControlOf(orders[at].verb) PROVE EntriesFor(c)' = EntriesFor(c)
  BY <1>1, <1>2, <1>3 DEF EntriesFor
<1>4. ASSUME c = ControlOf(orders[at].verb), NEW k
      PROVE  IsLast(k, EntriesFor(c)') <=> k = Len(ledger) + 1
  <2>1. Len(ledger) + 1 \in EntriesFor(c)' /\ EntriesFor(c)' \subseteq 1..(Len(ledger) + 1)
    BY <1>1, <1>2, <1>4 DEF EntriesFor
  <2> QED
    BY <1>1, <2>1 DEF IsLast
<1> QED
  BY <1>1, <1>2, <1>3, <1>4

\* As soon as a pass is through with all orders for a control, the control follows
\* the last of them.
LEMMA FollowStep ==
    ASSUME TypeOK, PlaceInv, FollowInv, [Next]_vars
    PROVE  FollowInv'
<1> SUFFICES ASSUME NEW c \in Controls, \A i \in OrdersFor(c)' : Through(i)'
             PROVE  Follows(c)'
  BY DEF FollowInv
<1>a. (\A i \in OrdersFor(c) : Through(i)) => Follows(c)
  BY DEF FollowInv
<1>1. ASSUME NEW o \in Traffic, Order(o) PROVE Follows(c)'
  <2>1. /\ DOMAIN orders' = DOMAIN orders \cup {Len(orders) + 1}
        /\ \A i \in DOMAIN orders :
              orders'[i] = orders[i] /\ (Permitted(i)' <=> Permitted(i))
        /\ \A i : Through(i)' <=> Through(i)
        /\ ~Through(Len(orders) + 1)
    BY <1>1, NewOrder DEF Through
  <2>2. OrdersFor(c)' = OrdersFor(c) /\ \A i \in OrdersFor(c) : Through(i)
    BY <2>1 DEF OrdersFor
  <2>3. fleet' = fleet /\ ledger' = ledger /\ EntriesFor(c)' = EntriesFor(c)
    BY <1>1, NewOrder DEF EntriesFor
  <2>4. Follows(c)
    BY <1>a, <2>2
  <2>5. \A i : IsLast(i, OrdersFor(c)) => i \in DOMAIN orders
    BY DEF IsLast, OrdersFor
  <2> QED
    BY <2>1, <2>2, <2>3, <2>4, <2>5 DEF Follows
<1>2. CASE Refuse
  <2>1. UNCHANGED <<policy, wired, orders, cursor, fleet, ledger>> /\ ~Permitted(at)
    BY <1>2, RefusalStep
  <2>2. OrdersFor(c)' = OrdersFor(c) /\ EntriesFor(c)' = EntriesFor(c)
    BY <2>1 DEF OrdersFor, EntriesFor, Permitted
  <2>3. \A i \in OrdersFor(c) : Through(i)' => Through(i)
    BY <1>2, <2>1, RefusalStep DEF Through, OrdersFor, TypeOK
  <2> QED
    BY <1>a, <2>1, <2>2, <2>3 DEF Follows
<1>3. CASE RunCommand
  <2>1. OrdersFor(c)' = OrdersFor(c) /\ EntriesFor(c)' = EntriesFor(c)
    BY <1>3, QuietSteps DEF OrdersFor, EntriesFor, Permitted
  <2>2. UNCHANGED <<orders, ledger>> /\ \A i \in OrdersFor(c) : Through(i)
    BY <1>3, <2>1, QuietSteps DEF OrdersFor
  <2>3. ~Through(at) /\ at \in DOMAIN orders /\ Permitted(at)
    BY <1>3, ObeyedIsPermitted DEF RunCommand, Through, PlaceInv, TypeOK
  <2>4. c # ControlOf(orders[at].verb)
    BY <2>2, <2>3 DEF OrdersFor
  <2>5. c # "blocker" => fleet'[c] = fleet[c]
    BY <1>3, <2>4 DEF RunCommand, TypeOK, Controls
  <2> QED
    BY <1>a, <2>1, <2>2, <2>5 DEF Follows
<1>4. CASE RecordCommand \/ RecordBlocker
  <2>1. /\ UNCHANGED <<policy, wired, orders, cursor, fleet>>
        /\ at \in DOMAIN orders /\ Permitted(at) /\ cursor < at /\ at' = at + 1
        /\ pc # "down"
    BY <1>4, EntrySteps
  <2>2. PICK outcome :
            /\ ledger' = Append(ledger, Entry(at, outcome))
            /\ outcome = "success" /\ ControlOf(orders[at].verb) # "blocker"
                  => fleet[ControlOf(orders[at].verb)] = orders[at].verb
    BY <1>4, EntrySteps
  <2>3. OrdersFor(c)' = OrdersFor(c)
    BY <2>1 DEF OrdersFor, Permitted
  <2>4. \A i \in OrdersFor(c) : Through(i) \/ i = at
    BY <2>1, <2>3 DEF Through, OrdersFor, TypeOK
  <2>5. CASE c # ControlOf(orders[at].verb)
    <3>1. at \notin OrdersFor(c) /\ EntriesFor(c)' = EntriesFor(c)
      BY <2>2, <2>5, EntryOfControl DEF OrdersFor
    <3>2. \A k \in DOMAIN ledger : ledger'[k] = ledger[k] /\ k \in DOMAIN ledger'
      BY <2>2, EntryOfControl
    <3>3. Follows(c)
      BY <1>a, <2>4, <3>1
    <3> QED
      BY <2>1, <2>3, <3>1, <3>2, <3>3 DEF Follows
  <2>6. CASE c = ControlOf(orders[at].verb)
    <3>1. /\ Len(ledger) + 1 \in DOMAIN ledger'
          /\ IsLast(Len(ledger) + 1, EntriesFor(c)')
          /\ ledger'[Len(ledger) + 1].verb = orders[at].verb
          /\ ledger'[Len(ledger) + 1].outcome = outcome
      BY <2>2, <2>6, EntryOfControl
    <3>2. at \in OrdersFor(c)
      BY <2>1, <2>6 DEF OrdersFor
    <3>3. \A i : IsLast(i, OrdersFor(c)) => i = at
      BY <2>1, <2>4, <3>2 DEF IsLast, Through, OrdersFor, TypeOK
    <3>4. c # "blocker" /\ outcome = "success" => fleet[c] = orders[at].verb
      BY <2>2, <2>6
    <3> QED
      BY <2>1, <2>3, <3>1, <3>2, <3>3, <3>4 DEF Follows
  <2> QED
    BY <2>5, <2>6
<1>5. CASE Poll \/ Commit \/ Restart \/ Crash \/ UNCHANGED vars
  <2>1. fleet' = fleet
    BY <1>5 DEF Poll, Commit, Restart, Crash, vars
  <2>2. OrdersFor(c)' = OrdersFor(c) /\ EntriesFor(c)' = EntriesFor(c)
    BY <1>5, QuietSteps DEF OrdersFor, EntriesFor, Permitted
  <2>3. UNCHANGED <<orders, ledger>> /\ \A i \in OrdersFor(c) : Through(i)
    BY <1>5, <2>2, QuietSteps DEF OrdersFor
  <2> QED
    BY <1>a, <2>1, <2>2, <2>3 DEF Follows
<1> QED
  BY <1>1, <1>2, <1>3, <1>4, <1>5 DEF Next, Daemon

\* No success on record is overtaken by the fleet, but while a command runs.
LEMMA TellsStep ==
    ASSUME TypeOK, PlaceInv, TellsInv, [Next]_vars
    PROVE  TellsInv'
<1> SUFFICES ASSUME NEW c \in Controls \ {"blocker"}, crashes' = 0,
                    ~(pc' = "ran" /\ c = ControlOf(orders'[at'].verb)),
                    NEW k \in DOMAIN ledger',
                    IsLast(k, EntriesFor(c)'), ledger'[k].outcome = "success"
             PROVE  fleet'[c] = ledger'[k].verb
  BY DEF TellsInv
<1>a. ASSUME crashes = 0, ~(pc = "ran" /\ c = ControlOf(orders[at].verb)),
             ledger' = ledger, fleet' = fleet
      PROVE  fleet'[c] = ledger'[k].verb
  BY <1>a DEF TellsInv, EntriesFor
<1>1. ASSUME NEW o \in Traffic, Order(o) PROVE fleet'[c] = ledger'[k].verb
  <2>1. pc = "ran" => at \in DOMAIN orders
    BY DEF TypeOK
  <2> QED
    BY <1>1, <1>a, <2>1, NewOrder
<1>2. CASE Refuse
  BY <1>2, <1>a, RefusalStep
<1>3. CASE RunCommand
  <2>1. c # ControlOf(orders[at].verb) /\ crashes = 0 /\ pc = "order" /\ ledger' = ledger
    BY <1>3 DEF RunCommand
  <2>2. fleet'[c] = fleet[c]
    BY <1>3, <2>1 DEF RunCommand, TypeOK, Controls
  <2>3. EntriesFor(c)' = EntriesFor(c)
    BY <2>1 DEF EntriesFor
  <2> QED
    BY <2>1, <2>2, <2>3 DEF TellsInv
<1>4. CASE RecordCommand \/ RecordBlocker
  <2>1. crashes = 0 /\ fleet' = fleet
    BY <1>4, EntrySteps
  <2>2. PICK outcome :
            /\ ledger' = Append(ledger, Entry(at, outcome))
            /\ outcome = "success" /\ ControlOf(orders[at].verb) # "blocker"
                  => fleet[ControlOf(orders[at].verb)] = orders[at].verb
    BY <1>4, EntrySteps
  <2>3. CASE c # ControlOf(orders[at].verb)
    <3>1. EntriesFor(c)' = EntriesFor(c) /\ k \in DOMAIN ledger /\ ledger'[k] = ledger[k]
      BY <2>2, <2>3, EntryOfControl DEF IsLast, EntriesFor
    <3> QED
      BY <2>1, <2>3, <3>1 DEF TellsInv
  <2>4. CASE c = ControlOf(orders[at].verb)
    BY <2>1, <2>2, <2>4, EntryOfControl
  <2> QED
    BY <2>3, <2>4
<1>5. CASE Poll \/ Commit
  BY <1>5, <1>a DEF Poll, Commit
<1>6. CASE Restart
  BY <1>6 DEF Restart, PlaceInv
<1>7. CASE Crash
  BY <1>7 DEF Crash, TypeOK
<1>8. CASE UNCHANGED vars
  BY <1>8, <1>a DEF vars
<1> QED
  BY <1>1, <1>2, <1>3, <1>4, <1>5, <1>6, <1>7, <1>8 DEF Next, Daemon

-----------------------------------------------------------------------------
\* The invariant of the controls: every pass over the orders, the repeated ones too,
\* carries fleet and record back to where the last order left them.
THEOREM ControlsInvariant == Spec => []IInv
<1>1. IInv /\ [Next]_vars => IInv'
  BY TypeStep, RecordStep, CountStep, FollowStep, TellsStep DEF IInv
<1> QED
  BY InitHolds, <1>1, PTL DEF Spec

\* Orders, cursor and record keep their types and their places.
THEOREM ControlsTypes == Spec => []TypeOK
<1>1. IInv => TypeOK
  BY DEF IInv
<1> QED
  BY <1>1, ControlsInvariant, PTL

\* Every order that moved the fleet is on record once the cursor has passed it, and
\* was carried out no more often than the daemon started.
THEOREM OrdersAreRecorded == Spec => []EveryOrderOnRecord
<1>1. IInv => EveryOrderOnRecord
  <2> SUFFICES ASSUME IInv, NEW i \in 1..Len(orders)
               PROVE  /\ i <= cursor /\ Permitted(i) => EntriesOfOrder(i) # {}
                      /\ Cardinality(EntriesOfOrder(i)) <= crashes + 1
    BY DEF EveryOrderOnRecord, EntriesOfOrder
  <2>1. i \in DOMAIN orders
    BY DEF IInv, TypeOK
  <2> QED
    BY <2>1 DEF IInv, RecordInv, CountInv, Through
<1> QED
  BY <1>1, ControlsInvariant, PTL

\* The greatest of a set of a sequence's places is the last.
LEMMA LastOfPlaces ==
    ASSUME NEW n \in Nat, NEW S, S \subseteq 1..n, S # {}
    PROVE  LastIn(S) \in S /\ IsLast(LastIn(S), S)
           /\ \A k : IsLast(k, S) => k = LastIn(S)
<1>1. S \subseteq 0..n
  OBVIOUS
<1>2. \E k \in S : \A j \in S : j <= k
  BY <1>1, GreatestExists
<1>3. LastIn(S) \in S /\ \A j \in S : j <= LastIn(S)
  BY <1>2 DEF LastIn
<1>4. ASSUME NEW k, IsLast(k, S) PROVE k = LastIn(S)
  <2>1. k \in 1..n /\ LastIn(S) \in 1..n /\ k <= LastIn(S) /\ LastIn(S) <= k
    BY <1>3, <1>4 DEF IsLast
  <2> QED
    BY <2>1
<1> QED
  BY <1>3, <1>4 DEF IsLast

\* When every order is handled, the fleet is as the operator last ordered it, or the
\* record says that this failed.
THEOREM FleetObeys == Spec => []FleetFollowsOrders
<1>1. IInv => FleetFollowsOrders
  <2> SUFFICES ASSUME IInv, AtRest PROVE FleetFollowsOrders
    BY DEF FleetFollowsOrders
  <2>1. /\ Len(orders) \in Nat /\ DOMAIN orders = 1..Len(orders)
        /\ Len(ledger) \in Nat /\ DOMAIN ledger = 1..Len(ledger)
    BY DEF IInv, TypeOK
  <2>2. \A c : OrdersFor(c) \subseteq 1..Len(orders) /\ EntriesFor(c) \subseteq 1..Len(ledger)
    BY <2>1 DEF OrdersFor, EntriesFor
  <2>3. ASSUME NEW c \in Controls PROVE Follows(c)
    BY <2>1, <2>2 DEF IInv, FollowInv, Through, AtRest
  <2>4. ASSUME NEW c \in Controls, OrdersFor(c) # {}
        PROVE  /\ EntriesFor(c) # {}
               /\ LastEntry(c).verb = orders[LastIn(OrdersFor(c))].verb
               /\ c # "blocker" /\ LastEntry(c).outcome = "success"
                     => fleet[c] = orders[LastIn(OrdersFor(c))].verb
    <3> DEFINE i == LastIn(OrdersFor(c))
    <3>1. i \in DOMAIN orders /\ IsLast(i, OrdersFor(c))
      BY <2>1, <2>2, <2>4, LastOfPlaces
    <3>2. PICK k \in DOMAIN ledger :
              /\ IsLast(k, EntriesFor(c)) /\ ledger[k].verb = orders[i].verb
              /\ (c # "blocker" /\ ledger[k].outcome = "success"
                    => fleet[c] = orders[i].verb)
      BY <2>3, <3>1 DEF Follows
    <3>3. EntriesFor(c) # {} /\ k = LastIn(EntriesFor(c))
      <4>1. EntriesFor(c) # {}
        BY <3>2 DEF IsLast
      <4> QED
        BY <2>1, <2>2, <3>2, <4>1, LastOfPlaces
    <3> QED
      BY <3>2, <3>3 DEF LastEntry
  <2>5. \A c \in {"switch", "cap"} : OrdersFor(c) = {} => fleet[c] = "untouched"
    BY <2>3 DEF Follows, Controls
  <2> QED
    BY <2>4, <2>5 DEF FleetFollowsOrders, Controls
<1> QED
  BY <1>1, ControlsInvariant, PTL

\* The last entry about a control is a success only if the fleet is that way: at
\* rest, and between any two orders if the daemon never died.
THEOREM LedgerIsTrue == Spec => []LedgerTellsTheFleet
<1>1. IInv => LedgerTellsTheFleet
  <2> SUFFICES ASSUME IInv, (pc \in {"polling", "order", "handled"} /\ crashes = 0) \/ AtRest,
                      NEW c \in {"switch", "cap"},
                      EntriesFor(c) # {}, LastEntry(c).outcome = "success"
               PROVE  fleet[c] = LastEntry(c).verb
    BY DEF LedgerTellsTheFleet
  <2>1. /\ Len(orders) \in Nat /\ DOMAIN orders = 1..Len(orders)
        /\ Len(ledger) \in Nat /\ DOMAIN ledger = 1..Len(ledger)
    BY DEF IInv, TypeOK
  <2> DEFINE k == LastIn(EntriesFor(c))
  <2>2. k \in DOMAIN ledger /\ IsLast(k, EntriesFor(c)) /\ LastEntry(c) = ledger[k]
    BY <2>1, LastOfPlaces DEF EntriesFor, LastEntry
  <2>3. CASE pc \in {"polling", "order", "handled"} /\ crashes = 0
    BY <2>2, <2>3 DEF IInv, TellsInv, Controls
  <2>4. CASE AtRest
    <3>1. Follows(c)
      BY <2>1, <2>4 DEF IInv, FollowInv, Through, AtRest, OrdersFor, Controls
    <3>2. OrdersFor(c) # {} /\ OrdersFor(c) \subseteq 1..Len(orders)
      BY <2>1, <2>2 DEF IInv, RecordInv, OrdersFor, EntriesFor, IsLast
    <3>3. PICK i \in DOMAIN orders : IsLast(i, OrdersFor(c))
      BY <2>1, <3>2, LastOfPlaces
    <3>4. PICK e \in DOMAIN ledger :
              /\ IsLast(e, EntriesFor(c)) /\ ledger[e].verb = orders[i].verb
              /\ (c # "blocker" /\ ledger[e].outcome = "success"
                    => fleet[c] = orders[i].verb)
      BY <3>1, <3>3 DEF Follows
    <3>5. e = k
      <4>1. e <= k /\ k <= e /\ e \in Nat /\ k \in Nat
        BY <2>1, <2>2, <3>4 DEF IsLast
      <4> QED
        BY <4>1
    <3> QED
      BY <2>2, <3>4, <3>5
  <2> QED
    BY <2>3, <2>4
<1> QED
  BY <1>1, ControlsInvariant, PTL

\* Only an order behind the cursor that is permitted moves the fleet or is recorded.
THEOREM SettledOrdersStay == Spec => SettledOrdersRest
<1>1. IInv /\ [Next]_vars => (fleet' # fleet \/ ledger' # ledger => at > cursor /\ Permitted(at))
  <2> SUFFICES ASSUME IInv, Next, fleet' # fleet \/ ledger' # ledger
               PROVE  at > cursor /\ Permitted(at)
    BY DEF vars
  <2>a. cursor \in Nat /\ at \in Nat /\ TypeOK /\ PlaceInv
    BY DEF IInv, TypeOK
  <2>1. RunCommand \/ RecordCommand \/ RecordBlocker
    BY DEF Next, Daemon, Order, Poll, Refuse, Commit, Restart, Crash
  <2>2. CASE RunCommand
    BY <2>2, <2>a, ObeyedIsPermitted DEF RunCommand, PlaceInv
  <2>3. CASE RecordCommand \/ RecordBlocker
    BY <2>3, <2>a, EntrySteps
  <2> QED
    BY <2>1, <2>2, <2>3
<1>2. IInv /\ [Next]_vars
        => [fleet' # fleet \/ ledger' # ledger => at > cursor /\ Permitted(at)]_vars
  BY <1>1
<1> QED
  BY <1>2, ControlsInvariant, PTL DEF Spec, SettledOrdersRest
=============================================================================
