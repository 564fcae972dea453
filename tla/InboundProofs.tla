---------------------------- MODULE InboundProofs ----------------------------
(***************************************************************************)
(* What is proved of the daemon for every instance: its types and every    *)
(* safety property of Inbound.                                             *)
(*                                                                         *)
(* The daemon is not alone on the ledger: R is the set of rows it may      *)
(* hold.  The daemon's own are in it, and of the others it needs to know   *)
(* only that they are `ask` entries, which it never reads.  By itself the  *)
(* daemon has R = Entry; AskProofs has it share the ledger with askers.    *)
(***************************************************************************)
EXTENDS Inbound, Extrema, FiniteSetTheorems, TLAPS

Rows(R) == Entry \subseteq R /\ \A e \in R : e \in Entry \/ e.kind = "ask"

\* The types of the variables over such a ledger; TypeOK is Types(Entry).
Types(R) ==
    /\ ledger \in Seq(R)
    /\ inbox \in Seq(Traffic) /\ Len(inbox) <= MaxUpdates
    /\ confirmed \in Nat /\ offset \in Nat \ {0}
    /\ cur \in Nat \ {0} /\ last \in Nat
    /\ pc \in Stages
    /\ admitted \subseteq Admissible /\ storeOK \in BOOLEAN
    /\ prompts \in [Prompts -> PromptStates]
    /\ seen \subseteq Chats
    /\ handled \subseteq UpdateIds
    /\ runs \in [UpdateIds -> Nat]
    /\ heard \subseteq (Chats \cup {NoChat}) \X UpdateIds
    /\ guests \subseteq Admissible
    /\ crashes \in 0..MaxCrashes

Working == {"handling", "recorded", "answered", "draining"}

\* The recorded cursors have a greatest one, so LastSeen is one of them.
CursorInv == \E n \in Cursors(ledger) : \A k \in Cursors(ledger) : n >= k

\* Everything up to a recorded cursor, or up to what Telegram forgot, is done,
\* and a running daemon asks for exactly what comes after the last cursor.
CommitInv ==
    /\ \A n \in Cursors(ledger) : \A u \in 1..n : u \in handled
    /\ confirmed \in 0..LastSeen(ledger)
    /\ pc # "down" => offset = LastSeen(ledger) + 1

\* The batch in hand lies after the cursor, and its head is done.
BatchInv ==
    /\ pc \in Working \cup {"commit"} =>
          /\ offset <= cur /\ cur <= last /\ last <= Len(inbox)
          /\ \A u \in 1..(cur - 1) : u \in handled
    /\ pc = "commit" => cur = last /\ last \in handled
    /\ pc = "recorded" => inbox[cur].kind = "tap"

\* What is still ahead of this process was not dispatched by it.
RunsInv ==
    \A u \in UpdateIds :
        /\ runs[u] <= 1
        /\ pc = "polling" /\ u >= offset => runs[u] = 0
        /\ pc \in Working /\ u > cur => runs[u] = 0
        /\ pc \in {"handling", "answered"} /\ u = cur => runs[u] = 0
        /\ pc = "commit" /\ u > last => runs[u] = 0

IInv(R) == Types(R) /\ CursorInv /\ CommitInv /\ BatchInv /\ RunsInv

-----------------------------------------------------------------------------
\* The greater of two numbers is what Max of the pair returns.
LEMMA MaxOfTwo ==
    ASSUME NEW a \in Int, NEW b \in Int
    PROVE  Max({a, b}) = IF a >= b THEN a ELSE b
<1> DEFINE P(x) == x \in {a, b} /\ \A y \in {a, b} : x >= y
<1>1. \E x : P(x)
  <2>1. CASE a >= b
    BY <2>1
  <2>2. CASE ~(a >= b)
    BY <2>2
  <2> QED BY <2>1, <2>2
<1>2. P(CHOOSE x : P(x))
  BY <1>1
<1>3. Max({a, b}) \in {a, b} /\ \A y \in {a, b} : Max({a, b}) >= y
  BY <1>1 DEF Max
<1> QED BY <1>3

\* A recorded cursor is an update's id, or 0 when there is none.
LEMMA CursorsAreIds ==
    ASSUME NEW R, Rows(R), NEW l \in Seq(R)
    PROVE  Cursors(l) \subseteq 0..MaxUpdates
<1>1. ASSUME NEW i \in EntriesOf(l, "poll") PROVE l[i].last_update_id \in UpdateIds
  <2>1. l[i] \in R /\ l[i].kind = "poll"
    BY DEF EntriesOf
  <2>2. l[i] \in Entry
    BY <2>1 DEF Rows
  <2> QED BY <2>1, <2>2 DEF Entry, PollEntry, CallbackEntry, KnockEntry
<1> QED BY <1>1, BoundsAssumption DEF Cursors, UpdateIds

\* Appending a poll entry adds its cursor; any other entry adds none.
LEMMA CursorsOfAppend ==
    ASSUME NEW R, NEW l \in Seq(R), NEW e \in R
    PROVE  Cursors(Append(l, e))
             = Cursors(l) \cup (IF e.kind = "poll" THEN {e.last_update_id} ELSE {})
<1> DEFINE n == Append(l, e)
<1>1. /\ Len(n) = Len(l) + 1 /\ n[Len(l) + 1] = e
      /\ \A i \in 1..Len(l) : n[i] = l[i]
  OBVIOUS
<1>2. EntriesOf(n, "poll")
        = EntriesOf(l, "poll") \cup (IF e.kind = "poll" THEN {Len(l) + 1} ELSE {})
  BY <1>1 DEF EntriesOf
<1>3. \A i \in EntriesOf(l, "poll") : n[i] = l[i]
  BY <1>1 DEF EntriesOf
<1> HIDE DEF n
<1>4. Cursors(n) = Cursors(l) \cup (IF e.kind = "poll" THEN {e.last_update_id} ELSE {})
  BY <1>1, <1>2, <1>3 DEF Cursors
<1> QED BY <1>4 DEF n

\* LastSeen is a recorded cursor and the greatest one.
LEMMA LastSeenIsGreatest ==
    ASSUME NEW R, Rows(R), Types(R), CursorInv
    PROVE  /\ LastSeen(ledger) \in Cursors(ledger)
           /\ LastSeen(ledger) \in Nat
           /\ \A k \in Cursors(ledger) : LastSeen(ledger) >= k
<1>1. Cursors(ledger) \subseteq 0..MaxUpdates
  BY CursorsAreIds DEF Types
<1>2. LastSeen(ledger) \in Cursors(ledger) /\ \A k \in Cursors(ledger) : LastSeen(ledger) >= k
  BY DEF LastSeen, Max, CursorInv
<1> QED BY <1>1, <1>2, BoundsAssumption

\* The daemon writes entries of its kinds only, a cursor only to commit a batch.
LEMMA LedgerStep ==
    ASSUME NEW R, Rows(R), IInv(R), Next
    PROVE  \/ ledger' = ledger
           \/ \E e \in Entry : e.kind # "poll" /\ ledger' = Append(ledger, e)
           \/ /\ Commit /\ last \in UpdateIds
              /\ PollEntry(last) \in Entry /\ ledger' = Append(ledger, PollEntry(last))
<1>1. CASE World
  BY <1>1 DEF World, Send, Admit, Revoke, StoreBreaks, StoreHeals
<1>2. CASE Start \/ PollEmpty \/ PollBatch \/ SendReply \/ Crash
  BY <1>2 DEF Start, PollEmpty, PollBatch, SendReply, Crash
<1>3. CASE Commit
  <2>1. last \in UpdateIds
    BY <1>3, BoundsAssumption
       DEF Commit, IInv, Types, BatchInv, UpdateIds
  <2> QED BY <1>3, <2>1 DEF Commit, Record, Entry
<1>4. CASE DropUnknown
  <2>1. cur \in 1..Len(inbox)
    BY <1>4 DEF DropUnknown, IInv, BatchInv, Types, Working
  <2>2. inbox[cur] \in Update
    BY <2>1, TrafficAssumption DEF IInv, Types
  <2>3. inbox[cur].chat \in Chats \cup {NoChat}
    BY <2>2 DEF Update
  <2>4. CASE inbox[cur].chat = NoChat
    BY <1>4, <2>4 DEF DropUnknown
  <2>5. CASE inbox[cur].chat # NoChat
    <3>1. KnockEntry(inbox[cur].chat) \in Entry /\ KnockEntry(inbox[cur].chat).kind # "poll"
      BY <2>3, <2>5 DEF Entry, KnockEntry
    <3> QED BY <1>4, <2>5, <3>1 DEF DropUnknown, RecordKnock, Record
  <2> QED BY <2>4, <2>5
<1>5. CASE RecordDecision
  <2>1. cur \in 1..Len(inbox)
    BY <1>5 DEF RecordDecision, InHand, IInv, BatchInv, Types, Working
  <2>2. inbox[cur] \in Update /\ inbox[cur].kind = "tap"
    BY <1>5, <2>1, TrafficAssumption DEF IInv, Types, RecordDecision, InHand
  <2>3. inbox[cur].message \in Prompts /\ inbox[cur].decision \in Decisions
    BY <2>2 DEF Update
  <2>4. /\ CallbackEntry(inbox[cur].message, inbox[cur].decision) \in Entry
        /\ CallbackEntry(inbox[cur].message, inbox[cur].decision).kind # "poll"
    BY <2>3 DEF Entry, CallbackEntry
  <2> QED BY <1>5, <2>4 DEF RecordDecision, Record
<1>6. CASE HandleUpdate /\ ~DropUnknown /\ ~RecordDecision
  BY <1>6 DEF HandleUpdate, AuthorizeRaises, DropForeignDecision, AcknowledgeDecision,
     AnswerTap, DropUnroutedTap, Dispatch, IgnoreUpdate, DrainEnds, HandlerFails
<1> QED BY <1>1, <1>2, <1>3, <1>4, <1>5, <1>6 DEF Next, Daemon

\* How a step moves the cursors: only Commit adds one, and it is the last.
LEMMA CursorStep ==
    ASSUME NEW R, Rows(R), IInv(R), Next
    PROVE  \/ Cursors(ledger') = Cursors(ledger) /\ ledger' \in Seq(R)
           \/ /\ Commit /\ last \in UpdateIds /\ ledger' \in Seq(R)
              /\ Cursors(ledger') = Cursors(ledger) \cup {last}
<1>0. ledger \in Seq(R) /\ Entry \subseteq R
  BY DEF IInv, Types, Rows
<1>1. CASE ledger' = ledger
  BY <1>0, <1>1
<1>2. CASE \E e \in Entry : e.kind # "poll" /\ ledger' = Append(ledger, e)
  <2>1. PICK e \in Entry : e.kind # "poll" /\ ledger' = Append(ledger, e)
    BY <1>2
  <2>2. e \in R
    BY <1>0
  <2>3. Cursors(Append(ledger, e))
          = Cursors(ledger) \cup (IF e.kind = "poll" THEN {e.last_update_id} ELSE {})
    BY <1>0, <2>2, CursorsOfAppend
  <2> QED BY <1>0, <2>1, <2>2, <2>3
<1>3. CASE /\ Commit /\ last \in UpdateIds
           /\ PollEntry(last) \in Entry /\ ledger' = Append(ledger, PollEntry(last))
  <2>1. PollEntry(last).kind = "poll" /\ PollEntry(last).last_update_id = last
    BY DEF PollEntry
  <2>2. Cursors(ledger') = Cursors(ledger) \cup {last}
    BY <1>0, <1>3, <2>1, CursorsOfAppend
  <2> QED BY <1>0, <1>3, <2>2
<1> QED BY <1>1, <1>2, <1>3, LedgerStep

\* What the batch invariant says of the update in hand.
LEMMA HandInRange ==
    ASSUME NEW R, Rows(R), IInv(R), pc \in Working \cup {"commit"}
    PROVE  /\ cur \in UpdateIds /\ cur \in 1..Len(inbox)
           /\ last \in UpdateIds /\ last <= Len(inbox)
           /\ inbox[cur] \in Update
<1>1. /\ cur \in Nat \ {0} /\ last \in Nat /\ offset \in Nat \ {0}
      /\ inbox \in Seq(Traffic) /\ Len(inbox) \in Nat /\ Len(inbox) <= MaxUpdates
      /\ cur <= last /\ last <= Len(inbox)
  BY DEF IInv, Types, BatchInv
<1>2. inbox[cur] \in Traffic
  BY <1>1
<1> QED BY <1>1, <1>2, BoundsAssumption, TrafficAssumption DEF UpdateIds

\* An entry about a chat names a chat.
LEMMA KnocksAreChats ==
    ASSUME NEW R, Rows(R), NEW l \in Seq(R)
    PROVE  Knocks(l) \subseteq Chats
<1>1. ASSUME NEW i \in EntriesOf(l, "unknown_chat") PROVE l[i].chat_id \in Chats
  <2>1. l[i] \in R /\ l[i].kind = "unknown_chat"
    BY DEF EntriesOf
  <2>2. l[i] \in Entry
    BY <2>1 DEF Rows
  <2> QED BY <2>1, <2>2 DEF Entry, PollEntry, CallbackEntry, KnockEntry
<1> QED BY <1>1 DEF Knocks

\* Finishing an update keeps the types.
LEMMA FinishTypes ==
    ASSUME NEW R, Rows(R), IInv(R), pc \in Working, FinishUpdate
    PROVE  /\ handled' \subseteq UpdateIds /\ pc' \in Stages
           /\ cur' \in Nat \ {0} /\ last' \in Nat /\ offset' \in Nat \ {0}
           /\ guests' \subseteq Admissible
<1>1. cur \in UpdateIds /\ last \in UpdateIds
  BY HandInRange
<1> QED BY <1>1 DEF FinishUpdate, TakeUp, IInv, Types, Stages, UpdateIds

\* Every action keeps the types.
LEMMA TypeStep ==
    ASSUME NEW R, Rows(R), IInv(R), [Next]_vars PROVE Types(R)'
<1> USE DEF vars, daemonVars, history, world
<1>1. CASE UNCHANGED vars
  BY <1>1 DEF IInv, Types
<1>2. ASSUME Next PROVE ledger' \in Seq(R)
  BY <1>2, CursorStep
<1>3. CASE World
  <2>1. ASSUME NEW u \in Traffic, Send(u) PROVE Types(R)'
    <3>1. inbox' \in Seq(Traffic) /\ Len(inbox') = Len(inbox) + 1
      BY <2>1 DEF Send, IInv, Types
    <3>2. Len(inbox) \in Nat /\ Len(inbox) < MaxUpdates
      BY <2>1 DEF Send, IInv, Types
    <3>3. Len(inbox') <= MaxUpdates
      BY <3>1, <3>2, BoundsAssumption
    <3> QED BY <2>1, <3>1, <3>3 DEF Send, IInv, Types
  <2>2. ASSUME NEW c \in Admissible, Admit(c) \/ Revoke(c) PROVE Types(R)'
    BY <2>2 DEF Admit, Revoke, IInv, Types
  <2>3. CASE StoreBreaks \/ StoreHeals
    BY <2>3 DEF StoreBreaks, StoreHeals, IInv, Types
  <2> QED BY <1>3, <2>1, <2>2, <2>3 DEF World
<1>4. CASE Start
  <2>1. Knocks(ledger) \subseteq Chats
    BY KnocksAreChats DEF IInv, Types
  <2>2. LastSeen(ledger) \in Nat
    BY LastSeenIsGreatest DEF IInv
  <2> QED BY <1>4, <2>1, <2>2 DEF Start, LoadSeen, IInv, Types, Stages
<1>5. CASE PollEmpty
  <2>1. Max({confirmed, offset - 1}) \in Nat
    BY MaxOfTwo DEF IInv, Types
  <2> QED BY <1>5, <2>1 DEF PollEmpty, IInv, Types
<1>6. CASE PollBatch
  <2>1. confirmed \in Nat /\ offset - 1 \in Nat /\ confirmed + 1 \in Nat \ {0} /\ offset \in Nat
    BY DEF IInv, Types
  <2>2. Max({confirmed, offset - 1}) \in Nat /\ Max({confirmed + 1, offset}) \in Nat \ {0}
    <3>1. Max({confirmed, offset - 1}) \in Nat
      BY <2>1, MaxOfTwo
    <3>2. /\ Max({confirmed + 1, offset}) \in Nat
          /\ Max({confirmed + 1, offset}) >= confirmed + 1
      BY <2>1, MaxOfTwo
    <3> QED BY <2>1, <3>1, <3>2
  <2>3. last' \in Nat
    BY <1>6, <2>2 DEF PollBatch, IInv, Types
  <2> QED BY <1>6, <2>2, <2>3 DEF PollBatch, TakeUp, IInv, Types, Stages
<1>7. CASE Commit
  <2>1. ledger' \in Seq(R)
    BY <1>2, <1>7 DEF Next, Daemon
  <2> QED BY <1>7, <2>1 DEF Commit, IInv, Types, Stages
<1>8. CASE Crash
  BY <1>8, BoundsAssumption DEF Crash, IInv, Types, Stages
<1>9. ASSUME pc \in Working PROVE Deliver \subseteq SUBSET ((Chats \cup {NoChat}) \X UpdateIds)
  <2>1. inbox[cur].chat \in Chats \cup {NoChat} /\ cur \in UpdateIds
    BY <1>9, HandInRange DEF Update, Working
  <2> QED BY <2>1 DEF Deliver, IInv, Types
<1>10. CASE SendReply
  BY <1>9, <1>10 DEF SendReply, Working, IInv, Types
<1>11. CASE HandleUpdate
  <2>1. ledger' \in Seq(R)
    BY <1>2, <1>11 DEF Next, Daemon
  <2>2. CASE AuthorizeRaises
    BY <2>2 DEF AuthorizeRaises, IInv, Types, Stages
  <2>3. CASE DropUnknown
    <3>1. inbox[cur].chat \in Chats \cup {NoChat}
      BY <2>3, HandInRange DEF DropUnknown, Update, Working
    <3>2. seen' \subseteq Chats
      BY <2>3, <3>1 DEF DropUnknown, RecordKnock, IInv, Types
    <3> QED BY <2>1, <2>3, <3>2, FinishTypes DEF DropUnknown, Working, IInv, Types
  <2>4. CASE DropForeignDecision \/ IgnoreUpdate
    BY <2>4, FinishTypes DEF DropForeignDecision, IgnoreUpdate, InHand, Working, IInv, Types
  <2>5. CASE RecordDecision
    BY <2>1, <2>5 DEF RecordDecision, InHand, IInv, Types, Stages
  <2>6. CASE AcknowledgeDecision
    <3>1. inbox[cur] \in Update /\ inbox[cur].kind = "tap"
      BY <2>6, HandInRange DEF AcknowledgeDecision, Working, IInv, BatchInv
    <3>2. inbox[cur].message \in Prompts /\ inbox[cur].decision \in Decisions
      BY <3>1 DEF Update
    <3>3. prompts' \in [Prompts -> PromptStates]
      BY <2>6, <3>2 DEF AcknowledgeDecision, IInv, Types, PromptStates
    <3> QED BY <2>6, <3>3, FinishTypes DEF AcknowledgeDecision, Working, IInv, Types
  <2>7. CASE AnswerTap
    BY <2>7 DEF AnswerTap, InHand, IInv, Types, Stages
  <2>8. CASE Dispatch
    <3>1. cur \in UpdateIds
      BY <2>8, HandInRange DEF Dispatch, InHand, Working
    <3> QED BY <2>8, <3>1 DEF Dispatch, IInv, Types, Stages
  <2>9. CASE DropUnroutedTap \/ DrainEnds
    BY <2>9, FinishTypes DEF DropUnroutedTap, DrainEnds, Working, IInv, Types
  <2>10. CASE HandlerFails
    BY <1>9, <2>10, FinishTypes DEF HandlerFails, Working, IInv, Types
  <2> QED BY <1>11, <2>2, <2>3, <2>4, <2>5, <2>6, <2>7, <2>8, <2>9, <2>10 DEF HandleUpdate
<1> QED BY <1>1, <1>3, <1>4, <1>5, <1>6, <1>7, <1>8, <1>10, <1>11 DEF Next, Daemon

\* The greatest cursor after a step: unchanged, or the end of the batch.
LEMMA GreatestStep ==
    ASSUME NEW R, Rows(R), IInv(R), Next
    PROVE  /\ CursorInv'
           /\ \/ ~Commit /\ LastSeen(ledger') = LastSeen(ledger)
              \/ Commit /\ LastSeen(ledger') = last /\ last > LastSeen(ledger)
<1> DEFINE g == LastSeen(ledger)
<1>1. /\ g \in Cursors(ledger) /\ g \in Nat /\ \A k \in Cursors(ledger) : g >= k
      /\ Cursors(ledger) \subseteq Nat
  BY LastSeenIsGreatest, CursorsAreIds DEF IInv, Types
<1>2. CASE ~Commit
  <2>1. Cursors(ledger') = Cursors(ledger)
    BY <1>2, CursorStep
  <2> QED BY <1>1, <1>2, <2>1 DEF CursorInv, LastSeen
<1>3. CASE Commit
  <2>1. last >= offset /\ offset = g + 1 /\ last \in Nat
    BY <1>3 DEF Commit, IInv, Types, BatchInv, CommitInv
  <2>2. last > g /\ \A k \in Cursors(ledger) : last >= k
    BY <1>1, <2>1
  <2>3. Cursors(ledger') = Cursors(ledger) \cup {last}
    <3>1. CASE Cursors(ledger') = Cursors(ledger)
      <4>1. ledger' = Append(ledger, PollEntry(last))
        BY <1>3 DEF Commit, Record
      <4>2. last \in UpdateIds
        BY <1>3, HandInRange DEF Commit
      <4>3. PollEntry(last) \in R /\ ledger \in Seq(R)
        BY <4>2 DEF Entry, Rows, IInv, Types
      <4> QED BY <4>1, <4>3, CursorsOfAppend DEF PollEntry
    <3> QED BY <3>1, CursorStep
  <2>4. \A x : x \in Cursors(ledger') /\ (\A k \in Cursors(ledger') : x >= k) => x = last
    BY <1>1, <2>1, <2>2, <2>3
  <2>5. last \in Cursors(ledger') /\ \A k \in Cursors(ledger') : last >= k
    BY <1>1, <2>1, <2>2, <2>3
  <2>6. LastSeen(ledger') \in Cursors(ledger')
        /\ \A k \in Cursors(ledger') : LastSeen(ledger') >= k
    BY <2>5 DEF LastSeen, Max
  <2> QED BY <1>3, <2>2, <2>4, <2>5, <2>6 DEF CursorInv
<1> QED BY <1>2, <1>3

\* While the daemon is up, getUpdates returns what follows the recorded cursor.
LEMMA FirstOfBatch ==
    ASSUME NEW R, Rows(R), IInv(R), pc # "down"
    PROVE  /\ Max({confirmed + 1, offset}) = offset
           /\ Max({confirmed, offset - 1}) = LastSeen(ledger)
           /\ LastSeen(ledger) \in Nat /\ offset = LastSeen(ledger) + 1
<1>1. /\ confirmed \in Nat /\ offset \in Nat \ {0} /\ offset = LastSeen(ledger) + 1
      /\ LastSeen(ledger) \in Nat /\ confirmed <= LastSeen(ledger)
  BY LastSeenIsGreatest DEF IInv, Types, CommitInv
<1> QED BY <1>1, MaxOfTwo

\* A batch is committed, or forgotten by Telegram, only when it is done.
LEMMA CommitStep ==
    ASSUME NEW R, Rows(R), IInv(R), [Next]_vars PROVE CommitInv'
<1> USE DEF vars, daemonVars, history, world
<1>1. CASE UNCHANGED vars
  BY <1>1 DEF IInv, CommitInv
<1>2. CASE Next
  <2>1. handled \subseteq handled'
    BY <1>2 DEF Next, World, Send, Admit, Revoke, StoreBreaks, StoreHeals, Daemon, Start,
       PollEmpty, PollBatch, SendReply, Commit, Crash, HandleUpdate, AuthorizeRaises,
       DropUnknown, DropForeignDecision, RecordDecision, AcknowledgeDecision, AnswerTap,
       DropUnroutedTap, Dispatch, IgnoreUpdate, DrainEnds, HandlerFails, FinishUpdate
  <2>2. LastSeen(ledger) \in Nat
    BY LastSeenIsGreatest DEF IInv
  <2>3. CASE Commit
    <3>1. \A u \in 1..last : u \in handled
      BY <2>3 DEF Commit, IInv, BatchInv, Types
    <3>2. Cursors(ledger') = Cursors(ledger) \cup {last} \/ Cursors(ledger') = Cursors(ledger)
      BY <1>2, CursorStep
    <3>3. LastSeen(ledger') = last /\ last > LastSeen(ledger)
      BY <1>2, <2>3, GreatestStep
    <3>4. confirmed' = confirmed /\ offset' = last + 1 /\ handled' = handled
      BY <2>3 DEF Commit
    <3>5. confirmed \in 0..LastSeen(ledger) /\ last \in Nat
      BY DEF IInv, CommitInv, Types
    <3>6. confirmed \in 0..last
      BY <2>2, <3>3, <3>5
    <3> QED BY <3>1, <3>2, <3>3, <3>4, <3>6 DEF IInv, CommitInv
  <2>4. CASE ~Commit
    <3>1. Cursors(ledger') = Cursors(ledger) /\ LastSeen(ledger') = LastSeen(ledger)
      BY <1>2, <2>4, CursorStep, GreatestStep
    <3>2. \A n \in Cursors(ledger') : \A u \in 1..n : u \in handled'
      BY <2>1, <3>1 DEF IInv, CommitInv
    <3>3. confirmed' \in 0..LastSeen(ledger)
      <4>1. CASE PollEmpty \/ PollBatch
        <5>1. Max({confirmed, offset - 1}) = LastSeen(ledger)
          BY <4>1, FirstOfBatch DEF PollEmpty, PollBatch
        <5> QED BY <2>2, <4>1, <5>1 DEF PollEmpty, PollBatch, IInv, CommitInv
      <4>2. CASE ~(PollEmpty \/ PollBatch)
        <5>1. confirmed' = confirmed
          BY <1>2, <2>4, <4>2 DEF Next, World, Send, Admit, Revoke, StoreBreaks, StoreHeals,
             Daemon, Start, SendReply, Crash, HandleUpdate, AuthorizeRaises, DropUnknown,
             DropForeignDecision, RecordDecision, AcknowledgeDecision, AnswerTap,
             DropUnroutedTap, Dispatch, IgnoreUpdate, DrainEnds, HandlerFails
        <5> QED BY <5>1 DEF IInv, CommitInv
      <4> QED BY <4>1, <4>2
    <3>4. pc' # "down" => offset' = LastSeen(ledger) + 1
      <4>1. CASE Start
        BY <4>1 DEF Start
      <4>2. CASE ~Start
        <5>1. offset' = offset /\ (pc' # "down" => pc # "down")
          BY <1>2, <2>4, <4>2 DEF Next, World, Send, Admit, Revoke, StoreBreaks, StoreHeals,
             Daemon, PollEmpty, PollBatch, SendReply, Crash, HandleUpdate, AuthorizeRaises,
             DropUnknown, DropForeignDecision, RecordDecision, AcknowledgeDecision, AnswerTap,
             DropUnroutedTap, Dispatch, IgnoreUpdate, DrainEnds, HandlerFails, FinishUpdate,
             InHand
        <5> QED BY <5>1 DEF IInv, CommitInv
      <4> QED BY <4>1, <4>2
    <3> QED BY <3>1, <3>2, <3>3, <3>4 DEF CommitInv
  <2> QED BY <2>3, <2>4
<1> QED BY <1>1, <1>2

\* Finishing an update extends the finished head of the batch by that update.
LEMMA FinishBatch ==
    ASSUME NEW R, Rows(R), IInv(R), pc \in Working, FinishUpdate, inbox' = inbox
    PROVE  BatchInv'
<1>1. /\ cur \in Nat \ {0} /\ last \in Nat /\ offset \in Nat
      /\ offset <= cur /\ cur <= last /\ last <= Len(inbox)
      /\ \A u \in 1..(cur - 1) : u \in handled
  BY DEF IInv, Types, BatchInv
<1>2. \A u \in 1..cur : u \in handled'
  BY <1>1 DEF FinishUpdate
<1>3. /\ offset' = offset /\ last' = last
      /\ \/ cur < last /\ cur' = cur + 1 /\ pc' = "handling"
         \/ ~(cur < last) /\ cur' = cur /\ pc' = "commit"
  BY DEF FinishUpdate
<1>4. CASE cur < last /\ cur' = cur + 1 /\ pc' = "handling"
  <2>1. \A u \in 1..(cur' - 1) : u \in handled'
    BY <1>1, <1>2, <1>4
  <2> QED BY <1>1, <1>3, <1>4, <2>1 DEF BatchInv, Working
<1>5. CASE ~(cur < last) /\ cur' = cur /\ pc' = "commit"
  <2>1. cur = last /\ last \in handled'
    BY <1>1, <1>2, <1>5
  <2> QED BY <1>1, <1>2, <1>3, <1>5, <2>1 DEF BatchInv, Working
<1> QED BY <1>3, <1>4, <1>5

\* Every action keeps the batch invariant.
LEMMA BatchStep ==
    ASSUME NEW R, Rows(R), IInv(R), [Next]_vars PROVE BatchInv'
<1> USE DEF vars, daemonVars, history, world
<1>1. CASE UNCHANGED vars
  BY <1>1 DEF IInv, BatchInv
<1>2. CASE World
  <2>1. ASSUME NEW u \in Traffic, Send(u) PROVE BatchInv'
    <3>1. inbox' = Append(inbox, u) /\ inbox \in Seq(Traffic) /\ u \in Traffic
      BY <2>1 DEF Send, IInv, Types
    <3>2. /\ Len(inbox') = Len(inbox) + 1 /\ Len(inbox) \in Nat
          /\ \A i \in 1..Len(inbox) : inbox'[i] = inbox[i]
      BY <3>1
    <3>3. pc \in Working \cup {"commit"} => cur \in 1..Len(inbox)
      BY HandInRange
    <3>4. last \in Nat /\ cur \in Nat
      BY DEF IInv, Types
    <3> QED BY <2>1, <3>2, <3>3, <3>4 DEF Send, IInv, BatchInv, Working
  <2>2. CASE \/ \E c \in Admissible : Admit(c) \/ Revoke(c)
             \/ StoreBreaks \/ StoreHeals
    BY <2>2 DEF Admit, Revoke, StoreBreaks, StoreHeals, IInv, BatchInv
  <2> QED BY <1>2, <2>1, <2>2 DEF World
<1>3. CASE Start \/ PollEmpty \/ Commit \/ Crash \/ AuthorizeRaises
  BY <1>3 DEF Start, PollEmpty, Commit, Crash, AuthorizeRaises, IInv, BatchInv, Working
<1>4. CASE PollBatch
  <2>1. cur' = offset /\ last' \in offset..Len(inbox) /\ pc' = "handling"
        /\ offset' = offset /\ inbox' = inbox /\ handled' = handled
    BY <1>4, FirstOfBatch DEF PollBatch
  <2>2. \A u \in 1..(offset - 1) : u \in handled
    BY <1>4, FirstOfBatch, LastSeenIsGreatest DEF PollBatch, IInv, CommitInv
  <2>3. Len(inbox) \in Nat /\ offset \in Nat
    BY DEF IInv, Types
  <2> QED BY <2>1, <2>2, <2>3 DEF BatchInv, Working
<1>5. CASE SendReply \/ RecordDecision \/ AnswerTap \/ Dispatch
  BY <1>5 DEF SendReply, RecordDecision, AnswerTap, Dispatch, InHand, IInv, BatchInv, Working
<1>6. CASE \/ DropUnknown \/ DropForeignDecision \/ AcknowledgeDecision
           \/ DropUnroutedTap \/ IgnoreUpdate \/ DrainEnds \/ HandlerFails
  <2>1. pc \in Working /\ FinishUpdate /\ inbox' = inbox
    BY <1>6 DEF DropUnknown, DropForeignDecision, AcknowledgeDecision, DropUnroutedTap,
       IgnoreUpdate, DrainEnds, HandlerFails, InHand, Working
  <2> QED BY <2>1, FinishBatch
<1> QED BY <1>1, <1>2, <1>3, <1>4, <1>5, <1>6 DEF Next, Daemon, HandleUpdate

\* Every action keeps the count of dispatches in order.
LEMMA RunsStep ==
    ASSUME NEW R, Rows(R), IInv(R), [Next]_vars PROVE RunsInv'
<1> USE DEF vars, daemonVars, history, world
<1>0. /\ runs \in [UpdateIds -> Nat] /\ RunsInv
      /\ offset \in Nat /\ cur \in Nat /\ last \in Nat /\ UpdateIds \subseteq Nat
  BY BoundsAssumption DEF IInv, Types, UpdateIds
<1>1. CASE UNCHANGED vars
  BY <1>1 DEF IInv, RunsInv
<1>2. CASE World
  BY <1>2 DEF World, Send, Admit, Revoke, StoreBreaks, StoreHeals, IInv, RunsInv
<1>3. CASE Start
  BY <1>3 DEF Start, RunsInv, Working
<1>4. CASE PollEmpty \/ Crash \/ AuthorizeRaises
  BY <1>0, <1>4 DEF PollEmpty, Crash, AuthorizeRaises, RunsInv, Working
<1>5. CASE PollBatch
  <2>1. cur' = offset
    BY <1>5, FirstOfBatch DEF PollBatch
  <2> QED BY <1>0, <1>5, <2>1 DEF PollBatch, RunsInv, Working
<1>6. CASE Commit
  BY <1>0, <1>6 DEF Commit, RunsInv, Working
<1>7. CASE SendReply \/ RecordDecision \/ AnswerTap
  BY <1>0, <1>7 DEF SendReply, RecordDecision, AnswerTap, InHand, RunsInv, Working
<1>8. CASE Dispatch
  <2>1. pc \in {"handling", "answered"} /\ pc' = "draining"
    BY <1>8 DEF Dispatch, InHand
  <2>2. cur \in UpdateIds
    BY <2>1, HandInRange DEF Working
  <2>3. runs[cur] = 0
    BY <1>0, <2>1, <2>2 DEF RunsInv
  <2>4. /\ runs'[cur] = 1
        /\ \A u \in UpdateIds : u # cur => runs'[u] = runs[u]
    BY <1>0, <1>8, <2>2, <2>3 DEF Dispatch
  <2> QED BY <1>0, <1>8, <2>1, <2>4 DEF Dispatch, RunsInv, Working
<1>9. CASE \/ DropUnknown \/ DropForeignDecision \/ AcknowledgeDecision
           \/ DropUnroutedTap \/ IgnoreUpdate \/ DrainEnds \/ HandlerFails
  <2>1. pc \in Working /\ FinishUpdate /\ runs' = runs
    BY <1>9 DEF DropUnknown, DropForeignDecision, AcknowledgeDecision, DropUnroutedTap,
       IgnoreUpdate, DrainEnds, HandlerFails, InHand, Working
  <2>2. cur <= last
    BY <2>1 DEF IInv, BatchInv
  <2>3. \/ cur' = cur + 1 /\ pc' = "handling"
        \/ last = cur /\ cur' = cur /\ pc' = "commit" /\ last' = last
    BY <1>0, <2>1, <2>2 DEF FinishUpdate
  <2> QED BY <1>0, <2>1, <2>3 DEF RunsInv, Working
<1> QED BY <1>1, <1>2, <1>3, <1>4, <1>5, <1>6, <1>7, <1>8, <1>9 DEF Next, Daemon, HandleUpdate

-----------------------------------------------------------------------------
(* What the ledger says of taps and knocks, and who is answered. *)

\* Only updates that were sent are handled; a reply and a decision are on their way
\* only for somebody who may have one.
HandInv ==
    /\ handled \subseteq 1..Len(inbox)
    /\ admitted \subseteq guests
    /\ pc \in {"answered", "draining"} =>
          inbox[cur].chat \in {Operator} \cup guests /\ inbox[cur].kind # "tap"
    /\ pc = "recorded" =>
          inbox[cur].chat = Operator /\ CallbacksFor(ledger, inbox[cur].message) # {}

\* Each tap of the operator that was handled left a decision on its prompt.
OperatorsTap(u, m) ==
    inbox[u].kind = "tap" /\ inbox[u].chat = Operator /\ inbox[u].message = m
TapInv ==
    /\ \A u \in handled : \A m : OperatorsTap(u, m) => CallbacksFor(ledger, m) # {}
    /\ FirstTapDecides

\* The set in memory is what the ledger's rows name, one row for each chat.
KnockInv ==
    /\ seen = Knocks(ledger) /\ IsFiniteSet(seen)
    /\ Cardinality(EntriesOf(ledger, "unknown_chat")) = Cardinality(seen)
    /\ Cardinality(seen) <= Cap

Kept == HandInv /\ TapInv /\ KnockInv /\ KnockNotLost

\* What one more row is to a reader of the rows of one kind.
LEMMA RowAppended ==
    ASSUME NEW R, NEW l \in Seq(R), NEW e \in R, NEW kind
    PROVE  /\ Len(l) \in Nat /\ Append(l, e)[Len(l) + 1] = e
           /\ \A i \in 1..Len(l) : Append(l, e)[i] = l[i]
           /\ EntriesOf(l, kind) \subseteq 1..Len(l)
           /\ EntriesOf(Append(l, e), kind) =
                 EntriesOf(l, kind) \cup (IF e.kind = kind THEN {Len(l) + 1} ELSE {})
<1>1. /\ Len(l) \in Nat /\ Len(Append(l, e)) = Len(l) + 1
      /\ Append(l, e)[Len(l) + 1] = e
      /\ \A i \in 1..Len(l) : Append(l, e)[i] = l[i]
  OBVIOUS
<1>2. 1..Len(Append(l, e)) = 1..Len(l) \cup {Len(l) + 1}
  BY <1>1
<1> QED BY <1>1, <1>2 DEF EntriesOf

\* A later row changes no decision that was taken; the first one on a prompt is its
\* decision, and rows about anything else are none.
LEMMA DecisionAppended ==
    ASSUME NEW R, NEW l \in Seq(R), NEW e \in R, NEW m
    PROVE  /\ CallbacksFor(l, m) \subseteq CallbacksFor(Append(l, e), m)
           /\ CallbacksFor(l, m) # {} =>
                 FirstDecision(Append(l, e), m) = FirstDecision(l, m)
           /\ ~(e.kind = "callback" /\ e.message_id = m) =>
                 CallbacksFor(Append(l, e), m) = CallbacksFor(l, m)
           /\ e.kind = "callback" /\ e.message_id = m =>
                 /\ CallbacksFor(Append(l, e), m) # {}
                 /\ CallbacksFor(l, m) = {} => FirstDecision(Append(l, e), m) = e.decision
<1> DEFINE C == CallbacksFor(l, m)
           D == CallbacksFor(Append(l, e), m)
           isNew == e.kind = "callback" /\ e.message_id = m
<1>1. /\ Len(l) \in Nat /\ Append(l, e)[Len(l) + 1] = e
      /\ \A i \in 1..Len(l) : Append(l, e)[i] = l[i]
      /\ EntriesOf(l, "callback") \subseteq 1..Len(l)
      /\ EntriesOf(Append(l, e), "callback") =
            EntriesOf(l, "callback") \cup (IF e.kind = "callback" THEN {Len(l) + 1} ELSE {})
  BY RowAppended
<1>2. C \subseteq 1..Len(l) /\ C \subseteq Nat
  BY <1>1 DEF CallbacksFor
<1>3. D = C \cup (IF isNew THEN {Len(l) + 1} ELSE {})
  BY <1>1 DEF CallbacksFor
<1>4. ASSUME C # {} PROVE FirstDecision(Append(l, e), m) = FirstDecision(l, m)
  <2>1. PICK i \in C : \A j \in C : i <= j
    BY <1>2, <1>4, LeastExists
  <2>2. i \in D /\ \A j \in D : i <= j
    BY <1>1, <1>2, <1>3, <2>1
  <2>3. \A k \in D : (\A j \in D : k <= j) => k = i
    BY <1>1, <1>2, <1>3, <2>1, <2>2
  <2>4. \A k \in C : (\A j \in C : k <= j) => k = i
    BY <1>2, <2>1
  <2> HIDE DEF C, D
  <2>5. (CHOOSE k \in D : \A j \in D : k <= j) = i
    BY <2>2, <2>3
  <2>6. (CHOOSE k \in C : \A j \in C : k <= j) = i
    BY <2>1, <2>4
  <2>7. Append(l, e)[i] = l[i] /\ D # {}
    BY <1>1, <1>2, <2>1, <2>2
  <2>8. FirstDecision(Append(l, e), m) = Append(l, e)[i].decision
    BY <2>5, <2>7 DEF FirstDecision, D
  <2>9. FirstDecision(l, m) = l[i].decision
    BY <1>4, <2>6 DEF FirstDecision, C
  <2> QED BY <2>7, <2>8, <2>9
<1>5. ASSUME isNew, C = {} PROVE FirstDecision(Append(l, e), m) = e.decision
  <2>1. D = {Len(l) + 1}
    BY <1>3, <1>5
  <2> HIDE DEF D
  <2>2. (CHOOSE k \in D : \A j \in D : k <= j) = Len(l) + 1
    BY <1>1, <2>1
  <2> QED BY <1>1, <2>1, <2>2 DEF FirstDecision, D
<1> QED BY <1>3, <1>4, <1>5

\* Telegram's queue only grows, and a step handles at most the update in hand.
LEMMA QueueStep ==
    ASSUME NEW R, Rows(R), IInv(R), [Next]_vars
    PROVE  /\ Len(inbox) \in Nat /\ Len(inbox') \in Nat /\ Len(inbox) <= Len(inbox')
           /\ \A u \in 1..Len(inbox) : inbox'[u] = inbox[u]
           /\ \/ handled' = handled
              \/ handled' = handled \cup {cur} /\ cur \in 1..Len(inbox) /\ UNCHANGED inbox
           /\ inbox' = inbox \/ \E u \in Traffic : Send(u)
<1> USE DEF vars, daemonVars, history, world
<1>1. Len(inbox) \in Nat /\ inbox \in Seq(Traffic)
  BY DEF IInv, Types
<1>2. CASE \E u \in Traffic : Send(u)
  <2>1. PICK u \in Traffic : Send(u)
    BY <1>2
  <2>2. inbox' = Append(inbox, u) /\ handled' = handled
    BY <2>1 DEF Send
  <2> QED BY <1>1, <1>2, <2>2
<1>3. CASE ~(\E u \in Traffic : Send(u))
  <2>1. inbox' = inbox
    BY <1>3 DEF Next, World, Admit, Revoke, StoreBreaks, StoreHeals, Daemon, Start,
       PollEmpty, PollBatch, SendReply, Commit, Crash, HandleUpdate, AuthorizeRaises,
       DropUnknown, DropForeignDecision, RecordDecision, AcknowledgeDecision, AnswerTap,
       DropUnroutedTap, Dispatch, IgnoreUpdate, DrainEnds, HandlerFails
  <2>2. handled' = handled \/ (handled' = handled \cup {cur} /\ pc \in Working)
    BY <1>3 DEF Next, World, Admit, Revoke, StoreBreaks, StoreHeals, Daemon, Start,
       PollEmpty, PollBatch, SendReply, Commit, Crash, HandleUpdate, AuthorizeRaises,
       DropUnknown, DropForeignDecision, RecordDecision, AcknowledgeDecision, AnswerTap,
       DropUnroutedTap, Dispatch, IgnoreUpdate, DrainEnds, HandlerFails, FinishUpdate,
       InHand, Working
  <2>3. pc \in Working => cur \in 1..Len(inbox)
    BY HandInRange
  <2> QED BY <1>1, <2>1, <2>2, <2>3
<1> QED BY <1>2, <1>3

\* The rows a step may write: a cursor, a decision, a knock, each by its own action.
LEMMA RowStep ==
    ASSUME NEW R, Rows(R), IInv(R), [Next]_vars
    PROVE  \/ ledger' = ledger /\ seen' \in {seen, Knocks(ledger)}
           \/ /\ Commit /\ PollEntry(last) \in R /\ seen' = seen
              /\ ledger' = Append(ledger, PollEntry(last))
           \/ /\ RecordDecision /\ seen' = seen
              /\ CallbackEntry(inbox[cur].message, inbox[cur].decision) \in R
              /\ ledger' = Append(ledger, CallbackEntry(inbox[cur].message,
                                                        inbox[cur].decision))
           \/ /\ DropUnknown /\ inbox[cur].chat \notin seen /\ ~(Cardinality(seen) >= Cap)
              /\ KnockEntry(inbox[cur].chat) \in R
              /\ seen' = seen \cup {inbox[cur].chat}
              /\ ledger' = Append(ledger, KnockEntry(inbox[cur].chat))
<1> USE DEF vars, daemonVars, history, world
<1>0. Entry \subseteq R
  BY DEF Rows
<1>1. CASE Commit
  <2>1. last \in UpdateIds
    BY <1>1, HandInRange DEF Commit
  <2>2. PollEntry(last) \in R
    BY <1>0, <2>1 DEF Entry
  <2> QED BY <1>1, <2>2 DEF Commit, Record
<1>2. CASE RecordDecision
  <2>1. inbox[cur] \in Update /\ inbox[cur].kind = "tap"
    BY <1>2, HandInRange DEF RecordDecision, InHand, Working
  <2>2. inbox[cur].message \in Prompts /\ inbox[cur].decision \in Decisions
    BY <2>1 DEF Update
  <2>3. CallbackEntry(inbox[cur].message, inbox[cur].decision) \in R
    BY <1>0, <2>2 DEF Entry
  <2> QED BY <1>2, <2>3 DEF RecordDecision, Record
<1>3. CASE DropUnknown
  <2>1. inbox[cur] \in Update
    BY <1>3, HandInRange DEF DropUnknown, Working
  <2>2. inbox[cur].chat \in Chats \cup {NoChat}
    BY <2>1 DEF Update
  <2>3. CASE UNCHANGED <<ledger, seen>>
    BY <2>3
  <2>4. CASE ~UNCHANGED <<ledger, seen>>
    <3>1. inbox[cur].chat # NoChat /\ RecordKnock(inbox[cur].chat)
      BY <1>3, <2>4 DEF DropUnknown
    <3>2. KnockEntry(inbox[cur].chat) \in R
      BY <1>0, <2>2, <3>1 DEF Entry
    <3>3. ~(inbox[cur].chat \in seen \/ Cardinality(seen) >= Cap)
      BY <2>4, <3>1 DEF RecordKnock
    <3>4. /\ seen' = seen \cup {inbox[cur].chat}
          /\ ledger' = Append(ledger, KnockEntry(inbox[cur].chat))
      BY <3>1, <3>3 DEF RecordKnock, Record
    <3> QED BY <1>3, <3>2, <3>3, <3>4
  <2> QED BY <2>3, <2>4
<1>4. CASE ~Commit /\ ~RecordDecision /\ ~DropUnknown
  BY <1>4 DEF Next, World, Send, Admit, Revoke, StoreBreaks, StoreHeals, Daemon, Start,
     LoadSeen, PollEmpty, PollBatch, SendReply, Crash, HandleUpdate, AuthorizeRaises,
     DropForeignDecision, AcknowledgeDecision, AnswerTap, DropUnroutedTap, Dispatch,
     IgnoreUpdate, DrainEnds, HandlerFails
<1> QED BY <1>1, <1>2, <1>3, <1>4

\* No step takes a decision back, and only RecordDecision takes one.
LEMMA DecisionStep ==
    ASSUME NEW R, Rows(R), IInv(R), [Next]_vars, NEW m
    PROVE  /\ CallbacksFor(ledger, m) # {} =>
                 /\ CallbacksFor(ledger', m) # {}
                 /\ FirstDecision(ledger', m) = FirstDecision(ledger, m)
           /\ ~(RecordDecision /\ inbox[cur].message = m) =>
                 CallbacksFor(ledger', m) = CallbacksFor(ledger, m)
           /\ RecordDecision /\ inbox[cur].message = m =>
                 /\ CallbacksFor(ledger', m) # {}
                 /\ CallbacksFor(ledger, m) = {} =>
                       FirstDecision(ledger', m) = inbox[cur].decision
<1>0. ledger \in Seq(R)
  BY DEF IInv, Types
<1>1. CASE UNCHANGED ledger
  <2>1. ~RecordDecision
    <3>1. SUFFICES ASSUME RecordDecision PROVE FALSE
      OBVIOUS
    <3>2. ledger' = Append(ledger, CallbackEntry(inbox[cur].message, inbox[cur].decision))
      BY <3>1 DEF RecordDecision, Record
    <3>3. Len(ledger') = Len(ledger) + 1 /\ Len(ledger) \in Nat
      BY <1>0, <3>2
    <3> QED BY <1>1, <3>3
  <2> QED BY <1>1, <2>1
<1>2. ASSUME NEW e \in R, ledger' = Append(ledger, e), e.kind # "callback", ~RecordDecision
      PROVE  /\ CallbacksFor(ledger, m) # {} =>
                   /\ CallbacksFor(ledger', m) # {}
                   /\ FirstDecision(ledger', m) = FirstDecision(ledger, m)
             /\ CallbacksFor(ledger', m) = CallbacksFor(ledger, m)
  BY <1>0, <1>2, DecisionAppended
<1>3. CASE Commit /\ PollEntry(last) \in R /\ ledger' = Append(ledger, PollEntry(last))
  <2>1. PollEntry(last).kind # "callback" /\ ~RecordDecision
    BY <1>3 DEF PollEntry, Commit, RecordDecision, InHand
  <2> QED BY <1>2, <1>3, <2>1
<1>4. CASE /\ DropUnknown /\ KnockEntry(inbox[cur].chat) \in R
           /\ ledger' = Append(ledger, KnockEntry(inbox[cur].chat))
  <2>1. KnockEntry(inbox[cur].chat).kind # "callback" /\ ~RecordDecision
    BY <1>4 DEF KnockEntry, DropUnknown, RecordDecision, InHand
  <2> QED BY <1>2, <1>4, <2>1
<1>5. CASE /\ RecordDecision
           /\ CallbackEntry(inbox[cur].message, inbox[cur].decision) \in R
           /\ ledger' = Append(ledger, CallbackEntry(inbox[cur].message, inbox[cur].decision))
  <2>1. PICK e \in R : e = CallbackEntry(inbox[cur].message, inbox[cur].decision)
    BY <1>5
  <2>2. /\ e.kind = "callback" /\ e.message_id = inbox[cur].message
        /\ e.decision = inbox[cur].decision
    BY <2>1 DEF CallbackEntry
  <2>3. ledger' = Append(ledger, e)
    BY <1>5, <2>1
  <2>4. CallbacksFor(ledger, m) \subseteq CallbacksFor(ledger', m)
    BY <1>0, <2>3, DecisionAppended
  <2>5. CallbacksFor(ledger, m) # {} => FirstDecision(ledger', m) = FirstDecision(ledger, m)
    BY <1>0, <2>3, DecisionAppended
  <2>6. e.message_id # m => CallbacksFor(ledger', m) = CallbacksFor(ledger, m)
    BY <1>0, <2>3, DecisionAppended
  <2>7. e.message_id = m =>
            /\ CallbacksFor(ledger', m) # {}
            /\ CallbacksFor(ledger, m) = {} => FirstDecision(ledger', m) = e.decision
    BY <1>0, <2>2, <2>3, DecisionAppended
  <2>8. CASE inbox[cur].message = m
    BY <1>5, <2>2, <2>4, <2>5, <2>7, <2>8
  <2>9. CASE inbox[cur].message # m
    BY <2>2, <2>4, <2>5, <2>6, <2>9
  <2> QED BY <2>8, <2>9
<1> QED BY <1>1, <1>3, <1>4, <1>5, RowStep

\* Who may be answered, and whose decision was recorded, is settled before the update
\* moves on.
LEMMA HandStep ==
    ASSUME NEW R, Rows(R), IInv(R), HandInv, [Next]_vars PROVE HandInv'
<1> USE DEF vars, daemonVars, history, world
<1>1. handled' \subseteq 1..Len(inbox')
  <2>1. PICK n \in Nat, k \in Nat : n = Len(inbox) /\ k = Len(inbox') /\ n <= k
    BY QueueStep
  <2>2. 1..n \subseteq 1..k /\ handled \subseteq 1..n
    BY <2>1 DEF HandInv
  <2>3. handled' \subseteq 1..n
    BY <2>1, <2>2, QueueStep
  <2> QED BY <2>1, <2>2, <2>3
<1>2. ASSUME pc' \in {"answered", "draining"}
      PROVE  inbox'[cur'].chat \in {Operator} \cup guests' /\ inbox'[cur'].kind # "tap"
  <2>1. CASE pc \in {"answered", "draining"}
    <3>1. cur \in 1..Len(inbox) /\ inbox'[cur] = inbox[cur]
      BY <2>1, HandInRange, QueueStep DEF Working
    <3>2. cur' = cur /\ guests \subseteq guests'
      BY <1>2, <2>1 DEF Next, World, Send, Admit, Revoke, StoreBreaks, StoreHeals, Daemon,
         Start, PollEmpty, PollBatch, SendReply, Commit, Crash, HandleUpdate,
         AuthorizeRaises, DropUnknown, DropForeignDecision, RecordDecision,
         AcknowledgeDecision, AnswerTap, DropUnroutedTap, Dispatch, IgnoreUpdate,
         DrainEnds, HandlerFails, FinishUpdate, InHand
    <3> QED BY <2>1, <3>1, <3>2 DEF HandInv
  <2>2. CASE pc \notin {"answered", "draining"}
    <3>1. AnswerTap \/ Dispatch
      BY <1>2, <2>2 DEF Next, World, Send, Admit, Revoke, StoreBreaks, StoreHeals, Daemon,
         Start, PollEmpty, PollBatch, SendReply, Commit, Crash, HandleUpdate,
         AuthorizeRaises, DropUnknown, DropForeignDecision, RecordDecision,
         AcknowledgeDecision, DropUnroutedTap, IgnoreUpdate,
         DrainEnds, HandlerFails, FinishUpdate
    <3>2. /\ Authorized(inbox[cur].chat) /\ UNCHANGED <<inbox, cur, guests>>
          /\ inbox[cur].kind # "tap"
      BY <2>2, <3>1 DEF AnswerTap, Dispatch, InHand
    <3> QED BY <3>2 DEF Authorized, HandInv
  <2> QED BY <2>1, <2>2
<1>3. ASSUME pc' = "recorded"
      PROVE  /\ inbox'[cur'].chat = Operator
             /\ CallbacksFor(ledger', inbox'[cur'].message) # {}
  <2>1. CASE pc = "recorded"
    <3>1. cur \in 1..Len(inbox) /\ inbox'[cur] = inbox[cur]
      BY <2>1, HandInRange, QueueStep DEF Working
    <3>2. cur' = cur
      BY <1>3, <2>1 DEF Next, World, Send, Admit, Revoke, StoreBreaks, StoreHeals, Daemon,
         Start, PollEmpty, PollBatch, SendReply, Commit, Crash, HandleUpdate,
         AuthorizeRaises, DropUnknown, DropForeignDecision, RecordDecision,
         AcknowledgeDecision, AnswerTap, DropUnroutedTap, Dispatch, IgnoreUpdate,
         DrainEnds, HandlerFails, FinishUpdate, InHand
    <3>3. CallbacksFor(ledger', inbox[cur].message) # {}
      BY <2>1, DecisionStep DEF HandInv
    <3> QED BY <2>1, <3>1, <3>2, <3>3 DEF HandInv
  <2>2. CASE pc # "recorded"
    <3>1. RecordDecision
      BY <1>3, <2>2 DEF Next, World, Send, Admit, Revoke, StoreBreaks, StoreHeals, Daemon,
         Start, PollEmpty, PollBatch, SendReply, Commit, Crash, HandleUpdate,
         AuthorizeRaises, DropUnknown, DropForeignDecision,
         AcknowledgeDecision, AnswerTap, Dispatch, DropUnroutedTap, IgnoreUpdate,
         DrainEnds, HandlerFails, FinishUpdate
    <3>2. inbox[cur].chat = Operator /\ inbox' = inbox /\ cur' = cur
      BY <3>1 DEF RecordDecision
    <3>3. CallbacksFor(ledger', inbox[cur].message) # {}
      BY <3>1, DecisionStep
    <3> QED BY <3>2, <3>3
  <2> QED BY <2>1, <2>2
<1>4. admitted' \subseteq guests'
  <2>1. CASE World
    BY <2>1 DEF World, Send, Admit, Revoke, StoreBreaks, StoreHeals, HandInv
  <2>2. CASE \/ UNCHANGED <<admitted, guests>>
             \/ UNCHANGED admitted /\ TakeUp
    BY <2>2 DEF HandInv, TakeUp
  <2>3. CASE Daemon
    BY <2>2, <2>3 DEF Daemon, Start, PollEmpty, PollBatch, SendReply, Commit, Crash,
       HandleUpdate, AuthorizeRaises, DropUnknown, DropForeignDecision, RecordDecision,
       AcknowledgeDecision, AnswerTap, DropUnroutedTap, Dispatch, IgnoreUpdate, DrainEnds,
       HandlerFails, FinishUpdate
  <2> QED BY <2>1, <2>2, <2>3 DEF Next
<1> QED BY <1>1, <1>2, <1>3, <1>4 DEF HandInv

\* The operator's taps on a prompt, in the queue.
Taps(m) ==
    {u \in DOMAIN inbox :
        inbox[u].kind = "tap" /\ inbox[u].chat = Operator /\ inbox[u].message = m}

\* Once he has tapped, further taps come after it: the first stays the first.
LEMMA TapsStay ==
    ASSUME NEW R, Rows(R), IInv(R), [Next]_vars, NEW m
    PROVE  /\ Taps(m) \subseteq 1..Len(inbox) /\ Taps(m) \subseteq Nat
           /\ Taps(m) \subseteq Taps(m)'
           /\ \A u \in Taps(m)' : u \in Taps(m) \/ (u \in Nat /\ Len(inbox) < u)
           /\ Taps(m) # {} =>
                 Min(Taps(m)') = Min(Taps(m)) /\ inbox'[Min(Taps(m))] = inbox[Min(Taps(m))]
<1>a. /\ Len(inbox) \in Nat /\ Len(inbox') \in Nat /\ Len(inbox) <= Len(inbox')
      /\ \A u \in 1..Len(inbox) : inbox'[u] = inbox[u]
      /\ DOMAIN inbox = 1..Len(inbox)
  BY QueueStep DEF IInv, Types
<1>b. DOMAIN inbox' = 1..Len(inbox')
  <2>1. inbox' \in Seq(Traffic)
    BY TypeStep DEF Types
  <2> QED BY <2>1
<1>1. Taps(m) \subseteq 1..Len(inbox) /\ Taps(m) \subseteq Nat
  BY <1>a DEF Taps
<1>2. Taps(m) \subseteq Taps(m)'
  BY <1>a, <1>b DEF Taps
<1>3. ASSUME NEW u \in Taps(m)' PROVE u \in Taps(m) \/ (u \in Nat /\ Len(inbox) < u)
  BY <1>a, <1>b DEF Taps
<1>4. ASSUME Taps(m) # {}
      PROVE  Min(Taps(m)') = Min(Taps(m)) /\ inbox'[Min(Taps(m))] = inbox[Min(Taps(m))]
  <2>1. PICK S, T : S = Taps(m) /\ T = Taps(m)'
    OBVIOUS
  <2>2. /\ S \subseteq 1..Len(inbox) /\ S \subseteq Nat /\ S # {} /\ S \subseteq T
        /\ T \subseteq Nat
        /\ \A u \in T : u \in S \/ Len(inbox) < u
    BY <1>1, <1>2, <1>3, <1>4, <2>1
  <2>3. Min(S) \in S /\ \A u \in S : Min(S) <= u
    BY <2>2, MinIsLeast
  <2>4. T # {} /\ Min(T) \in T /\ \A u \in T : Min(T) <= u
    BY <2>2, MinIsLeast
  <2>5. PICK a \in Nat, b \in Nat, n \in Nat : a = Min(S) /\ b = Min(T) /\ n = Len(inbox)
    BY <1>a, <2>2, <2>3, <2>4
  <2>6. b <= a /\ a <= n /\ b \in T
    BY <2>2, <2>3, <2>4, <2>5
  <2>7. Min(S) = Min(T)
    <3>1. b \in S
      BY <2>2, <2>5, <2>6
    <3>2. a <= b
      BY <2>3, <2>5, <3>1
    <3>3. a = b
      BY <2>6, <3>2
    <3> QED BY <2>5, <3>3
  <2>8. inbox'[Min(S)] = inbox[Min(S)]
    BY <1>a, <2>2, <2>3
  <2> QED BY <2>1, <2>7, <2>8
<1> QED BY <1>1, <1>2, <1>3, <1>4

\* The first tap decides: before it is recorded, all that came before it is handled,
\* so an earlier tap would have left its decision.
LEMMA TapStep ==
    ASSUME NEW R, Rows(R), IInv(R), HandInv, TapInv, [Next]_vars PROVE TapInv'
<1> USE DEF vars, daemonVars, history, world
<1>a. /\ handled \subseteq 1..Len(inbox)
      /\ \A u \in 1..Len(inbox) : inbox'[u] = inbox[u]
  BY QueueStep DEF HandInv
<1>1. ASSUME NEW u \in handled', NEW m, OperatorsTap(u, m)'
      PROVE  CallbacksFor(ledger', m) # {}
  <2>1. CASE u \in handled
    <3>1. OperatorsTap(u, m)
      BY <1>a, <1>1, <2>1 DEF OperatorsTap
    <3>2. CallbacksFor(ledger, m) # {}
      BY <2>1, <3>1 DEF TapInv
    <3> QED BY <3>2, DecisionStep
  <2>2. CASE u \notin handled
    <3>1. u = cur /\ cur \in 1..Len(inbox) /\ UNCHANGED inbox
      BY <1>1, <2>2, QueueStep
    <3>2. inbox[cur].kind = "tap" /\ inbox[cur].chat = Operator /\ inbox[cur].message = m
      BY <1>1, <3>1 DEF OperatorsTap
    <3>3. pc = "recorded"
      BY <1>1, <2>2, <3>2 DEF Next, World, Send, Admit, Revoke, StoreBreaks, StoreHeals,
         Daemon, Start, PollEmpty, PollBatch, SendReply, Commit, Crash, HandleUpdate,
         AuthorizeRaises, DropUnknown, DropForeignDecision, RecordDecision,
         AcknowledgeDecision, AnswerTap, Dispatch, DropUnroutedTap, IgnoreUpdate,
         DrainEnds, HandlerFails, FinishUpdate, InHand, Authorized, HandInv
    <3>4. CallbacksFor(ledger, m) # {}
      BY <3>2, <3>3 DEF HandInv
    <3> QED BY <3>4, DecisionStep
  <2> QED BY <2>1, <2>2
<1>2. ASSUME NEW m \in Prompts, CallbacksFor(ledger', m) # {}
      PROVE  /\ Taps(m)' # {}
             /\ FirstDecision(ledger', m) = inbox'[Min(Taps(m)')].decision
  <2>1. CASE CallbacksFor(ledger, m) # {}
    <3>1. Taps(m) # {} /\ FirstDecision(ledger, m) = inbox[Min(Taps(m))].decision
      BY <2>1 DEF TapInv, FirstTapDecides, Taps
    <3>2. FirstDecision(ledger', m) = FirstDecision(ledger, m)
      BY <2>1, DecisionStep
    <3>3. /\ Taps(m) \subseteq Taps(m)' /\ Min(Taps(m)') = Min(Taps(m))
          /\ inbox'[Min(Taps(m))] = inbox[Min(Taps(m))]
      BY <3>1, TapsStay
    <3> QED BY <3>1, <3>2, <3>3
  <2>2. CASE CallbacksFor(ledger, m) = {}
    <3>1. RecordDecision /\ inbox[cur].message = m
      BY <1>2, <2>2, DecisionStep
    <3>2. FirstDecision(ledger', m) = inbox[cur].decision
      BY <2>2, <3>1, DecisionStep
    <3>3. /\ inbox' = inbox /\ cur \in 1..Len(inbox) /\ cur \in Nat
          /\ inbox[cur].kind = "tap" /\ inbox[cur].chat = Operator
          /\ \A u \in 1..(cur - 1) : u \in handled
      BY <3>1, HandInRange DEF RecordDecision, InHand, Working, IInv, BatchInv
    <3>4. DOMAIN inbox = 1..Len(inbox) /\ Len(inbox) \in Nat
      BY DEF IInv, Types
    <3>5. cur \in Taps(m) /\ Taps(m) \subseteq Nat /\ Taps(m)' = Taps(m)
      BY <3>1, <3>3, <3>4 DEF Taps
    <3>6. ASSUME NEW u \in Taps(m), u < cur PROVE FALSE
      <4>1. u \in 1..(cur - 1) /\ OperatorsTap(u, m)
        BY <3>3, <3>4, <3>6 DEF Taps, OperatorsTap
      <4>2. u \in handled
        BY <3>3, <4>1
      <4> QED BY <2>2, <4>1, <4>2 DEF TapInv
    <3>7. Min(Taps(m)) \in Taps(m) /\ Min(Taps(m)) <= cur
      BY <3>5, MinIsLeast
    <3>8. Min(Taps(m)) = cur
      BY <3>3, <3>5, <3>6, <3>7
    <3> QED BY <3>2, <3>3, <3>5, <3>8
  <2> QED BY <2>1, <2>2
<1>3. FirstTapDecides'
  BY <1>2 DEF FirstTapDecides, Taps
<1> QED BY <1>1, <1>3 DEF TapInv

\* One more row names one more chat, if it is a knock.
LEMMA KnocksOfAppend ==
    ASSUME NEW R, NEW l \in Seq(R), NEW e \in R
    PROVE  Knocks(Append(l, e))
             = Knocks(l) \cup (IF e.kind = "unknown_chat" THEN {e.chat_id} ELSE {})
<1>1. /\ Append(l, e)[Len(l) + 1] = e
      /\ \A i \in 1..Len(l) : Append(l, e)[i] = l[i]
      /\ EntriesOf(l, "unknown_chat") \subseteq 1..Len(l)
      /\ EntriesOf(Append(l, e), "unknown_chat") =
            EntriesOf(l, "unknown_chat")
              \cup (IF e.kind = "unknown_chat" THEN {Len(l) + 1} ELSE {})
  BY RowAppended
<1> QED BY <1>1 DEF Knocks

\* One row for each chat, none past the cap; no row is ever lost.
LEMMA KnockStep ==
    ASSUME NEW R, Rows(R), IInv(R), KnockInv, [Next]_vars
    PROVE  /\ KnockInv'
           /\ Knocks(ledger) \subseteq Knocks(ledger')
           /\ Cardinality(Knocks(ledger)) >= Cap => Cardinality(Knocks(ledger')) >= Cap
<1>a. ledger \in Seq(R) /\ Len(ledger) \in Nat
  BY DEF IInv, Types
<1>b. seen = Knocks(ledger) /\ IsFiniteSet(seen)
  BY DEF KnockInv
<1>1. CASE ledger' = ledger /\ seen' \in {seen, Knocks(ledger)}
  BY <1>b, <1>1 DEF KnockInv
<1>2. ASSUME NEW e \in R, e.kind # "unknown_chat", seen' = seen, ledger' = Append(ledger, e)
      PROVE  KnockInv' /\ Knocks(ledger') = Knocks(ledger)
  <2>1. EntriesOf(Append(ledger, e), "unknown_chat") =
            EntriesOf(ledger, "unknown_chat")
              \cup (IF e.kind = "unknown_chat" THEN {Len(ledger) + 1} ELSE {})
    BY <1>a, RowAppended
  <2>2. Knocks(Append(ledger, e)) =
            Knocks(ledger) \cup (IF e.kind = "unknown_chat" THEN {e.chat_id} ELSE {})
    BY <1>a, KnocksOfAppend
  <2>3. /\ EntriesOf(ledger', "unknown_chat") = EntriesOf(ledger, "unknown_chat")
        /\ Knocks(ledger') = Knocks(ledger)
    BY <1>2, <2>1, <2>2
  <2> QED BY <1>2, <2>3 DEF KnockInv
<1>3. CASE Commit /\ PollEntry(last) \in R /\ seen' = seen
           /\ ledger' = Append(ledger, PollEntry(last))
  <2>1. PollEntry(last).kind # "unknown_chat"
    BY DEF PollEntry
  <2> QED BY <1>2, <1>3, <2>1
<1>4. CASE /\ RecordDecision /\ seen' = seen
           /\ CallbackEntry(inbox[cur].message, inbox[cur].decision) \in R
           /\ ledger' = Append(ledger, CallbackEntry(inbox[cur].message,
                                                     inbox[cur].decision))
  <2>1. CallbackEntry(inbox[cur].message, inbox[cur].decision).kind # "unknown_chat"
    BY DEF CallbackEntry
  <2> QED BY <1>2, <1>4, <2>1
<1>5. CASE /\ DropUnknown /\ inbox[cur].chat \notin seen /\ ~(Cardinality(seen) >= Cap)
           /\ KnockEntry(inbox[cur].chat) \in R
           /\ seen' = seen \cup {inbox[cur].chat}
           /\ ledger' = Append(ledger, KnockEntry(inbox[cur].chat))
  <2>0. PICK c : c = inbox[cur].chat
    OBVIOUS
  <2>1. PICK e \in R : e = KnockEntry(c)
    BY <1>5, <2>0
  <2>2. e.kind = "unknown_chat" /\ e.chat_id = c
    BY <2>1 DEF KnockEntry
  <2>3. ledger' = Append(ledger, e) /\ seen' = seen \cup {c} /\ c \notin seen
    BY <1>5, <2>0, <2>1
  <2>4. Knocks(ledger') = Knocks(ledger) \cup {c}
    BY <1>a, <2>2, <2>3, KnocksOfAppend
  <2>5. /\ EntriesOf(ledger, "unknown_chat") \subseteq 1..Len(ledger)
        /\ EntriesOf(ledger', "unknown_chat")
             = EntriesOf(ledger, "unknown_chat") \cup {Len(ledger) + 1}
    BY <1>a, <2>2, <2>3, RowAppended
  <2>6. IsFiniteSet(EntriesOf(ledger, "unknown_chat"))
    <3>1. IsFiniteSet(1..Len(ledger))
      BY <1>a, FS_Interval
    <3> QED BY <2>5, <3>1, FS_Subset
  <2>7. Len(ledger) + 1 \notin EntriesOf(ledger, "unknown_chat")
    BY <1>a, <2>5
  <2>8. Cardinality(EntriesOf(ledger', "unknown_chat"))
          = Cardinality(EntriesOf(ledger, "unknown_chat")) + 1
    BY <2>5, <2>6, <2>7, FS_AddElement
  <2>9. /\ IsFiniteSet(seen') /\ Cardinality(seen') = Cardinality(seen) + 1
        /\ Cardinality(seen) \in Nat
    BY <1>b, <2>3, FS_AddElement, FS_CardinalityType
  <2>10. Cardinality(seen) + 1 <= Cap
    BY <1>5, <2>9, CapAssumption
  <2> QED BY <1>5, <1>b, <2>3, <2>4, <2>8, <2>9, <2>10 DEF KnockInv
<1> QED BY <1>1, <1>2, <1>3, <1>4, <1>5, RowStep

\* An update of a chat nobody may admit is dropped, and leaves its knock.
LEMMA TurnedAwayStep ==
    ASSUME NEW R, Rows(R), IInv(R), HandInv, KnockInv, KnockNotLost, [Next]_vars
    PROVE  KnockNotLost'
<1> USE DEF vars, daemonVars, history, world
<1>1. SUFFICES ASSUME NEW u \in handled',
                      inbox'[u].chat \notin Admissible \cup {Operator, NoChat},
                      ~(Cardinality(Knocks(ledger')) >= Cap)
               PROVE  inbox'[u].chat \in Pending(ledger', admitted')
  BY DEF KnockNotLost
<1>2. /\ admitted \subseteq Admissible /\ admitted' \subseteq Admissible
      /\ guests \subseteq Admissible
      /\ Knocks(ledger) \subseteq Knocks(ledger') /\ ~(Cardinality(Knocks(ledger)) >= Cap)
  BY <1>1, TypeStep, KnockStep DEF IInv, Types
<1>3. SUFFICES inbox'[u].chat \in Knocks(ledger')
  BY <1>1, <1>2 DEF Pending
<1>4. CASE u \in handled
  <2>1. inbox'[u] = inbox[u]
    BY <1>4, QueueStep DEF HandInv
  <2>2. inbox[u].chat \in Pending(ledger, admitted)
    BY <1>1, <1>2, <1>4, <2>1 DEF KnockNotLost
  <2> QED BY <1>2, <2>1, <2>2 DEF Pending
<1>5. CASE u \notin handled
  <2>1. u = cur /\ inbox' = inbox
    BY <1>1, <1>5, QueueStep
  <2>2. DropUnknown
    BY <1>1, <1>2, <1>5, <2>1 DEF Next, World, Send, Admit, Revoke, StoreBreaks, StoreHeals,
       Daemon, Start, PollEmpty, PollBatch, SendReply, Commit, Crash, HandleUpdate,
       AuthorizeRaises, DropForeignDecision, RecordDecision,
       AcknowledgeDecision, AnswerTap, Dispatch, DropUnroutedTap, IgnoreUpdate,
       DrainEnds, HandlerFails, FinishUpdate, InHand, Authorized, HandInv
  <2>3. RecordKnock(inbox[cur].chat)
    BY <1>1, <2>1, <2>2 DEF DropUnknown
  <2>4. CASE inbox[cur].chat \in seen
    BY <1>2, <2>1, <2>4 DEF KnockInv
  <2>5. CASE inbox[cur].chat \notin seen
    <3>1. ~(Cardinality(seen) >= Cap)
      BY <1>2 DEF KnockInv
    <3>2. seen' = seen \cup {inbox[cur].chat}
      BY <2>3, <2>5, <3>1 DEF RecordKnock
    <3>3. seen' = Knocks(ledger')
      BY KnockStep DEF KnockInv
    <3> QED BY <2>1, <3>2, <3>3
  <2> QED BY <2>4, <2>5
<1> QED BY <1>4, <1>5

\* Who is served was let in for this update: the handler runs, and replies are sent,
\* for the update in hand, whose chat passed authorize after it was taken up.
LEMMA ServedStep ==
    ASSUME NEW R, Rows(R), IInv(R), HandInv, [Next]_vars,
           NEW u \in UpdateIds,
           runs'[u] > runs[u] \/ \E h \in heard' \ heard : h[2] = u
    PROVE  inbox[u].chat \in {Operator} \cup guests
<1> USE DEF vars, daemonVars, history, world
<1>0. runs \in [UpdateIds -> Nat] /\ cur \in Nat
  BY DEF IInv, Types
<1>1. CASE runs'[u] > runs[u]
  <2>1. CASE Dispatch
    <3>1. u = cur
      BY <1>0, <1>1, <2>1 DEF Dispatch
    <3>2. CASE pc = "answered"
      BY <3>1, <3>2 DEF HandInv
    <3>3. CASE InHand("command")
      BY <3>1, <3>3 DEF InHand, Authorized, HandInv
    <3> QED BY <2>1, <3>2, <3>3 DEF Dispatch
  <2>2. CASE Start
    <3>1. runs'[u] = 0
      BY <2>2 DEF Start
    <3> QED BY <1>0, <1>1, <3>1
  <2>3. CASE ~Dispatch /\ ~Start
    <3>1. runs' = runs
      BY <2>3 DEF Next, World, Send, Admit, Revoke, StoreBreaks, StoreHeals, Daemon,
         PollEmpty, PollBatch, SendReply, Commit, Crash, HandleUpdate, AuthorizeRaises,
         DropUnknown, DropForeignDecision, RecordDecision, AcknowledgeDecision, AnswerTap,
         DropUnroutedTap, IgnoreUpdate, DrainEnds, HandlerFails
    <3> QED BY <1>0, <1>1, <3>1
  <2> QED BY <2>1, <2>2, <2>3
<1>2. CASE \E h \in heard' \ heard : h[2] = u
  <2>1. pc = "draining" /\ heard' \in Deliver
    BY <1>2 DEF Next, World, Send, Admit, Revoke, StoreBreaks, StoreHeals,
       Daemon, Start, PollEmpty, PollBatch, SendReply, Commit, Crash, HandleUpdate,
       AuthorizeRaises, DropUnknown, DropForeignDecision, RecordDecision,
       AcknowledgeDecision, AnswerTap, Dispatch, DropUnroutedTap, IgnoreUpdate,
       DrainEnds, HandlerFails
  <2>2. u = cur
    BY <1>2, <2>1 DEF Deliver
  <2> QED BY <2>1, <2>2 DEF HandInv
<1> QED BY <1>1, <1>2

\* The same as a step of the property.
LEMMA ServedAreEnabled ==
    ASSUME NEW R, Rows(R), IInv(R), HandInv, [Next]_vars
    PROVE  LET served == {u \in UpdateIds : runs'[u] > runs[u]}
                           \cup {h[2] : h \in heard' \ heard}
           IN  \A u \in served : inbox[u].chat \in {Operator} \cup guests
<1>1. heard' \subseteq (Chats \cup {NoChat}) \X UpdateIds
  BY TypeStep DEF Types
<1>2. \A h \in heard' : h[2] \in UpdateIds
  BY <1>1
<1> QED BY <1>2, ServedStep

-----------------------------------------------------------------------------
\* The daemon starts in a state the invariant allows.
LEMMA InitInv ==
    ASSUME NEW R, Rows(R), DaemonInit, ledger = <<>>, prompts \in [Prompts -> PromptStates]
    PROVE  IInv(R)
<1> USE DEF DaemonInit
<1>1. EntriesOf(ledger, "poll") = {}
  BY DEF EntriesOf
<1>2. Cursors(ledger) = {0}
  BY <1>1 DEF Cursors
<1>3. CursorInv
  BY <1>2 DEF CursorInv
<1>4. Types(R)
  BY BoundsAssumption DEF Types, Stages, PromptStates, UpdateIds
<1>5. LastSeen(ledger) = 0
  BY <1>2, <1>3, <1>4, LastSeenIsGreatest
<1>6. CommitInv
  BY <1>2, <1>5 DEF CommitInv
<1>7. BatchInv /\ RunsInv
  BY DEF BatchInv, RunsInv, Working
<1> QED BY <1>3, <1>4, <1>6, <1>7 DEF IInv

\* The invariant is inductive.
LEMMA InvStep ==
    ASSUME NEW R, Rows(R), IInv(R), [Next]_vars PROVE IInv(R)'
<1>1. CursorInv'
  <2>1. CASE Next
    BY <2>1, GreatestStep
  <2>2. CASE UNCHANGED vars
    BY <2>2 DEF vars, IInv, CursorInv
  <2> QED BY <2>1, <2>2
<1> QED BY <1>1, TypeStep, CommitStep, BatchStep, RunsStep DEF IInv

\* What the news carries holds from the start,
LEMMA KeptInit ==
    ASSUME NEW R, Rows(R), DaemonInit, ledger = <<>>
    PROVE  Kept
<1> USE DEF DaemonInit
<1>1. /\ \A kind : EntriesOf(ledger, kind) = {}
      /\ Knocks(ledger) = {} /\ \A m : CallbacksFor(ledger, m) = {}
  BY DEF EntriesOf, Knocks, CallbacksFor
<1>2. KnockInv
  BY <1>1, FS_EmptySet, CapAssumption DEF KnockInv
<1>3. HandInv /\ TapInv /\ KnockNotLost
  BY <1>1 DEF HandInv, TapInv, FirstTapDecides, KnockNotLost
<1> QED BY <1>2, <1>3 DEF Kept

\* and each step of the daemon, the world or nobody keeps it.
LEMMA KeptStep ==
    ASSUME NEW R, Rows(R), IInv(R), Kept, [Next]_vars PROVE Kept'
BY HandStep, TapStep, KnockStep, TurnedAwayStep DEF Kept

\* The daemon does not notice an asker: it reads no `ask` entry, and what its chat
\* shows of a prompt only the daemon's acknowledgement depends on.
LEMMA AskersUnnoticed ==
    ASSUME NEW R, Rows(R), IInv(R), Kept,
           prompts' \in [Prompts -> PromptStates],
           UNCHANGED <<seen, daemonVars, history, world>>,
           \/ ledger' = ledger
           \/ \E e \in R : e.kind = "ask" /\ ledger' = Append(ledger, e)
    PROVE  IInv(R)' /\ Kept'
<1> USE DEF daemonVars, history, world
<1>0. ledger \in Seq(R)
  BY DEF IInv, Types
<1>1. ledger \in Seq(R) /\ ledger' \in Seq(R)
  BY <1>0
<1>2. /\ Cursors(ledger') = Cursors(ledger) /\ Knocks(ledger') = Knocks(ledger)
      /\ EntriesOf(ledger', "unknown_chat") = EntriesOf(ledger, "unknown_chat")
  <2>1. ASSUME NEW e \in R, e.kind = "ask", ledger' = Append(ledger, e)
        PROVE  /\ Cursors(ledger') = Cursors(ledger)
               /\ Knocks(ledger') = Knocks(ledger)
               /\ EntriesOf(ledger', "unknown_chat") = EntriesOf(ledger, "unknown_chat")
    <3>1. Cursors(Append(ledger, e))
            = Cursors(ledger) \cup (IF e.kind = "poll" THEN {e.last_update_id} ELSE {})
      BY <1>1, CursorsOfAppend
    <3>2. Knocks(Append(ledger, e))
            = Knocks(ledger) \cup (IF e.kind = "unknown_chat" THEN {e.chat_id} ELSE {})
      BY <1>1, KnocksOfAppend
    <3>3. EntriesOf(Append(ledger, e), "unknown_chat") =
            EntriesOf(ledger, "unknown_chat")
              \cup (IF e.kind = "unknown_chat" THEN {Len(ledger) + 1} ELSE {})
      BY <1>1, RowAppended
    <3> QED BY <2>1, <3>1, <3>2, <3>3
  <2> QED BY <2>1
<1>3. ASSUME NEW m
      PROVE  /\ CallbacksFor(ledger, m) # {} <=> CallbacksFor(ledger', m) # {}
             /\ CallbacksFor(ledger, m) # {} =>
                   FirstDecision(ledger', m) = FirstDecision(ledger, m)
  <2>1. ASSUME NEW e \in R, e.kind = "ask", ledger' = Append(ledger, e)
        PROVE  /\ CallbacksFor(ledger', m) = CallbacksFor(ledger, m)
               /\ CallbacksFor(ledger, m) # {} =>
                     FirstDecision(ledger', m) = FirstDecision(ledger, m)
    BY <1>1, <2>1, DecisionAppended
  <2> QED BY <2>1
<1>4. Types(R)'
  BY <1>1 DEF IInv, Types
<1>5. CursorInv' /\ CommitInv' /\ BatchInv' /\ RunsInv'
  BY <1>2 DEF IInv, CursorInv, CommitInv, LastSeen, BatchInv, RunsInv
<1>6. HandInv'
  BY <1>3 DEF Kept, HandInv
<1>7. TapInv'
  BY <1>3 DEF Kept, TapInv, OperatorsTap, FirstTapDecides
<1>8. KnockInv' /\ KnockNotLost'
  BY <1>2 DEF Kept, KnockInv, KnockNotLost, Pending
<1> QED BY <1>4, <1>5, <1>6, <1>7, <1>8 DEF IInv, Kept

\* What Telegram has forgotten lies under the cursor, and so is done.
LEMMA ForgottenIsDone ==
    ASSUME NEW R, Rows(R), IInv(R) PROVE NothingLost
<1> SUFFICES ASSUME NEW u \in 1..confirmed
             PROVE  u \in handled
  BY DEF NothingLost
<1>1. LastSeen(ledger) \in Cursors(ledger) /\ LastSeen(ledger) \in Nat
  BY LastSeenIsGreatest DEF IInv
<1>2. u \in 1..LastSeen(ledger)
  BY <1>1 DEF IInv, CommitInv, Types
<1> QED BY <1>1, <1>2 DEF IInv, CommitInv

\* By itself the daemon is the only one that writes to the ledger.
LEMMA OwnRows == Rows(Entry)
BY DEF Rows

\* Every reachable state of the daemon satisfies the invariant.
THEOREM DaemonInvariant == Spec => [](IInv(Entry) /\ Kept)
<1>1. Init => IInv(Entry) /\ Kept
  <2> SUFFICES ASSUME Init PROVE IInv(Entry) /\ Kept
    OBVIOUS
  <2>1. prompts \in [Prompts -> PromptStates] /\ DaemonInit /\ ledger = <<>>
    BY DEF Init, PromptStates
  <2> QED BY <2>1, OwnRows, InitInv, KeptInit
<1>2. (IInv(Entry) /\ Kept) /\ [Next]_vars => (IInv(Entry) /\ Kept)'
  BY OwnRows, InvStep, KeptStep
<1> QED BY <1>1, <1>2, PTL DEF Spec

\* The variables keep their types, whatever is sent, breaks or dies.
THEOREM TypeCorrect == Spec => []TypeOK
<1>1. IInv(Entry) => TypeOK
  BY DEF IInv, Types, TypeOK
<1> QED BY <1>1, DaemonInvariant, PTL

\* Telegram forgets only updates whose handling ran to its end: it forgets no
\* more than the recorded cursor, and what the cursor covers is done.
THEOREM NoUpdateLost == Spec => []NothingLost
<1>1. IInv(Entry) => NothingLost
  BY OwnRows, ForgottenIsDone
<1> QED BY <1>1, DaemonInvariant, PTL

\* No process calls a handler twice for one update.
THEOREM DispatchedOnce == Spec => []OncePerProcess
<1>1. IInv(Entry) => OncePerProcess
  BY DEF IInv, RunsInv, OncePerProcess
<1> QED BY <1>1, DaemonInvariant, PTL

\* Work the cursor covers is never repeated: a handler is called only for the
\* update in hand, which lies after the cursor while the daemon is up.
THEOREM NoReplayAfterCommit == Spec => CommittedNeverReplayed
<1>1. ASSUME IInv(Entry), [Next]_vars, NEW u \in UpdateIds, runs'[u] > runs[u]
      PROVE  u > LastSeen(ledger)
  <2> USE DEF vars, daemonVars, history, world
  <2>0. runs \in [UpdateIds -> Nat] /\ cur \in Nat /\ offset \in Nat /\ LastSeen(ledger) \in Nat
    BY <1>1, OwnRows, LastSeenIsGreatest DEF IInv, Types
  <2>1. CASE Dispatch
    <3>1. pc \in Working
      BY <2>1 DEF Dispatch, InHand, Working
    <3>2. cur \in UpdateIds /\ offset <= cur /\ offset = LastSeen(ledger) + 1
      BY <1>1, <3>1, OwnRows, HandInRange DEF IInv, BatchInv, CommitInv, Working
    <3>3. u = cur
      BY <1>1, <2>0, <2>1, <3>2 DEF Dispatch
    <3> QED BY <2>0, <3>2, <3>3
  <2>2. CASE Start
    <3>1. runs'[u] = 0
      BY <2>2 DEF Start
    <3> QED BY <1>1, <2>0, <3>1
  <2>3. CASE ~Dispatch /\ ~Start
    <3>1. runs' = runs
      BY <1>1, <2>3 DEF Next, World, Send, Admit, Revoke, StoreBreaks, StoreHeals, Daemon,
         PollEmpty, PollBatch, SendReply, Commit, Crash, HandleUpdate, AuthorizeRaises,
         DropUnknown, DropForeignDecision, RecordDecision, AcknowledgeDecision, AnswerTap,
         DropUnroutedTap, IgnoreUpdate, DrainEnds, HandlerFails
    <3> QED BY <1>1, <2>0, <3>1
  <2> QED BY <2>1, <2>2, <2>3
<1>2. IInv(Entry) /\ [Next]_vars
        => [\A u \in UpdateIds : runs'[u] > runs[u] => u > LastSeen(ledger)]_vars
  BY <1>1
<1> QED BY <1>2, DaemonInvariant, PTL DEF Spec, CommittedNeverReplayed

\* The daemon serves only whom it let in for this very update: nothing it learned of a
\* chat before counts, and from then to the last reply the update in hand stays the same.
THEOREM ServesOnlyTheEnabled == Spec => OnlyTheEnabledAreServed
<1>1. IInv(Entry) /\ Kept /\ [Next]_vars
        => [LET served == {u \in UpdateIds : runs'[u] > runs[u]}
                            \cup {h[2] : h \in heard' \ heard}
            IN  \A u \in served : inbox[u].chat \in {Operator} \cup guests]_vars
  BY OwnRows, ServedAreEnabled DEF Kept
<1> QED BY <1>1, DaemonInvariant, PTL DEF Spec, OnlyTheEnabledAreServed

\* The ledger's first decision on a prompt is the operator's first tap, though a
\* batch that was half done is handled again: an update is left behind only when
\* its decision is written, so the first row on a prompt is never a later tap's.
THEOREM FirstTapIsTheDecision == Spec => []FirstTapDecides
<1>1. Kept => FirstTapDecides
  BY DEF Kept, TapInv
<1> QED BY <1>1, DaemonInvariant, PTL

\* A tap Telegram has forgotten is in the ledger: it forgets only what is done.
THEOREM TapsReachTheLedger == Spec => []TapsAreRecorded
<1>1. IInv(Entry) /\ Kept /\ NothingLost => TapsAreRecorded
  BY DEF Kept, TapInv, OperatorsTap, NothingLost, TapsAreRecorded
<1> QED BY <1>1, DaemonInvariant, NoUpdateLost, PTL

\* One row for each chat that knocked and never more than Cap of them, restarts
\* and redeliveries included: the set in memory is always what the rows say.
THEOREM KnocksStayBounded == Spec => []KnocksBounded
<1>1. Kept => KnocksBounded
  BY DEF Kept, KnockInv, KnocksBounded
<1> QED BY <1>1, DaemonInvariant, PTL

\* A chat turned away left its knock, unless the list was full.
THEOREM KnocksAreKept == Spec => []KnockNotLost
<1>1. Kept => KnockNotLost
  BY DEF Kept
<1> QED BY <1>1, DaemonInvariant, PTL
=============================================================================
