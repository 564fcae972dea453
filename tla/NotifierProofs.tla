---------------------------- MODULE NotifierProofs ----------------------------
(***************************************************************************)
(* What is proved of notify for any processes, entries, failed sends and   *)
(* crashes: NothingSkipped and RepeatsHaveAReason.                         *)
(***************************************************************************)
EXTENDS Notifier, Extrema, TLAPS

Stages == {"idle", "slicing", "sending", "recording", "skipping"}
Telling == {"sending", "recording", "skipping"}
Outcomes == {"skipped", "success"}
Entries ==
    {Event, PollEntry(1)} \cup
        {NotifyEntry(w, o, n) : w \in Windows, o \in Outcomes, n \in Nat}

Types ==
    /\ ledger \in Seq(Entries)
    /\ stage \in [Runs -> Stages] /\ window \in [Runs -> Windows]
    /\ snap \in [Runs -> Nat] /\ todo \in [Runs -> SUBSET Nat]
    /\ copies \in [1..MaxEntries -> 0..2]
    /\ troubles \in Nat /\ manual \in BOOLEAN

\* No recorded cursor and no run is ahead of the ledger, and a run that is not in the
\* middle of its digest has nothing left to send.
PlaceInv ==
    /\ Notifiable(ledger) \subseteq 1..MaxEntries
    /\ NotifyCounts(ledger) \subseteq 0..Len(ledger)
    /\ \A r \in Runs :
          /\ snap[r] <= Len(ledger)
          /\ todo[r] \subseteq Notifiable(ledger) \cap 1..snap[r]
          /\ stage[r] # "sending" => todo[r] = {}

\* What lies behind a recorded cursor was told, and so was what a run is about to put
\* behind the next one, or it still has it to send.
ToldInv ==
    /\ \A n \in NotifyCounts(ledger), i \in Notifiable(ledger) : i <= n => copies[i] >= 1
    /\ \A r \in Runs : stage[r] \in Telling /\ window[r] = "incremental" =>
          \A i \in Notifiable(ledger) : i <= snap[r] => i \in todo[r] \/ copies[i] >= 1

\* An entry that was told lies behind a cursor, or behind the run that told it.
Delivered(i) ==
    \/ \E n \in NotifyCounts(ledger) : i <= n
    \/ \E r \in Runs : /\ stage[r] \in {"sending", "recording"}
                       /\ i <= snap[r] /\ i \notin todo[r]

\* While nothing failed and nobody stepped in there is one run at a time, and what it
\* has to send nobody was told.
OnceInv ==
    troubles = 0 /\ ~manual =>
        /\ \A p, q \in Runs : stage[p] # "idle" /\ stage[q] # "idle" => p = q
        /\ \A r \in Runs : stage[r] # "idle" => window[r] = "incremental"
        /\ \A i \in 1..MaxEntries : copies[i] <= 1 /\ (copies[i] = 1 => Delivered(i))
        /\ \A r \in Runs : \A i \in todo[r] : copies[i] = 0

IInv == Types /\ PlaceInv /\ ToldInv /\ OnceInv

-----------------------------------------------------------------------------
\* The last cursor recorded, in the sense of /status: the greatest of them.
LEMMA LastNotifiedIsGreatest ==
    ASSUME Types, PlaceInv
    PROVE  /\ LastNotified(ledger) \in NotifyCounts(ledger)
           /\ \A n \in NotifyCounts(ledger) : n <= LastNotified(ledger)
           /\ LastNotified(ledger) \in Nat
<1>1. Len(ledger) \in Nat /\ NotifyCounts(ledger) \subseteq 0..Len(ledger)
  BY DEF Types, PlaceInv
<1>2. NotifyCounts(ledger) # {}
  BY DEF NotifyCounts
<1> QED
  BY <1>1, <1>2, MaxIsGreatest DEF LastNotified

\* An event or the daemon's bookkeeping moves no cursor.
LEMMA ToolsMoveNoCursor ==
    ASSUME Types, NEW e \in {Event, PollEntry(1)}, Record(e)
    PROVE  /\ Len(ledger) \in Nat /\ Len(ledger') = Len(ledger) + 1
           /\ NotifyCounts(ledger') = NotifyCounts(ledger)
           /\ Notifiable(ledger) \subseteq Notifiable(ledger')
           /\ Notifiable(ledger') \subseteq Notifiable(ledger) \cup {Len(ledger) + 1}
<1>1. /\ Len(ledger) \in Nat /\ Len(ledger') = Len(ledger) + 1
      /\ \A i \in 1..Len(ledger) : ledger'[i] = ledger[i]
      /\ ledger'[Len(ledger) + 1] = e
  BY DEF Types, Record
<1>2. e.kind # "notify"
  BY DEF Event, PollEntry
<1>3. EntriesOf(ledger', "notify") = EntriesOf(ledger, "notify")
  BY <1>1, <1>2 DEF EntriesOf
<1>4. \A i \in EntriesOf(ledger, "notify") : ledger'[i] = ledger[i]
  BY <1>1 DEF EntriesOf
<1>5. NotifyCounts(ledger') = NotifyCounts(ledger)
  BY <1>3, <1>4 DEF NotifyCounts
<1> QED
  BY <1>1, <1>5 DEF Notifiable

\* A run's entry is no news, and adds one cursor.
LEMMA NotifyAddsACursor ==
    ASSUME Types, NEW w \in Windows, NEW o \in Outcomes, NEW n \in Nat,
           Record(NotifyEntry(w, o, n))
    PROVE  /\ ledger' \in Seq(Entries)
           /\ Len(ledger) \in Nat /\ Len(ledger') = Len(ledger) + 1
           /\ Notifiable(ledger') = Notifiable(ledger)
           /\ NotifyCounts(ledger') =
                 NotifyCounts(ledger) \cup {IF w = "incremental" THEN n ELSE 0}
<1> DEFINE e == NotifyEntry(w, o, n)
<1>1. /\ Len(ledger) \in Nat /\ Len(ledger') = Len(ledger) + 1
      /\ \A i \in 1..Len(ledger) : ledger'[i] = ledger[i]
      /\ ledger'[Len(ledger) + 1] = e
  BY DEF Types, Record
<1>2. e.kind = "notify" /\ e.notified_count = IF w = "incremental" THEN n ELSE 0
  BY DEF NotifyEntry
<1>3. EntriesOf(ledger', "notify") = EntriesOf(ledger, "notify") \cup {Len(ledger) + 1}
  BY <1>1, <1>2 DEF EntriesOf
<1>4. \A i \in EntriesOf(ledger, "notify") : ledger'[i] = ledger[i]
  BY <1>1 DEF EntriesOf
<1>5. NotifyCounts(ledger') =
          NotifyCounts(ledger) \cup {IF w = "incremental" THEN n ELSE 0}
  BY <1>1, <1>2, <1>3, <1>4 DEF NotifyCounts
<1>6. ledger' \in Seq(Entries)
  <2>1. e \in Entries
    BY DEF Entries
  <2> QED
    BY <2>1 DEF Types, Record
<1>7. Notifiable(ledger') = Notifiable(ledger)
  BY <1>1, <1>2 DEF Notifiable
<1> QED
  BY <1>1, <1>5, <1>6, <1>7

\* What the operator receives he has once more; what he had he keeps.
LEMMA ReceiveCounts ==
    ASSUME Types, NEW S, Receive(S)
    PROVE  /\ copies' \in [1..MaxEntries -> 0..2]
           /\ \A i \in 1..MaxEntries :
                 /\ copies'[i] >= copies[i]
                 /\ i \in S => copies'[i] >= 1
                 /\ i \in S /\ copies[i] = 0 => copies'[i] = 1
                 /\ i \notin S => copies'[i] = copies[i]
<1>1. ASSUME NEW c \in 0..2
      PROVE  /\ Min({2, c + 1}) \in 0..2 /\ Min({2, c + 1}) >= c
             /\ Min({2, c + 1}) >= 1 /\ (c = 0 => Min({2, c + 1}) = 1)
  <2>1. /\ Min({2, c + 1}) \in {2, c + 1}
        /\ Min({2, c + 1}) <= 2 /\ Min({2, c + 1}) <= c + 1
    BY MinIsLeast
  <2> QED
    BY <2>1
<1>2. \A i \in 1..MaxEntries :
          copies[i] \in 0..2 /\
          copies'[i] = IF i \in S THEN Min({2, copies[i] + 1}) ELSE copies[i]
  BY DEF Types, Receive
<1>3. copies' = [i \in 1..MaxEntries |-> copies'[i]]
  BY DEF Types, Receive
<1>4. \A i \in 1..MaxEntries : copies'[i] \in 0..2
  BY <1>1, <1>2
<1>5. copies' \in [1..MaxEntries -> 0..2]
  BY <1>3, <1>4
<1>6. ASSUME NEW i \in 1..MaxEntries
      PROVE  /\ copies'[i] >= copies[i]
             /\ i \in S => copies'[i] >= 1
             /\ i \in S /\ copies[i] = 0 => copies'[i] = 1
             /\ i \notin S => copies'[i] = copies[i]
  <2>1. CASE i \in S
    BY <1>1, <1>2, <2>1
  <2>2. CASE i \notin S
    <3>1. copies'[i] = copies[i]
      BY <1>2, <2>2
    <3>2. copies[i] \in 0..2
      BY DEF Types
    <3>3. copies[i] \in Int
      BY <3>2
    <3>4. copies[i] >= copies[i]
      BY <3>3
    <3> QED
      BY <2>2, <3>1, <3>4
  <2> QED
    BY <2>1, <2>2
<1> QED
  BY <1>5, <1>6

\* An empty ledger, and nobody runs.
LEMMA InitHolds == Init => IInv
<1> SUFFICES ASSUME Init PROVE IInv
  OBVIOUS
<1> USE DEF Init
<1>1. Types
  <2>1. ledger \in Seq(Entries) /\ stage \in [Runs -> Stages] /\ window \in [Runs -> Windows]
    BY DEF Stages, Windows
  <2>2. snap \in [Runs -> Nat] /\ todo \in [Runs -> SUBSET Nat]
    OBVIOUS
  <2>3. copies \in [1..MaxEntries -> 0..2] /\ troubles \in Nat
    OBVIOUS
  <2>4. manual \in BOOLEAN
    OBVIOUS
  <2> QED
    BY <2>1, <2>2, <2>3, <2>4 DEF Types
<1>2. Notifiable(ledger) = {} /\ NotifyCounts(ledger) = {0}
  BY DEF Notifiable, NotifyCounts, EntriesOf
<1>3. PlaceInv /\ ToldInv
  BY <1>2 DEF PlaceInv, ToldInv, Telling
<1>4. OnceInv
  BY <1>2 DEF OnceInv
<1> QED
  BY <1>1, <1>3, <1>4 DEF IInv

-----------------------------------------------------------------------------
\* What each step does to a run that is not the one that steps: nothing.
Others(r) ==
    \A q \in Runs \ {r} :
        /\ stage'[q] = stage[q] /\ window'[q] = window[q]
        /\ snap'[q] = snap[q] /\ todo'[q] = todo[q]

\* A run that ends, however it ends, leaves nothing behind.
LEMMA ExitLeavesNothing ==
    ASSUME Types, NEW r \in Runs, Exit(r)
    PROVE  /\ stage' \in [Runs -> Stages] /\ window' \in [Runs -> Windows]
           /\ snap' \in [Runs -> Nat] /\ todo' \in [Runs -> SUBSET Nat]
           /\ stage'[r] = "idle" /\ snap'[r] = 0 /\ todo'[r] = {}
           /\ window'[r] = "incremental"
           /\ Others(r)
  BY DEF Types, Exit, Others, Stages, Windows

\* The slice of a run: what is notifiable from some number on, up to its snapshot.
LEMMA SliceTakes ==
    ASSUME Types, PlaceInv, NEW r \in Runs, Slice(r)
    PROVE  /\ UNCHANGED <<ledger, window, snap, copies, troubles, manual>>
           /\ stage[r] = "slicing"
           /\ todo' \in [Runs -> SUBSET Nat]
           /\ todo'[r] \subseteq Notifiable(ledger) \cap 1..snap[r]
           /\ window[r] = "incremental" =>
                 \A i \in Notifiable(ledger) :
                     i \in todo'[r] <=> LastNotified(ledger) < i /\ i <= snap[r]
           /\ stage' \in [Runs -> Stages] /\ stage'[r] \in {"skipping", "sending"}
           /\ stage'[r] = "skipping" => todo'[r] = {}
           /\ Others(r)
<1>a. snap[r] \in Nat /\ LastNotified(ledger) \in Nat /\ Notifiable(ledger) \subseteq Nat
  BY LastNotifiedIsGreatest DEF Types, PlaceInv
<1>1. PICK from \in IF window[r] = "since" THEN 0..snap[r] ELSE {LastNotified(ledger)} :
          todo' = [todo EXCEPT ![r] = Notifiable(ledger) \cap (from + 1)..snap[r]]
  BY DEF Slice
<1>2. from \in Nat /\ (window[r] = "incremental" => from = LastNotified(ledger))
  BY <1>a, <1>1
<1> DEFINE slice == Notifiable(ledger) \cap (from + 1)..snap[r]
<1>3. /\ slice \subseteq Notifiable(ledger) \cap 1..snap[r] /\ slice \subseteq Nat
      /\ \A i \in Notifiable(ledger) : i \in slice <=> from < i /\ i <= snap[r]
  BY <1>a, <1>2
<1>4. todo' = [todo EXCEPT ![r] = slice]
  BY <1>1
<1> HIDE DEF slice
<1>5. todo' \in [Runs -> SUBSET Nat] /\ todo'[r] = slice
      /\ \A q \in Runs \ {r} : todo'[q] = todo[q]
  BY <1>3, <1>4 DEF Types
<1>6. /\ stage' \in [Runs -> Stages]
      /\ stage'[r] = IF todo'[r] = {} THEN "skipping" ELSE "sending"
      /\ \A q \in Runs \ {r} : stage'[q] = stage[q]
  BY DEF Slice, Types, Stages
<1>7. UNCHANGED <<ledger, window, snap, copies, troubles, manual>> /\ stage[r] = "slicing"
  BY DEF Slice
<1> QED
  BY <1>2, <1>3, <1>5, <1>6, <1>7 DEF Others

\* A chunk is some of what the run has to send.
LEMMA ChunkTakes ==
    ASSUME Types, NEW r \in Runs, SendChunk(r)
    PROVE  /\ UNCHANGED <<ledger, window, snap, troubles, manual>>
           /\ stage[r] = "sending"
           /\ \E chunk \in SUBSET todo[r] : Receive(chunk) /\ todo'[r] = todo[r] \ chunk
           /\ todo' \in [Runs -> SUBSET Nat]
           /\ stage' \in [Runs -> Stages] /\ stage'[r] \in {"recording", "sending"}
           /\ stage'[r] = "recording" => todo'[r] = {}
           /\ Others(r)
<1>1. PICK chunk \in SUBSET todo[r] :
          Receive(chunk) /\ todo' = [todo EXCEPT ![r] = todo[r] \ chunk]
  BY DEF SendChunk
<1>2. /\ todo' \in [Runs -> SUBSET Nat] /\ todo'[r] = todo[r] \ chunk
      /\ \A q \in Runs \ {r} : todo'[q] = todo[q]
  BY <1>1 DEF Types
<1>3. /\ stage' \in [Runs -> Stages]
      /\ stage'[r] = IF todo'[r] = {} THEN "recording" ELSE "sending"
      /\ \A q \in Runs \ {r} : stage'[q] = stage[q]
  BY DEF SendChunk, Types, Stages
<1>4. UNCHANGED <<ledger, window, snap, troubles, manual>> /\ stage[r] = "sending"
  BY DEF SendChunk
<1> QED
  BY <1>1, <1>2, <1>3, <1>4 DEF Others

\* The entry a run ends with.
LEMMA RunRecords ==
    ASSUME Types, NEW r \in Runs, RecordNotify(r)
    PROVE  /\ UNCHANGED <<copies, troubles, manual>>
           /\ stage[r] \in {"recording", "skipping"}
           /\ \E o \in Outcomes : Record(NotifyEntry(window[r], o, snap[r]))
           /\ window[r] \in Windows /\ snap[r] \in Nat
           /\ Exit(r)
  BY DEF RecordNotify, Outcome, Outcomes, Types

\* A failed send and a dying process end the run, and are counted.
LEMMA TroubleEnds ==
    ASSUME Types, NEW r \in Runs, SendFails(r) \/ Die(r)
    PROVE  /\ UNCHANGED <<ledger, manual>> /\ Exit(r)
           /\ troubles' \in Nat /\ troubles' # 0
           /\ copies' \in [1..MaxEntries -> 0..2]
           /\ \A i \in 1..MaxEntries : copies'[i] >= copies[i]
<1>1. UNCHANGED <<ledger, manual>> /\ Exit(r) /\ troubles' = troubles + 1
  BY DEF SendFails, Die
<1>2. troubles' \in Nat /\ troubles' # 0
  BY <1>1 DEF Types
<1>3. CASE SendFails(r)
  BY <1>1, <1>2, <1>3, ReceiveCounts DEF SendFails
<1>4. CASE Die(r)
  <2>1. copies' = copies /\ \A i \in 1..MaxEntries : copies[i] \in 0..2
    BY <1>4 DEF Die, Types
  <2>2. \A i \in 1..MaxEntries : copies[i] >= copies[i]
    BY <2>1
  <2> QED
    BY <1>1, <1>2, <2>1, <2>2 DEF Types
<1> QED
  BY <1>3, <1>4

\* A run begins: it takes its snapshot, and others that run make it a manual one.
LEMMA RunBegins ==
    ASSUME Types, NEW r \in Runs, NEW w \in Windows, Begin(r, w)
    PROVE  /\ UNCHANGED <<ledger, todo, copies, troubles>>
           /\ stage[r] = "idle" /\ stage' \in [Runs -> Stages] /\ stage'[r] = "slicing"
           /\ window' \in [Runs -> Windows] /\ window'[r] = w
           /\ snap' \in [Runs -> Nat] /\ snap'[r] = Len(ledger)
           /\ manual' \in BOOLEAN
           /\ ~manual' =>
                 ~manual /\ w = "incremental" /\ \A q \in Runs : stage[q] = "idle"
           /\ Others(r)
<1>1. /\ UNCHANGED <<ledger, todo, copies, troubles>>
      /\ stage[r] = "idle" /\ stage' \in [Runs -> Stages] /\ stage'[r] = "slicing"
      /\ window' \in [Runs -> Windows] /\ window'[r] = w
      /\ snap' \in [Runs -> Nat] /\ snap'[r] = Len(ledger)
      /\ Others(r)
  BY DEF Begin, Types, Stages, Others
<1>2. manual' = (manual \/ w = "since" \/ \E q \in Runs : stage[q] # "idle")
  BY DEF Begin
<1>3. manual' \in BOOLEAN
  BY <1>2
<1>4. ~manual' => ~manual /\ w = "incremental" /\ \A q \in Runs : stage[q] = "idle"
  BY <1>2 DEF Windows
<1> QED
  BY <1>1, <1>3, <1>4

-----------------------------------------------------------------------------
\* The types, after every step.
LEMMA TypesStep == ASSUME Types, PlaceInv, [Next]_vars PROVE Types'
<1>1. CASE ToolWrites
  <2>1. PICK e \in {Event, PollEntry(1)} : Record(e)
    BY <1>1 DEF ToolWrites
  <2>2. ledger' \in Seq(Entries)
    BY <2>1 DEF Record, Entries, Types
  <2> QED
    BY <1>1, <2>2 DEF ToolWrites, runVars, Types
<1>2. ASSUME NEW r \in Runs, NEW w \in Windows, Begin(r, w) PROVE Types'
  BY <1>2, RunBegins DEF Types
<1>3. ASSUME NEW r \in Runs, Slice(r) PROVE Types'
  BY <1>3, SliceTakes DEF Types
<1>4. ASSUME NEW r \in Runs, SendChunk(r) PROVE Types'
  BY <1>4, ChunkTakes, ReceiveCounts DEF Types
<1>5. ASSUME NEW r \in Runs, RecordNotify(r) PROVE Types'
  <2>1. ledger' \in Seq(Entries)
    BY <1>5, RunRecords, NotifyAddsACursor
  <2> QED
    BY <1>5, <2>1, RunRecords, ExitLeavesNothing DEF Types
<1>6. ASSUME NEW r \in Runs, SendFails(r) \/ Die(r) PROVE Types'
  BY <1>6, TroubleEnds, ExitLeavesNothing DEF Types
<1>7. CASE UNCHANGED vars
  BY <1>7 DEF vars, runVars, Types
<1> QED
  BY <1>1, <1>2, <1>3, <1>4, <1>5, <1>6, <1>7 DEF Next, Progress

\* No cursor and no run gets ahead of the ledger, whoever writes to it.
LEMMA PlaceStep == ASSUME Types, PlaceInv, [Next]_vars PROVE PlaceInv'
<1>a. Len(ledger) \in Nat /\ \A r \in Runs : snap[r] \in Nat
  BY DEF Types
<1>1. CASE ToolWrites
  <2>1. PICK e \in {Event, PollEntry(1)} : Record(e)
    BY <1>1 DEF ToolWrites
  <2>2. /\ Len(ledger') = Len(ledger) + 1
        /\ NotifyCounts(ledger') = NotifyCounts(ledger)
        /\ Notifiable(ledger) \subseteq Notifiable(ledger')
        /\ Notifiable(ledger') \subseteq Notifiable(ledger) \cup {Len(ledger) + 1}
    BY <2>1, ToolsMoveNoCursor
  <2>3. Len(ledger) + 1 \in 1..MaxEntries
    BY <1>1, <1>a, NotifierBounds DEF ToolWrites
  <2>4. NotifyCounts(ledger) \subseteq 0..(Len(ledger) + 1)
    BY <1>a DEF PlaceInv
  <2>5. \A r \in Runs : snap[r] <= Len(ledger) + 1
    BY <1>a DEF PlaceInv
  <2>6. UNCHANGED <<stage, snap, todo>>
    BY <1>1 DEF ToolWrites, runVars
  <2> QED
    BY <2>2, <2>3, <2>4, <2>5, <2>6 DEF PlaceInv
<1>2. ASSUME NEW r \in Runs, NEW w \in Windows, Begin(r, w) PROVE PlaceInv'
  <2>1. todo[r] = {} /\ Len(ledger) <= Len(ledger)
    BY <1>2, <1>a, RunBegins DEF PlaceInv
  <2> QED
    BY <1>2, <2>1, RunBegins DEF PlaceInv, Others
<1>3. ASSUME NEW r \in Runs, Slice(r) PROVE PlaceInv'
  BY <1>3, SliceTakes DEF PlaceInv, Others
<1>4. ASSUME NEW r \in Runs, SendChunk(r) PROVE PlaceInv'
  BY <1>4, ChunkTakes DEF PlaceInv, Others
<1>5. ASSUME NEW r \in Runs, RecordNotify(r) PROVE PlaceInv'
  <2>1. /\ Len(ledger') = Len(ledger) + 1 /\ Notifiable(ledger') = Notifiable(ledger)
        /\ NotifyCounts(ledger') \subseteq NotifyCounts(ledger) \cup {0, snap[r]}
    BY <1>5, RunRecords, NotifyAddsACursor
  <2>2. NotifyCounts(ledger) \cup {0, snap[r]} \subseteq 0..(Len(ledger) + 1)
    BY <1>a DEF PlaceInv
  <2>3. \A q \in Runs : snap[q] <= Len(ledger) + 1 /\ 0 <= Len(ledger) + 1
    BY <1>a DEF PlaceInv
  <2>4. /\ stage'[r] = "idle" /\ snap'[r] = 0 /\ todo'[r] = {} /\ Others(r)
    BY <1>5, RunRecords, ExitLeavesNothing
  <2> QED
    BY <2>1, <2>2, <2>3, <2>4 DEF PlaceInv, Others
<1>6. ASSUME NEW r \in Runs, SendFails(r) \/ Die(r) PROVE PlaceInv'
  <2>1. ledger' = ledger /\ snap'[r] = 0 /\ todo'[r] = {} /\ Others(r) /\ 0 <= Len(ledger)
    BY <1>6, <1>a, TroubleEnds, ExitLeavesNothing
  <2> QED
    BY <2>1 DEF PlaceInv, Others
<1>7. CASE UNCHANGED vars
  BY <1>7 DEF vars, runVars, PlaceInv
<1> QED
  BY <1>1, <1>2, <1>3, <1>4, <1>5, <1>6, <1>7 DEF Next, Progress

\* A cursor is recorded only over what was told: the entries a run could not have
\* seen lie beyond its snapshot, however long it takes.
LEMMA ToldStep == ASSUME Types, PlaceInv, ToldInv, [Next]_vars PROVE ToldInv'
<1>a. /\ Len(ledger) \in Nat /\ \A r \in Runs : snap[r] \in Nat
      /\ copies \in [1..MaxEntries -> 0..2]
  BY DEF Types
<1>b. /\ NotifyCounts(ledger) \subseteq Nat /\ Notifiable(ledger) \subseteq 1..MaxEntries
      /\ \A n \in NotifyCounts(ledger) : n <= Len(ledger)
      /\ \A r \in Runs : snap[r] <= Len(ledger)
  BY <1>a DEF PlaceInv
<1>1. CASE ToolWrites
  <2>1. PICK e \in {Event, PollEntry(1)} : Record(e)
    BY <1>1 DEF ToolWrites
  <2>2. /\ NotifyCounts(ledger') = NotifyCounts(ledger)
        /\ Notifiable(ledger') \subseteq Notifiable(ledger) \cup {Len(ledger) + 1}
    BY <2>1, ToolsMoveNoCursor
  <2>3. UNCHANGED <<stage, window, snap, todo, copies>>
    BY <1>1 DEF ToolWrites, runVars
  <2>4. /\ \A n \in NotifyCounts(ledger) : ~(Len(ledger) + 1 <= n)
        /\ \A r \in Runs : ~(Len(ledger) + 1 <= snap[r])
    BY <1>a, <1>b
  <2> QED
    BY <2>2, <2>3, <2>4 DEF ToldInv
<1>2. ASSUME NEW r \in Runs, NEW w \in Windows, Begin(r, w) PROVE ToldInv'
  BY <1>2, RunBegins DEF ToldInv, Others, Telling
<1>3. ASSUME NEW r \in Runs, Slice(r) PROVE ToldInv'
  <2>1. \A i \in Notifiable(ledger) : i <= LastNotified(ledger) => copies[i] >= 1
    BY LastNotifiedIsGreatest DEF ToldInv
  <2>2. window[r] = "incremental" =>
            \A i \in Notifiable(ledger) : i <= snap[r] => i \in todo'[r] \/ copies[i] >= 1
    <3>1. LastNotified(ledger) \in Nat
      BY LastNotifiedIsGreatest
    <3> QED
      BY <1>3, <1>b, <2>1, <3>1, SliceTakes
  <2> QED
    BY <1>3, <2>2, SliceTakes DEF ToldInv, Others
<1>4. ASSUME NEW r \in Runs, SendChunk(r) PROVE ToldInv'
  <2>1. PICK chunk \in SUBSET todo[r] : Receive(chunk) /\ todo'[r] = todo[r] \ chunk
    BY <1>4, ChunkTakes
  <2>2. /\ copies' \in [1..MaxEntries -> 0..2]
        /\ \A i \in 1..MaxEntries : copies'[i] >= copies[i] /\ (i \in chunk => copies'[i] >= 1)
    BY <2>1, ReceiveCounts
  <2>3. \A i \in 1..MaxEntries : copies[i] >= 1 => copies'[i] >= 1
    BY <1>a, <2>2
  <2>4. /\ UNCHANGED <<ledger, window, snap>> /\ stage[r] = "sending" /\ Others(r)
    BY <1>4, ChunkTakes
  <2> QED
    BY <1>b, <2>1, <2>2, <2>3, <2>4 DEF ToldInv, Others, Telling
<1>5. ASSUME NEW r \in Runs, RecordNotify(r) PROVE ToldInv'
  <2>1. /\ Notifiable(ledger') = Notifiable(ledger)
        /\ NotifyCounts(ledger') = NotifyCounts(ledger) \cup
              {IF window[r] = "incremental" THEN snap[r] ELSE 0}
    BY <1>5, RunRecords, NotifyAddsACursor
  <2>2. /\ stage[r] \in {"recording", "skipping"} /\ copies' = copies
        /\ stage'[r] = "idle" /\ Others(r)
    BY <1>5, RunRecords, ExitLeavesNothing
  <2>3. todo[r] = {}
    BY <2>2 DEF PlaceInv
  <2>4. \A i \in Notifiable(ledger) :
            i <= (IF window[r] = "incremental" THEN snap[r] ELSE 0) => copies[i] >= 1
    BY <1>b, <2>2, <2>3 DEF ToldInv, Telling
  <2> QED
    BY <2>1, <2>2, <2>4 DEF ToldInv, Others, Telling
<1>6. ASSUME NEW r \in Runs, SendFails(r) \/ Die(r) PROVE ToldInv'
  <2>1. /\ ledger' = ledger /\ stage'[r] = "idle" /\ Others(r)
        /\ copies' \in [1..MaxEntries -> 0..2]
        /\ \A i \in 1..MaxEntries : copies'[i] >= copies[i]
    BY <1>6, TroubleEnds, ExitLeavesNothing
  <2>2. \A i \in 1..MaxEntries : copies[i] >= 1 => copies'[i] >= 1
    BY <1>a, <2>1
  <2> QED
    BY <1>b, <2>1, <2>2 DEF ToldInv, Others, Telling
<1>7. CASE UNCHANGED vars
  BY <1>7 DEF vars, runVars, ToldInv
<1> QED
  BY <1>1, <1>2, <1>3, <1>4, <1>5, <1>6, <1>7 DEF Next, Progress

\* As long as nothing fails and nobody steps in, nobody is told anything twice.
LEMMA OnceStep == ASSUME Types, PlaceInv, OnceInv, [Next]_vars PROVE OnceInv'
<1> SUFFICES ASSUME troubles' = 0, ~manual'
             PROVE  /\ \A p, q \in Runs : stage'[p] # "idle" /\ stage'[q] # "idle" => p = q
                    /\ \A r \in Runs : stage'[r] # "idle" => window'[r] = "incremental"
                    /\ \A i \in 1..MaxEntries :
                          copies'[i] <= 1 /\ (copies'[i] = 1 => Delivered(i)')
                    /\ \A r \in Runs : \A i \in todo'[r] : copies'[i] = 0
  BY DEF OnceInv
<1> DEFINE Once ==
        /\ \A p, q \in Runs : stage[p] # "idle" /\ stage[q] # "idle" => p = q
        /\ \A r \in Runs : stage[r] # "idle" => window[r] = "incremental"
        /\ \A i \in 1..MaxEntries : copies[i] <= 1 /\ (copies[i] = 1 => Delivered(i))
        /\ \A r \in Runs : \A i \in todo[r] : copies[i] = 0
<1> SUFFICES Once'
  BY DEF Delivered
<1>a. troubles = 0 /\ ~manual => Once
  BY DEF OnceInv
<1>b. /\ Len(ledger) \in Nat /\ \A r \in Runs : snap[r] \in Nat
      /\ \A i \in 1..MaxEntries : copies[i] \in 0..2
  BY DEF Types
<1>1. CASE ToolWrites
  <2>1. PICK e \in {Event, PollEntry(1)} : Record(e)
    BY <1>1 DEF ToolWrites
  <2>2. NotifyCounts(ledger') = NotifyCounts(ledger)
    BY <2>1, ToolsMoveNoCursor
  <2>3. UNCHANGED <<stage, window, snap, todo, copies, troubles, manual>>
    BY <1>1 DEF ToolWrites, runVars
  <2> QED
    BY <1>a, <2>2, <2>3 DEF Delivered
<1>2. ASSUME NEW r \in Runs, NEW w \in Windows, Begin(r, w) PROVE Once'
  <2>1. /\ UNCHANGED <<ledger, todo, copies, troubles>> /\ Others(r)
        /\ stage'[r] = "slicing" /\ window'[r] = "incremental"
        /\ ~manual /\ \A q \in Runs : stage[q] = "idle"
    BY <1>2, RunBegins
  <2>2. Once
    BY <1>a, <2>1
  <2> QED
    BY <2>1, <2>2 DEF Delivered, Others
<1>3. ASSUME NEW r \in Runs, Slice(r) PROVE Once'
  <2>1. /\ UNCHANGED <<ledger, window, snap, copies, troubles, manual>> /\ Others(r)
        /\ stage[r] = "slicing" /\ stage'[r] \in {"skipping", "sending"}
        /\ todo'[r] \subseteq Notifiable(ledger)
        /\ window[r] = "incremental" =>
              \A i \in Notifiable(ledger) :
                  i \in todo'[r] <=> LastNotified(ledger) < i /\ i <= snap[r]
    BY <1>3, SliceTakes
  <2>2. Once
    BY <1>a, <2>1
  <2>3. \A i \in 1..MaxEntries : copies[i] = 1 => i <= LastNotified(ledger)
    <3>1. ASSUME NEW i \in 1..MaxEntries, copies[i] = 1
          PROVE  \E n \in NotifyCounts(ledger) : i <= n
      BY <2>1, <2>2, <3>1 DEF Delivered
    <3>2. \A n \in NotifyCounts(ledger) : n \in Nat /\ n <= LastNotified(ledger)
      BY <1>b, LastNotifiedIsGreatest DEF PlaceInv
    <3> QED
      BY <3>1, <3>2, LastNotifiedIsGreatest
  <2>4. ASSUME NEW i \in todo'[r] PROVE copies[i] = 0
    <3>1. i \in 1..MaxEntries /\ LastNotified(ledger) < i /\ LastNotified(ledger) \in Nat
      BY <2>1, <2>2, LastNotifiedIsGreatest DEF PlaceInv
    <3>2. copies[i] <= 1 /\ copies[i] # 1
      BY <2>2, <2>3, <3>1
    <3> QED
      BY <1>b, <3>1, <3>2
  <2>5. \A i \in 1..MaxEntries : copies[i] = 1 => \E n \in NotifyCounts(ledger) : i <= n
    BY <2>3, LastNotifiedIsGreatest
  <2> QED
    BY <2>1, <2>2, <2>4, <2>5 DEF Delivered, Others
<1>4. ASSUME NEW r \in Runs, SendChunk(r) PROVE Once'
  <2>1. /\ UNCHANGED <<ledger, window, snap, troubles, manual>> /\ Others(r)
        /\ stage[r] = "sending" /\ stage'[r] \in {"recording", "sending"}
    BY <1>4, ChunkTakes
  <2>2. PICK chunk \in SUBSET todo[r] : Receive(chunk) /\ todo'[r] = todo[r] \ chunk
    BY <1>4, ChunkTakes
  <2>3. Once
    BY <1>a, <2>1
  <2>4. /\ \A i \in 1..MaxEntries :
              IF i \in chunk THEN copies'[i] = 1 ELSE copies'[i] = copies[i]
        /\ todo[r] \subseteq 1..MaxEntries /\ \A i \in todo[r] : i <= snap[r]
    <3>1. todo[r] \subseteq 1..MaxEntries /\ \A i \in todo[r] : i <= snap[r]
      BY <1>b DEF PlaceInv
    <3> QED
      BY <2>2, <2>3, <3>1, ReceiveCounts
  <2>5. \A q \in Runs \ {r} : stage[q] = "idle" /\ todo[q] = {}
    BY <2>1, <2>3 DEF PlaceInv
  <2>6. ASSUME NEW i \in 1..MaxEntries
        PROVE  copies'[i] <= 1 /\ (copies'[i] = 1 => Delivered(i)')
    <3>1. CASE i \in chunk
      BY <2>1, <2>2, <2>4, <3>1 DEF Delivered
    <3>2. CASE i \notin chunk
      <4>1. copies'[i] = copies[i] /\ copies[i] <= 1 /\ (copies[i] = 1 => Delivered(i))
        BY <2>3, <2>4, <3>2
      <4>2. Delivered(i) => Delivered(i)'
        BY <2>1, <2>2, <2>5 DEF Delivered, Others
      <4> QED
        BY <4>1, <4>2
    <3> QED
      BY <3>1, <3>2
  <2>7. ASSUME NEW q \in Runs, NEW i \in todo'[q] PROVE copies'[i] = 0
    <3>1. q = r /\ i \in todo[r] /\ i \notin chunk
      BY <2>1, <2>2, <2>5, <2>7 DEF Others
    <3> QED
      BY <2>3, <2>4, <3>1
  <2> QED
    BY <2>1, <2>3, <2>6, <2>7 DEF Others
<1>5. ASSUME NEW r \in Runs, RecordNotify(r) PROVE Once'
  <2>1. NotifyCounts(ledger') = NotifyCounts(ledger) \cup
            {IF window[r] = "incremental" THEN snap[r] ELSE 0}
    BY <1>5, RunRecords, NotifyAddsACursor
  <2>2. /\ UNCHANGED <<copies, troubles, manual>>
        /\ stage[r] \in {"recording", "skipping"}
        /\ stage'[r] = "idle" /\ todo'[r] = {} /\ Others(r)
    BY <1>5, RunRecords, ExitLeavesNothing
  <2>3. Once
    BY <1>a, <2>2
  <2>4. \A i \in 1..MaxEntries : Delivered(i) => \E n \in NotifyCounts(ledger') : i <= n
    BY <2>1, <2>2, <2>3 DEF Delivered
  <2> QED
    BY <2>2, <2>3, <2>4 DEF Delivered, Others
<1>6. ASSUME NEW r \in Runs, SendFails(r) \/ Die(r) PROVE FALSE
  BY <1>6, TroubleEnds
<1>7. CASE UNCHANGED vars
  BY <1>7, <1>a DEF vars, runVars, Delivered
<1> QED
  BY <1>1, <1>2, <1>3, <1>4, <1>5, <1>6, <1>7 DEF Next, Progress

-----------------------------------------------------------------------------
\* The invariant of notify: what a run's snapshot, its slice and the recorded cursors
\* together say was told, was told.
THEOREM NotifierInvariant == Spec => []IInv
<1>1. IInv /\ [Next]_vars => IInv'
  BY TypesStep, PlaceStep, ToldStep, OnceStep DEF IInv
<1> QED
  BY InitHolds, <1>1, PTL DEF Spec

\* Nothing the cursor has passed was left untold, whichever runs failed, died, were
\* started by hand or ran over each other.
THEOREM NothingIsSkipped == Spec => []NothingSkipped
<1>1. IInv => NothingSkipped
  BY LastNotifiedIsGreatest DEF IInv, ToldInv, NothingSkipped
<1> QED
  BY <1>1, NotifierInvariant, PTL

\* Nothing is told twice unless a send failed, a process died, or somebody ran notify
\* by hand with --since or while another run was under way.
THEOREM RepeatsAreExplained == Spec => []RepeatsHaveAReason
<1>1. IInv => RepeatsHaveAReason
  BY DEF IInv, Types, OnceInv, RepeatsHaveAReason
<1> QED
  BY <1>1, NotifierInvariant, PTL
=============================================================================
