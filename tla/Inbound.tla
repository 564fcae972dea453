------------------------------- MODULE Inbound -------------------------------
(***************************************************************************)
(* The daemon, `mytelegrambot run`: the only consumer of Telegram's update *)
(* queue (inbound.py, with authz.py, router.py and transport.py as far as  *)
(* they decide what happens to an update).                                 *)
(*                                                                         *)
(* Telegram numbers updates 1, 2, 3...: inbox[u] is the update with id u.  *)
(* It keeps an update until a getUpdates call asks for a later offset;     *)
(* `confirmed` is the last one it has forgotten.  The daemon handles a     *)
(* batch one update at a time, then records a cursor in the ledger, and    *)
(* may die between any two steps; systemd starts it again.                 *)
(***************************************************************************)
EXTENDS PendingChats, OperatorChat, FiniteSetsExt

CONSTANTS
    Chats,          \* chat ids that may contact the bot
    Operator,       \* TELEGRAM_CHAT_ID
    Admissible,     \* chats the operator may register as testers
    NoChat,         \* the chat id of an update that carries none
    Traffic,        \* the updates chats may send
    StoreMayFail,   \* whether the testers database may become unreadable
    MaxUpdates, MaxBatch, MaxCrashes    \* bounds of the instance

Update ==
    [kind : {"command", "button", "other"}, chat : Chats \cup {NoChat}]
      \cup [kind : {"tap"}, chat : Chats, message : Prompts, decision : Decisions]

ASSUME ChatsAssumption ==
    /\ Operator \in Chats /\ NoChat \notin Chats
    /\ Admissible \subseteq Chats \ {Operator}
ASSUME TrafficAssumption == Traffic \subseteq Update
ASSUME BoundsAssumption ==
    /\ MaxUpdates \in Nat \ {0} /\ MaxBatch \in Nat \ {0} /\ MaxCrashes \in Nat
    /\ StoreMayFail \in BOOLEAN

VARIABLES
    inbox,      \* every update sent to the bot, by id
    confirmed,  \* Telegram no longer delivers updates up to this id
    admitted,   \* enabled testers in the database
    storeOK,    \* whether the database can be read
    pc,         \* what the daemon does next
    offset,     \* next_offset
    cur, last,  \* the update in hand and the end of the batch
    handled,    \* history: updates some handling ran to its end for
    runs,       \* history: how often this process dispatched each update
    heard,      \* history: replies delivered, as <<chat, update>>
    guests,     \* history: testers enabled at some moment since the update in hand was
                \* taken up
    crashes

daemonVars == <<pc, offset, cur, last>>
history == <<handled, runs, heard, guests, crashes>>
world == <<inbox, confirmed, admitted, storeOK>>
vars == <<ledger, seen, prompts, daemonVars, history, world>>

UpdateIds == 1..MaxUpdates
Stages == {"down", "polling", "handling", "recorded", "answered", "draining", "commit"}

\* last_seen_update_id; 0 stands for "no cursor yet", ids start at 1.
Cursors(l) == {0} \cup {l[i].last_update_id : i \in EntriesOf(l, "poll")}
LastSeen(l) == Max(Cursors(l))

\* ChatAuthorizer.authorize: the operator by configuration, testers by the store.
Authorized(chat) == chat = Operator \/ chat \in admitted

DaemonInit ==
    /\ inbox = <<>> /\ confirmed = 0
    /\ admitted = {} /\ storeOK = TRUE
    /\ pc = "down" /\ offset = 1 /\ cur = 1 /\ last = 0
    /\ seen = {}
    /\ handled = {} /\ heard = {} /\ guests = {} /\ crashes = 0
    /\ runs = [u \in UpdateIds |-> 0]

Init ==
    /\ DaemonInit
    /\ ledger = <<>>
    /\ prompts = [m \in Prompts |-> "pending"]

-----------------------------------------------------------------------------
(* The world: Telegram's users, the operator's `testers` CLI, the database. *)

\* The operator can tap a prompt only while it shows its buttons; a tap is
\* queued at once, whatever the daemon is doing.
Send(u) ==
    /\ Len(inbox) < MaxUpdates
    /\ u.kind = "tap" /\ u.chat = Operator => prompts[u.message] = "pending"
    /\ inbox' = Append(inbox, u)
    /\ UNCHANGED <<ledger, seen, prompts, daemonVars, history, confirmed, admitted, storeOK>>

\* testers add / testers enable, and testers disable.
Admit(c) ==
    /\ storeOK /\ c \notin admitted
    /\ admitted' = admitted \cup {c}
    /\ guests' = guests \cup {c}
    /\ UNCHANGED <<ledger, seen, prompts, daemonVars, handled, runs, heard, crashes, inbox,
                   confirmed, storeOK>>

Revoke(c) ==
    /\ storeOK /\ c \in admitted
    /\ admitted' = admitted \ {c}
    /\ UNCHANGED <<ledger, seen, prompts, daemonVars, history, inbox, confirmed, storeOK>>

StoreBreaks ==
    /\ StoreMayFail /\ storeOK
    /\ storeOK' = FALSE
    /\ UNCHANGED <<ledger, seen, prompts, daemonVars, history, inbox, confirmed, admitted>>

StoreHeals ==
    /\ ~storeOK
    /\ storeOK' = TRUE
    /\ UNCHANGED <<ledger, seen, prompts, daemonVars, history, inbox, confirmed, admitted>>

-----------------------------------------------------------------------------
(* run_forever: start, fetch, commit. *)

StartAt(next) ==
    /\ pc = "down"
    /\ LoadSeen
    /\ offset' = next
    /\ pc' = "polling"
    /\ runs' = [u \in UpdateIds |-> 0]
    /\ UNCHANGED <<ledger, prompts, cur, last, handled, heard, guests, crashes, world>>

\* Mutants: the cursor itself is asked for again; the backlog is skipped.
StartAtCursor == StartAt(LastSeen(ledger))
StartPastBacklog == StartAt(Len(inbox) + 1)

Start ==
    /\ pc = "down"
    /\ LoadSeen
    /\ offset' = LastSeen(ledger) + 1
    /\ pc' = "polling"
    /\ runs' = [u \in UpdateIds |-> 0]
    /\ UNCHANGED <<ledger, prompts, cur, last, handled, heard, guests, crashes, world>>

\* getUpdates(offset) makes Telegram forget what came before offset, also when
\* the answer is empty or is lost on the way back.
PollEmpty ==
    /\ pc = "polling"
    /\ confirmed' \in {confirmed, Max({confirmed, offset - 1})}
    /\ UNCHANGED <<ledger, seen, prompts, daemonVars, history, inbox, admitted, storeOK>>

\* Who is let in is asked anew for each update.
TakeUp == guests' = admitted

\* Mutant: the cursor is recorded when the batch arrives.
PollCommitsFirst ==
    /\ pc = "polling"
    /\ \E n \in Max({confirmed + 1, offset})..Len(inbox) :
          n < Max({confirmed + 1, offset}) + MaxBatch /\ last' = n
    /\ Record(PollEntry(last'))
    /\ confirmed' = Max({confirmed, offset - 1})
    /\ cur' = Max({confirmed + 1, offset})
    /\ pc' = "handling" /\ TakeUp
    /\ UNCHANGED <<seen, prompts, offset, handled, runs, heard, crashes, inbox, admitted,
                   storeOK>>

PollBatch ==
    LET first == Max({confirmed + 1, offset}) IN
    /\ pc = "polling"
    /\ \E n \in first..Len(inbox) : n < first + MaxBatch /\ last' = n
    /\ confirmed' = Max({confirmed, offset - 1})
    /\ cur' = first
    /\ pc' = "handling" /\ TakeUp
    /\ UNCHANGED <<ledger, seen, prompts, offset, handled, runs, heard, crashes, inbox,
                   admitted, storeOK>>

\* Mutant: one update too far.
CommitSkipsOne ==
    /\ pc = "commit"
    /\ offset' = last + 2
    /\ Record(PollEntry(last))
    /\ pc' = "polling"
    /\ UNCHANGED <<seen, prompts, cur, last, history, world>>

Commit ==
    /\ pc = "commit"
    /\ offset' = last + 1
    /\ Record(PollEntry(last))
    /\ pc' = "polling"
    /\ UNCHANGED <<seen, prompts, cur, last, history, world>>

-----------------------------------------------------------------------------
(* handle_batch: one update. *)

FinishUpdate ==
    /\ handled' = handled \cup {cur}
    /\ IF cur < last THEN cur' = cur + 1 /\ pc' = "handling"
                     ELSE cur' = cur /\ pc' = "commit"
    /\ TakeUp
    /\ UNCHANGED <<offset, last>>

\* Mutant: a chat let in once is let in for the rest of the batch.
InHandCached(kind) ==
    /\ pc = "handling"
    /\ inbox[cur].kind = kind
    /\ \/ Authorized(inbox[cur].chat)
       \/ \E u \in offset..(cur - 1) : runs[u] > 0 /\ inbox[u].chat = inbox[cur].chat
    /\ inbox[cur].chat # Operator => storeOK

\* The update in hand, once its chat is authorized.
InHand(kind) ==
    /\ pc = "handling"
    /\ inbox[cur].kind = kind
    /\ Authorized(inbox[cur].chat)
    /\ inbox[cur].chat # Operator => storeOK

\* by_chat_id raises: nothing in handle_batch or run_forever catches it.
AuthorizeRaises ==
    /\ pc = "handling"
    /\ inbox[cur].chat \notin {Operator, NoChat}
    /\ ~storeOK
    /\ pc' = "down"
    /\ UNCHANGED <<ledger, seen, prompts, offset, cur, last, history, world>>

\* Mutant: an update without a chat id is recorded as a knock too.
DropUnknownAny ==
    /\ pc = "handling"
    /\ inbox[cur].chat = NoChat \/ storeOK
    /\ ~Authorized(inbox[cur].chat)
    /\ RecordKnock(inbox[cur].chat)
    /\ FinishUpdate
    /\ UNCHANGED <<prompts, runs, heard, crashes, world>>

DropUnknown ==
    /\ pc = "handling"
    /\ inbox[cur].chat = NoChat \/ storeOK
    /\ ~Authorized(inbox[cur].chat)
    /\ IF inbox[cur].chat = NoChat THEN UNCHANGED <<ledger, seen>>
                                   ELSE RecordKnock(inbox[cur].chat)
    /\ FinishUpdate
    /\ UNCHANGED <<prompts, runs, heard, crashes, world>>

\* An ask decision from a tester cannot be the answer to an operator's prompt.
DropForeignDecision ==
    /\ InHand("tap")
    /\ inbox[cur].chat # Operator
    /\ FinishUpdate
    /\ UNCHANGED <<ledger, seen, prompts, runs, heard, crashes, world>>

\* Mutant: whoever tapped, the decision is recorded.
RecordAnyDecision ==
    /\ InHand("tap")
    /\ Record(CallbackEntry(inbox[cur].message, inbox[cur].decision))
    /\ pc' = "recorded"
    /\ UNCHANGED <<seen, prompts, offset, cur, last, history, world>>

RecordDecision ==
    /\ InHand("tap")
    /\ inbox[cur].chat = Operator
    /\ Record(CallbackEntry(inbox[cur].message, inbox[cur].decision))
    /\ pc' = "recorded"
    /\ UNCHANGED <<seen, prompts, offset, cur, last, history, world>>

\* The prompt is rewritten with the decision, or loses its buttons, or the call
\* fails and it stays as it is; none of it may undo the record.
AcknowledgeDecision ==
    /\ pc = "recorded"
    /\ \E shown \in {inbox[cur].decision, "cleared", prompts[inbox[cur].message]} :
          prompts' = [prompts EXCEPT ![inbox[cur].message] = shown]
    /\ FinishUpdate
    /\ UNCHANGED <<ledger, seen, runs, heard, crashes, world>>

\* Any other button: the tap is answered first, then the handler is called.
AnswerTap ==
    /\ InHand("button")
    /\ pc' = "answered"
    /\ UNCHANGED <<ledger, seen, prompts, offset, cur, last, history, world>>

DropUnroutedTap ==
    /\ pc = "answered"
    /\ FinishUpdate
    /\ UNCHANGED <<ledger, seen, prompts, runs, heard, crashes, world>>

\* The handler runs; what it does outside the bot happens from here on.
Dispatch ==
    /\ pc = "answered" \/ InHand("command")
    /\ runs' = [runs EXCEPT ![cur] = @ + 1]
    /\ pc' = "draining"
    /\ UNCHANGED <<ledger, seen, prompts, offset, cur, last, handled, heard, guests, crashes,
                   world>>

\* Media, a malformed callback, text that is no command.
IgnoreUpdate ==
    /\ InHand("other")
    /\ FinishUpdate
    /\ UNCHANGED <<ledger, seen, prompts, runs, heard, crashes, world>>

Deliver == {heard, heard \cup {<<inbox[cur].chat, cur>>}}

\* _drain pulls the next reply; a send that fails is not retried.
\* (Mutant: a send that fails has the update handled again.)
SendReplyOrRetry ==
    /\ pc = "draining"
    /\ heard' \in Deliver
    /\ pc' = IF heard' = heard THEN "handling" ELSE pc
    /\ UNCHANGED <<ledger, seen, prompts, offset, cur, last, handled, runs, guests, crashes,
                   world>>

SendReply ==
    /\ pc = "draining"
    /\ heard' \in Deliver
    /\ UNCHANGED <<ledger, seen, prompts, daemonVars, handled, runs, guests, crashes, world>>

DrainEnds ==
    /\ pc = "draining"
    /\ FinishUpdate
    /\ UNCHANGED <<ledger, seen, prompts, runs, heard, crashes, world>>

\* The handler raises: the chat is told, best effort, and the update is done.
HandlerFails ==
    /\ pc = "draining"
    /\ heard' \in Deliver
    /\ FinishUpdate
    /\ UNCHANGED <<ledger, seen, prompts, runs, crashes, world>>

\* The process dies: killed, or an exception nothing catches.
Crash ==
    /\ pc # "down" /\ crashes < MaxCrashes
    /\ crashes' = crashes + 1
    /\ pc' = "down"
    /\ UNCHANGED <<ledger, seen, prompts, offset, cur, last, handled, runs, heard, guests,
                   world>>

-----------------------------------------------------------------------------
HandleUpdate ==
    \/ AuthorizeRaises \/ DropUnknown \/ DropForeignDecision
    \/ RecordDecision \/ AcknowledgeDecision
    \/ AnswerTap \/ DropUnroutedTap \/ Dispatch \/ IgnoreUpdate
    \/ DrainEnds \/ HandlerFails

World ==
    \/ \E u \in Traffic : Send(u)
    \/ \E c \in Admissible : Admit(c) \/ Revoke(c)
    \/ StoreBreaks \/ StoreHeals

Daemon == Start \/ PollEmpty \/ PollBatch \/ HandleUpdate \/ SendReply \/ Commit \/ Crash

Next == World \/ Daemon

Spec == Init /\ [][Next]_vars

\* systemd restarts the daemon, Telegram answers eventually, a handler returns.
Fairness ==
    WF_vars(Start) /\ WF_vars(PollBatch) /\ WF_vars(HandleUpdate) /\ WF_vars(Commit)

FairSpec == Spec /\ Fairness

-----------------------------------------------------------------------------
(* Properties. *)

\* What the daemon writes to the ledger.
Entry ==
    {PollEntry(n) : n \in UpdateIds}
      \cup {CallbackEntry(m, d) : m \in Prompts, d \in Decisions}
      \cup {KnockEntry(c) : c \in Chats}

\* The values of the variables: one invariant, relied on by every proof.
TypeOK ==
    /\ ledger \in Seq(Entry)
    /\ inbox \in Seq(Traffic) /\ Len(inbox) <= MaxUpdates
    /\ confirmed \in Nat /\ offset \in Nat \ {0}
    /\ cur \in Nat \ {0} /\ last \in Nat
    /\ pc \in Stages
    /\ admitted \subseteq Admissible /\ storeOK \in BOOLEAN
    /\ prompts \in [Prompts -> PromptStates]
    /\ seen \subseteq Chats
    /\ handled \subseteq UpdateIds
    /\ runs \in [UpdateIds -> Nat]
    /\ heard \subseteq (Chats \cup {NoChat}) \X UpdateIds
    /\ guests \subseteq Admissible
    /\ crashes \in 0..MaxCrashes

\* Telegram never forgets an update whose handling did not run to its end: the
\* cursor is recorded after the batch, and only then offered to getUpdates, so
\* a crash anywhere in between has the update delivered again.
NothingLost == \A u \in 1..confirmed : u \in handled

\* Once a batch's cursor is in the ledger no process, restarted or not, calls a
\* handler for an update of that batch again.
CommittedNeverReplayed ==
    [][\A u \in UpdateIds : runs'[u] > runs[u] => u > LastSeen(ledger)]_vars

\* One process calls a handler at most once for an update, whatever fails: a
\* reply that cannot be sent and a handler that raises are not retried.  Only a
\* restart before the cursor is recorded repeats work.
OncePerProcess == \A u \in UpdateIds : runs[u] <= 1

\* A handler runs for, and a reply reaches, nobody but the operator and a tester who
\* was enabled at some moment since that very update was taken up.  That the chat was
\* let in before, in this batch, in the process that died or while the update waited in
\* Telegram's queue, serves nothing once `testers disable` has returned.
OnlyTheEnabledAreServed ==
    [][LET served == {u \in UpdateIds : runs'[u] > runs[u]}
                       \cup {h[2] : h \in heard' \ heard}
       IN  \A u \in served : inbox[u].chat \in {Operator} \cup guests]_vars

\* The decision a waiting ask will take for a prompt is the first one the
\* operator tapped, in the order of the taps, and nobody else's: neither a
\* tester's forged tap, nor a second tap, nor a redelivery after a crash of
\* taps recorded before it changes it.
FirstTapDecides ==
    \A m \in Prompts :
        LET taps == {u \in DOMAIN inbox :
                       /\ inbox[u].kind = "tap" /\ inbox[u].chat = Operator
                       /\ inbox[u].message = m}
        IN  CallbacksFor(ledger, m) # {} =>
                taps # {} /\ FirstDecision(ledger, m) = inbox[Min(taps)].decision

\* An approval is never forgotten: once Telegram will not deliver the operator's
\* tap again, its prompt has a decision in the ledger, whatever died on the way.
TapsAreRecorded ==
    \A u \in 1..confirmed :
        inbox[u].kind = "tap" /\ inbox[u].chat = Operator
            => CallbacksFor(ledger, inbox[u].message) # {}

\* Knocks leave one row per chat and at most Cap rows, across restarts that
\* forget the in-memory set and redeliver the knocks.
KnocksBounded ==
    /\ Cardinality(EntriesOf(ledger, "unknown_chat")) = Cardinality(Knocks(ledger))
    /\ Cardinality(Knocks(ledger)) <= Cap

\* A chat turned away for good is on the list `testers pending` prints, unless
\* the list was already full: its message is gone, its knock must not be.
KnockNotLost ==
    \A u \in handled :
        inbox[u].chat \notin Admissible \cup {Operator, NoChat} =>
            \/ inbox[u].chat \in Pending(ledger, admitted)
            \/ Cardinality(Knocks(ledger)) >= Cap

\* Every update sent is eventually handled to its end, if Telegram answers now
\* and then, handlers return, the daemon is restarted when it dies and the testers
\* database can be read (OwnerNeverLockedOut is about one that cannot).
EveryUpdateHandled ==
    \A u \in UpdateIds : (u <= Len(inbox)) ~> (u \in handled)

-----------------------------------------------------------------------------
(* What the repository says of the daemon and the runs refute. *)

\* authz.py: "a corrupt or absent testers db must never lock the owner out of
\* their own bot".  Read: what the operator sends is eventually handled.
OwnerNeverLockedOut ==
    \A u \in UpdateIds :
        (u <= Len(inbox) /\ inbox[u].chat = Operator) ~> (u \in handled)
=============================================================================
