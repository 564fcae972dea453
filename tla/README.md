# A TLA+ development of my-telegram-bot

my-telegram-bot connects a fleet of tools to its operator over Telegram. It is a
handful of processes that share no memory: one long-lived daemon, short-lived
`ask` and `notify` processes, and an operator's command line. They meet in three
places, none of which belongs to them: the fleet's append-only ledger, Telegram,
and a database of registered testers. What can go wrong here is what goes wrong
between processes: a restart in the middle of a batch, an answer that comes while
its question is timing out, a cursor that runs ahead of the work. These modules
state what the code promises about those cases, check it with TLC on small
instances, and prove every safety property of theirs with TLAPS for all instances.

Line numbers are of `src/src/mytelegrambot/`.

## The system

| part | state | operations | talks to |
|---|---|---|---|
| daemon (`inbound.py`, `cli.py run`) | `next_offset`, the batch in hand | fetch, authorize, record a decision, dispatch a command or button, send replies, record the cursor | Telegram's update queue, ledger, testers database |
| authorization (`authz.py`) | none | operator by configuration, testers by database; reserve and release an Engine call | testers database |
| pending chats (`pending.py`) | `_seen`, in memory | record a knock once and up to a cap, list those not admitted | ledger |
| ask (`policy.py`, `cli.py ask`) | message id, deadline | send a prompt, wait for its `callback` entry, fail closed, record the outcome | Telegram, ledger |
| notify (`notifier.py`) | none between runs | snapshot, slice by cursor or `--since`, send in chunks, record the cursor | Telegram, ledger |
| idea, note, guide (`*_command.py`) | none | reserve, file, call the Engine, reply, refund | testers database, GitHub, ledger |
| fleet controls (`halt_`, `spend_`, `blocker_command.py`) | none | run an external command, record it | an external command, ledger |
| threads (`threads.py`) | none | last message of a subject | ledger |
| status, help, menu, setup | none | read-only or one-off | ledger, Telegram |
| typing (`inbound.py`) | a thread per pull | show "typing…" while a handler takes long | Telegram |
| routing (`router.py`) | none | parse commands and callback_data, encode buttons | none |
| transport (`transport.py`) | none | HTTP calls, chunking, Markdown fallback | Telegram |

The hard behaviours, each listed at its line under `hazards` in PROJECT.json:

* a crash between a handler's effects and the cursor (inbound.py:370), and the
  confirmation of updates by the next offset (inbound.py:351);
* exceptions nobody catches, of the testers database above all (inbound.py:296);
* failures after effects: a reply, an acknowledgement, a chunk, a refund;
* a tap racing the asker's deadline (policy.py:58-66), a tap after it, two taps,
  a tester's tap, a prompt whose `sendMessage` answer was lost;
* a request whose effects lie in three stores, an issue on GitHub, an entry in the
  tester's ledger and a receipt in his chat, one after the other (idea_command.py:108-128);
* a reply of several chunks that fails half-way, or whose answer is lost
  (inbound.py:106-129), next to a thread whose last call nobody waits for (inbound.py:163);
* two `notify` runs at once, writers in between (notifier.py:102-113, 149);
* bounds: the knock cap over restarts, the Engine quota over crashes.

What makes each part correct: the daemon loses no update and repeats work only
within the batch it died in; the first tap of the operator is the decision; an
`ask` allows only what was allowed and always ends; `notify` passes nothing by;
knocks leave one row each; Engine calls never exceed what was reserved; a tester's
requests touch his own ideas only, and he hears of each one he filed; the messages on
a subject form a chain without holes; a text in means the command it says.

## The modules

| module | models |
|---|---|
| `FleetLedger` | the ledger: `Record`, the entries this tool reads back, and how it reads a prompt's decision |
| `OperatorChat` | the prompts in the operator's chat, posted by askers and edited by the daemon |
| `PendingChats` | pending.py: `RecordKnock`, `LoadSeen`, `Knocks`, `Pending` |
| `Inbound` | the daemon, with Telegram's queue and the testers database around it |
| `InboundProofs` | theorems: the daemon |
| `AskHuman` | the processes that ask, with any daemon around them |
| `AskPromise` | what asking promises, with no ledger, queue or daemon |
| `AskRendezvous` | `Inbound` and `AskHuman` together; implements `AskPromise` |
| `AskProofs` | theorems: the askers, alone and with the daemon; that they implement `AskPromise` |
| `Notifier` | processes that run `notify`, over a ledger others write to |
| `NotifierProofs` | theorems: notify |
| `EngineQuota` | one tester's metered requests |
| `IdeaRequests` | what those requests do to the tester's ideas; extends `EngineQuota` and implements it |
| `EngineQuotaProofs` | theorems: the metering and the ideas; that `IdeaRequests` implements `EngineQuota` |
| `Conversation` | the drain of an update: replies, chunks, threads of messages, the typing indicator |
| `ConversationProofs` | theorems: the chat |
| `FleetControls` | /halt, /resume, the buttons of spend and blocker alerts |
| `FleetControlsProofs` | theorems: the controls |
| `TelegramChunks` | `chunk_for_telegram` |
| `Router` | router.py: commands and callback_data |
| `TextProofs` | theorems: `TelegramChunks` and `Router`, as `MCTexts` puts them together |
| `Extrema` | lemmas: a set of numbers has its least element, a bounded one its greatest |
| `MC*` | instances for TLC |

`FleetLedger` and `OperatorChat` are the shared state. `PendingChats`, `Notifier` and
`Conversation` extend the first, `Inbound` (with `PendingChats`) and `AskHuman` both, and
`AskRendezvous` extends these two, which so meet in one `ledger` and one `prompts`. `IdeaRequests`,
`FleetControls` and `Conversation` look into steps that are opaque to `Inbound`; what they need of the
daemon, redelivery of what its cursor does not cover, they restate in a few actions.

### Inbound

`inbox` is every update ever sent, by id; `confirmed` is the last one Telegram has
forgotten. The two are Telegram's. `getUpdates(offset)` confirms what is below
`offset`, also when its answer is empty or lost (`PollEmpty`); `PollBatch` returns
up to `MaxBatch` of the rest. `offset`, `cur` and `last` are the daemon's
`next_offset`, the update in hand and the end of the batch. `pc` is where the
daemon is: one update takes several steps where the code has several effects in
an order that matters.

| source | action |
|---|---|
| `run_forever`, start | `Start` |
| `fetch_updates` | `PollEmpty`, `PollBatch` |
| `authorize` raises / returns None | `AuthorizeRaises` / `DropUnknown` |
| `_handle_callback`, a decision from a tester | `DropForeignDecision` |
| `_handle_ask_decision`, the record, then the acknowledgement | `RecordDecision`, `AcknowledgeDecision` |
| `_handle_callback`, other buttons | `AnswerTap`, then `DropUnroutedTap` or `Dispatch` |
| `dispatch` of a command; other text and media | `Dispatch`; `IgnoreUpdate` |
| `_drain`, `_send` | `SendReply`, `DrainEnds`, `HandlerFails` |
| the poll entry and `next_offset` | `Commit` |
| death, or an exception nothing catches | `Crash` |

A handler is opaque here: its effects happen at `Dispatch` or between replies, and
`runs` counts how often a process called it. `handled`, `runs`, `heard`, `guests` and
`crashes` are history variables; `guests` are the testers who were enabled at some moment
since the update in hand was taken up, which is when `authorize` may have let one in.
`OnlyTheEnabledAreServed` compares what is dispatched and replied with them. Update ids are consecutive from 1; Telegram's are
increasing, and the code only compares them.

### AskHuman, AskPromise and AskRendezvous

Each asker goes through `evaluate`: pass through, or post a prompt, learn its
message id, read the ledger, look at the clock, read again, resolve. Posting and
learning are two steps, because Telegram's answer may be lost in between
(`AnswerLost`); so are reading and looking at the clock, because the tap may be
recorded in between. `Kill` ends a process anywhere. By itself the module lets any
process record a tap on a prompt that was shown (`Tapped`); in `AskRendezvous` that
process is the daemon, with the queue and its crashes.

`AskPromise` knows three things of an action: what the inner policy decided, what
the operator said, and the verdict. The refinement mapping takes what the operator
said from Telegram's queue: his first tap on the asker's prompt, before any
process of the tool has seen it. So `KeepsThePromise` covers the way of the tap
through queue, daemon and ledger, not only the asker's reading of it.

### Notifier

A run is `Begin` (the snapshot), `Slice` (the cursor, a second read), `SendChunk`
as often as it takes, `RecordNotify`. `SendFails` delivers any part of the digest and ends
the run; `Die` ends it anywhere. Runs may overlap. `copies` counts up to two how
often the operator got each entry. An `Event` is any entry a digest reports; usage
entries, which it reports as a sum, are among them.

### EngineQuota

One tester, one request at a time (the daemon is single-threaded). `/idea` and
`/note` reserve first and look at the text afterwards; `/wish` and Explore deeper
look first. A request whose daemon dies is delivered again (`CrashAndRedeliver`)
until its cursor is recorded (`CommitRequest`). A call that raises counts as not
made, which is how the handlers take it.

### IdeaRequests

The same requests with what they leave behind: `issues` on GitHub, by number and
filer; `filed` and `closed`, the entries of the tester's private ledger; the receipts
he was `told`. Every action is an action of `EngineQuota` with more conjuncts, or
leaves its variables alone. Where the code writes to two stores, there are two steps
and a crash may fall between them:

| source | actions |
|---|---|
| `file_idea` (external): the issue, then its entry | `CreateIssue`, `RecordFiling` |
| the receipt `handle_idea` yields first | `SendReceipt` |
| `explore` (external), with its comment | `Explore` |
| `close_idea`: the gate, gh, the entry | `CloseDenied`, `CloseOnGitHub` or `CloseRaises`, `RecordClose` |
| an exception out of any of them | `HandlerRaises` |

A tap carries any number or none, since the client makes it up. A crash redelivers the
request, which starts over: an `/idea` that died behind `CreateIssue` files a second
issue, and if it died before `RecordFiling` the first is nobody's in the ledger. That
is the code's at-least-once choice, and `OneIssuePerRequest` bounds it: one issue a
request and one more a crash. `untold` and `unrecorded` are history variables that
name each receipt and closing that was lost and why; a loss that is not one of theirs
violates `CapturedIsTold` or `ClosingsOnRecord`.

### Conversation

One chat, one daemon. `Dispatch` starts the drain; `PullEnds` is the handler's next
reply, StopIteration or an exception; `Join` leaves `_typing`; `ChunkLands`,
`MarkdownRejected`, `SendFails`, `AnswerLost` and `ChunkSent` are one `send_message` and
what `_send` does about it. `typist` is the thread of the pull in hand, waiting for the
delay to pass, in a call, or resting; `late` counts threads whose join timed out while
they were in a call, which may still reach the chat. Of time one bound is kept, the
second a join waits: a call either returns before that second is over (`calling`, and the
join waits for it) or may outlast it (`hanging`, and the join may give up). Which of the
two it is is settled when the call starts, by the world and not by the daemon, and
`overdue` remembers it. So leaving out the join, which the mutant of
`NoPhantomTyping` does, puts the indicator under a message although every call was
prompt. That the delay passes is an action.

`inbound.py:126` says the anchor "always points at the most recent message on the
subject". That is so of what the daemon knows: a message whose answer was lost, or
that landed just before a crash, is passed over (`unanchored`), and the chain goes
round it. `remember_anchor` stands outside the `try` around the send, so a ledger that
cannot be written ends the daemon there; in the model that is a `Crash`.

### FleetControls

An order is an update of the operator's or a button a tester forged. `Poll`, `Commit`,
`Crash` and `Restart` are the daemon's; in between each order is refused (`Refuse`: not
the operator's, not wired, not allowed, a stale button), recorded (`RecordBlocker`), or
run and recorded in two steps (`RunCommand`, `RecordCommand`), because the daemon may
die in between. What the command does is outside the repository: exit code 0 is taken
to mean that it took effect, any other outcome leaves it open. `fleet` is what the
commands set, the halt marker and the cap, each by whoever ran last. An operator at
a terminal is not in the model; `SettledOrdersRest` is what protects him.

### TelegramChunks

The loop of `chunk_for_telegram`, one chunk a step, over every text of three kinds of
characters. `rest` is where the remaining text begins; a chunk is its first and last
position, so that loss, order and overlap can be stated. A chunk can be empty if a line
of blanks only, or a line ending in blanks, begins a window: Telegram refuses such a
message, and a digest whose chunk is refused is sent again for ever, which
`notifier.py:126` says chunking prevents. `Tidy` names the texts that are safe.

### Router

Texts are short sequences of the characters the router tells apart, and the
operators are `parse_command`, `dispatch`, `encode_action` and `parse_callback`. They
are no state machine: `MCTexts` has TLC go through every incoming text beside the
outgoing ones of `TelegramChunks`. `CommandMeansWhatItSays` leaves one case out because
the code does not promise it: `parse_command` ends the name at a blank only, so of
"/idea" with the title on the next line it makes an unknown command, and of
"/idea@bot" with the title on the next line an `/idea` without one.

## The runs

| run | shows | bounds |
|---|---|---|
| `Inbound` | `NothingLost`, `CommittedNeverReplayed`, `OncePerProcess`, `OnlyTheEnabledAreServed`, `FirstTapDecides`, `TapsAreRecorded`, `KnocksBounded`, `KnockNotLost` | 3 updates, batches of 2, 2 crashes, a tester, 2 symmetric strangers, a pending list of 2, 1 prompt, a forged tap, a failing database |
| `AskHuman` | `AllowedOnlyByTap` | 2 askers, 2 prompts, 4 entries, symmetric |
| `AskRendezvous` | `KeepsThePromise`, `AskEntriesTellTheTap`, `EveryUpdateHandled`, `EveryAskEnds`, `TappedAskEnds` | 1 asker, 2 updates with a forged tap, batches of 2, 1 crash |
| `Notifier` | `NothingSkipped`, `RepeatsHaveAReason`, `EveryEventTold` | 2 runs, 3 entries before they stop, 1 failure |
| `EngineQuota` | `QuotaIsHard`, `OverCountHasAReason`, `OwnIdeasOnly`, `CapturedIsTold`, `ClosingsOnRecord`, `OneIssuePerRequest` | quota 2, 3 requests, 3 issues, 2 crashes |
| `Conversation` | `ThreadsChain`, `RepliesHaveNoHoles`, `NoPhantomTyping`, `EveryDrainEnds` | 2 updates, 2 replies of 2 chunks, 2 subjects, 1 late call, 1 crash |
| `FleetControls` | `FleetFollowsOrders`, `LedgerTellsTheFleet`, `EveryOrderOnRecord`, `SettledOrdersRest`, `EveryOrderHandled` | 3 orders, batches of 2, 2 crashes, 2 guards, wired or not |
| `TelegramChunks` | `ChunksFit`, `NothingReadableLost`, `LinesStayWhole`, `TidyTextsAreReadable`, `TextsMeanWhatTheySay` | outgoing texts up to 9 characters of 3 kinds, split at 4; incoming ones up to 6 of 7 kinds |

Three updates in batches of two give a batch boundary inside the traffic, a batch
that is partly handled when the daemon dies, and a redelivery that overlaps a
committed batch; two crashes let a redelivery die as well; a tester's two buttons in one
batch let him be disabled between them. A cap of 2 with three who knock, the tester who is
not let in among them, gives a list that holds some and not all, where a lost or misplaced
row shows, and one that is full when a third knocks. For one asker a tap of the
operator's either way, a tester's forged one and a button of the tester's are all a
batch can hold that matters, and two of them meet in one batch; that two askers do not take each
other's answers is the AskHuman run's, since they meet only in the ledger. Three ledger
entries hold an event, the record of an overlapping run and an event after it. A
quota of 2 is exhausted with requests to spare; three requests and three issues hold an
idea, a tap on it and a tap on the operator's. Two updates with two replies between them
hold a subject taken up again after a crash, a reply that fails half-way and one on
another subject in between. Three orders hold an order, its undoing
in the same batch and one that follows. Nine characters are more than two windows of
four, and a window of four holds a paragraph break away from both its ends. Six
incoming ones hold "/x@x x" and two colons with something on every side.

The daemon's instance is looked at until the ledger holds `MaxEntries` entries and the
process ends: each turn of the crash loop `InboundOwner` shows may record a tap ahead
of the fatal update once more, without end, and `Restart` stops there.

`CHECK_DEADLOCK FALSE` in the AskHuman, Notifier, FleetControls, Conversation and
TelegramChunks runs: askers and the splitting end, and the instances stop at their bounds. The daemon
of `Inbound` never stops.

Four runs refute something the repository says; `findings` in PROJECT.json quotes
each sentence.

* `InboundOwner`: `authorize` is not guarded, so with an unreadable testers database
  a stranger's update ahead of the operator's kills the daemon at every restart.
* `AskSecondTap`: Allow and Deny are both tapped before the first is acknowledged. The ask
  takes the first and allows; the prompt is rewritten by both and ends up saying that
  the action was denied.
* `NotifierStatus`: after a run with nothing to send, `/status` says no digest was ever
  pushed.
* `EngineQuotaBlank`: a blank `/idea` costs a call that was never made.

## Fairness

* `Start`: systemd restarts the daemon (`Restart=always`).
* `PollBatch`: Telegram answers again and again while the daemon asks, and the queue
  is not empty. `PollEmpty` has no fairness: failing calls promise nothing.
* `HandleUpdate`: a handler returns. `SendReply` has none, so `DrainEnds` must be
  reached on its own: handlers yield finitely many replies. GitHub and Engine
  calls are outside this repository; that they return is an assumption.
* `Commit`: the daemon runs.
* Askers: their process runs (`AskStep`); `Deadline` has no fairness, so
  `TappedAskEnds` owes nothing to the timeout, and `EveryAskEnds` names the clock that
  stands still as its exception. `Kill` and `Crash` are never fair.
* `FleetControls`: the daemon goes on (`Daemon`): it is one thread, `HaltControl` gives
  its command a time limit, and systemd restarts it. That a guard's `evaluate` returns is
  an assumption; that it is not waited for is what `EveryOrderHandled` checks: the
  daemon's guard has no `ask` (cli.py:377), so its ASK is a DENY at once.
* `Conversation`: a pull ends, a join ends, a `sendMessage` ends in an answer or a
  timeout. A call of the typing thread that is prompt returns, which is what prompt means;
  one that hangs may do so for ever, and `EveryDrainEnds` rests on the join's time limit.
* `Notifier`: a run that started goes on, and the timer starts runs again.

Crashes are bounded (`MaxCrashes`), failed sends and dying runs too (`MaxTroubles`):
liveness says nothing of a process that dies for ever, and `InboundOwner` shows the
one place where the code itself makes it do so.

## Proofs

The proofs are for every value of the constants. They assume the named ASSUMEs each
module states next to its constants, which TLC evaluates in the runs, and nothing else.
The properties are the ones the runs check.

| module | theorem | statement |
|---|---|---|
| `InboundProofs` | `TypeCorrect` | `Spec => []TypeOK` |
| | `NoUpdateLost` | `Spec => []NothingLost` |
| | `DispatchedOnce` | `Spec => []OncePerProcess` |
| | `NoReplayAfterCommit` | `Spec => CommittedNeverReplayed` |
| | `ServesOnlyTheEnabled` | `Spec => OnlyTheEnabledAreServed` |
| | `FirstTapIsTheDecision` | `Spec => []FirstTapDecides` |
| | `TapsReachTheLedger` | `Spec => []TapsAreRecorded` |
| | `KnocksStayBounded` | `Spec => []KnocksBounded` |
| | `KnocksAreKept` | `Spec => []KnockNotLost` |
| `AskProofs` | `AllowNeedsATap` | `AloneSpec => []AllowedOnlyByTap` |
| | `AllowNeedsATapTogether` | `RSpec => []AllowedOnlyByTap` |
| | `DaemonUndisturbed` | `RSpec => []`(the daemon's six safety invariants) |
| | `ServesOnlyTheEnabledTogether` | `RSpec => OnlyTheEnabledAreServed` |
| | `AuditTrailIsTrue` | `RSpec => []AskEntriesTellTheTap` |
| | `PromiseIsKept` | `RSpec => KeepsThePromise` |
| `NotifierProofs` | `NothingIsSkipped` | `Spec => []NothingSkipped` |
| | `RepeatsAreExplained` | `Spec => []RepeatsHaveAReason` |
| `EngineQuotaProofs` | `MeteringTypes` | `Spec => []TypeOK` |
| | `CallsWithinQuota` | `Spec => []QuotaIsHard` |
| | `OverCountExplained` | `Spec => []OverCountHasAReason` |
| | `IdeasAreMetered` | `ISpec => Spec`: `IdeaRequests` implements `EngineQuota` |
| | `IdeasWithinQuota` | `ISpec => []QuotaIsHard` |
| | `OwnIdeas` | `ISpec => []OwnIdeasOnly` |
| | `CapturesAreTold` | `ISpec => []CapturedIsTold` |
| | `ClosingsAreRecorded` | `ISpec => []ClosingsOnRecord` |
| | `IssuesAreRequested` | `ISpec => []OneIssuePerRequest` |
| `ConversationProofs` | `ThreadsAreChains` | `Spec => []ThreadsChain` |
| | `RepliesAreWhole` | `Spec => []RepliesHaveNoHoles` |
| | `TypingIsExplained` | `Spec => []NoPhantomTyping` |
| `FleetControlsProofs` | `ControlsTypes` | `Spec => []TypeOK` |
| | `OrdersAreRecorded` | `Spec => []EveryOrderOnRecord` |
| | `FleetObeys` | `Spec => []FleetFollowsOrders` |
| | `LedgerIsTrue` | `Spec => []LedgerTellsTheFleet` |
| | `SettledOrdersStay` | `Spec => SettledOrdersRest` |
| `TextProofs` | `EveryChunkFits` | `Spec => []ChunksFit` |
| | `NothingIsLost` | `Spec => []NothingReadableLost` |
| | `LinesAreWhole` | `Spec => []LinesStayWhole` |
| | `TidyTextsAreRead` | `Spec => []TidyTextsAreReadable` |
| | `TextsAreUnderstood` | `MCSpec => []TextsMeanWhatTheySay` |

### The daemon

`DaemonInvariant` is `Spec => [](IInv(Entry) /\ Kept)`. `NothingLost` alone is not
inductive: `confirmed` moves to `offset - 1`, `offset` comes from the cursor, the cursor
from the batch. `IInv` says how these fit: what lies below `confirmed`, below the
cursor and, in a running process, below `offset` is handled (`CommitInv`); the
batch in hand lies between `offset` and the inbox's end and is handled up to `cur`
(`BatchInv`); and a process has dispatched nothing beyond `cur`, and each update at
most once (`RunsInv`). `Kept` says what that order keeps: a tap that was handled has left a row in
the ledger, a row says what the first tap on its prompt said (`TapInv`); what `_seen`
holds is in the ledger, a row each (`KnockInv`); only updates that were sent are handled,
and the update in hand, once past `authorize`, is the operator's or a tester's who was
enabled since it was taken up (`HandInv`). `TapInv` is the one that is not obvious: a redelivered batch records a tap
twice, and the second tap's row may come only after the first tap's, which holds because
the queue is handled in order from the cursor on.

The lemmas have a parameter `R`, the rows the ledger may hold. Alone the daemon has
`R = Entry`. It reads `ask` entries nowhere, so a ledger that others write `ask` entries to
serves as well: `AskersUnnoticed` is the step where somebody else writes.

### The askers

`AskerInv` is the askers' own: by its stage, what an asker knows (`StageInv`); a message is
one asker's and on show (`PromptInv`); a reply is the decision of the asker's own prompt,
which never changes once it is in the ledger (`ReplyInv`, `DecisionsStay`). `DecisionsStay` is
why an ask may read the ledger, look at the clock and read again. `AloneSpec`, the askers by themselves, needs no more.

`TogetherInv` joins it with the daemon's invariant over the shared ledger. The proof is
by who takes the step: the daemon's actions leave the askers' variables alone and add
decisions only (`DaemonStepKeeps`); an asker's add an `ask` entry and a prompt
(`AskerStepTogether`). Of the refinement, `SaidStep` shows that what the operator said of
an asker's action changes at most from "none", when his tap enters the queue, and
`SaidStays` that it never changes again; so each step of the daemon or the world is the
operator's word or a stutter of `AskPromise`, and each asker's step a stutter, a decision of
the inner policy or a verdict. The verdict is the promised one because the reply is the
first tap (`ReplyIsTheTap`), which is `TapInv` once more.

### notify

`ToldInv` is the argument: an entry behind a recorded cursor was told, and one under a
run's snapshot was told or is in its `todo`. It holds over overlapping runs since a
snapshot is never above the ledger, and the cursor a run records is its snapshot.
`RepeatsHaveAReason` needs more (`OnceInv`): while nothing failed there is one run at a
time, and an event that was told is behind a cursor or behind that run.

### The metering and the ideas

`Held` makes the quota inductive: a handler that has reserved and
not yet called has a reservation beyond the calls, which its next step spends or gives
back. `IdeasAreMetered` needs no invariant: each action of `IdeaRequests` is shown to be a
step of the metering or to leave it alone (`IdeaStepMeters`), and the quota comes with
it. `ReserveCall` is assumed atomic, as one statement of the testers database.

`IdeasInv` adds what a request in hand has left behind: the number it acts on passed the
gate (`InHandInv`), an entry is of an issue its filer filed (`IssuesInv`), a closing made
and not yet recorded is the one in hand (`ShutInv`), and a request that has not filed
yet has its issue to spare (`SpareInv`).

### The chat

The anchors of a subject are exactly its messages not in `unanchored`, in the order of
the chat, but for one that landed and is not recorded yet (`AnchorInv`). `replyTo` was
read when the reply began and the drain is one thread, so it is still the last anchor
when each chunk goes (`AimInv`). A thread left behind is in a call that outlasted its join
or was cut off by a crash (`TypistInv`), since the join waits for every other.

### The controls

An earlier order is in force again in the middle of a replay, so `FleetFollowsOrders`
cannot be inductive. `FollowInv` says of each control that the fleet and its last entry
follow its last order once the pass is through with all of its orders; `Through` is
behind the cursor while the daemon is down. `CountInv` counts the entries of an order not
yet reached in this pass, one less than `EveryOrderOnRecord` allows.

### Texts

The chunks so far lie in order before `rest` (`OrderInv`), every glyph before it is in one
(`SentInv`), and a line that `rest` cuts does not fit in a message (`LineInv`). `IInv` holds
of `TelegramChunks!Spec`, and `InstanceSplits` carries it over to the instance that reads
texts too. The router's operators are proved about for a text of any length over any
characters (`CommandsAreUnderstood`, `ButtonsAreUnderstood`); `MCSpec` only gives them
the texts of an instance.

`Min`, `Max` and `CHOOSE` of the least or greatest number in a set stand in most of the
modules. `Extrema` shows once that these are what they should be, from
the well-foundedness of Nat for the least; the proofs cite it where an induction would
otherwise be needed.

### Only model-checked

The liveness properties, `EveryUpdateHandled`, `EveryAskEnds`, `TappedAskEnds`,
`EveryEventTold`, `EveryDrainEnds` and `EveryOrderHandled`: they rest on fairness, and so on
ENABLED, which this prover does not handle.

## What is not modelled

* the pushes of spend and blocker alerts: one send and one record by a process of its
  own. That `encode_action` raises on a candidate too long for a button, so that the alert is
  never sent, is among the hazards without a property;
* a ledger that cannot be written, but for the process dying of it. Where the code lets the
  exception go up, it ends the process, and that is a crash before the `Record`. Inside a
  handler it does not: `handle_batch` catches it (inbound.py:180, 270, 325), tells the chat that
  something failed and moves the cursor on, so that a /halt carried out stays without an
  entry. This case is excluded from `EveryOrderOnRecord` and `ClosingsOnRecord`;
* the issue of a note, which has no buttons, and /catalog and the Try buttons, which
  change nothing;
* time, but for the second a join waits: how long a getUpdates that fails at once is not
  waited for, how long a delay or a deadline is;
* the text of anything: prompts, digests, briefs, menus, help, Markdown;
* HTTP and JSON; what a call can do to the other side is modelled instead;
* two daemons at once: the unit file runs one, and Telegram rejects a second poller.

## Plan

1. Done: `FleetLedger`, `PendingChats`, `Inbound`, `AskHuman`, `AskRendezvous` with
   `AskPromise`, `Notifier`, `EngineQuota`, `FleetControls`, `TelegramChunks`; the theorems of
   the daemon and of the metering.
2. Done: `IdeaRequests`, its refinement of the metering proved; `Conversation`, with the
   threads of messages and the typing thread; `Router`; liveness of `FleetControls`.
3. Done: every safety invariant and action property of the runs, the refinement of
   `AskPromise` and that of the metering, proved.
4. To come: the alerts' pushes (spend_command.py, blocker_command.py) as a component of
   their own, if the ledger's part in them is to be stated; that `FleetControls` and
   `Conversation` restate the redelivery of `Inbound` rightly, as step refinements of a
   common specification of the cursor, which `Inbound` would implement too.
