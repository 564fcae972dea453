---------------------------- MODULE Conversation -----------------------------
(***************************************************************************)
(* What a chat sees while the daemon answers updates (inbound.py: _drain,  *)
(* _typing, _send; threads.py).  A handler is a generator: each reply is   *)
(* pulled from it, split, and sent at once, as an answer to the last       *)
(* message on its subject.  A thread shows "typing..." while a pull takes  *)
(* long; it is told to stop when the pull is over, and the daemon waits    *)
(* for it a second and no longer.  Of time only this second is kept: a     *)
(* call of the thread either returns before a join's second is over        *)
(* ("calling") or may outlast it ("hanging").                              *)
(*                                                                         *)
(* One chat is looked at: a subject is talked about in the chat of its     *)
(* owner only (IdeaRequests).  A message's id is its place in the chat.    *)
(***************************************************************************)
EXTENDS FleetLedger, FiniteSetsExt

CONSTANTS
    Subjects,       \* thread subjects, "idea:12"
    NoSubject,      \* a reply that starts no thread and continues none
    MaxChunks,      \* chunks of the longest reply
    MaxUpdates, MaxReplies, MaxCrashes, MaxLate     \* bounds of the instance

ASSUME SubjectsAssumption == NoSubject \notin Subjects
ASSUME ChunksAssumption ==
    /\ MaxChunks \in Nat \ {0} /\ MaxReplies \in Nat
    /\ MaxUpdates \in Nat /\ MaxCrashes \in Nat /\ MaxLate \in Nat

VARIABLES
    chat,       \* the messages of the chat, oldest first
    typing,     \* whether the chat shows the indicator
    pc,         \* where _drain and _send are
    about,      \* the subject of the update in hand
    reply,      \* what the last pull ended with
    chunk,      \* the chunk in hand
    replyTo,    \* the message it will answer
    plain,      \* whether it is sent again without the Markdown parse mode
    typist,     \* the thread of the current pull
    late,       \* threads the join gave up on, each in its last call
    updates, replies, crashes,
    slow,       \* history: a pull outlasted the delay since the last message
    overdue,    \* history: a call since the last message outlasts the second, or its process
    unanchored  \* history: messages the daemon never heard of or never recorded

sending == <<reply, chunk, replyTo, plain>>
threads == <<typist, late, slow, overdue>>
bounds == <<updates, replies, crashes>>
vars == <<ledger, chat, typing, pc, about, sending, threads, bounds, unanchored>>

\* What a pull may end with: a reply, StopIteration, or an exception, which has the
\* chat told _HANDLER_FAILED.
Reply(subject, chunks, last) == [subject |-> subject, chunks |-> chunks, last |-> last]
Replies == {Reply(s, n, FALSE) : s \in {about, NoSubject}, n \in 1..MaxChunks}
Stop == Reply(NoSubject, 0, TRUE)
Failure == Reply(NoSubject, 1, TRUE)

Init ==
    /\ ledger = <<>> /\ chat = <<>> /\ typing = FALSE
    /\ pc = "idle" /\ about = NoSubject
    /\ reply = Stop /\ chunk = 1 /\ replyTo = 0 /\ plain = FALSE
    /\ typist = "none" /\ late = 0 /\ slow = FALSE /\ overdue = FALSE
    /\ updates = 0 /\ replies = 0 /\ crashes = 0 /\ unanchored = {}

\* Entering _typing starts its thread, which waits before its first call.
StartTypist == typist' = "waiting"

\* _send's local names and the handler are gone.
ForgetReply == reply' = Stop /\ chunk' = 1 /\ replyTo' = 0 /\ plain' = FALSE
ForgetHandler == about' = NoSubject

\* An update reaches a handler, which answers it about one subject or about none;
\* the daemon pulls its first reply.
Dispatch ==
    /\ pc = "idle" /\ updates < MaxUpdates
    /\ updates' = updates + 1
    /\ about' \in Subjects
    /\ StartTypist
    /\ pc' = "pulling"
    /\ UNCHANGED <<ledger, chat, typing, sending, late, slow, overdue, replies, crashes,
                   unanchored>>

-----------------------------------------------------------------------------
(* keep_alive, the typing thread. *)

\* sendChatAction is called: it returns before a join's second is over, or may not.
StartCall ==
    /\ typist' \in {"calling", "hanging"}
    /\ overdue' = (overdue \/ typist' = "hanging")

DelayPasses ==
    /\ pc = "pulling" /\ typist = "waiting" /\ late < MaxLate
    /\ StartCall /\ slow' = TRUE
    /\ UNCHANGED <<ledger, chat, typing, pc, about, sending, late, bounds, unanchored>>

InCall == typist \in {"calling", "hanging"}

\* The call returns: shown, or failed and swallowed by the transport.
CallReturns ==
    /\ InCall
    /\ typist' = "resting"
    /\ typing' \in {typing, TRUE}
    /\ UNCHANGED <<ledger, chat, pc, about, sending, late, slow, overdue, bounds, unanchored>>

\* Any other exception ends the thread.
TypistDies ==
    /\ InCall
    /\ typist' = "none"
    /\ UNCHANGED <<ledger, chat, typing, pc, about, sending, late, slow, overdue, bounds, unanchored>>

Refresh ==
    /\ pc = "pulling" /\ typist = "resting"
    /\ StartCall
    /\ UNCHANGED <<ledger, chat, typing, pc, about, sending, late, slow, bounds, unanchored>>

\* The call of a thread nobody waits for any more returns; the thread ends.
LateCallReturns ==
    /\ late > 0
    /\ late' = late - 1
    /\ typing' \in {typing, TRUE}
    /\ UNCHANGED <<ledger, chat, pc, about, sending, typist, slow, overdue, bounds, unanchored>>

\* Telegram clears the indicator after about five seconds.
IndicatorFades ==
    /\ typing
    /\ typing' = FALSE
    /\ UNCHANGED <<ledger, chat, pc, about, sending, threads, bounds, unanchored>>

-----------------------------------------------------------------------------
(* _drain: the pull ends with a reply, with StopIteration or with an exception. *)

PullEnds ==
    /\ pc = "pulling"
    /\ \/ replies < MaxReplies /\ replies' = replies + 1 /\ reply' \in Replies
       \/ reply' \in {Stop, Failure} /\ UNCHANGED replies
    /\ pc' = "joining"
    /\ UNCHANGED <<ledger, chat, typing, about, chunk, replyTo, plain, threads, updates,
                   crashes, unanchored>>

\* _send begins: the anchor is read once; no anchor is ever recorded for NoSubject.
AfterPull ==
    IF reply = Stop THEN pc' = "idle" /\ ForgetReply /\ ForgetHandler
    ELSE /\ chunk' = 1 /\ plain' = FALSE /\ UNCHANGED <<reply, about>>
         /\ replyTo' = AnchorFor(ledger, reply.subject)
         /\ pc' = "sending"

\* The join: the thread wakes, ends its call and is gone within the second.
Joined ==
    /\ pc = "joining" /\ ~InCall
    /\ typist' = "none"
    /\ AfterPull
    /\ UNCHANGED <<ledger, chat, typing, late, slow, overdue, bounds, unanchored>>

\* Mutants: the join has no timeout; or there is no join, and the thread is left
\* behind in whatever call it is.
JoinWaits == pc = "joining" /\ typist = "hanging" /\ UNCHANGED vars
NoJoin ==
    /\ pc = "joining" /\ InCall
    /\ typist' = "none" /\ late' = late + 1
    /\ AfterPull
    /\ UNCHANGED <<ledger, chat, typing, slow, overdue, bounds, unanchored>>

\* The second is over and the thread is still in its call.
JoinGivesUp ==
    /\ pc = "joining" /\ typist = "hanging"
    /\ typist' = "none" /\ late' = late + 1
    /\ AfterPull
    /\ UNCHANGED <<ledger, chat, typing, slow, overdue, bounds, unanchored>>

-----------------------------------------------------------------------------
(* _send and send_message. *)

\* After a reply the next one is pulled; the failure notice is the last.
NextPull ==
    /\ ForgetReply
    /\ IF reply.last THEN pc' = "idle" /\ ForgetHandler /\ UNCHANGED typist
                     ELSE pc' = "pulling" /\ StartTypist /\ UNCHANGED about

\* Telegram takes the chunk; the message clears the indicator.
ChunkLands ==
    /\ pc = "sending"
    /\ chat' = Append(chat, [subject |-> reply.subject, replyTo |-> replyTo,
                             part |-> chunk, buttons |-> chunk = reply.chunks])
    /\ typing' = FALSE /\ slow' = FALSE /\ overdue' = (overdue /\ late > 0)
    /\ pc' = "landed"
    /\ UNCHANGED <<ledger, about, sending, typist, late, bounds, unanchored>>

\* A 400 on a Markdown reply's entities: the chunk is sent again without them, once.
MarkdownRejected ==
    /\ pc = "sending" /\ ~plain
    /\ plain' = TRUE
    /\ UNCHANGED <<ledger, chat, typing, pc, about, reply, chunk, replyTo, threads, bounds,
                   unanchored>>

\* The chunk is refused or Telegram is out of reach: the rest is not sent
\* (mutant: it is).
SkipChunk ==
    /\ pc = "sending"
    /\ IF chunk < reply.chunks
       THEN chunk' = chunk + 1 /\ UNCHANGED <<pc, typist, about, reply, replyTo, plain>>
       ELSE NextPull
    /\ UNCHANGED <<ledger, chat, typing, late, slow, overdue, bounds, unanchored>>
SendFails ==
    /\ pc = "sending"
    /\ NextPull
    /\ UNCHANGED <<ledger, chat, typing, late, slow, overdue, bounds, unanchored>>

\* The chunk is in the chat and Telegram's answer is lost: to the daemon it failed.
AnswerLost ==
    /\ pc = "landed"
    /\ unanchored' = unanchored \cup {Len(chat)}
    /\ NextPull
    /\ UNCHANGED <<ledger, chat, typing, late, slow, overdue, bounds>>

Anchored ==
    IF reply.subject = NoSubject THEN UNCHANGED ledger
    ELSE Record(AnchorEntry(reply.subject, Len(chat)))

ChunkSent ==
    /\ pc = "landed"
    /\ Anchored
    /\ IF chunk < reply.chunks
       THEN /\ chunk' = chunk + 1 /\ plain' = FALSE
            /\ replyTo' = IF reply.subject = NoSubject THEN replyTo ELSE Len(chat)
            /\ pc' = "sending" /\ UNCHANGED <<about, reply, typist>>
       ELSE NextPull
    /\ UNCHANGED <<chat, typing, late, slow, overdue, bounds, unanchored>>

\* The process dies, or the ledger cannot be written; a call on its way may arrive.
Crash ==
    /\ pc # "idle" /\ crashes < MaxCrashes
    /\ crashes' = crashes + 1
    /\ pc' = "idle" /\ typist' = "none" /\ ForgetReply /\ ForgetHandler
    /\ late' = late + (IF InCall THEN 1 ELSE 0)
    /\ overdue' = (overdue \/ InCall)
    /\ unanchored' = IF pc = "landed" THEN unanchored \cup {Len(chat)} ELSE unanchored
    /\ UNCHANGED <<ledger, chat, typing, slow, updates, replies>>

-----------------------------------------------------------------------------
Typist == DelayPasses \/ CallReturns \/ TypistDies \/ Refresh \/ LateCallReturns
Join == Joined \/ JoinGivesUp
SendStep == ChunkLands \/ MarkdownRejected \/ SendFails \/ AnswerLost \/ ChunkSent

Next ==
    \/ Dispatch \/ PullEnds \/ Join \/ SendStep \/ Crash
    \/ Typist \/ IndicatorFades

Spec == Init /\ [][Next]_vars

\* A handler goes on, a join ends, a sendMessage ends in an answer or a timeout.  A
\* call that is not a hanging one returns; of one that is, nothing is assumed.
PromptCall == typist = "calling" /\ (CallReturns \/ TypistDies)
Fairness ==
    WF_vars(PullEnds) /\ WF_vars(Join) /\ WF_vars(SendStep) /\ WF_vars(PromptCall)
FairSpec == Spec /\ Fairness

-----------------------------------------------------------------------------
\* threads.py: each message about a subject replies to the last one.  The chain has
\* no gap and no fork, over replies, chunks and restarts; it passes over a message
\* only if the daemon never heard that it arrived, or died before recording it.
ThreadsChain ==
    \A i \in DOMAIN chat :
        chat[i].subject # NoSubject =>
            chat[i].replyTo =
                Max({0} \cup {j \in 1..(i - 1) \ unanchored :
                                chat[j].subject = chat[i].subject})

\* A reply is never shown with a hole: among the daemon's messages a later chunk comes
\* right after the one before it, so the buttons under the last hang under a whole text.
RepliesHaveNoHoles ==
    \A i \in DOMAIN chat :
        chat[i].part > 1 =>
            /\ i > 1 /\ chat[i - 1].part = chat[i].part - 1
            /\ chat[i - 1].subject = chat[i].subject /\ ~chat[i - 1].buttons

\* No "phantom typing hanging after the last message": the indicator shows only if a
\* pull outlasted the delay since that message, or if a call of the typing thread
\* outlasted the second its join waits, or the process died in it.  A call that
\* returns in time never puts the indicator under a message that is already there.
NoPhantomTyping == typing => slow \/ overdue

\* The indicator is cosmetic: the drain of every reply comes to its end although
\* a hanging call of a typing thread never returns.
EveryDrainEnds == pc # "idle" ~> pc = "idle"
=============================================================================
