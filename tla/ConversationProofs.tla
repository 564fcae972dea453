-------------------------- MODULE ConversationProofs --------------------------
(***************************************************************************)
(* What is proved of a chat the daemon answers in, for any subjects, any   *)
(* lengths of reply and any number of updates, crashes and late calls:     *)
(* ThreadsChain, RepliesHaveNoHoles and NoPhantomTyping.                   *)
(***************************************************************************)
EXTENDS Conversation, Extrema, TLAPS

AnySubject == Subjects \cup {NoSubject}
Messages == [subject : AnySubject, replyTo : Nat, part : Nat \ {0}, buttons : BOOLEAN]
Anchors == {AnchorEntry(s, m) : s \in Subjects, m \in Nat}
Places == {"idle", "pulling", "joining", "sending", "landed"}

Types ==
    /\ ledger \in Seq(Anchors) /\ chat \in Seq(Messages)
    /\ pc \in Places
    /\ about \in AnySubject
    /\ reply \in [subject : AnySubject, chunks : Nat, last : BOOLEAN]
    /\ chunk \in Nat \ {0} /\ replyTo \in Nat
    /\ unanchored \subseteq 1..Len(chat)

\* The messages about a subject that the daemon knows of and has recorded.
Recorded(s) ==
    {j \in 1..Len(chat) :
        j \notin unanchored /\ chat[j].subject = s /\ ~(pc = "landed" /\ j = Len(chat))}

\* The anchors are these messages, in the order of the chat.
AnchorInv ==
    /\ \A k \in 1..Len(ledger) : ledger[k].message_id \in Recorded(ledger[k].subject)
    /\ \A k, l \in 1..Len(ledger) : k < l => ledger[k].message_id < ledger[l].message_id
    /\ \A s \in Subjects : \A j \in Recorded(s) :
          \E k \in 1..Len(ledger) : ledger[k].subject = s /\ ledger[k].message_id = j

\* Where _send stands in a reply, and what of it the chat shows last.
Last == chat[Len(chat)]
PlaceInv ==
    /\ pc \in {"sending", "landed"} => chunk <= reply.chunks
    /\ pc \notin {"sending", "landed"} => chunk = 1
    /\ reply # Stop => reply.chunks >= 1
    /\ pc = "sending" /\ chunk > 1 =>
          Len(chat) > 0 /\ Last.part = chunk - 1 /\ Last.subject = reply.subject /\ ~Last.buttons
    /\ pc = "landed" =>
          /\ Len(chat) > 0 /\ Last.part = chunk /\ Last.subject = reply.subject
          /\ (Last.buttons => chunk = reply.chunks)
          /\ Len(chat) \notin unanchored

\* The anchor was read when the reply began, and is still the last one.
AimInv ==
    pc = "sending" /\ reply.subject # NoSubject => replyTo = AnchorFor(ledger, reply.subject)

\* A thread that calls has waited; only a call that outlasts its join is left behind.
TypistInv ==
    /\ late \in Nat
    /\ pc \in {"idle", "sending", "landed"} => typist = "none"
    /\ typist \in {"calling", "hanging", "resting"} => slow
    /\ typist = "hanging" => overdue
    /\ late > 0 => overdue

IInv ==
    /\ Types /\ AnchorInv /\ PlaceInv /\ AimInv /\ TypistInv
    /\ ThreadsChain /\ RepliesHaveNoHoles /\ NoPhantomTyping

-----------------------------------------------------------------------------
\* What a step does to the anchors' side of the chat: nothing, if the messages that
\* are recorded stay the same and so does the ledger.
LEMMA AnchorsStay ==
    ASSUME Types, AnchorInv, UNCHANGED ledger,
           \A s \in Subjects : Recorded(s)' = Recorded(s)
    PROVE  AnchorInv'
<1>1. \A k \in 1..Len(ledger) : ledger[k].subject \in Subjects
  BY DEF Types, Anchors, AnchorEntry
<1>2. \A k \in 1..Len(ledger) : ledger[k].message_id \in Recorded(ledger[k].subject)'
  BY <1>1 DEF AnchorInv
<1> HIDE DEF Recorded
<1> QED
  BY <1>2 DEF AnchorInv

\* thread_anchor_for returns the last recorded message about the subject, or 0.
LEMMA AnchorIsLast ==
    ASSUME Types, AnchorInv, NEW s \in Subjects
    PROVE  /\ AnchorFor(ledger, s) \in {0} \cup Recorded(s)
           /\ \A j \in Recorded(s) : j <= AnchorFor(ledger, s)
<1>a. /\ Len(ledger) \in Nat
      /\ \A k \in 1..Len(ledger) :
            /\ ledger[k].kind = "thread_anchor" /\ ledger[k].message_id \in Nat
            /\ ledger[k].subject \in Subjects
  BY DEF Types, Anchors, AnchorEntry
<1>1. AnchorsOf(ledger, s) = {k \in 1..Len(ledger) : ledger[k].subject = s}
  BY <1>a DEF AnchorsOf, EntriesOf
<1>2. \A j \in Recorded(s) :
          \E k \in AnchorsOf(ledger, s) : ledger[k].message_id = j
  BY <1>1 DEF AnchorInv
<1>3. CASE AnchorsOf(ledger, s) = {}
  BY <1>2, <1>3 DEF AnchorFor
<1>4. CASE AnchorsOf(ledger, s) # {}
  <2>1. \E k \in AnchorsOf(ledger, s) : \A l \in AnchorsOf(ledger, s) : k >= l
    <3>1. AnchorsOf(ledger, s) \subseteq 0..Len(ledger)
      BY <1>a, <1>1
    <3>2. PICK k \in AnchorsOf(ledger, s) : \A l \in AnchorsOf(ledger, s) : l <= k
      BY <1>a, <1>4, <3>1, GreatestExists
    <3> QED
      BY <3>1, <3>2
  <2>2. PICK k \in AnchorsOf(ledger, s) :
            /\ \A l \in AnchorsOf(ledger, s) : k >= l
            /\ AnchorFor(ledger, s) = ledger[k].message_id
    BY <1>4, <2>1 DEF AnchorFor
  <2>3. AnchorFor(ledger, s) \in Recorded(s)
    BY <1>1, <2>2 DEF AnchorInv
  <2>4. ASSUME NEW j \in Recorded(s) PROVE j <= AnchorFor(ledger, s)
    <3>1. PICK l \in AnchorsOf(ledger, s) : ledger[l].message_id = j
      BY <1>2
    <3>2. k \in 1..Len(ledger) /\ l \in 1..Len(ledger) /\ l <= k
      BY <1>1, <2>2
    <3>3. l < k \/ l = k
      BY <3>2
    <3>4. ledger[l].message_id \in Nat /\ ledger[k].message_id \in Nat
      BY <1>a, <3>2
    <3> QED
      BY <2>2, <3>1, <3>2, <3>3, <3>4 DEF AnchorInv
  <2> QED
    BY <2>3, <2>4
<1> QED
  BY <1>3, <1>4


\* While a reply is sent, the anchor is the last message about its subject that the
\* daemon knows of, so the message that answers it continues the chain.
LEMMA AnchorEndsTheChain ==
    ASSUME Types, AnchorInv, pc = "sending", NEW s \in Subjects
    PROVE  AnchorFor(ledger, s) =
              Max({0} \cup {j \in 1..Len(chat) \ unanchored : chat[j].subject = s})
<1> DEFINE S == {0} \cup {j \in 1..Len(chat) \ unanchored : chat[j].subject = s}
<1>1. Len(chat) \in Nat
  BY DEF Types
<1>2. Recorded(s) = {j \in 1..Len(chat) \ unanchored : chat[j].subject = s}
  BY DEF Recorded
<1>3. /\ AnchorFor(ledger, s) \in S
      /\ \A j \in S : j <= AnchorFor(ledger, s)
  <2>1. /\ AnchorFor(ledger, s) \in S
        /\ \A j \in Recorded(s) : j <= AnchorFor(ledger, s)
    BY <1>2, AnchorIsLast
  <2>2. 0 <= AnchorFor(ledger, s)
    BY <1>1, <2>1
  <2> QED
    BY <1>2, <2>1, <2>2
<1>4. S \subseteq 0..Len(chat) /\ S # {}
  BY <1>1
<1>5. Max(S) \in S /\ \A j \in S : j <= Max(S)
  BY <1>1, <1>4, MaxIsGreatest
<1>6. Max(S) \in Nat /\ AnchorFor(ledger, s) \in Nat
  BY <1>1, <1>3, <1>4, <1>5
<1>7. Max(S) <= AnchorFor(ledger, s) /\ AnchorFor(ledger, s) <= Max(S)
  BY <1>3, <1>5
<1>8. AnchorFor(ledger, s) = Max(S)
  BY <1>6, <1>7
<1> QED
  BY <1>8

\* Nothing that is done to messages the daemon never heard of touches the chain
\* before the last message.
LEMMA ChainStays ==
    ASSUME Types, ThreadsChain, UNCHANGED chat,
           unanchored' \in {unanchored, unanchored \cup {Len(chat)}}
    PROVE  ThreadsChain'
<1>1. Len(chat) \in Nat
  BY DEF Types
<1>2. SUFFICES ASSUME NEW i \in 1..Len(chat), chat[i].subject # NoSubject
               PROVE  chat[i].replyTo =
                         Max({0} \cup {j \in 1..(i - 1) \ unanchored' :
                                          chat[j].subject = chat[i].subject})
  BY DEF ThreadsChain
<1>3. \A j \in 1..(i - 1) : j # Len(chat)
  BY <1>1
<1>4. {j \in 1..(i - 1) \ unanchored' : chat[j].subject = chat[i].subject} =
      {j \in 1..(i - 1) \ unanchored : chat[j].subject = chat[i].subject}
  BY <1>3
<1> QED
  BY <1>2, <1>4 DEF ThreadsChain

-----------------------------------------------------------------------------
\* A step that leaves the chat and the ledger alone, and is not about the message
\* that has just landed, keeps the chain and the replies as they are.
LEMMA ChatStays ==
    ASSUME IInv, UNCHANGED <<ledger, chat, unanchored>>, pc' # "landed", pc # "landed"
    PROVE  AnchorInv' /\ ThreadsChain' /\ RepliesHaveNoHoles'
<1>1. \A s \in Subjects : Recorded(s)' = Recorded(s)
  BY DEF Recorded
<1>2. AnchorInv'
  BY <1>1, AnchorsStay DEF IInv
<1>3. ThreadsChain'
  BY ChainStays DEF IInv
<1>4. RepliesHaveNoHoles'
  BY DEF IInv, RepliesHaveNoHoles
<1> QED
  BY <1>2, <1>3, <1>4

\* The same when the daemon loses track of the message that has just landed: it was
\* not recorded, and never will be.
LEMMA ChatLosesTrack ==
    ASSUME IInv, UNCHANGED <<ledger, chat>>, pc = "landed", pc' # "landed",
           unanchored' = unanchored \cup {Len(chat)}
    PROVE  AnchorInv' /\ ThreadsChain' /\ RepliesHaveNoHoles'
<1>1. \A s \in Subjects : Recorded(s)' = Recorded(s)
  BY DEF Recorded
<1>2. AnchorInv'
  BY <1>1, AnchorsStay DEF IInv
<1>3. ThreadsChain'
  BY ChainStays DEF IInv
<1>4. RepliesHaveNoHoles'
  BY DEF IInv, RepliesHaveNoHoles
<1> QED
  BY <1>2, <1>3, <1>4

\* The typing thread, the indicator and the wait for a reply are no business of the
\* chat's messages.
LEMMA QuietSteps ==
    ASSUME IInv, UNCHANGED <<ledger, chat, pc, about, sending, unanchored>>
    PROVE  /\ Types' /\ AnchorInv' /\ PlaceInv' /\ AimInv'
           /\ ThreadsChain' /\ RepliesHaveNoHoles'
<1>1. UNCHANGED <<ledger, chat, pc, about, reply, chunk, replyTo, plain, unanchored>>
  BY DEF sending
<1>2. Types' /\ PlaceInv' /\ AimInv'
  BY <1>1 DEF IInv, Types, PlaceInv, AimInv, Last
<1>3. \A s \in Subjects : Recorded(s)' = Recorded(s)
  BY <1>1 DEF Recorded
<1>4. AnchorInv'
  BY <1>1, <1>3, AnchorsStay DEF IInv
<1>5. ThreadsChain' /\ RepliesHaveNoHoles'
  BY <1>1 DEF IInv, ThreadsChain, RepliesHaveNoHoles
<1> QED
  BY <1>2, <1>4, <1>5

\* Where _send stands when it is over, or not yet begun.
LEMMA OutOfSend ==
    ASSUME Types, pc' \in {"idle", "pulling"}, UNCHANGED chat, ForgetReply,
           ledger' \in Seq(Anchors),
           about' \in AnySubject, unanchored' \in {unanchored, unanchored \cup {Len(chat)}},
           pc = "landed" => Len(chat) > 0, unanchored' # unanchored => pc = "landed"
    PROVE  Types' /\ PlaceInv' /\ AimInv'
<1>1. Stop \in [subject : AnySubject, chunks : Nat, last : BOOLEAN]
  BY DEF Stop, Reply, AnySubject
<1>2. unanchored' \subseteq 1..Len(chat)
  BY DEF Types
<1>3. Types'
  BY <1>1, <1>2 DEF Types, ForgetReply, Places
<1>4. PlaceInv' /\ AimInv'
  BY DEF PlaceInv, AimInv, ForgetReply
<1> QED
  BY <1>3, <1>4

\* A new update finds the chat at rest.
LEMMA DispatchKeeps == ASSUME IInv, Dispatch PROVE IInv'
<1>1. Types'
  BY DEF IInv, Types, Dispatch, Places, AnySubject, sending
<1>2. PlaceInv' /\ AimInv'
  BY DEF IInv, PlaceInv, AimInv, Dispatch, sending
<1>3. TypistInv' /\ NoPhantomTyping'
  BY DEF IInv, TypistInv, NoPhantomTyping, Dispatch, StartTypist
<1>4. AnchorInv' /\ ThreadsChain' /\ RepliesHaveNoHoles'
  BY ChatStays DEF Dispatch
<1> QED
  BY <1>1, <1>2, <1>3, <1>4 DEF IInv

\* The typing thread touches no message, and types only while it is waited for or late.
LEMMA TypistKeeps == ASSUME IInv, Typist \/ IndicatorFades PROVE IInv'
<1>1. UNCHANGED <<ledger, chat, pc, about, sending, unanchored>>
  BY DEF Typist, IndicatorFades, DelayPasses, CallReturns, TypistDies, Refresh,
         LateCallReturns
<1>2. TypistInv' /\ NoPhantomTyping'
  <2>1. late \in Nat /\ (late > 0 => late - 1 \in Nat)
    BY DEF IInv, TypistInv
  <2>2. CASE DelayPasses \/ Refresh
    BY <2>1, <2>2 DEF IInv, TypistInv, NoPhantomTyping, DelayPasses, Refresh, StartCall
  <2>3. CASE CallReturns \/ TypistDies \/ LateCallReturns \/ IndicatorFades
    BY <2>1, <2>3 DEF IInv, TypistInv, NoPhantomTyping, CallReturns, TypistDies, InCall,
        LateCallReturns, IndicatorFades, threads
  <2> QED
    BY <2>2, <2>3 DEF Typist
<1> QED
  BY <1>1, <1>2, QuietSteps DEF IInv

\* A pull that ends leaves the reply to be sent, or nothing.
LEMMA PullEndsKeeps == ASSUME IInv, PullEnds PROVE IInv'
<1>1. /\ reply' \in [subject : AnySubject, chunks : Nat, last : BOOLEAN]
      /\ reply' # Stop => reply'.chunks >= 1
  <2>1. about \in AnySubject /\ NoSubject \in AnySubject /\ MaxChunks \in Nat
    BY ChunksAssumption DEF IInv, Types, AnySubject
  <2>2. CASE reply' \in Replies
    <3>1. PICK s \in {about, NoSubject}, n \in 1..MaxChunks : reply' = Reply(s, n, FALSE)
      BY <2>2 DEF Replies, Reply
    <3>2. s \in AnySubject /\ n \in Nat /\ n >= 1
      BY <2>1
    <3> QED
      BY <3>1, <3>2 DEF Reply
  <2>3. CASE reply' \in {Stop, Failure}
    <3>1. /\ Stop \in [subject : AnySubject, chunks : Nat, last : BOOLEAN]
          /\ Failure \in [subject : AnySubject, chunks : Nat, last : BOOLEAN]
          /\ Failure.chunks = 1
      BY <2>1 DEF Stop, Failure, Reply
    <3> QED
      BY <2>3, <3>1
  <2> QED
    BY <2>2, <2>3 DEF PullEnds
<1>2. Types'
  BY <1>1 DEF IInv, Types, PullEnds, Places
<1>3. PlaceInv' /\ AimInv'
  BY <1>1 DEF IInv, PlaceInv, AimInv, PullEnds
<1>4. TypistInv' /\ NoPhantomTyping'
  BY DEF IInv, TypistInv, NoPhantomTyping, PullEnds, threads
<1>5. AnchorInv' /\ ThreadsChain' /\ RepliesHaveNoHoles'
  BY ChatStays DEF PullEnds
<1> QED
  BY <1>2, <1>3, <1>4, <1>5 DEF IInv

\* _send begins at the first chunk, aimed at the last anchor.
LEMMA AfterPullKeeps ==
    ASSUME IInv, pc = "joining", AfterPull, UNCHANGED <<ledger, chat, unanchored>>
    PROVE  /\ Types' /\ AnchorInv' /\ PlaceInv' /\ AimInv'
           /\ ThreadsChain' /\ RepliesHaveNoHoles' /\ pc' \in {"idle", "sending"}
<1>1. pc' \in {"idle", "sending"}
  BY DEF AfterPull
<1>2. AnchorInv' /\ ThreadsChain' /\ RepliesHaveNoHoles'
  BY <1>1, ChatStays
<1>3. CASE reply = Stop
  <2>1. pc' = "idle" /\ ForgetReply /\ about' \in AnySubject
    BY <1>3 DEF AfterPull, ForgetHandler, AnySubject
  <2>2. Types' /\ PlaceInv' /\ AimInv'
    BY <2>1, OutOfSend DEF IInv, Types
  <2> QED
    BY <1>1, <1>2, <2>2
<1>4. CASE reply # Stop
  <2>1. /\ pc' = "sending" /\ chunk' = 1 /\ UNCHANGED <<reply, about>>
        /\ replyTo' = AnchorFor(ledger, reply.subject)
    BY <1>4 DEF AfterPull
  <2>2. reply.chunks >= 1
    BY <1>4 DEF IInv, PlaceInv
  <2>3. AnchorFor(ledger, reply.subject) \in Nat
    <3>1. CASE reply.subject \in Subjects
      <4>1. /\ AnchorFor(ledger, reply.subject) \in {0} \cup Recorded(reply.subject)
            /\ Len(chat) \in Nat
        BY <3>1, AnchorIsLast DEF IInv, Types
      <4> QED
        BY <4>1 DEF Recorded
    <3>2. CASE reply.subject = NoSubject
      <4>1. \A k \in 1..Len(ledger) : ledger[k].subject \in Subjects
        BY DEF IInv, Types, Anchors, AnchorEntry
      <4>2. AnchorsOf(ledger, NoSubject) = {}
        BY <4>1, SubjectsAssumption DEF AnchorsOf, EntriesOf
      <4> QED
        BY <3>2, <4>2 DEF AnchorFor
    <3>3. reply.subject \in AnySubject
      BY DEF IInv, Types
    <3> QED
      BY <3>1, <3>2, <3>3 DEF AnySubject
  <2>4. Types'
    BY <2>1, <2>3 DEF IInv, Types, Places
  <2>5. PlaceInv' /\ AimInv'
    BY <2>1, <2>2 DEF PlaceInv, AimInv
  <2> QED
    BY <1>1, <1>2, <2>4, <2>5
<1> QED
  BY <1>3, <1>4

\* _typing ends in two ways: the thread is gone, or a call of its is given up on.
LEMMA JoinKeeps == ASSUME IInv, Join PROVE IInv'
<1>1. /\ pc = "joining" /\ AfterPull /\ UNCHANGED <<ledger, chat, unanchored>>
      /\ typist' = "none" /\ UNCHANGED <<typing, slow>>
      /\ UNCHANGED overdue
      /\ \/ UNCHANGED late
         \/ typist = "hanging" /\ late' = late + 1
  BY DEF Join, Joined, JoinGivesUp
<1>2. TypistInv' /\ NoPhantomTyping'
  BY <1>1 DEF IInv, TypistInv, NoPhantomTyping
<1> QED
  BY <1>1, <1>2, AfterPullKeeps DEF IInv

\* After a reply, whatever became of it: nothing of it is left in hand.
LEMMA NextPullKeeps ==
    ASSUME IInv, NextPull, UNCHANGED chat, ledger' \in Seq(Anchors),
           \/ UNCHANGED unanchored
           \/ pc = "landed" /\ unanchored' = unanchored \cup {Len(chat)}
    PROVE  Types' /\ PlaceInv' /\ AimInv' /\ pc' \in {"idle", "pulling"}
<1>1. pc' \in {"idle", "pulling"} /\ ForgetReply /\ about' \in AnySubject
  BY DEF NextPull, ForgetHandler, IInv, Types, AnySubject
<1>2. pc = "landed" => Len(chat) > 0
  BY DEF IInv, PlaceInv
<1> QED
  BY <1>1, <1>2, OutOfSend DEF IInv

\* The end of a reply is also the end of its typing thread.
LEMMA NextPullRests ==
    ASSUME IInv, pc \in {"sending", "landed"}, NextPull, UNCHANGED <<typing, late, slow, overdue>>
    PROVE  TypistInv' /\ NoPhantomTyping'
  BY DEF IInv, TypistInv, NoPhantomTyping, NextPull, StartTypist

\* A chunk that lands is the next of its reply, and answers the last message on record.
LEMMA ChunkLandsKeeps == ASSUME IInv, ChunkLands PROVE IInv'
<1> DEFINE m == [subject |-> reply.subject, replyTo |-> replyTo, part |-> chunk,
                 buttons |-> chunk = reply.chunks]
<1>a. /\ pc = "sending" /\ pc' = "landed" /\ chat' = Append(chat, m)
      /\ UNCHANGED <<ledger, about, reply, chunk, replyTo, typist, late, unanchored>>
      /\ typing' = FALSE /\ slow' = FALSE /\ overdue' = (overdue /\ late > 0)
  BY DEF ChunkLands, sending
<1>b. Len(chat) \in Nat /\ m \in Messages
  BY DEF IInv, Types, Messages
<1>c. /\ Len(chat') = Len(chat) + 1
      /\ \A j \in 1..Len(chat) : chat'[j] = chat[j]
      /\ chat'[Len(chat')] = m
      /\ chat' \in Seq(Messages)
  BY <1>a, <1>b DEF IInv, Types
<1>d. 1..Len(chat') = 1..Len(chat) \cup {Len(chat')}
  BY <1>b, <1>c
<1>e. unanchored \subseteq 1..Len(chat) /\ Len(chat') \notin 1..Len(chat)
  BY <1>b, <1>c DEF IInv, Types
<1> HIDE DEF m
<1>1. Types'
  BY <1>a, <1>b, <1>c, <1>d DEF IInv, Types, Places
<1>2. AnchorInv'
  <2>1. ASSUME NEW s \in Subjects PROVE Recorded(s)' = Recorded(s)
    BY <1>a, <1>c, <1>d, <1>e DEF Recorded
  <2> QED
    BY <1>a, <2>1, AnchorsStay DEF IInv
<1>3. PlaceInv' /\ AimInv'
  <2>1. m.part = chunk /\ m.subject = reply.subject
    BY DEF m
  <2>2. m.buttons => chunk = reply.chunks
    BY Zenon DEF m
  <2> QED
    BY <1>a, <1>b, <1>c, <1>e, <2>1, <2>2 DEF IInv, PlaceInv, AimInv, Last
<1>4. TypistInv' /\ NoPhantomTyping'
  <2>1. late \in Nat /\ typist = "none" /\ (late > 0 => overdue)
    BY <1>a DEF IInv, TypistInv
  <2> QED
    BY <1>a, <2>1 DEF TypistInv, NoPhantomTyping
<1>5. ThreadsChain'
  <2>1. SUFFICES ASSUME NEW i \in 1..Len(chat'), chat'[i].subject # NoSubject
                 PROVE  chat'[i].replyTo =
                           Max({0} \cup {j \in 1..(i - 1) \ unanchored :
                                            chat'[j].subject = chat'[i].subject})
    BY <1>a DEF ThreadsChain
  <2>2. CASE i \in 1..Len(chat)
    <3>1. \A j \in 1..(i - 1) : chat'[j] = chat[j]
      BY <1>b, <1>c, <2>2
    <3>2. {j \in 1..(i - 1) \ unanchored : chat'[j].subject = chat'[i].subject} =
          {j \in 1..(i - 1) \ unanchored : chat[j].subject = chat[i].subject}
      BY <1>c, <2>2, <3>1
    <3> QED
      BY <1>c, <2>1, <2>2, <3>2 DEF IInv, ThreadsChain
  <2>3. CASE i = Len(chat')
    <3>1. 1..(i - 1) = 1..Len(chat)
      BY <1>b, <1>c, <2>3
    <3>2. chat'[i].subject = reply.subject /\ chat'[i].replyTo = replyTo
      BY <1>c, <2>3 DEF m
    <3>3. reply.subject \in Subjects
      BY <2>1, <3>2 DEF IInv, Types, AnySubject
    <3>4. replyTo = AnchorFor(ledger, reply.subject)
      BY <1>a, <2>1, <3>2 DEF IInv, AimInv
    <3>5. replyTo =
            Max({0} \cup {j \in 1..Len(chat) \ unanchored : chat[j].subject = reply.subject})
      BY <1>a, <3>3, <3>4, AnchorEndsTheChain DEF IInv
    <3>6. {j \in 1..(i - 1) \ unanchored : chat'[j].subject = chat'[i].subject} =
          {j \in 1..Len(chat) \ unanchored : chat[j].subject = reply.subject}
      BY <1>c, <3>1, <3>2
    <3> QED
      BY <3>2, <3>5, <3>6
  <2> QED
    BY <1>d, <2>2, <2>3
<1>6. RepliesHaveNoHoles'
  <2>1. SUFFICES ASSUME NEW i \in 1..Len(chat'), chat'[i].part > 1
                 PROVE  /\ i > 1 /\ chat'[i - 1].part = chat'[i].part - 1
                        /\ chat'[i - 1].subject = chat'[i].subject /\ ~chat'[i - 1].buttons
    BY DEF RepliesHaveNoHoles
  <2>2. CASE i \in 1..Len(chat)
    <3>1. /\ i > 1 /\ chat[i - 1].part = chat[i].part - 1
          /\ chat[i - 1].subject = chat[i].subject /\ ~chat[i - 1].buttons
      BY <1>c, <2>1, <2>2 DEF IInv, RepliesHaveNoHoles
    <3>2. i - 1 \in 1..Len(chat)
      BY <1>b, <2>2, <3>1
    <3> QED
      BY <1>c, <2>2, <3>1, <3>2
  <2>3. CASE i = Len(chat')
    <3>1. chat'[i] = m /\ m.part = chunk /\ m.subject = reply.subject
      BY <1>c, <2>3 DEF m
    <3>2. /\ Len(chat) > 0 /\ chat[Len(chat)].part = chunk - 1
          /\ chat[Len(chat)].subject = reply.subject /\ ~chat[Len(chat)].buttons
      BY <1>a, <2>1, <3>1 DEF IInv, PlaceInv, Last
    <3>3. i - 1 = Len(chat) /\ chat'[i - 1] = chat[Len(chat)]
      BY <1>b, <1>c, <2>3, <3>2
    <3> QED
      BY <1>b, <1>c, <2>3, <3>1, <3>2, <3>3
  <2> QED
    BY <1>d, <2>2, <2>3
<1> QED
  BY <1>1, <1>2, <1>3, <1>4, <1>5, <1>6 DEF IInv

\* A chunk that fails leaves the chat as it is, but for the message whose answer is lost.
LEMMA SendStepsKeep ==
    ASSUME IInv, MarkdownRejected \/ SendFails \/ AnswerLost PROVE IInv'
<1>1. CASE MarkdownRejected
  <2>1. Types' /\ PlaceInv' /\ AimInv'
    BY <1>1 DEF IInv, Types, PlaceInv, AimInv, Last, MarkdownRejected
  <2>2. TypistInv' /\ NoPhantomTyping'
    BY <1>1 DEF IInv, TypistInv, NoPhantomTyping, MarkdownRejected, threads
  <2>3. AnchorInv' /\ ThreadsChain' /\ RepliesHaveNoHoles'
    BY <1>1, ChatStays DEF MarkdownRejected
  <2> QED
    BY <2>1, <2>2, <2>3 DEF IInv
<1>2. CASE SendFails
  <2>1. Types' /\ PlaceInv' /\ AimInv' /\ pc' \in {"idle", "pulling"}
    BY <1>2, NextPullKeeps DEF SendFails, IInv, Types
  <2>2. TypistInv' /\ NoPhantomTyping'
    BY <1>2, NextPullRests DEF SendFails
  <2>3. AnchorInv' /\ ThreadsChain' /\ RepliesHaveNoHoles'
    BY <1>2, <2>1, ChatStays DEF SendFails
  <2> QED
    BY <2>1, <2>2, <2>3 DEF IInv
<1>3. CASE AnswerLost
  <2>1. Types' /\ PlaceInv' /\ AimInv' /\ pc' \in {"idle", "pulling"}
    BY <1>3, NextPullKeeps DEF AnswerLost, IInv, Types
  <2>2. TypistInv' /\ NoPhantomTyping'
    BY <1>3, NextPullRests DEF AnswerLost
  <2>3. AnchorInv' /\ ThreadsChain' /\ RepliesHaveNoHoles'
    BY <1>3, <2>1, ChatLosesTrack DEF AnswerLost
  <2> QED
    BY <2>1, <2>2, <2>3 DEF IInv
<1> QED
  BY <1>1, <1>2, <1>3

\* A chunk that arrived becomes the anchor of its subject.
LEMMA AnchorMoves ==
    ASSUME IInv, pc = "landed", pc' # "landed", UNCHANGED <<chat, unanchored>>,
           reply.subject \in Subjects, Record(AnchorEntry(reply.subject, Len(chat)))
    PROVE  /\ ledger' \in Seq(Anchors) /\ AnchorInv'
           /\ AnchorFor(ledger', reply.subject) = Len(chat)
<1>s. PICK s \in Subjects : s = reply.subject
  OBVIOUS
<1> DEFINE e == AnchorEntry(s, Len(chat))
<1>a. /\ Len(ledger) \in Nat /\ Len(chat) \in Nat \ {0}
      /\ Last.subject = s /\ Len(chat) \notin unanchored
  BY <1>s DEF IInv, Types, PlaceInv
<1>b. e \in Anchors /\ e.kind = "thread_anchor" /\ e.subject = s /\ e.message_id = Len(chat)
  BY <1>a DEF Anchors, AnchorEntry
<1>c. \A k \in 1..Len(ledger) :
          ledger[k].kind = "thread_anchor" /\ ledger[k].subject \in Subjects
  BY DEF IInv, Types, Anchors, AnchorEntry
<1> HIDE DEF e
<1>d. /\ ledger' = Append(ledger, e) /\ ledger' \in Seq(Anchors)
      /\ Len(ledger') = Len(ledger) + 1
      /\ \A k \in 1..Len(ledger) : ledger'[k] = ledger[k]
      /\ ledger'[Len(ledger')] = e
  BY <1>s, <1>b DEF Record, IInv, Types, e
<1>e. 1..Len(ledger') = 1..Len(ledger) \cup {Len(ledger')}
  BY <1>a, <1>d
<1>1. ASSUME NEW t \in Subjects
      PROVE  Recorded(t)' = Recorded(t) \cup (IF t = s THEN {Len(chat)} ELSE {})
  BY <1>a DEF Recorded, Last
<1>2. ASSUME NEW t \in Subjects, NEW j \in Recorded(t) PROVE j \in Nat /\ j < Len(chat)
  BY <1>a DEF Recorded
<1>3. ASSUME NEW k \in 1..Len(ledger)
      PROVE  /\ ledger[k].message_id \in Recorded(ledger[k].subject)
             /\ ledger[k].message_id \in Nat /\ ledger[k].message_id < Len(chat)
  BY <1>c, <1>2 DEF IInv, AnchorInv
<1> HIDE DEF Recorded
<1>4. \A k \in 1..Len(ledger') : (ledger[k].message_id \in Recorded(ledger[k].subject))'
  <2>1. ASSUME NEW k \in 1..Len(ledger)
        PROVE  (ledger[k].message_id \in Recorded(ledger[k].subject))'
    <3>1. ledger'[k] = ledger[k] /\ ledger[k].subject \in Subjects
      BY <1>c, <1>d
    <3>2. ledger[k].message_id \in Recorded(ledger[k].subject)'
      BY <1>1, <1>3, <3>1
    <3> QED
      BY <3>1, <3>2 DEF Recorded
  <2>2. (ledger[Len(ledger)].message_id \in Recorded(ledger[Len(ledger)].subject))'
    <3>1. Len(chat) \in Recorded(s)'
      <4>1. Recorded(s)' = Recorded(s) \cup {Len(chat)}
        BY <1>1
      <4> QED
        BY <4>1
    <3>2. ledger'[Len(ledger')].subject = s /\ ledger'[Len(ledger')].message_id = Len(chat)
      BY <1>b, <1>d
    <3> QED
      BY <3>1, <3>2 DEF Recorded
  <2> QED
    BY <1>e, <2>1, <2>2
<1>5. \A k, l \in 1..Len(ledger') : k < l => ledger'[k].message_id < ledger'[l].message_id
  <2>1. ASSUME NEW k \in 1..Len(ledger'), NEW l \in 1..Len(ledger'), k < l
        PROVE  ledger'[k].message_id < ledger'[l].message_id
    <3>1. k \in 1..Len(ledger)
      BY <1>a, <1>d, <2>1
    <3>2. CASE l \in 1..Len(ledger)
      BY <1>d, <2>1, <3>1, <3>2 DEF IInv, AnchorInv
    <3>3. CASE l = Len(ledger')
      BY <1>b, <1>d, <1>3, <3>1, <3>3
    <3> QED
      BY <1>e, <3>2, <3>3
  <2> QED
    BY <2>1
<1>6. ASSUME NEW t \in Subjects, NEW j \in Recorded(t)'
      PROVE  \E k \in 1..Len(ledger') : ledger'[k].subject = t /\ ledger'[k].message_id = j
  <2>1. CASE j \in Recorded(t)
    <3>1. PICK k \in 1..Len(ledger) : ledger[k].subject = t /\ ledger[k].message_id = j
      BY <2>1 DEF IInv, AnchorInv
    <3> QED
      BY <1>d, <1>e, <3>1
  <2>2. CASE t = s /\ j = Len(chat)
    BY <1>b, <1>d, <1>e, <2>2
  <2> QED
    BY <1>1, <2>1, <2>2
<1>7. AnchorInv'
  BY <1>4, <1>5, <1>6 DEF AnchorInv
<1>8. AnchorFor(ledger', s) = Len(chat)
  <2>1. Len(ledger') \in AnchorsOf(ledger', s)
    BY <1>b, <1>d, <1>e DEF AnchorsOf, EntriesOf
  <2>2. \A k \in AnchorsOf(ledger', s) : k \in Nat /\ Len(ledger') >= k
    BY <1>a, <1>d DEF AnchorsOf, EntriesOf
  <2>3. ASSUME NEW k \in AnchorsOf(ledger', s), \A l \in AnchorsOf(ledger', s) : k >= l
        PROVE  k = Len(ledger')
    BY <1>a, <1>d, <2>1, <2>2, <2>3
  <2>4. AnchorFor(ledger', s) = ledger'[Len(ledger')].message_id
    BY <2>1, <2>2, <2>3 DEF AnchorFor
  <2> QED
    BY <1>b, <1>d, <2>4
<1> QED
  BY <1>s, <1>d, <1>7, <1>8

\* A chunk Telegram answered for becomes the anchor, and the next one or pull follows.
LEMMA ChunkSentKeeps == ASSUME IInv, ChunkSent PROVE IInv'
<1>a. /\ pc = "landed" /\ Anchored /\ UNCHANGED <<chat, typing, late, slow, overdue, unanchored>>
      /\ reply.subject \in AnySubject
      /\ chunk \in Nat \ {0} /\ reply.chunks \in Nat /\ chunk <= reply.chunks
      /\ replyTo \in Nat /\ Len(chat) \in Nat \ {0}
      /\ Last.part = chunk /\ Last.subject = reply.subject
      /\ (Last.buttons => chunk = reply.chunks)
  BY DEF ChunkSent, IInv, Types, PlaceInv
<1>b. pc' \in {"idle", "pulling", "sending"}
  BY DEF ChunkSent, NextPull
<1>1. /\ ledger' \in Seq(Anchors) /\ AnchorInv'
      /\ reply.subject # NoSubject => AnchorFor(ledger', reply.subject) = Len(chat)
  <2>1. CASE reply.subject = NoSubject
    <3>1. UNCHANGED ledger
      BY <1>a, <2>1 DEF Anchored
    <3>2. \A s \in Subjects : Recorded(s)' = Recorded(s)
      BY <1>a, <1>b, <2>1, SubjectsAssumption DEF Recorded, Last
    <3>3. AnchorInv'
      BY <3>1, <3>2, AnchorsStay DEF IInv
    <3> QED
      BY <2>1, <3>1, <3>3 DEF IInv, Types
  <2>2. CASE reply.subject # NoSubject
    <3>1. reply.subject \in Subjects /\ Record(AnchorEntry(reply.subject, Len(chat)))
      BY <1>a, <2>2 DEF Anchored, AnySubject
    <3> QED
      BY <1>a, <1>b, <3>1, AnchorMoves
  <2> QED
    BY <2>1, <2>2
<1>2. ThreadsChain' /\ RepliesHaveNoHoles'
  <2>1. ThreadsChain'
    BY <1>a, ChainStays DEF IInv
  <2> QED
    BY <1>a, <2>1 DEF IInv, RepliesHaveNoHoles
<1>3. CASE chunk < reply.chunks
  <2>1. /\ pc' = "sending" /\ chunk' = chunk + 1 /\ UNCHANGED <<about, reply, typist>>
        /\ replyTo' = IF reply.subject = NoSubject THEN replyTo ELSE Len(chat)
    BY <1>3 DEF ChunkSent
  <2>2. Types'
    BY <1>a, <1>1, <2>1 DEF IInv, Types, Places
  <2>3. chunk' \in Nat /\ chunk' <= reply.chunks /\ chunk' - 1 = chunk /\ ~Last.buttons
    <3>1. PICK n \in Nat, k \in Nat : n = chunk /\ k = reply.chunks
      BY <1>a
    <3>2. n < k /\ chunk' = n + 1 /\ n # k
      BY <1>3, <2>1, <3>1
    <3> QED
      BY <1>a, <3>1, <3>2
  <2>4. PlaceInv' /\ AimInv'
    BY <1>a, <1>1, <2>1, <2>3 DEF IInv, PlaceInv, AimInv, Last
  <2>5. TypistInv' /\ NoPhantomTyping'
    BY <1>a, <2>1 DEF IInv, TypistInv, NoPhantomTyping
  <2> QED
    BY <1>1, <1>2, <2>2, <2>4, <2>5 DEF IInv
<1>4. CASE ~(chunk < reply.chunks)
  <2>1. NextPull
    BY <1>4 DEF ChunkSent
  <2>2. Types' /\ PlaceInv' /\ AimInv'
    BY <1>a, <1>1, <2>1, NextPullKeeps
  <2>3. TypistInv' /\ NoPhantomTyping'
    BY <1>a, <2>1, NextPullRests
  <2> QED
    BY <1>1, <1>2, <2>2, <2>3 DEF IInv
<1> QED
  BY <1>3, <1>4

\* A crash loses track of a message that has landed and is not on record, of no other.
LEMMA CrashKeeps == ASSUME IInv, Crash PROVE IInv'
<1>a. /\ pc' = "idle" /\ ForgetReply /\ about' = NoSubject /\ typist' = "none"
      /\ UNCHANGED <<ledger, chat, typing, slow>>
      /\ unanchored' = IF pc = "landed" THEN unanchored \cup {Len(chat)} ELSE unanchored
  BY DEF Crash, ForgetHandler
<1>1. Types' /\ PlaceInv' /\ AimInv'
  <2>1. ledger' \in Seq(Anchors) /\ about' \in AnySubject /\ (pc = "landed" => Len(chat) > 0)
    BY <1>a DEF IInv, Types, PlaceInv, AnySubject
  <2> QED
    BY <1>a, <2>1, OutOfSend DEF IInv
<1>2. TypistInv' /\ NoPhantomTyping'
  <2>1. /\ late' = late + (IF InCall THEN 1 ELSE 0)
        /\ overdue' = (overdue \/ InCall)
    BY DEF Crash
  <2>2. late' \in Nat /\ (late' > 0 => overdue')
    <3>0. (overdue => overdue') /\ (InCall => overdue')
      BY <2>1, Zenon
    <3>1. PICK n \in Nat : n = late /\ (n > 0 => overdue)
      BY DEF IInv, TypistInv
    <3>2. CASE InCall
      BY <2>1, <3>0, <3>1, <3>2
    <3>3. CASE ~InCall
      <4>1. late' = n
        BY <2>1, <3>1, <3>3
      <4> QED
        BY <3>0, <3>1, <4>1
    <3> QED
      BY <3>2, <3>3
  <2> QED
    BY <1>a, <2>1, <2>2 DEF IInv, TypistInv, NoPhantomTyping
<1>3. AnchorInv' /\ ThreadsChain' /\ RepliesHaveNoHoles'
  <2>1. CASE pc = "landed"
    BY <1>a, <2>1, ChatLosesTrack
  <2>2. CASE pc # "landed"
    BY <1>a, <2>2, ChatStays
  <2> QED
    BY <2>1, <2>2
<1> QED
  BY <1>1, <1>2, <1>3 DEF IInv

-----------------------------------------------------------------------------
\* The invariant of the conversation.
THEOREM ConversationInvariant == Spec => []IInv
<1>1. Init => IInv
  <2> SUFFICES ASSUME Init PROVE IInv
    OBVIOUS
  <2>1. Stop \in [subject : AnySubject, chunks : Nat, last : BOOLEAN]
    BY DEF Stop, Reply, AnySubject
  <2>2. Len(ledger) = 0 /\ Len(chat) = 0 /\ DOMAIN chat = {}
    BY DEF Init
  <2>3. Types
    BY <2>1, <2>2 DEF Init, Types, Places, AnySubject
  <2>4. AnchorInv /\ PlaceInv /\ AimInv
    BY <2>2 DEF Init, AnchorInv, PlaceInv, AimInv, Recorded
  <2>5. TypistInv /\ NoPhantomTyping
    BY DEF Init, TypistInv, NoPhantomTyping
  <2>6. ThreadsChain /\ RepliesHaveNoHoles
    BY <2>2 DEF ThreadsChain, RepliesHaveNoHoles
  <2> QED
    BY <2>3, <2>4, <2>5, <2>6 DEF IInv
<1>2. IInv /\ [Next]_vars => IInv'
  <2> SUFFICES ASSUME IInv, [Next]_vars PROVE IInv'
    OBVIOUS
  <2>1. CASE Dispatch
    BY <2>1, DispatchKeeps
  <2>2. CASE PullEnds
    BY <2>2, PullEndsKeeps
  <2>3. CASE Join
    BY <2>3, JoinKeeps
  <2>4. CASE SendStep
    BY <2>4, ChunkLandsKeeps, SendStepsKeep, ChunkSentKeeps DEF SendStep
  <2>5. CASE Crash
    BY <2>5, CrashKeeps
  <2>6. CASE Typist \/ IndicatorFades
    BY <2>6, TypistKeeps
  <2>7. CASE UNCHANGED vars
    <3>1. /\ UNCHANGED <<ledger, chat, pc, about, sending, unanchored>>
          /\ UNCHANGED <<typing, typist, late, slow, overdue>>
      BY <2>7 DEF vars, threads
    <3>2. TypistInv' /\ NoPhantomTyping'
      BY <3>1 DEF IInv, TypistInv, NoPhantomTyping
    <3> QED
      BY <3>1, <3>2, QuietSteps DEF IInv
  <2> QED
    BY <2>1, <2>2, <2>3, <2>4, <2>5, <2>6, <2>7 DEF Next
<1> QED
  BY <1>1, <1>2, PTL DEF Spec

\* threads.py: whatever is lost, refused or cut off by a restart, every message about
\* a subject answers the last one about it that the daemon knows of.
THEOREM ThreadsAreChains == Spec => []ThreadsChain
<1>1. IInv => ThreadsChain
  BY DEF IInv
<1> QED
  BY <1>1, ConversationInvariant, PTL

\* send_message: a reply of any length is shown from its first chunk on, without a hole.
THEOREM RepliesAreWhole == Spec => []RepliesHaveNoHoles
<1>1. IInv => RepliesHaveNoHoles
  BY DEF IInv
<1> QED
  BY <1>1, ConversationInvariant, PTL

\* _typing: a message is followed by the indicator only if a pull has outlasted the
\* delay since, or if a call outlasted the second of its join or was cut off by a crash.
THEOREM TypingIsExplained == Spec => []NoPhantomTyping
<1>1. IInv => NoPhantomTyping
  BY DEF IInv
<1> QED
  BY <1>1, ConversationInvariant, PTL
=============================================================================
