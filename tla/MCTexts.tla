------------------------------- MODULE MCTexts -------------------------------
(* Texts out, split by chunk_for_telegram, and texts in, read by the router: every *)
(* short one of each.                                                              *)
EXTENDS TelegramChunks, Router

CONSTANT MaxIncoming    \* bound of the instance: the longest text in
ASSUME IncomingBound == MaxIncoming \in Nat
VARIABLE incoming       \* what was typed, or the data of the button tapped

Keys == {"/", "@", ":", "blank", "newline", "x", "X"}
Incoming == UNION {[1..n -> Keys] : n \in 0..MaxIncoming}
MCRoutes == {<<"x">>}

MCInit == Init /\ incoming \in (IF text = <<>> THEN Incoming ELSE {<<>>})
MCNext == (TakeChunk \/ TakeRest) /\ UNCHANGED incoming
MCSpec == MCInit /\ [][MCNext]_<<vars, incoming>>

\* What is typed or tapped reaches the handler it names, with all it says: over every
\* text of the length bound, as a message and as callback_data.
TextsMeanWhatTheySay ==
    CommandMeansWhatItSays(incoming) /\ ButtonMeansWhatItSays(incoming)
=============================================================================
