------------------------------- MODULE Router --------------------------------
(***************************************************************************)
(* router.py: what a typed text or a tapped button means.  A text is a     *)
(* sequence of characters; the ones the router tells apart stand for       *)
(* themselves, "x" and "X" for the letters.  The texts are short: no bound *)
(* of Telegram's on callback_data but CallbackMax is looked at.            *)
(***************************************************************************)
EXTENDS Naturals, Sequences, FiniteSetsExt

CONSTANTS
    CallbackMax,    \* _CALLBACK_DATA_MAX
    Routes          \* command names with a handler
ASSUME CallbackAssumption == CallbackMax \in Nat

Spaces == {"blank", "newline"}
None == [none |-> TRUE]

\* str.strip, str.lower and the two sides of str.partition.
Strip(s) ==
    LET kept == {p \in DOMAIN s : s[p] \notin Spaces}
    IN  IF kept = {} THEN <<>> ELSE SubSeq(s, Min(kept), Max(kept))
Lower(s) == [p \in DOMAIN s |-> IF s[p] = "X" THEN "x" ELSE s[p]]
Places(s, c) == {p \in DOMAIN s : s[p] = c}
Before(s, c) == IF Places(s, c) = {} THEN s ELSE SubSeq(s, 1, Min(Places(s, c)) - 1)
After(s, c) == IF Places(s, c) = {} THEN <<>> ELSE SubSeq(s, Min(Places(s, c)) + 1, Len(s))

\* (Mutant: the bot's name is looked for in the whole text.)
ParseAddressFirst(text) ==
    LET t == Strip(text)
        name == Lower(Before(Tail(Before(t, "@")), "blank"))
    IN  IF t = <<>> \/ t[1] # "/" \/ name = <<>> THEN None
        ELSE [name |-> name, args |-> Strip(After(Before(t, "@"), "blank"))]
ParseCommand(text) ==
    LET t == Strip(text)
        name == Lower(Before(Tail(Before(t, "blank")), "@"))
    IN  IF t = <<>> \/ t[1] # "/" \/ name = <<>> THEN None
        ELSE [name |-> name, args |-> Strip(After(t, "blank"))]

\* dispatch: chat is ignored, a command that is not known is answered as such.
Route(text) ==
    IF ParseCommand(text) = None THEN "ignored"
    ELSE IF ParseCommand(text).name \in Routes THEN "handled" ELSE "unknown"

\* encode_action raises, here <<>>, on a part that is empty or holds a colon, and on
\* too much data.
EncodeAction(target, subject, verb) ==
    LET data == target \o <<":">> \o subject \o <<":">> \o verb
    IN  IF \/ \E part \in {target, subject, verb} : part = <<>> \/ Places(part, ":") # {}
           \/ Len(data) > CallbackMax
        THEN <<>> ELSE data

ParseCallback(data) ==
    LET target == Before(data, ":")
        subject == Before(After(data, ":"), ":")
        verb == After(After(data, ":"), ":")
    IN  IF Cardinality(Places(data, ":")) # 2 \/ <<>> \in {target, subject, verb} THEN None
        ELSE [target |-> target, subject |-> subject, verb |-> verb]

-----------------------------------------------------------------------------
\* A slash command is never passed over in silence, is the same with the bot's name
\* behind it, and its arguments are all that follows its first blank, letter case and
\* "@" included.  That its name and the first blank stand on one line is assumed: of
\* "/idea" with the title on the next line the router makes a name nobody knows, and
\* with "@bot" in between a command without a title.
CommandMeansWhatItSays(text) ==
    LET t == Strip(text)
        word == Before(t, "blank")
        said == Before(word, "@")
        command == ParseCommand(text)
    IN  t # <<>> /\ t[1] = "/" /\ Len(said) > 1 /\ Places(word, "newline") = {} =>
            /\ Route(text) # "ignored"
            /\ command # None
            /\ command.name = ParseCommand(said).name
            /\ command.args = Strip(After(t, "blank"))

\* callback_data means one action, the one whose button carries it, and a bare word
\* such as an ask's "allow" means none.
ButtonMeansWhatItSays(data) ==
    /\ Places(data, ":") = {} => ParseCallback(data) = None
    /\ LET action == ParseCallback(data)
       IN  action # None /\ Len(data) <= CallbackMax =>
               EncodeAction(action.target, action.subject, action.verb) = data
    /\ \A i, j \in Places(data, ":") :
          i < j =>
              LET target == SubSeq(data, 1, i - 1)
                  subject == SubSeq(data, i + 1, j - 1)
                  verb == SubSeq(data, j + 1, Len(data))
              IN  EncodeAction(target, subject, verb) # <<>> =>
                      ParseCallback(data) =
                          [target |-> target, subject |-> subject, verb |-> verb]
=============================================================================
