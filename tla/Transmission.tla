---------------------------- MODULE Transmission ----------------------------
(***************************************************************************)
(* A message on its way: the sender encodes it or, not being one of these  *)
(* programs, writes a line of its own; the receiver decodes the line; and  *)
(* a server that has received a PUSH answers a later TOP with the value in *)
(* a DATA message.                                                         *)
(***************************************************************************)
EXTENDS Message

CONSTANTS Messages,   \* the messages sent through encode
          Lines       \* the lines of other senders

\* A line is as long as its type, its words with a space before each and its
\* newline, or longer.
PackedLen(line) ==
    NameLen(line.type)
    + SumFunction([i \in 1..Len(line.words) |-> 1 + line.words[i].len])
    + (IF line.newline THEN 1 ELSE 0)

ASSUME TransmissionAssumption ==
    /\ Messages \subseteq [type : STRING, args : Seq(Text)]
    /\ Lines \subseteq [type : STRING, words : Text, quoted : BOOLEAN,
                        newline : BOOLEAN, len : Nat]
    /\ \A l \in Lines : l.type \in MessageType => l.len >= PackedLen(l)

VARIABLES sent, line, received, answer

vars == <<sent, line, received, answer>>

Nothing == [type |-> "nothing yet"]

Init ==
    /\ \/ sent \in Messages /\ line = Nothing
       \/ sent = Nothing /\ line \in Lines
    /\ received = Nothing
    /\ answer = Nothing

Send ==
    /\ line = Nothing
    /\ line' = encode(sent)
    /\ UNCHANGED <<sent, received, answer>>

Receive ==
    /\ line \notin {Nothing, InvalidMessage}
    /\ received = Nothing
    /\ received' = decode(line)
    /\ UNCHANGED <<sent, line, answer>>

\* handle_push keeps the argument; handle_top encodes it again.
AnswerTop ==
    /\ received.type = "PUSH"
    /\ answer = Nothing
    /\ answer' = encode([type |-> "DATA", args |-> received.args])
    /\ UNCHANGED <<sent, line, received>>

Next == Send \/ Receive \/ AnswerTop

Spec == Init /\ [][Next]_vars

-----------------------------------------------------------------------------
\* The message keeps to the protocol: it is valid, its type has no quoted
\* text, and each argument is one word.
Plain(m) ==
    /\ m.type \in MessageType \ Quoted
    /\ is_valid(m)
    /\ \A i \in 1..Len(m.args) : Len(m.args[i]) = 1

\* A plain message that encode accepts arrives as it was sent (encode, decode,
\* is_valid agree on arguments, lengths and the newline).
RoundTrip == Plain(sent) /\ received # Nothing => received = sent

\* Whatever line arrives, the message decode makes of it is a valid one that
\* encode can send on and decode reads back unchanged.
DecodedIsPlain ==
    received.type \in MessageType \ Quoted =>
        /\ Plain(received)
        /\ encode(received) # InvalidMessage
        /\ decode(encode(received)) = received

\* A value that arrived in a PUSH is never too long to be sent back: handle_top
\* cannot meet the InvalidMessage that call_response_function would answer by
\* closing the connection.
AnswerFits == answer # InvalidMessage
=============================================================================
