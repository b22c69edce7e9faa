------------------------------ MODULE Message ------------------------------
(***************************************************************************)
(* Messages and the lines they are sent as (message.cpp and                *)
(* message_serialization.cpp).  An argument is a text, a sequence of       *)
(* words; of a word only its length matters and whether it can be an       *)
(* identifier.  A line keeps its words, its length with the newline,       *)
(* whether the newline is there, and whether the text of a FAILED or an    *)
(* ERROR stands in quotation marks (elsewhere a quotation mark is one more *)
(* character of a word that is no identifier).                             *)
(***************************************************************************)
EXTENDS Integers, SequencesExt

CONSTANT MAX_ENCODED_LEN

ASSUME MaxLenAssumption == MAX_ENCODED_LEN \in Nat

Word == [identifier : BOOLEAN, len : Nat]
Text == Seq(Word)

\* Requests and responses by the number of arguments is_valid asks for; the
\* arguments of OK, FAILED and ERROR are not checked.
NoArg   == {"POP", "TOP", "ADD", "SUB", "MUL", "DIV", "BEGIN", "COMMIT", "BYE"}
OneArg  == {"LOGIN", "CREATE", "PUSH", "DATA"}
TwoArgs == {"SET", "GET"}
Quoted  == {"FAILED", "ERROR"}
MessageType == NoArg \cup OneArg \cup TwoArgs \cup Quoted \cup {"OK"}

\* The length of the type's name.
NameLen(type) ==
    CASE type \in {"OK"} -> 2
      [] type \in {"POP", "TOP", "ADD", "SUB", "MUL", "DIV", "BYE", "SET", "GET"} -> 3
      [] type \in {"PUSH", "DATA"} -> 4
      [] type \in {"LOGIN", "BEGIN", "ERROR"} -> 5
      [] type \in {"CREATE", "COMMIT", "FAILED"} -> 6

-----------------------------------------------------------------------------
is_valid_identifier(text) == Len(text) = 1 /\ text[1].identifier

is_valid(m) ==
    /\ m.type \in NoArg   => Len(m.args) = 0
    /\ m.type \in OneArg  => Len(m.args) = 1
    /\ m.type \in TwoArgs => Len(m.args) = 2
    /\ m.type \in {"LOGIN", "CREATE", "SET", "GET"} =>
           \A i \in 1..Len(m.args) : is_valid_identifier(m.args[i])
    /\ m.type = "PUSH" => m.args[1] # <<>>

InvalidMessage == [type |-> "InvalidMessage"]   \* the exception

\* A text is as long as its words and the spaces between them.
TextLen(text) ==
    SumFunction([i \in 1..Len(text) |-> text[i].len])
    + (IF text = <<>> THEN 0 ELSE Len(text) - 1)

\* The type, a space before each argument, the newline.
EncodedLen(m) ==
    NameLen(m.type) + SumFunction([i \in 1..Len(m.args) |-> 1 + TextLen(m.args[i])]) + 1

check_message_size(len) == len <= MAX_ENCODED_LEN

\* The arguments are written as they are: nothing puts the text of a FAILED or
\* an ERROR in quotation marks.
encode(m) ==
    IF m.type \in MessageType /\ check_message_size(EncodedLen(m))
    THEN [type |-> m.type, words |-> FlattenSeq(m.args), quoted |-> FALSE,
          newline |-> TRUE, len |-> EncodedLen(m)]
    ELSE InvalidMessage

extract_quoted_text_arg(line) == <<line.words>>

\* Mutant: the words stay together as one argument.
extract_one_arg(line) == <<line.words>>

extract_single_word_args(line) == [i \in 1..Len(line.words) |-> <<line.words[i]>>]

\* Mutant: the length of the line is not checked.
decode_any_length(line) ==
    LET m == [type |-> line.type,
              args |-> IF line.type \in Quoted THEN extract_quoted_text_arg(line)
                       ELSE extract_single_word_args(line)]
    IN  IF /\ line.newline
           /\ line.type \in MessageType
           /\ line.type \in Quoted => line.quoted
           /\ is_valid(m)
        THEN m
        ELSE InvalidMessage

decode(line) ==
    LET m == [type |-> line.type,
              args |-> IF line.type \in Quoted THEN extract_quoted_text_arg(line)
                       ELSE extract_single_word_args(line)]
    IN  IF /\ check_message_size(line.len)
           /\ line.newline
           /\ line.type \in MessageType
           /\ line.type \in Quoted => line.quoted
           /\ is_valid(m)
        THEN m
        ELSE InvalidMessage
=============================================================================
