--------------------------- MODULE MCTransmission ---------------------------
(***************************************************************************)
(* Messages of every type with up to two arguments of up to two words and  *)
(* lines of up to three words, with and without spare spaces, shorter than *)
(* a line may be, exactly as long, and longer.                             *)
(***************************************************************************)
EXTENDS Transmission

Words == [identifier : BOOLEAN, len : {1, 4, 5}]

Texts == BoundedSeq(Words, 2)

SomeMessages == [type : MessageType \cup {"NONE"}, args : BoundedSeq(Texts, 2)]

\* The length a line has without spare spaces.
Packed(type, words) ==
    (IF type \in MessageType THEN NameLen(type) ELSE 3) + 1
    + (IF words = <<>> THEN 0 ELSE 1 + TextLen(words))

\* Lines without quotation marks, and FAILED and ERROR lines with them.
SomeLines ==
    {[type |-> type, words |-> words, quoted |-> FALSE, newline |-> newline,
      len |-> Packed(type, words) + spare] :
        type \in MessageType \cup {"GARBAGE"}, words \in BoundedSeq(Words, 3),
        newline \in BOOLEAN, spare \in {0, 2}}
    \cup
    {[type |-> type, words |-> words, quoted |-> TRUE, newline |-> TRUE,
      len |-> Packed(type, words) + 2] :
        type \in Quoted, words \in BoundedSeq(Words, 3)}
=============================================================================
