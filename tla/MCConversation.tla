--------------------------- MODULE MCConversation ---------------------------
(***************************************************************************)
(* An instance of Conversation for TLC.  Lines are longer than what the    *)
(* kernel takes at once, the buffers can hold the end of one line and the  *)
(* start of the next, and a response of three characters is one too long   *)
(* for a client's rio_readlineb, as one of 1024 is for its buf.            *)
(***************************************************************************)
EXTENDS Conversation

ReadSizes == [e \in Ends |-> IF e = "client" THEN 3 ELSE 5]
=============================================================================
