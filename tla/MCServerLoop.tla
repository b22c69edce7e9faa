---------------------------- MODULE MCServerLoop ----------------------------
(***************************************************************************)
(* An instance of ServerLoop for TLC: two clients meet a server that has   *)
(* room for three sockets, two threads and three connection objects.       *)
(***************************************************************************)
EXTENDS ServerLoop
=============================================================================
