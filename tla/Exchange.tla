----------------------------- MODULE Exchange -----------------------------
(***************************************************************************)
(* What a connection promises, whatever happens to the bytes on the way:   *)
(* the server carries out the requests it was sent completely, in the      *)
(* order they were sent, each of them once, and the client hears the       *)
(* responses to them in that order.  Anything may be missing at the end:   *)
(* each side can go away.                                                  *)
(***************************************************************************)
EXTENDS Naturals

VARIABLES asked,    \* the number of requests sent, the newline included
          served,   \* the number of the request carried out last
          heard     \* the number of the request whose response was read last

Init == asked = 0 /\ served = 0 /\ heard = 0

Ask   == asked' = asked + 1 /\ UNCHANGED <<served, heard>>
Serve == served < asked /\ served' = served + 1 /\ UNCHANGED <<asked, heard>>
Hear  == heard < served /\ heard' = heard + 1 /\ UNCHANGED <<asked, served>>

Spec == Init /\ [][Ask \/ Serve \/ Hear]_<<asked, served, heard>>
=============================================================================
