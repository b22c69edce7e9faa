------------------------------- MODULE Table -------------------------------
(***************************************************************************)
(* One Table of the server: the two maps it keeps and the operations on    *)
(* them (table.h, table.cpp).  A map is a total function on Keys in which  *)
(* None stands for "no such key".  The table's mutex belongs to the        *)
(* threads that contend for it and is modelled in BasicServer.             *)
(***************************************************************************)
CONSTANTS Keys,   \* the keys clients use
          None    \* stands for "no value", "no reply", "no request"

\* A freshly constructed map.
NoPairs == [k \in Keys |-> None]

\* Table::set writes the proposed map and never the committed one.
set(proposed, k, v) == [proposed EXCEPT ![k] = v]

has_key(kvp, proposed, k) == kvp[k] # None \/ proposed[k] # None

\* Table::get prefers the committed pair; None stands for the throw at its end.
get(kvp, proposed, k) == IF kvp[k] # None THEN kvp[k] ELSE proposed[k]

\* Table::commit_changes copies every proposed pair and does not clear the
\* proposed map, so pairs that are already committed are proposed again later.
commit_changes(kvp, proposed) ==
    [k \in Keys |-> IF proposed[k] # None THEN proposed[k] ELSE kvp[k]]

\* Mutant: the proposed map is not cleared.
rollback_keeps(proposed) == proposed

rollback_changes(proposed) == NoPairs
=============================================================================
