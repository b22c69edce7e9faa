--------------------------- MODULE MCBasicServer ---------------------------
(***************************************************************************)
(* Instances of BasicServer for TLC: the requests, tables and values of    *)
(* the runs, and the symmetry of the connections.                          *)
(***************************************************************************)
EXTENDS ServerRefinesStore, TLC

CONSTANTS t1, t2, k1, k2

int(n)    == [form |-> "int", num |-> n]
padded(n) == [form |-> "padded", num |-> n]
word      == [form |-> "word", num |-> 0]
huge      == [form |-> "huge", num |-> 0]

op(name)    == [op |-> name]
PUSH(v)     == [op |-> "PUSH", value |-> v]
SET(t, k)   == [op |-> "SET", table |-> t, key |-> k]
GET(t, k)   == [op |-> "GET", table |-> t, key |-> k]
CREATE(t)   == [op |-> "CREATE", table |-> t]

Transaction == {op("BEGIN"), op("COMMIT")}

ConnSymmetry == Permutations(Conns)

-----------------------------------------------------------------------------
\* Two tables set and read in transactions and outside: one with a committed
\* value that a SET overwrites, one that whoever comes first has to create.
TxTables   == t1 :> [k \in Keys |-> int(0)]
TxRequests == Transaction \cup {CREATE(t2), PUSH(int(1)), SET(t1, k1), SET(t2, k1), GET(t2, k1)}

\* One empty table that clients lock in transactions and outside, and whose
\* key they ask for before and after it is set, in conversations that BYE ends
\* wherever they are.
EmptyTable   == t1 :> NoPairs
LiveRequests == Transaction \cup {op("BYE"), PUSH(int(1)), SET(t1, k1), GET(t1, k1)}

\* A table is created by whoever comes first and used at once.
NoTables    == [t \in {} |-> NoPairs]
NewRequests == LiveRequests \cup {CREATE(t1)}

\* Everything a connection does with its own stack.
StackRequests == Transaction
                 \cup {op(o) : o \in ArithOps \cup {"POP", "TOP", "BYE", "UNSUPPORTED"}}
                 \cup {PUSH(int(n)) : n \in Ints}
                 \cup {PUSH(padded(2)), PUSH(word), PUSH(huge)}
=============================================================================
