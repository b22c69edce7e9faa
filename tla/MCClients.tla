----------------------------- MODULE MCClients -----------------------------
(***************************************************************************)
(* Instances of Clients for TLC: which program each client runs, on two    *)
(* tables that have the key k1 and lack the key k2.                        *)
(***************************************************************************)
EXTENDS Clients, TLC

CONSTANTS c1, c2, c3, t1, t2, k1, k2

\* The value of k1 is so large that the second increment overflows.
TwoTables ==
    [t \in TableNames |-> [k \in Keys |-> IF k = k1 THEN to_string(IntMax - 1) ELSE None]]

\* Two clients increment the same key in transactions, one reads it.
Increments == (c1 :> incr_value(TRUE, t1, k1)) @@ (c2 :> incr_value(TRUE, t1, k1))
              @@ (c3 :> get_value(t1, k1))

\* A transaction and two clients that wait for its table, whose key is missing
\* until one of them has set it.
Mixture == (c1 :> incr_value(TRUE, t1, k2)) @@ (c2 :> incr_value(FALSE, t1, k2))
           @@ (c3 :> set_value(t1, k2, to_string(0)))

\* A transaction of another client than the repository's, which sets a key in
\* both tables while two clients read it, one of them in a transaction.
SetBoth ==
    LET put(t) == <<[op |-> "PUSH", value |-> to_string(1)],
                    [op |-> "SET", table |-> t, key |-> k1]>>
    IN  <<LOGIN, [op |-> "BEGIN"]>> \o put(t1) \o put(t2) \o <<[op |-> "COMMIT"], BYE>>
GetBoth ==
    LET fetch(t) == <<[op |-> "GET", table |-> t, key |-> k1]>>
    IN  <<LOGIN, [op |-> "BEGIN"]>> \o fetch(t1) \o fetch(t2) \o <<[op |-> "COMMIT"], BYE>>
Reads == (c1 :> SetBoth) @@ (c2 :> GetBoth) @@ (c3 :> get_value(t2, k1))

AllPrograms == {Increments, Mixture, Reads}

OnlyIncrements == {Increments}

SentRequests ==
    UNION {{p[c][i] : i \in DOMAIN p[c]} : p \in AllPrograms, c \in Conns} \ {LOGIN}
=============================================================================
