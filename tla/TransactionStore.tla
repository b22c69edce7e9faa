-------------------------- MODULE TransactionStore --------------------------
(***************************************************************************)
(* What the server promises its clients about the tables: a store in which *)
(* a client owns a table before it changes it, its changes become visible  *)
(* all at once or not at all, and it lets go of a table only with nothing  *)
(* pending in it.  There are no threads, mutexes or iterations here;       *)
(* ServerRefinesStore shows that the server implements this module.        *)
(***************************************************************************)
CONSTANTS Clients, Names, Keys, Values, None

VARIABLES db,        \* the committed pairs of each table
          owner,     \* the client that may change a table, or None
          pending    \* changes that are proposed and not committed

vars == <<db, owner, pending>>

Pairs == [Keys -> Values \cup {None}]

Nothing == [k \in Keys |-> None]

Init ==
    /\ db \in [Names -> Pairs]
    /\ owner = [t \in Names |-> None]
    /\ pending = [t \in Names |-> Nothing]

Owned(c) == {t \in Names : owner[t] = c}

Acquire(c, t) ==
    /\ owner[t] = None
    /\ owner' = [owner EXCEPT ![t] = c]
    /\ UNCHANGED <<db, pending>>

\* Proposing what is committed already is no change.
Propose(c, t, k, v) ==
    /\ owner[t] = c
    /\ pending' = [pending EXCEPT ![t][k] = IF v = db[t][k] THEN None ELSE v]
    /\ UNCHANGED <<db, owner>>

\* The pending changes without those of the client's tables.
Without(c) ==
    LET mine == Owned(c)
    IN  [t \in Names |-> IF t \in mine THEN Nothing ELSE pending[t]]

\* All of the client's changes take effect in one step.
Commit(c) ==
    LET mine == Owned(c)
    IN  /\ pending' = Without(c)
        /\ db' = [t \in Names |->
                     IF t \in mine
                     THEN [k \in Keys |-> IF pending[t][k] # None THEN pending[t][k]
                                          ELSE db[t][k]]
                     ELSE db[t]]
        /\ UNCHANGED owner

\* None of the client's changes takes effect.
Abort(c) ==
    /\ pending' = Without(c)
    /\ UNCHANGED <<db, owner>>

Release(c, t) ==
    /\ owner[t] = c
    /\ pending[t] = Nothing
    /\ owner' = [owner EXCEPT ![t] = None]
    /\ UNCHANGED <<db, pending>>

Next ==
    \E c \in Clients :
        \/ Commit(c)
        \/ Abort(c)
        \/ \E t \in Names :
              \/ Acquire(c, t)
              \/ Release(c, t)
              \/ \E k \in Keys, v \in Values : Propose(c, t, k, v)

Spec == Init /\ [][Next]_vars
=============================================================================
