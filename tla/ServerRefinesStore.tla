------------------------- MODULE ServerRefinesStore -------------------------
(***************************************************************************)
(* The threads of BasicServer implement the store of TransactionStore: the *)
(* commit of a transaction, which the code performs table by table, takes  *)
(* effect when handle_commit starts its iteration, and a rollback when     *)
(* fail_transaction starts its own.                                        *)
(***************************************************************************)
EXTENDS BasicServer

\* c is in the iteration that ends its transaction and has not left t yet.
Committing(c, t) == pc[c] \in {"commit", "commit_unlock"} /\ t \in todo[c]
Failing(c, t)    == pc[c] \in {"fail", "fail_unlock"} /\ t \in todo[c]

\* What the rest of the system may take for the content of each table.
CommittedView ==
    [t \in TableNames |->
        IF \E c \in Conns : Committing(c, t)
        THEN commit_changes(kvp[t], proposed[t])
        ELSE kvp[t]]

OwnerView ==
    [t \in TableNames |->
        IF \E c \in Conns : Holds(c, t) THEN CHOOSE c \in Conns : Holds(c, t) ELSE None]

\* What is proposed and neither committed nor about to be rolled back.
PendingView ==
    [t \in TableNames |->
        IF \E c \in Conns : Committing(c, t) \/ Failing(c, t)
        THEN NoPairs
        ELSE [k \in Keys |-> IF proposed[t][k] = kvp[t][k] THEN None ELSE proposed[t][k]]]

Store == INSTANCE TransactionStore
             WITH Clients <- Conns, Names <- TableNames, Values <- Value,
                  db <- CommittedView, owner <- OwnerView, pending <- PendingView

\* Every step of the server is a step of the transactional store or invisible
\* in it: commits of several tables are atomic, rollbacks leave no trace, and
\* nobody changes a table another client owns (handle_commit,
\* fail_transaction, handle_set, handle_get, handle_create).
ImplementsStore == Store!Spec

\* What a GET of c brings to the stack in this step is the committed value, with
\* every commit taking effect at once, or c's own transaction has proposed it.
CleanRead(c) ==
    pc[c] = "get" /\ Len(stack'[c]) > Len(stack[c]) =>
        LET t == table_obj[c]
            k == req[c].key
        IN  \/ get_top(stack'[c]) = CommittedView[t][k]
            \/ in_transaction[c] /\ get_top(stack'[c]) = PendingView[t][k]

\* No dirty reads and no half of a commit (get_table_value, handle_commit,
\* fail_transaction).
NoDirtyRead == [][\A c \in Conns : CleanRead(c)]_vars
=============================================================================
