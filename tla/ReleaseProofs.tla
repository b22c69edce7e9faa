--------------------------- MODULE ReleaseProofs ---------------------------
(***************************************************************************)
(* What the threads of BasicServer owe each other whatever their clients   *)
(* ask for, the missing keys included: a locked table is unlocked by       *)
(* somebody, an uncommitted change is committed or rolled back by          *)
(* somebody, nobody waits in a circle, and no committed key disappears.    *)
(* And what the locks are for: nothing uncommitted in a table that is not  *)
(* locked, and no change by others in a table a transaction has locked, as *)
(* long as no client asks for a key that is not there.                     *)
(***************************************************************************)
EXTENDS ExclusionProofs

-----------------------------------------------------------------------------
(* The inductive invariant.                                                  *)

\* Between the lock() and the unlock() of an autocommitted SET or GET.
BodyLabels == {"set", "autocommit", "has_key", "get", "unlock", "missing", "catch"}

\* How the control state of thread c and its transaction fit together; unlike
\* LockInv this survives the second unlock of a GET for a missing key.
ControlInv(c) ==
    /\ locked_tables[c] # {} => in_transaction[c]
    /\ pc[c] \in LoopLabels => in_transaction[c] /\ todo[c] \subseteq locked_tables[c]
    /\ pc[c] \in {"lock", "autocommit", "unlock", "catch"} => ~in_transaction[c]
    /\ pc[c] = "trylock" => in_transaction[c]
    /\ pc[c] \in BodyLabels /\ in_transaction[c] => table_obj[c] \in locked_tables[c]

\* c is going to commit or roll back all that is proposed in table t.
Cleans(c, t) ==
    \/ /\ t \in locked_tables[c]
       /\ pc[c] \in LoopLabels => t \in todo[c]
       /\ pc[c] \in {"commit_unlock", "fail_unlock"} => t # table_obj[c]
    \/ pc[c] = "autocommit" /\ table_obj[c] = t

CleanTable(t) == \A k \in Keys : proposed[t][k] # None => proposed[t][k] = kvp[t][k]

\* What is proposed and not committed has somebody who decides on it.
NoOrphanChange == \A t \in TableNames : CleanTable(t) \/ \E c \in Conns : Cleans(c, t)

ReleaseInv ==
    /\ TypeInv
    /\ \A c \in Conns : ControlInv(c) /\ ExistInv(c)
    /\ OneOwner
    /\ NewTablesEmpty
    /\ NoOrphanLock
    /\ NoOrphanChange

-----------------------------------------------------------------------------
(* A step of thread c, seen from the other threads.                          *)

\* What c may do to the shared state: it lets go of a table only when it
\* unlocks it, leaves no change of its own behind, and initialises only what
\* is not a table yet.
Yields(c) ==
    /\ \A t \in TableNames : mutex'[t] => Holds(c, t)' \/ (mutex[t] /\ ~Holds(c, t))
    /\ \A t \in TableNames :
          \/ CleanTable(t)'
          \/ Cleans(c, t)'
          \/ kvp'[t] = kvp[t] /\ proposed'[t] = proposed[t] /\ ~Cleans(c, t)
    /\ \A t \in TableNames : slot[t] = "table" => slot'[t] = "table"
    /\ slot' = slot \/ pc[c] \in {"create_insert", "create_assign"}
    /\ server_mutex' \/ server_mutex' = server_mutex \/ pc[c] \in OwnerLabels
    /\ \A t \in TableNames, k \in Keys : kvp[t][k] # None => kvp'[t][k] # None
    /\ \A t \in TableNames : kvp'[t] = kvp[t] \/ slot'[t] = "table"

\* What c reaches itself.
Reaches(c) ==
    /\ ControlInv(c)' /\ ExistInv(c)'
    /\ pc'[c] \in OwnerLabels => pc[c] \in OwnerLabels \/ ~server_mutex

\* c still counts on every table it counted on, and answers for its changes.
Keeps(c) ==
    \A t \in TableNames : /\ Holds(c, t) => Holds(c, t)'
                          /\ Cleans(c, t) => Cleans(c, t)'

\* What another thread counts on survives a step of c.
LEMMA OthersGoOn ==
  ASSUME ReleaseInv, NEW c \in Conns, NEW d \in Conns, d # c, Frame(c), Yields(c)
  PROVE  /\ ControlInv(d)' /\ ExistInv(d)'
         /\ \A t \in TableNames : (Holds(d, t)' <=> Holds(d, t)) /\ (Cleans(d, t)' <=> Cleans(d, t))
<1>f. /\ pc'[d] = pc[d] /\ req'[d] = req[d] /\ table_obj'[d] = table_obj[d]
      /\ todo'[d] = todo[d] /\ in_transaction'[d] = in_transaction[d]
      /\ locked_tables'[d] = locked_tables[d]
  BY DEF Frame
<1>i. ControlInv(d) /\ ExistInv(d) /\ LocalsInv(d) /\ locked_tables[d] \subseteq TableNames
  BY DEF ReleaseInv, TypeInv, TypeOK
<1>1. \A t \in TableNames : (Holds(d, t)' <=> Holds(d, t)) /\ (Cleans(d, t)' <=> Cleans(d, t))
  BY <1>f DEF Holds, Cleans
<1>2. ControlInv(d)'
  BY <1>f, <1>i DEF ControlInv
<1>3. ExistInv(d)'
  <2>1. pc[d] \in TableLabels => table_obj[d] \in TableNames
    BY <1>i DEF LocalsInv, RequestLabels, TableRequest
  <2>2. \A t \in TableNames : slot[t] = "table" => slot'[t] = "table"
    BY DEF Yields
  <2>3. pc[d] \in OwnerLabels => pc[c] \notin OwnerLabels
    BY DEF ReleaseInv, OneOwner
  <2>4. pc[d] \in {"create_insert", "create_assign"} => slot' = slot
    BY <2>3 DEF Yields, OwnerLabels
  <2>5. pc[d] \in OwnerLabels => server_mutex'
    BY <1>i, <2>3 DEF Yields, ExistInv
  <2> QED
    BY <1>f, <1>i, <2>1, <2>2, <2>4, <2>5 DEF ExistInv
<1> QED
  BY <1>1, <1>2, <1>3

\* A step that respects the others and itself keeps the invariant.
LEMMA YieldKeeps ==
  ASSUME ReleaseInv, NEW c \in Conns, TypeInv', Frame(c), Yields(c), Reaches(c)
  PROVE  ReleaseInv'
<1>1. \A d \in Conns : ControlInv(d)' /\ ExistInv(d)'
  BY OthersGoOn DEF Reaches
<1>2. OneOwner'
  <2>1. \A d \in Conns : d # c /\ pc'[d] \in OwnerLabels => pc[d] \in OwnerLabels /\ server_mutex
    BY DEF Frame, ReleaseInv, ExistInv
  <2> QED
    BY <2>1 DEF Reaches, ReleaseInv, OneOwner
<1>3. NewTablesEmpty'
  BY DEF Yields, ReleaseInv, NewTablesEmpty
<1>4. NoOrphanLock'
  <2>1. SUFFICES ASSUME NEW t \in TableNames, mutex'[t], ~Holds(c, t)'
                 PROVE  \E d \in Conns : Holds(d, t)'
    BY DEF NoOrphanLock
  <2>2. mutex[t] /\ ~Holds(c, t)
    BY <2>1 DEF Yields
  <2>3. PICK d \in Conns : Holds(d, t)
    BY <2>2 DEF ReleaseInv, NoOrphanLock
  <2> QED
    BY <2>2, <2>3, OthersGoOn
<1>5. NoOrphanChange'
  <2>1. SUFFICES ASSUME NEW t \in TableNames, ~CleanTable(t)', ~Cleans(c, t)'
                 PROVE  \E d \in Conns : Cleans(d, t)'
    BY DEF NoOrphanChange
  <2>2. kvp'[t] = kvp[t] /\ proposed'[t] = proposed[t] /\ ~Cleans(c, t)
    BY <2>1 DEF Yields
  <2>3. ~CleanTable(t)
    BY <2>1, <2>2 DEF CleanTable
  <2>4. PICK d \in Conns : Cleans(d, t)
    BY <2>3 DEF ReleaseInv, NoOrphanChange
  <2> QED
    BY <2>2, <2>4, OthersGoOn
<1> QED
  BY <1>1, <1>2, <1>3, <1>4, <1>5 DEF ReleaseInv

-----------------------------------------------------------------------------
(* The steps.                                                                *)

\* A step that leaves the process's data alone and lets go of nothing.
LEMMA QuietYields ==
  ASSUME NEW c \in Conns, UNCHANGED process, Keeps(c)
  PROVE  Yields(c)
  BY DEF Yields, Keeps, process

\* A thread between requests keeps what its transaction has locked.
LEMMA IdleKeeps ==
  ASSUME NEW c \in Conns, ControlInv(c), ExistInv(c), pc[c] \notin LoopLabels,
         in_transaction[c] \/ pc[c] \notin BodyLabels,
         pc'[c] \in {"closed", "read", "close", "find", "create_lock"},
         locked_tables'[c] = locked_tables[c], in_transaction[c] => in_transaction'[c],
         \A t \in locked_tables[c] : slot'[t] = slot[t]
  PROVE  Keeps(c) /\ Reaches(c)
<1>1. Keeps(c)
  BY DEF Keeps, Holds, Cleans, ControlInv, LoopLabels, BodyLabels
<1>2. ControlInv(c)'
  BY DEF ControlInv, LoopLabels, BodyLabels
<1>3. ExistInv(c)'
  BY DEF ExistInv, TableLabels, OwnerLabels
<1> QED
  BY <1>1, <1>2, <1>3 DEF Reaches, OwnerLabels

\* A thread that enters an iteration has all its tables to visit.
LEMMA LoopKeeps ==
  ASSUME NEW c \in Conns, ControlInv(c), ExistInv(c), pc[c] \notin LoopLabels,
         pc'[c] \in {"commit", "fail"},
         in_transaction[c], in_transaction'[c] = in_transaction[c],
         locked_tables'[c] = locked_tables[c], todo'[c] = locked_tables[c],
         UNCHANGED slot
  PROVE  Keeps(c) /\ Reaches(c)
<1>1. Keeps(c)
  BY DEF Keeps, Holds, Cleans, ControlInv, LoopLabels
<1>2. ControlInv(c)'
  BY DEF ControlInv, LoopLabels, BodyLabels
<1>3. ExistInv(c)'
  BY DEF ExistInv, TableLabels, OwnerLabels
<1> QED
  BY <1>1, <1>2, <1>3 DEF Reaches, OwnerLabels

\* An exception fails the transaction or is answered at once.
LEMMA ExceptionKeeps ==
  ASSUME TypeOK, NEW c \in Conns, ControlInv(c), ExistInv(c), pc[c] \notin LoopLabels,
         in_transaction[c] \/ pc[c] \notin BodyLabels, NEW type,
         manage_exception(c, type), UNCHANGED slot,
         in_transaction'[c] = in_transaction[c], locked_tables'[c] = locked_tables[c]
  PROVE  Keeps(c) /\ Reaches(c)
<1>t. pc \in [Conns -> Labels] /\ todo \in [Conns -> SUBSET TableNames]
  BY DEF TypeOK
<1>1. CASE in_transaction[c]
  <2>1. pc'[c] = "fail" /\ todo'[c] = locked_tables[c]
    BY <1>1, <1>t DEF manage_exception, fail_transaction
  <2> QED
    BY <1>1, <2>1, LoopKeeps
<1>2. CASE ~in_transaction[c]
  <2>1. pc'[c] = "read"
    BY <1>2, <1>t DEF manage_exception, respond
  <2> QED
    BY <1>2, <2>1, IdleKeeps
<1> QED
  BY <1>1, <1>2

\* A thread that has let go of its tables.
LEMMA ReleasedReaches ==
  ASSUME NEW c \in Conns, locked_tables'[c] = {}, pc'[c] \in {"closed", "read"}
  PROVE  Reaches(c)
<1>1. ControlInv(c)' /\ ExistInv(c)'
  BY DEF ControlInv, ExistInv, LoopLabels, BodyLabels, TableLabels, OwnerLabels
<1> QED
  BY <1>1 DEF Reaches, OwnerLabels

\* What a client causes.
LEMMA ClientStepYields ==
  ASSUME ReleaseInv, NEW c \in Conns, ClientStep(c) \/ read_eof(c)
  PROVE  Yields(c) /\ Reaches(c)
<1>t. TypeOK
  BY DEF ReleaseInv, TypeInv
<1>p. /\ pc \in [Conns -> Labels] /\ in_transaction \in [Conns -> BOOLEAN]
      /\ todo \in [Conns -> SUBSET TableNames]
      /\ req \in [Conns -> TableRequest \cup CreateRequest \cup {None}]
  BY <1>t DEF TypeOK
<1>m. ControlInv(c) /\ ExistInv(c)
  BY DEF ReleaseInv
\* The request is read or answered, and nothing else happens.
<1>i. ASSUME UNCHANGED <<process, locked_tables>>, pc[c] \in {"closed", "read", "close"},
             pc'[c] \in {"closed", "read", "close", "find", "create_lock"},
             in_transaction[c] => in_transaction'[c]
      PROVE  Yields(c) /\ Reaches(c)
  <2>1. Keeps(c) /\ Reaches(c)
    BY <1>m, <1>i, IdleKeeps DEF process, LoopLabels, BodyLabels
  <2> QED
    BY <1>i, <2>1, QuietYields
<1>e. ASSUME NEW type, manage_exception(c, type), UNCHANGED <<process, locked_tables, in_transaction>>,
             pc[c] = "read"
      PROVE  Yields(c) /\ Reaches(c)
  <2>1. Keeps(c) /\ Reaches(c)
    BY <1>t, <1>m, <1>e, ExceptionKeeps DEF process, LoopLabels, BodyLabels
  <2> QED
    BY <1>e, <2>1, QuietYields
<1>s. ASSUME Serving(c)
      PROVE  pc[c] = "read"
  BY <1>s DEF Serving, At
<1>h. ASSUME Throw(c), Serving(c)
      PROVE  Yields(c) /\ Reaches(c)
  BY <1>h, <1>s, <1>e DEF Throw, session
<1>1. CASE Accept(c)
  BY <1>i, <1>p, <1>1 DEF Accept, goto, At, session
<1>2. CASE read_eof(c)
  BY <1>i, <1>p, <1>2 DEF read_eof, goto, At, session
<1>3. CASE ClientLeaves(c)
  <2>1. UNCHANGED <<process, pc, todo, locked_tables, in_transaction, req, table_obj>>
    BY <1>3 DEF ClientLeaves, session, locals
  <2>2. Keeps(c)
    BY <2>1 DEF Keeps, Holds, Cleans
  <2>3. ControlInv(c)'
    BY <1>m, <2>1 DEF ControlInv
  <2>4. ExistInv(c)'
    BY <1>m, <2>1 DEF ExistInv, process
  <2> QED
    BY <2>1, <2>2, <2>3, <2>4, QuietYields DEF Reaches
<1>4. CASE read_invalid(c)
  BY <1>e, <1>4 DEF read_invalid, At, session
<1>5. CASE handle_login(c)
  BY <1>i, <1>p, <1>5 DEF handle_login, write_ok, respond, At
<1>6. CASE refuse(c)
  BY <1>i, <1>p, <1>6 DEF refuse, At, session
<1>7. ASSUME NEW r \in Requests, handle_push(c, r)
      PROVE  Yields(c) /\ Reaches(c)
  BY <1>i, <1>s, <1>p, <1>7 DEF handle_push, write_ok, respond
<1>8. ASSUME NEW r \in Requests, handle_pop(c, r)
      PROVE  Yields(c) /\ Reaches(c)
  BY <1>h, <1>i, <1>s, <1>p, <1>8 DEF handle_pop, write_ok, respond
<1>9. ASSUME NEW r \in Requests, handle_top(c, r)
      PROVE  Yields(c) /\ Reaches(c)
  BY <1>h, <1>i, <1>s, <1>p, <1>9 DEF handle_top, respond, session
<1>10. ASSUME NEW r \in Requests, handle_arith(c, r)
       PROVE  Yields(c) /\ Reaches(c)
  <2>1. Serving(c) /\ UNCHANGED <<process, in_transaction, locked_tables>>
    BY <1>10 DEF handle_arith
  <2>2. CASE write_ok(c)
    BY <1>i, <1>s, <1>p, <2>1, <2>2 DEF write_ok, respond
  <2>3. CASE manage_exception(c, "FAILED")
    BY <1>e, <1>s, <2>1, <2>3
  <2>4. CASE UNCHANGED pc
    BY <1>i, <1>s, <2>1, <2>4
  <2> QED
    BY <1>10, <2>2, <2>3, <2>4 DEF handle_arith
<1>11. ASSUME NEW r \in Requests, handle_bye(c, r)
       PROVE  Yields(c) /\ Reaches(c)
  BY <1>i, <1>s, <1>p, <1>11 DEF handle_bye, session
<1>12. ASSUME NEW r \in Requests, handle_unsupported(c, r)
       PROVE  Yields(c) /\ Reaches(c)
  BY <1>h, <1>12 DEF handle_unsupported
<1>13. ASSUME NEW r \in Requests, handle_begin(c, r)
       PROVE  Yields(c) /\ Reaches(c)
  BY <1>h, <1>i, <1>s, <1>p, <1>13 DEF handle_begin, write_ok, respond
<1>14. ASSUME NEW r \in Requests, handle_commit(c, r)
       PROVE  Yields(c) /\ Reaches(c)
  <2>1. CASE ~in_transaction[c]
    BY <1>h, <1>14, <2>1 DEF handle_commit
  <2>2. CASE in_transaction[c]
    <3>1. /\ pc'[c] = "commit" /\ todo'[c] = locked_tables[c] /\ pc[c] = "read"
          /\ UNCHANGED <<process, locked_tables, in_transaction>>
      BY <1>p, <1>s, <1>14, <2>2 DEF handle_commit, session
    <3>2. Keeps(c) /\ Reaches(c)
      BY <1>m, <2>2, <3>1, LoopKeeps DEF process, LoopLabels
    <3> QED
      BY <3>1, <3>2, QuietYields
  <2> QED
    BY <2>1, <2>2
\* A SET or GET begins.
<1>15. ASSUME NEW r \in Requests, start(c, "find"), UNCHANGED <<process, session>>, Serving(c)
       PROVE  Yields(c) /\ Reaches(c)
  BY <1>i, <1>s, <1>p, <1>15 DEF start, session
<1>16. ASSUME NEW r \in Requests, handle_set(c, r)
       PROVE  Yields(c) /\ Reaches(c)
  BY <1>h, <1>15, <1>16 DEF handle_set
<1>17. ASSUME NEW r \in Requests, handle_get(c, r)
       PROVE  Yields(c) /\ Reaches(c)
  BY <1>15, <1>17 DEF handle_get
<1>18. ASSUME NEW r \in Requests, handle_create(c, r)
       PROVE  Yields(c) /\ Reaches(c)
  BY <1>i, <1>s, <1>p, <1>18 DEF handle_create, start, session
<1> QED
  BY <1>1, <1>2, <1>3, <1>4, <1>5, <1>6, <1>7, <1>8, <1>9, <1>10, <1>11, <1>12,
     <1>13, <1>14, <1>16, <1>17, <1>18 DEF ClientStep, Handle

\* The steps of COMMIT, fail_transaction and the destructor.
LEMMA EndStepYields ==
  ASSUME ReleaseInv, NEW c \in Conns,
         \/ close_connection(c)
         \/ \E t \in TableNames : commit_table(c, t) \/ rollback_table(c, t)
         \/ commit_unlock(c) \/ commit_done(c) \/ fail_unlock(c) \/ fail_done(c)
  PROVE  Yields(c) /\ Reaches(c)
<1>t. TypeOK /\ LocalsInv(c)
  BY DEF ReleaseInv, TypeInv
<1>p. /\ pc \in [Conns -> Labels] /\ in_transaction \in [Conns -> BOOLEAN]
      /\ todo \in [Conns -> SUBSET TableNames]
      /\ locked_tables \in [Conns -> SUBSET TableNames]
      /\ table_obj \in [Conns -> TableNames \cup {None}]
      /\ mutex \in [TableNames -> BOOLEAN]
      /\ kvp \in [TableNames -> Pairs] /\ proposed \in [TableNames -> Pairs]
  BY <1>t DEF TypeOK
<1>m. ControlInv(c) /\ ExistInv(c)
  BY DEF ReleaseInv
\* The connection is over: there is nothing left to let go of.
<1>d. ASSUME pc'[c] \in {"closed", "read"}, locked_tables'[c] = {}, UNCHANGED process,
             \A t \in TableNames : ~Holds(c, t) /\ ~Cleans(c, t)
      PROVE  Yields(c) /\ Reaches(c)
  BY <1>d, QuietYields, ReleasedReaches DEF Keeps
<1>1. CASE close_connection(c)
  <2>0. pc[c] = "close"
    BY <1>1 DEF close_connection, At
  <2>1. CASE in_transaction[c]
    <3>1. /\ pc'[c] = "fail" /\ todo'[c] = locked_tables[c]
          /\ UNCHANGED <<process, locked_tables, in_transaction>>
      BY <1>p, <1>1, <2>1 DEF close_connection, fail_transaction, session
    <3>2. Keeps(c) /\ Reaches(c)
      BY <1>m, <2>0, <2>1, <3>1, LoopKeeps DEF process, LoopLabels
    <3> QED
      BY <3>1, <3>2, QuietYields
  <2>2. CASE ~in_transaction[c]
    <3>1. pc'[c] = "closed" /\ locked_tables'[c] = {} /\ UNCHANGED process
      BY <1>p, <1>1, <2>2 DEF close_connection, Delete
    <3>2. \A t \in TableNames : ~Holds(c, t) /\ ~Cleans(c, t)
      BY <1>m, <2>0, <2>2 DEF Holds, Cleans, ControlInv
    <3> QED
      BY <1>d, <3>1, <3>2
  <2> QED
    BY <2>1, <2>2
\* A table of the transaction is committed or rolled back.
<1>2. ASSUME NEW t \in TableNames, pc[c] \in {"commit", "fail"}, t \in todo[c],
             pc'[c] \in {"commit_unlock", "fail_unlock"}, table_obj'[c] = t, todo' = todo,
             UNCHANGED <<slot, server_mutex, mutex, locked_tables, in_transaction>>
      PROVE  /\ slot[t] = "table" /\ Reaches(c)
             /\ \A u \in TableNames : (Holds(c, u) <=> Holds(c, u)')
                                      /\ (u # t /\ Cleans(c, u) => Cleans(c, u)')
  <2>1. slot[t] = "table"
    BY <1>m, <1>2 DEF ControlInv, ExistInv, LoopLabels
  <2>2. \A u \in TableNames : (Holds(c, u) <=> Holds(c, u)')
                              /\ (u # t /\ Cleans(c, u) => Cleans(c, u)')
    BY <1>2 DEF Holds, Cleans, LoopLabels
  <2>3. ControlInv(c)'
    BY <1>m, <1>2 DEF ControlInv, LoopLabels, BodyLabels
  <2>4. ExistInv(c)'
    BY <1>m, <1>2 DEF ExistInv, TableLabels, OwnerLabels
  <2> QED
    BY <1>2, <2>1, <2>2, <2>3, <2>4 DEF Reaches, OwnerLabels
<1>3. ASSUME NEW t \in TableNames, commit_table(c, t)
      PROVE  Yields(c) /\ Reaches(c)
  <2>1. /\ pc[c] = "commit" /\ t \in todo[c] /\ pc'[c] = "commit_unlock" /\ todo' = todo
        /\ UNCHANGED <<slot, server_mutex, mutex, proposed, locked_tables, in_transaction>>
        /\ kvp' = [kvp EXCEPT ![t] = commit_changes(kvp[t], proposed[t])]
        /\ table_obj'[c] = t
    BY <1>p, <1>3 DEF commit_table, goto, At, session
  <2>2. /\ slot[t] = "table" /\ Reaches(c)
        /\ \A u \in TableNames : (Holds(c, u) <=> Holds(c, u)')
                                 /\ (u # t /\ Cleans(c, u) => Cleans(c, u)')
    BY <1>2, <2>1
  <2>3. \A u \in TableNames, k \in Keys : kvp[u][k] # None => kvp'[u][k] # None
    BY <1>p, <2>1 DEF commit_changes, Pairs
  <2>4. \A u \in TableNames : u # t => kvp'[u] = kvp[u]
    BY <1>p, <2>1
  <2>5. CleanTable(t)'
    BY <1>p, <2>1 DEF CleanTable, commit_changes
  <2> QED
    BY <2>1, <2>2, <2>3, <2>4, <2>5 DEF Yields
<1>4. ASSUME NEW t \in TableNames, rollback_table(c, t)
      PROVE  Yields(c) /\ Reaches(c)
  <2>1. /\ pc[c] = "fail" /\ t \in todo[c] /\ pc'[c] = "fail_unlock" /\ todo' = todo
        /\ UNCHANGED <<slot, server_mutex, mutex, kvp, locked_tables, in_transaction>>
        /\ proposed' = [proposed EXCEPT ![t] = rollback_changes(proposed[t])]
        /\ table_obj'[c] = t
    BY <1>p, <1>4 DEF rollback_table, goto, At, session
  <2>2. /\ slot[t] = "table" /\ Reaches(c)
        /\ \A u \in TableNames : (Holds(c, u) <=> Holds(c, u)')
                                 /\ (u # t /\ Cleans(c, u) => Cleans(c, u)')
    BY <1>2, <2>1
  <2>3. \A u \in TableNames : u # t => proposed'[u] = proposed[u]
    BY <1>p, <2>1
  <2>4. CleanTable(t)'
    BY <1>p, <2>1 DEF CleanTable, rollback_changes, NoPairs
  <2> QED
    BY <2>1, <2>2, <2>3, <2>4 DEF Yields
\* The table is unlocked and out of the iteration.
<1>5. ASSUME NEW label \in {"commit_unlock", "fail_unlock"}, NEW loop \in {"commit", "fail"},
             next_table(c, label, loop)
      PROVE  Yields(c) /\ Reaches(c)
  <2> DEFINE t == table_obj[c]
  <2>1. /\ pc[c] = label /\ pc'[c] = loop /\ todo'[c] = todo[c] \ {t}
        /\ mutex' = [mutex EXCEPT ![t] = FALSE]
        /\ UNCHANGED <<slot, server_mutex, kvp, proposed, locked_tables, in_transaction>>
    BY <1>p, <1>5 DEF next_table, Unlock, At, session
  <2>2. t \in TableNames
    BY <1>t, <1>p, <2>1 DEF LocalsInv
  <2>3. mutex'[t] = FALSE /\ \A u \in TableNames : u # t => mutex'[u] = mutex[u]
    BY <1>p, <2>1, <2>2
  <2>4. \A u \in TableNames : u # t /\ Holds(c, u) => Holds(c, u)'
    BY <2>1 DEF Holds
  <2>5. ~Cleans(c, t) /\ \A u \in TableNames : Cleans(c, u) => Cleans(c, u)'
    BY <2>1 DEF Cleans, LoopLabels
  <2>6. Yields(c)
    BY <2>1, <2>3, <2>4, <2>5 DEF Yields
  <2>7. ControlInv(c)'
    BY <1>m, <2>1 DEF ControlInv, LoopLabels, BodyLabels
  <2>8. ExistInv(c)'
    BY <1>m, <2>1 DEF ExistInv, TableLabels, OwnerLabels
  <2> QED
    BY <2>1, <2>6, <2>7, <2>8 DEF Reaches, OwnerLabels
<1>6. CASE commit_unlock(c) \/ fail_unlock(c)
  BY <1>5, <1>6 DEF commit_unlock, fail_unlock
<1>e. ASSUME pc[c] \in {"commit", "fail"}, todo[c] = {}
      PROVE  \A t \in TableNames : ~Holds(c, t) /\ ~Cleans(c, t)
  BY <1>m, <1>e DEF Holds, Cleans, LoopLabels
<1>7. CASE commit_done(c)
  <2>1. /\ pc[c] = "commit" /\ todo[c] = {}
        /\ pc'[c] = "read" /\ locked_tables'[c] = {} /\ UNCHANGED process
    BY <1>p, <1>7 DEF commit_done, At, EndTransaction, write_ok, respond
  <2> QED
    BY <1>d, <1>e, <2>1
<1>8. CASE fail_done(c)
  <2>1. /\ pc[c] = "fail" /\ todo[c] = {}
        /\ pc'[c] \in {"read", "closed"} /\ locked_tables'[c] = {} /\ UNCHANGED process
    BY <1>p, <1>8 DEF fail_done, At, EndTransaction, Delete, respond
  <2> QED
    BY <1>d, <1>e, <2>1
<1> QED
  BY <1>1, <1>3, <1>4, <1>6, <1>7, <1>8

\* The steps of SET and GET, the error path of GET included.
LEMMA TableStepYields ==
  ASSUME ReleaseInv, NEW c \in Conns,
         \/ find_table(c) \/ lock(c) \/ trylock(c)
         \/ set_table_value(c) \/ autocommit(c) \/ unlock(c)
         \/ get_has_key(c) \/ get_table_value(c) \/ get_missing(c) \/ get_catch(c)
  PROVE  Yields(c) /\ Reaches(c)
<1> PICK t : t = table_obj[c]
  OBVIOUS
<1>t. TypeOK /\ LocalsInv(c)
  BY DEF ReleaseInv, TypeInv
<1>p. /\ pc \in [Conns -> Labels] /\ in_transaction \in [Conns -> BOOLEAN]
      /\ locked_tables \in [Conns -> SUBSET TableNames]
      /\ table_obj \in [Conns -> TableNames \cup {None}]
      /\ mutex \in [TableNames -> BOOLEAN]
      /\ kvp \in [TableNames -> Pairs] /\ proposed \in [TableNames -> Pairs]
  BY <1>t DEF TypeOK
<1>m. ControlInv(c) /\ ExistInv(c)
  BY DEF ReleaseInv
<1>r. ASSUME pc[c] \in RequestLabels
      PROVE  req[c].table \in TableNames /\ req[c].op \in {"SET", "GET"}
  BY <1>t, <1>r DEF LocalsInv, TableRequest
<1>o. ASSUME pc[c] \in TableLabels
      PROVE  t \in TableNames /\ slot[t] = "table"
  BY <1>t, <1>m, <1>o, <1>r DEF LocalsInv, ExistInv, RequestLabels
<1>h. ASSUME Throw(c), pc[c] \notin LoopLabels, in_transaction[c] \/ pc[c] \notin BodyLabels
      PROVE  Yields(c) /\ Reaches(c)
  <2>1. Keeps(c) /\ Reaches(c) /\ UNCHANGED process
    BY <1>t, <1>m, <1>h, ExceptionKeeps DEF Throw, process, session
  <2> QED
    BY <2>1, QuietYields
<1>1. CASE find_table(c)
  <2> DEFINE label == IF ~in_transaction[c] THEN "lock"
                      ELSE IF req[c].table \in locked_tables[c] THEN Body(c)
                      ELSE "trylock"
  <2>0. pc[c] = "find"
    BY <1>1 DEF find_table, At
  <2>1. ASSUME slot[req[c].table] = "table",
               table_obj' = [table_obj EXCEPT ![c] = req[c].table],
               goto(c, label), UNCHANGED <<process, session, req, gone>>
        PROVE  Yields(c) /\ Reaches(c)
    <3>1. /\ pc'[c] = label /\ table_obj'[c] = req[c].table
          /\ UNCHANGED <<process, locked_tables, in_transaction, req>>
      BY <1>p, <2>1 DEF goto, session
    <3>2. /\ label \in {"lock", "trylock", "set", "has_key"}
          /\ label \in {"set", "has_key"} =>
                in_transaction[c] /\ req[c].table \in locked_tables[c]
          /\ label = "lock" => ~in_transaction[c]
          /\ label = "trylock" => in_transaction[c]
      BY DEF Body
    <3> HIDE DEF label
    <3>3. Keeps(c)
      BY <2>0, <3>1, <3>2 DEF Keeps, Holds, Cleans, LoopLabels
    <3>4. ControlInv(c)'
      BY <1>m, <3>1, <3>2 DEF ControlInv, LoopLabels, BodyLabels
    <3>5. ExistInv(c)'
      BY <1>m, <2>1, <3>1, <3>2 DEF ExistInv, OwnerLabels, process
    <3> QED
      BY <3>1, <3>2, <3>3, <3>4, <3>5, QuietYields DEF Reaches, OwnerLabels
  <2> QED
    BY <1>1, <1>h, <2>0, <2>1 DEF find_table, LoopLabels, BodyLabels
\* The table is locked now and c counts on it.
<1>2. ASSUME pc[c] \in {"lock", "trylock"}, goto(c, Body(c)),
             mutex' = [mutex EXCEPT ![t] = TRUE],
             locked_tables'[c] = IF in_transaction[c] THEN locked_tables[c] \cup {t}
                                 ELSE locked_tables[c],
             UNCHANGED <<slot, server_mutex, kvp, proposed, locals, in_transaction>>
      PROVE  Yields(c) /\ Reaches(c)
  <2>1. t \in TableNames /\ slot[t] = "table"
    BY <1>o, <1>2 DEF TableLabels
  <2>2. pc'[c] \in {"set", "has_key"} /\ table_obj'[c] = t
    BY <1>p, <1>2 DEF goto, Body, locals
  <2>3. \A u \in TableNames : u # t => mutex'[u] = mutex[u]
    BY <1>p, <1>2
  <2>4. Holds(c, t)' /\ Keeps(c)
    BY <1>2, <2>2 DEF Keeps, Holds, Cleans, LoopLabels
  <2>5. Yields(c)
    BY <1>2, <2>3, <2>4 DEF Yields, Keeps
  <2>6. ControlInv(c)'
    BY <1>m, <1>2, <2>2 DEF ControlInv, LoopLabels, BodyLabels
  <2>7. ExistInv(c)'
    BY <1>m, <1>2, <2>1, <2>2 DEF ExistInv, OwnerLabels
  <2> QED
    BY <2>2, <2>5, <2>6, <2>7 DEF Reaches, OwnerLabels
<1>3. CASE lock(c)
  <2>1. /\ pc[c] = "lock" /\ ~in_transaction[c]
        /\ UNCHANGED <<locked_tables, in_transaction>>
    BY <1>m, <1>3 DEF lock, At, ControlInv, session
  <2> QED
    BY <1>2, <1>3, <2>1 DEF lock
<1>4. CASE trylock(c)
  <2>1. pc[c] = "trylock" /\ in_transaction[c] /\ pc[c] \notin LoopLabels
    BY <1>m, <1>4 DEF trylock, At, ControlInv, LoopLabels
  <2>2. CASE mutex[t]
    BY <1>h, <1>4, <2>1, <2>2 DEF trylock
  <2>3. CASE ~mutex[t]
    <3>1. locked_tables'[c] = locked_tables[c] \cup {t}
      BY <1>p, <1>4, <2>3 DEF trylock
    <3> QED
      BY <1>2, <1>4, <2>1, <2>3, <3>1 DEF trylock
  <2> QED
    BY <2>2, <2>3
\* The handler goes on with the same table.
<1>5. ASSUME pc[c] \in BodyLabels, pc'[c] \in BodyLabels,
             pc'[c] \in {"autocommit", "unlock", "catch"} => ~in_transaction[c],
             UNCHANGED <<slot, locked_tables, in_transaction, req, table_obj>>
      PROVE  /\ Reaches(c)
             /\ \A u \in TableNames : /\ Holds(c, u) <=> Holds(c, u)'
                                      /\ pc[c] # "autocommit" /\ Cleans(c, u) => Cleans(c, u)'
  <2>1. \A u \in TableNames : /\ Holds(c, u) <=> Holds(c, u)'
                              /\ pc[c] # "autocommit" /\ Cleans(c, u) => Cleans(c, u)'
    BY <1>5 DEF Holds, Cleans, LoopLabels, BodyLabels
  <2>2. ControlInv(c)'
    BY <1>m, <1>5 DEF ControlInv, LoopLabels, BodyLabels
  <2>3. ExistInv(c)'
    BY <1>m, <1>5 DEF ExistInv, TableLabels, OwnerLabels, BodyLabels
  <2> QED
    BY <1>5, <2>1, <2>2, <2>3 DEF Reaches, OwnerLabels, BodyLabels
\* Inside a transaction the handler is done and the table stays locked.
<1>6. ASSUME NEW label \in {"autocommit", "unlock"}, FinishIn(c, label),
             pc[c] \in {"set", "get"}, UNCHANGED <<slot, locked_tables, in_transaction>>
      PROVE  /\ Reaches(c) /\ Keeps(c) /\ \A u \in TableNames : Holds(c, u) <=> Holds(c, u)'
             /\ in_transaction[c] \/ label = "autocommit" => Cleans(c, t)'
  <2>1. CASE in_transaction[c]
    <3>1. pc'[c] = "read"
      BY <1>p, <1>6, <2>1 DEF FinishIn, write_ok, respond
    <3>2. Keeps(c) /\ Reaches(c)
      BY <1>m, <1>6, <2>1, <3>1, IdleKeeps DEF LoopLabels
    <3>3. \A u \in TableNames : Holds(c, u) <=> Holds(c, u)'
      BY <1>6, <2>1, <3>1 DEF Holds
    <3>4. t \in locked_tables[c]
      BY <1>m, <1>6, <2>1 DEF ControlInv, BodyLabels
    <3> QED
      BY <1>6, <3>1, <3>2, <3>3, <3>4 DEF Cleans, LoopLabels
  <2>2. CASE ~in_transaction[c]
    <3>1. pc'[c] = label /\ UNCHANGED <<req, table_obj>>
      BY <1>p, <1>6, <2>2 DEF FinishIn, goto, locals
    <3>2. /\ Reaches(c)
          /\ \A u \in TableNames : (Holds(c, u) <=> Holds(c, u)') /\ (Cleans(c, u) => Cleans(c, u)')
      BY <1>5, <1>6, <2>2, <3>1 DEF BodyLabels
    <3> QED
      BY <2>2, <3>1, <3>2 DEF Keeps, Cleans
  <2> QED
    BY <2>1, <2>2
<1>7. CASE set_table_value(c)
  <2>1. /\ pc[c] = "set" /\ FinishIn(c, "autocommit")
        /\ UNCHANGED <<slot, server_mutex, mutex, kvp, locked_tables, in_transaction>>
        /\ \A u \in TableNames : u # t => proposed'[u] = proposed[u]
    BY <1>p, <1>7 DEF set_table_value, At
  <2>2. Reaches(c) /\ Keeps(c) /\ Cleans(c, t)'
    BY <1>6, <2>1
  <2>3. Yields(c)
    BY <2>1, <2>2 DEF Yields, Keeps
  <2> QED
    BY <2>2, <2>3
<1>8. CASE autocommit(c)
  <2>1. /\ pc[c] = "autocommit" /\ pc'[c] = "unlock" /\ ~in_transaction[c]
        /\ UNCHANGED <<slot, server_mutex, mutex, proposed, locked_tables,
                       in_transaction, req, table_obj>>
        /\ kvp' = [kvp EXCEPT ![t] = commit_changes(kvp[t], proposed[t])]
    BY <1>p, <1>m, <1>8 DEF autocommit, At, goto, ControlInv, session, locals
  <2>2. t \in TableNames /\ slot[t] = "table"
    BY <1>o, <2>1 DEF TableLabels
  <2>3. \A u \in TableNames, k \in Keys : kvp[u][k] # None => kvp'[u][k] # None
    BY <1>p, <2>1, <2>2 DEF commit_changes, Pairs
  <2>4. \A u \in TableNames : u # t => kvp'[u] = kvp[u]
    BY <1>p, <2>1
  <2>5. CleanTable(t)'
    BY <1>p, <2>1, <2>2 DEF CleanTable, commit_changes
  <2>6. Reaches(c) /\ \A u \in TableNames : Holds(c, u) <=> Holds(c, u)'
    BY <1>5, <2>1 DEF BodyLabels
  <2>7. \A u \in TableNames : u # t => ~Cleans(c, u)
    BY <1>m, <2>1 DEF Cleans, ControlInv
  <2>8. Yields(c)
    BY <2>1, <2>2, <2>3, <2>4, <2>5, <2>6, <2>7 DEF Yields
  <2> QED
    BY <2>6, <2>8
\* The handler unlocks the table and is done, outside a transaction.
<1>9. ASSUME pc[c] \in {"unlock", "catch"}, pc'[c] = "read",
             mutex' = [mutex EXCEPT ![t] = FALSE],
             UNCHANGED <<slot, server_mutex, kvp, proposed, locked_tables, in_transaction>>
      PROVE  Yields(c) /\ Reaches(c)
  <2>1. locked_tables[c] = {} /\ t \in TableNames
    BY <1>m, <1>o, <1>9 DEF ControlInv, TableLabels
  <2>2. \A u \in TableNames : ~Cleans(c, u) /\ (u # t => ~Holds(c, u) /\ mutex'[u] = mutex[u])
    BY <1>p, <1>9, <2>1 DEF Holds, Cleans
  <2>3. ~mutex'[t]
    BY <1>p, <1>9, <2>1
  <2>4. Yields(c)
    BY <1>9, <2>2, <2>3 DEF Yields
  <2> QED
    BY <1>9, <2>1, <2>4, ReleasedReaches
<1>10. CASE unlock(c)
  BY <1>p, <1>9, <1>10 DEF unlock, Unlock, At, write_ok, respond, session
<1>11. CASE get_has_key(c)
  <2>1. /\ pc[c] = "has_key" /\ pc'[c] \in {"get", "missing"}
        /\ UNCHANGED <<process, locked_tables, in_transaction, req, table_obj>>
    BY <1>p, <1>11 DEF get_has_key, At, goto, session, locals
  <2>2. Reaches(c) /\ Keeps(c)
    BY <1>5, <2>1 DEF BodyLabels, Keeps, process
  <2> QED
    BY <2>1, <2>2, QuietYields
\* The key is missing: the transaction fails, or the handler's catch is next.
<1>12. ASSUME pc[c] \in {"get", "missing"},
              IF in_transaction[c] THEN manage_exception(c, "FAILED")
              ELSE goto(c, "catch") /\ UNCHANGED locals,
              UNCHANGED <<slot, locked_tables, in_transaction>>
       PROVE  Reaches(c) /\ Keeps(c)
  <2>1. CASE in_transaction[c]
    BY <1>t, <1>m, <1>12, <2>1, ExceptionKeeps DEF LoopLabels
  <2>2. CASE ~in_transaction[c]
    <3>1. pc'[c] = "catch" /\ UNCHANGED <<req, table_obj>>
      BY <1>p, <1>12, <2>2 DEF goto, locals
    <3> QED
      BY <1>5, <1>12, <2>2, <3>1 DEF BodyLabels, Keeps
  <2> QED
    BY <2>1, <2>2
<1>13. CASE get_table_value(c)
  <2>0. pc[c] = "get" /\ UNCHANGED <<process, locked_tables, in_transaction>> /\ slot' = slot
    BY <1>13 DEF get_table_value, At, session, process
  <2>1. CASE FinishIn(c, "unlock")
    BY <1>6, <2>0, <2>1, QuietYields
  <2>2. CASE IF in_transaction[c] THEN manage_exception(c, "FAILED")
             ELSE goto(c, "catch") /\ UNCHANGED locals
    BY <1>12, <2>0, <2>2, QuietYields
  <2> QED
    BY <1>13, <2>1, <2>2 DEF get_table_value
<1>14. CASE get_missing(c)
  <2>1. /\ pc[c] = "missing" /\ mutex' = [mutex EXCEPT ![t] = FALSE]
        /\ UNCHANGED <<slot, server_mutex, kvp, proposed, locked_tables, in_transaction>>
    BY <1>14 DEF get_missing, At, Unlock, session
  <2>2. Reaches(c) /\ Keeps(c)
    BY <1>12, <1>14, <2>1 DEF get_missing
  <2>3. \A u \in TableNames : mutex'[u] => mutex[u]
    BY <1>p, <2>1
  <2>4. Yields(c)
    BY <2>1, <2>2, <2>3 DEF Yields, Keeps
  <2> QED
    BY <2>2, <2>4
<1>15. CASE get_catch(c)
  <2>1. /\ pc[c] = "catch" /\ mutex' = [mutex EXCEPT ![t] = FALSE]
        /\ UNCHANGED <<slot, server_mutex, kvp, proposed, locked_tables, in_transaction>>
    BY <1>15 DEF get_catch, At, Unlock, session
  <2>2. ~in_transaction[c]
    BY <1>m, <2>1 DEF ControlInv
  <2>3. pc'[c] = "read"
    BY <1>p, <1>15, <2>2 DEF get_catch, manage_exception, respond
  <2> QED
    BY <1>9, <2>1, <2>3
<1> QED
  BY <1>1, <1>3, <1>4, <1>7, <1>8, <1>10, <1>11, <1>13, <1>14, <1>15

\* The steps of CREATE, which may happen inside a transaction.
LEMMA CreateStepYields ==
  ASSUME ReleaseInv, NEW c \in Conns,
         \/ create_lock(c) \/ create_find(c) \/ create_exists(c)
         \/ create_insert(c) \/ create_assign(c) \/ create_unlock(c)
  PROVE  Yields(c) /\ Reaches(c)
<1> PICK t : t = req[c].table
  OBVIOUS
<1>t. TypeOK /\ LocalsInv(c)
  BY DEF ReleaseInv, TypeInv
<1>p. /\ pc \in [Conns -> Labels] /\ slot \in [TableNames -> {"absent", "null", "table"}]
      /\ locked_tables \in [Conns -> SUBSET TableNames]
      /\ mutex \in [TableNames -> BOOLEAN]
      /\ kvp \in [TableNames -> Pairs] /\ proposed \in [TableNames -> Pairs]
  BY <1>t DEF TypeOK
<1>m. ControlInv(c) /\ ExistInv(c)
  BY DEF ReleaseInv
<1>r. ASSUME pc[c] \in CreateLabels
      PROVE  t \in TableNames
  BY <1>t, <1>r DEF LocalsInv, CreateRequest
\* CREATE goes on with the server's mutex locked; its own tables stay as they are.
<1>1. ASSUME pc[c] \in {"create_lock"} \cup OwnerLabels, pc'[c] \in OwnerLabels,
             pc[c] \in OwnerLabels \/ ~server_mutex, server_mutex',
             pc'[c] \in {"create_insert", "create_assign"} => slot'[t] # "table",
             \A u \in locked_tables[c] : slot'[u] = slot[u],
             UNCHANGED <<locked_tables, in_transaction, req>>
      PROVE  Keeps(c) /\ Reaches(c)
  <2>1. Keeps(c)
    BY <1>1 DEF Keeps, Holds, Cleans, OwnerLabels, LoopLabels
  <2>2. ControlInv(c)'
    BY <1>m, <1>1 DEF ControlInv, LoopLabels, BodyLabels, OwnerLabels
  <2>3. ExistInv(c)'
    BY <1>m, <1>1 DEF ExistInv, TableLabels, OwnerLabels
  <2> QED
    BY <1>1, <2>1, <2>2, <2>3 DEF Reaches
\* The answer leaves the tables of the transaction as they are.
<1>2. ASSUME Keeps(c), UNCHANGED <<slot, mutex, kvp, proposed>>, pc[c] \in OwnerLabels
      PROVE  Yields(c)
  BY <1>2 DEF Yields, Keeps
<1>3. CASE create_lock(c)
  <2>1. /\ pc[c] = "create_lock" /\ pc'[c] = "create_find" /\ ~server_mutex /\ server_mutex'
        /\ UNCHANGED <<slot, mutex, kvp, proposed, locked_tables, in_transaction, req>>
    BY <1>p, <1>3 DEF create_lock, At, goto, session, locals
  <2>2. Keeps(c) /\ Reaches(c)
    BY <1>1, <2>1 DEF OwnerLabels
  <2> QED
    BY <2>1, <2>2 DEF Yields, Keeps
<1>4. CASE create_find(c)
  <2>1. /\ pc[c] = "create_find" /\ pc'[c] \in {"create_exists", "create_insert"}
        /\ pc'[c] = "create_insert" => slot[t] # "table"
        /\ UNCHANGED <<process, locked_tables, in_transaction, req>>
    BY <1>p, <1>4 DEF create_find, At, goto, session, locals
  <2>2. server_mutex
    BY <1>m, <2>1 DEF ExistInv, OwnerLabels
  <2>3. Keeps(c) /\ Reaches(c)
    BY <1>1, <2>1, <2>2 DEF OwnerLabels, process
  <2> QED
    BY <2>1, <2>3, QuietYields
<1>5. CASE create_exists(c)
  <2>1. /\ pc[c] = "create_exists" /\ manage_exception(c, "FAILED")
        /\ UNCHANGED <<slot, mutex, kvp, proposed, locked_tables, in_transaction>>
    BY <1>5 DEF create_exists, At, session
  <2>2. Keeps(c) /\ Reaches(c)
    BY <1>t, <1>m, <2>1, ExceptionKeeps DEF LoopLabels, BodyLabels
  <2> QED
    BY <1>2, <2>1, <2>2 DEF OwnerLabels
<1>6. CASE create_insert(c)
  <2>1. /\ pc[c] = "create_insert" /\ pc'[c] = "create_assign"
        /\ slot' = [slot EXCEPT ![t] = "null"]
        /\ UNCHANGED <<server_mutex, mutex, kvp, proposed, locked_tables, in_transaction, req>>
    BY <1>p, <1>6 DEF create_insert, At, goto, session, locals
  <2>2. t \in TableNames /\ slot[t] # "table" /\ server_mutex
    BY <1>m, <1>r, <2>1 DEF ExistInv, CreateLabels, OwnerLabels
  <2>3. slot'[t] = "null" /\ \A u \in TableNames : slot[u] = "table" => slot'[u] = "table"
    BY <1>p, <2>1, <2>2
  <2>4. \A u \in locked_tables[c] : slot'[u] = slot[u]
    BY <1>m, <1>p, <2>3 DEF ExistInv
  <2>5. Keeps(c) /\ Reaches(c)
    BY <1>1, <2>1, <2>2, <2>3, <2>4 DEF OwnerLabels
  <2> QED
    BY <2>1, <2>3, <2>5 DEF Yields, Keeps
<1>7. CASE create_assign(c)
  <2>1. /\ pc[c] = "create_assign" /\ pc'[c] = "create_unlock"
        /\ slot' = [slot EXCEPT ![t] = "table"]
        /\ mutex' = [mutex EXCEPT ![t] = FALSE]
        /\ kvp' = [kvp EXCEPT ![t] = NoPairs]
        /\ proposed' = [proposed EXCEPT ![t] = NoPairs]
        /\ UNCHANGED <<server_mutex, locked_tables, in_transaction, req>>
    BY <1>p, <1>7 DEF create_assign, At, session, locals
  <2>2. t \in TableNames /\ slot[t] # "table" /\ server_mutex
    BY <1>m, <1>r, <2>1 DEF ExistInv, CreateLabels, OwnerLabels
  <2>3. kvp[t] = NoPairs
    BY <2>2 DEF ReleaseInv, NewTablesEmpty
  <2>4. /\ slot'[t] = "table" /\ ~mutex'[t] /\ proposed'[t] = NoPairs /\ kvp' = kvp
        /\ \A u \in TableNames : u # t => slot'[u] = slot[u] /\ mutex'[u] = mutex[u]
                                          /\ proposed'[u] = proposed[u]
    BY <1>p, <2>1, <2>2, <2>3
  <2>5. \A u \in locked_tables[c] : slot'[u] = slot[u]
    BY <1>m, <1>p, <2>2, <2>4 DEF ExistInv
  <2>6. Keeps(c) /\ Reaches(c)
    BY <1>1, <2>1, <2>2, <2>5 DEF OwnerLabels
  <2>7. CleanTable(t)'
    BY <2>4 DEF CleanTable, NoPairs
  <2> QED
    BY <2>1, <2>4, <2>6, <2>7 DEF Yields, Keeps
<1>8. CASE create_unlock(c)
  <2>1. /\ pc[c] = "create_unlock" /\ pc'[c] = "read"
        /\ UNCHANGED <<slot, mutex, kvp, proposed, locked_tables, in_transaction>>
    BY <1>p, <1>8 DEF create_unlock, At, session
  <2>2. Keeps(c) /\ Reaches(c)
    BY <1>m, <2>1, IdleKeeps DEF LoopLabels, BodyLabels
  <2> QED
    BY <1>2, <2>1, <2>2 DEF OwnerLabels
<1> QED
  BY <1>3, <1>4, <1>5, <1>6, <1>7, <1>8

\* Every step of every thread.
LEMMA StepYields ==
  ASSUME ReleaseInv, NEW c \in Conns, ClientStep(c) \/ read_eof(c) \/ ThreadStep(c)
  PROVE  Frame(c) /\ Yields(c) /\ Reaches(c)
<1>1. Frame(c)
  BY OwnStateOnly DEF ReleaseInv, TypeInv
<1>2. CASE ClientStep(c) \/ read_eof(c)
  BY <1>1, <1>2, ClientStepYields
<1>3. CASE ThreadStep(c)
  BY <1>1, <1>3, EndStepYields, TableStepYields, CreateStepYields DEF ThreadStep
<1> QED
  BY <1>2, <1>3

-----------------------------------------------------------------------------
(* The theorems.                                                             *)

\* No thread runs when the server starts, and the initial tables are clean.
LEMMA ReleaseInit == Init => ReleaseInv
<1> SUFFICES ASSUME Init
             PROVE  ReleaseInv
  OBVIOUS
<1>1. TypeInv
  BY TypeInit
<1>2. /\ \A c \in Conns : pc[c] = "closed" /\ locked_tables[c] = {}
      /\ \A t \in TableNames : ~mutex[t] /\ proposed[t] = kvp[t]
      /\ NewTablesEmpty
  BY DEF Init, NewTablesEmpty
<1>3. \A c \in Conns : ControlInv(c) /\ ExistInv(c)
  BY <1>2 DEF ControlInv, ExistInv, LoopLabels, BodyLabels, TableLabels, OwnerLabels
<1>4. OneOwner /\ NoOrphanLock /\ NoOrphanChange
  BY <1>2 DEF OneOwner, NoOrphanLock, NoOrphanChange, CleanTable, OwnerLabels
<1> QED
  BY <1>1, <1>2, <1>3, <1>4 DEF ReleaseInv

\* Every step keeps the invariant, whatever the clients ask for.
LEMMA ReleaseStep == ReleaseInv /\ [Next]_vars => ReleaseInv'
<1> SUFFICES ASSUME ReleaseInv, [Next]_vars
             PROVE  ReleaseInv'
  OBVIOUS
<1>t. TypeInv'
  BY TypeStep DEF ReleaseInv
<1>1. ASSUME NEW c \in Conns, ClientStep(c) \/ read_eof(c) \/ ThreadStep(c)
      PROVE  ReleaseInv'
  BY <1>1, <1>t, StepYields, YieldKeeps
<1>2. ASSUME UNCHANGED <<process, session, locals, pc, todo>>
      PROVE  ReleaseInv'
  <2>1. \A c \in Conns, t \in TableNames : (Holds(c, t)' <=> Holds(c, t))
                                           /\ (Cleans(c, t)' <=> Cleans(c, t))
    BY <1>2 DEF Holds, Cleans, session, locals
  <2>2. \A c \in Conns : ControlInv(c)' /\ ExistInv(c)'
    BY <1>2 DEF ReleaseInv, ControlInv, ExistInv, process, session, locals
  <2>3. NoOrphanLock' /\ NoOrphanChange'
    BY <1>2, <2>1 DEF ReleaseInv, NoOrphanLock, NoOrphanChange, CleanTable, process
  <2>4. OneOwner' /\ NewTablesEmpty'
    BY <1>2 DEF ReleaseInv, OneOwner, NewTablesEmpty, process
  <2> QED
    BY <1>t, <2>2, <2>3, <2>4 DEF ReleaseInv
<1>3. CASE \E c, d \in Conns : data_race(c, d)
  BY <1>2, <1>3 DEF data_race
<1>4. CASE UNCHANGED vars
  BY <1>2, <1>4 DEF vars
<1> QED
  BY <1>1, <1>3, <1>4 DEF Next, Dead

\* The invariant is kept for ever.
LEMMA ReleaseAlways == Spec => []ReleaseInv
  BY ReleaseInit, ReleaseStep, PTL DEF Spec

\* A locked table has a thread that is going to unlock it, whatever request,
\* exception or disconnect ended the work it was locked for (handle_commit,
\* fail_transaction, manage_exception and ~ClientConnection).
THEOREM LocksHaveOwners == Spec => []NoOrphanLock
<1>1. ReleaseInv => NoOrphanLock
  BY DEF ReleaseInv
<1> QED
  BY <1>1, ReleaseAlways, PTL

\* Once nobody counts on the lock of a table, nothing uncommitted is left in
\* it, also when the second unlock of a GET for a missing key has let several
\* threads into the table at once (commit_changes, rollback_changes).
THEOREM ReleasedAreClean == Spec => []CleanWhenReleased
<1>1. ASSUME ReleaseInv
      PROVE  CleanWhenReleased
  <2>1. SUFFICES ASSUME NEW t \in TableNames, \A c \in Conns : ~Holds(c, t)
                 PROVE  CleanTable(t)
    BY DEF CleanWhenReleased, CleanTable
  <2>2. ASSUME NEW c \in Conns, Cleans(c, t)
        PROVE  Holds(c, t)
    <3>1. ControlInv(c)
      BY <1>1 DEF ReleaseInv
    <3> QED
      BY <2>2, <3>1 DEF Cleans, Holds, ControlInv, LoopLabels
  <2> QED
    BY <1>1, <2>1, <2>2 DEF ReleaseInv, NoOrphanChange
<1>2. ReleaseInv => CleanWhenReleased
  BY <1>1
<1> QED
  BY <1>2, ReleaseAlways, PTL

\* A thread that waits for a table holds nothing, and the one thread that holds
\* the server's mutex waits for none: no cycle of waiting threads (the blocking
\* lock() of autocommits, trylock() in transactions, the mutex of CREATE).
THEOREM WaitsEnd == Spec => []NoWaitCycle
<1>1. ASSUME ReleaseInv
      PROVE  NoWaitCycle
  <2>1. ASSUME NEW c \in Conns, NEW t \in TableNames, pc[c] = "lock"
        PROVE  ~Holds(c, t)
    <3>1. ControlInv(c)
      BY <1>1 DEF ReleaseInv
    <3> QED
      BY <2>1, <3>1 DEF ControlInv, Holds
  <2>2. ASSUME NEW c \in Conns, InCreate(c)
        PROVE  server_mutex /\ \A d \in Conns : InCreate(d) => d = c
    BY <1>1, <2>2 DEF ReleaseInv, ExistInv, OneOwner, InCreate, OwnerLabels
  <2> QED
    BY <2>1, <2>2 DEF NoWaitCycle
<1>2. ReleaseInv => NoWaitCycle
  BY <1>1
<1> QED
  BY <1>2, ReleaseAlways, PTL

\* A committed key stays committed: no CREATE replaces a table that exists and
\* no rollback removes a committed pair (create_table under the server's mutex,
\* commit_changes and rollback_changes, double unlocks included).
THEOREM CommitsStay == Spec => CommittedKeysStay
<1> DEFINE Stay == \A t \in TableNames, k \in Keys : kvp[t][k] # None => kvp'[t][k] # None
<1>1. ASSUME ReleaseInv, [Next]_vars
      PROVE  Stay
  <2>1. ASSUME NEW c \in Conns, ClientStep(c) \/ read_eof(c) \/ ThreadStep(c)
        PROVE  Stay
    BY <1>1, <2>1, StepYields DEF Yields
  <2>2. ASSUME UNCHANGED process
        PROVE  Stay
    BY <2>2 DEF process
  <2> HIDE DEF Stay
  <2> QED
    BY <1>1, <2>1, <2>2 DEF Next, Dead, data_race, vars
<1>2. ReleaseInv /\ [Next]_vars => [Stay]_vars
  BY <1>1
<1> QED
  BY <1>2, ReleaseAlways, PTL DEF Spec, CommittedKeysStay

-----------------------------------------------------------------------------
(* Both invariants together.                                                 *)

\* Both inductive invariants together.
SafeInv == ExclusionInv /\ ReleaseInv

\* A condition on the constants turns the two invariants into one.
LEMMA SafeAlways ==
  ASSUME ~MissingKeyGets
  PROVE  Spec => []SafeInv
<1>1. (~MissingKeyGets => ExclusionInv) /\ ReleaseInv => SafeInv
  BY DEF SafeInv
<1> QED
  BY <1>1, ExclusionAlways, ReleaseAlways, PTL

\* The thread that answers for the changes in a table holds it.
LEMMA CleaningHolds ==
  ASSUME NEW c \in Conns, NEW t \in TableNames, ControlInv(c), Cleans(c, t)
  PROVE  Holds(c, t)
  BY DEF Cleans, Holds, ControlInv, LoopLabels

\* A table is clean unless the thread that holds it has still to decide.
LEMMA CleanUnlessPending ==
  ASSUME SafeInv, NEW t \in TableNames, \A c \in Conns : Holds(c, t) => ~Cleans(c, t)
  PROVE  CleanTable(t)
  BY CleaningHolds DEF SafeInv, ReleaseInv, NoOrphanChange

\* Nobody has to decide on a table nobody has locked.
LEMMA SafeIsClean ==
  ASSUME SafeInv
  PROVE  CleanWhenUnlocked
<1>1. SUFFICES ASSUME NEW t \in TableNames, ~mutex[t]
               PROVE  CleanTable(t)
  BY DEF CleanWhenUnlocked, CleanTable
<1>2. \A c \in Conns : ~Holds(c, t)
  BY <1>1 DEF SafeInv, ExclusionInv, LockInv
<1> QED
  BY <1>2, CleanUnlessPending

\* A table nobody has locked holds no uncommitted change: what commit_changes
\* leaves in proposed_pairs is committed, and a rollback clears it, before
\* either unlocks the table (handle_set, handle_commit, fail_transaction).
THEOREM UnlockedAreClean == Spec => [](~MissingKeyGets => CleanWhenUnlocked)
<1>1. (~MissingKeyGets => ExclusionInv) /\ ReleaseInv => (~MissingKeyGets => CleanWhenUnlocked)
  BY SafeIsClean DEF SafeInv
<1> QED
  BY <1>1, ExclusionAlways, ReleaseAlways, PTL

-----------------------------------------------------------------------------
(* Who changes a table.                                                      *)

\* The steps that write the maps of a table.
WriteStep(c) ==
    \/ \E t \in TableNames : commit_table(c, t) \/ rollback_table(c, t)
    \/ set_table_value(c) \/ autocommit(c) \/ create_assign(c)

\* No other step of a thread changes a map.
LEMMA OnlyWritersWrite ==
  ASSUME NEW c \in Conns, ClientStep(c) \/ read_eof(c) \/ ThreadStep(c), ~WriteStep(c)
  PROVE  UNCHANGED <<kvp, proposed>>
<1> USE DEF process, Throw, session
<1>1. CASE ClientStep(c) \/ read_eof(c)
  <2>1. CASE \E r \in Requests : Handle(c, r)
    BY <2>1 DEF Handle, handle_push, handle_pop, handle_top, handle_arith, handle_bye,
       handle_unsupported, handle_begin, handle_commit, handle_set, handle_get, handle_create
  <2>2. CASE ~\E r \in Requests : Handle(c, r)
    BY <1>1, <2>2 DEF ClientStep, Accept, ClientLeaves, read_invalid, handle_login, refuse,
       read_eof
  <2> QED
    BY <2>1, <2>2
<1>2. CASE ThreadStep(c)
  BY <1>2 DEF ThreadStep, WriteStep, close_connection, commit_unlock, commit_done,
     fail_unlock, fail_done, next_table, find_table, lock, trylock, unlock, get_has_key,
     get_table_value, get_missing, get_catch, create_lock, create_find, create_exists,
     create_insert, create_unlock
<1> QED
  BY <1>1, <1>2

\* A thread changes only tables it holds, and goes on to its next label.
LEMMA WritersHold ==
  ASSUME SafeInv, NEW c \in Conns, ClientStep(c) \/ read_eof(c) \/ ThreadStep(c),
         NEW t \in TableNames, slot[t] = "table",
         kvp'[t] # kvp[t] \/ proposed'[t] # proposed[t]
  PROVE  Holds(c, t) /\ pc'[c] # pc[c]
<1>t. TypeOK /\ LocalsInv(c) /\ LockInv(c) /\ ExistInv(c)
  BY DEF SafeInv, ExclusionInv, TypeInv
<1>p. /\ pc \in [Conns -> Labels]
      /\ kvp \in [TableNames -> Pairs] /\ proposed \in [TableNames -> Pairs]
  BY <1>t DEF TypeOK
<1>w. WriteStep(c)
  BY OnlyWritersWrite
<1>1. ASSUME NEW u \in TableNames, commit_table(c, u)
      PROVE  Holds(c, t) /\ pc'[c] # pc[c]
  <2>1. u = t /\ pc[c] = "commit" /\ pc'[c] = "commit_unlock" /\ u \in todo[c]
    BY <1>p, <1>1 DEF commit_table, At, goto
  <2> QED
    BY <1>t, <2>1, TouchingHolds DEF Touches
<1>2. ASSUME NEW u \in TableNames, rollback_table(c, u)
      PROVE  Holds(c, t) /\ pc'[c] # pc[c]
  <2>1. u = t /\ pc[c] = "fail" /\ pc'[c] = "fail_unlock" /\ u \in todo[c]
    BY <1>p, <1>2 DEF rollback_table, At, goto
  <2> QED
    BY <1>t, <2>1, TouchingHolds DEF Touches
<1>3. CASE set_table_value(c)
  <2>1. table_obj[c] = t /\ pc[c] = "set" /\ pc'[c] \in {"read", "autocommit"}
    BY <1>p, <1>3 DEF set_table_value, At, FinishIn, write_ok, respond, goto
  <2> QED
    BY <1>t, <2>1, TouchingHolds DEF Touches
<1>4. CASE autocommit(c)
  <2>1. table_obj[c] = t /\ pc[c] = "autocommit" /\ pc'[c] = "unlock"
    BY <1>p, <1>4 DEF autocommit, At, goto
  <2> QED
    BY <1>t, <2>1, TouchingHolds DEF Touches
\* CREATE writes a table that is none yet.
<1>5. CASE create_assign(c)
  <2>1. pc[c] = "create_assign" /\ req[c].table = t
    BY <1>p, <1>5 DEF create_assign, At
  <2> QED
    BY <1>t, <2>1 DEF ExistInv
<1> QED
  BY <1>w, <1>1, <1>2, <1>3, <1>4, <1>5 DEF WriteStep

\* A step leaves the tables alone that others have locked in a transaction.
Isolated ==
    \A c \in Conns : \A t \in locked_tables[c] :
        Holds(c, t) /\ (kvp'[t] # kvp[t] \/ proposed'[t] # proposed[t]) => pc'[c] # pc[c]

LEMMA StepIsIsolated ==
  ASSUME SafeInv, [Next]_vars
  PROVE  Isolated
<1>1. ASSUME NEW d \in Conns, ClientStep(d) \/ read_eof(d) \/ ThreadStep(d)
      PROVE  Isolated
  <2>1. SUFFICES ASSUME NEW c \in Conns, NEW t \in locked_tables[c], Holds(c, t),
                        kvp'[t] # kvp[t] \/ proposed'[t] # proposed[t]
                 PROVE  pc'[c] # pc[c]
    BY DEF Isolated
  <2>2. t \in TableNames /\ slot[t] = "table"
    BY <2>1 DEF SafeInv, ExclusionInv, ExistInv, TypeInv, TypeOK
  <2>3. Holds(d, t) /\ pc'[d] # pc[d]
    BY <1>1, <2>1, <2>2, WritersHold
  <2> QED
    BY <2>1, <2>2, <2>3 DEF SafeInv, ExclusionInv, MutualExclusion
<1>2. ASSUME UNCHANGED process
      PROVE  Isolated
  BY <1>2 DEF process, Isolated
<1> QED
  BY <1>1, <1>2 DEF Next, Dead, data_race, vars

\* A table a transaction has locked is changed by no thread but its own until
\* the transaction ends (handle_set, handle_get, handle_commit,
\* fail_transaction), as long as every GET is for a key that is there.
THEOREM TransactionsIsolated ==
  ASSUME ~MissingKeyGets
  PROVE  Spec => Isolation
<1>1. SafeInv /\ [Next]_vars => [Isolated]_vars
  BY StepIsIsolated
<1> QED
  BY <1>1, SafeAlways, PTL DEF Spec, Isolation, Isolated
=============================================================================
