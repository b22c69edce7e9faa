-------------------------- MODULE ExclusionProofs --------------------------
(***************************************************************************)
(* The locks of the tables exclude each other, for every number of         *)
(* connections, tables and keys, as long as no client asks for a key that  *)
(* is not there (the error path of GET unlocks a table twice).             *)
(***************************************************************************)
EXTENDS BasicServerProofs

-----------------------------------------------------------------------------
(* The inductive invariant.                                                  *)

\* What thread c counts on when it locks, uses and unlocks tables.
LockInv(c) ==
    /\ locked_tables[c] # {} => in_transaction[c]
    /\ pc[c] \in LoopLabels => in_transaction[c] /\ todo[c] \subseteq locked_tables[c]
    /\ pc[c] \in {"lock", "autocommit", "unlock"} => ~in_transaction[c]
    /\ pc[c] = "trylock" => in_transaction[c]
    /\ pc[c] \in {"set", "has_key", "get"} /\ in_transaction[c]
           => table_obj[c] \in locked_tables[c]
    /\ \A t \in TableNames : Holds(c, t) => mutex[t]

\* A GET is for a key that is there, so that its error path is not taken.
KeyInv(c) ==
    /\ pc[c] \notin {"missing", "catch"}
    /\ pc[c] \in {"has_key", "get"} => req[c].op = "GET"
    /\ pc[c] \in {"find", "lock", "trylock", "has_key", "get"} /\ req[c].op = "GET"
           => KeyPresent(c, req[c].table, req[c].key)

\* Tables in use exist, and a thread creates only what does not.
ExistInv(c) ==
    /\ pc[c] \in TableLabels => slot[table_obj[c]] = "table"
    /\ \A t \in locked_tables[c] : slot[t] = "table"
    /\ pc[c] \in {"create_insert", "create_assign"} => slot[req[c].table] # "table"
    /\ pc[c] \in OwnerLabels => server_mutex

OneOwner == \A c, d \in Conns : pc[c] \in OwnerLabels /\ pc[d] \in OwnerLabels => c = d

NewTablesEmpty == \A t \in TableNames : slot[t] # "table" => kvp[t] = NoPairs

ExclusionInv ==
    /\ TypeInv
    /\ \A c \in Conns : LockInv(c) /\ KeyInv(c) /\ ExistInv(c)
    /\ MutualExclusion
    /\ OneOwner
    /\ NewTablesEmpty

-----------------------------------------------------------------------------
(* A step of thread c, seen from the other threads.                          *)

Mine(c) == LockInv(c) /\ KeyInv(c) /\ ExistInv(c)

\* What c may do to the shared state: unlock what it holds, lock what nobody
\* has locked, initialise what is not a table yet.
SharedStep(c) ==
    /\ \A t \in TableNames :
          mutex'[t] = mutex[t] \/ ~mutex[t] \/ Holds(c, t) \/ slot[t] # "table"
    /\ \A t \in TableNames : slot[t] = "table" => slot'[t] = "table"
    /\ slot' = slot \/ pc[c] \in {"create_insert", "create_assign"}
    /\ server_mutex' \/ server_mutex' = server_mutex \/ pc[c] \in OwnerLabels
    /\ \A t \in TableNames, k \in Keys : kvp[t][k] # None => kvp'[t][k] # None
    /\ \A t \in TableNames : kvp'[t] = kvp[t] \/ slot'[t] = "table"
    /\ \A t \in TableNames, k \in Keys : proposed[t][k] # None =>
          proposed'[t][k] # None \/ Holds(c, t) \/ slot[t] # "table"

\* What c reaches itself: it comes to hold only what was not locked.
OwnStep(c) ==
    /\ Mine(c)'
    /\ \A t \in TableNames : Holds(c, t)' => Holds(c, t) \/ ~mutex[t]
    /\ pc'[c] \in OwnerLabels => pc[c] \in OwnerLabels \/ ~server_mutex

\* A GET that begins is for a key that is there.
GetsFound(c) ==
    pc[c] = "read" /\ pc'[c] = "find" /\ req'[c].op = "GET"
        => KeyPresent(c, req'[c].table, req'[c].key)

\* A thread holds tables only.
LEMMA HeldTablesExist ==
  ASSUME NEW c \in Conns, NEW t \in TableNames, ExistInv(c), LockInv(c), Holds(c, t)
  PROVE  mutex[t] /\ slot[t] = "table"
  BY DEF Holds, ExistInv, LockInv, TableLabels

\* What another thread counts on survives a step of c.
LEMMA OthersKeep ==
  ASSUME ExclusionInv, NEW c \in Conns, NEW d \in Conns, d # c, Frame(c), SharedStep(c)
  PROVE  Mine(d)' /\ \A t \in TableNames : Holds(d, t)' <=> Holds(d, t)
<1>f. /\ pc'[d] = pc[d] /\ req'[d] = req[d] /\ table_obj'[d] = table_obj[d]
      /\ todo'[d] = todo[d] /\ in_transaction'[d] = in_transaction[d]
      /\ locked_tables'[d] = locked_tables[d]
  BY DEF Frame
<1>i. /\ LockInv(d) /\ KeyInv(d) /\ ExistInv(d) /\ LocalsInv(d)
      /\ \A t \in TableNames : Holds(d, t) => ~Holds(c, t)
  BY DEF ExclusionInv, MutualExclusion, TypeInv
<1>1. \A t \in TableNames : Holds(d, t)' <=> Holds(d, t)
  BY <1>f DEF Holds
<1>2. LockInv(d)'
  <2>1. \A t \in TableNames : Holds(d, t) => mutex[t] /\ slot[t] = "table" /\ ~Holds(c, t)
    BY <1>i, HeldTablesExist
  <2>2. \A t \in TableNames : Holds(d, t)' => mutex'[t]
    BY <1>1, <2>1 DEF SharedStep
  <2> QED
    BY <1>f, <1>i, <2>2 DEF LockInv
<1>t. locked_tables[d] \subseteq TableNames
  BY DEF ExclusionInv, TypeInv, TypeOK
<1>3. KeyInv(d)'
  <2>1. SUFFICES ASSUME pc[d] \in {"find", "lock", "trylock", "has_key", "get"},
                        req[d].op = "GET"
                 PROVE  KeyPresent(d, req[d].table, req[d].key)'
    BY <1>f, <1>i DEF KeyInv
  <2> DEFINE t == req[d].table
             k == req[d].key
  <2>2. KeyPresent(d, t, k) /\ t \in TableNames /\ k \in Keys
    BY <1>i, <2>1 DEF KeyInv, LocalsInv, RequestLabels, TableLabels, TableRequest
  <2> HIDE DEF t, k
  <2>3. CASE kvp[t][k] # None
    BY <2>2, <2>3, <1>f DEF KeyPresent, SharedStep, t, k
  <2>4. CASE t \in locked_tables[d] /\ proposed[t][k] # None
    <3>1. Holds(d, t) /\ slot[t] = "table"
      BY <1>i, <2>1, <2>4 DEF Holds, ExistInv
    <3>2. proposed'[t][k] # None
      BY <1>i, <2>2, <2>4, <3>1 DEF SharedStep
    <3> QED
      BY <1>f, <2>4, <3>2 DEF KeyPresent, t, k
  <2> QED
    BY <2>2, <2>3, <2>4 DEF KeyPresent
<1>4. ExistInv(d)'
  <2>1. pc[d] \in TableLabels => table_obj[d] \in TableNames
    BY <1>i DEF LocalsInv, RequestLabels, TableRequest
  <2>2. \A t \in TableNames : slot[t] = "table" => slot'[t] = "table"
    BY DEF SharedStep
  <2>3. pc[d] \in OwnerLabels => pc[c] \notin OwnerLabels
    BY DEF ExclusionInv, OneOwner
  <2>4. pc[d] \in {"create_insert", "create_assign"} => slot' = slot
    BY <2>3 DEF SharedStep, OwnerLabels
  <2>5. pc[d] \in OwnerLabels => server_mutex'
    BY <1>i, <2>3 DEF SharedStep, ExistInv
  <2> QED
    BY <1>f, <1>i, <1>t, <2>1, <2>2, <2>4, <2>5 DEF ExistInv
<1> QED
  BY <1>1, <1>2, <1>3, <1>4 DEF Mine

\* A step that respects the others and itself keeps the invariant.
LEMMA StepKeeps ==
  ASSUME ExclusionInv, NEW c \in Conns, TypeInv', Frame(c), SharedStep(c), OwnStep(c)
  PROVE  ExclusionInv'
<1>1. \A d \in Conns : Mine(d)'
  BY OthersKeep DEF OwnStep
<1>2. MutualExclusion'
  <2>1. ASSUME NEW t \in TableNames, NEW d \in Conns, d # c, Holds(c, t)', Holds(d, t)'
        PROVE  FALSE
    <3>1. Holds(d, t)
      BY <2>1, OthersKeep
    <3>2. mutex[t]
      BY <3>1 DEF ExclusionInv, LockInv
    <3>3. Holds(c, t)
      BY <2>1, <3>2 DEF OwnStep
    <3> QED
      BY <2>1, <3>1, <3>3 DEF ExclusionInv, MutualExclusion
  <2>2. ASSUME NEW t \in TableNames, NEW d \in Conns, NEW e \in Conns, d # c, e # c,
               Holds(d, t)', Holds(e, t)'
        PROVE  d = e
    <3>1. Holds(d, t) /\ Holds(e, t)
      BY <2>2, OthersKeep
    <3> QED
      BY <3>1 DEF ExclusionInv, MutualExclusion
  <2> QED
    BY <2>1, <2>2 DEF MutualExclusion
<1>3. OneOwner'
  <2>1. \A d \in Conns : d # c /\ pc'[d] \in OwnerLabels => pc[d] \in OwnerLabels /\ server_mutex
    BY DEF Frame, ExclusionInv, ExistInv
  <2> QED
    BY <2>1 DEF OwnStep, ExclusionInv, OneOwner
<1>4. NewTablesEmpty'
  BY DEF SharedStep, ExclusionInv, NewTablesEmpty
<1> QED
  BY <1>1, <1>2, <1>3, <1>4 DEF ExclusionInv, Mine
-----------------------------------------------------------------------------
(* The steps.                                                                *)

\* A step that leaves the process's data alone.
LEMMA Quiet ==
  ASSUME NEW c \in Conns, UNCHANGED process
  PROVE  SharedStep(c)
  BY DEF SharedStep, process

\* Between requests a thread counts on its locked tables only.
LEMMA IdleOwn ==
  ASSUME NEW c \in Conns, Mine(c), pc[c] \notin LoopLabels,
         pc'[c] \in {"closed", "read", "close", "create_lock"},
         locked_tables'[c] = locked_tables[c], in_transaction[c] => in_transaction'[c],
         \A t \in locked_tables[c] : mutex'[t] = mutex[t] /\ slot'[t] = slot[t]
  PROVE  OwnStep(c)
<1>1. \A t \in TableNames : Holds(c, t)' => t \in locked_tables[c] /\ Holds(c, t)
  BY DEF Holds, LoopLabels
<1>2. LockInv(c)'
  BY <1>1 DEF LockInv, Mine, LoopLabels
<1>3. KeyInv(c)'
  BY DEF KeyInv
<1>4. ExistInv(c)'
  BY DEF ExistInv, Mine, TableLabels, OwnerLabels
<1> QED
  BY <1>1, <1>2, <1>3, <1>4 DEF OwnStep, Mine, OwnerLabels

\* A thread that enters an iteration has all its tables to visit.
LEMMA LoopOwn ==
  ASSUME NEW c \in Conns, Mine(c), pc[c] \notin LoopLabels, pc'[c] \in {"commit", "fail"},
         in_transaction[c], in_transaction'[c] = in_transaction[c],
         locked_tables'[c] = locked_tables[c], todo'[c] = locked_tables[c],
         UNCHANGED <<mutex, slot>>
  PROVE  OwnStep(c)
<1>1. \A t \in TableNames : Holds(c, t)' => Holds(c, t)
  BY DEF Holds, LoopLabels
<1>2. LockInv(c)'
  BY <1>1 DEF LockInv, Mine, LoopLabels
<1>3. KeyInv(c)'
  BY DEF KeyInv
<1>4. ExistInv(c)'
  BY DEF ExistInv, Mine, TableLabels, OwnerLabels
<1> QED
  BY <1>1, <1>2, <1>3, <1>4 DEF OwnStep, Mine, OwnerLabels

\* An exception fails the transaction or is answered at once.
LEMMA ExceptionOwn ==
  ASSUME TypeOK, NEW c \in Conns, Mine(c), pc[c] \notin LoopLabels, NEW type,
         manage_exception(c, type), UNCHANGED <<mutex, slot>>,
         in_transaction'[c] = in_transaction[c], locked_tables'[c] = locked_tables[c]
  PROVE  OwnStep(c)
<1>t. pc \in [Conns -> Labels] /\ todo \in [Conns -> SUBSET TableNames]
  BY DEF TypeOK
<1>1. CASE in_transaction[c]
  <2>1. pc'[c] = "fail" /\ todo'[c] = locked_tables[c]
    BY <1>1, <1>t DEF manage_exception, fail_transaction
  <2> QED
    BY <1>1, <2>1, LoopOwn
<1>2. CASE ~in_transaction[c]
  <2>1. pc'[c] = "read"
    BY <1>2, <1>t DEF manage_exception, respond
  <2> QED
    BY <2>1, IdleOwn
<1> QED
  BY <1>1, <1>2

\* What a client causes.
LEMMA ClientStepExcludes ==
  ASSUME ExclusionInv, NEW c \in Conns, ClientStep(c) \/ read_eof(c),
         ~MissingKeyGets \/ GetsFound(c)
  PROVE  SharedStep(c) /\ OwnStep(c)
<1>t. TypeOK
  BY DEF ExclusionInv, TypeInv
<1>p. /\ pc \in [Conns -> Labels] /\ in_transaction \in [Conns -> BOOLEAN]
      /\ todo \in [Conns -> SUBSET TableNames]
      /\ req \in [Conns -> TableRequest \cup CreateRequest \cup {None}]
  BY <1>t DEF TypeOK
<1>m. Mine(c)
  BY DEF ExclusionInv, Mine
\* The request is answered or read, and nothing else happens.
<1>i. ASSUME UNCHANGED <<process, locked_tables>>, pc[c] \notin LoopLabels,
             pc'[c] \in {"closed", "read", "close", "create_lock"},
             in_transaction[c] => in_transaction'[c]
      PROVE  SharedStep(c) /\ OwnStep(c)
  BY <1>m, <1>i, Quiet, IdleOwn DEF process
<1>e. ASSUME NEW type, manage_exception(c, type), UNCHANGED <<process, locked_tables, in_transaction>>,
             pc[c] \notin LoopLabels
      PROVE  SharedStep(c) /\ OwnStep(c)
  BY <1>t, <1>m, <1>e, Quiet, ExceptionOwn DEF process
<1>s. ASSUME Serving(c)
      PROVE  pc[c] = "read" /\ pc[c] \notin LoopLabels
  BY <1>s DEF Serving, At, LoopLabels
<1>h. ASSUME Throw(c), Serving(c)
      PROVE  SharedStep(c) /\ OwnStep(c)
  BY <1>h, <1>s, <1>e DEF Throw, session
<1>1. CASE Accept(c)
  BY <1>i, <1>p, <1>1 DEF Accept, goto, At, LoopLabels, session
<1>2. CASE read_eof(c)
  BY <1>i, <1>p, <1>2 DEF read_eof, goto, At, LoopLabels, session
<1>3. CASE ClientLeaves(c)
  <2>1. UNCHANGED <<process, pc, todo, locked_tables, in_transaction, req, table_obj>>
    BY <1>3 DEF ClientLeaves, session, locals
  <2>2. \A t \in TableNames : Holds(c, t)' <=> Holds(c, t)
    BY <2>1 DEF Holds
  <2>3. LockInv(c)'
    BY <1>m, <2>1, <2>2 DEF LockInv, Mine, process
  <2>4. KeyInv(c)'
    BY <1>m, <2>1 DEF KeyInv, KeyPresent, Mine, process
  <2>5. ExistInv(c)'
    BY <1>m, <2>1 DEF ExistInv, Mine, process
  <2> QED
    BY <2>1, <2>2, <2>3, <2>4, <2>5, Quiet DEF OwnStep, Mine
<1>4. CASE read_invalid(c)
  BY <1>e, <1>4 DEF read_invalid, At, LoopLabels, session
<1>5. CASE handle_login(c)
  BY <1>i, <1>p, <1>5 DEF handle_login, write_ok, respond, At, LoopLabels
<1>6. CASE refuse(c)
  BY <1>i, <1>p, <1>6 DEF refuse, At, LoopLabels, session
<1>7. ASSUME NEW r \in Requests, handle_push(c, r)
      PROVE  SharedStep(c) /\ OwnStep(c)
  BY <1>i, <1>s, <1>p, <1>7 DEF handle_push, write_ok, respond
<1>8. ASSUME NEW r \in Requests, handle_pop(c, r)
      PROVE  SharedStep(c) /\ OwnStep(c)
  BY <1>h, <1>i, <1>s, <1>p, <1>8 DEF handle_pop, write_ok, respond
<1>9. ASSUME NEW r \in Requests, handle_top(c, r)
      PROVE  SharedStep(c) /\ OwnStep(c)
  BY <1>h, <1>i, <1>s, <1>p, <1>9 DEF handle_top, respond, session
<1>10. ASSUME NEW r \in Requests, handle_arith(c, r)
       PROVE  SharedStep(c) /\ OwnStep(c)
  <2>1. Serving(c) /\ UNCHANGED <<process, in_transaction, locked_tables>>
    BY <1>10 DEF handle_arith
  <2>2. CASE write_ok(c)
    BY <1>i, <1>s, <1>p, <2>1, <2>2 DEF write_ok, respond
  <2>3. CASE manage_exception(c, "FAILED")
    BY <1>e, <1>s, <2>1, <2>3
  <2>4. CASE UNCHANGED pc
    BY <1>i, <1>s, <2>1, <2>4
  <2> QED
    BY <1>10, <2>2, <2>3, <2>4 DEF handle_arith
<1>11. ASSUME NEW r \in Requests, handle_bye(c, r)
       PROVE  SharedStep(c) /\ OwnStep(c)
  BY <1>i, <1>s, <1>p, <1>11 DEF handle_bye, session
<1>12. ASSUME NEW r \in Requests, handle_unsupported(c, r)
       PROVE  SharedStep(c) /\ OwnStep(c)
  BY <1>h, <1>12 DEF handle_unsupported
<1>13. ASSUME NEW r \in Requests, handle_begin(c, r)
       PROVE  SharedStep(c) /\ OwnStep(c)
  BY <1>h, <1>i, <1>s, <1>p, <1>13 DEF handle_begin, write_ok, respond
<1>14. ASSUME NEW r \in Requests, handle_commit(c, r)
       PROVE  SharedStep(c) /\ OwnStep(c)
  <2>1. CASE ~in_transaction[c]
    BY <1>h, <1>14, <2>1 DEF handle_commit
  <2>2. CASE in_transaction[c]
    <3>1. /\ pc'[c] = "commit" /\ todo'[c] = locked_tables[c] /\ pc[c] \notin LoopLabels
          /\ UNCHANGED <<process, locked_tables, in_transaction>>
      BY <1>p, <1>s, <1>14, <2>2 DEF handle_commit, session
    <3> QED
      BY <1>m, <2>2, <3>1, Quiet, LoopOwn DEF process
  <2> QED
    BY <2>1, <2>2
\* A SET or GET begins; the key of a GET is there.
<1>15. ASSUME NEW r \in Requests, req' = [req EXCEPT ![c] = r], start(c, "find"),
              UNCHANGED <<process, session>>, Serving(c),
              r.op = "GET" => KeyPresent(c, r.table, r.key)
       PROVE  SharedStep(c) /\ OwnStep(c)
  <2>1. pc'[c] = "find" /\ req'[c] = r /\ UNCHANGED <<locked_tables, in_transaction>>
    BY <1>p, <1>15 DEF start, session
  <2>2. \A t \in TableNames : Holds(c, t)' => Holds(c, t)
    BY <1>s, <1>15, <2>1 DEF Holds
  <2>3. LockInv(c)'
    BY <1>m, <1>15, <2>1, <2>2 DEF LockInv, Mine, LoopLabels, process
  <2>4. KeyInv(c)'
    BY <1>15, <2>1 DEF KeyInv, KeyPresent, process
  <2>5. ExistInv(c)'
    BY <1>m, <1>15, <2>1 DEF ExistInv, Mine, TableLabels, OwnerLabels, process
  <2> QED
    BY <1>15, <2>1, <2>2, <2>3, <2>4, <2>5, Quiet DEF OwnStep, Mine, OwnerLabels
<1>16. ASSUME NEW r \in Requests, handle_set(c, r)
       PROVE  SharedStep(c) /\ OwnStep(c)
  BY <1>h, <1>15, <1>16 DEF handle_set
<1>17. ASSUME NEW r \in Requests, handle_get(c, r)
       PROVE  SharedStep(c) /\ OwnStep(c)
  <2>1. pc[c] = "read" /\ pc'[c] = "find" /\ req'[c] = r
    BY <1>p, <1>s, <1>17 DEF handle_get, start
  <2>2. KeyPresent(c, r.table, r.key)
    BY <1>17, <2>1 DEF handle_get, GetsFound
  <2> QED
    BY <1>15, <1>17, <2>2 DEF handle_get
<1>18. ASSUME NEW r \in Requests, handle_create(c, r)
       PROVE  SharedStep(c) /\ OwnStep(c)
  BY <1>i, <1>s, <1>p, <1>18 DEF handle_create, start, session
<1> QED
  BY <1>1, <1>2, <1>3, <1>4, <1>5, <1>6, <1>7, <1>8, <1>9, <1>10, <1>11, <1>12,
     <1>13, <1>14, <1>16, <1>17, <1>18 DEF ClientStep, Handle

\* A thread that ends its transaction counts on nothing any more.
LEMMA ReleasedOwn ==
  ASSUME NEW c \in Conns, locked_tables'[c] = {},
         pc'[c] \in {"closed", "read"}
  PROVE  OwnStep(c)
<1>1. \A t \in TableNames : ~Holds(c, t)'
  BY DEF Holds
<1>2. LockInv(c)' /\ KeyInv(c)' /\ ExistInv(c)'
  BY <1>1 DEF LockInv, KeyInv, ExistInv, LoopLabels, TableLabels, OwnerLabels
<1> QED
  BY <1>1, <1>2 DEF OwnStep, Mine, OwnerLabels

\* The steps of COMMIT, fail_transaction and the destructor.
LEMMA EndStepExcludes ==
  ASSUME ExclusionInv, NEW c \in Conns,
         \/ close_connection(c)
         \/ \E t \in TableNames : commit_table(c, t) \/ rollback_table(c, t)
         \/ commit_unlock(c) \/ commit_done(c) \/ fail_unlock(c) \/ fail_done(c)
  PROVE  SharedStep(c) /\ OwnStep(c)
<1>t. TypeOK /\ LocalsInv(c)
  BY DEF ExclusionInv, TypeInv
<1>p. /\ pc \in [Conns -> Labels] /\ in_transaction \in [Conns -> BOOLEAN]
      /\ todo \in [Conns -> SUBSET TableNames]
      /\ locked_tables \in [Conns -> SUBSET TableNames]
      /\ table_obj \in [Conns -> TableNames \cup {None}]
      /\ mutex \in [TableNames -> BOOLEAN]
      /\ kvp \in [TableNames -> Pairs] /\ proposed \in [TableNames -> Pairs]
  BY <1>t DEF TypeOK
<1>m. Mine(c) /\ LockInv(c) /\ ExistInv(c)
  BY DEF ExclusionInv, Mine
<1>1. CASE close_connection(c)
  <2>1. CASE in_transaction[c]
    <3>1. /\ pc'[c] = "fail" /\ todo'[c] = locked_tables[c] /\ pc[c] \notin LoopLabels
          /\ UNCHANGED <<process, locked_tables, in_transaction>>
      BY <1>p, <1>1, <2>1 DEF close_connection, fail_transaction, session, At, LoopLabels
    <3> QED
      BY <1>m, <2>1, <3>1, Quiet, LoopOwn DEF process
  <2>2. CASE ~in_transaction[c]
    <3>1. pc'[c] = "closed" /\ locked_tables'[c] = {} /\ UNCHANGED process
      BY <1>p, <1>1, <2>2 DEF close_connection, Delete
    <3> QED
      BY <3>1, Quiet, ReleasedOwn
  <2> QED
    BY <2>1, <2>2
\* A table is committed or rolled back, with its lock held.
<1>2. ASSUME NEW t \in TableNames, pc[c] \in {"commit", "fail"}, t \in todo[c],
             pc'[c] \in {"commit_unlock", "fail_unlock"}, todo' = todo,
             UNCHANGED <<slot, server_mutex, mutex, locked_tables, in_transaction>>
      PROVE  Holds(c, t) /\ slot[t] = "table" /\ OwnStep(c)
  <2>1. t \in locked_tables[c]
    BY <1>m, <1>2 DEF LockInv, LoopLabels
  <2>2. Holds(c, t) /\ slot[t] = "table"
    BY <1>m, <1>2, <2>1 DEF Holds, ExistInv
  <2>3. \A u \in TableNames : Holds(c, u)' => Holds(c, u)
    BY <1>2 DEF Holds
  <2>4. LockInv(c)'
    BY <1>m, <1>2, <2>3 DEF LockInv, LoopLabels
  <2>5. KeyInv(c)'
    BY <1>2 DEF KeyInv
  <2>6. ExistInv(c)'
    BY <1>m, <1>2 DEF ExistInv, TableLabels, OwnerLabels
  <2> QED
    BY <1>2, <2>2, <2>3, <2>4, <2>5, <2>6 DEF OwnStep, Mine, OwnerLabels
<1>3. ASSUME NEW t \in TableNames, commit_table(c, t)
      PROVE  SharedStep(c) /\ OwnStep(c)
  <2>1. /\ pc[c] = "commit" /\ t \in todo[c] /\ pc'[c] = "commit_unlock" /\ todo' = todo
        /\ UNCHANGED <<slot, server_mutex, mutex, proposed, locked_tables, in_transaction>>
        /\ kvp' = [kvp EXCEPT ![t] = commit_changes(kvp[t], proposed[t])]
    BY <1>p, <1>3 DEF commit_table, goto, At, session
  <2>2. slot[t] = "table" /\ OwnStep(c)
    BY <1>2, <2>1
  <2>3. \A u \in TableNames, k \in Keys : kvp[u][k] # None => kvp'[u][k] # None
    BY <1>p, <2>1 DEF commit_changes, Pairs
  <2>4. \A u \in TableNames : kvp'[u] = kvp[u] \/ slot'[u] = "table"
    BY <1>p, <2>1, <2>2
  <2> QED
    BY <2>1, <2>2, <2>3, <2>4 DEF SharedStep
<1>4. ASSUME NEW t \in TableNames, rollback_table(c, t)
      PROVE  SharedStep(c) /\ OwnStep(c)
  <2>1. /\ pc[c] = "fail" /\ t \in todo[c] /\ pc'[c] = "fail_unlock" /\ todo' = todo
        /\ UNCHANGED <<slot, server_mutex, mutex, kvp, locked_tables, in_transaction>>
        /\ proposed' = [proposed EXCEPT ![t] = rollback_changes(proposed[t])]
    BY <1>p, <1>4 DEF rollback_table, goto, At, session
  <2>2. Holds(c, t) /\ OwnStep(c)
    BY <1>2, <2>1
  <2>3. \A u \in TableNames, k \in Keys : proposed[u][k] # None =>
            proposed'[u][k] # None \/ Holds(c, u) \/ slot[u] # "table"
    BY <1>p, <2>1, <2>2
  <2> QED
    BY <2>1, <2>2, <2>3 DEF SharedStep
\* The table is unlocked by the thread that holds it.
<1>5. ASSUME NEW label \in {"commit_unlock", "fail_unlock"}, NEW loop \in {"commit", "fail"},
             next_table(c, label, loop)
      PROVE  SharedStep(c) /\ OwnStep(c)
  <2> DEFINE t == table_obj[c]
  <2>1. /\ pc[c] = label /\ pc'[c] = loop /\ todo'[c] = todo[c] \ {t}
        /\ mutex' = [mutex EXCEPT ![t] = FALSE]
        /\ UNCHANGED <<slot, server_mutex, kvp, proposed, locked_tables, in_transaction>>
    BY <1>p, <1>5 DEF next_table, Unlock, At, session
  <2>2. t \in todo[c] /\ t \in locked_tables[c] /\ t \in TableNames
    BY <1>t, <1>m, <1>p, <2>1 DEF LocalsInv, LockInv, LoopLabels
  <2>3. Holds(c, t)
    BY <2>1, <2>2 DEF Holds
  <2>4. \A u \in TableNames : u # t => mutex'[u] = mutex[u]
    BY <1>p, <2>1
  <2>5. SharedStep(c)
    BY <2>1, <2>3, <2>4 DEF SharedStep
  <2>6. \A u \in TableNames : Holds(c, u)' => u # t /\ Holds(c, u)
    BY <2>1 DEF Holds
  <2>7. \A u \in TableNames : Holds(c, u)' => mutex'[u]
    BY <1>m, <2>4, <2>6 DEF LockInv
  <2>8. LockInv(c)'
    BY <1>m, <2>1, <2>7 DEF LockInv, LoopLabels
  <2>9. KeyInv(c)'
    BY <2>1 DEF KeyInv
  <2>10. ExistInv(c)'
    BY <1>m, <2>1 DEF ExistInv, TableLabels, OwnerLabels
  <2> QED
    BY <2>1, <2>5, <2>6, <2>8, <2>9, <2>10 DEF OwnStep, Mine, OwnerLabels
<1>6. CASE commit_unlock(c) \/ fail_unlock(c)
  BY <1>5, <1>6 DEF commit_unlock, fail_unlock
<1>7. CASE commit_done(c)
  <2>1. pc'[c] = "read" /\ locked_tables'[c] = {} /\ UNCHANGED process
    BY <1>p, <1>7 DEF commit_done, EndTransaction, write_ok, respond
  <2> QED
    BY <2>1, Quiet, ReleasedOwn
<1>8. CASE fail_done(c)
  <2>1. pc'[c] \in {"read", "closed"} /\ locked_tables'[c] = {} /\ UNCHANGED process
    BY <1>p, <1>8 DEF fail_done, EndTransaction, Delete, respond
  <2> QED
    BY <2>1, Quiet, ReleasedOwn
<1> QED
  BY <1>1, <1>3, <1>4, <1>6, <1>7, <1>8

\* A GET whose key is there finds it.
LEMMA PresentKeyFound ==
  ASSUME NEW c \in Conns, NEW t \in TableNames, NEW k \in Keys, KeyPresent(c, t, k)
  PROVE  has_key(kvp[t], proposed[t], k) /\ get(kvp[t], proposed[t], k) # None
  BY DEF KeyPresent, has_key, get

\* The steps of SET and GET.
LEMMA TableStepExcludes ==
  ASSUME ExclusionInv, NEW c \in Conns,
         \/ find_table(c) \/ lock(c) \/ trylock(c)
         \/ set_table_value(c) \/ autocommit(c) \/ unlock(c)
         \/ get_has_key(c) \/ get_table_value(c) \/ get_missing(c) \/ get_catch(c)
  PROVE  SharedStep(c) /\ OwnStep(c)
<1> DEFINE t == table_obj[c]
<1>t. TypeOK /\ LocalsInv(c)
  BY DEF ExclusionInv, TypeInv
<1>p. /\ pc \in [Conns -> Labels] /\ in_transaction \in [Conns -> BOOLEAN]
      /\ locked_tables \in [Conns -> SUBSET TableNames]
      /\ table_obj \in [Conns -> TableNames \cup {None}]
      /\ mutex \in [TableNames -> BOOLEAN]
      /\ kvp \in [TableNames -> Pairs] /\ proposed \in [TableNames -> Pairs]
      /\ stack[c] \in Seq(Value)
  BY <1>t DEF TypeOK
<1>m. Mine(c) /\ LockInv(c) /\ KeyInv(c) /\ ExistInv(c)
  BY DEF ExclusionInv, Mine
<1>r. ASSUME pc[c] \in RequestLabels
      PROVE  /\ req[c].table \in TableNames /\ req[c].key \in Keys
             /\ req[c].op \in {"SET", "GET"}
  BY <1>t, <1>r DEF LocalsInv, TableRequest
<1>o. ASSUME pc[c] \in TableLabels
      PROVE  t = req[c].table /\ t \in TableNames /\ slot[t] = "table"
  BY <1>t, <1>m, <1>o, <1>r DEF LocalsInv, ExistInv, RequestLabels
<1>h. ASSUME Throw(c), pc[c] \notin LoopLabels
      PROVE  SharedStep(c) /\ OwnStep(c)
  BY <1>t, <1>m, <1>h, Quiet, ExceptionOwn DEF Throw, process, session
<1>1. CASE find_table(c)
  <2> DEFINE label == IF ~in_transaction[c] THEN "lock"
                      ELSE IF req[c].table \in locked_tables[c] THEN Body(c)
                      ELSE "trylock"
  <2>0. pc[c] = "find" /\ pc[c] \in RequestLabels /\ pc[c] \notin LoopLabels
    BY <1>1 DEF find_table, At, RequestLabels, LoopLabels
  <2>1. ASSUME slot[req[c].table] = "table",
               table_obj' = [table_obj EXCEPT ![c] = req[c].table],
               goto(c, label), UNCHANGED <<process, session, req, gone>>
        PROVE  SharedStep(c) /\ OwnStep(c)
    <3>1. /\ pc'[c] = label /\ table_obj'[c] = req[c].table
          /\ UNCHANGED <<process, locked_tables, in_transaction, req>>
      BY <1>p, <2>1 DEF goto, session
    <3>2. /\ label \in {"lock", "trylock", "set", "has_key"}
          /\ label \in {"set", "has_key"} =>
                in_transaction[c] /\ req[c].table \in locked_tables[c]
          /\ label = "lock" => ~in_transaction[c]
          /\ label = "trylock" => in_transaction[c]
          /\ label = "has_key" => req[c].op = "GET"
      BY <1>r, <2>0 DEF Body
    <3> HIDE DEF label
    <3>3. \A u \in TableNames : Holds(c, u)' => Holds(c, u)
      BY <2>0, <3>1, <3>2 DEF Holds
    <3>4. LockInv(c)'
      BY <1>m, <3>1, <3>2, <3>3 DEF LockInv, LoopLabels, process
    <3>5. KeyInv(c)'
      BY <1>m, <2>0, <3>1, <3>2 DEF KeyInv, KeyPresent, process
    <3>6. ExistInv(c)'
      BY <1>m, <2>1, <3>1, <3>2 DEF ExistInv, OwnerLabels, process
    <3> QED
      BY <3>1, <3>2, <3>3, <3>4, <3>5, <3>6, Quiet DEF OwnStep, Mine, OwnerLabels
  <2> QED
    BY <1>1, <1>h, <2>0, <2>1 DEF find_table
\* The table was not locked and is now.
<1>2. ASSUME pc[c] \in {"lock", "trylock"}, ~mutex[t], goto(c, Body(c)),
             mutex' = [mutex EXCEPT ![t] = TRUE],
             locked_tables'[c] \in {locked_tables[c], locked_tables[c] \cup {t}},
             in_transaction[c] => t \in locked_tables'[c],
             ~in_transaction[c] => locked_tables'[c] = locked_tables[c],
             UNCHANGED <<slot, server_mutex, kvp, proposed, locals, in_transaction>>
      PROVE  SharedStep(c) /\ OwnStep(c)
  <2>0. pc[c] \in TableLabels /\ pc[c] \in RequestLabels
    BY <1>2 DEF TableLabels, RequestLabels
  <2>1. t \in TableNames /\ slot[t] = "table" /\ t = req[c].table
    BY <1>o, <2>0
  <2>2. /\ pc'[c] = Body(c) /\ Body(c) \in {"set", "has_key"}
        /\ Body(c) = "has_key" => req[c].op = "GET"
        /\ table_obj'[c] = t /\ req'[c] = req[c]
    BY <1>p, <1>r, <1>2, <2>0 DEF goto, Body, locals
  <2>3. \A u \in TableNames : mutex'[u] = IF u = t THEN TRUE ELSE mutex[u]
    BY <1>p, <1>2
  <2>4. SharedStep(c)
    BY <1>2, <2>3 DEF SharedStep
  <2>5. \A u \in TableNames : Holds(c, u)' => Holds(c, u) \/ u = t
    BY <1>2, <2>2 DEF Holds
  <2>6. \A u \in TableNames : Holds(c, u)' => mutex'[u]
    BY <1>m, <2>3, <2>5 DEF LockInv
  <2>7. LockInv(c)'
    BY <1>m, <1>2, <2>2, <2>6 DEF LockInv, LoopLabels
  <2>8. KeyInv(c)'
    BY <1>m, <1>2, <2>2 DEF KeyInv, KeyPresent
  <2>9. ExistInv(c)'
    BY <1>m, <1>2, <2>1, <2>2 DEF ExistInv, OwnerLabels
  <2> QED
    BY <1>2, <2>2, <2>4, <2>5, <2>7, <2>8, <2>9 DEF OwnStep, Mine, OwnerLabels
<1>3. CASE lock(c)
  <2>1. /\ pc[c] = "lock" /\ ~in_transaction[c]
        /\ UNCHANGED <<locked_tables, in_transaction>>
    BY <1>m, <1>3 DEF lock, At, LockInv, session
  <2> QED
    BY <1>2, <1>3, <2>1 DEF lock
<1>4. CASE trylock(c)
  <2>1. pc[c] = "trylock" /\ in_transaction[c] /\ pc[c] \notin LoopLabels
    BY <1>m, <1>4 DEF trylock, At, LockInv, LoopLabels
  <2>2. CASE mutex[t]
    BY <1>h, <1>4, <2>1, <2>2 DEF trylock
  <2>3. CASE ~mutex[t]
    <3>1. locked_tables'[c] = locked_tables[c] \cup {t}
      BY <1>p, <1>4, <2>3 DEF trylock
    <3> QED
      BY <1>2, <1>4, <2>1, <2>3, <3>1 DEF trylock
  <2> QED
    BY <2>2, <2>3
\* The handler goes on with the same table.
<1>5. ASSUME pc[c] \in {"set", "autocommit", "has_key", "get"},
             pc'[c] \in {"autocommit", "unlock", "get"},
             pc'[c] \in {"autocommit", "unlock"} => ~in_transaction[c],
             pc'[c] = "get" => pc[c] = "has_key" /\ UNCHANGED <<kvp, proposed>>,
             UNCHANGED <<slot, mutex, locked_tables, in_transaction, req, table_obj>>
      PROVE  OwnStep(c)
  <2>1. \A u \in TableNames : Holds(c, u)' => Holds(c, u)
    BY <1>5 DEF Holds
  <2>2. LockInv(c)'
    BY <1>m, <1>5, <2>1 DEF LockInv, LoopLabels
  <2>3. KeyInv(c)'
    BY <1>m, <1>5 DEF KeyInv, KeyPresent
  <2>4. ExistInv(c)'
    BY <1>m, <1>5 DEF ExistInv, TableLabels, OwnerLabels
  <2> QED
    BY <1>5, <2>1, <2>2, <2>3, <2>4 DEF OwnStep, Mine, OwnerLabels
<1>6. ASSUME NEW label \in {"autocommit", "unlock"}, FinishIn(c, label),
             pc[c] \in {"set", "get"},
             UNCHANGED <<slot, mutex, locked_tables, in_transaction>>
      PROVE  OwnStep(c)
  <2>1. CASE in_transaction[c]
    <3>1. pc'[c] = "read"
      BY <1>p, <1>6, <2>1 DEF FinishIn, write_ok, respond
    <3> QED
      BY <1>m, <1>6, <3>1, IdleOwn DEF LoopLabels
  <2>2. CASE ~in_transaction[c]
    <3>1. pc'[c] = label /\ UNCHANGED <<req, table_obj>>
      BY <1>p, <1>6, <2>2 DEF FinishIn, goto, locals
    <3> QED
      BY <1>5, <1>6, <2>2, <3>1
  <2> QED
    BY <2>1, <2>2
<1>7. CASE set_table_value(c)
  <2>0. pc[c] = "set" /\ pc[c] \in TableLabels /\ pc[c] \in RequestLabels
    BY <1>7 DEF set_table_value, At, TableLabels, RequestLabels
  <2>1. /\ t \in TableNames /\ req[c].key \in Keys
        /\ get_top(stack[c]) \in Value /\ get_top(stack[c]) # None
    <3>1. stack[c] # <<>>
      BY <1>t, <2>0 DEF LocalsInv
    <3>2. get_top(stack[c]) \in Value
      BY <1>p, <3>1, TopType
    <3> QED
      BY <1>o, <1>r, <2>0, <3>2, ServerAssumption
  <2>2. /\ proposed' = [proposed EXCEPT
                           ![t] = set(proposed[t], req[c].key, get_top(stack[c]))]
        /\ FinishIn(c, "autocommit")
        /\ UNCHANGED <<slot, server_mutex, mutex, kvp, locked_tables, in_transaction>>
    BY <1>7 DEF set_table_value
  <2>3. \A u \in TableNames, k \in Keys : proposed[u][k] # None => proposed'[u][k] # None
    BY <1>p, <2>1, <2>2 DEF set, Pairs
  <2>4. SharedStep(c)
    BY <2>2, <2>3 DEF SharedStep
  <2> QED
    BY <1>6, <2>0, <2>2, <2>4
<1>8. CASE autocommit(c)
  <2>1. /\ pc[c] = "autocommit" /\ pc'[c] = "unlock" /\ ~in_transaction[c]
        /\ UNCHANGED <<slot, server_mutex, mutex, proposed, locked_tables,
                       in_transaction, req, table_obj>>
        /\ kvp' = [kvp EXCEPT ![t] = commit_changes(kvp[t], proposed[t])]
    BY <1>p, <1>m, <1>8 DEF autocommit, At, goto, LockInv, session, locals
  <2>2. t \in TableNames /\ slot[t] = "table"
    BY <1>o, <2>1 DEF TableLabels
  <2>3. \A u \in TableNames, k \in Keys : kvp[u][k] # None => kvp'[u][k] # None
    BY <1>p, <2>1, <2>2 DEF commit_changes, Pairs
  <2>4. \A u \in TableNames : kvp'[u] = kvp[u] \/ slot'[u] = "table"
    BY <1>p, <2>1, <2>2
  <2>5. SharedStep(c)
    BY <2>1, <2>3, <2>4 DEF SharedStep
  <2> QED
    BY <1>5, <2>1, <2>5
<1>9. CASE unlock(c)
  <2>1. /\ pc[c] = "unlock" /\ pc'[c] = "read" /\ ~in_transaction[c]
        /\ UNCHANGED <<slot, server_mutex, kvp, proposed, locked_tables, in_transaction>>
        /\ mutex' = [mutex EXCEPT ![t] = FALSE]
    BY <1>p, <1>m, <1>9 DEF unlock, Unlock, At, write_ok, respond, LockInv, session
  <2>2. locked_tables[c] = {} /\ t \in TableNames
    BY <1>m, <1>o, <2>1 DEF LockInv, TableLabels
  <2>3. Holds(c, t)
    BY <2>1 DEF Holds
  <2>4. \A u \in TableNames : u # t => mutex'[u] = mutex[u]
    BY <1>p, <2>1
  <2>5. SharedStep(c)
    BY <2>1, <2>3, <2>4 DEF SharedStep
  <2>6. OwnStep(c)
    BY <2>1, <2>2, ReleasedOwn
  <2> QED
    BY <2>5, <2>6
\* The key of a GET is there.
<1>k. ASSUME pc[c] \in {"has_key", "get"}
      PROVE  /\ has_key(kvp[t], proposed[t], req[c].key)
             /\ get(kvp[t], proposed[t], req[c].key) # None
  <2>1. t = req[c].table /\ t \in TableNames /\ req[c].key \in Keys
    BY <1>k, <1>o, <1>r DEF TableLabels, RequestLabels
  <2>2. KeyPresent(c, t, req[c].key)
    BY <1>k, <1>m, <2>1 DEF KeyInv
  <2> QED
    BY <2>1, <2>2, PresentKeyFound
<1>10. CASE get_has_key(c)
  <2>1. /\ pc[c] = "has_key"
        /\ UNCHANGED <<process, locked_tables, in_transaction, req, table_obj>>
    BY <1>10 DEF get_has_key, At, session, locals
  <2>2. pc'[c] = "get"
    BY <1>k, <1>p, <1>10, <2>1 DEF get_has_key, goto
  <2> QED
    BY <1>5, <2>1, <2>2, Quiet DEF process
<1>11. CASE get_table_value(c)
  <2>1. pc[c] = "get" /\ get(kvp[t], proposed[t], req[c].key) # None
    BY <1>k, <1>11 DEF get_table_value, At
  <2>2. FinishIn(c, "unlock") /\ UNCHANGED <<process, locked_tables, in_transaction>>
    BY <1>11, <2>1 DEF get_table_value
  <2> QED
    BY <1>6, <2>1, <2>2, Quiet DEF process
<1>12. CASE get_missing(c) \/ get_catch(c)
  BY <1>m, <1>12 DEF get_missing, get_catch, At, KeyInv
<1> QED
  BY <1>1, <1>3, <1>4, <1>7, <1>8, <1>9, <1>10, <1>11, <1>12

\* The steps of CREATE: the server's mutex has one owner, and a new table is
\* one that nobody has used yet.
LEMMA CreateStepExcludes ==
  ASSUME ExclusionInv, NEW c \in Conns,
         \/ create_lock(c) \/ create_find(c) \/ create_exists(c)
         \/ create_insert(c) \/ create_assign(c) \/ create_unlock(c)
  PROVE  SharedStep(c) /\ OwnStep(c)
<1> DEFINE t == req[c].table
<1>t. TypeOK /\ LocalsInv(c)
  BY DEF ExclusionInv, TypeInv
<1>p. /\ pc \in [Conns -> Labels] /\ slot \in [TableNames -> {"absent", "null", "table"}]
      /\ locked_tables \in [Conns -> SUBSET TableNames]
      /\ mutex \in [TableNames -> BOOLEAN]
      /\ kvp \in [TableNames -> Pairs] /\ proposed \in [TableNames -> Pairs]
  BY <1>t DEF TypeOK
<1>m. Mine(c) /\ LockInv(c) /\ KeyInv(c) /\ ExistInv(c)
  BY DEF ExclusionInv, Mine
<1>r. ASSUME pc[c] \in CreateLabels
      PROVE  t \in TableNames
  BY <1>t, <1>r DEF LocalsInv, CreateRequest
\* CREATE goes on with the server's mutex locked; its own tables stay as they are.
<1>1. ASSUME pc[c] \in {"create_lock"} \cup OwnerLabels, pc'[c] \in OwnerLabels,
             pc[c] \in OwnerLabels \/ ~server_mutex, server_mutex',
             pc'[c] \in {"create_insert", "create_assign"} => slot'[t] # "table",
             \A u \in locked_tables[c] : mutex'[u] = mutex[u] /\ slot'[u] = slot[u],
             UNCHANGED <<locked_tables, in_transaction, req>>
      PROVE  OwnStep(c)
  <2>1. \A u \in TableNames : Holds(c, u)' => u \in locked_tables[c] /\ Holds(c, u)
    BY <1>1 DEF Holds, OwnerLabels
  <2>2. LockInv(c)'
    BY <1>m, <1>1, <2>1 DEF LockInv, LoopLabels, OwnerLabels
  <2>3. KeyInv(c)'
    BY <1>1 DEF KeyInv, OwnerLabels
  <2>4. ExistInv(c)'
    BY <1>m, <1>1 DEF ExistInv, TableLabels, OwnerLabels
  <2> QED
    BY <1>1, <2>1, <2>2, <2>3, <2>4 DEF OwnStep, Mine
<1>2. CASE create_lock(c)
  <2>1. /\ pc[c] = "create_lock" /\ pc'[c] = "create_find" /\ ~server_mutex /\ server_mutex'
        /\ UNCHANGED <<slot, mutex, kvp, proposed, locked_tables, in_transaction, req>>
    BY <1>p, <1>2 DEF create_lock, At, goto, session, locals
  <2>2. SharedStep(c)
    BY <2>1 DEF SharedStep
  <2> QED
    BY <1>1, <2>1, <2>2 DEF OwnerLabels
<1>3. CASE create_find(c)
  <2>1. /\ pc[c] = "create_find" /\ pc'[c] \in {"create_exists", "create_insert"}
        /\ pc'[c] = "create_insert" => slot[t] # "table"
        /\ UNCHANGED <<process, locked_tables, in_transaction, req>>
    BY <1>p, <1>3 DEF create_find, At, goto, session, locals
  <2>2. server_mutex
    BY <1>m, <2>1 DEF ExistInv, OwnerLabels
  <2> QED
    BY <1>1, <2>1, <2>2, Quiet DEF OwnerLabels, process
<1>4. CASE create_exists(c)
  <2>1. /\ pc[c] = "create_exists" /\ manage_exception(c, "FAILED")
        /\ UNCHANGED <<slot, mutex, kvp, proposed, locked_tables, in_transaction>>
    BY <1>4 DEF create_exists, At, session
  <2>2. SharedStep(c)
    BY <2>1 DEF SharedStep, OwnerLabels
  <2> QED
    BY <1>t, <1>m, <2>1, <2>2, ExceptionOwn DEF LoopLabels
<1>5. CASE create_insert(c)
  <2>1. /\ pc[c] = "create_insert" /\ pc'[c] = "create_assign"
        /\ slot' = [slot EXCEPT ![t] = "null"]
        /\ UNCHANGED <<server_mutex, mutex, kvp, proposed, locked_tables, in_transaction, req>>
    BY <1>p, <1>5 DEF create_insert, At, goto, session, locals
  <2>2. t \in TableNames /\ slot[t] # "table" /\ server_mutex
    BY <1>m, <1>r, <2>1 DEF ExistInv, CreateLabels, OwnerLabels
  <2>3. slot'[t] = "null" /\ \A u \in TableNames : slot[u] = "table" => slot'[u] = "table"
    BY <1>p, <2>1, <2>2
  <2>4. SharedStep(c)
    BY <2>1, <2>3 DEF SharedStep
  <2>5. \A u \in locked_tables[c] : slot'[u] = slot[u]
    BY <1>m, <1>p, <2>3 DEF ExistInv
  <2> QED
    BY <1>1, <2>1, <2>2, <2>3, <2>4, <2>5 DEF OwnerLabels
<1>6. CASE create_assign(c)
  <2>1. /\ pc[c] = "create_assign" /\ pc'[c] = "create_unlock"
        /\ slot' = [slot EXCEPT ![t] = "table"]
        /\ mutex' = [mutex EXCEPT ![t] = FALSE]
        /\ kvp' = [kvp EXCEPT ![t] = NoPairs]
        /\ proposed' = [proposed EXCEPT ![t] = NoPairs]
        /\ UNCHANGED <<server_mutex, locked_tables, in_transaction, req>>
    BY <1>p, <1>6 DEF create_assign, At, session, locals
  <2>2. t \in TableNames /\ slot[t] # "table" /\ server_mutex
    BY <1>m, <1>r, <2>1 DEF ExistInv, CreateLabels, OwnerLabels
  <2>3. kvp[t] = NoPairs
    BY <2>2 DEF ExclusionInv, NewTablesEmpty
  <2>4. /\ slot'[t] = "table" /\ kvp' = kvp
        /\ \A u \in TableNames : u # t => slot'[u] = slot[u] /\ mutex'[u] = mutex[u]
                                          /\ proposed'[u] = proposed[u]
    BY <1>p, <2>1, <2>2, <2>3
  <2>5. SharedStep(c)
    BY <2>1, <2>2, <2>4 DEF SharedStep
  <2>6. \A u \in locked_tables[c] : mutex'[u] = mutex[u] /\ slot'[u] = slot[u]
    BY <1>m, <1>p, <2>2, <2>4 DEF ExistInv
  <2> QED
    BY <1>1, <2>1, <2>2, <2>5, <2>6 DEF OwnerLabels
<1>7. CASE create_unlock(c)
  <2>1. /\ pc[c] = "create_unlock" /\ pc'[c] = "read"
        /\ UNCHANGED <<slot, mutex, kvp, proposed, locked_tables, in_transaction>>
    BY <1>p, <1>7 DEF create_unlock, At, session
  <2>2. SharedStep(c)
    BY <2>1 DEF SharedStep, OwnerLabels
  <2> QED
    BY <1>m, <2>1, <2>2, IdleOwn DEF LoopLabels
<1> QED
  BY <1>2, <1>3, <1>4, <1>5, <1>6, <1>7

-----------------------------------------------------------------------------
(* The theorems.                                                             *)

\* No thread runs when the server starts.
LEMMA ExclusionInit == Init => ExclusionInv
<1> SUFFICES ASSUME Init
             PROVE  ExclusionInv
  OBVIOUS
<1>1. TypeInv
  BY TypeInit
<1>2. /\ \A c \in Conns : pc[c] = "closed" /\ locked_tables[c] = {}
      /\ NewTablesEmpty
  BY DEF Init, NewTablesEmpty
<1>3. \A c \in Conns, t \in TableNames : ~Holds(c, t)
  BY <1>2 DEF Holds
<1>4. \A c \in Conns : LockInv(c) /\ KeyInv(c) /\ ExistInv(c)
  BY <1>2, <1>3 DEF LockInv, KeyInv, ExistInv, LoopLabels, TableLabels, OwnerLabels
<1>5. MutualExclusion /\ OneOwner
  BY <1>2, <1>3 DEF MutualExclusion, OneOwner, OwnerLabels
<1> QED
  BY <1>1, <1>2, <1>4, <1>5 DEF ExclusionInv

\* Every step of every thread keeps the invariant; the end of the process,
\* which no thread survives, changes nothing it speaks of.
LEMMA ExclusionStep ==
  ASSUME ExclusionInv, [Next]_vars, ~MissingKeyGets \/ \A c \in Conns : GetsFound(c)
  PROVE  ExclusionInv'
<1>t. TypeOK /\ TypeInv'
  BY TypeStep DEF ExclusionInv, TypeInv
<1>1. ASSUME NEW c \in Conns, ClientStep(c) \/ read_eof(c) \/ ThreadStep(c)
      PROVE  ExclusionInv'
  <2>1. CASE ClientStep(c) \/ read_eof(c)
    BY <2>1, <1>t, ClientStepExcludes, OwnStateOnly, StepKeeps
  <2>2. CASE ThreadStep(c)
    <3>1. SharedStep(c) /\ OwnStep(c)
      BY <2>2, EndStepExcludes, TableStepExcludes, CreateStepExcludes DEF ThreadStep
    <3> QED
      BY <2>2, <3>1, <1>t, OwnStateOnly, StepKeeps
  <2> QED
    BY <1>1, <2>1, <2>2
<1>2. ASSUME UNCHANGED <<process, session, locals, pc, todo>>
      PROVE  ExclusionInv'
  <2>1. \A c \in Conns, t \in TableNames : Holds(c, t)' <=> Holds(c, t)
    BY <1>2 DEF Holds, session, locals
  <2>2. ASSUME NEW c \in Conns
        PROVE  LockInv(c)' /\ KeyInv(c)' /\ ExistInv(c)'
    <3>1. LockInv(c)'
      BY <1>2, <2>1 DEF ExclusionInv, LockInv, process, session, locals
    <3>2. KeyInv(c)'
      BY <1>2 DEF ExclusionInv, KeyInv, KeyPresent, process, session, locals
    <3>3. ExistInv(c)'
      BY <1>2 DEF ExclusionInv, ExistInv, process, session, locals
    <3> QED
      BY <3>1, <3>2, <3>3
  <2>3. MutualExclusion'
    BY <2>1 DEF ExclusionInv, MutualExclusion
  <2>4. OneOwner' /\ NewTablesEmpty'
    BY <1>2 DEF ExclusionInv, OneOwner, NewTablesEmpty, process
  <2> QED
    BY <1>t, <2>2, <2>3, <2>4 DEF ExclusionInv
<1>3. CASE \E c, d \in Conns : data_race(c, d)
  BY <1>2, <1>3 DEF data_race
<1>4. CASE UNCHANGED vars
  BY <1>2, <1>4 DEF vars
<1> QED
  BY <1>1, <1>3, <1>4 DEF Next, Dead

\* The invariant is kept as long as no client asks for a missing key.
LEMMA ExclusionAlways == Spec => [](~MissingKeyGets => ExclusionInv)
<1>1. Init => (~MissingKeyGets => ExclusionInv)
  BY ExclusionInit
<1>2. (~MissingKeyGets => ExclusionInv) /\ [Next]_vars => (~MissingKeyGets => ExclusionInv)'
  BY ExclusionStep
<1> QED
  BY <1>1, <1>2, PTL DEF Spec

\* Two threads never count on the lock of one table at the same time
\* (Table::lock, trylock and unlock as the handlers use them), for every
\* number of connections, tables and keys, as long as every GET is for a key
\* that is there: the error path of get_table_value and handle_get unlocks a
\* table twice, and breaks this.
THEOREM Exclusion == Spec => [](~MissingKeyGets => MutualExclusion)
<1>1. (~MissingKeyGets => ExclusionInv) => (~MissingKeyGets => MutualExclusion)
  BY DEF ExclusionInv
<1> QED
  BY <1>1, ExclusionAlways, PTL

\* A thread whose next step reads or writes a table's maps holds its lock.
LEMMA TouchingHolds ==
  ASSUME NEW c \in Conns, NEW t \in TableNames, LockInv(c), Touches(c, t)
  PROVE  Holds(c, t)
<1>1. CASE pc[c] \in {"set", "autocommit", "has_key", "get"} /\ table_obj[c] = t
  BY <1>1 DEF LockInv, Holds
<1>2. CASE pc[c] \in {"commit", "fail"} /\ t \in todo[c]
  BY <1>2 DEF LockInv, Holds, LoopLabels
<1> QED
  BY <1>1, <1>2 DEF Touches

\* Whoever touches a table holds it, and one thread does.
LEMMA ExclusionPreventsRaces ==
  ASSUME ExclusionInv
  PROVE  NoTableRace
<1>1. SUFFICES ASSUME NEW c \in Conns, NEW d \in Conns, c # d, NEW t \in TableNames,
                      Touches(c, t), Touches(d, t)
               PROVE  FALSE
  BY DEF NoTableRace, TableRace, Modifies
<1>2. Holds(c, t) /\ Holds(d, t)
  BY <1>1, TouchingHolds DEF ExclusionInv
<1> QED
  BY <1>1, <1>2 DEF ExclusionInv, MutualExclusion

\* The maps of a table are never accessed by two threads at once with one of
\* them writing (the contract table.h states for set, get, has_key,
\* commit_changes and rollback_changes), under the same condition.
THEOREM NoRace == Spec => [](~MissingKeyGets => NoTableRace)
<1>1. (~MissingKeyGets => ExclusionInv) => (~MissingKeyGets => NoTableRace)
  BY ExclusionPreventsRaces
<1> QED
  BY <1>1, ExclusionAlways, PTL
=============================================================================
