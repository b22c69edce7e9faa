------------------------- MODULE BasicServerProofs -------------------------
(***************************************************************************)
(* Theorems about BasicServer for every number of connections, tables and  *)
(* keys and every width of int.                                            *)
(***************************************************************************)
EXTENDS BasicServer, SequenceTheorems, TLAPS

-----------------------------------------------------------------------------
(* The inductive invariant.                                                  *)

\* Where a thread works on a SET or GET, with the table found, and on a CREATE.
TableLabels   == {"lock", "trylock", "set", "autocommit", "has_key", "get",
                  "unlock", "missing", "catch"}
RequestLabels == TableLabels \cup {"find"}
OwnerLabels   == {"create_find", "create_exists", "create_insert",
                  "create_assign", "create_unlock"}
CreateLabels  == OwnerLabels \cup {"create_lock"}
LoopLabels    == {"commit", "commit_unlock", "fail", "fail_unlock"}

\* What the local variables of thread c hold at its label.
LocalsInv(c) ==
    /\ pc[c] \in RequestLabels => req[c] \in TableRequest
    /\ pc[c] \in CreateLabels => req[c] \in CreateRequest
    /\ pc[c] \in TableLabels => table_obj[c] = req[c].table
    /\ pc[c] \in {"commit_unlock", "fail_unlock"} => table_obj[c] \in todo[c]
    /\ pc[c] = "set" => req[c].op = "SET"
    /\ pc[c] \in {"find", "lock", "trylock", "set"} /\ req[c].op = "SET"
           => stack[c] # <<>>

TypeInv == TypeOK /\ \A c \in Conns : LocalsInv(c)

-----------------------------------------------------------------------------
(* The operators the actions are built from.                                 *)

\* Wrapped arithmetic stays within int.
LEMMA WrapType == \A n \in Int : Wrap(n) \in Ints
  BY IntMaxAssumption DEF Wrap, Ints, IntMin

\* Division truncated towards zero yields an integer.
LEMMA QuotientType == \A m, n \in Int : n # 0 => Quotient(m, n) \in Int
  BY DEF Quotient, Abs

\* Popping a non-empty stack leaves a stack that is one shorter.
LEMMA PopType ==
  ASSUME NEW st \in Seq(Value), st # <<>>
  PROVE  pop(st) \in Seq(Value) /\ Len(pop(st)) = Len(st) - 1
<1>1. Len(st) \in Nat /\ \A i \in 1..Len(st) : st[i] \in Value
  BY ElementOfSeq, LenProperties
<1>2. Len(st) # 0
  BY EmptySeq
<1>3. \A i \in 1..(Len(st) - 1) : st[i] \in Value
  BY <1>1
<1>4. Len(st) - 1 \in Int /\ 1 \in Int
  BY <1>1
<1>5. /\ SubSeq(st, 1, Len(st) - 1) \in Seq(Value)
      /\ Len(SubSeq(st, 1, Len(st) - 1))
            = IF 1 <= Len(st) - 1 THEN Len(st) - 1 - 1 + 1 ELSE 0
  BY <1>3, <1>4, SubSeqProperties
<1>6. /\ pop(st) \in Seq(Value)
      /\ Len(pop(st)) = IF 1 <= Len(st) - 1 THEN Len(st) - 1 - 1 + 1 ELSE 0
  BY <1>5, Zenon DEF pop
<1>7. Len(pop(st)) = Len(st) - 1
  <2> DEFINE m == Len(st)
             n == Len(pop(st))
  <2>1. m \in Nat /\ m # 0 /\ n = IF 1 <= m - 1 THEN m - 1 - 1 + 1 ELSE 0
    BY <1>1, <1>2, <1>6, Zenon
  <2> HIDE DEF m, n
  <2>2. n = m - 1
    BY <2>1
  <2> QED
    BY <2>2, Zenon DEF m, n
<1> QED
  BY <1>6, <1>7, Zenon

\* The top of a non-empty stack is a value.
LEMMA TopType ==
  ASSUME NEW st \in Seq(Value), st # <<>>
  PROVE  get_top(st) \in Value
  BY ElementOfSeq, EmptySeq DEF get_top

\* Pushing a value leaves a non-empty stack of values.
LEMMA PushType ==
  ASSUME NEW st \in Seq(Value), NEW v \in Value
  PROVE  push(st, v) \in Seq(Value) /\ push(st, v) # <<>>
  BY AppendProperties DEF push

\* The text an arithmetic handler pushes is a value (handle_add ... handle_div).
LEMMA ResultType ==
  ASSUME NEW op \in ArithOps, NEW m \in Ints, NEW n \in Ints, ~Traps(op, m, n)
  PROVE  to_string(Result(op, m, n)) \in Value
<1>1. m \in Int /\ n \in Int
  BY IntMaxAssumption DEF Ints, IntMin
<1>2. CASE op = "DIV"
  <2>1. Quotient(m, n) \in Int
    BY <1>1, <1>2, QuotientType DEF Traps
  <2>2. Result(op, m, n) = Wrap(Quotient(m, n))
    BY <1>2 DEF Result
  <2> QED
    BY <2>1, <2>2, WrapType DEF to_string, Value
<1>3. CASE op # "DIV"
  <2>1. \E k \in Int : Result(op, m, n) = Wrap(k)
    BY <1>1, <1>3 DEF ArithOps, Result
  <2> QED
    BY <2>1, WrapType DEF to_string, Value
<1> QED
  BY <1>2, <1>3

\* The stack an arithmetic handler leaves is a stack of values.
LEMMA ArithStackType ==
  ASSUME NEW st \in Seq(Value), NEW op \in ArithOps
  PROVE  /\ ArithOutcome(op, st) = "OK" => StackAfterArith(op, st) \in Seq(Value)
         /\ ArithOutcome(op, st) = "FAILED" => StackAfterThrow(st) \in Seq(Value)
<1>1. ASSUME Len(st) >= 2
      PROVE  /\ get_top(st) \in Value
             /\ pop(st) \in Seq(Value)
             /\ get_top(pop(st)) \in Value
             /\ pop(pop(st)) \in Seq(Value)
  <2>1. st # <<>> /\ Len(st) \in Nat
    BY <1>1, EmptySeq, LenProperties
  <2>2. pop(st) \in Seq(Value) /\ Len(pop(st)) = Len(st) - 1
    BY <2>1, PopType
  <2>3. pop(st) # <<>>
    BY <1>1, <2>1, <2>2, EmptySeq
  <2> QED
    BY <2>1, <2>2, <2>3, PopType, TopType
<1>2. ASSUME ArithOutcome(op, st) = "OK"
      PROVE  StackAfterArith(op, st) \in Seq(Value)
  <2>1. /\ ~(Len(st) < 2)
        /\ ~Traps(op, get_top(pop(st)).num, get_top(st).num)
    BY <1>2 DEF ArithOutcome, get_size, Thrown, stoi
  <2>2. Len(st) >= 2
    BY <2>1, LenProperties
  <2>3. get_top(pop(st)).num \in Ints /\ get_top(st).num \in Ints
    BY <1>1, <2>2 DEF Value
  <2>4. to_string(Result(op, get_top(pop(st)).num, get_top(st).num)) \in Value
    BY <2>1, <2>3, ResultType
  <2> QED
    BY <1>1, <2>2, <2>4, PushType DEF StackAfterArith
<1>3. StackAfterThrow(st) \in Seq(Value)
  <2>1. CASE get_size(st) < 2 \/ stoi(get_top(st)) # "ok"
    BY <2>1 DEF StackAfterThrow
  <2>2. CASE ~(get_size(st) < 2 \/ stoi(get_top(st)) # "ok")
    <3>1. Len(st) >= 2
      BY <2>2, LenProperties DEF get_size
    <3>2. to_string(get_top(st).num) \in Value
      BY <1>1, <3>1 DEF to_string, Value
    <3> QED
      BY <1>1, <2>2, <3>1, <3>2, PushType DEF StackAfterThrow
  <2> QED
    BY <2>1, <2>2
<1> QED
  BY <1>2, <1>3

-----------------------------------------------------------------------------
(* Type correctness.                                                         *)

ProcessTypes ==
    /\ slot \in [TableNames -> {"absent", "null", "table"}]
    /\ server_mutex \in BOOLEAN
    /\ mutex \in [TableNames -> BOOLEAN]
    /\ kvp \in [TableNames -> Pairs]
    /\ proposed \in [TableNames -> Pairs]

SessionTypes ==
    /\ first_valid_message \in [Conns -> BOOLEAN]
    /\ in_transaction \in [Conns -> BOOLEAN]
    /\ locked_tables \in [Conns -> SUBSET TableNames]
    /\ stack \in [Conns -> Seq(Value)]

LocalTypes ==
    /\ req \in [Conns -> TableRequest \cup CreateRequest \cup {None}]
    /\ table_obj \in [Conns -> TableNames \cup {None}]

ControlTypes ==
    /\ status \in {"running", "abort", "sigfpe", "sigpipe", "undefined"}
    /\ pc \in [Conns -> Labels]
    /\ todo \in [Conns -> SUBSET TableNames]
    /\ answer \in [Conns -> {"none", "FAILED", "ERROR"}]
    /\ reply \in [Conns -> Reply \cup {None}]

\* TypeOK in parts that the actions change or leave alone together.
LEMMA TypeParts ==
  TypeOK <=> /\ ProcessTypes /\ SessionTypes /\ LocalTypes /\ ControlTypes
             /\ gone \in [Conns -> BOOLEAN]
  BY DEF TypeOK, ProcessTypes, SessionTypes, LocalTypes, ControlTypes

\* An action that leaves the shared state alone keeps its types.
LEMMA ProcessKept == ProcessTypes /\ UNCHANGED process => ProcessTypes'
  BY DEF ProcessTypes, process

\* An action that leaves the connections alone keeps their types.
LEMMA SessionKept == SessionTypes /\ UNCHANGED session => SessionTypes'
  BY DEF SessionTypes, session

\* An action that leaves the handlers' locals alone keeps their types.
LEMMA LocalsKept == LocalTypes /\ UNCHANGED locals => LocalTypes'
  BY DEF LocalTypes, locals

\* The responses without a value are replies (write_ok, manage_exception).
LEMMA MsgType == \A type \in {"OK", "FAILED", "ERROR"} : msg(type) \in Reply
  BY DEF msg, Reply

\* Each way to go on keeps the types of the control state.
LEMMA GotoType ==
  ASSUME ControlTypes, NEW c \in Conns, NEW label \in Labels, goto(c, label)
  PROVE  ControlTypes'
  BY DEF ControlTypes, goto

\* The same for the first step of a handler with several.
LEMMA StartType ==
  ASSUME ControlTypes, NEW c \in Conns, NEW label \in Labels, start(c, label)
  PROVE  ControlTypes'
  BY DEF ControlTypes, start

\* The same for a step that answers the client.
LEMMA RespondType ==
  ASSUME ControlTypes, LocalTypes, NEW c \in Conns, NEW m \in Reply, respond(c, m)
  PROVE  ControlTypes' /\ LocalTypes'
  BY DEF ControlTypes, LocalTypes, respond, write, DropLocals, Labels

\* The same for entering fail_transaction.
LEMMA FailType ==
  ASSUME ControlTypes, LocalTypes, SessionTypes, NEW c \in Conns,
         NEW ans \in {"none", "FAILED", "ERROR"}, fail_transaction(c, ans)
  PROVE  ControlTypes' /\ LocalTypes'
  BY DEF ControlTypes, LocalTypes, SessionTypes, fail_transaction, Labels

\* The same for manage_exception, inside a transaction and outside.
LEMMA ExceptionType ==
  ASSUME ControlTypes, LocalTypes, SessionTypes, NEW c \in Conns,
         NEW type \in {"FAILED", "ERROR"}, manage_exception(c, type)
  PROVE  ControlTypes' /\ LocalTypes'
<1>1. CASE in_transaction[c]
  BY <1>1, FailType DEF manage_exception
<1>2. CASE ~in_transaction[c]
  BY <1>2, RespondType, MsgType DEF manage_exception
<1> QED
  BY <1>1, <1>2

\* The same for write_ok.
LEMMA WriteOkType ==
  ASSUME ControlTypes, LocalTypes, NEW c \in Conns, write_ok(c)
  PROVE  ControlTypes' /\ LocalTypes'
  BY RespondType, MsgType DEF write_ok

\* Deleting a connection leaves its slot as a new one finds it.
LEMMA DeleteType ==
  ASSUME TypeOK, NEW c \in Conns, Delete(c)
  PROVE  /\ ControlTypes' /\ LocalTypes' /\ SessionTypes'
         /\ gone' \in [Conns -> BOOLEAN]
<1>1. SessionTypes'
  BY EmptySeq DEF TypeOK, SessionTypes, Delete
<1>2. ControlTypes'
  BY DEF TypeOK, ControlTypes, Delete, DropLocals, Labels
<1> QED
  BY <1>1, <1>2 DEF TypeOK, LocalTypes, Delete, DropLocals

\* The invariant holds when the server starts.
LEMMA TypeInit == Init => TypeInv
<1> SUFFICES ASSUME Init
             PROVE  TypeInv
  OBVIOUS
<1> USE DEF Init
<1>1. TypeOK
  BY ServerAssumption, EmptySeq DEF TypeOK, Pairs, NoPairs, Labels
<1>2. \A c \in Conns : LocalsInv(c)
  BY DEF LocalsInv, RequestLabels, TableLabels, CreateLabels, OwnerLabels
<1> QED
  BY <1>1, <1>2 DEF TypeInv

-----------------------------------------------------------------------------
(* A thread changes the state of its own connection only.                    *)

Frame(c) ==
    \A d \in Conns : d # c =>
        /\ pc'[d] = pc[d] /\ req'[d] = req[d] /\ table_obj'[d] = table_obj[d]
        /\ todo'[d] = todo[d] /\ stack'[d] = stack[d]
        /\ in_transaction'[d] = in_transaction[d]
        /\ locked_tables'[d] = locked_tables[d]
        /\ answer'[d] = answer[d] /\ gone'[d] = gone[d]

\* No handler changes the state of another thread's connection.
LEMMA OwnStateOnly ==
  ASSUME TypeOK, NEW c \in Conns, ClientStep(c) \/ read_eof(c) \/ ThreadStep(c)
  PROVE  Frame(c)
<1> USE DEF TypeOK, Frame, process, session, locals, goto, start, write, respond,
            write_ok, fail_transaction, manage_exception, Throw, DropLocals, Delete,
            EndTransaction, next_table
<1>1. CASE Accept(c)
  BY <1>1 DEF Accept
<1>2. CASE ClientLeaves(c)
  BY <1>2 DEF ClientLeaves
<1>3. CASE read_invalid(c)
  BY <1>3 DEF read_invalid
<1>4. CASE handle_login(c)
  BY <1>4 DEF handle_login
<1>5. CASE refuse(c)
  BY <1>5 DEF refuse
<1>6. CASE read_eof(c)
  BY <1>6 DEF read_eof
<1>7. CASE close_connection(c)
  BY <1>7 DEF close_connection
<1>8. CASE commit_unlock(c)
  BY <1>8 DEF commit_unlock
<1>9. CASE commit_done(c)
  BY <1>9 DEF commit_done
<1>10. CASE fail_unlock(c)
  BY <1>10 DEF fail_unlock
<1>11. CASE fail_done(c)
  BY <1>11 DEF fail_done
<1>12. CASE find_table(c)
  BY <1>12 DEF find_table
<1>13. CASE lock(c)
  BY <1>13 DEF lock
<1>14. CASE trylock(c)
  BY <1>14 DEF trylock
<1>15. CASE set_table_value(c)
  BY <1>15 DEF set_table_value, FinishIn
<1>16. CASE autocommit(c)
  BY <1>16 DEF autocommit
<1>17. CASE unlock(c)
  BY <1>17 DEF unlock
<1>18. CASE get_has_key(c)
  BY <1>18 DEF get_has_key
<1>19. CASE get_table_value(c)
  BY <1>19 DEF get_table_value, FinishIn
<1>20. CASE get_missing(c)
  BY <1>20 DEF get_missing
<1>21. CASE get_catch(c)
  BY <1>21 DEF get_catch
<1>22. CASE create_lock(c)
  BY <1>22 DEF create_lock
<1>23. CASE create_find(c)
  BY <1>23 DEF create_find
<1>24. CASE create_exists(c)
  BY <1>24 DEF create_exists
<1>25. CASE create_insert(c)
  BY <1>25 DEF create_insert
<1>26. CASE create_assign(c)
  BY <1>26 DEF create_assign
<1>27. CASE create_unlock(c)
  BY <1>27 DEF create_unlock
<1>28. ASSUME NEW r \in Requests, handle_push(c, r)
      PROVE  Frame(c)
  BY <1>28 DEF handle_push
<1>29. ASSUME NEW r \in Requests, handle_pop(c, r)
      PROVE  Frame(c)
  BY <1>29 DEF handle_pop
<1>30. ASSUME NEW r \in Requests, handle_top(c, r)
      PROVE  Frame(c)
  BY <1>30 DEF handle_top
<1>31. ASSUME NEW r \in Requests, handle_arith(c, r)
      PROVE  Frame(c)
  BY <1>31 DEF handle_arith
<1>32. ASSUME NEW r \in Requests, handle_bye(c, r)
      PROVE  Frame(c)
  BY <1>32 DEF handle_bye
<1>33. ASSUME NEW r \in Requests, handle_unsupported(c, r)
      PROVE  Frame(c)
  BY <1>33 DEF handle_unsupported
<1>34. ASSUME NEW r \in Requests, handle_begin(c, r)
      PROVE  Frame(c)
  BY <1>34 DEF handle_begin
<1>35. ASSUME NEW r \in Requests, handle_commit(c, r)
      PROVE  Frame(c)
  BY <1>35 DEF handle_commit
<1>36. ASSUME NEW r \in Requests, handle_set(c, r)
      PROVE  Frame(c)
  BY <1>36 DEF handle_set
<1>37. ASSUME NEW r \in Requests, handle_get(c, r)
      PROVE  Frame(c)
  BY <1>37 DEF handle_get
<1>38. ASSUME NEW r \in Requests, handle_create(c, r)
      PROVE  Frame(c)
  BY <1>38 DEF handle_create
<1>39. ASSUME NEW t \in TableNames, commit_table(c, t)
      PROVE  Frame(c)
  BY <1>39 DEF commit_table
<1>40. ASSUME NEW t \in TableNames, rollback_table(c, t)
      PROVE  Frame(c)
  BY <1>40 DEF rollback_table
<1> QED
  BY <1>1, <1>2, <1>3, <1>4, <1>5, <1>6, <1>7, <1>8, <1>9, <1>10, <1>11, <1>12, <1>13,
     <1>14, <1>15, <1>16, <1>17, <1>18, <1>19, <1>20, <1>21, <1>22, <1>23, <1>24, <1>25,
     <1>26, <1>27, <1>28, <1>29, <1>30, <1>31, <1>32, <1>33, <1>34, <1>35, <1>36, <1>37,
     <1>38, <1>39, <1>40 DEF ClientStep, ThreadStep, Handle

\* TypeParts in the next state.
LEMMA TypePartsNext ==
  /\ ProcessTypes' /\ SessionTypes' /\ LocalTypes' /\ ControlTypes'
  /\ gone' \in [Conns -> BOOLEAN]
  => TypeOK'
  BY DEF TypeOK, ProcessTypes, SessionTypes, LocalTypes, ControlTypes

\* What the locals of the other threads hold is kept by a thread's step.
LEMMA LocalsOfOthers ==
  ASSUME NEW c \in Conns, \A d \in Conns : LocalsInv(d), Frame(c), LocalsInv(c)'
  PROVE  \A d \in Conns : LocalsInv(d)'
  BY DEF Frame, LocalsInv

\* Between requests the local variables do not matter.
LEMMA NoLocals ==
  ASSUME NEW c \in Conns, pc'[c] \in {"closed", "read", "close", "fail", "commit"}
  PROVE  LocalsInv(c)'
  BY DEF LocalsInv, RequestLabels, TableLabels, CreateLabels, OwnerLabels

\* After manage_exception the handler's locals are out of use.
LEMMA ExceptionLocals ==
  ASSUME NEW c \in Conns, pc \in [Conns -> Labels], NEW type, manage_exception(c, type)
  PROVE  LocalsInv(c)'
  BY NoLocals DEF manage_exception, respond, fail_transaction

\* A client's connecting, leaving and sending a line keeps the invariant.
LEMMA ClientStepType ==
  ASSUME TypeInv, NEW c \in Conns, ClientStep(c) \/ read_eof(c)
  PROVE  TypeOK' /\ LocalsInv(c)'
<1> USE DEF TypeInv
<1>0. /\ ProcessTypes /\ SessionTypes /\ LocalTypes /\ ControlTypes
      /\ gone \in [Conns -> BOOLEAN]
  BY TypeParts
<1>p. pc \in [Conns -> Labels]
  BY <1>0 DEF ControlTypes
<1>1. CASE Accept(c)
  <2>1. TypeOK'
    BY <1>0, <1>1, ProcessKept, SessionKept, LocalsKept, TypePartsNext, GotoType DEF Accept, Labels
  <2>2. LocalsInv(c)'
    BY <1>p, <1>1, NoLocals DEF Accept, goto
  <2> QED
    BY <2>1, <2>2
<1>2. CASE read_eof(c)
  <2>1. TypeOK'
    BY <1>0, <1>2, ProcessKept, SessionKept, LocalsKept, TypePartsNext, GotoType DEF read_eof, Labels
  <2>2. LocalsInv(c)'
    BY <1>p, <1>2, NoLocals DEF read_eof, goto
  <2> QED
    BY <2>1, <2>2
<1>3. CASE ClientLeaves(c)
  <2>1. ControlTypes' /\ gone' \in [Conns -> BOOLEAN]
    BY <1>0, <1>3 DEF ClientLeaves, ControlTypes
  <2>2. TypeOK'
    BY <1>0, <1>3, <2>1, ProcessKept, SessionKept, LocalsKept, TypePartsNext DEF ClientLeaves
  <2>3. LocalsInv(c)'
    BY <1>3 DEF ClientLeaves, LocalsInv, session, locals
  <2> QED
    BY <2>2, <2>3
<1>4. CASE read_invalid(c)
  <2>1. TypeOK'
    BY <1>0, <1>4, ProcessKept, SessionKept, LocalsKept, TypePartsNext, ExceptionType DEF read_invalid
  <2>2. LocalsInv(c)'
    BY <1>p, <1>4, ExceptionLocals DEF read_invalid
  <2> QED
    BY <2>1, <2>2
<1>5. CASE handle_login(c)
  <2>1. SessionTypes'
    BY <1>0, <1>5 DEF handle_login, SessionTypes
  <2>2. TypeOK'
    BY <1>0, <1>5, <2>1, ProcessKept, WriteOkType, TypePartsNext DEF handle_login
  <2>3. LocalsInv(c)'
    BY <1>p, <1>5, NoLocals DEF handle_login, write_ok, respond
  <2> QED
    BY <2>2, <2>3
<1>6. ASSUME NEW type \in {"OK", "ERROR"}, write(c, msg(type)),
             pc' = [pc EXCEPT ![c] = "close"],
             UNCHANGED <<process, session, locals, todo, answer, gone>>
      PROVE  TypeOK' /\ LocalsInv(c)'
  <2>1. msg(type) \in Reply
    BY MsgType
  <2>2. ControlTypes'
    BY <1>0, <1>6, <2>1 DEF ControlTypes, write, Labels
  <2>3. TypeOK'
    BY <1>0, <1>6, <2>2, ProcessKept, SessionKept, LocalsKept, TypePartsNext
  <2>4. LocalsInv(c)'
    BY <1>p, <1>6, NoLocals
  <2> QED
    BY <2>3, <2>4
<1>7. CASE refuse(c)
  BY <1>6, <1>7 DEF refuse
<1>8. ASSUME NEW r \in Requests, handle_bye(c, r)
      PROVE  TypeOK' /\ LocalsInv(c)'
  BY <1>6, <1>8 DEF handle_bye
<1>9. ASSUME Throw(c)
      PROVE  TypeOK' /\ LocalsInv(c)'
  BY <1>0, <1>p, <1>9, ProcessKept, SessionKept, LocalsKept, TypePartsNext, ExceptionType, ExceptionLocals DEF Throw
<1>10. ASSUME stack' \in [Conns -> Seq(Value)], write_ok(c),
              UNCHANGED <<process, first_valid_message, in_transaction, locked_tables, gone>>
       PROVE  TypeOK' /\ LocalsInv(c)'
  <2>1. SessionTypes'
    BY <1>0, <1>10 DEF SessionTypes
  <2>2. TypeOK'
    BY <1>0, <1>10, <2>1, ProcessKept, WriteOkType, TypePartsNext
  <2>3. LocalsInv(c)'
    BY <1>p, <1>10, NoLocals DEF write_ok, respond
  <2> QED
    BY <2>2, <2>3
<1>11. stack[c] \in Seq(Value) /\ stack \in [Conns -> Seq(Value)]
  BY <1>0 DEF SessionTypes
<1>12. ASSUME NEW r \in Requests, handle_push(c, r)
       PROVE  TypeOK' /\ LocalsInv(c)'
  <2>1. r.value \in Value
    BY <1>12, ServerAssumption DEF handle_push, Request, TableRequest, CreateRequest,
       PushRequest, PlainRequest, ArithOps
  <2>2. stack' \in [Conns -> Seq(Value)]
    BY <1>11, <1>12, <2>1, PushType DEF handle_push
  <2> QED
    BY <1>10, <1>12, <2>2 DEF handle_push
<1>13. ASSUME NEW r \in Requests, handle_pop(c, r)
       PROVE  TypeOK' /\ LocalsInv(c)'
  <2>1. CASE get_size(stack[c]) = 0
    BY <1>9, <1>13, <2>1 DEF handle_pop
  <2>2. CASE get_size(stack[c]) # 0
    <3>1. stack[c] # <<>>
      BY <2>2, EmptySeq DEF get_size
    <3>2. pop(stack[c]) \in Seq(Value)
      BY <1>11, <3>1, PopType
    <3>3. stack' = [stack EXCEPT ![c] = pop(stack[c])] /\ write_ok(c)
          /\ UNCHANGED <<process, first_valid_message, in_transaction, locked_tables, gone>>
      BY <1>13, <2>2 DEF handle_pop
    <3> QED
      BY <1>10, <1>11, <3>2, <3>3
  <2> QED
    BY <2>1, <2>2
<1>14. ASSUME NEW r \in Requests, handle_top(c, r)
       PROVE  TypeOK' /\ LocalsInv(c)'
  <2>1. CASE get_size(stack[c]) = 0
    BY <1>9, <1>14, <2>1 DEF handle_top
  <2>2. CASE get_size(stack[c]) # 0
    <3>1. stack[c] # <<>>
      BY <2>2, EmptySeq DEF get_size
    <3>2. [type |-> "DATA", value |-> get_top(stack[c])] \in Reply
      BY <1>11, <3>1, TopType DEF Reply
    <3>3. /\ respond(c, [type |-> "DATA", value |-> get_top(stack[c])])
          /\ UNCHANGED <<process, session, gone>>
      BY <1>14, <2>2 DEF handle_top
    <3>4. TypeOK'
      BY <1>0, <3>2, <3>3, RespondType, ProcessKept, SessionKept, TypePartsNext
    <3>5. LocalsInv(c)'
      BY <1>p, <3>3, NoLocals DEF respond
    <3> QED
      BY <3>4, <3>5
  <2> QED
    BY <2>1, <2>2
<1>15. ASSUME NEW r \in Requests, handle_arith(c, r)
       PROVE  TypeOK' /\ LocalsInv(c)'
  <2>0. /\ r.op \in ArithOps
        /\ UNCHANGED <<process, first_valid_message, in_transaction, locked_tables, gone>>
    BY <1>15 DEF handle_arith
  <2>1. CASE ArithOutcome(r.op, stack[c]) = "OK"
    <3>1. /\ stack' = [stack EXCEPT ![c] = StackAfterArith(r.op, stack[c])]
          /\ write_ok(c)
      BY <1>15, <2>1 DEF handle_arith
    <3>2. StackAfterArith(r.op, stack[c]) \in Seq(Value)
      BY <1>11, <2>0, <2>1, ArithStackType
    <3>3. stack' \in [Conns -> Seq(Value)]
      BY <1>11, <3>1, <3>2
    <3> QED
      BY <1>10, <2>0, <3>1, <3>3
  <2>2. CASE ArithOutcome(r.op, stack[c]) = "FAILED"
    <3>1. /\ stack' = [stack EXCEPT ![c] = StackAfterThrow(stack[c])]
          /\ manage_exception(c, "FAILED")
      BY <1>15, <2>2 DEF handle_arith
    <3>2. StackAfterThrow(stack[c]) \in Seq(Value)
      BY <1>11, <2>0, <2>2, ArithStackType
    <3>3. SessionTypes'
      BY <1>0, <2>0, <3>1, <3>2 DEF SessionTypes
    <3>4. TypeOK'
      BY <1>0, <2>0, <3>1, <3>3, ExceptionType, ProcessKept, TypePartsNext
    <3>5. LocalsInv(c)'
      BY <1>p, <3>1, ExceptionLocals
    <3> QED
      BY <3>4, <3>5
  <2>3. CASE ArithOutcome(r.op, stack[c]) \notin {"OK", "FAILED"}
    <3>1. /\ status' \in {"abort", "sigfpe"}
          /\ UNCHANGED <<stack, locals, pc, todo, answer, reply>>
      BY <1>15, <2>3 DEF handle_arith
    <3>2. ControlTypes' /\ SessionTypes'
      BY <1>0, <2>0, <3>1 DEF ControlTypes, SessionTypes
    <3>3. TypeOK'
      BY <1>0, <2>0, <3>1, <3>2, ProcessKept, LocalsKept, TypePartsNext
    <3>4. LocalsInv(c)'
      BY <3>1 DEF LocalsInv, locals
    <3> QED
      BY <3>3, <3>4
  <2> QED
    BY <2>1, <2>2, <2>3
<1>16. ASSUME NEW r \in Requests, handle_unsupported(c, r)
       PROVE  TypeOK' /\ LocalsInv(c)'
  BY <1>9, <1>16 DEF handle_unsupported
<1>17. ASSUME NEW r \in Requests, handle_begin(c, r)
       PROVE  TypeOK' /\ LocalsInv(c)'
  <2>1. CASE in_transaction[c]
    BY <1>9, <1>17, <2>1 DEF handle_begin
  <2>2. CASE ~in_transaction[c]
    <3>1. /\ in_transaction' = [in_transaction EXCEPT ![c] = TRUE]
          /\ write_ok(c)
          /\ UNCHANGED <<process, first_valid_message, locked_tables, stack, gone>>
      BY <1>17, <2>2 DEF handle_begin
    <3>2. SessionTypes'
      BY <1>0, <3>1 DEF SessionTypes
    <3>3. TypeOK'
      BY <1>0, <3>1, <3>2, WriteOkType, ProcessKept, TypePartsNext
    <3>4. LocalsInv(c)'
      BY <1>p, <3>1, NoLocals DEF write_ok, respond
    <3> QED
      BY <3>3, <3>4
  <2> QED
    BY <2>1, <2>2
<1>18. ASSUME NEW r \in Requests, handle_commit(c, r)
       PROVE  TypeOK' /\ LocalsInv(c)'
  <2>1. CASE ~in_transaction[c]
    BY <1>9, <1>18, <2>1 DEF handle_commit
  <2>2. CASE in_transaction[c]
    <3>1. /\ pc' = [pc EXCEPT ![c] = "commit"]
          /\ reply' = [reply EXCEPT ![c] = None]
          /\ todo' = [todo EXCEPT ![c] = locked_tables[c]]
          /\ UNCHANGED <<status, answer, process, session, locals, gone>>
      BY <1>18, <2>2 DEF handle_commit
    <3>2. ControlTypes'
      BY <1>0, <3>1 DEF ControlTypes, SessionTypes, Labels
    <3>3. TypeOK'
      BY <1>0, <3>1, <3>2, ProcessKept, SessionKept, LocalsKept, TypePartsNext
    <3>4. LocalsInv(c)'
      BY <1>p, <3>1, NoLocals
    <3> QED
      BY <3>3, <3>4
  <2> QED
    BY <2>1, <2>2
\* SET, GET and CREATE keep the request and go on in several steps.
<1>19. ASSUME NEW r \in TableRequest \cup CreateRequest, NEW label \in {"find", "create_lock"},
              req' = [req EXCEPT ![c] = r], start(c, label),
              UNCHANGED <<process, session, table_obj, gone>>
       PROVE  TypeOK'
  <2>1. LocalTypes'
    BY <1>0, <1>19 DEF LocalTypes
  <2>2. label \in Labels
    BY DEF Labels
  <2> QED
    BY <1>0, <1>19, <2>1, <2>2, StartType, ProcessKept, SessionKept, TypePartsNext
<1>20. ASSUME NEW r \in Requests, handle_set(c, r)
       PROVE  TypeOK' /\ LocalsInv(c)'
  <2>0. r \in TableRequest
    BY <1>20, ServerAssumption DEF handle_set, Request, TableRequest, CreateRequest,
       PushRequest, PlainRequest, ArithOps
  <2>1. CASE get_size(stack[c]) = 0
    BY <1>9, <1>20, <2>1 DEF handle_set
  <2>2. CASE get_size(stack[c]) # 0
    <3>1. /\ req' = [req EXCEPT ![c] = r]
          /\ start(c, "find")
          /\ UNCHANGED <<process, session, table_obj, gone>>
      BY <1>20, <2>2 DEF handle_set
    <3>2. stack[c] # <<>>
      BY <2>2, EmptySeq DEF get_size
    <3>3. pc'[c] = "find" /\ req'[c] = r /\ stack'[c] = stack[c]
      BY <1>0, <1>p, <3>1 DEF start, LocalTypes, session
    <3>4. LocalsInv(c)'
      BY <2>0, <3>2, <3>3 DEF LocalsInv, RequestLabels, TableLabels, CreateLabels, OwnerLabels
    <3> QED
      BY <1>19, <2>0, <3>1, <3>4
  <2> QED
    BY <2>1, <2>2
<1>21. ASSUME NEW r \in Requests, handle_get(c, r)
       PROVE  TypeOK' /\ LocalsInv(c)'
  <2>1. r \in TableRequest
    BY <1>21, ServerAssumption DEF handle_get, Request, TableRequest, CreateRequest,
       PushRequest, PlainRequest, ArithOps
  <2>2. /\ r.op = "GET"
        /\ req' = [req EXCEPT ![c] = r]
        /\ start(c, "find")
        /\ UNCHANGED <<process, session, table_obj, gone>>
    BY <1>21 DEF handle_get
  <2>3. pc'[c] = "find" /\ req'[c] = r
    BY <1>0, <1>p, <2>2 DEF start, LocalTypes
  <2>4. LocalsInv(c)'
    BY <2>1, <2>2, <2>3 DEF LocalsInv, RequestLabels, TableLabels, CreateLabels, OwnerLabels
  <2> QED
    BY <1>19, <2>1, <2>2, <2>4
<1>22. ASSUME NEW r \in Requests, handle_create(c, r)
       PROVE  TypeOK' /\ LocalsInv(c)'
  <2>1. r \in CreateRequest
    BY <1>22, ServerAssumption DEF handle_create, Request, TableRequest, CreateRequest,
       PushRequest, PlainRequest, ArithOps
  <2>2. /\ req' = [req EXCEPT ![c] = r]
        /\ start(c, "create_lock")
        /\ UNCHANGED <<process, session, table_obj, gone>>
    BY <1>22 DEF handle_create
  <2>3. pc'[c] = "create_lock" /\ req'[c] = r
    BY <1>0, <1>p, <2>2 DEF start, LocalTypes
  <2>4. LocalsInv(c)'
    BY <2>1, <2>3 DEF LocalsInv, RequestLabels, TableLabels, CreateLabels, OwnerLabels
  <2> QED
    BY <1>19, <2>1, <2>2, <2>4
<1> QED
  BY <1>1, <1>2, <1>3, <1>4, <1>5, <1>7, <1>8, <1>12, <1>13, <1>14, <1>15, <1>16,
     <1>17, <1>18, <1>20, <1>21, <1>22 DEF ClientStep, Handle

\* The maps of a table stay maps from keys to values.
LEMMA SetType ==
  ASSUME NEW p \in Pairs, NEW k \in Keys, NEW v \in Value
  PROVE  set(p, k, v) \in Pairs
  BY DEF set, Pairs

\* commit_changes and rollback_changes leave maps of pairs.
LEMMA CommitType ==
  ASSUME NEW p \in Pairs, NEW q \in Pairs
  PROVE  commit_changes(p, q) \in Pairs
  BY DEF commit_changes, Pairs

\* A new table's maps are maps of pairs.
LEMMA NoPairsType == NoPairs \in Pairs
  BY DEF NoPairs, Pairs

\* Table::get returns a value or throws.
LEMMA GetType ==
  ASSUME NEW p \in Pairs, NEW q \in Pairs, NEW k \in Keys
  PROVE  get(p, q, k) \in Value \cup {None}
  BY DEF get, Pairs

\* A step that locks or unlocks a table or the server.
LEMMA MutexType ==
  ASSUME ProcessTypes, NEW t \in TableNames, NEW b \in BOOLEAN,
         mutex' = [mutex EXCEPT ![t] = b], UNCHANGED <<slot, server_mutex, kvp, proposed>>
  PROVE  ProcessTypes'
  BY DEF ProcessTypes

\* The types of the shared state when only the server's mutex changes.
LEMMA ServerMutexType ==
  ASSUME ProcessTypes, server_mutex' \in BOOLEAN, UNCHANGED <<slot, mutex, kvp, proposed>>
  PROVE  ProcessTypes'
  BY DEF ProcessTypes

\* The thread goes from one label of a SET or GET to the next.
LEMMA MoveLocals ==
  ASSUME NEW c \in Conns, LocalsInv(c), ControlTypes, NEW label \in Labels, goto(c, label),
         UNCHANGED <<req, table_obj>>,
         \/ label \in {"autocommit", "get", "unlock", "missing", "catch"}
            /\ pc[c] \in TableLabels
         \/ label \in CreateLabels /\ pc[c] \in CreateLabels
  PROVE  LocalsInv(c)'
  BY DEF ControlTypes, goto, LocalsInv, RequestLabels, TableLabels, CreateLabels, OwnerLabels

\* Every step of a thread that handles a request keeps the invariant.
LEMMA ThreadStepType ==
  ASSUME TypeInv, NEW c \in Conns, ThreadStep(c)
  PROVE  TypeOK' /\ LocalsInv(c)'
<1> USE DEF TypeInv
<1>0. /\ ProcessTypes /\ SessionTypes /\ LocalTypes /\ ControlTypes
      /\ gone \in [Conns -> BOOLEAN]
  BY TypeParts
<1>p. pc \in [Conns -> Labels] /\ pc[c] \in Labels
  BY <1>0 DEF ControlTypes
<1>l. LocalsInv(c)
  OBVIOUS
<1>s. stack[c] \in Seq(Value) /\ stack \in [Conns -> Seq(Value)]
  BY <1>0 DEF SessionTypes
\* The table and the key of the request.
<1>t. ASSUME pc[c] \in RequestLabels
      PROVE  req[c] \in TableRequest /\ req[c].table \in TableNames /\ req[c].key \in Keys
  BY <1>l, <1>t DEF LocalsInv, TableRequest
<1>o. ASSUME pc[c] \in TableLabels
      PROVE  table_obj[c] = req[c].table /\ table_obj[c] \in TableNames
  BY <1>l, <1>o, <1>t DEF LocalsInv, RequestLabels
<1>e. ASSUME Throw(c)
      PROVE  TypeOK' /\ LocalsInv(c)'
  BY <1>0, <1>p, <1>e, ProcessKept, SessionKept, TypePartsNext, ExceptionType,
     ExceptionLocals DEF Throw
<1>1. CASE close_connection(c)
  <2>1. CASE in_transaction[c]
    <3>1. fail_transaction(c, "none") /\ UNCHANGED <<process, session, gone>>
      BY <1>1, <2>1 DEF close_connection
    <3>2. TypeOK'
      BY <1>0, <3>1, FailType, ProcessKept, SessionKept, TypePartsNext
    <3>3. LocalsInv(c)'
      BY <1>p, <3>1, NoLocals DEF fail_transaction
    <3> QED
      BY <3>2, <3>3
  <2>2. CASE ~in_transaction[c]
    <3>1. Delete(c) /\ UNCHANGED process
      BY <1>1, <2>2 DEF close_connection
    <3>2. TypeOK'
      BY <1>0, <3>1, DeleteType, ProcessKept, TypePartsNext
    <3>3. LocalsInv(c)'
      BY <1>p, <3>1, NoLocals DEF Delete
    <3> QED
      BY <3>2, <3>3
  <2> QED
    BY <2>1, <2>2
\* The iterations: one step with the table, one that unlocks it.
<1>2. ASSUME NEW t \in TableNames, NEW label \in {"commit_unlock", "fail_unlock"}, t \in todo[c],
             table_obj' = [table_obj EXCEPT ![c] = t], goto(c, label),
             ProcessTypes', UNCHANGED <<session, req, gone>>
      PROVE  TypeOK' /\ LocalsInv(c)'
  <2>1. label \in Labels
    BY DEF Labels
  <2>2. LocalTypes'
    BY <1>0, <1>2 DEF LocalTypes
  <2>3. TypeOK'
    BY <1>0, <1>2, <2>1, <2>2, GotoType, SessionKept, TypePartsNext
  <2>4. pc'[c] = label /\ table_obj'[c] = t /\ todo'[c] = todo[c]
    BY <1>0, <1>p, <1>2 DEF goto, LocalTypes
  <2>5. LocalsInv(c)'
    BY <1>2, <2>4 DEF LocalsInv, RequestLabels, TableLabels, CreateLabels, OwnerLabels
  <2> QED
    BY <2>3, <2>5
<1>3. ASSUME NEW t \in TableNames, commit_table(c, t)
      PROVE  TypeOK' /\ LocalsInv(c)'
  <2>1. commit_changes(kvp[t], proposed[t]) \in Pairs
    BY <1>0, CommitType DEF ProcessTypes
  <2>2. ProcessTypes'
    BY <1>0, <1>3, <2>1 DEF ProcessTypes, commit_table
  <2> QED
    BY <1>2, <1>3, <2>2 DEF commit_table
<1>4. ASSUME NEW t \in TableNames, rollback_table(c, t)
      PROVE  TypeOK' /\ LocalsInv(c)'
  <2>1. ProcessTypes'
    BY <1>0, <1>4, NoPairsType DEF ProcessTypes, rollback_table, rollback_changes
  <2> QED
    BY <1>2, <1>4, <2>1 DEF rollback_table
<1>5. ASSUME NEW label \in {"commit_unlock", "fail_unlock"},
             NEW loop \in {"commit", "fail"}, next_table(c, label, loop)
      PROVE  TypeOK' /\ LocalsInv(c)'
  <2>1. table_obj[c] \in TableNames
    BY <1>0, <1>l, <1>5 DEF next_table, At, LocalsInv, ControlTypes
  <2>2. ProcessTypes'
    BY <1>0, <1>5, <2>1, MutexType DEF next_table, Unlock
  <2>3. LocalTypes'
    BY <1>0, <1>5 DEF next_table, LocalTypes
  <2>4. ControlTypes'
    BY <1>0, <1>5 DEF next_table, ControlTypes, Labels
  <2>5. TypeOK'
    BY <1>0, <1>5, <2>2, <2>3, <2>4, SessionKept, TypePartsNext DEF next_table
  <2>6. LocalsInv(c)'
    BY <1>p, <1>5, NoLocals DEF next_table
  <2> QED
    BY <2>5, <2>6
<1>6. CASE commit_unlock(c)
  BY <1>5, <1>6 DEF commit_unlock
<1>7. CASE fail_unlock(c)
  BY <1>5, <1>7 DEF fail_unlock
<1>8. ASSUME EndTransaction(c)
      PROVE  SessionTypes' /\ gone' \in [Conns -> BOOLEAN]
  BY <1>0, <1>8 DEF EndTransaction, SessionTypes
<1>9. CASE commit_done(c)
  <2>1. TypeOK'
    BY <1>0, <1>8, <1>9, WriteOkType, ProcessKept, TypePartsNext DEF commit_done
  <2>2. LocalsInv(c)'
    BY <1>p, <1>9, NoLocals DEF commit_done, write_ok, respond
  <2> QED
    BY <2>1, <2>2
<1>10. CASE fail_done(c)
  <2>1. CASE answer[c] # "none"
    <3>1. EndTransaction(c) /\ respond(c, msg(answer[c])) /\ UNCHANGED process
      BY <1>10, <2>1 DEF fail_done
    <3>2. msg(answer[c]) \in Reply
      BY <1>0, <2>1, MsgType DEF ControlTypes
    <3>3. TypeOK'
      BY <1>0, <1>8, <3>1, <3>2, RespondType, ProcessKept, TypePartsNext
    <3>4. LocalsInv(c)'
      BY <1>p, <3>1, NoLocals DEF respond
    <3> QED
      BY <3>3, <3>4
  <2>2. CASE answer[c] = "none"
    <3>1. Delete(c) /\ UNCHANGED process
      BY <1>10, <2>2 DEF fail_done
    <3>2. TypeOK'
      BY <1>0, <3>1, DeleteType, ProcessKept, TypePartsNext
    <3>3. LocalsInv(c)'
      BY <1>p, <3>1, NoLocals DEF Delete
    <3> QED
      BY <3>2, <3>3
  <2> QED
    BY <2>1, <2>2
<1>11. CASE find_table(c)
  <2> DEFINE label == IF ~in_transaction[c] THEN "lock"
                      ELSE IF req[c].table \in locked_tables[c] THEN Body(c)
                      ELSE "trylock"
  <2>0. pc[c] = "find" /\ req[c] \in TableRequest /\ req[c].table \in TableNames
    BY <1>11, <1>t DEF find_table, At, RequestLabels
  <2>1. ASSUME /\ table_obj' = [table_obj EXCEPT ![c] = req[c].table]
               /\ goto(c, label)
               /\ UNCHANGED <<process, session, req, gone>>
        PROVE  TypeOK' /\ LocalsInv(c)'
    <3>1. label \in {"lock", "set", "has_key", "trylock"}
      BY DEF Body
    <3>2. label \in Labels
      BY <3>1 DEF Labels
    <3>3. LocalTypes'
      BY <1>0, <2>0, <2>1 DEF LocalTypes
    <3>4. TypeOK'
      BY <1>0, <2>1, <3>2, <3>3, GotoType, ProcessKept, SessionKept, TypePartsNext
    <3>5. /\ pc'[c] = label /\ table_obj'[c] = req[c].table
          /\ req'[c] = req[c] /\ stack'[c] = stack[c]
      BY <1>0, <1>p, <2>1 DEF goto, LocalTypes, session
    <3>6. label = "set" => req[c].op = "SET"
      BY DEF Body
    <3>7. LocalsInv(c)'
      BY <1>l, <2>0, <3>1, <3>5, <3>6 DEF LocalsInv, RequestLabels, TableLabels, CreateLabels, OwnerLabels
    <3> QED
      BY <3>4, <3>7
  <2> QED
    BY <1>e, <1>11, <2>1 DEF find_table
\* The table is locked and its maps are used.
<1>12. ASSUME pc[c] \in {"lock", "trylock"}, ProcessTypes', SessionTypes', stack' = stack,
              goto(c, Body(c)), UNCHANGED <<locals, gone>>
       PROVE  TypeOK' /\ LocalsInv(c)'
  <2>1. Body(c) \in {"set", "has_key"} /\ Body(c) \in Labels
        /\ (Body(c) = "set" => req[c].op = "SET")
    BY DEF Body, Labels
  <2>2. TypeOK'
    BY <1>0, <1>12, <2>1, GotoType, LocalsKept, TypePartsNext
  <2>3. /\ pc'[c] = Body(c) /\ table_obj'[c] = table_obj[c]
        /\ req'[c] = req[c] /\ stack'[c] = stack[c]
    BY <1>p, <1>12 DEF goto, locals
  <2>4. LocalsInv(c)'
    BY <1>l, <1>12, <2>1, <2>3 DEF LocalsInv, RequestLabels, TableLabels, CreateLabels, OwnerLabels
  <2> QED
    BY <2>2, <2>4
<1>13. CASE lock(c)
  <2>1. pc[c] = "lock" /\ table_obj[c] \in TableNames
    BY <1>13, <1>o DEF lock, At, TableLabels
  <2>2. ProcessTypes' /\ SessionTypes' /\ stack' = stack
    BY <1>0, <1>13, <2>1, MutexType, SessionKept DEF lock, session
  <2> QED
    BY <1>12, <1>13, <2>1, <2>2 DEF lock
<1>14. CASE trylock(c)
  <2>1. pc[c] = "trylock" /\ table_obj[c] \in TableNames
    BY <1>14, <1>o DEF trylock, At, TableLabels
  <2>2. CASE mutex[table_obj[c]]
    BY <1>e, <1>14, <2>2 DEF trylock
  <2>3. CASE ~mutex[table_obj[c]]
    <3>1. /\ mutex' = [mutex EXCEPT ![table_obj[c]] = TRUE]
          /\ locked_tables' = [locked_tables EXCEPT
                                  ![c] = locked_tables[c] \cup {table_obj[c]}]
          /\ goto(c, Body(c))
          /\ UNCHANGED <<slot, server_mutex, kvp, proposed, locals, gone,
                         first_valid_message, in_transaction, stack>>
      BY <1>14, <2>3 DEF trylock
    <3>2. ProcessTypes'
      BY <1>0, <2>1, <3>1, MutexType
    <3>3. SessionTypes'
      BY <1>0, <2>1, <3>1 DEF SessionTypes
    <3> QED
      BY <1>12, <2>1, <3>1, <3>2, <3>3
  <2> QED
    BY <2>2, <2>3
<1>15. ASSUME NEW label \in {"autocommit", "unlock"}, pc[c] \in TableLabels,
              ProcessTypes', SessionTypes', UNCHANGED gone, FinishIn(c, label)
       PROVE  TypeOK' /\ LocalsInv(c)'
  <2>1. CASE in_transaction[c]
    <3>1. write_ok(c)
      BY <1>15, <2>1 DEF FinishIn
    <3>2. TypeOK'
      BY <1>0, <1>15, <3>1, WriteOkType, TypePartsNext
    <3>3. LocalsInv(c)'
      BY <1>p, <3>1, NoLocals DEF write_ok, respond
    <3> QED
      BY <3>2, <3>3
  <2>2. CASE ~in_transaction[c]
    <3>1. goto(c, label) /\ UNCHANGED locals
      BY <1>15, <2>2 DEF FinishIn
    <3>2. label \in Labels
      BY DEF Labels
    <3>3. TypeOK'
      BY <1>0, <1>15, <3>1, <3>2, GotoType, LocalsKept, TypePartsNext
    <3>4. LocalsInv(c)'
      BY <1>0, <1>l, <1>15, <3>1, <3>2, MoveLocals DEF locals
    <3> QED
      BY <3>3, <3>4
  <2> QED
    BY <2>1, <2>2
<1>16. CASE set_table_value(c)
  <2>1. pc[c] = "set" /\ pc[c] \in TableLabels /\ pc[c] \in RequestLabels
    BY <1>16 DEF set_table_value, At, TableLabels, RequestLabels
  <2>2. table_obj[c] \in TableNames /\ req[c].key \in Keys /\ stack[c] # <<>>
    BY <1>l, <1>t, <1>o, <2>1 DEF LocalsInv
  <2>3. get_top(stack[c]) \in Value /\ pop(stack[c]) \in Seq(Value)
    BY <1>s, <2>2, PopType, TopType
  <2>4. proposed[table_obj[c]] \in Pairs
    BY <1>0, <2>2 DEF ProcessTypes
  <2>5. set(proposed[table_obj[c]], req[c].key, get_top(stack[c])) \in Pairs
    BY <2>2, <2>3, <2>4, SetType
  <2>6. ProcessTypes'
    BY <1>0, <1>16, <2>5 DEF ProcessTypes, set_table_value
  <2>7. SessionTypes'
    BY <1>0, <1>16, <2>3 DEF SessionTypes, set_table_value
  <2> QED
    BY <1>15, <1>16, <2>1, <2>6, <2>7 DEF set_table_value
<1>17. ASSUME NEW label \in {"autocommit", "get", "unlock", "missing", "catch"},
              pc[c] \in TableLabels, goto(c, label), ProcessTypes',
              UNCHANGED <<session, locals, gone>>
       PROVE  TypeOK' /\ LocalsInv(c)'
  <2>1. label \in Labels
    BY DEF Labels
  <2>2. TypeOK'
    BY <1>0, <1>17, <2>1, GotoType, SessionKept, LocalsKept, TypePartsNext
  <2>3. LocalsInv(c)'
    BY <1>0, <1>l, <1>17, <2>1, MoveLocals DEF locals
  <2> QED
    BY <2>2, <2>3
<1>18. CASE autocommit(c)
  <2>1. pc[c] \in TableLabels
    BY <1>18 DEF autocommit, At, TableLabels
  <2>2. commit_changes(kvp[table_obj[c]], proposed[table_obj[c]]) \in Pairs
    BY <1>0, <1>o, <2>1, CommitType DEF ProcessTypes
  <2>3. ProcessTypes'
    BY <1>0, <1>18, <2>2 DEF ProcessTypes, autocommit
  <2> QED
    BY <1>17, <1>18, <2>1, <2>3 DEF autocommit
<1>19. CASE get_has_key(c)
  <2>1. pc[c] \in TableLabels
    BY <1>19 DEF get_has_key, At, TableLabels
  <2>2. ProcessTypes'
    BY <1>0, <1>19, ProcessKept DEF get_has_key
  <2> QED
    BY <1>17, <1>19, <2>1, <2>2 DEF get_has_key
\* The error paths of GET.
<1>20. ASSUME pc[c] \in TableLabels, ProcessTypes', UNCHANGED <<session, gone>>,
              IF in_transaction[c] THEN manage_exception(c, "FAILED")
              ELSE goto(c, "catch") /\ UNCHANGED locals
       PROVE  TypeOK' /\ LocalsInv(c)'
  <2>1. CASE in_transaction[c]
    BY <1>0, <1>p, <1>20, <2>1, ExceptionType, ExceptionLocals, SessionKept, TypePartsNext
  <2>2. CASE ~in_transaction[c]
    BY <1>17, <1>20, <2>2
  <2> QED
    BY <2>1, <2>2
<1>21. CASE get_table_value(c)
  <2> DEFINE v == get(kvp[table_obj[c]], proposed[table_obj[c]], req[c].key)
  <2>1. pc[c] \in TableLabels /\ pc[c] \in RequestLabels
    BY <1>21 DEF get_table_value, At, TableLabels, RequestLabels
  <2>2. v \in Value \cup {None}
    BY <1>0, <1>o, <1>t, <2>1, GetType DEF ProcessTypes
  <2>3. CASE v # None
    <3>1. /\ stack' = [stack EXCEPT ![c] = push(stack[c], v)]
          /\ FinishIn(c, "unlock")
          /\ UNCHANGED <<process, gone, first_valid_message, in_transaction,
                         locked_tables>>
      BY <1>21, <2>3 DEF get_table_value
    <3>2. push(stack[c], v) \in Seq(Value)
      BY <1>s, <2>2, <2>3, PushType
    <3>3. SessionTypes'
      BY <1>0, <3>1, <3>2 DEF SessionTypes
    <3>4. ProcessTypes'
      BY <1>0, <3>1, ProcessKept
    <3> QED
      BY <1>15, <2>1, <3>1, <3>3, <3>4
  <2>4. CASE v = None
    BY <1>0, <1>20, <1>21, <2>1, <2>4, ProcessKept DEF get_table_value
  <2> QED
    BY <2>3, <2>4
<1>22. CASE get_missing(c)
  <2>1. pc[c] \in TableLabels
    BY <1>22 DEF get_missing, At, TableLabels
  <2>2. ProcessTypes'
    BY <1>0, <1>o, <1>22, <2>1, MutexType DEF get_missing, Unlock
  <2> QED
    BY <1>20, <1>22, <2>1, <2>2 DEF get_missing
<1>23. CASE get_catch(c)
  <2>1. pc[c] \in TableLabels
    BY <1>23 DEF get_catch, At, TableLabels
  <2>2. ProcessTypes'
    BY <1>0, <1>o, <1>23, <2>1, MutexType DEF get_catch, Unlock
  <2>3. TypeOK'
    BY <1>0, <1>23, <2>2, ExceptionType, SessionKept, TypePartsNext DEF get_catch
  <2>4. LocalsInv(c)'
    BY <1>p, <1>23, ExceptionLocals DEF get_catch
  <2> QED
    BY <2>3, <2>4
<1>24. CASE unlock(c)
  <2>1. pc[c] \in TableLabels
    BY <1>24 DEF unlock, At, TableLabels
  <2>2. ProcessTypes'
    BY <1>0, <1>o, <1>24, <2>1, MutexType DEF unlock, Unlock
  <2>3. TypeOK'
    BY <1>0, <1>24, <2>2, WriteOkType, SessionKept, TypePartsNext DEF unlock
  <2>4. LocalsInv(c)'
    BY <1>p, <1>24, NoLocals DEF unlock, write_ok, respond
  <2> QED
    BY <2>3, <2>4
\* CREATE.
<1>25. ASSUME NEW label \in OwnerLabels, pc[c] \in CreateLabels, goto(c, label),
              ProcessTypes', UNCHANGED <<session, locals, gone>>
       PROVE  TypeOK' /\ LocalsInv(c)'
  <2>1. label \in Labels /\ label \in CreateLabels
    BY DEF Labels, OwnerLabels, CreateLabels
  <2>2. TypeOK'
    BY <1>0, <1>25, <2>1, GotoType, SessionKept, LocalsKept, TypePartsNext
  <2>3. LocalsInv(c)'
    BY <1>0, <1>l, <1>25, <2>1, MoveLocals DEF locals
  <2> QED
    BY <2>2, <2>3
<1>26. CASE create_lock(c)
  <2>1. pc[c] \in CreateLabels /\ "create_find" \in OwnerLabels
    BY <1>26 DEF create_lock, At, CreateLabels, OwnerLabels
  <2>2. ProcessTypes'
    BY <1>0, <1>26, ServerMutexType DEF create_lock
  <2> QED
    BY <1>25, <1>26, <2>1, <2>2 DEF create_lock
<1>27. CASE create_find(c)
  <2>1. pc[c] \in CreateLabels
    BY <1>27 DEF create_find, At, CreateLabels, OwnerLabels
  <2>2. ProcessTypes'
    BY <1>0, <1>27, ProcessKept DEF create_find
  <2> QED
    BY <1>25, <1>27, <2>1, <2>2 DEF create_find, OwnerLabels
<1>28. CASE create_exists(c)
  <2>1. ProcessTypes'
    BY <1>0, <1>28, ServerMutexType DEF create_exists
  <2>2. TypeOK'
    BY <1>0, <1>28, <2>1, ExceptionType, SessionKept, TypePartsNext DEF create_exists
  <2>3. LocalsInv(c)'
    BY <1>p, <1>28, ExceptionLocals DEF create_exists
  <2> QED
    BY <2>2, <2>3
<1>c. ASSUME pc[c] \in CreateLabels
      PROVE  req[c] \in CreateRequest /\ req[c].table \in TableNames
  BY <1>l, <1>c DEF LocalsInv, CreateRequest
<1>29. CASE create_insert(c)
  <2>1. pc[c] \in CreateLabels /\ "create_assign" \in OwnerLabels
    BY <1>29 DEF create_insert, At, CreateLabels, OwnerLabels
  <2>2. ProcessTypes'
    BY <1>0, <1>c, <1>29, <2>1 DEF create_insert, ProcessTypes
  <2> QED
    BY <1>25, <1>29, <2>1, <2>2 DEF create_insert
<1>30. CASE create_assign(c)
  <2>1. pc[c] \in CreateLabels /\ req[c].table \in TableNames
    BY <1>c, <1>30 DEF create_assign, At, CreateLabels, OwnerLabels
  <2>2. ProcessTypes'
    BY <1>0, <1>30, <2>1, NoPairsType DEF create_assign, ProcessTypes
  <2>3. msg("OK") \in Reply
    BY MsgType
  <2>4. ControlTypes'
    BY <1>0, <1>30, <2>3 DEF create_assign, write, ControlTypes, Labels
  <2>5. TypeOK'
    BY <1>0, <1>30, <2>2, <2>4, SessionKept, LocalsKept, TypePartsNext DEF create_assign
  <2>6. pc'[c] = "create_unlock" /\ req'[c] = req[c]
    BY <1>p, <1>30 DEF create_assign, locals
  <2>7. LocalsInv(c)'
    BY <1>c, <2>1, <2>6 DEF LocalsInv, RequestLabels, TableLabels, CreateLabels, OwnerLabels
  <2> QED
    BY <2>5, <2>7
<1>31. CASE create_unlock(c)
  <2>1. ProcessTypes'
    BY <1>0, <1>31, ServerMutexType DEF create_unlock
  <2>2. ControlTypes' /\ LocalTypes'
    BY <1>0, <1>31 DEF create_unlock, DropLocals, ControlTypes, LocalTypes, Labels
  <2>3. TypeOK'
    BY <1>0, <1>31, <2>1, <2>2, SessionKept, TypePartsNext DEF create_unlock
  <2>4. LocalsInv(c)'
    BY <1>p, <1>31, NoLocals DEF create_unlock
  <2> QED
    BY <2>3, <2>4
<1> QED
  BY <1>1, <1>3, <1>4, <1>6, <1>7, <1>9, <1>10, <1>11, <1>13, <1>14, <1>16, <1>18,
     <1>19, <1>21, <1>22, <1>23, <1>24, <1>26, <1>27, <1>28, <1>29, <1>30, <1>31
  DEF ThreadStep

\* TypeInv is inductive.
LEMMA TypeStep == TypeInv /\ [Next]_vars => TypeInv'
<1> SUFFICES ASSUME TypeInv, [Next]_vars
             PROVE  TypeInv'
  OBVIOUS
<1>1. ASSUME NEW c \in Conns, ClientStep(c) \/ read_eof(c) \/ ThreadStep(c)
      PROVE  TypeInv'
  <2>1. TypeOK' /\ LocalsInv(c)'
    BY <1>1, ClientStepType, ThreadStepType
  <2>2. Frame(c)
    BY <1>1, OwnStateOnly DEF TypeInv
  <2> QED
    BY <2>1, <2>2, LocalsOfOthers DEF TypeInv
<1>2. ASSUME NEW c \in Conns, NEW d \in Conns, data_race(c, d)
      PROVE  TypeInv'
  <2>1. TypeOK'
    BY <1>2 DEF data_race, TypeInv, TypeOK, process, session, locals
  <2>2. \A e \in Conns : LocalsInv(e)'
    BY <1>2 DEF data_race, TypeInv, LocalsInv, session, locals
  <2> QED
    BY <2>1, <2>2 DEF TypeInv
<1>3. CASE UNCHANGED vars
  <2>1. TypeOK'
    BY <1>3 DEF vars, TypeInv, TypeOK, process, session, locals
  <2>2. \A e \in Conns : LocalsInv(e)'
    BY <1>3 DEF vars, TypeInv, LocalsInv, session, locals
  <2> QED
    BY <2>1, <2>2 DEF TypeInv
<1> QED
  BY <1>1, <1>2, <1>3 DEF Next, Dead

\* The inductive invariant holds throughout.
LEMMA TypeInvariant == Spec => []TypeInv
  BY TypeInit, TypeStep, PTL DEF Spec

\* Every variable keeps its type and every handler finds in its local
\* variables and on the stack what it uses: no handler takes the top of an
\* empty stack or follows a table it has not found.
THEOREM TypeCorrect == Spec => []TypeOK
<1>1. TypeInv => TypeOK
  BY DEF TypeInv
<1> QED
  BY <1>1, TypeInvariant, PTL

-----------------------------------------------------------------------------
(* Arithmetic.                                                               *)

\* Division with a rest.
LEMMA Division ==
  ASSUME NEW d \in Int, NEW m \in Nat \ {0}
  PROVE  /\ d \div m \in Int /\ d % m \in Int
         /\ d = m * (d \div m) + (d % m) /\ 0 <= d % m /\ d % m < m
  OBVIOUS

\* A multiple leaves no rest.
LEMMA NoRest ==
  ASSUME NEW m \in Nat \ {0}, NEW k \in Int
  PROVE  (m * k) % m = 0
<1>1. PICK d \in Int : d = m * k
  OBVIOUS
<1>2. PICK q \in Int, r \in Int : r = d % m /\ d = m * q + r /\ 0 <= r /\ r < m
  BY Division
<1>3. PICK l \in Int : l = k - q
  OBVIOUS
<1>4. r = m * l
  BY <1>1, <1>2, <1>3
<1>5. CASE l >= 1
  BY <1>2, <1>4, <1>5
<1>6. CASE l <= -1
  BY <1>2, <1>4, <1>6
<1>7. CASE l = 0
  BY <1>1, <1>2, <1>4, <1>7
<1> QED
  BY <1>5, <1>6, <1>7

\* Wrapped arithmetic is exact modulo 2^w, and exact where int holds the result.
LEMMA WrapExact ==
  ASSUME NEW n \in Int
  PROVE  /\ Wrap(n) \in Ints /\ (Wrap(n) - n) % (2 * (IntMax + 1)) = 0
         /\ n \in Ints => Wrap(n) = n
<1>1. PICK m \in Nat \ {0} : m = 2 * (IntMax + 1)
  BY IntMaxAssumption
<1>2. PICK d \in Int : d = n - IntMin
  BY IntMaxAssumption DEF IntMin
<1>3. PICK q, r \in Int : r = d % m /\ d = m * q + r /\ 0 <= r /\ r < m
  BY Division
<1>4. Wrap(n) = r + IntMin
  BY <1>1, <1>2, <1>3 DEF Wrap
<1>5. Wrap(n) \in Ints
  BY <1>1, <1>3, <1>4, IntMaxAssumption DEF Ints, IntMin
<1>6. (Wrap(n) - n) % m = 0
  <2>1. PICK p, k \in Int : p = m * q /\ k = -q
    OBVIOUS
  <2>2. d = p + r /\ -p = m * k
    BY <1>3, <2>1
  <2>3. Wrap(n) - n = -p
    BY ONLY d \in Int, n \in Int, r \in Int, p \in Int, <1>2, <1>4, <2>2, IntMaxAssumption DEF IntMin
  <2>4. (m * k) % m = 0
    BY NoRest
  <2> QED
    BY <2>2, <2>3, <2>4
<1>7. ASSUME n \in Ints PROVE Wrap(n) = n
  <2>1. 0 <= d /\ d < m
    BY <1>1, <1>2, <1>7, IntMaxAssumption DEF Ints, IntMin
  <2>2. d % m = d
    BY <2>1
  <2> QED
    BY <1>2, <1>3, <1>4, <2>2, IntMaxAssumption DEF IntMin
<1> QED
  BY <1>1, <1>5, <1>6, <1>7

\* The quotient of a division that does not trap fits an int, and its rest is
\* that of C: smaller than the divisor, with the sign of the dividend.
LEMMA QuotientExact ==
  ASSUME NEW left \in Ints, NEW right \in Ints, ~Traps("DIV", left, right),
         NEW n, n = Quotient(left, right), NEW rest, rest = left - n * right
  PROVE  n \in Ints /\ Abs(rest) < Abs(right) /\ rest * left >= 0
<1>1. left \in Int /\ right \in Int /\ right # 0 /\ ~(left = IntMin /\ right = -1)
  BY IntMaxAssumption DEF Ints, IntMin, Traps
<1>2. PICK a \in Nat, b \in Nat \ {0} : a = Abs(left) /\ b = Abs(right)
  BY <1>1 DEF Abs
<1>3. PICK q, r \in Int : q = a \div b /\ a = b * q + r /\ 0 <= r /\ r < b
  BY Division
<1>4. q >= 0 /\ q <= a /\ (b >= 2 => 2 * q <= a)
  <2>1. q >= 0
    <3>1. CASE q <= -1
      <4>1. b * q <= -b
        BY <3>1
      <4> QED
        BY <1>3, <4>1
    <3> QED
      BY <3>1
  <2>2. q <= b * q
    BY <2>1
  <2>3. b >= 2 => 2 * q <= b * q
    BY <2>1
  <2> QED
    BY <1>3, <2>1, <2>2, <2>3
<1>5. n = IF (left < 0) = (right < 0) THEN q ELSE -q
  BY <1>2, <1>3 DEF Quotient
<1>6. n \in Ints
  <2>1. a <= IntMax + 1 /\ (left >= 0 => a <= IntMax)
    BY <1>1, <1>2, IntMaxAssumption DEF Ints, IntMin, Abs
  <2>2. left < 0 /\ right < 0 => q <= IntMax
    <3>1. CASE b = 1
      BY <1>1, <1>2, <1>4, <2>1, <3>1, IntMaxAssumption DEF Ints, IntMin, Abs
    <3>2. CASE b >= 2
      BY <1>4, <2>1, <3>2, IntMaxAssumption
    <3> QED
      BY <3>1, <3>2
  <2> QED
    BY <1>1, <1>4, <1>5, <2>1, <2>2, IntMaxAssumption DEF Ints, IntMin
<1>7. rest = IF left < 0 THEN -r ELSE r
  <2>1. left = IF left < 0 THEN -a ELSE a
    BY <1>1, <1>2 DEF Abs
  <2>2. n * right = IF left < 0 THEN -(b * q) ELSE b * q
    <3>1. right = IF right < 0 THEN -b ELSE b
      BY <1>1, <1>2 DEF Abs
    <3> QED
      BY <1>1, <1>5, <3>1
  <2> QED
    BY <1>3, <2>1, <2>2
<1>8. Abs(rest) < Abs(right)
  BY <1>2, <1>3, <1>7 DEF Abs
<1>9. rest * left >= 0
  BY <1>1, <1>3, <1>7
<1> QED
  BY <1>6, <1>8, <1>9

\* What is below the top stays when the top is popped ...
LEMMA PopElements ==
  ASSUME NEW st \in Seq(Value), st # <<>>
  PROVE  \A i \in 1..(Len(st) - 1) : pop(st)[i] = st[i]
<1>1. Len(st) \in Nat /\ \A i \in 1..Len(st) : st[i] \in Value
  BY ElementOfSeq, LenProperties
<1>2. (\A i \in 1..(Len(st) - 1) : st[i] \in Value) /\ Len(st) - 1 \in Int /\ 1 \in Int
  BY <1>1
<1>3. \A i \in 1..(Len(st) - 1 - 1 + 1) : SubSeq(st, 1, Len(st) - 1)[i] = st[1 + i - 1]
  BY <1>2, SubSeqProperties
<1> QED
  BY <1>1, <1>3 DEF pop

\* ... and when a value is pushed.
LEMMA PushElements ==
  ASSUME NEW st \in Seq(Value), NEW v \in Value
  PROVE  /\ Len(push(st, v)) = Len(st) + 1 /\ push(st, v)[Len(st) + 1] = v
         /\ \A i \in 1..Len(st) : push(st, v)[i] = st[i]
  BY AppendProperties DEF push

\* The stack an arithmetic request leaves when it succeeds: the result takes
\* the place of the operands.
LEMMA ArithStack ==
  ASSUME NEW st \in Seq(Value), NEW op \in ArithOps, ArithOutcome(op, st) = "OK",
         NEW left, left = st[Len(st) - 1].num, NEW right, right = st[Len(st)].num
  PROVE  /\ left \in Ints /\ right \in Ints /\ ~Traps(op, left, right)
         /\ Len(StackAfterArith(op, st)) = Len(st) - 1
         /\ StackAfterArith(op, st)[Len(st) - 1].num = Result(op, left, right)
<1>1. /\ ~(Len(st) < 2)
      /\ ~Traps(op, get_top(pop(st)).num, get_top(st).num)
  BY DEF ArithOutcome, get_size, Thrown, stoi
<1>2. Len(st) \in Nat /\ Len(st) >= 2 /\ st # <<>>
  BY <1>1, EmptySeq, LenProperties
<1>3. PICK p \in Seq(Value) : /\ p = pop(st) /\ Len(p) = Len(st) - 1
                              /\ p[Len(st) - 1] = st[Len(st) - 1]
  BY <1>2, PopType, PopElements
<1>4. p # <<>>
  BY <1>2, <1>3, EmptySeq
<1>5. PICK s \in Seq(Value) : s = pop(p) /\ Len(s) = Len(st) - 2
  <2>1. pop(p) \in Seq(Value) /\ Len(pop(p)) = Len(p) - 1
    BY <1>4, PopType
  <2> QED
    BY <1>2, <1>3, <2>1
<1>6. /\ get_top(st).num = right /\ get_top(pop(st)).num = left
      /\ get_top(st) \in Value /\ get_top(p) \in Value
  <2>1. get_top(st) \in Value /\ get_top(p) \in Value
    BY <1>2, <1>4, TopType
  <2> QED
    BY <1>3, <2>1 DEF get_top
<1>7. left \in Ints /\ right \in Ints /\ ~Traps(op, left, right)
  BY <1>1, <1>3, <1>6 DEF Value
<1>8. PICK v \in Value : v = to_string(Result(op, left, right)) /\ v.num = Result(op, left, right)
  BY <1>7, ResultType DEF to_string
<1>9. StackAfterArith(op, st) = push(s, v)
  BY <1>3, <1>5, <1>6, <1>8 DEF StackAfterArith
<1>10. Len(push(s, v)) = Len(st) - 1 /\ push(s, v)[Len(st) - 1] = v
  <2>1. Len(push(s, v)) = Len(s) + 1 /\ push(s, v)[Len(s) + 1] = v
    BY PushElements
  <2>2. Len(s) + 1 = Len(st) - 1
    BY <1>2, <1>5
  <2> QED
    BY <2>1, <2>2
<1> QED
  BY <1>7, <1>8, <1>9, <1>10

\* A handler that throws leaves every value as stoi reads it.
LEMMA ThrowStack ==
  ASSUME NEW st \in Seq(Value)
  PROVE  /\ Len(StackAfterThrow(st)) = Len(st)
         /\ \A i \in 1..Len(st) : /\ stoi(StackAfterThrow(st)[i]) = stoi(st[i])
                                  /\ StackAfterThrow(st)[i].num = st[i].num
<1>1. CASE get_size(st) < 2 \/ stoi(get_top(st)) # "ok"
  BY <1>1 DEF StackAfterThrow
<1>2. CASE ~(get_size(st) < 2 \/ stoi(get_top(st)) # "ok")
  <2>1. Len(st) \in Nat /\ Len(st) >= 2 /\ st # <<>> /\ stoi(get_top(st)) = "ok"
    BY <1>2, EmptySeq, LenProperties DEF get_size
  <2>2. PICK p \in Seq(Value) : /\ p = pop(st) /\ Len(p) = Len(st) - 1
                                /\ \A i \in 1..(Len(st) - 1) : p[i] = st[i]
    BY <2>1, PopType, PopElements
  <2>3. PICK v \in Value : /\ v = to_string(get_top(st).num)
                           /\ stoi(v) = "ok" /\ v.num = get_top(st).num
    <3>1. PICK n \in Ints : n = get_top(st).num
      BY <2>1, TopType DEF Value
    <3>2. to_string(n) \in Value
      BY DEF to_string, Value
    <3>3. to_string(n).form = "int" /\ to_string(n).num = n
      BY DEF to_string
    <3>4. stoi(to_string(n)) = "ok"
      BY <3>3 DEF stoi
    <3> QED
      BY <3>1, <3>2, <3>3, <3>4
  <2>4. PICK u : u = push(p, v)
    OBVIOUS
  <2>5. Len(u) = Len(p) + 1 /\ u[Len(p) + 1] = v /\ \A i \in 1..Len(p) : u[i] = p[i]
    BY <2>4, PushElements
  <2>6. Len(u) = Len(st) /\ u[Len(st)] = v /\ \A i \in 1..(Len(st) - 1) : u[i] = st[i]
    BY <2>1, <2>2, <2>5
  <2>7. StackAfterThrow(st) = u
    BY <1>2, <2>2, <2>3, <2>4 DEF StackAfterThrow
  <2>8. ASSUME NEW i \in 1..Len(st)
        PROVE  stoi(u[i]) = stoi(st[i]) /\ u[i].num = st[i].num
    <3>1. CASE i = Len(st)
      BY <2>1, <2>3, <2>6, <3>1 DEF get_top
    <3>2. CASE i # Len(st)
      BY <2>1, <2>6, <3>2
    <3> QED
      BY <3>1, <3>2
  <2> QED
    BY <2>6, <2>7, <2>8
<1> QED
  BY <1>1, <1>2

\* An arithmetic request that is refused costs the client no operand: the
\* right operand a handler has popped when the left one does not convert is
\* pushed back (the catch blocks of handle_add, handle_sub, handle_mul and
\* handle_div), for stacks of every depth.
THEOREM RefusalKeepsOperands == Spec => RefusedArithKeepsOperands
<1>1. ASSUME TypeInv, NEW c \in Conns, NEW op \in ArithOps, handle_arith(c, [op |-> op]),
             pc'[c] = "fail" \/ reply'[c] = msg("FAILED")
      PROVE  /\ Len(stack'[c]) = Len(stack[c])
             /\ \A i \in 1..Len(stack[c]) : /\ stoi(stack'[c][i]) = stoi(stack[c][i])
                                            /\ stack'[c][i].num = stack[c][i].num
  <2>1. /\ stack \in [Conns -> Seq(Value)] /\ stack[c] \in Seq(Value)
        /\ DOMAIN pc = Conns /\ DOMAIN reply = Conns
    BY <1>1 DEF TypeInv, TypeOK
  <2>2. CASE write_ok(c)
    <3>1. pc'[c] = "read" /\ reply'[c] = msg("OK")
      BY <2>1, <2>2 DEF write_ok, respond, write
    <3>2. msg("OK") # msg("FAILED")
      <4>1. msg("OK").type # msg("FAILED").type
        BY DEF msg
      <4> QED
        BY <4>1
    <3> QED
      BY <1>1, <3>1, <3>2
  <2>3. CASE stack' = [stack EXCEPT ![c] = StackAfterThrow(@)]
    <3>1. stack'[c] = StackAfterThrow(stack[c])
      BY <2>1, <2>3
    <3> QED
      BY <2>1, <3>1, ThrowStack
  <2>4. CASE UNCHANGED stack
    BY <2>4
  <2> QED
    BY <1>1, <2>2, <2>3, <2>4 DEF handle_arith
<1>2. TypeInv /\ [Next]_vars =>
        [\A c \in Conns : \A op \in ArithOps :
            [op |-> op] \in Requests /\ handle_arith(c, [op |-> op])
              /\ (pc'[c] = "fail" \/ reply'[c] = msg("FAILED"))
                => /\ Len(stack'[c]) = Len(stack[c])
                   /\ \A i \in 1..Len(stack[c]) :
                         /\ stoi(stack'[c][i]) = stoi(stack[c][i])
                         /\ stack'[c][i].num = stack[c][i].num]_vars
  BY <1>1
<1> QED
  BY <1>2, TypeInvariant, PTL DEF Spec, RefusedArithKeepsOperands

\* What ArithmeticExact says of the ints on the stack.
Exact(op, left, right, n) ==
    LET Same(m) == n \in Ints /\ (n - m) % (2 * (IntMax + 1)) = 0
        rest  == left - n * right
    IN  /\ op = "ADD" => Same(left + right)
        /\ op = "SUB" => Same(left - right)
        /\ op = "MUL" => Same(left * right)
        /\ op = "DIV" => Abs(rest) < Abs(right) /\ rest * left >= 0

\* The result of an operation is exact.
LEMMA ResultExact ==
  ASSUME NEW op \in ArithOps, NEW left \in Ints, NEW right \in Ints, ~Traps(op, left, right)
  PROVE  Exact(op, left, right, Result(op, left, right))
<1>1. left \in Int /\ right \in Int
  BY IntMaxAssumption DEF Ints, IntMin
<1>2. PICK sum, difference, product \in Int :
          sum = left + right /\ difference = left - right /\ product = left * right
  BY <1>1
<1>3. CASE op = "ADD"
  <2>1. Result(op, left, right) = Wrap(sum)
    BY <1>2, <1>3 DEF Result
  <2> QED
    BY <1>2, <1>3, <2>1, WrapExact DEF Exact
<1>4. CASE op = "SUB"
  <2>1. Result(op, left, right) = Wrap(difference)
    BY <1>2, <1>4 DEF Result
  <2> QED
    BY <1>2, <1>4, <2>1, WrapExact DEF Exact
<1>5. CASE op = "MUL"
  <2>1. Result(op, left, right) = Wrap(product)
    BY <1>2, <1>5 DEF Result
  <2> QED
    BY <1>2, <1>5, <2>1, WrapExact DEF Exact
<1>6. CASE op = "DIV"
  <2>1. PICK n, rest : n = Quotient(left, right) /\ rest = left - n * right
    OBVIOUS
  <2>2. n \in Ints /\ Abs(rest) < Abs(right) /\ rest * left >= 0
    BY <1>6, <2>1, QuotientExact
  <2>3. Wrap(n) = n
    BY <2>2, WrapExact, IntMaxAssumption DEF Ints, IntMin
  <2>4. Result(op, left, right) = n
    BY <1>6, <2>1, <2>3 DEF Result
  <2> QED
    BY <1>6, <2>1, <2>2, <2>4 DEF Exact
<1> QED
  BY <1>3, <1>4, <1>5, <1>6 DEF ArithOps

\* The top of the stack after an arithmetic request is the int the C operator
\* yields for the two values that were on top, left below right (handle_add,
\* handle_sub, handle_mul, handle_div), for every width of int and stacks of
\* every depth: sums, differences and products are exact modulo 2^w, and
\* division truncates towards zero.
THEOREM ArithmeticIsExact == Spec => ArithmeticExact
<1>1. ASSUME TypeInv, NEW c \in Conns, NEW op \in ArithOps, handle_arith(c, [op |-> op]),
             ArithOutcome(op, stack[c]) = "OK"
      PROVE  /\ Len(stack'[c]) = Len(stack[c]) - 1
             /\ Exact(op, stack[c][Len(stack[c]) - 1].num, stack[c][Len(stack[c])].num,
                      stack'[c][Len(stack'[c])].num)
  <2>1. stack \in [Conns -> Seq(Value)] /\ stack[c] \in Seq(Value)
    BY <1>1 DEF TypeInv, TypeOK
  <2>2. stack'[c] = StackAfterArith(op, stack[c])
    BY <1>1, <2>1 DEF handle_arith
  <2>3. PICK left, right : left = stack[c][Len(stack[c]) - 1].num /\ right = stack[c][Len(stack[c])].num
    OBVIOUS
  <2>4. /\ left \in Ints /\ right \in Ints /\ ~Traps(op, left, right)
        /\ Len(stack'[c]) = Len(stack[c]) - 1
        /\ stack'[c][Len(stack[c]) - 1].num = Result(op, left, right)
    BY <1>1, <2>1, <2>2, <2>3, ArithStack
  <2>5. Exact(op, left, right, Result(op, left, right))
    BY <2>4, ResultExact
  <2> QED
    BY <2>3, <2>4, <2>5
<1>2. TypeInv /\ [Next]_vars =>
        [\A c \in Conns : \A op \in ArithOps :
           [op |-> op] \in Requests /\ handle_arith(c, [op |-> op])
             /\ ArithOutcome(op, stack[c]) = "OK"
               => LET right == stack[c][Len(stack[c])].num
                      left  == stack[c][Len(stack[c]) - 1].num
                      n     == stack'[c][Len(stack'[c])].num
                      Same(m) == n \in Ints /\ (n - m) % (2 * (IntMax + 1)) = 0
                      rest  == left - n * right
                  IN  /\ Len(stack'[c]) = Len(stack[c]) - 1
                      /\ op = "ADD" => Same(left + right)
                      /\ op = "SUB" => Same(left - right)
                      /\ op = "MUL" => Same(left * right)
                      /\ op = "DIV" => Abs(rest) < Abs(right) /\ rest * left >= 0]_vars
  BY <1>1 DEF Exact
<1> QED
  BY <1>2, TypeInvariant, PTL DEF Spec, ArithmeticExact
=============================================================================
