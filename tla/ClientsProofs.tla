--------------------------- MODULE ClientsProofs ---------------------------
(***************************************************************************)
(* The client programs on the server, for every number of clients and      *)
(* every choice of programs: they do only what BasicServer lets a client   *)
(* do, and no increment of incr_value -t is lost or made twice.            *)
(***************************************************************************)
EXTENDS Clients, StoreProofs, FiniteSetTheorems

-----------------------------------------------------------------------------
(* What a client process knows of its connection.                            *)

ClientTypes ==
    /\ program \in Programs
    /\ at \in [Conns -> Nat]
    /\ waiting \in [Conns -> BOOLEAN]
    /\ exit \in [Conns -> {"none", "0", "1", "uncaught", "killed"}]

\* The labels at which a thread handles no request, or ends one that failed.
RestLabels     == {"closed", "read", "close"}
RollbackLabels == {"fail", "fail_unlock"}

\* A client that waits runs, and one that runs has not closed its socket; it
\* has sent no more than its program and does not outlive the response to its
\* last request; as long as its thread works on a request it waits for the
\* response or is no more, and the request is one of its program.
SenderInv(c) ==
    /\ waiting[c] => exit[c] = "none"
    /\ gone[c] => exit[c] # "none"
    /\ at[c] <= Len(program[c])
    /\ at[c] = Len(program[c]) => waiting[c] \/ exit[c] # "none"
    /\ pc[c] \notin RestLabels \cup RollbackLabels => waiting[c] \/ exit[c] # "none"
    /\ req[c] # None => \E i \in DOMAIN program[c] : req[c] = program[c][i]

SendersInv == TypeInv /\ ClientTypes /\ \A c \in Conns : SenderInv(c)

-----------------------------------------------------------------------------
(* The stages of an incr_value -t that adds 1 to the key k of table t.       *)

Incremented(t, k) == Wrap(kvp[t][k].num + 1)

GetRequest(t, k) == [op |-> "GET", table |-> t, key |-> k]
SetRequest(t, k) == [op |-> "SET", table |-> t, key |-> k]

\* c has sent the first i requests and its transaction has locked tables.
InTransaction(c, i, labels, tables) ==
    at[c] = i /\ pc[c] \in labels /\ in_transaction[c] /\ locked_tables[c] = tables

NotBegun(c) ==
    at[c] \in 0..1 /\ pc[c] \in RestLabels /\ ~in_transaction[c] /\ Len(stack[c]) = 0

Begun(c) == InTransaction(c, 2, {"read"}, {}) /\ Len(stack[c]) = 0

Looking(c, t, k) ==
    /\ InTransaction(c, 3, {"find", "trylock"}, {})
    /\ Len(stack[c]) = 0 /\ req[c] = GetRequest(t, k)

Getting(c, t, k) ==
    /\ InTransaction(c, 3, {"has_key", "get"}, {t})
    /\ Len(stack[c]) = 0 /\ req[c] = GetRequest(t, k)

Fetched(c, t, k) ==
    /\ InTransaction(c, 3, {"read"}, {t})
    /\ Len(stack[c]) = 1 /\ stack[c][1].num = kvp[t][k].num

Pushed(c, t, k) ==
    /\ InTransaction(c, 4, {"read"}, {t})
    /\ Len(stack[c]) = 2 /\ stack[c][1].num = kvp[t][k].num /\ stack[c][2].num = 1

Added(c, t, k) ==
    /\ InTransaction(c, 5, {"read"}, {t})
    /\ Len(stack[c]) = 1 /\ stack[c][1].num = Incremented(t, k)

Setting(c, t, k) ==
    /\ InTransaction(c, 6, {"find", "set"}, {t})
    /\ Len(stack[c]) = 1 /\ stack[c][1].num = Incremented(t, k)
    /\ req[c] = SetRequest(t, k)

Proposes(t, k) == proposed[t][k] # None /\ proposed[t][k].num = Incremented(t, k)

Proposed(c, t, k) == InTransaction(c, 6, {"read"}, {t}) /\ Proposes(t, k)

AboutToCommit(c, t, k) ==
    InTransaction(c, 7, {"commit"}, {t}) /\ todo[c] = {t} /\ Proposes(t, k)

Applied(c, t) ==
    /\ InTransaction(c, 7, {"commit", "commit_unlock"}, {t})
    /\ pc[c] = "commit" => todo[c] = {}

Finished(c) == at[c] \in 7..8 /\ pc[c] \in RestLabels /\ ~in_transaction[c]

\* The transaction is rolled back for a reason the client will see, or because
\* the client is no more.
RollingBack(c) ==
    /\ at[c] \in 2..6 /\ pc[c] \in {"close"} \cup RollbackLabels /\ in_transaction[c]
    /\ exit[c] # "none" \/ (pc[c] # "close" /\ answer[c] # "none" /\ waiting[c])

Failed(c) ==
    /\ at[c] \in 2..6 /\ pc[c] \in RestLabels /\ ~in_transaction[c]
    /\ waiting[c] \/ exit[c] # "none"

\* The ADD found something it could not convert and the process has died.
Died(c) == at[c] = 5 /\ pc[c] = "read" /\ status # "running"

\* The increment is not part of the committed value yet, or never will be ...
Unfinished(c, t, k) ==
    \/ NotBegun(c)         \/ Begun(c)            \/ Looking(c, t, k)
    \/ Getting(c, t, k)    \/ Fetched(c, t, k)    \/ Pushed(c, t, k)
    \/ Added(c, t, k)      \/ Setting(c, t, k)    \/ Proposed(c, t, k)
    \/ AboutToCommit(c, t, k)                     \/ RollingBack(c)
    \/ Failed(c)           \/ Died(c)

\* ... or it is.
Made(c, t) == Applied(c, t) \/ Finished(c)

Stage(c, t, k) == Unfinished(c, t, k) \/ Made(c, t)

-----------------------------------------------------------------------------
(* The inductive invariant.                                                  *)

\* The key is there from the start, and only increments set it.
Counted(t, k) == InitialTables[t][k] # None /\ Setters(t, k) \subseteq Adders(t, k)

\* The increment of c to table t is part of the committed value.
Done(c, t) == at[c] >= 7 /\ ~(pc[c] = "commit" /\ t \in todo[c])

\* What is proposed for the key is committed, or an increment holds the table.
NothingElsePending(t, k) ==
    \/ \E c \in Adders(t, k) : Holds(c, t)
    \/ proposed[t][k] \in {None, kvp[t][k]}

Total(t, k) ==
    kvp[t][k].num = Wrap(InitialTables[t][k].num
                         + Cardinality({c \in Adders(t, k) : Done(c, t)}))

KeysStay ==
    \A t \in DOMAIN InitialTables :
        /\ slot[t] = "table"
        /\ \A k \in Keys : InitialTables[t][k] # None => kvp[t][k] # None

CountInv(t, k) ==
    /\ \A c \in Adders(t, k) : Stage(c, t, k)
    /\ NothingElsePending(t, k)
    /\ Total(t, k)

IncrementInv ==
    /\ SendersInv
    /\ SafeInv
    /\ KeysStay
    /\ \A t \in DOMAIN InitialTables, k \in Keys : Counted(t, k) => CountInv(t, k)

-----------------------------------------------------------------------------
(* Responses.                                                                *)

\* A client decodes the type that was sent, or nothing.
LEMMA ResponseKinds ==
  ASSUME NEW type \in {"OK", "FAILED", "ERROR", "DATA"}
  PROVE  ResponseType[type] \in {type, "InvalidMessage"}
<1> DEFINE args == CASE type \in {"FAILED", "ERROR"} -> <<Explanation>>
                     [] type = "DATA" -> <<<<[identifier |-> FALSE, len |-> 1]>>>>
                     [] type = "OK" -> <<>>
           sent == [type |-> type, args |-> args]
           line == Codec!encode(sent)
<1>1. ResponseType[type] = Codec!decode(line).type
  BY DEF ResponseType
<1> HIDE DEF args
<1>2. line.type \in {type, "InvalidMessage"}
  BY DEF Codec!encode, Codec!InvalidMessage
<1> HIDE DEF line
<1>3. Codec!decode(line).type \in {line.type, "InvalidMessage"}
  BY DEF Codec!decode, Codec!InvalidMessage
<1> QED
  BY <1>1, <1>2, <1>3

\* What a client makes of the response to request i.
LEMMA ExitKinds ==
  ASSUME NEW c \in Conns, NEW i
  PROVE  /\ ExitStatus(c, i) \in {"none", "0", "1", "uncaught"}
         /\ i = Len(program[c]) => ExitStatus(c, i) # "none"
         /\ reply'[c].type \in {"FAILED", "ERROR"} => ExitStatus(c, i) # "none"
<1>1. reply'[c].type \in {"FAILED", "ERROR"} =>
          ResponseType[reply'[c].type] \in {reply'[c].type, "InvalidMessage"}
  BY ResponseKinds
<1>2. Expected(program[c][i]) \in {"OK", "DATA"}
  BY DEF Expected
<1> QED
  BY <1>1, <1>2 DEF ExitStatus

\* What a client that waits hears of a step of the server.
LEMMA Hearing ==
  ASSUME ClientTypes, NEW c \in Conns, NEW i, exit[c] = "none", Hear(c, i)
  PROVE  /\ waiting' \in [Conns -> BOOLEAN]
         /\ exit' \in [Conns -> {"none", "0", "1", "uncaught", "killed"}]
         /\ \A d \in Conns \ {c} : waiting'[d] = waiting[d] /\ exit'[d] = exit[d]
         /\ waiting'[c] => exit'[c] = "none"
         /\ ~waiting'[c] => status' = "running" /\ pc'[c] \in {"read", "close"}
         /\ i = Len(program[c]) => waiting'[c] \/ exit'[c] # "none"
         /\ reply'[c].type \in {"FAILED", "ERROR"} => waiting'[c] \/ exit'[c] # "none"
<1>1. waiting \in [Conns -> BOOLEAN]
      /\ exit \in [Conns -> {"none", "0", "1", "uncaught", "killed"}]
  BY DEF ClientTypes
<1> DEFINE answered == status' = "running" /\ reply'[c] # None /\ pc'[c] \in {"read", "close"}
<1>2. CASE answered
  <2>1. waiting' = [waiting EXCEPT ![c] = FALSE] /\ exit' = [exit EXCEPT ![c] = ExitStatus(c, i)]
    BY <1>2 DEF Hear
  <2> QED
    BY <1>1, <1>2, <2>1, ExitKinds
<1>3. CASE ~answered
  <2>1. waiting' = [waiting EXCEPT ![c] = TRUE] /\ exit' = exit
    BY <1>3 DEF Hear
  <2> QED
    BY <1>1, <2>1
<1> QED
  BY <1>2, <1>3

-----------------------------------------------------------------------------
(* The programs do what BasicServer lets clients do.                         *)

\* The step in which a request is read.
LEMMA RequestStep ==
  ASSUME TypeOK, NEW c \in Conns, NEW r, Handle(c, r) \/ handle_login(c)
  PROVE  /\ status = "running" /\ pc[c] = "read" /\ gone' = gone
         /\ req'[c] \in {None, req[c], r}
<1> USE DEF TypeOK, Serving, At, process, session, locals, start, write, respond,
            write_ok, fail_transaction, manage_exception, Throw, DropLocals
<1>1. CASE handle_login(c)
  BY <1>1 DEF handle_login
<1>2. CASE handle_push(c, r) \/ handle_pop(c, r) \/ handle_top(c, r)
  BY <1>2 DEF handle_push, handle_pop, handle_top
<1>3. CASE handle_arith(c, r)
  BY <1>3 DEF handle_arith
<1>4. CASE handle_bye(c, r) \/ handle_unsupported(c, r) \/ handle_begin(c, r)
  BY <1>4 DEF handle_bye, handle_unsupported, handle_begin
<1>5. CASE handle_commit(c, r)
  BY <1>5 DEF handle_commit
<1>6. CASE handle_set(c, r) \/ handle_get(c, r) \/ handle_create(c, r)
  BY <1>6 DEF handle_set, handle_get, handle_create
<1> QED
  BY <1>1, <1>2, <1>3, <1>4, <1>5, <1>6 DEF Handle

\* The steps the thread takes by itself.
LEMMA OwnSteps ==
  ASSUME TypeOK, NEW c \in Conns, ThreadStep(c) \/ read_eof(c)
  PROVE  /\ gone'[c] => gone[c]
         /\ req'[c] \in {None, req[c]}
         /\ pc[c] \in RestLabels \cup RollbackLabels => pc'[c] \in RestLabels \cup RollbackLabels
<1> USE DEF TypeOK, At, RestLabels, RollbackLabels, process, session, locals, goto, write,
            respond, write_ok, fail_transaction, manage_exception, Throw, DropLocals, Delete,
            EndTransaction
<1>1. CASE read_eof(c) \/ close_connection(c)
  BY <1>1 DEF read_eof, close_connection
<1>2. ASSUME NEW t \in TableNames, commit_table(c, t) \/ rollback_table(c, t)
      PROVE  /\ gone'[c] => gone[c]
             /\ req'[c] \in {None, req[c]}
             /\ pc[c] \in RestLabels \cup RollbackLabels
                    => pc'[c] \in RestLabels \cup RollbackLabels
  BY <1>2 DEF commit_table, rollback_table
<1>3. CASE commit_unlock(c) \/ commit_done(c)
  BY <1>3 DEF commit_unlock, next_table, commit_done
<1>4. CASE fail_unlock(c) \/ fail_done(c)
  BY <1>4 DEF fail_unlock, next_table, fail_done
<1>5. CASE find_table(c) \/ lock(c) \/ trylock(c)
  BY <1>5 DEF find_table, lock, trylock
<1>6. CASE set_table_value(c) \/ autocommit(c) \/ unlock(c)
  BY <1>6 DEF set_table_value, FinishIn, autocommit, unlock
<1>7. CASE get_has_key(c) \/ get_table_value(c)
  BY <1>7 DEF get_has_key, get_table_value, FinishIn
<1>8. CASE get_missing(c) \/ get_catch(c)
  BY <1>8 DEF get_missing, get_catch
<1>9. CASE create_lock(c) \/ create_find(c) \/ create_exists(c)
  BY <1>9 DEF create_lock, create_find, create_exists
<1>10. CASE create_insert(c) \/ create_assign(c) \/ create_unlock(c)
  BY <1>10 DEF create_insert, create_assign, create_unlock
<1> QED
  BY <1>1, <1>2, <1>3, <1>4, <1>5, <1>6, <1>7, <1>8, <1>9, <1>10 DEF ThreadStep

\* A client sends the next request of its program, which is one.
LEMMA SendsNext ==
  ASSUME SendersInv, NEW c \in Conns, Send(c)
  PROVE  /\ program[c] \in Seq(Requests \cup {LOGIN})
         /\ at[c] + 1 \in DOMAIN program[c]
         /\ program[c][at[c] + 1] \in Requests \/ handle_login(c)
<1>1. /\ program[c] \in Seq(Requests \cup {LOGIN}) /\ at[c] \in Nat
      /\ at[c] <= Len(program[c])
      /\ at[c] = Len(program[c]) => waiting[c] \/ exit[c] # "none"
      /\ exit[c] = "none" /\ ~waiting[c]
  BY ClientsAssumption DEF SendersInv, ClientTypes, SenderInv, Send
<1>2. at[c] + 1 \in DOMAIN program[c] /\ program[c][at[c] + 1] \in Requests \cup {LOGIN}
  <2>1. at[c] + 1 \in 1..Len(program[c])
    BY <1>1, LenProperties
  <2> QED
    BY <1>1, <2>1, ElementOfSeq, LenProperties
<1>3. program[c][at[c] + 1] = LOGIN => handle_login(c)
  BY DEF Send, LOGIN
<1> QED
  BY <1>1, <1>2, <1>3

\* The step of BasicServer that a step of a client or of its thread is.
ServerStep(c) == ClientStep(c) \/ read_eof(c) \/ ThreadStep(c)

LEMMA SendIsStep ==
  ASSUME SendersInv, NEW c \in Conns, Send(c)
  PROVE  ClientStep(c)
  BY SendsNext DEF Send, ClientStep

\* What the steps of the clients do to the server.
LEMMA ClientsStep ==
  ASSUME SendersInv, ClientsNext \/ UNCHANGED <<vars, client>>
  PROVE  \/ \E c \in Conns : ServerStep(c) /\ (connect(c) \/ Send(c) \/ Work(c)
                                               \/ CloseSocket(c) \/ Killed(c))
         \/ \E c \in Conns : LostServer(c) /\ UNCHANGED vars
         \/ \E c, d \in Conns : data_race(c, d) /\ UNCHANGED client
         \/ UNCHANGED <<vars, client>>
<1>1. ASSUME NEW c \in Conns, connect(c) \/ Send(c) \/ Work(c) \/ CloseSocket(c) \/ Killed(c)
      PROVE  ServerStep(c)
  <2>1. CASE connect(c)
    BY <2>1 DEF connect, ServerStep, ClientStep
  <2>2. CASE Send(c)
    BY <2>2, SendIsStep DEF ServerStep
  <2>3. CASE Work(c)
    BY <2>3 DEF Work, ServerStep
  <2>4. CASE CloseSocket(c) \/ Killed(c)
    BY <2>4 DEF CloseSocket, Killed, ServerStep, ClientStep
  <2> QED
    BY <1>1, <2>1, <2>2, <2>3, <2>4
<1>2. \A c \in Conns : LostServer(c) => UNCHANGED vars
  BY DEF LostServer
<1>3. \A c, d \in Conns : Race(c, d) => data_race(c, d) /\ UNCHANGED client
  BY DEF Race
<1>4. AllDone => UNCHANGED <<vars, client>>
  BY DEF AllDone
<1> QED
  BY <1>1, <1>2, <1>3, <1>4 DEF ClientsNext

\* A step of the clients and the server is one of BasicServer.
LEMMA ClientsAreAllowed ==
  ASSUME SendersInv, ClientsNext \/ UNCHANGED <<vars, client>>
  PROVE  [Next]_vars
<1>1. (\E c \in Conns : ServerStep(c)) => Next
  BY DEF ServerStep, Next
<1>2. (\E c, d \in Conns : data_race(c, d)) => Next
  BY DEF Next
<1>3. UNCHANGED <<vars, client>> => UNCHANGED vars
  OBVIOUS
<1> QED
  BY <1>1, <1>2, <1>3, ClientsStep

\* The other clients see nothing of a step of client c.
LEMMA OthersWait ==
  ASSUME SendersInv, NEW c \in Conns, ServerStep(c), NEW d \in Conns \ {c},
         program' = program, at'[d] = at[d], waiting'[d] = waiting[d], exit'[d] = exit[d]
  PROVE  SenderInv(d)'
<1>1. Frame(c)
  BY OwnStateOnly DEF SendersInv, TypeInv, ServerStep
<1>2. pc'[d] = pc[d] /\ req'[d] = req[d] /\ gone'[d] = gone[d]
  BY <1>1 DEF Frame
<1> QED
  BY <1>2 DEF SendersInv, SenderInv

LEMMA SendersStep ==
  ASSUME SendersInv, ClientsNext \/ UNCHANGED <<vars, client>>
  PROVE  SendersInv'
<1>t. TypeOK /\ ClientTypes /\ \A c \in Conns : SenderInv(c)
  BY DEF SendersInv, TypeInv
<1>y. /\ at \in [Conns -> Nat] /\ waiting \in [Conns -> BOOLEAN] /\ program \in Programs
      /\ exit \in [Conns -> {"none", "0", "1", "uncaught", "killed"}]
      /\ pc \in [Conns -> Labels] /\ gone \in [Conns -> BOOLEAN]
  BY <1>t DEF ClientTypes, TypeOK
<1>n. TypeInv'
  BY ClientsAreAllowed, TypeStep DEF SendersInv
<1>1. ASSUME NEW c \in Conns, connect(c)
      PROVE  SendersInv'
  <2>1. ServerStep(c) /\ UNCHANGED <<program, at, waiting, exit>> /\ UNCHANGED <<gone, req>>
        /\ pc'[c] = "read"
    BY <1>y, <1>1 DEF connect, client, ServerStep, ClientStep, Accept, goto, locals
  <2>2. SenderInv(c)'
    BY <1>t, <2>1 DEF SenderInv, RestLabels
  <2>3. \A d \in Conns \ {c} : SenderInv(d)'
    BY <2>1, OthersWait
  <2> QED
    BY <1>n, <1>y, <2>1, <2>2, <2>3 DEF SendersInv, ClientTypes
<1>2. ASSUME NEW c \in Conns, Send(c)
      PROVE  SendersInv'
  <2> DEFINE i == at[c] + 1
             r == program[c][i]
  <2>1. /\ i \in DOMAIN program[c] /\ program[c] \in Seq(Requests \cup {LOGIN})
        /\ Handle(c, r) \/ handle_login(c)
        /\ at' = [at EXCEPT ![c] = i] /\ Hear(c, i) /\ program' = program
        /\ exit[c] = "none"
    BY <1>2, SendsNext DEF Send
  <2>2. ServerStep(c)
    BY <1>2, SendIsStep DEF ServerStep
  <2>3. i \in Nat /\ i <= Len(program[c]) /\ at'[c] = i
    BY <1>y, <2>1, LenProperties
  <2>4. gone' = gone /\ req'[c] \in {None, req[c], r}
    BY <1>t, <2>1, RequestStep
  <2> HIDE DEF i, r
  <2>5. /\ waiting' \in [Conns -> BOOLEAN]
        /\ exit' \in [Conns -> {"none", "0", "1", "uncaught", "killed"}]
        /\ \A d \in Conns \ {c} : waiting'[d] = waiting[d] /\ exit'[d] = exit[d]
        /\ waiting'[c] => exit'[c] = "none"
        /\ ~waiting'[c] => status' = "running" /\ pc'[c] \in RestLabels
        /\ i = Len(program[c]) => waiting'[c] \/ exit'[c] # "none"
    BY <1>t, <2>1, Hearing DEF RestLabels
  <2>6. ~gone'[c]
    BY <1>t, <2>1, <2>4 DEF SenderInv
  <2>7. req'[c] # None => \E j \in DOMAIN program[c] : req'[c] = program[c][j]
    BY <1>t, <2>1, <2>4 DEF SenderInv, r
  <2>8. SenderInv(c)'
    BY <2>1, <2>3, <2>5, <2>6, <2>7 DEF SenderInv
  <2>9. \A d \in Conns \ {c} : SenderInv(d)'
    BY <1>y, <2>1, <2>2, <2>5, OthersWait
  <2> QED
    BY <1>n, <1>y, <2>1, <2>3, <2>5, <2>8, <2>9 DEF SendersInv, ClientTypes
<1>3. ASSUME NEW c \in Conns, Work(c)
      PROVE  SendersInv'
  <2>1. ServerStep(c) /\ (ThreadStep(c) \/ read_eof(c)) /\ UNCHANGED <<program, at>>
    BY <1>3 DEF Work, ServerStep
  <2>2. /\ gone'[c] => gone[c]
        /\ req'[c] \in {None, req[c]}
        /\ pc[c] \in RestLabels \cup RollbackLabels => pc'[c] \in RestLabels \cup RollbackLabels
    BY <1>t, <2>1, OwnSteps
  <2>3. /\ waiting' \in [Conns -> BOOLEAN]
        /\ exit' \in [Conns -> {"none", "0", "1", "uncaught", "killed"}]
        /\ \A d \in Conns \ {c} : waiting'[d] = waiting[d] /\ exit'[d] = exit[d]
        /\ \/ /\ waiting[c]
              /\ waiting'[c] => exit'[c] = "none"
              /\ ~waiting'[c] => pc'[c] \in RestLabels
              /\ at[c] = Len(program[c]) => waiting'[c] \/ exit'[c] # "none"
           \/ ~waiting[c] /\ waiting'[c] = waiting[c] /\ exit'[c] = exit[c]
    <3>1. CASE waiting[c]
      <4>1. exit[c] = "none" /\ Hear(c, at[c])
        BY <1>t, <1>3, <3>1 DEF Work, SenderInv
      <4> QED
        BY <1>t, <3>1, <4>1, Hearing DEF RestLabels
    <3>2. CASE ~waiting[c]
      BY <1>y, <1>3, <3>2 DEF Work
    <3> QED
      BY <3>1, <3>2
  <2>4. SenderInv(c)'
    BY <1>t, <2>1, <2>2, <2>3 DEF SenderInv
  <2>5. \A d \in Conns \ {c} : SenderInv(d)'
    BY <2>1, <2>3, OthersWait
  <2> QED
    BY <1>n, <1>y, <2>1, <2>3, <2>4, <2>5 DEF SendersInv, ClientTypes
<1>4. ASSUME NEW c \in Conns, CloseSocket(c) \/ Killed(c)
      PROVE  SendersInv'
  <2>1. /\ ServerStep(c) /\ UNCHANGED <<program, at, pc, req>>
        /\ \/ exit[c] # "none" /\ UNCHANGED <<waiting, exit>>
           \/ /\ exit' = [exit EXCEPT ![c] = "killed"]
              /\ waiting' = [waiting EXCEPT ![c] = FALSE]
    BY <1>4 DEF CloseSocket, Killed, ClientLeaves, client, ServerStep, ClientStep, locals
  <2>2. SenderInv(c)'
    BY <1>t, <1>y, <2>1 DEF SenderInv
  <2>3. \A d \in Conns \ {c} : SenderInv(d)'
    BY <1>y, <2>1, OthersWait
  <2> QED
    BY <1>n, <1>y, <2>1, <2>2, <2>3 DEF SendersInv, ClientTypes
<1>5. ASSUME NEW c \in Conns, LostServer(c)
      PROVE  SendersInv'
  <2>1. /\ UNCHANGED <<vars, program, at>>
        /\ exit' = [exit EXCEPT ![c] = "1"] /\ waiting' = [waiting EXCEPT ![c] = FALSE]
    BY <1>5 DEF LostServer
  <2>2. \A d \in Conns : SenderInv(d)'
    BY <1>t, <1>y, <2>1 DEF SenderInv, vars, locals
  <2> QED
    BY <1>n, <1>y, <2>1, <2>2 DEF SendersInv, ClientTypes
<1>6. ASSUME UNCHANGED <<pc, req, gone>>, UNCHANGED client
      PROVE  SendersInv'
  BY <1>n, <1>t, <1>6 DEF SendersInv, SenderInv, ClientTypes, client
<1>7. (\E c, d \in Conns : data_race(c, d)) \/ UNCHANGED vars => UNCHANGED <<pc, req, gone>>
  BY DEF data_race, vars, locals
<1> QED
  BY <1>1, <1>2, <1>3, <1>4, <1>5, <1>6, <1>7, ClientsStep

LEMMA SendersInit == ClientsInit => SendersInv
<1> SUFFICES ASSUME ClientsInit
             PROVE  SendersInv
  OBVIOUS
<1>1. TypeInv
  BY TypeInit DEF ClientsInit
<1>2. ASSUME NEW c \in Conns
      PROVE  SenderInv(c)
  <2>1. program[c] \in Seq(Requests \cup {LOGIN}) /\ program[c] # <<>>
    BY ClientsAssumption DEF ClientsInit
  <2>2. Len(program[c]) \in Nat /\ Len(program[c]) # 0
    BY <2>1, LenProperties, EmptySeq
  <2> QED
    BY <2>2 DEF ClientsInit, Init, SenderInv, RestLabels
<1> QED
  BY <1>1, <1>2 DEF ClientsInit, SendersInv, ClientTypes

LEMMA SendersAlways == ClientsSpec => []SendersInv
<1>1. SendersInv /\ [ClientsNext]_<<vars, client>> => SendersInv'
  BY SendersStep
<1> QED
  BY <1>1, SendersInit, PTL DEF ClientsSpec

\* Whatever incr_value, get_value and set_value do on a server, started in any
\* number and combination and killed at any time, is a behaviour BasicServer
\* allows: every theorem about Spec holds of the server they run on, and no
\* client ever sends a request beyond its program.
THEOREM ClientsKeepToServer == ClientsSpec => Spec
<1>1. ClientsInit => Init
  BY DEF ClientsInit
<1>2. SendersInv /\ [ClientsNext]_<<vars, client>> => [Next]_vars
  BY ClientsAreAllowed
<1> QED
  BY <1>1, <1>2, SendersAlways, PTL DEF ClientsSpec, Spec

-----------------------------------------------------------------------------
(* The program incr_value -t.                                                *)

LEMMA OneMore ==
  ASSUME NEW R, NEW p \in Seq(R), NEW r \in R, NEW q, q = p \o <<r>>
  PROVE  /\ q \in Seq(R) /\ Len(q) = Len(p) + 1 /\ q[Len(p) + 1] = r
         /\ \A i \in 1..Len(p) : q[i] = p[i]
<1>1. q = Append(p, r)
  OBVIOUS
<1> QED
  BY <1>1, AppendProperties

LEMMA FourMore ==
  ASSUME NEW R, NEW p \in Seq(R), NEW a \in R, NEW b \in R, NEW c \in R, NEW d \in R,
         NEW q, q = p \o <<a, b, c, d>>
  PROVE  /\ q \in Seq(R) /\ Len(q) = Len(p) + 4 /\ q[Len(p) + 1] = a /\ q[Len(p) + 2] = b
         /\ q[Len(p) + 3] = c /\ q[Len(p) + 4] = d
         /\ \A i \in 1..Len(p) : q[i] = p[i]
<1>1. <<a, b, c, d>> \in Seq(R)
  OBVIOUS
<1>2. /\ Len(<<a, b, c, d>>) = 4 /\ <<a, b, c, d>>[1] = a /\ <<a, b, c, d>>[2] = b
      /\ <<a, b, c, d>>[3] = c /\ <<a, b, c, d>>[4] = d
  OBVIOUS
<1>3. Len(p) \in Nat
  BY LenProperties
<1> QED
  BY <1>1, <1>2, <1>3, ConcatProperties

\* Its requests.
LEMMA IncrementProgram ==
  ASSUME NEW t, NEW k, NEW c \in Adders(t, k)
  PROVE  /\ Len(program[c]) = 8 /\ DOMAIN program[c] = 1..8
         /\ program[c][1] = LOGIN
         /\ program[c][2] = [op |-> "BEGIN"]
         /\ program[c][3] = GetRequest(t, k)
         /\ program[c][4] = [op |-> "PUSH", value |-> to_string(1)]
         /\ program[c][5] = [op |-> "ADD"]
         /\ program[c][6] = SetRequest(t, k)
         /\ program[c][7] = [op |-> "COMMIT"]
         /\ program[c][8] = BYE
<1>1. PICK r1, r2, r3, r4, r5, r6, r7, r8 :
         /\ r1 = LOGIN /\ r2 = [op |-> "BEGIN"] /\ r3 = GetRequest(t, k)
         /\ r4 = [op |-> "PUSH", value |-> to_string(1)] /\ r5 = [op |-> "ADD"]
         /\ r6 = SetRequest(t, k) /\ r7 = [op |-> "COMMIT"] /\ r8 = BYE
  OBVIOUS
<1>2. PICK s1, s2, s6, s7, s8 :
         /\ s1 = <<r1>> /\ s2 = s1 \o <<r2>> /\ s6 = s2 \o <<r3, r4, r5, r6>>
         /\ s7 = s6 \o <<r7>> /\ s8 = s7 \o <<r8>> /\ program[c] = s8
  BY <1>1 DEF Adders, incr_value, GetRequest, SetRequest
<1>3. PICK R : /\ r1 \in R /\ r2 \in R /\ r3 \in R /\ r4 \in R
               /\ r5 \in R /\ r6 \in R /\ r7 \in R /\ r8 \in R
  <2> WITNESS {r1, r2, r3, r4, r5, r6, r7, r8}
  <2> QED
    OBVIOUS
<1>4. s1 \in Seq(R) /\ Len(s1) = 1 /\ s1[1] = r1
  BY <1>2, <1>3
<1>5. s2 \in Seq(R) /\ Len(s2) = 2 /\ s2[1] = r1 /\ s2[2] = r2
  <2>1. s2 \in Seq(R) /\ Len(s2) = Len(s1) + 1 /\ s2[Len(s1) + 1] = r2
        /\ \A i \in 1..Len(s1) : s2[i] = s1[i]
    BY <1>2, <1>3, <1>4, OneMore
  <2> QED
    BY <1>4, <2>1
<1>6. /\ s6 \in Seq(R) /\ Len(s6) = 6 /\ s6[1] = r1 /\ s6[2] = r2 /\ s6[3] = r3
      /\ s6[4] = r4 /\ s6[5] = r5 /\ s6[6] = r6
  <2>1. /\ s6 \in Seq(R) /\ Len(s6) = Len(s2) + 4 /\ s6[Len(s2) + 1] = r3
        /\ s6[Len(s2) + 2] = r4 /\ s6[Len(s2) + 3] = r5 /\ s6[Len(s2) + 4] = r6
        /\ \A i \in 1..Len(s2) : s6[i] = s2[i]
    BY <1>2, <1>3, <1>5, FourMore
  <2> QED
    BY <1>5, <2>1
<1>7. /\ s7 \in Seq(R) /\ Len(s7) = 7 /\ s7[1] = r1 /\ s7[2] = r2 /\ s7[3] = r3
      /\ s7[4] = r4 /\ s7[5] = r5 /\ s7[6] = r6 /\ s7[7] = r7
  <2>1. s7 = s6 \o <<r7>> /\ s6 \in Seq(R) /\ r7 \in R
    BY <1>2, <1>3, <1>6
  <2>2. s7 \in Seq(R) /\ Len(s7) = Len(s6) + 1 /\ s7[Len(s6) + 1] = r7
        /\ \A i \in 1..Len(s6) : s7[i] = s6[i]
    BY <2>1, OneMore
  <2> QED
    BY <1>6, <2>2
<1>8. /\ s8 \in Seq(R) /\ Len(s8) = 8 /\ s8[1] = r1 /\ s8[2] = r2 /\ s8[3] = r3
      /\ s8[4] = r4 /\ s8[5] = r5 /\ s8[6] = r6 /\ s8[7] = r7 /\ s8[8] = r8
  <2>1. s8 = s7 \o <<r8>> /\ s7 \in Seq(R) /\ r8 \in R
    BY <1>2, <1>3, <1>7
  <2>2. s8 \in Seq(R) /\ Len(s8) = Len(s7) + 1 /\ s8[Len(s7) + 1] = r8
        /\ \A i \in 1..Len(s7) : s8[i] = s7[i]
    BY <2>1, OneMore
  <2> QED
    BY <1>7, <2>2
<1>9. DOMAIN s8 = 1..8
  BY <1>8, LenProperties
<1> QED
  BY <1>1, <1>2, <1>8, <1>9

\* The handler a request goes to.
LEMMA HandlerOf ==
  ASSUME NEW c \in Conns, NEW r, Handle(c, r)
  PROVE  /\ r.op = "BEGIN"  => handle_begin(c, r)
         /\ r.op = "GET"    => handle_get(c, r)
         /\ r.op = "PUSH"   => handle_push(c, r)
         /\ r.op = "ADD"    => handle_arith(c, r)
         /\ r.op = "SET"    => handle_set(c, r)
         /\ r.op = "COMMIT" => handle_commit(c, r)
         /\ r.op = "BYE"    => handle_bye(c, r)
  BY DEF Handle, handle_begin, handle_get, handle_push, handle_arith, handle_set,
     handle_commit, handle_bye, handle_pop, handle_top, handle_unsupported, handle_create,
     ArithOps

\* The step a thread can take at a label.
LEMMA StepAt ==
  ASSUME NEW c \in Conns, ThreadStep(c) \/ read_eof(c)
  PROVE  /\ status = "running"
         /\ pc[c] # "closed"
         /\ pc[c] = "read"    => read_eof(c)
         /\ pc[c] = "close"   => close_connection(c)
         /\ pc[c] = "find"    => find_table(c)
         /\ pc[c] = "trylock" => trylock(c)
         /\ pc[c] = "has_key" => get_has_key(c)
         /\ pc[c] = "get"     => get_table_value(c)
         /\ pc[c] = "set"     => set_table_value(c)
         /\ pc[c] = "commit"  => commit_done(c) \/ \E t \in TableNames : commit_table(c, t)
         /\ pc[c] = "commit_unlock" => commit_unlock(c)
         /\ pc[c] = "fail"    => fail_done(c) \/ \E t \in TableNames : rollback_table(c, t)
         /\ pc[c] = "fail_unlock"   => fail_unlock(c)
<1>1. CASE read_eof(c)
  BY <1>1 DEF read_eof, At
<1>2. CASE \E t \in TableNames : commit_table(c, t) \/ rollback_table(c, t)
  BY <1>2 DEF commit_table, rollback_table, At
<1>3. CASE \/ close_connection(c) \/ commit_unlock(c) \/ commit_done(c)
           \/ fail_unlock(c) \/ fail_done(c)
  BY <1>3 DEF close_connection, commit_unlock, commit_done, fail_unlock, fail_done,
     next_table, At
<1>4. CASE \/ find_table(c) \/ lock(c) \/ trylock(c)
           \/ set_table_value(c) \/ autocommit(c) \/ unlock(c)
  BY <1>4 DEF find_table, lock, trylock, set_table_value, autocommit, unlock, At
<1>5. CASE \/ get_has_key(c) \/ get_table_value(c) \/ get_missing(c) \/ get_catch(c)
  BY <1>5 DEF get_has_key, get_table_value, get_missing, get_catch, At
<1>6. CASE \/ create_lock(c) \/ create_find(c) \/ create_exists(c)
           \/ create_insert(c) \/ create_assign(c) \/ create_unlock(c)
  BY <1>6 DEF create_lock, create_find, create_exists, create_insert, create_assign,
     create_unlock, At
<1> QED
  BY <1>1, <1>2, <1>3, <1>4, <1>5, <1>6 DEF ThreadStep

LEMMA OnlyRunning ==
  ASSUME NEW c \in Conns, ServerStep(c)
  PROVE  status = "running"
<1>1. CASE ThreadStep(c) \/ read_eof(c)
  BY <1>1, StepAt
<1>2. CASE ClientStep(c)
  BY <1>2 DEF ClientStep, Handle, Accept, ClientLeaves, read_invalid, handle_login, refuse,
     handle_push, handle_pop, handle_top, handle_arith, handle_bye, handle_unsupported,
     handle_begin, handle_commit, handle_set, handle_get, handle_create, Serving, At
<1> QED
  BY <1>1, <1>2 DEF ServerStep

\* Where the stage says whether the increment is made.
LEMMA MadeIsDone ==
  ASSUME NEW c \in Conns, NEW t, NEW k
  PROVE  /\ Unfinished(c, t, k) => ~Done(c, t)
         /\ Made(c, t) => Done(c, t)
<1> USE DEF Done, InTransaction, RestLabels, RollbackLabels
<1>1. Made(c, t) => Done(c, t)
  BY DEF Made, Applied, Finished
<1>2. Unfinished(c, t, k) => at[c] \in 0..6 \/ AboutToCommit(c, t, k)
  BY DEF Unfinished, NotBegun, Begun, Looking, Getting, Fetched, Pushed, Added, Setting,
     Proposed, RollingBack, Failed, Died
<1>3. AboutToCommit(c, t, k) => ~Done(c, t)
  BY DEF AboutToCommit
<1> QED
  BY <1>1, <1>2, <1>3

-----------------------------------------------------------------------------
(* What a step does to a table and to the stages of the others.              *)

\* What becomes of the maps of a table that exists.
LEMMA MapEffects ==
  ASSUME SafeInv, NEW d \in Conns, ServerStep(d), NEW t \in TableNames, slot[t] = "table"
  PROVE  \/ kvp'[t] = kvp[t] /\ proposed'[t] = proposed[t]
         \/ /\ kvp'[t] = commit_changes(kvp[t], proposed[t]) /\ proposed'[t] = proposed[t]
            /\ Holds(d, t) /\ (commit_table(d, t) \/ pc[d] = "autocommit")
         \/ kvp'[t] = kvp[t] /\ proposed'[t] = NoPairs /\ Holds(d, t)
         \/ /\ kvp'[t] = kvp[t] /\ Holds(d, t) /\ pc[d] = "set"
            /\ req[d] \in TableRequest /\ req[d].op = "SET" /\ req[d].table = t
            /\ proposed'[t] = set(proposed[t], req[d].key, get_top(stack[d]))
<1>t. TypeOK /\ LocalsInv(d) /\ ExistInv(d)
  BY DEF SafeInv, ExclusionInv, TypeInv
<1>p. kvp \in [TableNames -> Pairs] /\ proposed \in [TableNames -> Pairs]
  BY <1>t DEF TypeOK
<1> SUFFICES ASSUME kvp'[t] # kvp[t] \/ proposed'[t] # proposed[t]
             PROVE  \/ /\ kvp'[t] = commit_changes(kvp[t], proposed[t])
                       /\ proposed'[t] = proposed[t]
                       /\ commit_table(d, t) \/ pc[d] = "autocommit"
                    \/ kvp'[t] = kvp[t] /\ proposed'[t] = NoPairs
                    \/ /\ kvp'[t] = kvp[t] /\ pc[d] = "set"
                       /\ req[d] \in TableRequest /\ req[d].op = "SET" /\ req[d].table = t
                       /\ proposed'[t] = set(proposed[t], req[d].key, get_top(stack[d]))
  BY WritersHold DEF ServerStep
<1>w. WriteStep(d)
  BY OnlyWritersWrite DEF ServerStep
<1>1. ASSUME NEW u \in TableNames, commit_table(d, u)
      PROVE  /\ kvp'[t] = commit_changes(kvp[t], proposed[t]) /\ proposed'[t] = proposed[t]
             /\ commit_table(d, t)
  <2>1. u = t
    BY <1>p, <1>1 DEF commit_table
  <2> QED
    BY <1>p, <1>1, <2>1 DEF commit_table
<1>2. ASSUME NEW u \in TableNames, rollback_table(d, u)
      PROVE  kvp'[t] = kvp[t] /\ proposed'[t] = NoPairs
  BY <1>p, <1>2 DEF rollback_table, rollback_changes
<1>3. CASE set_table_value(d)
  <2>1. pc[d] = "set" /\ kvp' = kvp /\ table_obj[d] = req[d].table /\ req[d].op = "SET"
        /\ req[d] \in TableRequest
    BY <1>t, <1>3 DEF set_table_value, At, LocalsInv, TableLabels, RequestLabels
  <2> QED
    BY <1>p, <1>3, <2>1 DEF set_table_value
<1>4. CASE autocommit(d)
  BY <1>p, <1>4 DEF autocommit, At
<1>5. CASE create_assign(d)
  <2>1. pc[d] = "create_assign" /\ req[d].table = t
    BY <1>p, <1>5 DEF create_assign, At
  <2> QED
    BY <1>t, <2>1 DEF ExistInv
<1> QED
  BY <1>w, <1>1, <1>2, <1>3, <1>4, <1>5 DEF WriteStep

\* Nobody else changes a table that c holds.
LEMMA HeldIsKept ==
  ASSUME SafeInv, NEW d \in Conns, ServerStep(d), NEW c \in Conns \ {d},
         NEW t \in TableNames, Holds(c, t)
  PROVE  kvp'[t] = kvp[t] /\ proposed'[t] = proposed[t]
<1>1. slot[t] = "table"
  BY HeldTablesExist DEF SafeInv, ExclusionInv
<1>2. ~Holds(d, t)
  BY DEF SafeInv, ExclusionInv, MutualExclusion
<1> QED
  BY <1>1, <1>2, MapEffects

\* The stage of an increment does not change when others move.
LEMMA OthersStay ==
  ASSUME SafeInv, NEW d \in Conns, ServerStep(d), NEW c \in Conns \ {d},
         NEW t \in TableNames, NEW k \in Keys,
         at'[c] = at[c], waiting'[c] = waiting[c], exit'[c] = exit[c]
  PROVE  /\ Unfinished(c, t, k) => Unfinished(c, t, k)'
         /\ Made(c, t) => Made(c, t)'
<1>1. Frame(d)
  BY OwnStateOnly DEF SafeInv, ExclusionInv, TypeInv, ServerStep
<1>2. /\ pc'[c] = pc[c] /\ req'[c] = req[c] /\ todo'[c] = todo[c] /\ stack'[c] = stack[c]
      /\ in_transaction'[c] = in_transaction[c] /\ locked_tables'[c] = locked_tables[c]
      /\ answer'[c] = answer[c]
  BY <1>1 DEF Frame
<1>3. Holds(c, t) => kvp'[t] = kvp[t] /\ proposed'[t] = proposed[t]
  BY HeldIsKept
<1>4. \A i, labels, tables : InTransaction(c, i, labels, tables) => InTransaction(c, i, labels, tables)'
  BY <1>2 DEF InTransaction
<1>5. Made(c, t) => Made(c, t)'
  BY <1>2, <1>4 DEF Made, Applied, Finished
<1>6. /\ NotBegun(c) => NotBegun(c)'
      /\ Begun(c) => Begun(c)'
      /\ Looking(c, t, k) => Looking(c, t, k)'
      /\ Getting(c, t, k) => Getting(c, t, k)'
      /\ RollingBack(c) => RollingBack(c)'
      /\ Failed(c) => Failed(c)'
  BY <1>2, <1>4 DEF NotBegun, Begun, Looking, Getting, RollingBack, Failed
<1>7. ~Died(c)
  BY OnlyRunning DEF Died
<1>8. Fetched(c, t, k) => Fetched(c, t, k)'
  BY <1>2, <1>3, <1>4 DEF Fetched, InTransaction, Holds
<1>9. Pushed(c, t, k) => Pushed(c, t, k)'
  BY <1>2, <1>3, <1>4 DEF Pushed, InTransaction, Holds
<1>10. Added(c, t, k) => Added(c, t, k)'
  BY <1>2, <1>3, <1>4 DEF Added, InTransaction, Holds, Incremented
<1>11. Setting(c, t, k) => Setting(c, t, k)'
  BY <1>2, <1>3, <1>4 DEF Setting, InTransaction, Holds, Incremented
<1>12. Proposed(c, t, k) => Proposed(c, t, k)'
  BY <1>2, <1>3, <1>4 DEF Proposed, Proposes, InTransaction, Holds, Incremented
<1>13. AboutToCommit(c, t, k) => AboutToCommit(c, t, k)'
  BY <1>2, <1>3, <1>4 DEF AboutToCommit, Proposes, InTransaction, Holds, Incremented
<1> QED
  BY <1>5, <1>6, <1>7, <1>8, <1>9, <1>10, <1>11, <1>12, <1>13 DEF Unfinished

-----------------------------------------------------------------------------
(* The steps of an increment itself.                                         *)

\* An increment's request that fails inside its transaction is rolled back.
LEMMA ThrowFails ==
  ASSUME TypeOK, NEW c \in Conns, NEW type \in {"FAILED", "ERROR"},
         manage_exception(c, type), in_transaction[c],
         in_transaction'[c] = in_transaction[c], at'[c] \in 2..6,
         pc'[c] = "fail" => waiting'[c] \/ exit'[c] # "none"
  PROVE  RollingBack(c)'
  BY DEF TypeOK, manage_exception, fail_transaction, RollingBack, RollbackLabels

\* A client that increments sends its next request.
LEMMA SendStage ==
  ASSUME SendersInv, SafeInv, NEW t \in TableNames, NEW k \in Keys,
         NEW c \in Adders(t, k), Send(c)
  PROVE  /\ Unfinished(c, t, k) => Unfinished(c, t, k)'
         /\ Made(c, t) => Made(c, t)'
<1>c. c \in Conns /\ program[c] = incr_value(TRUE, t, k)
  BY DEF Adders
<1>t. TypeOK /\ ClientTypes /\ LockInv(c) /\ SenderInv(c)
  BY <1>c DEF SendersInv, SafeInv, ExclusionInv, TypeInv
<1>y. /\ pc \in [Conns -> Labels] /\ in_transaction \in [Conns -> BOOLEAN]
      /\ stack \in [Conns -> Seq(Value)] /\ todo \in [Conns -> SUBSET TableNames]
      /\ locked_tables \in [Conns -> SUBSET TableNames]
      /\ req \in [Conns -> TableRequest \cup CreateRequest \cup {None}]
      /\ answer \in [Conns -> {"none", "FAILED", "ERROR"}] /\ at \in [Conns -> Nat]
  BY <1>t DEF TypeOK, ClientTypes
<1>p. /\ program[c][1] = LOGIN
      /\ program[c][2] = [op |-> "BEGIN"]
      /\ program[c][3] = GetRequest(t, k)
      /\ program[c][4] = [op |-> "PUSH", value |-> to_string(1)]
      /\ program[c][5] = [op |-> "ADD"]
      /\ program[c][6] = SetRequest(t, k)
      /\ program[c][7] = [op |-> "COMMIT"]
      /\ program[c][8] = BYE
  BY IncrementProgram
<1>h. PICK r : /\ r = program[c][at[c] + 1]
               /\ r.op = "LOGIN" => handle_login(c)
               /\ r.op # "LOGIN" => Handle(c, r)
  BY DEF Send
<1>s. /\ at'[c] = at[c] + 1 /\ Hear(c, at[c] + 1)
      /\ exit[c] = "none" /\ at[c] \in Nat /\ at[c] + 1 \in 1..8
  <2>1. at[c] + 1 \in DOMAIN program[c]
    BY <1>c, SendsNext
  <2>2. DOMAIN program[c] = 1..8
    BY IncrementProgram
  <2> QED
    BY <1>c, <1>y, <2>1, <2>2 DEF Send
<1>r. status = "running" /\ pc[c] = "read"
  BY <1>c, <1>t, <1>h, RequestStep
<1>n. ~waiting[c]
  BY DEF Send
<1>m. kvp' = kvp /\ proposed' = proposed
  <2>1. ClientStep(c)
    BY <1>c, SendIsStep
  <2>2. ~WriteStep(c)
    BY <1>r DEF WriteStep, commit_table, rollback_table, set_table_value, autocommit,
       create_assign, At
  <2> QED
    BY <1>c, <2>1, <2>2, OnlyWritersWrite
<1>w. pc'[c] = "fail" => waiting'[c] \/ exit'[c] # "none"
  <2>1. ~waiting'[c] => pc'[c] \in {"read", "close"}
    BY <1>c, <1>t, <1>s, Hearing
  <2> QED
    BY <2>1
<1>1. CASE NotBegun(c)
  <2>1. CASE at[c] = 0
    <3>1. handle_login(c)
      BY <1>p, <1>h, <2>1 DEF LOGIN
    <3>2. /\ pc'[c] = "read" /\ in_transaction' = in_transaction /\ stack' = stack
      BY <1>c, <1>y, <3>1 DEF handle_login, write_ok, respond
    <3>3. NotBegun(c)'
      BY <1>1, <1>s, <2>1, <3>2 DEF NotBegun, RestLabels
    <3> QED
      BY <1>1, <3>3, MadeIsDone, <1>c DEF Unfinished
  <2>2. CASE at[c] = 1
    <3>0. r.op = "BEGIN"
      BY <1>p, <1>h, <2>2
    <3>1. handle_begin(c, r) /\ ~in_transaction[c]
      BY <1>c, <1>h, <1>1, <3>0, HandlerOf DEF NotBegun
    <3>2. /\ pc'[c] = "read" /\ in_transaction'[c] /\ locked_tables'[c] = {}
          /\ stack' = stack
      BY <1>c, <1>t, <1>y, <3>1 DEF handle_begin, write_ok, respond, LockInv
    <3>3. Begun(c)'
      BY <1>1, <1>s, <2>2, <3>2 DEF NotBegun, Begun, InTransaction
    <3> QED
      BY <1>1, <3>3, MadeIsDone, <1>c DEF Unfinished
  <2> QED
    BY <1>1, <2>1, <2>2 DEF NotBegun
<1>2. CASE Begun(c)
  <2>0. r = GetRequest(t, k) /\ r.op = "GET"
    BY <1>p, <1>h, <1>2 DEF Begun, InTransaction, GetRequest
  <2>1. handle_get(c, r)
    BY <1>c, <1>h, <2>0, HandlerOf
  <2>2. /\ pc'[c] = "find" /\ req'[c] = GetRequest(t, k)
        /\ UNCHANGED <<in_transaction, locked_tables, stack>>
    BY <1>c, <1>y, <2>0, <2>1 DEF handle_get, start, session
  <2>3. Looking(c, t, k)'
    BY <1>2, <1>s, <2>2 DEF Begun, Looking, InTransaction
  <2> QED
    BY <1>2, <2>3, MadeIsDone, <1>c DEF Unfinished
<1>3. CASE Fetched(c, t, k)
  <2>1. handle_push(c, r) /\ r.value = to_string(1) /\ r \in Requests
    <3>0. r.op = "PUSH" /\ r.value = to_string(1) /\ r # LOGIN
      BY <1>p, <1>h, <1>3 DEF Fetched, InTransaction, LOGIN
    <3>1. handle_push(c, r)
      BY <1>c, <1>h, <3>0, HandlerOf
    <3>2. program[c] \in Seq(Requests \cup {LOGIN}) /\ at[c] + 1 \in DOMAIN program[c]
      BY <1>c, SendsNext
    <3> QED
      BY <1>h, <3>0, <3>1, <3>2, ElementOfSeq, LenProperties
  <2>2. r \in PushRequest
    BY <2>1, ServerAssumption DEF handle_push, Request, TableRequest, CreateRequest,
       PlainRequest, PushRequest, ArithOps
  <2>3. to_string(1) \in Value
    BY <2>1, <2>2 DEF PushRequest
  <2>4. /\ pc'[c] = "read" /\ stack'[c] = push(stack[c], to_string(1))
        /\ UNCHANGED <<in_transaction, locked_tables>>
    BY <1>c, <1>y, <2>1 DEF handle_push, write_ok, respond
  <2>5. Len(stack'[c]) = 2 /\ stack'[c][2] = to_string(1) /\ stack'[c][1] = stack[c][1]
    <3>1. stack[c] \in Seq(Value) /\ Len(stack[c]) = 1
      BY <1>c, <1>y, <1>3 DEF Fetched
    <3>2. /\ Len(push(stack[c], to_string(1))) = Len(stack[c]) + 1
          /\ push(stack[c], to_string(1))[Len(stack[c]) + 1] = to_string(1)
          /\ \A i \in 1..Len(stack[c]) : push(stack[c], to_string(1))[i] = stack[c][i]
      BY <2>3, <3>1, PushElements
    <3> QED
      BY <2>4, <3>1, <3>2
  <2>6. Pushed(c, t, k)'
    BY <1>3, <1>m, <1>s, <2>4, <2>5 DEF Fetched, Pushed, InTransaction, to_string
  <2> QED
    BY <1>3, <2>6, MadeIsDone, <1>c DEF Unfinished
<1>4. CASE Pushed(c, t, k)
  <2>0. r.op = "ADD"
    BY <1>p, <1>h, <1>4 DEF Pushed, InTransaction
  <2>1. handle_arith(c, r) /\ r.op = "ADD" /\ "ADD" \in ArithOps
    BY <1>c, <1>h, <2>0, HandlerOf DEF ArithOps
  <2>2. UNCHANGED <<in_transaction, locked_tables>>
    BY <2>1 DEF handle_arith
  <2>3. CASE ArithOutcome("ADD", stack[c]) = "OK"
    <3>1. pc'[c] = "read" /\ stack'[c] = StackAfterArith("ADD", stack[c])
      BY <1>c, <1>y, <2>1, <2>3 DEF handle_arith, write_ok, respond
    <3>2. Len(stack'[c]) = 1 /\ stack'[c][1].num = Result("ADD", kvp[t][k].num, 1)
      <4>0. PICK st \in Seq(Value) : st = stack[c]
        BY <1>c, <1>y
      <4>1. Len(st) = 2 /\ st[1].num = kvp[t][k].num /\ st[2].num = 1
        BY <1>4, <4>0 DEF Pushed
      <4>2. ArithOutcome("ADD", st) = "OK"
        BY <2>3, <4>0
      <4>3. PICK left, right : left = st[Len(st) - 1].num /\ right = st[Len(st)].num
        OBVIOUS
      <4>4. /\ Len(StackAfterArith("ADD", st)) = Len(st) - 1
            /\ StackAfterArith("ADD", st)[Len(st) - 1].num = Result("ADD", left, right)
        BY <2>1, <4>2, <4>3, ArithStack
      <4>5. left = kvp[t][k].num /\ right = 1
        BY <4>1, <4>3
      <4> QED
        BY <3>1, <4>0, <4>1, <4>4, <4>5
    <3>3. Added(c, t, k)'
      BY <1>4, <1>m, <1>s, <2>2, <3>1, <3>2
         DEF Pushed, Added, InTransaction, Incremented, Result
    <3> QED
      BY <1>4, <3>3, MadeIsDone, <1>c DEF Unfinished
  <2>4. CASE ArithOutcome("ADD", stack[c]) = "FAILED"
    <3>1. manage_exception(c, "FAILED")
      BY <2>1, <2>4 DEF handle_arith
    <3>2. RollingBack(c)'
      BY <1>c, <1>t, <1>s, <1>w, <1>4, <2>2, <3>1, ThrowFails DEF Pushed, InTransaction
    <3> QED
      BY <1>4, <3>2, MadeIsDone, <1>c DEF Unfinished
  <2>5. CASE ArithOutcome("ADD", stack[c]) \in {"abort", "sigfpe"}
    <3>1. Died(c)'
      BY <1>r, <1>s, <1>4, <2>1, <2>5 DEF handle_arith, Died, Pushed, InTransaction
    <3> QED
      BY <1>4, <3>1, MadeIsDone, <1>c DEF Unfinished
  <2> QED
    BY <2>1, <2>3, <2>4, <2>5 DEF handle_arith
<1>5. CASE Added(c, t, k)
  <2>0. r = SetRequest(t, k) /\ r.op = "SET"
    BY <1>p, <1>h, <1>5 DEF Added, InTransaction, SetRequest
  <2>1. handle_set(c, r)
    BY <1>c, <1>h, <2>0, HandlerOf
  <2>2. /\ pc'[c] = "find" /\ req'[c] = SetRequest(t, k)
        /\ UNCHANGED <<in_transaction, locked_tables, stack>>
    BY <1>c, <1>y, <1>5, <2>0, <2>1 DEF handle_set, start, session, get_size, Added
  <2>3. Setting(c, t, k)'
    BY <1>5, <1>m, <1>s, <2>2 DEF Added, Setting, InTransaction, Incremented
  <2> QED
    BY <1>5, <2>3, MadeIsDone, <1>c DEF Unfinished
<1>6. CASE Proposed(c, t, k)
  <2>0. r.op = "COMMIT"
    BY <1>p, <1>h, <1>6 DEF Proposed, InTransaction
  <2>1. handle_commit(c, r) /\ in_transaction[c]
    BY <1>c, <1>h, <1>6, <2>0, HandlerOf DEF Proposed, InTransaction
  <2>2. /\ pc'[c] = "commit" /\ todo'[c] = locked_tables[c]
        /\ UNCHANGED <<in_transaction, locked_tables>>
    BY <1>c, <1>y, <2>1 DEF handle_commit, session
  <2>3. AboutToCommit(c, t, k)'
    BY <1>6, <1>m, <1>s, <2>2 DEF Proposed, Proposes, AboutToCommit, InTransaction, Incremented
  <2> QED
    BY <1>6, <2>3, MadeIsDone, <1>c DEF Unfinished
<1>7. CASE Finished(c)
  <2>0. at[c] = 7 /\ r.op = "BYE"
    BY <1>p, <1>h, <1>s, <1>7 DEF Finished, BYE
  <2>1. handle_bye(c, r)
    BY <1>c, <1>h, <2>0, HandlerOf
  <2>2. pc'[c] = "close" /\ in_transaction' = in_transaction
    BY <1>c, <1>y, <2>1 DEF handle_bye, session
  <2>3. Finished(c)'
    BY <1>7, <1>s, <2>0, <2>2 DEF Finished, RestLabels
  <2> QED
    BY <1>7, <2>3, MadeIsDone, <1>c DEF Made
<1>8. ~Looking(c, t, k) /\ ~Getting(c, t, k) /\ ~Setting(c, t, k) /\ ~AboutToCommit(c, t, k)
      /\ ~Applied(c, t) /\ ~RollingBack(c) /\ ~Failed(c) /\ ~Died(c)
  BY <1>r, <1>s, <1>n DEF Looking, Getting, Setting, AboutToCommit, Applied, RollingBack, Failed, Died,
     InTransaction, RollbackLabels
<1> QED
  BY <1>1, <1>2, <1>3, <1>4, <1>5, <1>6, <1>7, <1>8 DEF Unfinished, Made

\* The thread of a client that increments goes on.
LEMMA WorkStage ==
  ASSUME SendersInv, SafeInv, NEW t \in TableNames, NEW k \in Keys,
         slot[t] = "table", kvp[t][k] # None, NEW c \in Adders(t, k), Work(c)
  PROVE  /\ Unfinished(c, t, k) => Unfinished(c, t, k)' \/ (commit_table(c, t) /\ Made(c, t)')
         /\ Made(c, t) => Made(c, t)'
<1>c. c \in Conns
  BY DEF Adders
<1>t. TypeOK /\ ClientTypes /\ LockInv(c) /\ SenderInv(c) /\ LocalsInv(c)
  BY <1>c DEF SendersInv, SafeInv, ExclusionInv, TypeInv
<1>y. /\ pc \in [Conns -> Labels] /\ in_transaction \in [Conns -> BOOLEAN]
      /\ stack \in [Conns -> Seq(Value)] /\ todo \in [Conns -> SUBSET TableNames]
      /\ locked_tables \in [Conns -> SUBSET TableNames]
      /\ req \in [Conns -> TableRequest \cup CreateRequest \cup {None}]
      /\ table_obj \in [Conns -> TableNames \cup {None}]
      /\ answer \in [Conns -> {"none", "FAILED", "ERROR"}]
      /\ reply \in [Conns -> Reply \cup {None}]
      /\ kvp \in [TableNames -> Pairs] /\ proposed \in [TableNames -> Pairs]
  BY <1>t DEF TypeOK
<1>s. (ThreadStep(c) \/ read_eof(c)) /\ at'[c] = at[c]
  BY DEF Work
<1>x. exit[c] # "none" => exit'[c] # "none"
  BY <1>t DEF Work, SenderInv
<1>w. /\ pc'[c] \notin {"read", "close"} /\ waiting[c] => waiting'[c]
      /\ reply'[c].type \in {"FAILED", "ERROR"} /\ waiting[c] => waiting'[c] \/ exit'[c] # "none"
  <2>1. SUFFICES ASSUME waiting[c]
                 PROVE  /\ pc'[c] \notin {"read", "close"} => waiting'[c]
                        /\ reply'[c].type \in {"FAILED", "ERROR"}
                               => waiting'[c] \/ exit'[c] # "none"
    OBVIOUS
  <2>2. exit[c] = "none" /\ Hear(c, at[c])
    BY <1>t, <2>1 DEF Work, SenderInv
  <2> QED
    BY <1>c, <1>t, <2>2, Hearing
<1>e. /\ pc[c] = "read" => /\ gone[c] /\ pc'[c] = "close" /\ exit'[c] # "none"
                           /\ UNCHANGED <<kvp, proposed, in_transaction, locked_tables, stack>>
  <2>1. SUFFICES ASSUME pc[c] = "read"
                 PROVE  /\ gone[c] /\ pc'[c] = "close" /\ exit'[c] # "none"
                        /\ UNCHANGED <<kvp, proposed, in_transaction, locked_tables, stack>>
    OBVIOUS
  <2>2. read_eof(c)
    BY <1>c, <1>s, <2>1, StepAt
  <2> QED
    BY <1>c, <1>t, <1>x, <1>y, <2>2 DEF read_eof, goto, session, process, SenderInv
<1>d. /\ pc[c] = "close" /\ ~in_transaction[c] => pc'[c] = "closed" /\ ~in_transaction'[c]
                                                  /\ Len(stack'[c]) = 0
  <2>1. SUFFICES ASSUME pc[c] = "close", ~in_transaction[c]
                 PROVE  pc'[c] = "closed" /\ ~in_transaction'[c] /\ Len(stack'[c]) = 0
    OBVIOUS
  <2>2. close_connection(c)
    BY <1>c, <1>s, <2>1, StepAt
  <2>3. stack'[c] = <<>> /\ pc'[c] = "closed" /\ ~in_transaction'[c]
    BY <1>c, <1>y, <2>1, <2>2 DEF close_connection, Delete
  <2> QED
    BY <2>3
<1>f. ASSUME Throw(c), in_transaction[c], at[c] \in 2..6, pc[c] \in {"find", "trylock"}
      PROVE  RollingBack(c)'
  <2>1. waiting[c] \/ exit[c] # "none"
    BY <1>t, <1>f DEF SenderInv, RestLabels, RollbackLabels
  <2>2. pc'[c] = "fail" => waiting'[c] \/ exit'[c] # "none"
    BY <1>w, <1>x, <2>1
  <2> QED
    BY <1>c, <1>t, <1>s, <1>f, <2>2, ThrowFails DEF Throw, session
<1>n. pc[c] # "closed" /\ status = "running"
  BY <1>c, <1>s, StepAt
<1>o. ~Died(c)
  BY <1>n DEF Died
<1>1. ASSUME NotBegun(c)
      PROVE  NotBegun(c)'
  BY <1>s, <1>e, <1>d, <1>n, <1>1 DEF NotBegun, RestLabels
<1>2. ASSUME \/ Begun(c) \/ Fetched(c, t, k) \/ Pushed(c, t, k) \/ Added(c, t, k)
             \/ Proposed(c, t, k)
      PROVE  RollingBack(c)'
  <2>1. at[c] \in 2..6 /\ pc[c] = "read" /\ in_transaction[c]
    BY <1>2 DEF Begun, Fetched, Pushed, Added, Proposed, InTransaction
  <2> QED
    BY <1>s, <1>e, <2>1 DEF RollingBack
<1>3. ASSUME Finished(c)
      PROVE  Finished(c)'
  BY <1>s, <1>e, <1>d, <1>n, <1>3 DEF Finished, RestLabels
<1>4. ASSUME Failed(c)
      PROVE  Failed(c)'
  <2>1. pc'[c] \in {"closed", "close"} /\ ~in_transaction'[c] /\ (pc'[c] = "close" => exit'[c] # "none")
    BY <1>e, <1>d, <1>n, <1>4 DEF Failed, RestLabels
  <2> QED
    BY <1>s, <1>w, <1>x, <1>4, <2>1 DEF Failed, RestLabels
<1>5. ASSUME Looking(c, t, k)
      PROVE  Looking(c, t, k)' \/ Getting(c, t, k)' \/ RollingBack(c)'
  <2>0. /\ at[c] = 3 /\ in_transaction[c] /\ locked_tables[c] = {} /\ Len(stack[c]) = 0
        /\ req[c] = GetRequest(t, k) /\ req[c].op = "GET" /\ req[c].table = t
    BY <1>5 DEF Looking, InTransaction, GetRequest
  <2>1. CASE pc[c] = "find"
    <3>1. find_table(c)
      BY <1>c, <1>s, <2>1, StepAt
    <3>2. CASE Throw(c)
      BY <1>f, <2>0, <2>1, <3>2
    <3>3. CASE ~Throw(c)
      <4>1. /\ pc'[c] = "trylock" /\ UNCHANGED <<in_transaction, locked_tables, stack, req>>
        BY <1>c, <1>y, <2>0, <3>1, <3>3 DEF find_table, goto, session
      <4> QED
        BY <1>s, <1>5, <2>0, <4>1 DEF Looking, InTransaction
    <3> QED
      BY <3>2, <3>3
  <2>2. CASE pc[c] = "trylock"
    <3>1. trylock(c) /\ table_obj[c] = t
      BY <1>c, <1>s, <1>t, <2>0, <2>2, StepAt DEF LocalsInv, TableLabels
    <3>2. CASE Throw(c)
      BY <1>f, <2>0, <2>2, <3>2
    <3>3. CASE ~Throw(c)
      <4>1. /\ pc'[c] = "has_key" /\ locked_tables'[c] = {t}
            /\ UNCHANGED <<in_transaction, stack, req>>
        BY <1>c, <1>y, <2>0, <3>1, <3>3 DEF trylock, goto, locals, Body
      <4> QED
        BY <1>s, <1>5, <2>0, <4>1 DEF Getting, InTransaction
    <3> QED
      BY <3>2, <3>3
  <2> QED
    BY <1>5, <2>1, <2>2 DEF Looking, InTransaction
<1>6. ASSUME Getting(c, t, k)
      PROVE  Getting(c, t, k)' \/ Fetched(c, t, k)'
  <2>0. /\ at[c] = 3 /\ in_transaction[c] /\ locked_tables[c] = {t} /\ Len(stack[c]) = 0
        /\ req[c] = GetRequest(t, k) /\ req[c].key = k /\ req[c].table = t
    BY <1>6 DEF Getting, InTransaction, GetRequest
  <2>1. table_obj[c] = t
    BY <1>t, <1>6, <2>0 DEF Getting, InTransaction, LocalsInv, TableLabels
  <2>2. CASE pc[c] = "has_key"
    <3>1. get_has_key(c)
      BY <1>c, <1>s, <2>2, StepAt
    <3>2. has_key(kvp[t], proposed[t], k)
      BY DEF has_key
    <3>3. pc'[c] = "get" /\ UNCHANGED <<in_transaction, locked_tables, stack, req>>
      BY <1>c, <1>y, <2>0, <2>1, <3>1, <3>2 DEF get_has_key, goto, session, locals
    <3> QED
      BY <1>s, <2>0, <3>3 DEF Getting, InTransaction
  <2>3. CASE pc[c] = "get"
    <3>1. get_table_value(c)
      BY <1>c, <1>s, <2>3, StepAt
    <3>2. get(kvp[t], proposed[t], k) = kvp[t][k]
      BY DEF get
    <3>3. /\ pc'[c] = "read" /\ stack'[c] = push(stack[c], kvp[t][k])
          /\ UNCHANGED <<kvp, in_transaction, locked_tables>>
      BY <1>c, <1>y, <2>0, <2>1, <3>1, <3>2
         DEF get_table_value, FinishIn, write_ok, respond, process
    <3>4. Len(stack'[c]) = 1 /\ stack'[c][1] = kvp[t][k]
      <4>1. stack[c] \in Seq(Value) /\ kvp[t][k] \in Value
        BY <1>c, <1>y DEF Pairs
      <4>2. /\ Len(push(stack[c], kvp[t][k])) = Len(stack[c]) + 1
            /\ push(stack[c], kvp[t][k])[Len(stack[c]) + 1] = kvp[t][k]
        BY <4>1, PushElements
      <4> QED
        BY <2>0, <3>3, <4>2
    <3> QED
      BY <1>s, <2>0, <3>3, <3>4 DEF Fetched, InTransaction
  <2> QED
    BY <1>6, <2>2, <2>3 DEF Getting, InTransaction
<1>7. ASSUME Setting(c, t, k)
      PROVE  Setting(c, t, k)' \/ Proposed(c, t, k)' \/ RollingBack(c)'
  <2>0. /\ at[c] = 6 /\ in_transaction[c] /\ locked_tables[c] = {t} /\ Len(stack[c]) = 1
        /\ stack[c][1].num = Incremented(t, k)
        /\ req[c] = SetRequest(t, k) /\ req[c].key = k /\ req[c].table = t /\ req[c].op = "SET"
    BY <1>7 DEF Setting, InTransaction, SetRequest
  <2>1. CASE pc[c] = "find"
    <3>1. find_table(c)
      BY <1>c, <1>s, <2>1, StepAt
    <3>2. CASE Throw(c)
      BY <1>f, <2>0, <2>1, <3>2
    <3>3. CASE ~Throw(c)
      <4>1. pc'[c] = "set" /\ UNCHANGED <<kvp, in_transaction, locked_tables, stack, req>>
        BY <1>c, <1>y, <2>0, <3>1, <3>3 DEF find_table, goto, session, process, Body
      <4> QED
        BY <1>s, <2>0, <4>1 DEF Setting, InTransaction, Incremented
    <3> QED
      BY <3>2, <3>3
  <2>2. CASE pc[c] = "set"
    <3>1. set_table_value(c) /\ table_obj[c] = t
      BY <1>c, <1>s, <1>t, <2>0, <2>2, StepAt DEF LocalsInv, TableLabels
    <3>2. /\ pc'[c] = "read" /\ proposed'[t] = set(proposed[t], k, get_top(stack[c]))
          /\ UNCHANGED <<kvp, in_transaction, locked_tables>>
      BY <1>c, <1>y, <2>0, <3>1 DEF set_table_value, FinishIn, write_ok, respond
    <3>3. proposed'[t][k] = stack[c][1]
      BY <1>y, <2>0, <3>2 DEF set, get_top, Pairs
    <3>4. stack[c][1] # None
      <4>1. stack[c] \in Seq(Value) /\ 1 \in 1..Len(stack[c])
        BY <1>c, <1>y, <2>0
      <4> QED
        BY <4>1, ElementOfSeq, ServerAssumption
    <3> QED
      BY <1>s, <2>0, <3>2, <3>3, <3>4 DEF Proposed, Proposes, InTransaction, Incremented
  <2> QED
    BY <1>7, <2>1, <2>2 DEF Setting, InTransaction
<1>8. ASSUME AboutToCommit(c, t, k)
      PROVE  commit_table(c, t) /\ Applied(c, t)'
  <2>0. at[c] = 7 /\ pc[c] = "commit" /\ in_transaction[c] /\ locked_tables[c] = {t} /\ todo[c] = {t}
    BY <1>8 DEF AboutToCommit, InTransaction
  <2>1. commit_table(c, t)
    <3>1. commit_done(c) \/ \E u \in TableNames : commit_table(c, u)
      BY <1>c, <1>s, <2>0, StepAt
    <3> QED
      BY <2>0, <3>1 DEF commit_done, commit_table
  <2>2. pc'[c] = "commit_unlock" /\ UNCHANGED <<in_transaction, locked_tables>>
    BY <1>c, <1>y, <2>1 DEF commit_table, goto, session
  <2> QED
    BY <1>s, <2>0, <2>1, <2>2 DEF Applied, InTransaction
<1>9. ASSUME Applied(c, t)
      PROVE  Applied(c, t)' \/ Finished(c)'
  <2>0. at[c] = 7 /\ in_transaction[c] /\ locked_tables[c] = {t}
    BY <1>9 DEF Applied, InTransaction
  <2>1. CASE pc[c] = "commit_unlock"
    <3>1. commit_unlock(c) /\ table_obj[c] \in todo[c] /\ todo[c] \subseteq {t}
      BY <1>c, <1>s, <1>t, <2>0, <2>1, StepAt DEF LocalsInv, LockInv, LoopLabels
    <3>2. /\ pc'[c] = "commit" /\ todo'[c] = todo[c] \ {table_obj[c]}
          /\ UNCHANGED <<in_transaction, locked_tables>>
      BY <1>c, <1>y, <3>1 DEF commit_unlock, next_table, session
    <3>3. todo'[c] = {}
      BY <3>1, <3>2
    <3> QED
      BY <1>s, <2>0, <3>2, <3>3 DEF Applied, InTransaction
  <2>2. CASE pc[c] = "commit"
    <3>1. commit_done(c)
      <4>1. commit_done(c) \/ \E u \in TableNames : commit_table(c, u)
        BY <1>c, <1>s, <2>2, StepAt
      <4> QED
        BY <1>9, <2>2, <4>1 DEF Applied, commit_table
    <3>2. pc'[c] = "read" /\ ~in_transaction'[c]
      BY <1>c, <1>y, <3>1 DEF commit_done, EndTransaction, write_ok, respond
    <3> QED
      BY <1>s, <2>0, <3>2 DEF Finished, RestLabels
  <2> QED
    BY <1>9, <2>1, <2>2 DEF Applied, InTransaction
<1>10. ASSUME RollingBack(c)
       PROVE  RollingBack(c)' \/ Failed(c)'
  <2>0. /\ at[c] \in 2..6 /\ in_transaction[c]
        /\ exit[c] # "none" \/ (pc[c] # "close" /\ answer[c] # "none" /\ waiting[c])
    BY <1>10 DEF RollingBack
  <2>1. CASE pc[c] = "close"
    <3>1. close_connection(c)
      BY <1>c, <1>s, <2>1, StepAt
    <3>2. pc'[c] = "fail" /\ in_transaction' = in_transaction
      BY <1>c, <1>y, <2>0, <3>1 DEF close_connection, fail_transaction, session
    <3> QED
      BY <1>s, <1>x, <2>0, <2>1, <3>2 DEF RollingBack, RollbackLabels
  <2>2. ASSUME pc'[c] \in RollbackLabels, in_transaction' = in_transaction, answer' = answer
        PROVE  RollingBack(c)'
    BY <1>s, <1>w, <1>x, <2>0, <2>2 DEF RollingBack, RollbackLabels
  <2>3. CASE pc[c] = "fail_unlock"
    <3>1. fail_unlock(c)
      BY <1>c, <1>s, <2>3, StepAt
    <3>2. pc'[c] = "fail" /\ in_transaction' = in_transaction /\ answer' = answer
      BY <1>c, <1>y, <3>1 DEF fail_unlock, next_table, session
    <3> QED
      BY <2>2, <3>2 DEF RollbackLabels
  <2>4. CASE pc[c] = "fail"
    <3>1. fail_done(c) \/ \E u \in TableNames : rollback_table(c, u)
      BY <1>c, <1>s, <2>4, StepAt
    <3>2. ASSUME NEW u \in TableNames, rollback_table(c, u)
          PROVE  RollingBack(c)'
      <4>1. pc'[c] = "fail_unlock" /\ in_transaction' = in_transaction /\ answer' = answer
        BY <1>c, <1>y, <3>2 DEF rollback_table, goto, session
      <4> QED
        BY <2>2, <4>1 DEF RollbackLabels
    <3>3. CASE fail_done(c) /\ answer[c] # "none"
      <4>1. /\ pc'[c] = "read" /\ ~in_transaction'[c] /\ reply'[c] = msg(answer[c])
            /\ answer[c] \in {"FAILED", "ERROR"}
        BY <1>c, <1>y, <3>3 DEF fail_done, EndTransaction, respond, write
      <4>2. reply'[c].type \in {"FAILED", "ERROR"}
        BY <4>1 DEF msg
      <4> QED
        BY <1>s, <1>w, <1>x, <2>0, <4>1, <4>2 DEF Failed, RestLabels
    <3>4. CASE fail_done(c) /\ answer[c] = "none"
      <4>1. pc'[c] = "closed" /\ ~in_transaction'[c]
        BY <1>c, <1>y, <3>4 DEF fail_done, Delete
      <4> QED
        BY <1>s, <1>x, <2>0, <3>4, <4>1 DEF Failed, RestLabels
    <3> QED
      BY <3>1, <3>2, <3>3, <3>4
  <2> QED
    BY <1>10, <2>1, <2>3, <2>4 DEF RollingBack, RollbackLabels
<1> QED
  BY <1>o, <1>1, <1>2, <1>3, <1>4, <1>5, <1>6, <1>7, <1>8, <1>9, <1>10 DEF Unfinished, Made

\* A step that leaves the connection, the requests and the table alone.
LEMMA StageStays ==
  ASSUME NEW c \in Conns, NEW t \in TableNames, NEW k \in Keys,
         UNCHANGED <<pc, req, todo, answer, stack, in_transaction, locked_tables, kvp, proposed, at>>,
         status' = status \/ status' # "running",
         exit[c] # "none" => exit'[c] # "none",
         waiting[c] => waiting'[c] \/ exit'[c] # "none"
  PROVE  /\ Unfinished(c, t, k) => Unfinished(c, t, k)'
         /\ Made(c, t) => Made(c, t)'
<1>1. \A i, labels, tables : InTransaction(c, i, labels, tables) => InTransaction(c, i, labels, tables)'
  BY DEF InTransaction
<1>2. Made(c, t) => Made(c, t)'
  BY <1>1 DEF Made, Applied, Finished
<1>3. /\ NotBegun(c) => NotBegun(c)'
      /\ Begun(c) => Begun(c)'
      /\ Looking(c, t, k) => Looking(c, t, k)'
      /\ Getting(c, t, k) => Getting(c, t, k)'
      /\ RollingBack(c) => RollingBack(c)'
      /\ Failed(c) => Failed(c)'
      /\ Died(c) => Died(c)'
  BY <1>1 DEF NotBegun, Begun, Looking, Getting, RollingBack, Failed, Died
<1>4. /\ Fetched(c, t, k) => Fetched(c, t, k)'
      /\ Pushed(c, t, k) => Pushed(c, t, k)'
      /\ Added(c, t, k) => Added(c, t, k)'
      /\ Setting(c, t, k) => Setting(c, t, k)'
  BY <1>1 DEF Fetched, Pushed, Added, Setting, Incremented
<1>5. /\ Proposed(c, t, k) => Proposed(c, t, k)'
      /\ AboutToCommit(c, t, k) => AboutToCommit(c, t, k)'
  BY <1>1 DEF Proposed, Proposes, AboutToCommit, Incremented
<1> QED
  BY <1>2, <1>3, <1>4, <1>5 DEF Unfinished

\* The steps of a client and its thread, by who takes them.
Moves(d) == ServerStep(d) /\ (connect(d) \/ Send(d) \/ Work(d) \/ CloseSocket(d) \/ Killed(d))

LEMMA OthersUnmoved ==
  ASSUME SendersInv, NEW d \in Conns, Moves(d)
  PROVE  /\ program' = program
         /\ \A c \in Conns \ {d} : at'[c] = at[c] /\ waiting'[c] = waiting[c] /\ exit'[c] = exit[c]
<1>t. /\ ClientTypes /\ SenderInv(d) /\ at \in [Conns -> Nat] /\ waiting \in [Conns -> BOOLEAN]
      /\ exit \in [Conns -> {"none", "0", "1", "uncaught", "killed"}]
  BY DEF SendersInv, ClientTypes
<1>1. CASE connect(d) \/ CloseSocket(d) \/ Killed(d)
  BY <1>t, <1>1 DEF connect, CloseSocket, Killed, client
<1>2. CASE Send(d)
  <2>1. /\ exit[d] = "none" /\ Hear(d, at[d] + 1) /\ program' = program
        /\ at' = [at EXCEPT ![d] = at[d] + 1]
    BY <1>2 DEF Send
  <2> QED
    BY <1>t, <2>1, Hearing
<1>3. CASE Work(d)
  <2>1. program' = program /\ at' = at
    BY <1>3 DEF Work
  <2>2. CASE waiting[d]
    <3>1. exit[d] = "none" /\ Hear(d, at[d])
      BY <1>t, <1>3, <2>2 DEF Work, SenderInv
    <3> QED
      BY <1>t, <2>1, <3>1, Hearing
  <2>3. CASE ~waiting[d]
    BY <1>3, <2>1, <2>3 DEF Work
  <2> QED
    BY <2>2, <2>3
<1> QED
  BY <1>1, <1>2, <1>3 DEF Moves

\* How the stage of an increment changes when somebody moves.
LEMMA StageMoves ==
  ASSUME SendersInv, SafeInv, NEW t \in TableNames, NEW k \in Keys,
         slot[t] = "table", kvp[t][k] # None, NEW c \in Adders(t, k),
         NEW d \in Conns, Moves(d)
  PROVE  /\ Unfinished(c, t, k)
                => Unfinished(c, t, k)' \/ (c = d /\ commit_table(c, t) /\ Made(c, t)')
         /\ Made(c, t) => Made(c, t)'
<1>c. c \in Conns
  BY DEF Adders
<1>1. CASE c # d
  BY <1>c, <1>1, OthersUnmoved, OthersStay DEF Moves
<1>2. CASE c = d /\ Send(c)
  BY <1>2, SendStage
<1>3. CASE c = d /\ Work(c)
  BY <1>3, WorkStage
<1>4. CASE c = d /\ connect(c)
  <2>1. /\ at[c] = 0 /\ pc[c] = "closed" /\ pc'[c] = "read"
        /\ UNCHANGED <<in_transaction, stack, at>>
    BY <1>c, <1>4 DEF SendersInv, TypeInv, TypeOK, connect, Accept, At, goto, session, client
  <2>2. Unfinished(c, t, k) => NotBegun(c)
    BY <2>1 DEF Unfinished, Begun, Looking, Getting, Fetched, Pushed, Added, Setting, Proposed,
       AboutToCommit, RollingBack, Failed, Died, InTransaction
  <2>3. NotBegun(c) => NotBegun(c)'
    BY <2>1 DEF NotBegun, RestLabels
  <2>4. ~Made(c, t)
    BY <2>1 DEF Made, Applied, Finished, InTransaction
  <2> QED
    BY <2>2, <2>3, <2>4 DEF Unfinished
<1>5. CASE c = d /\ (CloseSocket(c) \/ Killed(c))
  <2>1. /\ UNCHANGED <<status, pc, req, todo, answer, stack, in_transaction, locked_tables, kvp,
                       proposed, at>>
        /\ exit'[c] # "none"
    BY <1>c, <1>5 DEF SendersInv, ClientTypes, CloseSocket, Killed, ClientLeaves, client,
       process, session, locals
  <2> QED
    BY <1>c, <2>1, StageStays
<1> QED
  BY <1>1, <1>2, <1>3, <1>4, <1>5 DEF Moves

-----------------------------------------------------------------------------
(* The count.                                                                *)

\* A multiple added does not change the rest.
LEMMA SameRest ==
  ASSUME NEW m \in Nat \ {0}, NEW q \in Int, NEW e \in Int
  PROVE  (m * q + e) % m = e % m
<1>1. PICK d \in Int : d = m * q + e
  OBVIOUS
<1>2. PICK q1 \in Int, r1 \in Int : r1 = e % m /\ e = m * q1 + r1 /\ 0 <= r1 /\ r1 < m
  BY Division
<1>3. PICK q2 \in Int, r2 \in Int : r2 = d % m /\ d = m * q2 + r2 /\ 0 <= r2 /\ r2 < m
  BY Division
<1>4. PICK l \in Int : l = q + q1 - q2
  OBVIOUS
<1>5. r2 - r1 = m * l
  BY <1>1, <1>2, <1>3, <1>4
<1>6. CASE l >= 1
  BY <1>2, <1>3, <1>5, <1>6
<1>7. CASE l <= -1
  BY <1>2, <1>3, <1>5, <1>7
<1>8. CASE l = 0
  <2>1. m * 0 = 0
    BY SMT
  <2>2. r2 - r1 = 0
    BY <1>5, <1>8, <2>1, Zenon
  <2>3. r2 = r1
    BY <2>2
  <2> QED
    BY <1>1, <1>2, <1>3, <2>3, Zenon
<1> QED
  BY <1>4, <1>6, <1>7, <1>8

\* Incrementing a wrapped number is wrapping the incremented one.
LEMMA WrapNext ==
  ASSUME NEW n \in Int
  PROVE  Wrap(Wrap(n) + 1) = Wrap(n + 1)
<1>1. PICK m \in Nat \ {0} : m = 2 * (IntMax + 1)
  BY IntMaxAssumption
<1>2. PICK low \in Int : low = IntMin
  BY IntMaxAssumption DEF IntMin
<1>3. PICK d \in Int : d = n - low
  OBVIOUS
<1>4. PICK q, r \in Int : r = d % m /\ d = m * q + r /\ 0 <= r /\ r < m
  BY Division
<1>5. Wrap(n) = r + low
  BY <1>1, <1>2, <1>3, <1>4 DEF Wrap
<1>6. Wrap(Wrap(n) + 1) = ((r + 1) % m) + low
  <2>1. Wrap(n) + 1 - low = r + 1
    BY <1>5
  <2> QED
    BY <1>1, <1>2, <2>1 DEF Wrap
<1>7. Wrap(n + 1) = ((m * q + (r + 1)) % m) + low
  <2>1. n + 1 - low = d + 1
    BY <1>3
  <2>2. PICK p \in Int : p = m * q
    OBVIOUS
  <2>3. d + 1 = p + (r + 1)
    BY <1>4, <2>2
  <2> QED
    BY <1>1, <1>2, <2>1, <2>2, <2>3 DEF Wrap
<1>8. (m * q + (r + 1)) % m = (r + 1) % m
  <2>1. r + 1 \in Int
    OBVIOUS
  <2> QED
    BY <2>1, SameRest, Zenon
<1> QED
  BY <1>6, <1>7, <1>8

-----------------------------------------------------------------------------
(* The invariant is inductive.                                               *)

\* No program is exchanged for another.
LEMMA KnownStay ==
  ASSUME SendersInv, ClientsNext \/ UNCHANGED <<vars, client>>
  PROVE  KnownKeys' = KnownKeys
<1>1. program' = program
  <2>1. \A d \in Conns : Moves(d) => program' = program
    BY OthersUnmoved
  <2> QED
    BY <2>1, ClientsStep DEF Moves, LostServer, client
<1> QED
  BY <1>1 DEF KnownKeys

\* With known keys no GET misses its key, and nobody unlocks a table twice.
LEMMA KnownAreFound ==
  ASSUME KnownKeys', SendersInv', KeysStay, NEW c \in Conns
  PROVE  GetsFound(c)
<1> SUFFICES ASSUME pc'[c] = "find", req'[c].op = "GET"
             PROVE  kvp[req'[c].table][req'[c].key] # None
  BY DEF GetsFound, KeyPresent
<1>1. req'[c] \in TableRequest
  BY DEF SendersInv, TypeInv, LocalsInv, RequestLabels, TableLabels
<1>2. req'[c] # None
  BY <1>1, ServerAssumption DEF Request
<1>3. PICK i \in DOMAIN (program'[c]) : req'[c] = program'[c][i]
  BY <1>2 DEF SendersInv, SenderInv
<1>4. req'[c].table \in DOMAIN InitialTables /\ InitialTables[req'[c].table][req'[c].key] # None
  BY <1>3 DEF KnownKeys
<1>5. req'[c].key \in Keys
  BY <1>1 DEF TableRequest
<1> QED
  BY <1>4, <1>5 DEF KeysStay

LEMMA SafeStep ==
  ASSUME SendersInv, SafeInv, KeysStay, ~MissingKeyGets \/ KnownKeys,
         ClientsNext \/ UNCHANGED <<vars, client>>
  PROVE  SendersInv' /\ SafeInv'
<1>1. SendersInv' /\ [Next]_vars
  BY SendersStep, ClientsAreAllowed
<1>2. ~MissingKeyGets \/ \A c \in Conns : GetsFound(c)
  BY <1>1, KnownStay, KnownAreFound
<1>3. ExclusionInv' /\ ReleaseInv'
  BY <1>1, <1>2, ExclusionStep, ReleaseStep DEF SafeInv
<1> QED
  BY <1>1, <1>3 DEF SafeInv

\* The tables and keys of the start stay.
LEMMA KeysStayStep ==
  ASSUME SendersInv, SafeInv, KeysStay, ClientsNext \/ UNCHANGED <<vars, client>>
  PROVE  KeysStay'
<1>1. ASSUME NEW d \in Conns, ServerStep(d)
      PROVE  /\ \A t \in TableNames : slot[t] = "table" => slot'[t] = "table"
             /\ \A t \in TableNames, k \in Keys : kvp[t][k] # None => kvp'[t][k] # None
  BY <1>1, StepYields DEF SafeInv, ServerStep, Yields
<1>2. (\E c, d \in Conns : data_race(c, d)) \/ UNCHANGED vars => UNCHANGED <<slot, kvp>>
  BY DEF data_race, vars, process
<1>3. \A t \in DOMAIN InitialTables : t \in TableNames
  BY ServerAssumption
<1>4. CASE \E d \in Conns : ServerStep(d)
  BY <1>1, <1>3, <1>4 DEF KeysStay
<1>5. CASE UNCHANGED <<slot, kvp>>
  BY <1>5 DEF KeysStay
<1> QED
  BY <1>2, <1>4, <1>5, ClientsStep

\* What others propose for the key is gone before anybody reads or commits it.
LEMMA PendingStep ==
  ASSUME SendersInv, SafeInv, SafeInv', NEW d \in Conns, ServerStep(d), program' = program,
         NEW t \in TableNames, NEW k \in Keys, slot[t] = "table",
         Setters(t, k) \subseteq Adders(t, k), NothingElsePending(t, k)
  PROVE  NothingElsePending(t, k)'
<1>a. Adders(t, k)' = Adders(t, k) /\ Adders(t, k) \subseteq Conns
  BY DEF Adders
<1>t. kvp \in [TableNames -> Pairs] /\ proposed \in [TableNames -> Pairs]
  BY DEF SendersInv, TypeInv, TypeOK
<1>o. \A c \in Conns \ {d} : Holds(c, t)' <=> Holds(c, t)
  BY OthersGoOn, StepYields DEF SafeInv, ServerStep
<1>1. ASSUME NEW a \in Adders(t, k), Holds(a, t)
      PROVE  NothingElsePending(t, k)'
  <2>1. CASE a # d
    BY <1>a, <1>o, <1>1, <2>1 DEF NothingElsePending
  <2>2. CASE a = d /\ Holds(d, t)'
    BY <1>a, <1>1, <2>2 DEF NothingElsePending
  <2>3. CASE a = d /\ ~Holds(d, t)'
    <3>1. \A c \in Conns : ~Holds(c, t)'
      BY <1>o, <1>1, <2>3 DEF SafeInv, ExclusionInv, MutualExclusion
    <3>2. ASSUME NEW c \in Conns, Cleans(c, t)'
          PROVE  FALSE
      <4>1. ControlInv(c)'
        BY DEF SafeInv, ReleaseInv
      <4>2. Holds(c, t)'
        BY <3>2, <4>1 DEF Cleans, Holds, ControlInv, LoopLabels
      <4> QED
        BY <3>1, <4>2
    <3>3. CleanTable(t)'
      BY <3>2 DEF SafeInv, ReleaseInv, NoOrphanChange
    <3> QED
      BY <3>3 DEF CleanTable, NothingElsePending
  <2> QED
    BY <2>1, <2>2, <2>3
<1>2. ASSUME \A a \in Adders(t, k) : ~Holds(a, t)
      PROVE  proposed'[t][k] \in {None, kvp'[t][k]}
  <2>1. proposed[t][k] \in {None, kvp[t][k]}
    BY <1>2 DEF NothingElsePending
  <2>2. CASE kvp'[t] = kvp[t] /\ proposed'[t] = proposed[t]
    BY <2>1, <2>2
  <2>3. CASE kvp'[t] = commit_changes(kvp[t], proposed[t]) /\ proposed'[t] = proposed[t]
    BY <2>1, <2>3 DEF commit_changes
  <2>4. CASE proposed'[t] = NoPairs
    BY <2>4 DEF NoPairs
  <2>5. CASE /\ kvp'[t] = kvp[t] /\ Holds(d, t)
             /\ req[d] \in TableRequest /\ req[d].op = "SET" /\ req[d].table = t
             /\ proposed'[t] = set(proposed[t], req[d].key, get_top(stack[d]))
    <3>1. req[d].key # k
      <4>1. SUFFICES ASSUME req[d].key = k
                     PROVE  FALSE
        OBVIOUS
      <4>2. req[d] = SetRequest(t, k)
        BY <2>5, <4>1 DEF TableRequest, SetRequest
      <4>3. req[d] # None
        BY <2>5, ServerAssumption DEF Request
      <4>4. PICK i \in DOMAIN program[d] : req[d] = program[d][i]
        BY <4>3 DEF SendersInv, SenderInv
      <4>5. d \in Setters(t, k)
        BY <4>2, <4>4 DEF Setters, SetRequest
      <4> QED
        BY <1>2, <2>5, <4>5
    <3>2. proposed'[t][k] = proposed[t][k]
      BY <1>t, <2>5, <3>1 DEF set, Pairs
    <3> QED
      BY <2>1, <2>5, <3>2
  <2> QED
    BY <2>2, <2>3, <2>4, <2>5, MapEffects
<1> QED
  BY <1>1, <1>2 DEF NothingElsePending

\* The stage tells after a step, too, whether the increment is made.
LEMMA MadeIsDoneNext ==
  ASSUME NEW c \in Conns, NEW t, NEW k
  PROVE  /\ Unfinished(c, t, k)' => ~Done(c, t)'
         /\ Made(c, t)' => Done(c, t)'
<1> USE DEF Done, InTransaction, RestLabels, RollbackLabels
<1>1. Made(c, t)' => Done(c, t)'
  BY DEF Made, Applied, Finished
<1>2. Unfinished(c, t, k)' => at'[c] \in 0..6 \/ AboutToCommit(c, t, k)'
  BY DEF Unfinished, NotBegun, Begun, Looking, Getting, Fetched, Pushed, Added, Setting,
     Proposed, RollingBack, Failed, Died
<1>3. AboutToCommit(c, t, k)' => ~Done(c, t)'
  BY DEF AboutToCommit
<1> QED
  BY <1>1, <1>2, <1>3

\* A thread that commits table t is, if its client increments, about to make
\* the increment.
LEMMA CommittingStage ==
  ASSUME NEW c \in Conns, NEW t, NEW k, Stage(c, t, k)
  PROVE  /\ pc[c] # "autocommit"
         /\ pc[c] = "commit" /\ t \in todo[c] => AboutToCommit(c, t, k)
<1> USE DEF InTransaction, RestLabels, RollbackLabels
<1>1. Made(c, t) => pc[c] # "autocommit" /\ (pc[c] = "commit" => todo[c] = {})
  BY DEF Made, Applied, Finished
<1>2. Unfinished(c, t, k) => pc[c] \notin {"autocommit", "commit"} \/ AboutToCommit(c, t, k)
  BY DEF Unfinished, NotBegun, Begun, Looking, Getting, Fetched, Pushed, Added, Setting,
     Proposed, RollingBack, Failed, Died
<1>3. AboutToCommit(c, t, k) => pc[c] = "commit"
  BY DEF AboutToCommit
<1> QED
  BY <1>1, <1>2, <1>3 DEF Stage

\* The value of the key changes only with an increment that is made.
LEMMA TotalStep ==
  ASSUME SendersInv, SafeInv, NEW d \in Conns, Moves(d),
         NEW t \in DOMAIN InitialTables, NEW k \in Keys, InitialTables[t][k] # None,
         slot[t] = "table", kvp[t][k] # None, CountInv(t, k)
  PROVE  Total(t, k)' /\ \A c \in Adders(t, k) : Stage(c, t, k)'
<1> DEFINE adders == Adders(t, k)
           before == {c \in adders : Done(c, t)}
           after  == {c \in adders : Done(c, t)'}
           first  == InitialTables[t][k].num
<1>t. t \in TableNames
  BY ServerAssumption
<1>n. first \in Int
  <2>1. InitialTables[t][k] \in Value
    BY ServerAssumption DEF Pairs
  <2> QED
    BY <2>1, IntMaxAssumption DEF Value, Ints, IntMin
<1>a. program' = program /\ adders \subseteq Conns /\ Adders(t, k)' = adders
  BY OthersUnmoved DEF Adders
<1>f. Cardinality(before) \in Nat /\ IsFiniteSet(before)
  BY <1>a, ClientsAssumption, FS_Subset, FS_CardinalityType
<1>i. kvp[t][k].num = Wrap(first + Cardinality(before))
  BY DEF CountInv, Total
<1>g. Total(t, k)' <=> kvp'[t][k].num = Wrap(first + Cardinality(after))
  BY <1>a DEF Total
<1>s. ASSUME NEW c \in adders
      PROVE  /\ Unfinished(c, t, k) \/ Made(c, t)
             /\ Unfinished(c, t, k)
                   => Unfinished(c, t, k)' \/ (c = d /\ commit_table(c, t) /\ Made(c, t)')
             /\ Made(c, t) => Made(c, t)'
  BY <1>t, StageMoves DEF CountInv, Stage
<1>b. ASSUME NEW c \in adders
      PROVE  /\ Unfinished(c, t, k) => ~Done(c, t)
             /\ Made(c, t) => Done(c, t)
             /\ Unfinished(c, t, k)' => ~Done(c, t)'
             /\ Made(c, t)' => Done(c, t)'
  BY <1>a, MadeIsDone, MadeIsDoneNext
<1>1. \A c \in adders : Stage(c, t, k)'
  BY <1>s DEF Stage
<1>2. CASE d \in adders /\ commit_table(d, t)
  <2>1. AboutToCommit(d, t, k)
    BY <1>2, CommittingStage DEF CountInv, commit_table, At
  <2>2. kvp'[t][k] = proposed[t][k] /\ proposed[t][k].num = Wrap(kvp[t][k].num + 1)
    <3>1. kvp \in [TableNames -> Pairs]
      BY DEF SendersInv, TypeInv, TypeOK
    <3>2. kvp'[t] = commit_changes(kvp[t], proposed[t])
      BY <1>t, <1>2, <3>1 DEF commit_table
    <3> QED
      BY <2>1, <3>2 DEF AboutToCommit, Proposes, Incremented, commit_changes
  <2>3. d \notin before
    BY <2>1 DEF AboutToCommit, InTransaction, Done
  <2>4. Done(d, t)'
    <3>1. pc'[d] = "commit_unlock"
      BY <1>2 DEF commit_table, goto, SendersInv, TypeInv, TypeOK
    <3>2. at'[d] >= 7
      <4>1. at[d] = 7 /\ at \in [Conns -> Nat]
        BY <2>1 DEF AboutToCommit, InTransaction, SendersInv, ClientTypes
      <4>2. at'[d] = at[d] \/ at'[d] = at[d] + 1
        BY <4>1 DEF Moves, connect, Send, Work, CloseSocket, Killed, client
      <4> QED
        BY <4>1, <4>2
    <3> QED
      BY <3>1, <3>2 DEF Done
  <2>5. after = before \cup {d}
    BY <1>s, <1>b, <1>2, <2>4
  <2>6. Cardinality(after) = Cardinality(before) + 1
    BY <1>f, <2>3, <2>5, FS_AddElement
  <2> HIDE DEF before, after, first
  <2>7. PICK n \in Int : n = first + Cardinality(before)
    BY <1>n, <1>f
  <2>8. kvp'[t][k].num = Wrap(Wrap(n) + 1)
    BY <1>i, <2>2, <2>7
  <2>9. kvp'[t][k].num = Wrap(n + 1)
    BY <2>8, WrapNext
  <2>10. n + 1 = first + Cardinality(after)
    BY <1>n, <1>f, <2>6, <2>7
  <2> QED
    BY <1>1, <1>g, <2>9, <2>10
<1>3. CASE ~(d \in adders /\ commit_table(d, t))
  <2>1. after = before
    BY <1>s, <1>b, <1>3
  <2>2. kvp'[t][k] = kvp[t][k]
    <3>1. CASE kvp'[t] = kvp[t]
      BY <3>1
    <3>2. CASE /\ kvp'[t] = commit_changes(kvp[t], proposed[t]) /\ Holds(d, t)
               /\ commit_table(d, t) \/ pc[d] = "autocommit"
      <4>1. d \notin adders
        BY <1>3, <3>2, CommittingStage DEF CountInv
      <4>2. \A c \in adders : ~Holds(c, t)
        BY <1>a, <1>t, <3>2, <4>1 DEF SafeInv, ExclusionInv, MutualExclusion
      <4>3. proposed[t][k] \in {None, kvp[t][k]}
        BY <4>2 DEF CountInv, NothingElsePending
      <4> QED
        BY <3>2, <4>3 DEF commit_changes
    <3> QED
      BY <1>t, <3>1, <3>2, MapEffects DEF Moves
  <2> QED
    BY <1>i, <1>g, <1>1, <2>1, <2>2
<1> QED
  BY <1>2, <1>3

\* A client gives up or the process dies: the tables and the threads stay.
LEMMA QuietStep ==
  ASSUME SendersInv,
         \/ \E d \in Conns : LostServer(d) /\ UNCHANGED vars
         \/ \E d, e \in Conns : data_race(d, e) /\ UNCHANGED client
         \/ UNCHANGED <<vars, client>>,
         NEW t \in TableNames, NEW k \in Keys, CountInv(t, k)
  PROVE  CountInv(t, k)'
<1>y. /\ waiting \in [Conns -> BOOLEAN]
      /\ exit \in [Conns -> {"none", "0", "1", "uncaught", "killed"}]
  BY DEF SendersInv, ClientTypes
<1>1. /\ UNCHANGED <<process, pc, req, todo, answer, stack, in_transaction, locked_tables,
                     table_obj, kvp, proposed, at, program>>
      /\ status' = status \/ status' # "running"
  BY DEF LostServer, data_race, vars, process, session, locals, client
<1>2. ASSUME NEW c \in Conns
      PROVE  /\ exit[c] # "none" => exit'[c] # "none"
             /\ waiting[c] => waiting'[c] \/ exit'[c] # "none"
  BY <1>y DEF LostServer, client
<1>a. Adders(t, k)' = Adders(t, k) /\ Adders(t, k) \subseteq Conns
  BY <1>1 DEF Adders
<1>3. \A c \in Adders(t, k) : Stage(c, t, k)'
  BY <1>1, <1>2, <1>a, StageStays DEF CountInv, Stage
<1>4. NothingElsePending(t, k)'
  BY <1>1, <1>a DEF CountInv, NothingElsePending, Holds
<1>5. {c \in Adders(t, k) : Done(c, t)'} = {c \in Adders(t, k) : Done(c, t)}
  BY <1>1 DEF Done
<1>6. Total(t, k)'
  BY <1>1, <1>5, <1>a DEF CountInv, Total
<1> QED
  BY <1>3, <1>4, <1>6, <1>a DEF CountInv

LEMMA IncrementStep ==
  ASSUME IncrementInv, ~MissingKeyGets \/ KnownKeys, ClientsNext \/ UNCHANGED <<vars, client>>
  PROVE  IncrementInv'
<1>1. SendersInv /\ SafeInv /\ KeysStay
  BY DEF IncrementInv
<1>2. SendersInv' /\ SafeInv' /\ KeysStay'
  BY <1>1, SafeStep, KeysStayStep
<1>3. ASSUME NEW t \in DOMAIN InitialTables, NEW k \in Keys, Counted(t, k)'
      PROVE  CountInv(t, k)'
  <2>t. t \in TableNames
    BY ServerAssumption
  <2>p. program' = program
    <3>1. \A d \in Conns : Moves(d) => program' = program
      BY <1>1, OthersUnmoved
    <3> QED
      BY <1>1, <3>1, ClientsStep DEF Moves, LostServer, client
  <2>1. Counted(t, k)
    BY <1>3, <2>p DEF Counted, Setters, Adders
  <2>2. CountInv(t, k) /\ slot[t] = "table" /\ kvp[t][k] # None /\ InitialTables[t][k] # None
    BY <2>1 DEF IncrementInv, KeysStay, Counted
  <2>3. ASSUME NEW d \in Conns, Moves(d)
        PROVE  CountInv(t, k)'
    <3>1. Total(t, k)' /\ \A c \in Adders(t, k) : Stage(c, t, k)'
      BY <1>1, <2>2, <2>3, TotalStep
    <3>2. NothingElsePending(t, k)'
      BY <1>1, <1>2, <2>t, <2>p, <2>1, <2>2, <2>3, PendingStep DEF Moves, Counted, CountInv
    <3>3. Adders(t, k)' = Adders(t, k)
      BY <2>p DEF Adders
    <3> QED
      BY <3>1, <3>2, <3>3 DEF CountInv
  <2>4. CASE \/ \E d \in Conns : LostServer(d) /\ UNCHANGED vars
             \/ \E d, e \in Conns : data_race(d, e) /\ UNCHANGED client
             \/ UNCHANGED <<vars, client>>
    BY <1>1, <2>t, <2>2, <2>4, QuietStep
  <2> QED
    BY <1>1, <2>3, <2>4, ClientsStep DEF Moves
<1> QED
  BY <1>2, <1>3 DEF IncrementInv

LEMMA IncrementInit == ClientsInit => IncrementInv
<1> SUFFICES ASSUME ClientsInit
             PROVE  IncrementInv
  OBVIOUS
<1>1. SendersInv /\ ReleaseInv /\ ExclusionInv
  BY SendersInit, ReleaseInit, ExclusionInit DEF ClientsInit
<1>2. ASSUME NEW t \in DOMAIN InitialTables
      PROVE  slot[t] = "table" /\ kvp[t] = InitialTables[t] /\ proposed[t] = InitialTables[t]
  <2>1. t \in TableNames
    BY ServerAssumption
  <2> QED
    BY <2>1 DEF ClientsInit, Init
<1>3. KeysStay
  BY <1>2 DEF KeysStay
<1>4. ASSUME NEW t \in DOMAIN InitialTables, NEW k \in Keys, Counted(t, k)
      PROVE  CountInv(t, k)
  <2>1. \A c \in Conns : NotBegun(c)
    BY DEF ClientsInit, Init, NotBegun, RestLabels
  <2>2. \A c \in Adders(t, k) : Stage(c, t, k)
    BY <2>1 DEF Adders, Stage, Unfinished
  <2>3. NothingElsePending(t, k)
    BY <1>2 DEF NothingElsePending
  <2>4. {c \in Adders(t, k) : Done(c, t)} = {}
    <3>1. \A c \in Adders(t, k) : at[c] = 0
      BY DEF Adders, ClientsInit
    <3>2. \A c \in Adders(t, k) : ~Done(c, t)
      BY <3>1 DEF Done
    <3> QED
      BY <3>2
  <2>5. InitialTables[t][k] \in Value
    <3>1. InitialTables[t] \in Pairs
      BY ServerAssumption
    <3> QED
      BY <1>4, <3>1 DEF Pairs, Counted
  <2>6. PICK n \in Ints : n = InitialTables[t][k].num
    BY <2>5 DEF Value
  <2>7. Wrap(n + 0) = n
    <3>1. n \in Int /\ n + 0 = n
      BY IntMaxAssumption DEF Ints, IntMin
    <3> QED
      BY <3>1, WrapExact
  <2>8. Total(t, k)
    BY <1>2, <2>4, <2>6, <2>7, FS_EmptySet DEF Total
  <2> QED
    BY <2>2, <2>3, <2>8 DEF CountInv
<1> QED
  BY <1>1, <1>3, <1>4 DEF IncrementInv, SafeInv

\* The client knows of the increment when its thread has answered the COMMIT.
LEMMA CountIsBetween ==
  ASSUME SendersInv, NEW t \in TableNames, NEW k \in Keys, NEW c \in Adders(t, k),
         Stage(c, t, k)
  PROVE  /\ Committed(c) => Done(c, t)
         /\ Done(c, t) => SentCommit(c)
<1>c. c \in Conns
  BY DEF Adders
<1>p. /\ Len(program[c]) = 8
      /\ program[c][1].op # "COMMIT" /\ program[c][2].op # "COMMIT"
      /\ program[c][3].op # "COMMIT" /\ program[c][4].op # "COMMIT"
      /\ program[c][5].op # "COMMIT" /\ program[c][6].op # "COMMIT"
      /\ program[c][7].op = "COMMIT"
  <2>1. /\ LOGIN.op # "COMMIT" /\ [op |-> "BEGIN"].op # "COMMIT"
        /\ GetRequest(t, k).op # "COMMIT" /\ [op |-> "ADD"].op # "COMMIT"
        /\ SetRequest(t, k).op # "COMMIT" /\ [op |-> "COMMIT"].op = "COMMIT"
    BY DEF LOGIN, GetRequest, SetRequest
  <2>2. [op |-> "PUSH", value |-> to_string(1)].op # "COMMIT"
    OBVIOUS
  <2> QED
    BY <2>1, <2>2, IncrementProgram
<1>s. at[c] \in Nat /\ at[c] <= 8 /\ SenderInv(c)
  BY <1>c, <1>p DEF SendersInv, ClientTypes, SenderInv
<1>1. Done(c, t) => SentCommit(c)
  <2>1. SUFFICES ASSUME Done(c, t)
                 PROVE  SentCommit(c)
    OBVIOUS
  <2>2. 7 \in 1..at[c]
    BY <1>s, <2>1 DEF Done
  <2> QED
    BY <1>p, <2>2 DEF SentCommit
<1>2. ASSUME Committed(c)
      PROVE  Done(c, t)
  <2>1. at[c] >= 7
    <3>1. PICK i \in 1..at[c] : program[c][i].op = "COMMIT"
      BY <1>2 DEF Committed, SentCommit
    <3>2. i \in 1..6 \/ i >= 7
      BY <1>s, <3>1
    <3>3. i \notin 1..6
      BY <1>p, <3>1
    <3> QED
      BY <1>s, <3>1, <3>2, <3>3
  <2>2. pc[c] = "commit" => at[c] # 7
    <3>1. SUFFICES ASSUME pc[c] = "commit", at[c] = 7
                   PROVE  FALSE
      OBVIOUS
    <3>2. ~waiting[c] /\ exit[c] = "none"
      BY <1>p, <1>2, <3>1 DEF Committed
    <3> QED
      BY <1>s, <3>1, <3>2 DEF SenderInv, RestLabels, RollbackLabels
  <2>3. pc[c] = "commit" /\ t \in todo[c] => AboutToCommit(c, t, k)
    BY <1>c, CommittingStage
  <2> QED
    BY <2>1, <2>2, <2>3 DEF Done, AboutToCommit, InTransaction
<1> QED
  BY <1>1, <1>2

\* No increment of incr_value -t is lost or made twice, however many clients
\* run, whatever other programs they run and whoever is killed, wherever only
\* incr_value -t sets the key.  The GETs are for keys that are there, because
\* the clients ask for no other or because of their programs: the second
\* unlock of a GET for a missing key lets two increments into one table at the
\* same time, and one of them is lost (handle_get, handle_add, handle_set,
\* handle_commit, fail_transaction).
THEOREM NoIncrementLost ==
  ClientsSpec => [](~MissingKeyGets \/ KnownKeys => NoLostIncrement)
<1> DEFINE Inv == SendersInv /\ (~MissingKeyGets \/ KnownKeys => IncrementInv)
<1>0. ClientsInit => Inv
  BY IncrementInit DEF IncrementInv
<1>1. Inv /\ [ClientsNext]_<<vars, client>> => Inv'
  BY SendersStep, KnownStay, IncrementStep
<1>2. ASSUME IncrementInv
      PROVE  NoLostIncrement
  <2> SUFFICES ASSUME NEW t \in DOMAIN InitialTables, NEW k \in Keys,
                      Setters(t, k) \subseteq Adders(t, k), InitialTables[t][k] # None
               PROVE  \E n \in Cardinality({c \in Adders(t, k) : Committed(c)})
                               ..Cardinality({c \in Adders(t, k) : SentCommit(c)}) :
                          kvp[t][k].num = Wrap(InitialTables[t][k].num + n)
    BY DEF NoLostIncrement
  <2> DEFINE known == {c \in Adders(t, k) : Committed(c)}
             done  == {c \in Adders(t, k) : Done(c, t)}
             sent  == {c \in Adders(t, k) : SentCommit(c)}
  <2>1. t \in TableNames /\ SendersInv /\ CountInv(t, k)
    BY <1>2, ServerAssumption DEF IncrementInv, Counted
  <2>2. \A c \in Adders(t, k) : (Committed(c) => Done(c, t)) /\ (Done(c, t) => SentCommit(c))
    BY <2>1, CountIsBetween DEF CountInv
  <2>3. sent \subseteq Conns /\ done \subseteq sent /\ known \subseteq done
    BY <2>2 DEF Adders
  <2>4. kvp[t][k].num = Wrap(InitialTables[t][k].num + Cardinality(done))
    BY <2>1 DEF CountInv, Total
  <2> HIDE DEF known, done, sent
  <2>5. IsFiniteSet(sent) /\ IsFiniteSet(done) /\ IsFiniteSet(known)
    BY <2>3, ClientsAssumption, FS_Subset
  <2>6. /\ Cardinality(known) \in Nat /\ Cardinality(done) \in Nat /\ Cardinality(sent) \in Nat
        /\ Cardinality(known) <= Cardinality(done) /\ Cardinality(done) <= Cardinality(sent)
    BY <2>3, <2>5, FS_Subset, FS_CardinalityType
  <2>7. Cardinality(done) \in Cardinality(known)..Cardinality(sent)
    BY <2>6
  <2> QED
    BY <2>4, <2>7 DEF known, sent
<1>3. Inv => (~MissingKeyGets \/ KnownKeys => NoLostIncrement)
  BY <1>2
<1> QED
  BY <1>0, <1>1, <1>3, PTL DEF ClientsSpec

-----------------------------------------------------------------------------
(* What the programs spare the server.                                       *)

\* Programs that ask only for keys the tables have from the start never make
\* the server unlock a table twice, although the server would let them: for
\* any number of clients, killed or not, the locks exclude each other, no two
\* threads race for the maps of a table, an unlocked table is clean,
\* transactions are isolated and the server implements the transactional store
\* (handle_get, get_table_value).
THEOREM KnownKeysAreSafe ==
  ClientsSpec /\ KnownKeys => /\ [](MutualExclusion /\ NoTableRace /\ CleanWhenUnlocked)
                              /\ Isolation
                              /\ ImplementsStore
<1> DEFINE Inv == KnownKeys /\ SendersInv /\ SafeInv /\ KeysStay
<1>1. ClientsInit /\ KnownKeys => Inv
  BY IncrementInit DEF IncrementInv
<1>2. Inv /\ [ClientsNext]_<<vars, client>> => Inv' /\ [Isolated]_vars
  BY KnownStay, SafeStep, KeysStayStep, ClientsAreAllowed, StepIsIsolated
<1>3. Inv => MutualExclusion /\ NoTableRace /\ CleanWhenUnlocked
  BY ExclusionPreventsRaces, SafeIsClean DEF SafeInv, ExclusionInv
<1>4. ClientsInit /\ KnownKeys => Store!Init
  BY <1>1, SafeSeen, StoreInit DEF ClientsInit
<1>5. Inv /\ Inv' /\ [ClientsNext]_<<vars, client>> => [Store!Next]_(Store!vars)
  <2>1. Inv /\ Inv' /\ [ClientsNext]_<<vars, client>> => SafeInv /\ SafeInv' /\ [Next]_vars
    BY ClientsAreAllowed
  <2>2. SafeInv => StoreInv
    BY SafeSeen
  <2>3. SafeInv' => StoreInv'
    BY <2>2, PTL
  <2> QED
    BY <2>1, <2>2, <2>3, StoreStep
<1> HIDE DEF Inv
<1> QED
  BY <1>1, <1>2, <1>3, <1>4, <1>5, PTL
  DEF ClientsSpec, Isolation, Isolated, ImplementsStore, Store!Spec

\* No client reads what another has not committed or half of what another
\* commits, for any number of clients, tables and tables in a commit, killed or
\* not, in every run of programs that ask only for keys the tables have from
\* the start (get_table_value, handle_commit, fail_transaction).
THEOREM FetchesAreClean == ClientsSpec => NoDirtyFetch
<1> DEFINE Inv == SendersInv /\ (KnownKeys => SafeInv /\ KeysStay)
<1>1. ClientsInit => Inv
  BY IncrementInit DEF IncrementInv
<1>2. Inv /\ [ClientsNext]_<<vars, client>> => Inv'
  BY SendersStep, KnownStay, SafeStep, KeysStayStep
<1>3. Inv /\ [ClientsNext]_<<vars, client>> =>
          [KnownKeys => \A c \in Conns : CleanRead(c)]_vars
  BY ClientsAreAllowed, SafeSeen, StepReadsClean
<1> HIDE DEF Inv
<1> QED
  BY <1>1, <1>2, <1>3, PTL DEF ClientsSpec, NoDirtyFetch
=============================================================================
