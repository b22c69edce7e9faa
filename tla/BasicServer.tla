---------------------------- MODULE BasicServer ----------------------------
(***************************************************************************)
(* The server process: one thread per client connection, each running      *)
(* ClientConnection::chat_with_client, all sharing the map of tables and   *)
(* the tables (client_connection.cpp, server.cpp, table.cpp).              *)
(*                                                                         *)
(* A step of a thread ends where another thread can see or change what it  *)
(* does next: at every lock, trylock and unlock of a mutex and at every    *)
(* access to the map of tables or to a table.  What a handler does to its  *)
(* own connection only is part of the step that answers the client.        *)
(***************************************************************************)
EXTENDS ValueStack, Table

CONSTANTS
    Conns,           \* the connections (threads) that can exist at a time
    TableNames,      \* the table names clients use
    Requests,        \* the valid requests clients send after LOGIN
    InitialTables,   \* tables already created and committed: name -> pairs
    MaxStack,        \* bound on a stack: no PUSH and no GET is sent beyond it
    MissingKeyGets   \* may a client GET a key its table does not hold?

Pairs == [Keys -> Value \cup {None}]

TableRequest  == [op : {"SET", "GET"}, table : TableNames, key : Keys]
CreateRequest == [op : {"CREATE"}, table : TableNames]
PushRequest   == [op : {"PUSH"}, value : Value]
PlainRequest  == [op : {"BEGIN", "COMMIT", "POP", "TOP", "BYE", "UNSUPPORTED"}
                       \cup ArithOps]
Request == TableRequest \cup CreateRequest \cup PushRequest \cup PlainRequest

ASSUME ServerAssumption ==
    /\ None \notin Value \cup Request \cup TableNames \cup Conns
    /\ Requests \subseteq Request
    /\ DOMAIN InitialTables \subseteq TableNames
    /\ \A t \in DOMAIN InitialTables : InitialTables[t] \in Pairs
    /\ MaxStack \in Nat
    /\ MissingKeyGets \in BOOLEAN

VARIABLES
    \* the process
    status,                 \* "running", or why it runs no longer
    slot,                   \* table_names: "absent", "null" or "table"
    server_mutex,           \* Server::mutex is locked
    mutex, kvp, proposed,   \* each Table: mutex, key_value_pairs, proposed_pairs
    \* each ClientConnection
    first_valid_message, in_transaction, locked_tables, stack,
    \* each thread: where it is, the request it handles, the local table_obj,
    \* the tables an iteration over locked_tables still has to visit and the
    \* answer fail_transaction's caller sends afterwards
    pc, req, table_obj, todo, answer,
    \* each client
    gone,                   \* it has closed its end of the connection
    reply                   \* the response to its last request, None until sent

process == <<slot, server_mutex, mutex, kvp, proposed>>
session == <<first_valid_message, in_transaction, locked_tables, stack>>
locals  == <<req, table_obj>>
vars    == <<status, process, session, locals, pc, todo, answer, gone, reply>>

Labels == {"closed", "read", "close", "find", "lock", "trylock", "set",
           "autocommit", "has_key", "get", "unlock", "missing", "catch",
           "commit", "commit_unlock", "fail", "fail_unlock",
           "create_lock", "create_find", "create_exists", "create_insert",
           "create_assign", "create_unlock"}

Reply == [type : {"OK", "FAILED", "ERROR", "DATA"}, value : Value \cup {None}]

msg(type) == [type |-> type, value |-> None]

TypeOK ==
    /\ status \in {"running", "abort", "sigfpe", "sigpipe", "undefined"}
    /\ slot \in [TableNames -> {"absent", "null", "table"}]
    /\ server_mutex \in BOOLEAN
    /\ mutex \in [TableNames -> BOOLEAN]
    /\ kvp \in [TableNames -> Pairs]
    /\ proposed \in [TableNames -> Pairs]
    /\ first_valid_message \in [Conns -> BOOLEAN]
    /\ in_transaction \in [Conns -> BOOLEAN]
    /\ locked_tables \in [Conns -> SUBSET TableNames]
    /\ stack \in [Conns -> Seq(Value)]
    /\ pc \in [Conns -> Labels]
    /\ req \in [Conns -> TableRequest \cup CreateRequest \cup {None}]
    /\ table_obj \in [Conns -> TableNames \cup {None}]
    /\ todo \in [Conns -> SUBSET TableNames]
    /\ answer \in [Conns -> {"none", "FAILED", "ERROR"}]
    /\ gone \in [Conns -> BOOLEAN]
    /\ reply \in [Conns -> Reply \cup {None}]

\* No client has connected yet; the tables of InitialTables were filled by
\* autocommitted SETs, which leave their pairs in the proposed map as well.
Init ==
    LET pairs(t) == IF t \in DOMAIN InitialTables THEN InitialTables[t] ELSE NoPairs
    IN  /\ status = "running"
        /\ slot = [t \in TableNames |->
                      IF t \in DOMAIN InitialTables THEN "table" ELSE "absent"]
        /\ server_mutex = FALSE
        /\ mutex = [t \in TableNames |-> FALSE]
        /\ kvp = [t \in TableNames |-> pairs(t)]
        /\ proposed = [t \in TableNames |-> pairs(t)]
        /\ first_valid_message = [c \in Conns |-> TRUE]
        /\ in_transaction = [c \in Conns |-> FALSE]
        /\ locked_tables = [c \in Conns |-> {}]
        /\ stack = [c \in Conns |-> <<>>]
        /\ pc = [c \in Conns |-> "closed"]
        /\ req = [c \in Conns |-> None]
        /\ table_obj = [c \in Conns |-> None]
        /\ todo = [c \in Conns |-> {}]
        /\ answer = [c \in Conns |-> "none"]
        /\ gone = [c \in Conns |-> FALSE]
        /\ reply = [c \in Conns |-> None]

-----------------------------------------------------------------------------
(* Control of a thread.                                                      *)

At(c, label) == status = "running" /\ pc[c] = label

\* Waiting in rio_readlineb for a request, past LOGIN.
Serving(c) == At(c, "read") /\ ~first_valid_message[c]

goto(c, label) ==
    /\ pc' = [pc EXCEPT ![c] = label]
    /\ UNCHANGED <<status, reply, todo, answer>>

\* A request that takes several steps: no answer until one of them sends it.
start(c, label) ==
    /\ pc' = [pc EXCEPT ![c] = label]
    /\ reply' = [reply EXCEPT ![c] = None]
    /\ UNCHANGED <<status, todo, answer>>

\* The handler's locals go out of scope.
DropLocals(c) ==
    /\ req' = [req EXCEPT ![c] = None]
    /\ table_obj' = [table_obj EXCEPT ![c] = None]
    /\ todo' = [todo EXCEPT ![c] = {}]
    /\ answer' = [answer EXCEPT ![c] = "none"]

\* rio_writen: the server installs no SIGPIPE handler, so that a write to a
\* client that is gone can kill the process; any other failure is ignored.
write(c, m) ==
    /\ reply' = [reply EXCEPT ![c] = m]
    /\ status' \in IF gone[c] THEN {"running", "sigpipe"} ELSE {"running"}

\* Answer the request and read the next one.
respond(c, m) ==
    /\ write(c, m)
    /\ pc' = [pc EXCEPT ![c] = "read"]
    /\ DropLocals(c)

write_ok(c) == respond(c, msg("OK"))

\* Enter fail_transaction; ans is what its caller sends when it returns.
fail_transaction(c, ans) ==
    /\ pc' = [pc EXCEPT ![c] = "fail"]
    /\ todo' = [todo EXCEPT ![c] = locked_tables[c]]
    /\ answer' = [answer EXCEPT ![c] = ans]
    /\ req' = [req EXCEPT ![c] = None]
    /\ table_obj' = [table_obj EXCEPT ![c] = None]
    /\ reply' = [reply EXCEPT ![c] = None]
    /\ UNCHANGED status

manage_exception(c, type) ==
    IF in_transaction[c] THEN fail_transaction(c, type) ELSE respond(c, msg(type))

\* A request that fails before it changed anything but the control state.
Throw(c) ==
    /\ manage_exception(c, "FAILED")
    /\ UNCHANGED <<process, session, gone>>

-----------------------------------------------------------------------------
(* The connection: accept, read, the login gate, close.                      *)

\* server_loop: a client connects and gets a ClientConnection and a thread.
Accept(c) ==
    /\ At(c, "closed")
    /\ goto(c, "read")
    /\ UNCHANGED <<process, session, locals, gone>>

\* The client closes its socket or dies, at any time.
ClientLeaves(c) ==
    /\ status = "running"
    /\ pc[c] # "closed"
    /\ ~gone[c]
    /\ gone' = [gone EXCEPT ![c] = TRUE]
    /\ UNCHANGED <<status, process, session, locals, pc, todo, answer, reply>>

\* Mutant: the end of the input is not noticed.
read_eof_ignored(c) ==
    /\ At(c, "read")
    /\ gone[c]
    /\ UNCHANGED vars

\* rio_readlineb returns 0 or -1 once the client is gone and its last request
\* has been read.
read_eof(c) ==
    /\ At(c, "read")
    /\ gone[c]
    /\ goto(c, "close")
    /\ UNCHANGED <<process, session, locals, gone>>

\* A line that decode rejects: the loop goes on after the ERROR.
read_invalid(c) ==
    /\ At(c, "read")
    /\ manage_exception(c, "ERROR")
    /\ UNCHANGED <<process, session, gone>>

\* The test in handle_login is on the pointer, never null: LOGIN is always OK.
handle_login(c) ==
    /\ At(c, "read")
    /\ first_valid_message' = [first_valid_message EXCEPT ![c] = FALSE]
    /\ write_ok(c)
    /\ UNCHANGED <<process, in_transaction, locked_tables, stack, gone>>

\* A valid request before LOGIN ends the conversation.
refuse(c) ==
    /\ At(c, "read")
    /\ first_valid_message[c]
    /\ write(c, msg("ERROR"))
    /\ pc' = [pc EXCEPT ![c] = "close"]
    /\ UNCHANGED <<process, session, locals, todo, answer, gone>>

\* The ClientConnection is deleted: its slot is as a new one finds it.
Delete(c) ==
    /\ pc' = [pc EXCEPT ![c] = "closed"]
    /\ first_valid_message' = [first_valid_message EXCEPT ![c] = TRUE]
    /\ in_transaction' = [in_transaction EXCEPT ![c] = FALSE]
    /\ locked_tables' = [locked_tables EXCEPT ![c] = {}]
    /\ stack' = [stack EXCEPT ![c] = <<>>]
    /\ gone' = [gone EXCEPT ![c] = FALSE]
    /\ reply' = [reply EXCEPT ![c] = None]
    /\ DropLocals(c)
    /\ UNCHANGED status

\* Mutant: the destructor does not fail the transaction.
close_without_rollback(c) ==
    /\ At(c, "close")
    /\ Delete(c)
    /\ UNCHANGED process

\* The loop is left: close the socket, then run the destructor.
close_connection(c) ==
    /\ At(c, "close")
    /\ \/ /\ in_transaction[c]
          /\ fail_transaction(c, "none")
          /\ UNCHANGED <<session, gone>>
       \/ /\ ~in_transaction[c]
          /\ Delete(c)
    /\ UNCHANGED process

-----------------------------------------------------------------------------
(* Requests that only concern the connection's own state.                    *)

handle_push(c, r) ==
    /\ Serving(c) /\ r.op = "PUSH"
    /\ get_size(stack[c]) < MaxStack
    /\ stack' = [stack EXCEPT ![c] = push(@, r.value)]
    /\ write_ok(c)
    /\ UNCHANGED <<process, first_valid_message, in_transaction, locked_tables, gone>>

handle_pop(c, r) ==
    /\ Serving(c) /\ r.op = "POP"
    /\ \/ /\ get_size(stack[c]) = 0
          /\ Throw(c)
       \/ /\ get_size(stack[c]) > 0
          /\ stack' = [stack EXCEPT ![c] = pop(@)]
          /\ write_ok(c)
          /\ UNCHANGED <<process, first_valid_message, in_transaction,
                         locked_tables, gone>>

handle_top(c, r) ==
    /\ Serving(c) /\ r.op = "TOP"
    /\ \/ /\ get_size(stack[c]) = 0
          /\ Throw(c)
       \/ /\ get_size(stack[c]) > 0
          /\ respond(c, [type |-> "DATA", value |-> get_top(stack[c])])
          /\ UNCHANGED <<process, session, gone>>

\* handle_add, handle_sub, handle_mul, handle_div.
handle_arith(c, r) ==
    LET outcome == ArithOutcome(r.op, stack[c])
    IN  /\ Serving(c) /\ r.op \in ArithOps
        /\ \/ /\ outcome = "OK"
              /\ stack' = [stack EXCEPT ![c] = StackAfterArith(r.op, @)]
              /\ write_ok(c)
           \/ /\ outcome = "FAILED"
              /\ stack' = [stack EXCEPT ![c] = StackAfterThrow(@)]
              /\ manage_exception(c, "FAILED")
           \/ /\ outcome \in {"abort", "sigfpe"}
              /\ status' = outcome
              /\ UNCHANGED <<stack, locals, pc, todo, answer, reply>>
        /\ UNCHANGED <<process, first_valid_message, in_transaction,
                       locked_tables, gone>>

handle_bye(c, r) ==
    /\ Serving(c) /\ r.op = "BYE"
    /\ write(c, msg("OK"))
    /\ pc' = [pc EXCEPT ![c] = "close"]
    /\ UNCHANGED <<process, session, locals, todo, answer, gone>>

\* A message that decodes but is no request (OK, DATA, ...).
handle_unsupported(c, r) ==
    /\ Serving(c) /\ r.op = "UNSUPPORTED"
    /\ Throw(c)

handle_begin(c, r) ==
    /\ Serving(c) /\ r.op = "BEGIN"
    /\ \/ /\ in_transaction[c]
          /\ Throw(c)
       \/ /\ ~in_transaction[c]
          /\ in_transaction' = [in_transaction EXCEPT ![c] = TRUE]
          /\ write_ok(c)
          /\ UNCHANGED <<process, first_valid_message, locked_tables, stack, gone>>

-----------------------------------------------------------------------------
(* The iterations over locked_tables that end a transaction.  The order of   *)
(* an unordered_set is not defined, so any table left may be the next one.   *)

handle_commit(c, r) ==
    /\ Serving(c) /\ r.op = "COMMIT"
    /\ \/ /\ ~in_transaction[c]
          /\ Throw(c)
       \/ /\ in_transaction[c]
          /\ pc' = [pc EXCEPT ![c] = "commit"]
          /\ reply' = [reply EXCEPT ![c] = None]
          /\ todo' = [todo EXCEPT ![c] = locked_tables[c]]
          /\ UNCHANGED <<status, answer, process, session, locals, gone>>

commit_table(c, t) ==
    /\ At(c, "commit")
    /\ t \in todo[c]
    /\ kvp' = [kvp EXCEPT ![t] = commit_changes(@, proposed[t])]
    /\ table_obj' = [table_obj EXCEPT ![c] = t]
    /\ goto(c, "commit_unlock")
    /\ UNCHANGED <<slot, server_mutex, mutex, proposed, session, req, gone>>

rollback_table(c, t) ==
    /\ At(c, "fail")
    /\ t \in todo[c]
    /\ proposed' = [proposed EXCEPT ![t] = rollback_changes(@)]
    /\ table_obj' = [table_obj EXCEPT ![c] = t]
    /\ goto(c, "fail_unlock")
    /\ UNCHANGED <<slot, server_mutex, mutex, kvp, session, req, gone>>

\* pthread_mutex_unlock of a default mutex checks no owner: it releases the
\* mutex whoever locked it, and does nothing to one that is not locked.
Unlock(t) == mutex' = [mutex EXCEPT ![t] = FALSE]

\* Mutant: the table stays locked.
next_table_keeps_lock(c, label, loop) ==
    /\ At(c, label)
    /\ pc' = [pc EXCEPT ![c] = loop]
    /\ todo' = [todo EXCEPT ![c] = @ \ {table_obj[c]}]
    /\ table_obj' = [table_obj EXCEPT ![c] = None]
    /\ UNCHANGED <<status, reply, answer, process, session, req, gone>>

\* Unlock the table just committed or rolled back and advance the iterator.
next_table(c, label, loop) ==
    /\ At(c, label)
    /\ Unlock(table_obj[c])
    /\ pc' = [pc EXCEPT ![c] = loop]
    /\ todo' = [todo EXCEPT ![c] = @ \ {table_obj[c]}]
    /\ table_obj' = [table_obj EXCEPT ![c] = None]
    /\ UNCHANGED <<status, reply, answer, slot, server_mutex, kvp, proposed,
                   session, req, gone>>

commit_unlock(c) == next_table(c, "commit_unlock", "commit")

fail_unlock(c) == next_table(c, "fail_unlock", "fail")

EndTransaction(c) ==
    /\ locked_tables' = [locked_tables EXCEPT ![c] = {}]
    /\ in_transaction' = [in_transaction EXCEPT ![c] = FALSE]
    /\ UNCHANGED <<first_valid_message, stack, gone>>

commit_done(c) ==
    /\ At(c, "commit")
    /\ todo[c] = {}
    /\ EndTransaction(c)
    /\ write_ok(c)
    /\ UNCHANGED process

\* Mutant: the destructor's rollback is answered like an exception's.
fail_done_answers(c) ==
    /\ At(c, "fail")
    /\ todo[c] = {}
    /\ EndTransaction(c)
    /\ respond(c, msg(answer[c]))
    /\ UNCHANGED process

\* fail_transaction returns to manage_exception or to the destructor.
fail_done(c) ==
    /\ At(c, "fail")
    /\ todo[c] = {}
    /\ \/ /\ answer[c] # "none"
          /\ EndTransaction(c)
          /\ respond(c, msg(answer[c]))
       \/ /\ answer[c] = "none"
          /\ Delete(c)
    /\ UNCHANGED process

-----------------------------------------------------------------------------
(* SET and GET.                                                              *)

handle_set(c, r) ==
    /\ Serving(c) /\ r.op = "SET"
    /\ \/ /\ get_size(stack[c]) = 0
          /\ Throw(c)
       \/ /\ get_size(stack[c]) > 0
          /\ req' = [req EXCEPT ![c] = r]
          /\ start(c, "find")
          /\ UNCHANGED <<process, session, table_obj, gone>>

\* Is the key certain to be there when the handler looks it up?  A committed
\* key is never removed, and nobody else rolls back a table this client holds.
KeyPresent(c, t, k) ==
    kvp[t][k] # None \/ (t \in locked_tables[c] /\ proposed[t][k] # None)

handle_get(c, r) ==
    /\ Serving(c) /\ r.op = "GET"
    /\ MissingKeyGets \/ KeyPresent(c, r.table, r.key)
    /\ get_size(stack[c]) < MaxStack
    /\ req' = [req EXCEPT ![c] = r]
    /\ start(c, "find")
    /\ UNCHANGED <<process, session, table_obj, gone>>

\* Where a handler that has the table's lock goes on.
Body(c) == IF req[c].op = "SET" THEN "set" ELSE "has_key"

\* Mutant: outside a transaction the table is used without its lock.
find_table_skips_lock(c) ==
    LET t == req[c].table
    IN  /\ At(c, "find")
        /\ slot[t] = "table"
        /\ table_obj' = [table_obj EXCEPT ![c] = t]
        /\ goto(c, IF ~in_transaction[c] \/ t \in locked_tables[c] THEN Body(c)
                   ELSE "trylock")
        /\ UNCHANGED <<process, session, req, gone>>

\* find_table is called without the server's lock.  While another thread is
\* inside create_table, the lookup can miss even a table that is there.
find_table(c) ==
    LET t == req[c].table
    IN  /\ At(c, "find")
        /\ \/ /\ slot[t] = "table"
              /\ table_obj' = [table_obj EXCEPT ![c] = t]
              /\ goto(c, IF ~in_transaction[c] THEN "lock"
                         ELSE IF t \in locked_tables[c] THEN Body(c)
                         ELSE "trylock")
              /\ UNCHANGED <<process, session, req, gone>>
           \/ /\ slot[t] # "table" \/ \E d \in Conns : pc[d] = "create_assign"
              /\ Throw(c)

\* Mutant: lock() does not wait.
lock_at_once(c) ==
    /\ At(c, "lock")
    /\ mutex' = [mutex EXCEPT ![table_obj[c]] = TRUE]
    /\ goto(c, Body(c))
    /\ UNCHANGED <<slot, server_mutex, kvp, proposed, session, locals, gone>>

lock(c) ==
    /\ At(c, "lock")
    /\ ~mutex[table_obj[c]]
    /\ mutex' = [mutex EXCEPT ![table_obj[c]] = TRUE]
    /\ goto(c, Body(c))
    /\ UNCHANGED <<slot, server_mutex, kvp, proposed, session, locals, gone>>

\* Mutant: the result of trylock is ignored.
trylock_unchecked(c) ==
    LET t == table_obj[c]
    IN  /\ At(c, "trylock")
        /\ mutex' = [mutex EXCEPT ![t] = TRUE]
        /\ locked_tables' = [locked_tables EXCEPT ![c] = @ \cup {t}]
        /\ goto(c, Body(c))
        /\ UNCHANGED <<slot, server_mutex, kvp, proposed, locals, gone,
                       first_valid_message, in_transaction, stack>>

trylock(c) ==
    LET t == table_obj[c]
    IN  /\ At(c, "trylock")
        /\ \/ /\ ~mutex[t]
              /\ mutex' = [mutex EXCEPT ![t] = TRUE]
              /\ locked_tables' = [locked_tables EXCEPT ![c] = @ \cup {t}]
              /\ goto(c, Body(c))
              /\ UNCHANGED <<slot, server_mutex, kvp, proposed, locals, gone,
                             first_valid_message, in_transaction, stack>>
           \/ /\ mutex[t]
              /\ Throw(c)

\* Inside a transaction the handler is done; otherwise it goes on at label.
FinishIn(c, label) ==
    IF in_transaction[c] THEN write_ok(c) ELSE goto(c, label) /\ UNCHANGED locals

set_table_value(c) ==
    /\ At(c, "set")
    /\ proposed' = [proposed EXCEPT
                        ![table_obj[c]] = set(@, req[c].key, get_top(stack[c]))]
    /\ stack' = [stack EXCEPT ![c] = pop(@)]
    /\ FinishIn(c, "autocommit")
    /\ UNCHANGED <<slot, server_mutex, mutex, kvp, gone,
                   first_valid_message, in_transaction, locked_tables>>

autocommit(c) ==
    LET t == table_obj[c]
    IN  /\ At(c, "autocommit")
        /\ kvp' = [kvp EXCEPT ![t] = commit_changes(@, proposed[t])]
        /\ goto(c, "unlock")
        /\ UNCHANGED <<slot, server_mutex, mutex, proposed, session, locals, gone>>

unlock(c) ==
    /\ At(c, "unlock")
    /\ Unlock(table_obj[c])
    /\ write_ok(c)
    /\ UNCHANGED <<slot, server_mutex, kvp, proposed, session, gone>>

get_has_key(c) ==
    LET t == table_obj[c]
    IN  /\ At(c, "has_key")
        /\ goto(c, IF has_key(kvp[t], proposed[t], req[c].key) THEN "get"
                   ELSE "missing")
        /\ UNCHANGED <<process, session, locals, gone>>

get_table_value(c) ==
    LET v == get(kvp[table_obj[c]], proposed[table_obj[c]], req[c].key)
    IN  /\ At(c, "get")
        /\ \/ /\ v # None
              /\ stack' = [stack EXCEPT ![c] = push(@, v)]
              /\ FinishIn(c, "unlock")
              /\ UNCHANGED <<process, gone, first_valid_message, in_transaction,
                             locked_tables>>
           \/ /\ v = None
              /\ IF in_transaction[c] THEN manage_exception(c, "FAILED")
                 ELSE goto(c, "catch") /\ UNCHANGED locals
              /\ UNCHANGED <<process, session, gone>>

\* The key is missing: get_table_value unlocks the table and throws ...
get_missing(c) ==
    /\ At(c, "missing")
    /\ Unlock(table_obj[c])
    /\ IF in_transaction[c] THEN manage_exception(c, "FAILED")
       ELSE goto(c, "catch") /\ UNCHANGED locals
    /\ UNCHANGED <<slot, server_mutex, kvp, proposed, session, gone>>

\* ... and outside a transaction handle_get's catch unlocks it again.
get_catch(c) ==
    /\ At(c, "catch")
    /\ Unlock(table_obj[c])
    /\ manage_exception(c, "FAILED")
    /\ UNCHANGED <<slot, server_mutex, kvp, proposed, session, gone>>

-----------------------------------------------------------------------------
(* CREATE.                                                                   *)

handle_create(c, r) ==
    /\ Serving(c) /\ r.op = "CREATE"
    /\ req' = [req EXCEPT ![c] = r]
    /\ start(c, "create_lock")
    /\ UNCHANGED <<process, session, table_obj, gone>>

\* Mutant: the server is not locked.
create_unlocked(c) ==
    /\ At(c, "create_lock")
    /\ server_mutex' = TRUE
    /\ goto(c, "create_find")
    /\ UNCHANGED <<slot, mutex, kvp, proposed, session, locals, gone>>

create_lock(c) ==
    /\ At(c, "create_lock")
    /\ ~server_mutex
    /\ server_mutex' = TRUE
    /\ goto(c, "create_find")
    /\ UNCHANGED <<slot, mutex, kvp, proposed, session, locals, gone>>

\* Mutant: a table that exists is created again.
create_again(c) ==
    /\ At(c, "create_find")
    /\ goto(c, "create_insert")
    /\ UNCHANGED <<process, session, locals, gone>>

create_find(c) ==
    /\ At(c, "create_find")
    /\ goto(c, IF slot[req[c].table] = "table" THEN "create_exists"
               ELSE "create_insert")
    /\ UNCHANGED <<process, session, locals, gone>>

create_exists(c) ==
    /\ At(c, "create_exists")
    /\ server_mutex' = FALSE
    /\ manage_exception(c, "FAILED")
    /\ UNCHANGED <<slot, mutex, kvp, proposed, session, gone>>

\* table_names[name] = new_table: operator[] inserts a null pointer first ...
create_insert(c) ==
    /\ At(c, "create_insert")
    /\ slot' = [slot EXCEPT ![req[c].table] = "null"]
    /\ goto(c, "create_assign")
    /\ UNCHANGED <<server_mutex, mutex, kvp, proposed, session, locals, gone>>

\* ... and the new, empty table is assigned; the client is told at once.
create_assign(c) ==
    LET t == req[c].table
    IN  /\ At(c, "create_assign")
        /\ slot' = [slot EXCEPT ![t] = "table"]
        /\ mutex' = [mutex EXCEPT ![t] = FALSE]
        /\ kvp' = [kvp EXCEPT ![t] = NoPairs]
        /\ proposed' = [proposed EXCEPT ![t] = NoPairs]
        /\ write(c, msg("OK"))
        /\ pc' = [pc EXCEPT ![c] = "create_unlock"]
        /\ UNCHANGED <<server_mutex, session, locals, todo, answer, gone>>

create_unlock(c) ==
    /\ At(c, "create_unlock")
    /\ server_mutex' = FALSE
    /\ pc' = [pc EXCEPT ![c] = "read"]
    /\ DropLocals(c)
    /\ UNCHANGED <<status, reply, slot, mutex, kvp, proposed, session, gone>>

-----------------------------------------------------------------------------
(* Conflicting accesses to an unordered_map by two threads at once.          *)

\* c's next step reads or writes the maps of table t.
Touches(c, t) ==
    \/ pc[c] \in {"set", "autocommit", "has_key", "get"} /\ table_obj[c] = t
    \/ pc[c] \in {"commit", "fail"} /\ t \in todo[c]

Modifies(c, t) == Touches(c, t) /\ pc[c] \notin {"has_key", "get"}

\* c looks a table up while d inserts one.
LookupRace(c, d) == pc[c] = "find" /\ pc[d] \in {"create_insert", "create_assign"}

\* c writes the maps of a table d reads or writes.
TableRace(c, d) == c # d /\ \E t \in TableNames : Modifies(c, t) /\ Touches(d, t)

\* Racing accesses can take effect in some order, which the actions above
\* cover, or corrupt the map or follow freed memory: the behaviour is undefined
\* from here on, and the model ends without a claim about it.
data_race(c, d) ==
    /\ status = "running"
    /\ \/ LookupRace(c, d)
       \/ TableRace(c, d)
    /\ status' = "undefined"
    /\ UNCHANGED <<process, session, locals, pc, todo, answer, gone, reply>>

-----------------------------------------------------------------------------
\* What a client causes: it connects, sends a line, leaves.
Handle(c, r) ==
    \/ handle_push(c, r)    \/ handle_pop(c, r)     \/ handle_top(c, r)
    \/ handle_arith(c, r)   \/ handle_bye(c, r)     \/ handle_unsupported(c, r)
    \/ handle_begin(c, r)   \/ handle_commit(c, r)
    \/ handle_set(c, r)     \/ handle_get(c, r)     \/ handle_create(c, r)

ClientStep(c) ==
    \/ Accept(c)
    \/ ClientLeaves(c)
    \/ read_invalid(c)
    \/ handle_login(c)
    \/ refuse(c)
    \/ \E r \in Requests : Handle(c, r)

\* What the thread does by itself once it has a request.
ThreadStep(c) ==
    \/ close_connection(c)
    \/ \E t \in TableNames : commit_table(c, t) \/ rollback_table(c, t)
    \/ commit_unlock(c)     \/ commit_done(c)
    \/ fail_unlock(c)       \/ fail_done(c)
    \/ find_table(c)        \/ lock(c)              \/ trylock(c)
    \/ set_table_value(c)   \/ autocommit(c)        \/ unlock(c)
    \/ get_has_key(c)       \/ get_table_value(c)
    \/ get_missing(c)       \/ get_catch(c)
    \/ create_lock(c)       \/ create_find(c)       \/ create_exists(c)
    \/ create_insert(c)     \/ create_assign(c)     \/ create_unlock(c)

\* A dead process stays dead: nothing restarts it and nothing is on disk.
Dead == status # "running" /\ UNCHANGED vars

Next ==
    \/ \E c \in Conns : ClientStep(c) \/ read_eof(c) \/ ThreadStep(c)
    \/ \E c, d \in Conns : data_race(c, d)
    \/ Dead

Spec == Init /\ [][Next]_vars

-----------------------------------------------------------------------------
(* Fairness.                                                                 *)

\* The kernel keeps scheduling every thread, and a client that is gone sends
\* nothing more, so that its thread reaches the end of the buffered input.
ThreadFairness ==
    \A c \in Conns : WF_vars(ThreadStep(c)) /\ SF_vars(read_eof(c))

\* A client commits its transaction or leaves, as incr_value does.
ClientEndsTransaction(c) ==
    in_transaction[c] /\ (ClientLeaves(c) \/ \E r \in Requests : handle_commit(c, r))

CourteousClients == \A c \in Conns : SF_vars(ClientEndsTransaction(c))

FairSpec == Spec /\ ThreadFairness

-----------------------------------------------------------------------------
(* Properties.                                                               *)

\* c counts on holding the lock of table t: it is one of its locked_tables
\* that no iteration has unlocked yet, or the table of an autocommitted SET
\* or GET between lock() and its unlock().
Holds(c, t) ==
    \/ /\ t \in locked_tables[c]
       /\ pc[c] \in {"commit", "commit_unlock", "fail", "fail_unlock"} => t \in todo[c]
    \/ /\ pc[c] \in {"set", "autocommit", "has_key", "get", "unlock", "missing", "catch"}
       /\ ~in_transaction[c]
       /\ table_obj[c] = t

\* Two threads never count on the lock of one table at the same time
\* (Table::lock, trylock and unlock as handle_set, handle_get, handle_commit
\* and fail_transaction use them).
MutualExclusion ==
    \A t \in TableNames : \A c, d \in Conns : Holds(c, t) /\ Holds(d, t) => c = d

\* No two threads touch the maps of a table at once with one of them writing:
\* table.h asks that its functions be called with the lock held.
NoTableRace == \A c, d \in Conns : ~TableRace(c, d)

\* A table nobody has locked holds no uncommitted change: what is left in
\* proposed_pairs, which commit_changes never clears, is what is committed.
CleanWhenUnlocked ==
    \A t \in TableNames : ~mutex[t] =>
        \A k \in Keys : proposed[t][k] # None => proposed[t][k] = kvp[t][k]

\* Once nobody counts on the lock of a table any more, nothing uncommitted is
\* left in it, also after the second unlock of a GET for a missing key let
\* several threads propose, commit and roll back in the table at once.
CleanWhenReleased ==
    \A t \in TableNames : (\A c \in Conns : ~Holds(c, t)) =>
        \A k \in Keys : proposed[t][k] # None => proposed[t][k] = kvp[t][k]

\* A locked table has a thread that is going to unlock it, whatever request,
\* exception or disconnect ended the work it was locked for.
NoOrphanLock == \A t \in TableNames : mutex[t] => \E c \in Conns : Holds(c, t)

\* c owns the server's mutex.
InCreate(c) == pc[c] \in {"create_find", "create_exists", "create_insert",
                          "create_assign", "create_unlock"}

\* No cycle of waiting threads: a thread that waits for a table holds nothing,
\* and a thread that holds the server's mutex waits for no mutex, even though
\* CREATE inside a transaction waits for that mutex with tables locked.
NoWaitCycle ==
    \A c \in Conns :
        /\ pc[c] = "lock" => \A t \in TableNames : ~Holds(c, t)
        /\ InCreate(c) => server_mutex /\ \A d \in Conns : InCreate(d) => d = c

\* A committed key stays committed: no CREATE replaces a table that exists,
\* whichever threads create it at the same time, and no rollback removes it.
CommittedKeysStay ==
    [][\A t \in TableNames, k \in Keys : kvp[t][k] # None => kvp'[t][k] # None]_vars

\* A table a transaction has locked is changed by no thread but its own
\* until the transaction ends (handle_set, handle_get, fail_transaction).
Isolation ==
    [][\A c \in Conns : \A t \in locked_tables[c] :
           Holds(c, t) /\ (kvp'[t] # kvp[t] \/ proposed'[t] # proposed[t])
               => pc'[c] # pc[c]]_vars

\* Inside a transaction GET returns what the transaction SET before it, also
\* when the key had a committed value (Table::get).
ReadYourWrites ==
    [][\A c \in Conns :
           pc[c] = "get" /\ in_transaction[c] /\ pc'[c] = "read"
               => LET own == proposed[table_obj[c]][req[c].key]
                  IN  own # None => get_top(stack'[c]) = own]_vars

\* An arithmetic request that is refused costs the client no operand: the
\* stack keeps its length and what stoi reads from each of its values.
RefusedArithKeepsOperands ==
    [][\A c \in Conns : \A op \in ArithOps :
           [op |-> op] \in Requests /\ handle_arith(c, [op |-> op])
             /\ (pc'[c] = "fail" \/ reply'[c] = msg("FAILED"))
               => /\ Len(stack'[c]) = Len(stack[c])
                  /\ \A i \in 1..Len(stack[c]) :
                        /\ stoi(stack'[c][i]) = stoi(stack[c][i])
                        /\ stack'[c][i].num = stack[c][i].num]_vars

\* The top of the stack after an arithmetic request is the int the C operator
\* yields for the two values that were on top, left below right: exact modulo
\* 2^w, for DIV the quotient whose remainder is smaller than the divisor and
\* has the dividend's sign (handle_add, handle_sub, handle_mul, handle_div).
ArithmeticExact ==
    [][\A c \in Conns : \A op \in ArithOps :
           [op |-> op] \in Requests /\ handle_arith(c, [op |-> op])
             /\ ArithOutcome(op, stack[c]) = "OK"
               => LET right == stack[c][Len(stack[c])].num
                      left  == stack[c][Len(stack[c]) - 1].num
                      n     == stack'[c][Len(stack'[c])].num
                      Same(m) == n \in Ints /\ (n - m) % (2 * (IntMax + 1)) = 0
                      rest  == left - n * right
                  IN  /\ Len(stack'[c]) = Len(stack[c]) - 1
                      /\ op = "ADD" => Same(left + right)
                      /\ op = "SUB" => Same(left - right)
                      /\ op = "MUL" => Same(left * right)
                      /\ op = "DIV" => Abs(rest) < Abs(right) /\ rest * left >= 0]_vars

\* The server outlives every request: an exception or an operand becomes a
\* message to the client, never the end of the process.
NoRequestKillsServer == status \notin {"abort", "sigfpe"}

\* The server is inaccessible to other threads while a table is created:
\* nobody looks a table up in the middle of an insertion.
NoLookupDuringCreate == \A c, d \in Conns : ~LookupRace(c, d)

\* When a client leaves, its thread ends and lets go of every table, unless
\* it waits for a mutex others keep taking or the process dies first.
LeavingReleasesLocks ==
    LET Waits(c) == pc[c] \in {"lock", "create_lock"}
    IN  \A c \in Conns :
            gone[c] /\ ~Waits(c) ~>
                (~gone[c] /\ locked_tables[c] = {}) \/ Waits(c) \/ status # "running"

\* If no client stays in a transaction forever, every locked table is unlocked
\* again, so that nobody waits for it forever.
LocksAreReleased ==
    CourteousClients =>
        \A t \in TableNames : mutex[t] ~> ~mutex[t] \/ status # "running"
=============================================================================
