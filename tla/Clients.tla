------------------------------ MODULE Clients ------------------------------
(***************************************************************************)
(* The server with the client programs of the repository as its clients:   *)
(* incr_value, get_value and set_value, each of them one process that      *)
(* sends a fixed sequence of requests, waits for the response to each and  *)
(* gives up at the first one it does not expect.  A process may be killed  *)
(* at any time.                                                            *)
(*                                                                         *)
(* While a client waits nothing but its own thread in the server concerns  *)
(* it, so that sending and reading a request is one step, and so is        *)
(* writing and reading the response.                                       *)
(***************************************************************************)
EXTENDS ServerRefinesStore, FiniteSets

CONSTANT Programs  \* what the users may start: a program for each client

VARIABLES program,   \* the requests each client sends, in order
          at,        \* the position of the request sent last in the program
          waiting,   \* the response to it has not been read
          exit       \* how the process ended, "none" while it runs

client == <<program, at, waiting, exit>>

Codec == INSTANCE Message WITH MAX_ENCODED_LEN <- 1024

-----------------------------------------------------------------------------
(* The programs.                                                             *)

LOGIN == [op |-> "LOGIN"]
BYE   == [op |-> "BYE"]

incr_value(use_transaction, t, k) ==
    <<LOGIN>>
    \o (IF use_transaction THEN <<[op |-> "BEGIN"]>> ELSE <<>>)
    \o <<[op |-> "GET", table |-> t, key |-> k],
         [op |-> "PUSH", value |-> to_string(1)],
         [op |-> "ADD"],
         [op |-> "SET", table |-> t, key |-> k]>>
    \o (IF use_transaction THEN <<[op |-> "COMMIT"]>> ELSE <<>>)
    \o <<BYE>>

get_value(t, k) ==
    <<LOGIN, [op |-> "GET", table |-> t, key |-> k], [op |-> "TOP"], BYE>>

set_value(t, k, v) ==
    <<LOGIN, [op |-> "PUSH", value |-> v], [op |-> "SET", table |-> t, key |-> k], BYE>>

ASSUME ClientsAssumption ==
    /\ Programs \subseteq [Conns -> Seq(Requests \cup {LOGIN}) \ {<<>>}]
    /\ IsFiniteSet(Conns)

ClientsInit ==
    /\ Init
    /\ program \in Programs
    /\ at = [c \in Conns |-> 0]
    /\ waiting = [c \in Conns |-> FALSE]
    /\ exit = [c \in Conns |-> "none"]

-----------------------------------------------------------------------------
\* The text of an exception: words without quotation marks.
Explanation == <<[identifier |-> TRUE, len |-> 4]>>

\* The type of message a client decodes from a response of each type.
ResponseType ==
    [type \in {"OK", "FAILED", "ERROR", "DATA"} |->
        Codec!decode(Codec!encode(
            [type |-> type,
             args |-> CASE type \in {"FAILED", "ERROR"} -> <<Explanation>>
                        [] type = "DATA" -> <<<<[identifier |-> FALSE, len |-> 1]>>>>
                        [] type = "OK" -> <<>>])).type]

\* handle_top_response expects DATA, handle_possible_ok_response OK; both let
\* the InvalidMessage of decode through, and nothing in main catches it.
Expected(r) == IF r.op = "TOP" THEN "DATA" ELSE "OK"

ExitStatus(c, i) ==
    LET type == ResponseType[reply'[c].type]
    IN  CASE type = "InvalidMessage" -> "uncaught"
          [] type = Expected(program[c][i]) ->
                 IF i = Len(program[c]) THEN "0" ELSE "none"
          [] OTHER -> "1"

\* The step of the server sends the response to request i of c, or it does not.
Hear(c, i) ==
    LET answered == status' = "running" /\ reply'[c] # None /\ pc'[c] \in {"read", "close"}
    IN  /\ waiting' = [waiting EXCEPT ![c] = ~answered]
        /\ exit' = IF answered THEN [exit EXCEPT ![c] = ExitStatus(c, i)] ELSE exit

-----------------------------------------------------------------------------
connect(c) ==
    /\ at[c] = 0 /\ exit[c] = "none"
    /\ Accept(c)
    /\ UNCHANGED client

Send(c) ==
    LET i == at[c] + 1
        r == program[c][i]
    IN  /\ exit[c] = "none" /\ ~waiting[c] /\ ~gone[c] /\ pc[c] # "closed"
        /\ IF r.op = "LOGIN" THEN handle_login(c) ELSE Handle(c, r)
        /\ at' = [at EXCEPT ![c] = i]
        /\ Hear(c, i)
        /\ UNCHANGED program

\* The server's thread goes on with the request, or ends the connection.
Work(c) ==
    /\ ThreadStep(c) \/ read_eof(c)
    /\ IF waiting[c] THEN Hear(c, at[c]) ELSE UNCHANGED <<waiting, exit>>
    /\ UNCHANGED <<program, at>>

\* A process that has ended has closed its socket.
CloseSocket(c) ==
    /\ exit[c] # "none"
    /\ ClientLeaves(c)
    /\ UNCHANGED client

Killed(c) ==
    /\ exit[c] = "none"
    /\ ClientLeaves(c)
    /\ exit' = [exit EXCEPT ![c] = "killed"]
    /\ waiting' = [waiting EXCEPT ![c] = FALSE]
    /\ UNCHANGED <<program, at>>

\* The server is dead: the client cannot connect or reads no response.
LostServer(c) ==
    /\ exit[c] = "none"
    /\ status \in {"abort", "sigfpe", "sigpipe"}
    /\ exit' = [exit EXCEPT ![c] = "1"]
    /\ waiting' = [waiting EXCEPT ![c] = FALSE]
    /\ UNCHANGED <<vars, program, at>>

Race(c, d) == data_race(c, d) /\ UNCHANGED client

\* Every client has ended and the server has noticed or is dead, or the
\* behaviour is undefined from here on.
AllDone ==
    /\ \/ status = "undefined"
       \/ \A c \in Conns : exit[c] # "none" /\ (pc[c] = "closed" \/ status # "running")
    /\ UNCHANGED <<vars, client>>

ClientsNext ==
    \/ \E c \in Conns :
          \/ connect(c)       \/ Send(c)      \/ Work(c)
          \/ CloseSocket(c)   \/ Killed(c)    \/ LostServer(c)
    \/ \E c, d \in Conns : Race(c, d)
    \/ AllDone

\* As long as some thread or process can go on, one of them does; nobody must
\* be killed.  Which one does not matter, since every program is finite.
Progress ==
    \E c \in Conns : connect(c) \/ Send(c) \/ Work(c) \/ CloseSocket(c) \/ LostServer(c)

ClientsSpec ==
    /\ ClientsInit
    /\ [][ClientsNext]_<<vars, client>>
    /\ WF_<<vars, client>>(Progress)

-----------------------------------------------------------------------------
\* c has sent its COMMIT; c knows that it was carried out.
SentCommit(c) == \E i \in 1..at[c] : program[c][i].op = "COMMIT"
Committed(c)  ==
    /\ SentCommit(c)
    /\ program[c][at[c]].op = "COMMIT" => ~waiting[c] /\ exit[c] = "none"

\* The clients that set the key k of table t, and those that increment it in
\* a transaction.
Setters(t, k) ==
    {c \in Conns : \E i \in DOMAIN program[c] :
                      program[c][i] = [op |-> "SET", table |-> t, key |-> k]}
Adders(t, k) == {c \in Conns : program[c] = incr_value(TRUE, t, k)}

\* No increment of incr_value -t is lost or made twice, however the clients
\* interleave and whoever is killed: where no other program sets the key, the
\* committed value is the first one, incremented once for every client that
\* read the OK to its COMMIT, and otherwise only for clients that sent one
\* (handle_get, handle_add, handle_set, handle_commit, fail_transaction).
NoLostIncrement ==
    \A t \in DOMAIN InitialTables, k \in Keys :
        Setters(t, k) \subseteq Adders(t, k) /\ InitialTables[t][k] # None =>
            \E n \in Cardinality({c \in Adders(t, k) : Committed(c)})
                     ..Cardinality({c \in Adders(t, k) : SentCommit(c)}) :
                kvp[t][k].num = Wrap(InitialTables[t][k].num + n)

\* Every GET of every client is for a key that a table has from the start.
KnownKeys ==
    \A c \in Conns : \A i \in DOMAIN program[c] :
        LET r == program[c][i]
        IN  r.op = "GET" => /\ r.table \in DOMAIN InitialTables
                            /\ InitialTables[r.table][r.key] # None

\* No client reads what another has not committed or half of what another
\* commits, whoever is killed and however many tables a commit goes through, as
\* long as nobody asks for a missing key: that GET unlocks its table twice and
\* lets a reader in (get_table_value, handle_commit, fail_transaction).
NoDirtyFetch == [][KnownKeys => \A c \in Conns : CleanRead(c)]_vars

\* Every client process comes to its end: nobody waits forever for a table or
\* for a response, although SET and GET outside a transaction wait for tables
\* that transactions hold and a GET for a missing key unlocks its table twice.
\* Nothing is claimed once a data race has made the behaviour undefined.
ClientsFinish == <>(status = "undefined" \/ \A c \in Conns : exit[c] # "none")

\* A client that is refused reports it: handle_possible_ok_response returns 0
\* for OK and -1 otherwise, and main returns 1.
RefusalIsReported == \A c \in Conns : exit[c] # "uncaught"
=============================================================================
