----------------------------- MODULE ServerLoop -----------------------------
(***************************************************************************)
(* The life of the server process around its connections: opening the      *)
(* listening socket, the accept loop with the calls that can fail, the     *)
(* descriptors, the ClientConnection objects and the threads, which nobody *)
(* joins.  What a thread does with its client's requests is in             *)
(* BasicServer; here a handler may have to wait for a lock, and a          *)
(* conversation goes on until one side ends it.                            *)
(***************************************************************************)
EXTENDS Naturals, Sequences, FiniteSets

CONSTANTS Clients,       \* the processes that connect, each of them once
          Families,      \* the kinds of address getaddrinfo returns
          Descriptors,   \* the numbers the server's sockets can have
          Inheritable,   \* those that may be open when the program starts
          MaxThreads,    \* how many stacks of threads the process has room for
          Objects,       \* places for ClientConnection objects
          LISTENQ,       \* how many connections may wait to be accepted
          None           \* no descriptor (-1), no owner

ASSUME ServerLoopAssumption ==
    /\ Descriptors \subseteq Nat /\ Inheritable \subseteq Descriptors
    /\ None \notin Descriptors \cup Clients \cup Families
    /\ (Clients \cup {None}) \cap {"parent", "server"} = {}
    /\ IsFiniteSet(Families)
    /\ MaxThreads \in Nat /\ LISTENQ \in Nat \ {0}

VARIABLES status,      \* "starting", "running", "exit" (main returns 1), "abort"
          listp,       \* the addresses open_listenfd has not tried
          bound,       \* the family the listening socket is bound to
          server_fd,
          owner,       \* per descriptor: None if closed, "parent", "server", or
                       \* a client
          queue,       \* the clients that wait to be accepted
          main,        \* what server_loop does next
          client_fd,   \* its local variable
          object,      \* the ClientConnection objects
          threads,     \* the threads started so far: none of them is joined
          client,      \* what each client does
          tries,       \* the addresses open_clientfd has not tried
          expecting    \* the clients that have looked its addresses up while
                       \* the server ran and have not failed to reach it yet

startup == <<listp, bound, server_fd>>
loop    == <<main, client_fd>>
pool    == <<object, threads>>
users   == <<client, tries, expecting>>
vars    == <<status, startup, owner, queue, loop, pool, users>>

\* The address lists getaddrinfo may return.
Lists == {s \in [1..Cardinality(Families) -> Families] :
             \A i, j \in DOMAIN s : s[i] = s[j] => i = j}

NoObject == [state |-> "free", fd |-> None, client |-> None]

Init ==
    /\ status = "starting"
    /\ listp \in Lists \cup {<<>>}        \* <<>>: getaddrinfo fails
    /\ bound = None /\ server_fd = None
    /\ \E inherited \in SUBSET Inheritable :
          owner = [d \in Descriptors |-> IF d \in inherited THEN "parent" ELSE None]
    /\ queue = <<>>
    /\ main = "listen" /\ client_fd = None
    /\ object = [o \in Objects |-> NoObject]
    /\ threads = 0
    /\ client = [c \in Clients |-> "out"]
    /\ tries = [c \in Clients |-> <<>>]
    /\ expecting = {}

Free == {d \in Descriptors : owner[d] = None}

\* A new descriptor has the lowest free number.
NewFd == CHOOSE d \in Free : \A e \in Free : d <= e

-----------------------------------------------------------------------------
(* open_listenfd, as Server::listen and main call it.                        *)

bind ==
    /\ status = "starting" /\ bound = None /\ listp # <<>> /\ Free # {}
    /\ bound' = Head(listp) /\ listp' = <<>>
    /\ server_fd' = NewFd
    /\ owner' = [owner EXCEPT ![NewFd] = "server"]
    /\ UNCHANGED <<status, queue, loop, pool, users>>

\* Mutant: the socket that could not be bound stays open.
address_fails_open ==
    /\ status = "starting" /\ bound = None /\ listp # <<>>
    /\ listp' = Tail(listp)
    /\ owner' = [owner EXCEPT ![NewFd] = "server"]
    /\ UNCHANGED <<status, bound, server_fd, queue, loop, pool, users>>

\* There is no socket for the address, or it cannot be bound and is closed
\* again, which does not fail for a socket just made; the next one is tried.
address_fails ==
    /\ status = "starting" /\ bound = None /\ listp # <<>>
    /\ listp' = Tail(listp)
    /\ UNCHANGED <<status, bound, server_fd, owner, queue, loop, pool, users>>

\* No address worked: CommException, which main turns into its exit status.
open_listenfd_fails ==
    /\ status = "starting" /\ bound = None /\ listp = <<>>
    /\ status' = "exit"
    /\ UNCHANGED <<startup, owner, queue, loop, pool, users>>

listen ==
    /\ status = "starting" /\ bound # None
    /\ status' = "running"
    /\ main' = "accept"
    /\ UNCHANGED <<startup, owner, queue, client_fd, pool, users>>

listen_fails ==
    /\ status = "starting" /\ bound # None
    /\ status' = "exit"
    /\ owner' = [owner EXCEPT ![server_fd] = None]
    /\ server_fd' = None
    /\ UNCHANGED <<listp, bound, queue, loop, pool, users>>

-----------------------------------------------------------------------------
(* Server::server_loop.                                                      *)

accept ==
    /\ status = "running" /\ main = "accept"
    /\ queue # <<>> /\ Free # {}
    /\ client_fd' = NewFd
    /\ owner' = [owner EXCEPT ![NewFd] = Head(queue)]
    /\ queue' = Tail(queue)
    /\ main' = "new"
    /\ UNCHANGED <<status, startup, pool, users>>

\* Mutant: a failed accept ends the loop.
accept_fails_once ==
    /\ status = "running" /\ main = "accept"
    /\ \/ Free = {} /\ UNCHANGED queue
       \/ /\ queue # <<>> /\ Free # {} /\ client[Head(queue)] = "left"
          /\ queue' = Tail(queue)
    /\ client_fd' = None
    /\ main' = "listen"
    /\ UNCHANGED <<status, startup, owner, pool, users>>

\* accept returns -1 at once when there is no descriptor left, and for a client
\* that has gone away; the loop goes on with the -1.
accept_fails ==
    /\ status = "running" /\ main = "accept"
    /\ \/ Free = {} /\ UNCHANGED queue
       \/ /\ queue # <<>> /\ Free # {} /\ client[Head(queue)] = "left"
          /\ queue' = Tail(queue)
    /\ client_fd' = None
    /\ main' = "new"
    /\ UNCHANGED <<status, startup, owner, pool, users>>

Unused == {o \in Objects : object[o].state = "free"}

new_ClientConnection ==
    /\ status = "running" /\ main = "new"
    /\ \E o \in Unused :
          /\ \A p \in Unused : o <= p
          /\ object' = [object EXCEPT ![o] =
                [state |-> "made", fd |-> client_fd,
                 client |-> IF client_fd = None THEN None ELSE owner[client_fd]]]
    /\ client_fd' = None
    /\ main' = "create"
    /\ UNCHANGED <<status, startup, owner, queue, threads, users>>

\* main catches std::runtime_error and std::bad_alloc is none.
bad_alloc ==
    /\ status = "running" /\ main = "new"
    /\ Unused = {}
    /\ status' = "abort"
    /\ UNCHANGED <<startup, owner, queue, loop, pool, users>>

pthread_create ==
    /\ status = "running" /\ main = "create"
    /\ threads < MaxThreads
    /\ threads' = threads + 1
    /\ object' = [o \in Objects |->
          IF object[o].state = "made" THEN [object[o] EXCEPT !.state = "chat"] ELSE object[o]]
    /\ main' = "accept"
    /\ UNCHANGED <<status, startup, owner, queue, client_fd, users>>

\* EAGAIN, for this process's limit or the machine's: the object, and the
\* descriptor in it, stay behind without a thread.
pthread_create_fails ==
    /\ status = "running" /\ main = "create"
    /\ object' = [o \in Objects |->
          IF object[o].state = "made" THEN [object[o] EXCEPT !.state = "leaked"] ELSE object[o]]
    /\ main' = "accept"
    /\ UNCHANGED <<status, startup, owner, queue, client_fd, threads, users>>

-----------------------------------------------------------------------------
(* Server::client_worker and ClientConnection::chat_with_client.             *)

\* A step of o's thread from one part of its work to another.
SetState(o, from, to) ==
    /\ status = "running" /\ object[o].state = from
    /\ object' = [object EXCEPT ![o].state = to]
    /\ UNCHANGED <<status, startup, queue, loop, threads, users>>

\* Nobody is at the other end of the socket, if there is one.
Gone(o) == object[o].fd # None => client[object[o].client] = "left"

\* The client has left and its last request is read, or reading from
\* descriptor -1 fails.
chat_reads_nothing(o) ==
    /\ SetState(o, "chat", "closing")
    /\ Gone(o)
    /\ UNCHANGED owner

\* A line has come; its handler may find a mutex it needs locked.
chat_reads_line(o) ==
    /\ object[o].fd # None
    /\ \E to \in {"handle", "lock"} : SetState(o, "chat", to)
    /\ UNCHANGED owner

\* Whoever had the mutex has unlocked it, which need never happen.
lock_returns(o) == SetState(o, "lock", "handle") /\ UNCHANGED owner

handler_returns(o) == SetState(o, "handle", "chat") /\ UNCHANGED owner

\* BYE, or a request before LOGIN.
chat_ends(o) == SetState(o, "handle", "closing") /\ UNCHANGED owner

CloseFd(d) == owner' = IF d = None THEN owner ELSE [owner EXCEPT ![d] = None]

\* Mutant: a conversation that ends by itself does not close the socket.
close_only_after_bye(o) ==
    /\ SetState(o, "closing", "closed")
    /\ IF Gone(o) THEN UNCHANGED owner ELSE CloseFd(object[o].fd)

close_fd(o) == SetState(o, "closing", "closed") /\ CloseFd(object[o].fd)

\* Mutant: the destructor closes the descriptor once more.
delete_closes(o) ==
    /\ status = "running" /\ object[o].state = "closed"
    /\ object' = [object EXCEPT ![o] = NoObject]
    /\ CloseFd(object[o].fd)
    /\ UNCHANGED <<status, startup, queue, loop, threads, users>>

\* The unique_ptr deletes the object; the thread's stack is never freed.
delete(o) ==
    /\ status = "running" /\ object[o].state = "closed"
    /\ object' = [object EXCEPT ![o] = NoObject]
    /\ UNCHANGED <<status, startup, owner, queue, loop, threads, users>>

-----------------------------------------------------------------------------
(* open_clientfd and the life of a client.                                   *)

\* getaddrinfo fails, with an empty list as its outcome, or names addresses.
open_clientfd(c) ==
    /\ client[c] = "out"
    /\ client' = [client EXCEPT ![c] = "connecting"]
    /\ \E list \in Lists \cup {<<>>} :
          /\ tries' = [tries EXCEPT ![c] = list]
          /\ expecting' = IF status = "running" /\ list # <<>>
                          THEN expecting \cup {c} ELSE expecting
    /\ UNCHANGED <<status, startup, owner, queue, loop, pool>>

\* Where the server listens.
Answers(family) == status = "running" /\ family = bound

connect(c) ==
    /\ client[c] = "connecting" /\ tries[c] # <<>>
    /\ Answers(Head(tries[c])) /\ Len(queue) < LISTENQ
    /\ client' = [client EXCEPT ![c] = "connected"]
    /\ queue' = Append(queue, c)
    /\ tries' = [tries EXCEPT ![c] = <<>>]
    /\ expecting' = expecting \ {c}
    /\ UNCHANGED <<status, startup, owner, loop, pool>>

\* Mutant: the first address that fails ends the attempt.
connect_fails_first(c) ==
    /\ client[c] = "connecting" /\ tries[c] # <<>>
    /\ tries' = [tries EXCEPT ![c] = <<>>]
    /\ expecting' = IF Answers(Head(tries[c])) THEN expecting \ {c} ELSE expecting
    /\ UNCHANGED <<status, startup, owner, queue, loop, pool, client>>

\* The next address is tried: nobody listens at this one, or the machine has
\* no socket for it, or, also at the server's own address, the attempt fails
\* on the way or times out because the backlog is full.
connect_fails(c) ==
    /\ client[c] = "connecting" /\ tries[c] # <<>>
    /\ tries' = [tries EXCEPT ![c] = Tail(tries[c])]
    /\ expecting' = IF Answers(Head(tries[c])) THEN expecting \ {c} ELSE expecting
    /\ UNCHANGED <<status, startup, owner, queue, loop, pool, client>>

\* Every address has failed, or there was none.
give_up(c) ==
    /\ client[c] = "connecting" /\ tries[c] = <<>>
    /\ client' = [client EXCEPT ![c] = "refused"]
    /\ UNCHANGED <<status, startup, owner, queue, loop, pool, tries, expecting>>

\* The client ends or is killed, also while it waits to be accepted.
leave(c) ==
    /\ client[c] = "connected"
    /\ client' = [client EXCEPT ![c] = "left"]
    /\ UNCHANGED <<status, startup, owner, queue, loop, pool, tries, expecting>>

-----------------------------------------------------------------------------
MainStep ==
    \/ bind \/ address_fails \/ open_listenfd_fails
    \/ listen \/ listen_fails
    \/ accept \/ accept_fails \/ new_ClientConnection \/ bad_alloc
    \/ pthread_create \/ pthread_create_fails

\* Once its client has gone, a handler that waits for no mutex returns: a write
\* that waited for the client to read fails.
WorkerStep(o) ==
    \/ chat_reads_nothing(o) \/ close_fd(o) \/ delete(o)
    \/ Gone(o) /\ (handler_returns(o) \/ chat_ends(o))

Next ==
    \/ MainStep
    \/ \E o \in Objects :
          \/ chat_reads_nothing(o) \/ chat_reads_line(o)
          \/ lock_returns(o) \/ handler_returns(o) \/ chat_ends(o)
          \/ close_fd(o) \/ delete(o)
    \/ \E c \in Clients :
          open_clientfd(c) \/ connect(c) \/ connect_fails(c) \/ give_up(c) \/ leave(c)

\* The kernel schedules every thread, and a client that has left has sent only
\* so many requests, so that the end of its input is reached.  A conversation
\* may go on for ever, and so may the wait for a mutex.
Spec ==
    /\ Init /\ [][Next]_vars
    /\ WF_vars(MainStep)
    /\ \A o \in Objects : WF_vars(WorkerStep(o)) /\ SF_vars(chat_reads_nothing(o))

-----------------------------------------------------------------------------
(* Properties.                                                               *)

\* The parts of a thread's work up to the close of its socket.
Working == {"chat", "handle", "lock", "closing"}

Holding == {o \in Objects : /\ object[o].state \in Working \cup {"made", "leaked"}
                            /\ object[o].fd # None}

\* A connection's descriptor is its own from accept to close, although numbers
\* are used again as soon as they are closed: no thread reads from, answers to
\* or closes another client's socket (chat_with_client closes once, the
\* destructor does not).
OwnDescriptor == \A o \in Holding : owner[object[o].fd] = object[o].client

\* The server's open sockets that nobody is going to close: not the listening
\* one, nor the one accept has just returned, nor that of a connection whose
\* thread is to be started or has not come to its close.
Lost == {d \in Descriptors :
            /\ owner[d] \notin {None, "parent"}
            /\ d # server_fd
            /\ ~(main = "new" /\ d = client_fd)
            /\ \A o \in Objects :
                  object[o].state \in Working \cup {"made"} => object[o].fd # d}

\* A socket is lost in one way only, when pthread_create fails for its
\* connection, and then one for each such connection: the addresses
\* open_listenfd could not use, a failed listen, failed accepts and numbers used
\* again lose none.
OnlyLeakedAreLost ==
    \A d \in Lost : \E o \in Objects :
        /\ object[o].state = "leaked" /\ object[o].fd = d
        /\ \A p \in Holding : object[p].fd = d => p = o

\* In whichever order getaddrinfo names the addresses to the server and to a
\* client that starts while it listens, addresses where nobody listens do not
\* keep the client from trying the server's: it gives up only if getaddrinfo
\* failed, its own attempt at that address did, or the server died meanwhile
\* (open_listenfd, open_clientfd).
FindsServer ==
    \A c \in expecting : client[c] = "refused" => status = "abort"

Served(c) == \E o \in Objects : object[o].client = c /\ object[o].state = "chat"
Leaked(c) == \E o \in Objects : object[o].client = c /\ object[o].state = "leaked"
Waits(c)  == \E o \in Objects : object[o].client = c /\ object[o].state = "lock"

\* A client that waits to be accepted gets its thread, whatever accept returned
\* for others, unless it leaves, no thread can be started for it, or the memory
\* runs out (server_loop goes on after every failure).
WaitingAreServed ==
    \A c \in Clients :
        (\E i \in DOMAIN queue : queue[i] = c) ~>
            (Served(c) \/ Leaked(c) \/ client[c] = "left" \/ status = "abort")

\* The socket of a client that has left is closed, also when no thread can be
\* started any more for new clients.  Two kinds of connections keep it: those
\* that never had a thread, and those whose thread waits for ever for a mutex,
\* since Table::lock does not notice that the client has left (client_worker,
\* chat_with_client).
LeftAreClosed ==
    \A c \in Clients :
        []<>~Waits(c) =>
            (client[c] = "left" ~>
                (Leaked(c) \/ status = "abort"
                 \/ \A d \in Descriptors : owner[d] # c))
=============================================================================
