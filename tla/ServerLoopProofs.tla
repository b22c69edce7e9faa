-------------------------- MODULE ServerLoopProofs --------------------------
(***************************************************************************)
(* The accept loop and its threads share descriptors without mistaking one *)
(* for another and lose none but that of a failed pthread_create, for      *)
(* every number of clients, descriptors, threads and objects and whatever  *)
(* calls fail; and the order of the addresses keeps no client from trying  *)
(* the one where the server listens.                                       *)
(***************************************************************************)
EXTENDS ServerLoop, FiniteSetTheorems, SequenceTheorems, WellFoundedInduction, TLAPS

-----------------------------------------------------------------------------
(* The inductive invariant.                                                  *)

Connection ==
    [state  : Working \cup {"free", "made", "closed", "leaked"},
     fd     : Descriptors \cup {None},
     client : Clients \cup {None}]

ServerTypes ==
    /\ status \in {"starting", "running", "exit", "abort"}
    /\ listp \in Seq(Families) /\ bound \in Families \cup {None}
    /\ server_fd \in Descriptors \cup {None}
    /\ owner \in [Descriptors -> Clients \cup {None, "parent", "server"}]
    /\ queue \in Seq(Clients)
    /\ main \in {"listen", "accept", "new", "create"}
    /\ client_fd \in Descriptors \cup {None}
    /\ object \in [Objects -> Connection]
    /\ threads \in Nat

ClientTypes ==
    /\ client \in [Clients -> {"out", "connecting", "connected", "refused", "left"}]
    /\ tries \in [Clients -> Seq(Families)]
    /\ expecting \subseteq Clients

Holds(o) == /\ object[o].state \in Working \cup {"made", "leaked"}
            /\ object[o].fd # None

\* The server's socket, from bind to a failed listen.
ListenInv ==
    /\ status = "starting" => main = "listen"
    /\ bound = None => server_fd = None
    /\ status = "starting" /\ bound # None => server_fd # None
    /\ server_fd # None => owner[server_fd] = "server"

\* The socket accept has returned and no object has yet.
AcceptInv ==
    client_fd # None =>
        /\ main = "new"
        /\ owner[client_fd] \in Clients
        /\ \A o \in Objects : Holds(o) => object[o].fd # client_fd

\* The sockets of the objects: each is its client's, and no two objects have
\* the same one.
HoldInv ==
    /\ \A o \in Objects : Holds(o) => /\ object[o].client \in Clients
                                      /\ owner[object[o].fd] = object[o].client
    /\ \A o, p \in Objects : Holds(o) /\ Holds(p) /\ object[o].fd = object[p].fd => o = p

\* Every open socket is the server's own, the one accept has just returned, or
\* some object's.
KeptInv ==
    \A d \in Descriptors : owner[d] \notin {None, "parent"} =>
        \/ d = server_fd
        \/ main = "new" /\ d = client_fd
        \/ \E o \in Holding : object[o].fd = d

\* A client whose lookup found the server listening, and whose own attempt to
\* reach it has not failed, has the server's address still to try.
FindInv ==
    /\ status = "running" => bound # None
    /\ \A c \in expecting :
          /\ status \in {"running", "abort"}
          /\ status = "running" => /\ client[c] = "connecting"
                                   /\ \E i \in 1..Len(tries[c]) : tries[c][i] = bound

LoopInv ==
    /\ ServerTypes /\ ClientTypes
    /\ ListenInv /\ AcceptInv /\ HoldInv
    /\ KeptInv
    /\ FindInv

-----------------------------------------------------------------------------
(* Descriptors and lists of addresses.                                       *)

\* A nonempty set of numbers has a smallest one.
LEMMA Smallest ==
  ASSUME NEW T \in SUBSET Nat, T # {}
  PROVE  \E n \in T : \A m \in T : n <= m
<1>1. PICK n \in T : \A m \in T : ~(<<m, n>> \in OpToRel(<, Nat))
  BY NatLessThanWellFounded, WFMin, Zenon
<1>2. \A m \in T : m \in Nat /\ n \in Nat /\ ~(m < n)
  BY <1>1 DEF OpToRel
<1> QED
  BY <1>2

\* A new descriptor is one that was closed.
LEMMA NewFdIsFree ==
  ASSUME ServerTypes, Free # {}
  PROVE  NewFd \in Descriptors /\ NewFd # None /\ owner[NewFd] = None
<1>1. Free \in SUBSET Nat
  BY ServerLoopAssumption DEF Free
<1>2. \E d \in Free : \A e \in Free : d <= e
  BY <1>1, Smallest
<1>3. NewFd \in Free
  BY <1>2 DEF NewFd
<1> QED
  BY <1>3, ServerLoopAssumption DEF Free

\* Every family is in every list of addresses, whatever their order.
LEMMA ListHasAll ==
  ASSUME NEW list \in Lists
  PROVE  /\ list \in Seq(Families)
         /\ \A f \in Families : \E i \in 1..Len(list) : list[i] = f
<1> DEFINE n == Cardinality(Families)
           T  == {list[i] : i \in 1..n}
<1>1. n \in Nat /\ IsFiniteSet(Families)
  BY ServerLoopAssumption, FS_CardinalityType
<1>2. /\ list \in [1..n -> Families]
      /\ \A i, j \in 1..n : list[i] = list[j] => i = j
  BY DEF Lists
<1>3. list \in Seq(Families) /\ Len(list) = n
  BY <1>1, <1>2
<1>4. T = Families
  <2>1. T \subseteq Families /\ IsFiniteSet(T)
    BY <1>1, <1>2, FS_Subset
  <2>2. list \in Bijection(1..n, T)
    BY <1>2 DEF Bijection, Injection, Surjection, IsInjective
  <2>3. Cardinality(T) = n
    BY <1>1, <2>2, FS_CountingElements DEF ExistsBijection
  <2> QED
    BY <1>1, <2>1, <2>3, FS_Subset
<1>5. \A f \in Families : f \in T
  BY <1>4
<1> HIDE DEF n
<1>6. \A f \in Families : \E i \in 1..n : list[i] = f
  BY <1>5
<1> QED
  BY <1>3, <1>6

-----------------------------------------------------------------------------
(* The steps of main and of the accept loop.                                 *)

\* open_listenfd and listen keep the invariant: the socket that is opened is
\* the server's, and a failed listen closes it.
LEMMA StartStep ==
  ASSUME LoopInv,
         bind \/ address_fails \/ open_listenfd_fails \/ listen \/ listen_fails
  PROVE  LoopInv'
<1> USE ServerLoopAssumption
<1>i. /\ ServerTypes /\ ClientTypes /\ ListenInv /\ AcceptInv /\ HoldInv
      /\ KeptInv /\ FindInv
  BY DEF LoopInv
<1>1. CASE bind
  <2>1. NewFd \in Descriptors /\ NewFd # None /\ owner[NewFd] = None
    BY <1>1, <1>i, NewFdIsFree DEF bind
  <2>2. PICK n \in Descriptors : n = NewFd /\ n # None /\ owner[n] = None
    BY <2>1
  <2>3. /\ bound' = Head(listp) /\ listp' = <<>> /\ server_fd' = n
        /\ owner' = [owner EXCEPT ![n] = "server"]
        /\ bound = None /\ status = "starting" /\ listp # <<>>
        /\ UNCHANGED <<status, queue, loop, pool, users>>
    BY <1>1, <2>2 DEF bind
  <2>4. Head(listp) \in Families
    BY <1>i, <2>3, HeadTailProperties DEF ServerTypes
  <2>5. ServerTypes' /\ ClientTypes'
    BY <1>i, <2>3, <2>4 DEF ServerTypes, ClientTypes, loop, pool, users
  <2>6. ListenInv' /\ AcceptInv' /\ HoldInv'
    BY <1>i, <2>2, <2>3, <2>4 DEF ListenInv, AcceptInv, HoldInv, Holds, ServerTypes, Connection, loop, pool
  <2>7. KeptInv'
    BY <1>i, <2>2, <2>3 DEF KeptInv, ListenInv, Holding, ServerTypes, loop, pool
  <2>8. FindInv'
    BY <1>i, <2>3 DEF FindInv, users
  <2> QED
    BY <2>5, <2>6, <2>7, <2>8 DEF LoopInv
<1>2. CASE address_fails
  <2>1. Tail(listp) \in Seq(Families)
    BY <1>2, <1>i, HeadTailProperties DEF address_fails, ServerTypes
  <2>2. /\ listp' = Tail(listp) /\ UNCHANGED <<status, bound, server_fd, owner, queue>>
        /\ UNCHANGED <<main, client_fd, object, threads, client, tries, expecting>>
    BY <1>2 DEF address_fails, loop, pool, users
  <2>3. ServerTypes' /\ ClientTypes'
    BY <1>i, <2>1, <2>2 DEF ServerTypes, ClientTypes
  <2>4. ListenInv' /\ AcceptInv' /\ HoldInv'
    BY <1>i, <2>2 DEF ListenInv, AcceptInv, HoldInv, Holds
  <2>5. KeptInv' /\ FindInv'
    BY <1>i, <2>2 DEF KeptInv, Holding, FindInv
  <2> QED
    BY <2>3, <2>4, <2>5 DEF LoopInv
<1>3. CASE open_listenfd_fails
  <2>1. /\ status = "starting" /\ status' = "exit" /\ UNCHANGED <<listp, bound, server_fd, owner, queue>>
        /\ UNCHANGED <<main, client_fd, object, threads, client, tries, expecting>>
    BY <1>3 DEF open_listenfd_fails, startup, loop, pool, users
  <2>2. ServerTypes' /\ ClientTypes'
    BY <1>i, <2>1 DEF ServerTypes, ClientTypes
  <2>3. ListenInv' /\ AcceptInv' /\ HoldInv'
    BY <1>i, <2>1 DEF ListenInv, AcceptInv, HoldInv, Holds
  <2>4. KeptInv' /\ FindInv'
    BY <1>i, <2>1 DEF KeptInv, Holding, FindInv
  <2> QED
    BY <2>2, <2>3, <2>4 DEF LoopInv
<1>4. CASE listen
  <2>1. /\ status = "starting" /\ bound # None /\ status' = "running" /\ main' = "accept"
        /\ UNCHANGED <<listp, bound, server_fd, owner, queue>>
        /\ UNCHANGED <<client_fd, object, threads, client, tries, expecting>>
    BY <1>4 DEF listen, startup, pool, users
  <2>2. ServerTypes' /\ ClientTypes'
    BY <1>i, <2>1 DEF ServerTypes, ClientTypes
  <2>3. ListenInv' /\ AcceptInv' /\ HoldInv'
    BY <1>i, <2>1 DEF ListenInv, AcceptInv, HoldInv, Holds
  <2>4. KeptInv' /\ FindInv'
    BY <1>i, <2>1 DEF KeptInv, Holding, FindInv, ListenInv
  <2> QED
    BY <2>2, <2>3, <2>4 DEF LoopInv
<1>5. CASE listen_fails
  <2>1. /\ server_fd \in Descriptors /\ server_fd # None /\ owner[server_fd] = "server"
        /\ server_fd' = None /\ status' = "exit" /\ owner' = [owner EXCEPT ![server_fd] = None]
        /\ status = "starting" /\ UNCHANGED <<listp, bound, queue, loop, pool, users>>
    BY <1>5, <1>i DEF listen_fails, ListenInv, ServerTypes
  <2>2. ServerTypes' /\ ClientTypes'
    BY <1>i, <2>1 DEF ServerTypes, ClientTypes, loop, pool, users
  <2>3. ListenInv' /\ AcceptInv' /\ HoldInv'
    BY <1>i, <2>1 DEF ListenInv, AcceptInv, HoldInv, Holds, ServerTypes, Connection, loop, pool
  <2>4. KeptInv'
    BY <1>i, <2>1 DEF KeptInv, Holding, ServerTypes, loop, pool
  <2>5. FindInv'
    BY <1>i, <2>1 DEF FindInv, users
  <2> QED
    BY <2>2, <2>3, <2>4, <2>5 DEF LoopInv
<1> QED
  BY <1>1, <1>2, <1>3, <1>4, <1>5

\* accept, which may fail, and the making of an object or the lack of memory
\* for it keep the invariant: a new descriptor is not anybody's.
LEMMA AcceptStep ==
  ASSUME LoopInv, accept \/ accept_fails \/ new_ClientConnection \/ bad_alloc
  PROVE  LoopInv'
<1> USE ServerLoopAssumption
<1>i. /\ ServerTypes /\ ClientTypes /\ ListenInv /\ AcceptInv /\ HoldInv
      /\ KeptInv /\ FindInv
  BY DEF LoopInv
<1>1. CASE accept
  <2>1. PICK n \in Descriptors : n = NewFd /\ n # None /\ owner[n] = None
    BY <1>1, <1>i, NewFdIsFree DEF accept
  <2>2. PICK c \in Clients : c = Head(queue)
    BY <1>1, <1>i, HeadTailProperties DEF accept, ServerTypes
  <2>3. /\ client_fd' = n /\ owner' = [owner EXCEPT ![n] = c]
        /\ main = "accept" /\ main' = "new" /\ status = "running"
        /\ UNCHANGED <<status, startup, pool, users>>
    BY <1>1, <2>1, <2>2 DEF accept
  <2>4. queue' \in Seq(Clients)
    BY <1>1, <1>i, HeadTailProperties DEF accept, ServerTypes
  <2>5. ServerTypes' /\ ClientTypes'
    BY <1>i, <2>3, <2>4 DEF ServerTypes, ClientTypes, startup, pool, users
  <2>6. ListenInv'
    BY <1>i, <2>1, <2>3 DEF ListenInv, ServerTypes, startup
  <2>7. AcceptInv' /\ HoldInv'
    BY <1>i, <2>1, <2>3 DEF AcceptInv, HoldInv, Holds, ServerTypes, Connection, pool
  <2>8. KeptInv'
    BY <1>i, <2>1, <2>3 DEF KeptInv, Holding, ServerTypes, startup, pool
  <2>9. FindInv'
    BY <1>i, <2>3 DEF FindInv, startup, users
  <2> QED
    BY <2>5, <2>6, <2>7, <2>8, <2>9 DEF LoopInv
<1>2. CASE accept_fails
  <2>1. queue' \in Seq(Clients)
    <3>1. queue \in Seq(Clients) /\ (queue' = queue \/ (queue # <<>> /\ queue' = Tail(queue)))
      BY <1>2, <1>i DEF accept_fails, ServerTypes
    <3> QED
      BY <3>1, HeadTailProperties
  <2>2. /\ client_fd' = None /\ main = "accept" /\ main' = "new" /\ status = "running"
        /\ UNCHANGED <<status, startup, owner, pool, users>>
    BY <1>2 DEF accept_fails
  <2> QED
    BY <1>i, <2>1, <2>2 DEF LoopInv, ServerTypes, ClientTypes, ListenInv, AcceptInv,
       HoldInv, Holds, KeptInv, Holding, FindInv, startup, pool, users
<1>3. CASE new_ClientConnection
  <2> DEFINE made == [state |-> "made", fd |-> client_fd,
                      client |-> IF client_fd = None THEN None ELSE owner[client_fd]]
  <2>1. PICK o \in Objects : object[o].state = "free" /\ object' = [object EXCEPT ![o] = made]
    BY <1>3 DEF new_ClientConnection, Unused
  <2>2. /\ client_fd' = None /\ main = "new" /\ main' = "create" /\ status = "running"
        /\ UNCHANGED <<status, startup, owner, queue, threads, users>>
    BY <1>3 DEF new_ClientConnection
  <2>3. /\ made \in Connection /\ made.state = "made" /\ made.fd = client_fd
        /\ client_fd # None => made.client = owner[client_fd]
    BY <1>i DEF ServerTypes, AcceptInv, Connection
  <2> HIDE DEF made
  <2>4. /\ object'[o] = made
        /\ \A p \in Objects \ {o} : object'[p] = object[p]
    BY <1>i, <2>1 DEF ServerTypes
  <2>5. /\ Holds(o)' <=> client_fd # None
        /\ ~Holds(o)
        /\ \A p \in Objects \ {o} : Holds(p)' <=> Holds(p)
    BY <2>1, <2>3, <2>4 DEF Holds, Working
  <2>6. ServerTypes' /\ ClientTypes'
    BY <1>i, <2>1, <2>2, <2>3 DEF ServerTypes, ClientTypes, startup, users
  <2>7. ListenInv' /\ AcceptInv'
    BY <1>i, <2>2 DEF ListenInv, AcceptInv, startup
  <2>8. HoldInv'
    BY <1>i, <2>2, <2>3, <2>4, <2>5 DEF HoldInv, AcceptInv
  <2>9. KeptInv'
    <3>1. \A p \in Objects : (p \in Holding <=> Holds(p)) /\ (p \in Holding' <=> Holds(p)')
      BY DEF Holding, Holds
    <3> QED
      BY <1>i, <2>2, <2>3, <2>4, <2>5, <3>1 DEF KeptInv, Holding, ServerTypes, startup
  <2>10. FindInv'
    BY <1>i, <2>2 DEF FindInv, startup, users
  <2> QED
    BY <2>6, <2>7, <2>8, <2>9, <2>10 DEF LoopInv
<1>4. CASE bad_alloc
  BY <1>4, <1>i DEF bad_alloc, LoopInv, ServerTypes, ClientTypes, ListenInv, AcceptInv,
     HoldInv, Holds, KeptInv, Holding, FindInv, startup, loop, pool, users
<1> QED
  BY <1>1, <1>2, <1>3, <1>4

\* What a step may do to the objects without giving or taking a descriptor.
SameHolding ==
    /\ object' \in [Objects -> Connection]
    /\ \A o \in Objects : /\ Holds(o)' <=> Holds(o)
                          /\ object'[o].fd = object[o].fd
                          /\ object'[o].client = object[o].client

\* A step that changes at most the state of objects keeps the invariant.
LEMMA StateOnly ==
  ASSUME LoopInv, SameHolding, threads' \in Nat,
         main' \in {"accept", main}, main = "new" => main' = main,
         UNCHANGED <<status, startup, owner, queue, client_fd, users>>, status = "running"
  PROVE  LoopInv'
<1>i. /\ ServerTypes /\ ClientTypes /\ ListenInv /\ AcceptInv /\ HoldInv
      /\ KeptInv /\ FindInv
  BY DEF LoopInv
<1>1. ServerTypes' /\ ClientTypes'
  BY <1>i DEF SameHolding, ServerTypes, ClientTypes, startup, users
<1>2. ListenInv' /\ AcceptInv' /\ HoldInv'
  BY <1>i DEF SameHolding, ListenInv, AcceptInv, HoldInv, startup
<1>3. KeptInv'
  <2>1. \A p \in Objects : (p \in Holding <=> Holds(p)) /\ (p \in Holding' <=> Holds(p)')
    BY DEF Holding, Holds
  <2> QED
    BY <1>i, <2>1 DEF SameHolding, KeptInv, Holding, startup
<1>4. FindInv'
  BY <1>i DEF FindInv, startup, users
<1> QED
  BY <1>1, <1>2, <1>3, <1>4 DEF LoopInv

\* Starting a thread, or failing to, leaves the descriptor with its object.
LEMMA CreateStep ==
  ASSUME LoopInv, pthread_create \/ pthread_create_fails
  PROVE  LoopInv'
<1>i. ServerTypes
  BY DEF LoopInv
<1>1. PICK to \in {"chat", "leaked"} :
          object' = [o \in Objects |->
              IF object[o].state = "made" THEN [object[o] EXCEPT !.state = to] ELSE object[o]]
  BY DEF pthread_create, pthread_create_fails
<1>2. SameHolding
  BY <1>1, <1>i DEF SameHolding, Holds, ServerTypes, Connection, Working
<1>3. /\ threads' \in Nat /\ main = "create" /\ main' = "accept" /\ status = "running"
      /\ UNCHANGED <<status, startup, owner, queue, client_fd, users>>
  BY <1>i DEF pthread_create, pthread_create_fails, ServerTypes
<1> QED
  BY <1>2, <1>3, StateOnly

-----------------------------------------------------------------------------
(* The steps of a thread and of a client.                                    *)

\* A conversation, the closing of its socket and the deletion of the object
\* keep the invariant: what is closed is nobody else's.
LEMMA WorkerKeeps ==
  ASSUME LoopInv, NEW o \in Objects,
         \/ chat_reads_nothing(o) \/ chat_reads_line(o)
         \/ lock_returns(o) \/ handler_returns(o) \/ chat_ends(o)
         \/ close_fd(o) \/ delete(o)
  PROVE  LoopInv'
<1> USE ServerLoopAssumption
<1>i. /\ ServerTypes /\ ClientTypes /\ ListenInv /\ AcceptInv /\ HoldInv
      /\ KeptInv /\ FindInv
  BY DEF LoopInv
<1>1. CASE \/ chat_reads_nothing(o) \/ chat_reads_line(o)
           \/ lock_returns(o) \/ handler_returns(o) \/ chat_ends(o)
  <2>1. PICK to \in Working :
            /\ object[o].state \in Working /\ object' = [object EXCEPT ![o].state = to]
            /\ status = "running"
            /\ UNCHANGED <<status, startup, owner, queue, loop, threads, users>>
    BY <1>1 DEF chat_reads_nothing, chat_reads_line, lock_returns, handler_returns,
       chat_ends, SetState, Working
  <2>2. SameHolding
    BY <1>i, <2>1 DEF SameHolding, Holds, ServerTypes, Connection
  <2> QED
    BY <1>i, <2>1, <2>2, StateOnly DEF ServerTypes, loop
<1>2. CASE close_fd(o)
  <2>1. /\ object[o].state = "closing" /\ object' = [object EXCEPT ![o].state = "closed"]
        /\ owner' = IF object[o].fd = None THEN owner ELSE [owner EXCEPT ![object[o].fd] = None]
        /\ status = "running" /\ UNCHANGED <<status, startup, queue, loop, threads, users>>
    BY <1>2 DEF close_fd, SetState, CloseFd
  <2>2. /\ object' \in [Objects -> Connection]
        /\ ~Holds(o)' /\ (Holds(o) <=> object[o].fd # None)
        /\ \A p \in Objects \ {o} : object'[p] = object[p] /\ (Holds(p)' <=> Holds(p))
    BY <1>i, <2>1 DEF Holds, ServerTypes, Connection, Working
  <2>3. PICK f \in Descriptors \cup {None} : f = object[o].fd
    BY <1>i DEF ServerTypes, Connection
  <2>4. /\ owner' \in [Descriptors -> Clients \cup {None, "parent", "server"}]
        /\ f # None => owner'[f] = None
        /\ \A d \in Descriptors : d # f => owner'[d] = owner[d]
    BY <1>i, <2>1, <2>3 DEF ServerTypes
  <2>5. f # None => /\ owner[f] \in Clients
                    /\ \A p \in Objects \ {o} : Holds(p) => object[p].fd # f
    BY <1>i, <2>2, <2>3 DEF HoldInv
  <2>6. \A p \in Objects : object[p].fd \in Descriptors \cup {None}
    BY <1>i DEF ServerTypes, Connection
  <2>7. ServerTypes' /\ ClientTypes'
    BY <1>i, <2>1, <2>2, <2>4 DEF ServerTypes, ClientTypes, startup, loop, users
  <2>8. ListenInv' /\ AcceptInv'
    BY <1>i, <2>1, <2>2, <2>3, <2>4, <2>5 DEF ListenInv, AcceptInv, ServerTypes, startup, loop
  <2>9. HoldInv'
    <3>1. \A p \in Objects : Holds(p)' =>
              /\ p # o /\ Holds(p) /\ object'[p] = object[p]
              /\ object[p].fd \in Descriptors /\ object[p].fd # f
      BY <2>2, <2>4, <2>5, <2>6 DEF Holds
    <3>2. \A p \in Objects : Holds(p)' => owner'[object[p].fd] = owner[object[p].fd]
      BY <2>4, <3>1
    <3> QED
      BY <1>i, <3>1, <3>2 DEF HoldInv
  <2>10. KeptInv'
    <3>1. \A p \in Objects : (p \in Holding <=> Holds(p)) /\ (p \in Holding' <=> Holds(p)')
      BY DEF Holding, Holds
    <3>2. SUFFICES ASSUME NEW d \in Descriptors, owner'[d] \notin {None, "parent"}
                   PROVE  \/ d = server_fd'
                          \/ main' = "new" /\ d = client_fd'
                          \/ \E p \in Holding' : object'[p].fd = d
      BY DEF KeptInv
    <3>3. d # f /\ owner'[d] = owner[d]
      BY <2>4, <3>2
    <3>4. \/ d = server_fd
          \/ main = "new" /\ d = client_fd
          \/ \E p \in Holding : object[p].fd = d
      BY <1>i, <3>2, <3>3 DEF KeptInv
    <3>5. ASSUME NEW p \in Holding, object[p].fd = d
          PROVE  p \in Holding' /\ object'[p].fd = d
      BY <2>2, <2>3, <3>1, <3>3, <3>5 DEF Holding
    <3> QED
      BY <2>1, <3>4, <3>5 DEF startup, loop
  <2>11. FindInv'
    BY <1>i, <2>1 DEF FindInv, startup, users
  <2> QED
    BY <2>7, <2>8, <2>9, <2>10, <2>11 DEF LoopInv
<1>3. CASE delete(o)
  <2>1. /\ object[o].state = "closed" /\ object' = [object EXCEPT ![o] = NoObject]
        /\ status = "running"
        /\ UNCHANGED <<status, startup, owner, queue, loop, threads, users>>
    BY <1>3 DEF delete
  <2>2. NoObject \in Connection /\ NoObject.state = "free"
    BY DEF NoObject, Connection
  <2>3. /\ object' \in [Objects -> Connection]
        /\ ~Holds(o)' /\ ~Holds(o)
        /\ \A p \in Objects \ {o} : object'[p] = object[p] /\ (Holds(p)' <=> Holds(p))
    BY <1>i, <2>1, <2>2 DEF Holds, ServerTypes, Working
  <2>4. ServerTypes' /\ ClientTypes'
    BY <1>i, <2>1, <2>3 DEF ServerTypes, ClientTypes, startup, loop, users
  <2>5. ListenInv' /\ AcceptInv' /\ HoldInv'
    BY <1>i, <2>1, <2>3 DEF ListenInv, AcceptInv, HoldInv, startup, loop
  <2>6. KeptInv'
    <3>1. \A p \in Objects : (p \in Holding <=> Holds(p)) /\ (p \in Holding' <=> Holds(p)')
      BY DEF Holding, Holds
    <3> QED
      BY <1>i, <2>1, <2>3, <3>1 DEF KeptInv, Holding, startup, loop
  <2>7. FindInv'
    BY <1>i, <2>1 DEF FindInv, startup, users
  <2> QED
    BY <2>4, <2>5, <2>6, <2>7 DEF LoopInv
<1> QED
  BY <1>1, <1>2, <1>3

\* A client's steps concern only the addresses it has still to try.
LEMMA ClientKeeps ==
  ASSUME LoopInv, NEW c \in Clients,
         open_clientfd(c) \/ connect(c) \/ connect_fails(c) \/ give_up(c) \/ leave(c)
  PROVE  LoopInv'
<1>i. /\ ServerTypes /\ ClientTypes /\ ListenInv /\ AcceptInv /\ HoldInv
      /\ KeptInv /\ FindInv
  BY DEF LoopInv
<1>1. UNCHANGED <<status, startup, owner, loop, pool>>
  BY DEF open_clientfd, connect, connect_fails, give_up, leave
<1>2. queue' \in Seq(Clients)
  <2>1. queue \in Seq(Clients)
    BY <1>i DEF ServerTypes
  <2>2. queue' = queue \/ queue' = Append(queue, c)
    BY DEF open_clientfd, connect, connect_fails, give_up, leave
  <2> QED
    BY <2>1, <2>2, AppendProperties
<1>3. ServerTypes' /\ ListenInv' /\ AcceptInv' /\ HoldInv' /\ KeptInv'
  BY <1>1, <1>2, <1>i DEF ServerTypes, ListenInv, AcceptInv, HoldInv, Holds, KeptInv,
     Holding, startup, loop, pool
<1>4. ClientTypes' /\ FindInv'
  <2>1. CASE open_clientfd(c)
    <3>1. PICK list \in Lists \cup {<<>>} :
              /\ tries' = [tries EXCEPT ![c] = list]
              /\ expecting' = IF status = "running" /\ list # <<>>
                              THEN expecting \cup {c} ELSE expecting
      BY <2>1 DEF open_clientfd
    <3>2. /\ list \in Seq(Families)
          /\ list # <<>> => \A f \in Families : \E i \in 1..Len(list) : list[i] = f
      BY ListHasAll, EmptySeq
    <3>3. client' = [client EXCEPT ![c] = "connecting"] /\ client[c] = "out"
      BY <2>1 DEF open_clientfd
    <3>4. status = "running" => bound \in Families
      BY <1>i DEF ServerTypes, FindInv
    <3>5. ClientTypes'
      BY <1>i, <3>1, <3>2, <3>3 DEF ClientTypes
    <3>6. FindInv'
      BY <1>1, <1>i, <3>1, <3>2, <3>3, <3>4 DEF ClientTypes, FindInv, startup
    <3> QED
      BY <3>5, <3>6
  <2>2. CASE connect(c)
    <3>1. /\ client' = [client EXCEPT ![c] = "connected"]
          /\ tries' = [tries EXCEPT ![c] = <<>>] /\ expecting' = expecting \ {c}
      BY <2>2 DEF connect
    <3> QED
      BY <1>1, <1>i, <3>1 DEF ClientTypes, FindInv, startup
  <2>3. CASE connect_fails(c)
    <3>1. /\ tries[c] # <<>>
          /\ tries' = [tries EXCEPT ![c] = Tail(tries[c])] /\ UNCHANGED client
          /\ expecting' \subseteq expecting
          /\ c \in expecting' => ~(status = "running" /\ Head(tries[c]) = bound)
      BY <2>3 DEF connect_fails, Answers
    <3>2. PICK s \in Seq(Families) : s = tries[c] /\ s # <<>>
      BY <1>i, <3>1 DEF ClientTypes
    <3>3. /\ Tail(s) \in Seq(Families) /\ Len(Tail(s)) = Len(s) - 1 /\ Len(s) \in Nat
          /\ \A i \in 1..Len(Tail(s)) : Tail(s)[i] = s[i + 1]
          /\ Head(s) = s[1]
      BY <3>2, HeadTailProperties, LenProperties
    <3>4. PICK t \in Seq(Families) : t = Tail(s)
      BY <3>3
    <3>5. ASSUME status = "running", c \in expecting', NEW i \in 1..Len(s), s[i] = bound
          PROVE  \E j \in 1..Len(t) : t[j] = bound
      <4>1. i # 1
        BY <3>1, <3>2, <3>3, <3>5
      <4>2. i - 1 \in 1..Len(t) /\ t[i - 1] = s[(i - 1) + 1] /\ (i - 1) + 1 = i
        BY <3>3, <3>4, <4>1
      <4> QED
        BY <3>5, <4>2
    <3>6. /\ tries'[c] = t /\ \A d \in Clients \ {c} : tries'[d] = tries[d]
          /\ tries' \in [Clients -> Seq(Families)]
      BY <1>i, <3>1, <3>2, <3>4 DEF ClientTypes
    <3>7. ClientTypes'
      BY <1>i, <3>1, <3>6 DEF ClientTypes
    <3>8. ASSUME NEW d \in expecting', status = "running"
          PROVE  \E i \in 1..Len(tries'[d]) : tries'[d][i] = bound
      <4>1. d \in Clients /\ \E i \in 1..Len(tries[d]) : tries[d][i] = bound
        BY <1>i, <3>1, <3>8 DEF ClientTypes, FindInv
      <4>2. CASE d = c
        BY <3>2, <3>5, <3>6, <3>8, <4>1, <4>2
      <4>3. CASE d # c
        BY <3>6, <4>1, <4>3
      <4> QED
        BY <4>2, <4>3
    <3>9. FindInv'
      BY <1>1, <1>i, <3>1, <3>8 DEF FindInv, startup
    <3> QED
      BY <3>7, <3>9
  <2>4. CASE give_up(c)
    <3>1. /\ client' = [client EXCEPT ![c] = "refused"] /\ UNCHANGED <<tries, expecting>>
          /\ tries[c] = <<>>
      BY <2>4 DEF give_up
    <3>2. Len(tries[c]) = 0
      BY <3>1
    <3> QED
      BY <1>1, <1>i, <3>1, <3>2 DEF ClientTypes, FindInv, startup
  <2>5. CASE leave(c)
    <3>1. /\ client' = [client EXCEPT ![c] = "left"] /\ UNCHANGED <<tries, expecting>>
          /\ client[c] = "connected"
      BY <2>5 DEF leave
    <3> QED
      BY <1>1, <1>i, <3>1 DEF ClientTypes, FindInv, startup
  <2> QED
    BY <2>1, <2>2, <2>3, <2>4, <2>5
<1> QED
  BY <1>3, <1>4 DEF LoopInv

-----------------------------------------------------------------------------
(* The theorems.                                                             *)

\* The server starts with nothing open but what it was given.
LEMMA LoopStarts == Init => LoopInv
<1> SUFFICES ASSUME Init PROVE LoopInv
  OBVIOUS
<1> USE ServerLoopAssumption
<1>1. PICK inherited \in SUBSET Inheritable :
          owner = [d \in Descriptors |-> IF d \in inherited THEN "parent" ELSE None]
  BY DEF Init
<1>2. <<>> \in Seq(Families) /\ <<>> \in Seq(Clients) /\ Len(<<>>) = 0
  BY EmptySeq
<1>3. listp \in Seq(Families)
  BY <1>2, ListHasAll DEF Init
<1>4. NoObject \in Connection /\ NoObject.state = "free"
  BY DEF NoObject, Connection
<1>5. ServerTypes /\ ClientTypes
  BY <1>1, <1>2, <1>3, <1>4 DEF Init, ServerTypes, ClientTypes
<1>6. \A o \in Objects : ~Holds(o)
  BY <1>4 DEF Init, Holds, Working
<1>7. ListenInv /\ AcceptInv /\ HoldInv
  BY <1>6 DEF Init, ListenInv, AcceptInv, HoldInv
<1>8. KeptInv /\ FindInv
  BY <1>1 DEF Init, KeptInv, FindInv
<1> QED
  BY <1>5, <1>7, <1>8 DEF LoopInv

\* Every step keeps the invariant.
LEMMA LoopContinues == LoopInv /\ [Next]_vars => LoopInv'
<1> SUFFICES ASSUME LoopInv, [Next]_vars PROVE LoopInv'
  OBVIOUS
<1>1. CASE MainStep
  BY <1>1, StartStep, AcceptStep, CreateStep DEF MainStep
<1>2. CASE \E o \in Objects :
             \/ chat_reads_nothing(o) \/ chat_reads_line(o)
             \/ lock_returns(o) \/ handler_returns(o) \/ chat_ends(o)
             \/ close_fd(o) \/ delete(o)
  BY <1>2, WorkerKeeps
<1>3. CASE \E c \in Clients :
             open_clientfd(c) \/ connect(c) \/ connect_fails(c) \/ give_up(c) \/ leave(c)
  BY <1>3, ClientKeeps
<1>4. CASE UNCHANGED vars
  BY <1>4 DEF vars, LoopInv, ServerTypes, ClientTypes, ListenInv, AcceptInv,
     HoldInv, Holds, KeptInv, Holding, FindInv, startup, loop, pool, users
<1> QED
  BY <1>1, <1>2, <1>3, <1>4 DEF Next

\* The invariant holds throughout.
LEMMA LoopInvariant == Spec => []LoopInv
  BY LoopStarts, LoopContinues, PTL DEF Spec

\* However many connections come and go and numbers are used again, a thread's
\* descriptor is its client's until the thread closes it (server_loop,
\* client_worker, chat_with_client).
THEOREM DescriptorsAreOwn == Spec => []OwnDescriptor
<1>1. LoopInv => OwnDescriptor
  BY DEF LoopInv, HoldInv, OwnDescriptor, Holding, Holds
<1> QED
  BY <1>1, LoopInvariant, PTL

\* Whatever fails on the way, the sockets nobody is to close are those of the
\* connections whose thread could not be started, one for each of them
\* (open_listenfd, server_loop, client_worker).
THEOREM LeaksAreTheOnlyLoss == Spec => []OnlyLeakedAreLost
<1>1. ASSUME LoopInv, NEW d \in Lost
      PROVE  \E o \in Objects : /\ object[o].state = "leaked" /\ object[o].fd = d
                               /\ \A p \in Holding : object[p].fd = d => p = o
  <2>1. PICK o \in Holding : object[o].fd = d
    BY <1>1 DEF LoopInv, KeptInv, Lost
  <2>2. o \in Objects /\ object[o].state = "leaked"
    BY <1>1, <2>1 DEF Lost, Holding
  <2>3. \A p \in Holding : object[p].fd = d => p = o
    BY <1>1, <2>1 DEF LoopInv, HoldInv, Holds, Holding
  <2> QED
    BY <2>1, <2>2, <2>3
<1>2. LoopInv => OnlyLeakedAreLost
  BY <1>1 DEF OnlyLeakedAreLost
<1> QED
  BY <1>2, LoopInvariant, PTL

\* A client whose own attempt at the server's address does not fail is not
\* refused because of the others: for every set of address families and every
\* order of the two address lists it comes to the one where the server listens,
\* unless getaddrinfo fails or the server dies (open_listenfd, open_clientfd).
THEOREM ListeningIsFound == Spec => []FindsServer
<1>1. LoopInv => FindsServer
  BY DEF LoopInv, FindInv, FindsServer
<1> QED
  BY <1>1, LoopInvariant, PTL
=============================================================================
