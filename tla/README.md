# A verification project for the key/value server of csf_assign05

The repository is a small network database in C++: `server` keeps named tables
of string pairs, each client connection has an operand stack, can set and get
table entries one at a time (*autocommit*) or in a *transaction*, and three
client programs use it. This directory holds TLA+ modules that model it, TLC
configurations that check them on small instances and TLAPS proofs for
instances of every size. File and line numbers refer to `src/csf_assign05/`.

## 1. The system

| part | code | state | operations |
|---|---|---|---|
| Server, `server_main` | `server.cpp`, `server_main.cpp` | `server_fd`, `table_names` (name -> `Table*`), a mutex around creation | `listen`; `server_loop` accepts and starts one thread per client; `lock`, `unlock`, `create_table`, `find_table`; `main` |
| ClientConnection | `client_connection.cpp` | `stack`, `locked_tables`, `in_transaction`, `loop_in_progress`, the local `first_valid_message` | `chat_with_client` reads, decodes, gates on LOGIN, dispatches to 13 handlers; `manage_exception`, `fail_transaction`, the destructor |
| Table | `table.cpp` | committed `key_value_pairs`, `proposed_pairs`, a mutex | `set`, `get`, `has_key`, `commit_changes`, `rollback_changes`, `lock`, `trylock`, `unlock` |
| ValueStack and arithmetic | `value_stack.cpp`, `handle_add` ... `handle_div` | a stack of strings | push, pop, top; ADD, SUB, MUL, DIV through `stoi` and `to_string` |
| Message and serialization | `message.cpp`, `message_serialization.cpp` | type and arguments | `is_valid`, `encode`, `decode` |
| client programs | `incr_value.cpp`, `get_value.cpp`, `set_value.cpp` | position in a fixed sequence of requests | send, wait, give up at the first unexpected response |
| rio and the sockets | `csapp.c` | `rio_t`, the kernel's buffers, descriptors | `rio_readinitb`, `rio_readlineb`, `rio_writen`; `open_listenfd`, `open_clientfd` |
| tctest, the unit tests, `guard.h` | tests, a helper nobody uses | none that concerns the properties | - |

**Interaction.** Clients and server exchange one line per request and response,
each of them written by `rio_writen` and read by `rio_readlineb`. The main thread
accepts; each accepted descriptor belongs to a `ClientConnection` and its thread.
Inside the server the threads share `table_names` and the tables and nothing
else. An autocommitted SET or GET *waits* for the table's mutex; a transaction
*tries* the mutex, fails when it is taken, and keeps what it gets until COMMIT
or failure; CREATE waits for the server's mutex. `find_table` takes no lock.

**What is hard.** The interleavings of threads around the mutexes; the many ways
out of a transaction (COMMIT, any exception, a line that does not parse, BYE,
the end of the input at any moment), each of which has to roll back and unlock;
commits that touch the tables one after the other; undefined behaviour where a
lock is missing; conversions and arithmetic at the edges of `int`; line lengths;
lines that travel in pieces, with either side dying in the middle; descriptors
that are used again, and accept, `new` and `pthread_create` at their limits.
`PROJECT.json` lists these as hazards, each at its line with the properties that
would catch it going wrong.

**What makes each part correct.** Tables: one holder at a time, used only under
the lock, nothing uncommitted left when let go (`MutualExclusion`,
`NoTableRace`, `CleanWhenUnlocked`, `CleanWhenReleased`, `NoOrphanLock`).
Transactions: all or nothing, nobody else interferes or sees what is not
committed (`ImplementsStore`, `Isolation`, `NoDirtyFetch`). Server: no cyclic
waiting, no table replaced (`NoWaitCycle`, `CommittedKeysStay`), tables always let
go again (`LeavingReleasesLocks`, `LocksAreReleased`). Stack: `ArithmeticExact`, `RefusedArithKeepsOperands`.
Messages: `RoundTrip`, `DecodedIsPlain`, `AnswerFits`. Clients:
`NoLostIncrement`, `ClientsFinish`. Connection: bytes make lines, in order, once,
complete (`InOrder`, `ImplementsExchange`), no answer is lost (`AnswerArrives`,
`NothingDropped`), nobody waits for ever except behind a mutex (`ProgramEnds`,
`ServerLetsGo`). Accept loop: `OwnDescriptor`, `OnlyLeakedAreLost`, `FindsServer`,
`WaitingAreServed`, `LeftAreClosed`.

## 2. Modules

```
Table   ValueStack          Message
    \   /                   /     \
   BasicServer             |   Transmission ---- MCTransmission
   |    |                  |        |
   |    |                  |   TransmissionProofs
   |    |                  INSTANCE
   |    |                  v
   |    |          /--- Clients ---- MCClients
   |    ServerRefinesStore --INSTANCE--> TransactionStore
   |          |
   |     MCBasicServer
   BasicServerProofs
   |
   ExclusionProofs
   |
   ReleaseProofs
   |
   StoreProofs (extends ServerRefinesStore too)
   |
   ClientsProofs (extends Clients too)

   Rio                                    ServerLoop
    |                                      |      |
   Conversation --INSTANCE--> Exchange     |   MCServerLoop
    |        |                            ServerLoopProofs
    |      MCConversation
   ConversationProofs
```

- **Table**: the two maps as functions from `Keys` to values or `None`. `get`
  prefers the committed value and `commit_changes` does not clear the proposed
  map, as in the code.
- **ValueStack**: a string is what `std::stoi` makes of it: the print of an int,
  another text that reads as an int (`"007"`), no number
  (`std::invalid_argument`), or too large a number (`std::out_of_range`). `int`
  has an arbitrary width: `IntMax` is a constant; overflow wraps as in the
  Makefile's `-g` build; the trapping divisions end the process.
- **BasicServer**: the server process. Per connection the members of
  `ClientConnection` under the code's names, plus a program counter. A step ends
  at each lock, trylock and unlock and at each access to the table map or to a
  table, so that threads interleave exactly where they can see each other. What
  a handler does only to its own connection belongs to the step that answers.
  The iterations over `locked_tables` in COMMIT and `fail_transaction` are loops
  of steps over `todo`, in any order since an `unordered_set` has none.
  `status` says whether the process runs, or why it does not: an uncaught
  exception, a trap, a SIGPIPE (no handler is installed, so a write to a client
  that has left can kill the process), or `"undefined"` after a data race.
  A race can also come out as if the accesses had happened in some order;
  both are possible next steps. `pthread_mutex_unlock` by a thread that does not
  own the mutex releases it, as the default mutex does.
- **TransactionStore**: what the server promises: a table has at most one owner,
  only the owner proposes changes, all of them take effect in one step or none,
  and a table is let go with nothing pending.
- **ServerRefinesStore**: the refinement mapping. A commit takes effect when the
  iteration of `handle_commit` starts: tables it still has to visit already count
  as committed in `CommittedView`. A failing transaction's proposals count as
  gone when `fail_transaction` starts.
- **Message**, **Transmission**: `is_valid`, `encode` and `decode` on messages
  whose arguments are sequences of words; a word has a length and is an
  identifier or not. Transmission sends a message, or a foreign line, and lets
  the server answer TOP with the value of a PUSH.
- **Clients**: `incr_value`, `get_value` and `set_value` as sequences of
  requests, each running as a process against BasicServer's actions; `ExitStatus`
  passes the response through the modelled `encode` and `decode`. A process can
  be killed at any moment. `program` says which programs the users have started,
  or other sequences of requests; a run checks several such choices.
- **Rio**: the two ends of a connection. A byte knows its line, its place in it
  and whether it is the newline. `write` moves any number of bytes the kernel has
  room for, `rio_read` fills the rio buffer with any number that have come,
  `copy` is the loop of `rio_readlineb` up to the newline or `maxlen - 1`
  characters. An end that closes with unread input, or is written to after it
  closed, resets the connection; then a read can fail and what had come is gone.
- **Conversation**: `chat_with_client` with its one `rio_t` on one side; on the
  other a program of the repository (one request at a time, a fresh `rio_t` for
  each response) or a client of the same protocol that sends ahead and keeps its
  `rio_t`. Which request it is does not matter beyond REQUEST or BYE, nor which
  answer beyond OK or a refusal: what requests do is in BasicServer, which in
  turn treats a line as one step. That this is sound is what `ImplementsExchange`
  says. Before it carries a request out the thread may have to wait for a mutex,
  a table's or the server's (`wait_for_lock`, `get_lock`), perhaps for ever.
- **Exchange**: what a connection promises: requests are carried out when they
  are complete, in order and once, and answers heard in that order.
- **ServerLoop**: the server process around its connections: `open_listenfd`
  address by address, `accept`, `new`, `pthread_create` with their failures,
  descriptors with the lowest free number first, objects from `made` over `chat`
  (reading), `handle` (carrying a request out), `lock` (waiting for a mutex, perhaps
  for ever), `closing` and `closed` to deleted, or `leaked` when no thread could be
  started, and the count of threads, which only grows. Clients come through
  `open_clientfd`, where getaddrinfo and each `socket` or `connect` can fail, also
  at the server's own address, wait in the backlog, leave when they like.
- **BasicServerProofs**, **ExclusionProofs**, **ReleaseProofs**,
  **StoreProofs**, **ClientsProofs**, **TransmissionProofs**,
  **ServerLoopProofs**, **ConversationProofs**: the theorems and their lemmas
  (section 4).

| code | BasicServer |
|---|---|
| `server_loop`, `client_worker` | `Accept`, `Delete` |
| `chat_with_client` | `read_eof`, `read_invalid`, `handle_login`, `refuse`, `Handle`, `close_connection` |
| `manage_exception`, `fail_transaction` | `manage_exception`, `fail_transaction`, `rollback_table`, `fail_unlock`, `fail_done` |
| `handle_commit` | `handle_commit`, `commit_table`, `commit_unlock`, `commit_done` |
| `handle_set`, `set_table_value` | `handle_set`, `find_table`, `lock` or `trylock`, `set_table_value`, `autocommit`, `unlock` |
| `handle_get`, `get_table_value` | `handle_get`, `find_table`, `lock` or `trylock`, `get_has_key`, `get_table_value`, `unlock`; `get_missing`, `get_catch` when the key is missing |
| `handle_create` | `handle_create`, `create_lock`, `create_find`, `create_exists`, `create_insert`, `create_assign`, `create_unlock` |
| `handle_add` ... `handle_div` | `handle_arith` |
| the other handlers | an action each, under the same name |

`CONSTANT MissingKeyGets` separates two questions. The code unlocks a table twice
when a GET's key is missing (lines 433 and 408, or 433 and 95), which takes a lock
away from whoever locked the table in between. With `FALSE` clients only GET keys
that are certain to be there, and the locking discipline is checked (and
proved) as such; with `TRUE` it is checked what still holds in spite of the
second unlock, and shown what does not.

## 3. Runs

Passing:

| run | instance | properties | shows |
|---|---|---|---|
| `tx` | 2 connections, a table with a committed value and one to be created, 1 key | `TypeOK`, `MutualExclusion`, `NoTableRace`, `CleanWhenUnlocked`, `NoWaitCycle`, `Isolation`, `CommittedKeysStay`, `ImplementsStore` | locking of tables across autocommitted requests, transactions and CREATE; commits and rollbacks of several tables are atomic; nobody waits in a cycle; no table is replaced |
| `leave` | 2 connections, 1 table, GETs for a missing key, BYE also in a transaction, `FairSpec` | `NoOrphanLock`, `CleanWhenReleased`, `LeavingReleasesLocks`, `LocksAreReleased` | what survives the double unlock; a client that goes away leaves nothing locked; every lock is let go |
| `arith` | 1 connection, stack of 3, ints -4..3 | `RefusedArithKeepsOperands`, `ArithmeticExact` | every pair of operands, overflow, traps, texts that are no numbers |
| `transmission` | all types, up to 2 arguments of 2 words, lines of 3 words, limit 10 | `RoundTrip`, `DecodedIsPlain`, `AnswerFits` | encode, decode and is_valid agree around the limit |
| `clients` | two `incr_value -t` and a `get_value`; or `incr_value` with and without `-t` and a `set_value` on a key that is missing at first; or a transaction that sets two tables, one that reads both and a `get_value` | `NoLostIncrement`, `NoDirtyFetch`, `ClientsFinish` | no update is lost, nobody reads a proposal of another or half a commit, and every process ends, with processes killed at will |
| `conversation` | up to 3 requests, lines of 2 or 3 bytes, buffers of 4, a client that reads 2 characters at most | `InOrder`, `NothingDropped`, `AnswerArrives`, `ImplementsExchange`, `ProgramEnds`, `ServerLetsGo` | a connection of bytes is a connection of lines, whoever dies at whichever byte |
| `server_loop` | 2 clients, 0 to 2 descriptors for them, 2 threads, 3 objects, 2 address families | `OwnDescriptor`, `OnlyLeakedAreLost`, `FindsServer`, `WaitingAreServed`, `LeftAreClosed` | descriptors are not mixed up, and lost only by a failed `pthread_create`; what the loop still does when resources run out |

Each property of a passing run has a mutant: a variant of one definition, with a
plausible slip of the code it models (a lock not taken, a result not looked at,
a missing rollback), under which TLC finds the property violated.

Violated, each a place where the code does not do what a comment, a test or the
report in `src/README.txt` says (`findings` in `PROJECT.json`):

| run | property | what happens |
|---|---|---|
| `isolation` | `Isolation` | c1's GET for a missing key unlocks the table, c2's transaction locks it, c1 unlocks or rolls it back |
| `read_own` | `ReadYourWrites` | a transaction sets a committed key and reads the old value |
| `lookup` | `NoLookupDuringCreate` | SET or GET walks the map of tables while CREATE inserts |
| `killed` | `NoRequestKillsServer` | ADD on a number too large for `int`, or DIV by 0 |
| `refusal` | `RefusalIsReported` | FAILED is sent without quotation marks; the client's decode throws and nothing catches it |

What the passing runs show is not always what one would like. `WaitingAreServed`
exempts the end of the server for a reason: without a free descriptor `accept`
fails at once, again and again, each time with a connection object and a thread
for nobody; when the threads are used up the objects stay, and `new` finally
throws what `main` does not catch. A thread is also used up by each client that
was served in the ordinary way. A failed `pthread_create` leaves the descriptor and the
object behind for good (`server.cpp` lines 42-44), which `OnlyLeakedAreLost` and
`LeftAreClosed` state as the exception it is. A thread that waits in `Table::lock` for
a table of an idle transaction does not notice that its client has left: it keeps
descriptor and stack for as long as the other client likes, which is why
`ServerLetsGo` and `LeftAreClosed` exempt it. And a response of exactly `MAX_ENCODED_LEN`
characters, which the server sends (`message.h` line 40 counts the newline in),
is read by the clients' `rio_readlineb(..., 1024)` without its newline, so that
`decode` throws; `hear_response` has that case.

A smaller deviation needs no run: `handle_login` tests its pointer argument and
not the flag behind it, so that a second LOGIN is answered OK and the error text
"You are already logged in." is never sent (lines 181-183).

### Bounds

Two connections are enough for every pair of threads that meet at a table or in
the map; a third thread adds nothing to a mutex that is taken. Two tables are
needed where a transaction spans tables (`tx`, `clients`), so that one can be let
go while the other is still being committed; one key suffices, since it is
missing, proposed, committed and overwritten in turn. What a GET returns is
checked in `clients`: there the values read are overwritten with others, in one
table by increments and in two tables at once by a transaction, so that what is
committed differs from what another client proposes and half a commit from the
whole; in `tx`, where clients send what they like, a GET of a value that changes
makes the run too long.
`MaxStack` bounds the stack: no PUSH or GET is sent beyond it. One value suffices
where the runs only ask *whether* a value was proposed or committed; the values
0 and 1 tell an overwritten value from a new one; `arith` uses every int of a
3-bit width. `clients` runs three processes because an autocommitted
client can wait for one transaction while another fails; the key the transactions
increment starts one below the largest int, so that the second increment
overflows. Connections are
interchangeable and declared symmetric in the runs with two of them, except in the
liveness run. `ImplementsStore` is symmetric too: the `CHOOSE` in `OwnerView` has
one candidate at most, by `MutualExclusion` of the same run, and the property
states no liveness. A connection slot
is reused after its client has left, so behaviours are infinite.
In `conversation` the buffers hold two short lines, or one and a part of the next,
but not two long ones, so that lines are split, joined and blocked at every byte; three
requests are one answered, one under way and one sent ahead. In `server_loop` the
descriptors open at the start (`Inheritable`) leave two, one or none for
clients: two connections at a time, a number used again, and none left; two
threads and three objects run out within the behaviours of two clients.

### Fairness

`FairSpec` assumes that the kernel schedules every thread (weak fairness of
`ThreadStep`) and that a thread whose client is gone gets to the end of the
input, strong fairness of `read_eof`, since a gone client's buffered requests are
finitely many. A mutex is not assumed to be fair: `LeavingReleasesLocks` exempts
a thread that waits for another client's table. `LocksAreReleased` assumes in
addition that a client in a transaction eventually sends COMMIT or leaves
(`CourteousClients`), as the three programs do; otherwise the code lets a client
keep a table for ever. `ClientsSpec` assumes only that some thread or process goes
on as long as one can, since every program is finite, and nothing about being
killed. `ConversationSpec` schedules the server's thread and a program of the
repository, but no foreign client, which may stop reading: `ServerLetsGo` holds
all the same once it has gone. `ServerLoop` schedules the main thread and the
threads of connections and lets a conversation last for ever. Once its client has
gone a handler returns, since a write to nobody fails, and the end of the input is
reached (strong fairness of `chat_reads_nothing`, as for `read_eof`). No wait for a
mutex is fair in `Conversation` and `ServerLoop`, which do not know who holds it:
`ProgramEnds`, `ServerLetsGo` and `LeftAreClosed` speak of behaviours in which the
thread is not left waiting for ever (`[]<>~Waits`). The server may wait for clients
that do not come, so that deadlock is not checked there.

## 4. Proofs

TLAPS checks that the theorems hold for every value of the constants that
satisfies the named assumptions. Each inductive invariant was first checked by
TLC on the instance of the component's run.

### Server: BasicServer

For every set of connections, tables and keys, every set of requests, every
content of the tables at the start and every width of `int`. `ServerAssumption`
says that `None` is none of the values, requests, tables and connections and that
the tables at the start are tables; `IntMaxAssumption` that `IntMax` is a natural
number.

| theorem | module | states |
|---|---|---|
| `TypeCorrect` | BasicServerProofs | `Spec => []TypeOK` |
| `RefusalKeepsOperands` | BasicServerProofs | `Spec => RefusedArithKeepsOperands` |
| `ArithmeticIsExact` | BasicServerProofs | `Spec => ArithmeticExact` |
| `Exclusion` | ExclusionProofs | `Spec => [](~MissingKeyGets => MutualExclusion)` |
| `NoRace` | ExclusionProofs | `Spec => [](~MissingKeyGets => NoTableRace)` |
| `LocksHaveOwners` | ReleaseProofs | `Spec => []NoOrphanLock` |
| `ReleasedAreClean` | ReleaseProofs | `Spec => []CleanWhenReleased` |
| `WaitsEnd` | ReleaseProofs | `Spec => []NoWaitCycle` |
| `CommitsStay` | ReleaseProofs | `Spec => CommittedKeysStay` |
| `UnlockedAreClean` | ReleaseProofs | `Spec => [](~MissingKeyGets => CleanWhenUnlocked)` |
| `TransactionsIsolated` | ReleaseProofs | `Spec => Isolation` if `~MissingKeyGets` |
| `StoreImplemented` | StoreProofs | `Spec => ImplementsStore` if `~MissingKeyGets` |
| `ReadsAreClean` | StoreProofs | `Spec => NoDirtyRead` if `~MissingKeyGets` |

`~MissingKeyGets` is the condition under which these properties are checked in
`tx`: with GETs for missing keys the second unlock breaks them, as the run
`isolation` shows. The theorems of ReleaseProofs and BasicServerProofs have no
such condition.

- *Types.* `TypeOK` is not inductive: `set_table_value` takes the top of the
  stack and `find_table` the table of the request, so that the types of the next
  state depend on what the thread checked before. `TypeInv` adds, per label of the
  program counter, what the locals hold (`LocalsInv`). The step is proved per
  action; `OwnStateOnly` shows once that a thread changes the state of its own
  connection only, which carries the invariant of all other threads over.
- *Arithmetic.* `ThrowStack` and `ArithStack` say what the handlers leave on the
  stack; `WrapExact` that wrapping is exact modulo `2^w` and changes nothing that
  fits; `QuotientExact` that the quotient of a division that does not trap fits
  (the only one that would not is `INT_MIN / -1`) and has C's rest.
- *Exclusion.* `MutualExclusion` speaks of what threads believe they hold, and is
  not inductive: a thread could lock a table whose mutex is free although another
  thread counts on it. `ExclusionInv` adds, per thread, that what it counts on is
  locked and that it visits only its own tables when it ends a transaction
  (`LockInv`); that a GET's key stays present until it is read, so that the error
  path is not taken (`KeyInv`); that tables in use exist and that CREATE only fills
  an entry that is no table yet, with the server's mutex held (`ExistInv`); and
  globally that this mutex has one owner (`OneOwner`) and that an entry that is no
  table has no pairs (`NewTablesEmpty`). CREATE comes in because it puts a fresh,
  unlocked mutex in place: it must not do so for a table in use. The proof
  separates a thread from its surroundings: `SharedStep(c)` bounds what a step of
  `c` does to shared state, `OwnStep(c)` says what `c` itself relies on afterwards,
  `StepKeeps` concludes the invariant from both, and the four lemmas
  `...StepExcludes` establish both for every action. `NoRace` follows since a
  thread about to touch a table's maps holds its lock (`TouchingHolds`).
- *Release.* With GETs for missing keys several threads may be in one table, so
  nothing can rest on exclusive locks. `ReleaseInv` instead gives every obligation
  *some* thread: a locked table has one that counts on it (`NoOrphanLock`), an
  uncommitted pair one that will still commit or roll back the whole table
  (`NoOrphanChange` with `Cleans`), and per thread the control state fits the
  transaction (`ControlInv`). `Yields(c)` bounds what a step of `c` may take from
  the others, `Reaches(c)` says what it establishes itself.
- *Isolation.* `SafeInv` is both invariants. `OnlyWritersWrite` finds the five
  steps that write a map, and the writer holds the table, so that by
  `MutualExclusion` nobody else does.
- *Store.* `HeldViews` and `FreeViews` compute the refinement mapping for a table
  with and without a holder; a step leaves the views of all tables but one alone
  (`Untouched`), and each action is a step of TransactionStore or invisible
  (`Visible`, `Invisible`). COMMIT is the step that starts the iteration, since
  `CommittedView` counts the tables still to visit as committed. `Seen` collects what
  the views show of a table in every state, which is also what `ReadsAreClean`
  compares a GET with.

### Accept loop: ServerLoop

For any sets of clients, objects, descriptors and address families and any limits.
`ServerLoopAssumption` says that descriptors are numbers, that there are finitely
many families, that the backlog has room for one, and that `None` and the names of
the owners of descriptors that are no clients (`"parent"`, `"server"`) are told apart
from clients, families and descriptors.

| theorem | module | states |
|---|---|---|
| `DescriptorsAreOwn` | ServerLoopProofs | `Spec => []OwnDescriptor` |
| `LeaksAreTheOnlyLoss` | ServerLoopProofs | `Spec => []OnlyLeakedAreLost` |
| `ListeningIsFound` | ServerLoopProofs | `Spec => []FindsServer` |

`LoopInv`: the listening socket is the server's (`ListenInv`), the descriptor that
accept has returned belongs to no object yet (`AcceptInv`), the descriptors of two
objects differ and each is its client's (`HoldInv`), every open descriptor is one of
these (`KeptInv`), and a client that looked the addresses up while the server
listened, and whose own attempt to reach it has not failed, has the server's address
among those still to try (`FindInv`). `OwnDescriptor` alone is not inductive: two
objects with one descriptor would survive until the first of them closes it.
`OnlyLeakedAreLost` is not either, since a socket that is lost tomorrow belongs to
somebody today; it follows from `KeptInv`, which says to whom, and `HoldInv`, by which
it is one object only. `FindsServer` promises what `open_clientfd` can: that
addresses where nobody listens do not keep a client from trying the right one.

### Connection: Rio and Conversation

For every size of the rio buffer and of the kernel's, every `maxlen` of at least 2,
every number of requests and all lengths of lines, as long as a request is
shorter than what the server's `rio_readlineb` is told to accept
(`ConversationAssumption`; in the code `sizeof(m_fdbuf)`, more than 8192, for lines
of at most 1024 characters). Responses need not fit the client's.

| theorem | module | states |
|---|---|---|
| `BytesInOrder` | ConversationProofs | `ConversationSpec => []InOrder` |
| `NoBytesDropped` | ConversationProofs | `ConversationSpec => []NothingDropped` |
| `AnswersArrive` | ConversationProofs | `ConversationSpec => []AnswerArrives` |
| `ExchangeImplemented` | ConversationProofs | `ConversationSpec => ImplementsExchange` |

The first part of ConversationProofs says what the system calls do to the bytes under way: `write`, `rio_read`
and `copy` move them and leave `Pipe` as it is (`WriteEffect`, `FillEffect`,
`CopyEffect`), a close leaves the peer what had come (`CloseEffect`), the text of
the next line continues what flows (`FlowsAppend`), and behind a line that was read
to its newline the rest flows on (`FlowsSuffix`). `Flows` includes a fact that
`InOrder` implies only by induction over a line: without a newline between them,
two bytes differ in position by their distance. Carrying it in the invariant
avoids the induction.

`ConversationInv` has, beside types and the sockets' states:
`PipeInv` (what is under way flows from the last line dealt with, ends with the
last line sent while both ends are open, and holds only bytes of requests that fit),
`RequestInv` (a request without its newline comes only from a client that is gone,
with nothing behind it), `AskedInv` (`heard <= served <= asked <= sent`, and the
newlines that have arrived are of requests that count as asked) and `ProgramInv`
(a program has one request outstanding and its rio buffer is empty between
responses; a thread that ended the conversation by itself has an unread answer
on the way, a refusal or the one to BYE). The last part is what `AnswerArrives` needs:
the answer is there when the thread closes, no unread request is there to reset the
connection, and the program will not write again.

### Messages: Message and Transmission

For every limit on the length, every set of messages and every set of foreign
lines. `MaxLenAssumption` says that the limit is a natural number,
`TransmissionAssumption` that messages have arguments made of words and that the
length of a line is at least what its type, its words with a space before each and
its newline take: the model keeps the length beside the words, the code counts
characters.

| theorem | module | states |
|---|---|---|
| `MessagesReturn` | TransmissionProofs | `Spec => []RoundTrip` |
| `DecodedReturn` | TransmissionProofs | `Spec => []DecodedIsPlain` |
| `AnswersFit` | TransmissionProofs | `Spec => []AnswerFits` |

`encode` joins the words of the arguments (`FlattenSeq`) and adds up lengths
(`SumFunction`), both recursive over their input. The library's induction theorems
cannot be used for that, since they take an operator; `Smallest` gives every
nonempty set of natural numbers a smallest element and `Induction` is stated for a
*set* of numbers, which is enough. From it follow that the recursive functions
behind both operators exist (`SumsExist`, `JoinsExist`), what they are for one
element more (`SumLast`, `FlattenLast`), and from these that arguments of one word
each are joined to exactly these words (`FlattenWords`) and that the joined words
need no more room than the arguments they come from (`FlattenSpaced`).
`TransmissionInv` says where the line, the message and the answer come from; a
line from `encode` or a foreign one is long enough for its words (`LineIsRoomy`).
The message decoded from a line therefore fits again (`DecodedFits`), and so does
the DATA message for a PUSH, whose names are equally long.

### Clients: Clients on BasicServer

For any finite number of clients and any programs of any requests (the three of
the repository are instances), in addition to what is assumed of the server.
`ClientsAssumption` says that there are finitely many clients and that a program is
a sequence of requests, at least one.

| theorem | module | states |
|---|---|---|
| `ClientsKeepToServer` | ClientsProofs | `ClientsSpec => Spec` |
| `NoIncrementLost` | ClientsProofs | `ClientsSpec => [](~MissingKeyGets \/ KnownKeys => NoLostIncrement)` |
| `KnownKeysAreSafe` | ClientsProofs | `ClientsSpec /\ KnownKeys => [](MutualExclusion /\ NoTableRace /\ CleanWhenUnlocked)`, `Isolation` and `ImplementsStore` |
| `FetchesAreClean` | ClientsProofs | `ClientsSpec => NoDirtyFetch` |

`KnownKeys` is a condition on the programs that run instead of the server: every
GET is for a key that a table has from the start. It is the premise of
`NoDirtyFetch` too. One of the two conditions is needed: with
two `incr_value -t` for one key and a `get_value` for a key that is missing, TLC
finds a behaviour of 38 states in which the second unlock of the GET lets both
transactions into the table and an increment is lost.

- *Behaviours.* `SendersInv` ties a client process to its thread: who waits runs,
  who is gone has ended, no request is sent beyond the program, a thread that works
  on a request has a client that waits or has ended, and the request is one of its
  program. With it every step of `ClientsNext` is one of `Next`.
- *Increments.* `NoLostIncrement` only compares numbers and is far from inductive.
  `IncrementInv` says for every client that runs `incr_value -t` how far its
  increment is (`Stage`): not begun, looking for the table, the value fetched, 1
  pushed, the sum on the stack, proposed, about to be committed, applied, rolled
  back. From `Fetched` on the stage relates the stack or the proposed pair to the
  *committed* value, which is true only because nobody else changes a table the
  transaction holds (`HeldIsKept`, from `SafeInv`). `NothingElsePending` says that what is
  proposed for the key while no increment holds the table is what is committed:
  otherwise a commit by a bystander of other keys of the table would change the
  key, since `commit_changes` copies the whole proposed map. `Total` is the count:
  the committed value is the first one plus the number of clients whose increment
  is `Done`, modulo the width of `int` (`WrapNext`). A step of a client takes its
  own stage on (`SendStage`, `WorkStage`) and leaves those of the others
  (`OthersStay`); the count moves exactly with `commit_table` of a client that is
  `AboutToCommit` (`TotalStep`). `Done` lies between what clients know and what they
  have sent (`CountIsBetween`).
- *Known keys.* `KeysStay` keeps the first keys committed, so that a GET of such a
  program never misses (`KnownAreFound`) and `ExclusionStep` applies to each step
  although `MissingKeyGets` allows others. What a step reads is then a matter of the
  store's views (`StepReadsClean`).

### What stays with TLC

- Liveness (`LeavingReleasesLocks`, `LocksAreReleased`, `ClientsFinish`,
  `ProgramEnds`, `ServerLetsGo`, `WaitingAreServed`, `LeftAreClosed`): fairness and
  ENABLED are outside the prover's reach.
- The violated properties, which no theorem states.

Every other property of a passing run is the statement of a theorem.

## 5. Not modelled

- Memory beyond a buffer. `chat_with_client` passes `sizeof(m_fdbuf)` instead of
  `sizeof(buf)` to `rio_readlineb`; requests in the model fit `buf`.
- A client that does not read while the server holds a mutex: `handle_create`
  answers before it unlocks (line 172). BasicServer's writes do not block;
  Conversation's do, but it has no mutex.
- A `close` that fails.
- The functions of `csapp.c` that nothing calls: the wrappers for processes,
  signals, files, memory and threads, `sio`, `rio_readn`, `rio_readnb`; tctest,
  the unit tests, the unused `guard.h`; command-line parsing, log messages,
  the wording of errors.
- `Server::mutex_is_locked`, which is written and never read, and
  `get_table_map`, which nothing calls.

## 6. Plan

Done: the core in the order Table and ValueStack, BasicServer, the runs on it,
TransactionStore and the refinement, Message and Transmission, Clients; then Rio,
Conversation and Exchange, and ServerLoop; the theorems about types, exclusion,
release, isolation and the store, about arithmetic, messages, descriptors, the
connection of bytes and the increments of the client programs. What would come
next:

1. What `Exclusion` and `Isolation` leave of the code with GETs for missing keys:
   a guarantee per table, for the tables whose keys all exist.
2. A history of what clients were told, to state that each response is one the
   store could have given at some moment between request and response.
