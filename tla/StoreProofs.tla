---------------------------- MODULE StoreProofs ----------------------------
(***************************************************************************)
(* The server implements the transactional store of TransactionStore, for  *)
(* every number of connections, tables and keys, as long as no client asks *)
(* for a key that is not there: every step of a thread is a step of the    *)
(* store or leaves the views of ServerRefinesStore as they are.            *)
(***************************************************************************)
EXTENDS ReleaseProofs, ServerRefinesStore

-----------------------------------------------------------------------------
(* The views of one table.                                                   *)

\* The proposed pairs that are not committed.
Diff(t) == [k \in Keys |-> IF proposed[t][k] = kvp[t][k] THEN None ELSE proposed[t][k]]

\* c is in the iteration that ends its transaction and has not left t yet.
Ending(c, t) == Committing(c, t) \/ Failing(c, t)

\* A thread ends its transaction only on tables it holds.
LEMMA EndingHolds ==
  ASSUME NEW c \in Conns, NEW t \in TableNames, LockInv(c), Ending(c, t)
  PROVE  Holds(c, t)
  BY DEF Ending, Committing, Failing, LockInv, Holds, LoopLabels

\* Nothing is pending in a clean table, and committing it changes nothing.
LEMMA CleanViews ==
  ASSUME TypeOK, NEW t \in TableNames, CleanTable(t)
  PROVE  Diff(t) = NoPairs /\ commit_changes(kvp[t], proposed[t]) = kvp[t]
<1>1. kvp[t] \in Pairs
  BY DEF TypeOK
<1>2. Diff(t) = NoPairs
  BY DEF Diff, NoPairs, CleanTable
<1>3. commit_changes(kvp[t], proposed[t]) = kvp[t]
  BY <1>1 DEF commit_changes, CleanTable, Pairs
<1> QED
  BY <1>2, <1>3

\* What the store shows of a table somebody holds.
LEMMA HeldViews ==
  ASSUME SafeInv, NEW c \in Conns, NEW t \in TableNames, Holds(c, t)
  PROVE  /\ OwnerView[t] = c
         /\ CommittedView[t] = IF Committing(c, t) THEN commit_changes(kvp[t], proposed[t])
                               ELSE kvp[t]
         /\ PendingView[t] = IF Ending(c, t) THEN NoPairs ELSE Diff(t)
<1>1. \A d \in Conns : Holds(d, t) => d = c
  BY DEF SafeInv, ExclusionInv, MutualExclusion
<1>2. \A d \in Conns : Ending(d, t) => d = c
  BY <1>1, EndingHolds DEF SafeInv, ExclusionInv
<1>3. OwnerView[t] = c
  BY <1>1 DEF OwnerView
<1>4. CommittedView[t] = IF Committing(c, t) THEN commit_changes(kvp[t], proposed[t]) ELSE kvp[t]
  BY <1>2 DEF CommittedView, Ending
<1>5. PendingView[t] = IF Ending(c, t) THEN NoPairs ELSE Diff(t)
  BY <1>2 DEF PendingView, Ending, Diff
<1> QED
  BY <1>3, <1>4, <1>5

\* What it shows of a table nobody holds: it is clean.
LEMMA FreeViews ==
  ASSUME SafeInv, NEW t \in TableNames, \A c \in Conns : ~Holds(c, t)
  PROVE  /\ OwnerView[t] = None /\ CommittedView[t] = kvp[t] /\ PendingView[t] = NoPairs
         /\ CleanTable(t)
<1>1. \A d \in Conns : ~Ending(d, t)
  BY EndingHolds DEF SafeInv, ExclusionInv
<1>2. CleanTable(t) /\ TypeOK
  BY CleanUnlessPending DEF SafeInv, ExclusionInv, TypeInv
<1>3. Diff(t) = NoPairs
  BY <1>2, CleanViews
<1>4. OwnerView[t] = None
  BY DEF OwnerView
<1>5. CommittedView[t] = kvp[t]
  BY <1>1 DEF CommittedView, Ending
<1>6. PendingView[t] = NoPairs
  BY <1>1, <1>3 DEF PendingView, Ending, Diff
<1> QED
  BY <1>2, <1>4, <1>5, <1>6

\* What the views show of table t.
Seen(t) ==
    /\ \A c \in Conns : Ending(c, t) => Holds(c, t)
    /\ \A c \in Conns : Holds(c, t) =>
          /\ OwnerView[t] = c
          /\ CommittedView[t] = IF Committing(c, t) THEN commit_changes(kvp[t], proposed[t])
                                ELSE kvp[t]
          /\ PendingView[t] = IF Ending(c, t) THEN NoPairs ELSE Diff(t)
          /\ ~Cleans(c, t) => CleanTable(t)
    /\ (\A c \in Conns : ~Holds(c, t)) =>
          /\ OwnerView[t] = None /\ CommittedView[t] = kvp[t] /\ PendingView[t] = NoPairs
          /\ CleanTable(t)
    /\ CleanTable(t) => Diff(t) = NoPairs /\ commit_changes(kvp[t], proposed[t]) = kvp[t]

StoreInv == SafeInv /\ \A t \in TableNames : Seen(t)

\* The views follow from the invariants of the threads.
LEMMA SafeSeen == SafeInv => StoreInv
<1> SUFFICES ASSUME SafeInv, NEW t \in TableNames
             PROVE  Seen(t)
  BY DEF StoreInv
<1>1. \A c \in Conns : Ending(c, t) => Holds(c, t)
  BY EndingHolds DEF SafeInv, ExclusionInv
<1>2. CleanTable(t) => Diff(t) = NoPairs /\ commit_changes(kvp[t], proposed[t]) = kvp[t]
  BY CleanViews DEF SafeInv, ExclusionInv, TypeInv
<1>3. ASSUME NEW c \in Conns, Holds(c, t), ~Cleans(c, t)
      PROVE  CleanTable(t)
  BY <1>3, CleanUnlessPending DEF SafeInv, ExclusionInv, MutualExclusion
<1> QED
  BY <1>1, <1>2, <1>3, HeldViews, FreeViews DEF Seen

-----------------------------------------------------------------------------
(* The steps of the store.                                                   *)

\* A table whose views a step leaves alone.
SameViews(t) ==
    /\ OwnerView'[t] = OwnerView[t]
    /\ CommittedView'[t] = CommittedView[t]
    /\ PendingView'[t] = PendingView[t]

\* The step changes neither table t nor what c has to do with it.
Untouched(c, t) ==
    /\ Holds(c, t)' <=> Holds(c, t)
    /\ Committing(c, t)' <=> Committing(c, t)
    /\ Failing(c, t)' <=> Failing(c, t)
    /\ kvp'[t] = kvp[t] /\ proposed'[t] = proposed[t]

\* The views of a table the step does not touch stay as they are, whoever else
\* has to do with it.
LEMMA UntouchedViews ==
  ASSUME NEW c \in Conns, Frame(c), NEW t \in TableNames, Untouched(c, t)
  PROVE  SameViews(t)
<1>1. \A d \in Conns : /\ Holds(d, t)' <=> Holds(d, t)
                       /\ Committing(d, t)' <=> Committing(d, t)
                       /\ Failing(d, t)' <=> Failing(d, t)
  BY DEF Frame, Holds, Committing, Failing, Untouched
<1>2. (\E d \in Conns : Holds(d, t)') <=> (\E d \in Conns : Holds(d, t))
  BY <1>1
<1>3. (CHOOSE d \in Conns : Holds(d, t)') = (CHOOSE d \in Conns : Holds(d, t))
  BY <1>1
<1>4. OwnerView'[t] = OwnerView[t]
  BY <1>2, <1>3 DEF OwnerView
<1>5. CommittedView'[t] = CommittedView[t]
  BY <1>1 DEF CommittedView, Untouched
<1>6. PendingView'[t] = PendingView[t]
  BY <1>1 DEF PendingView, Untouched
<1> QED
  BY <1>4, <1>5, <1>6 DEF SameViews

\* The other threads go on holding what they hold.
LEMMA OthersHold ==
  ASSUME NEW c \in Conns, Frame(c), NEW d \in Conns, d # c, NEW t \in TableNames
  PROVE  Holds(d, t)' <=> Holds(d, t)
  BY DEF Frame, Holds

\* The views are functions on the tables, equal when they agree on each.
LEMMA ViewsEqual ==
  /\ (\A t \in TableNames : OwnerView'[t] = OwnerView[t]) => OwnerView' = OwnerView
  /\ (\A t \in TableNames : CommittedView'[t] = CommittedView[t]) => CommittedView' = CommittedView
  /\ (\A t \in TableNames : PendingView'[t] = PendingView[t]) => PendingView' = PendingView
  BY DEF OwnerView, CommittedView, PendingView

\* A view that changes for one table only.
LEMMA ViewsExcept ==
  ASSUME NEW t \in TableNames, NEW v
  PROVE  /\ OwnerView'[t] = v /\ (\A u \in TableNames : u # t => OwnerView'[u] = OwnerView[u])
               => OwnerView' = [OwnerView EXCEPT ![t] = v]
         /\ PendingView'[t] = v /\ (\A u \in TableNames : u # t => PendingView'[u] = PendingView[u])
               => PendingView' = [PendingView EXCEPT ![t] = v]
  BY DEF OwnerView, PendingView

\* What of a step the store can see.
Invisible == UNCHANGED <<CommittedView, OwnerView, PendingView>>

Visible(c) ==
    \/ Invisible
    \/ Store!Commit(c)
    \/ Store!Abort(c)
    \/ \E t \in TableNames :
          \/ Store!Acquire(c, t)
          \/ Store!Release(c, t)
          \/ \E k \in Keys, v \in Value : Store!Propose(c, t, k, v)

\* A step that touches no table cannot be seen.
LEMMA InvisibleStep ==
  ASSUME NEW c \in Conns, Frame(c), \A t \in TableNames : Untouched(c, t) \/ SameViews(t)
  PROVE  Invisible
<1>1. \A t \in TableNames : SameViews(t)
  BY UntouchedViews
<1> QED
  BY <1>1, ViewsEqual DEF Invisible, SameViews

\* lock() and trylock().
LEMMA AcquireStep ==
  ASSUME StoreInv, StoreInv', NEW c \in Conns, Frame(c), NEW t \in TableNames,
         \A d \in Conns : ~Holds(d, t), Holds(c, t)', ~Ending(c, t)',
         kvp'[t] = kvp[t], proposed'[t] = proposed[t],
         \A u \in TableNames : u # t => Untouched(c, u)
  PROVE  Store!Acquire(c, t)
<1>1. \A u \in TableNames : u # t => SameViews(u)
  BY UntouchedViews
<1>2. OwnerView[t] = None /\ CommittedView[t] = kvp[t] /\ PendingView[t] = NoPairs /\ Diff(t) = NoPairs
  BY DEF StoreInv, Seen
<1>3. OwnerView'[t] = c /\ CommittedView'[t] = kvp'[t] /\ PendingView'[t] = Diff(t)'
  BY DEF StoreInv, Seen, Ending
<1>4. Diff(t)' = Diff(t)
  BY DEF Diff
<1>5. /\ OwnerView' = [OwnerView EXCEPT ![t] = c]
      /\ CommittedView' = CommittedView /\ PendingView' = PendingView
  BY <1>1, <1>2, <1>3, <1>4, ViewsEqual, ViewsExcept DEF SameViews
<1> QED
  BY <1>2, <1>5 DEF Store!Acquire

\* unlock(), at the end of an iteration step or of an autocommit.
LEMMA ReleaseStepOf ==
  ASSUME StoreInv, StoreInv', NEW c \in Conns, Frame(c), NEW t \in TableNames,
         Holds(c, t), ~Cleans(c, t), ~Holds(c, t)',
         kvp'[t] = kvp[t], proposed'[t] = proposed[t],
         \A u \in TableNames : u # t => Untouched(c, u)
  PROVE  Store!Release(c, t)
<1>1. \A u \in TableNames : u # t => SameViews(u)
  BY UntouchedViews
<1>2. /\ OwnerView[t] = c /\ PendingView[t] = NoPairs /\ CommittedView[t] = kvp[t]
  BY DEF StoreInv, Seen
<1>3. \A d \in Conns : ~Holds(d, t)'
  BY OthersHold DEF StoreInv, SafeInv, ExclusionInv, MutualExclusion
<1>4. OwnerView'[t] = None /\ CommittedView'[t] = kvp'[t] /\ PendingView'[t] = NoPairs
  BY <1>3 DEF StoreInv, Seen, NoPairs
<1>5. /\ OwnerView' = [OwnerView EXCEPT ![t] = None]
      /\ CommittedView' = CommittedView /\ PendingView' = PendingView
  BY <1>1, <1>2, <1>4, ViewsEqual, ViewsExcept DEF SameViews
<1> QED
  BY <1>2, <1>5 DEF Store!Release, Store!Nothing, NoPairs

\* Table::set, by the thread that holds the table.
LEMMA ProposeStep ==
  ASSUME StoreInv, StoreInv', NEW c \in Conns, Frame(c), NEW t \in TableNames,
         NEW k \in Keys, NEW v \in Value,
         Holds(c, t), Holds(c, t)', ~Ending(c, t), ~Ending(c, t)',
         kvp'[t] = kvp[t], proposed'[t] = [proposed[t] EXCEPT ![k] = v],
         \A u \in TableNames : u # t => Untouched(c, u)
  PROVE  Store!Propose(c, t, k, v)
<1>t. kvp[t] \in Pairs /\ proposed[t] \in Pairs
  BY DEF StoreInv, SafeInv, ExclusionInv, TypeInv, TypeOK
<1>1. \A u \in TableNames : u # t => SameViews(u)
  BY UntouchedViews
<1>2. OwnerView[t] = c /\ CommittedView[t] = kvp[t] /\ PendingView[t] = Diff(t)
  BY DEF StoreInv, Seen, Ending
<1>3. OwnerView'[t] = c /\ CommittedView'[t] = kvp'[t] /\ PendingView'[t] = Diff(t)'
  BY DEF StoreInv, Seen, Ending
<1> DEFINE w == IF v = kvp[t][k] THEN None ELSE v
<1>4. Diff(t)' = [Diff(t) EXCEPT ![k] = w]
  BY <1>t DEF Diff, Pairs
<1> HIDE DEF w
<1>5. PICK p : p = [Diff(t) EXCEPT ![k] = w]
  OBVIOUS
<1>6. PendingView' = [PendingView EXCEPT ![t] = p]
  <2>1. PendingView'[t] = p
    BY <1>3, <1>4, <1>5
  <2>2. \A u \in TableNames : u # t => PendingView'[u] = PendingView[u]
    BY <1>1 DEF SameViews
  <2> QED
    BY ONLY <2>1, <2>2, ViewsExcept
<1>9. PendingView' = [PendingView EXCEPT ![t][k] = w]
  BY <1>2, <1>5, <1>6
<1>7. w = IF v = CommittedView[t][k] THEN None ELSE v
  BY <1>2 DEF w
<1>8. CommittedView' = CommittedView /\ OwnerView' = OwnerView
  BY <1>1, <1>2, <1>3, ViewsEqual DEF SameViews
<1> QED
  BY <1>2, <1>7, <1>8, <1>9 DEF Store!Propose

\* The tables c owns in the store are those it holds.
LEMMA OwnedHeld ==
  ASSUME StoreInv, NEW c \in Conns
  PROVE  Store!Owned(c) = {t \in TableNames : Holds(c, t)}
<1>1. ASSUME NEW t \in TableNames
      PROVE  OwnerView[t] = c <=> Holds(c, t)
  BY ServerAssumption DEF StoreInv, Seen
<1> QED
  BY <1>1 DEF Store!Owned

\* Merging what is pending is commit_changes.
LEMMA DiffCommits ==
  ASSUME NEW t \in TableNames
  PROVE  [k \in Keys |-> IF Diff(t)[k] # None THEN Diff(t)[k] ELSE kvp[t][k]]
            = commit_changes(kvp[t], proposed[t])
  BY DEF Diff, commit_changes

\* The commit of a transaction or of a single SET.
LEMMA CommitStep ==
  ASSUME StoreInv, NEW c \in Conns, Frame(c), OwnerView' = OwnerView,
         \A t \in TableNames : Holds(c, t) =>
            /\ ~Ending(c, t)
            /\ CommittedView'[t] = commit_changes(kvp[t], proposed[t])
            /\ PendingView'[t] = NoPairs,
         \A t \in TableNames : ~Holds(c, t) => SameViews(t)
  PROVE  Store!Commit(c)
<1> DEFINE mine == Store!Owned(c)
<1>1. mine = {t \in TableNames : Holds(c, t)}
  BY OwnedHeld
<1>2. \A t \in mine : PendingView[t] = Diff(t) /\ CommittedView[t] = kvp[t]
  BY <1>1 DEF StoreInv, Seen, Ending
<1> HIDE DEF mine
<1>3. PendingView' = [t \in TableNames |-> IF t \in mine THEN NoPairs ELSE PendingView[t]]
  BY <1>1 DEF PendingView, SameViews
<1>4. \A t \in mine : CommittedView'[t] =
          [k \in Keys |-> IF PendingView[t][k] # None THEN PendingView[t][k] ELSE CommittedView[t][k]]
  BY <1>1, <1>2, DiffCommits
<1>5. CommittedView' = [t \in TableNames |->
          IF t \in mine
          THEN [k \in Keys |-> IF PendingView[t][k] # None THEN PendingView[t][k]
                               ELSE CommittedView[t][k]]
          ELSE CommittedView[t]]
  <2>1. \A t \in TableNames : t \notin mine => CommittedView'[t] = CommittedView[t]
    BY <1>1 DEF SameViews
  <2>2. CommittedView' = [t \in TableNames |-> CommittedView'[t]]
    BY DEF CommittedView
  <2> QED
    BY <1>4, <2>1, <2>2
<1> QED
  BY <1>3, <1>5 DEF Store!Commit, Store!Without, Store!Nothing, NoPairs, mine

\* The start of fail_transaction.
LEMMA AbortStep ==
  ASSUME StoreInv, StoreInv', NEW c \in Conns, Frame(c),
         in_transaction[c], in_transaction'[c], pc[c] \notin LoopLabels, pc'[c] = "fail",
         locked_tables'[c] = locked_tables[c], todo'[c] = locked_tables[c],
         UNCHANGED <<kvp, proposed>>
  PROVE  Store!Abort(c)
<1>l. LockInv(c)
  BY DEF StoreInv, SafeInv, ExclusionInv
<1>1. \A t \in TableNames : /\ Holds(c, t) <=> t \in locked_tables[c]
                            /\ Holds(c, t)' <=> t \in locked_tables[c]
                            /\ Failing(c, t)' <=> t \in locked_tables[c]
                            /\ ~Ending(c, t) /\ ~Committing(c, t)'
  BY <1>l DEF Holds, Ending, Committing, Failing, LoopLabels
<1>2. \A t \in TableNames : ~Holds(c, t) => SameViews(t)
  <2>1. \A t \in TableNames : ~Holds(c, t) => Untouched(c, t)
    BY <1>1 DEF Untouched, Ending
  <2> QED
    BY <2>1, UntouchedViews
<1>3. \A t \in TableNames : Holds(c, t) =>
          /\ OwnerView'[t] = OwnerView[t] /\ CommittedView'[t] = CommittedView[t]
          /\ PendingView'[t] = NoPairs
  BY <1>1 DEF StoreInv, Seen, Ending
<1>4. OwnerView' = OwnerView /\ CommittedView' = CommittedView
  BY <1>2, <1>3, ViewsEqual DEF SameViews
<1> DEFINE mine == Store!Owned(c)
<1>5. mine = {t \in TableNames : Holds(c, t)}
  BY OwnedHeld
<1> HIDE DEF mine
<1>6. PendingView' = [t \in TableNames |-> IF t \in mine THEN NoPairs ELSE PendingView[t]]
  BY <1>2, <1>3, <1>5 DEF PendingView, SameViews
<1> QED
  BY <1>4, <1>6 DEF Store!Abort, Store!Without, Store!Nothing, NoPairs, mine

-----------------------------------------------------------------------------
(* The steps of a thread.                                                    *)

\* A thread outside a table's critical section and outside the iterations.
LEMMA IdleInvisible ==
  ASSUME NEW c \in Conns, Frame(c), pc[c] \notin BodyLabels \cup LoopLabels,
         pc'[c] \notin BodyLabels \cup LoopLabels,
         locked_tables'[c] = locked_tables[c], UNCHANGED <<kvp, proposed>>
  PROVE  Visible(c)
<1>1. \A t \in TableNames : Untouched(c, t)
  BY DEF Untouched, Holds, Committing, Failing, BodyLabels, LoopLabels
<1> QED
  BY <1>1, InvisibleStep DEF Visible

\* An exception fails the transaction or changes nothing.
LEMMA ExceptionVisible ==
  ASSUME StoreInv, StoreInv', NEW c \in Conns, Frame(c),
         pc[c] \notin BodyLabels \cup LoopLabels, NEW type, manage_exception(c, type),
         UNCHANGED <<kvp, proposed, locked_tables, in_transaction>>
  PROVE  Visible(c)
<1>t. pc \in [Conns -> Labels] /\ todo \in [Conns -> SUBSET TableNames]
  BY DEF StoreInv, SafeInv, ExclusionInv, TypeInv, TypeOK
<1>1. CASE in_transaction[c]
  <2>1. pc'[c] = "fail" /\ todo'[c] = locked_tables[c]
    BY <1>1, <1>t DEF manage_exception, fail_transaction
  <2>2. Store!Abort(c)
    BY <1>1, <2>1, AbortStep
  <2> QED
    BY <2>2 DEF Visible
<1>2. CASE ~in_transaction[c]
  <2>1. pc'[c] = "read"
    BY <1>2, <1>t DEF manage_exception, respond
  <2> QED
    BY <2>1, IdleInvisible DEF BodyLabels, LoopLabels
<1> QED
  BY <1>1, <1>2

\* What a client causes.
LEMMA ClientStepVisible ==
  ASSUME StoreInv, StoreInv', NEW c \in Conns, Frame(c),
         ClientStep(c) \/ read_eof(c)
  PROVE  Visible(c)
<1>p. /\ pc \in [Conns -> Labels] /\ todo \in [Conns -> SUBSET TableNames]
  BY DEF StoreInv, SafeInv, ExclusionInv, TypeInv, TypeOK
<1>l. LockInv(c)
  BY DEF StoreInv, SafeInv, ExclusionInv
<1>i. ASSUME UNCHANGED <<process, locked_tables>>, pc[c] \in {"closed", "read", "close"},
             pc'[c] \in {"closed", "read", "close", "find", "create_lock"}
      PROVE  Visible(c)
  BY <1>i, IdleInvisible DEF process, BodyLabels, LoopLabels
<1>e. ASSUME NEW type, manage_exception(c, type), pc[c] = "read",
             UNCHANGED <<process, locked_tables, in_transaction>>
      PROVE  Visible(c)
  BY <1>e, ExceptionVisible DEF process, BodyLabels, LoopLabels
<1>s. ASSUME Serving(c)
      PROVE  pc[c] = "read"
  BY <1>s DEF Serving, At
<1>h. ASSUME Throw(c), Serving(c)
      PROVE  Visible(c)
  BY <1>h, <1>s, <1>e DEF Throw, session
<1>1. CASE Accept(c)
  BY <1>i, <1>p, <1>1 DEF Accept, goto, At, session
<1>2. CASE read_eof(c)
  BY <1>i, <1>p, <1>2 DEF read_eof, goto, At, session
<1>3. CASE ClientLeaves(c)
  <2>1. UNCHANGED <<process, pc, todo, locked_tables, in_transaction, table_obj>>
    BY <1>3 DEF ClientLeaves, session, locals
  <2>2. \A t \in TableNames : Untouched(c, t)
    BY <2>1 DEF Untouched, Holds, Committing, Failing, process
  <2> QED
    BY <2>2, InvisibleStep DEF Visible
<1>4. CASE read_invalid(c)
  BY <1>e, <1>4 DEF read_invalid, At, session
<1>5. CASE handle_login(c)
  BY <1>i, <1>p, <1>5 DEF handle_login, write_ok, respond, At
<1>6. CASE refuse(c)
  BY <1>i, <1>p, <1>6 DEF refuse, At, session
<1>7. ASSUME NEW r \in Requests, handle_push(c, r)
      PROVE  Visible(c)
  BY <1>i, <1>s, <1>p, <1>7 DEF handle_push, write_ok, respond
<1>8. ASSUME NEW r \in Requests, handle_pop(c, r)
      PROVE  Visible(c)
  BY <1>h, <1>i, <1>s, <1>p, <1>8 DEF handle_pop, write_ok, respond
<1>9. ASSUME NEW r \in Requests, handle_top(c, r)
      PROVE  Visible(c)
  BY <1>h, <1>i, <1>s, <1>p, <1>9 DEF handle_top, respond, session
<1>10. ASSUME NEW r \in Requests, handle_arith(c, r)
       PROVE  Visible(c)
  <2>1. Serving(c) /\ UNCHANGED <<process, in_transaction, locked_tables>>
    BY <1>10 DEF handle_arith
  <2>2. CASE write_ok(c)
    BY <1>i, <1>s, <1>p, <2>1, <2>2 DEF write_ok, respond
  <2>3. CASE manage_exception(c, "FAILED")
    BY <1>e, <1>s, <2>1, <2>3
  <2>4. CASE UNCHANGED pc
    BY <1>i, <1>s, <2>1, <2>4
  <2> QED
    BY <1>10, <2>2, <2>3, <2>4 DEF handle_arith
<1>11. ASSUME NEW r \in Requests, handle_bye(c, r)
       PROVE  Visible(c)
  BY <1>i, <1>s, <1>p, <1>11 DEF handle_bye, session
<1>12. ASSUME NEW r \in Requests, handle_unsupported(c, r)
       PROVE  Visible(c)
  BY <1>h, <1>12 DEF handle_unsupported
<1>13. ASSUME NEW r \in Requests, handle_begin(c, r)
       PROVE  Visible(c)
  BY <1>h, <1>i, <1>s, <1>p, <1>13 DEF handle_begin, write_ok, respond
\* The commit takes effect here, for all the tables of the transaction.
<1>14. ASSUME NEW r \in Requests, handle_commit(c, r)
       PROVE  Visible(c)
  <2>1. CASE ~in_transaction[c]
    BY <1>h, <1>14, <2>1 DEF handle_commit
  <2>2. CASE in_transaction[c]
    <3>1. /\ pc[c] = "read" /\ pc'[c] = "commit" /\ todo'[c] = locked_tables[c]
          /\ UNCHANGED <<kvp, proposed, locked_tables, in_transaction>>
      BY <1>p, <1>s, <1>14, <2>2 DEF handle_commit, session, process
    <3>2. \A t \in TableNames : /\ Holds(c, t) <=> t \in locked_tables[c]
                                /\ Holds(c, t)' <=> t \in locked_tables[c]
                                /\ Committing(c, t)' <=> t \in locked_tables[c]
                                /\ ~Ending(c, t) /\ ~Failing(c, t)'
      BY <2>2, <3>1 DEF Holds, Ending, Committing, Failing
    <3>3. \A t \in TableNames : ~Holds(c, t) => SameViews(t)
      <4>1. \A t \in TableNames : ~Holds(c, t) => Untouched(c, t)
        BY <3>1, <3>2 DEF Untouched, Ending
      <4> QED
        BY <4>1, UntouchedViews
    <3>4. \A t \in TableNames : Holds(c, t) =>
              /\ OwnerView'[t] = OwnerView[t]
              /\ CommittedView'[t] = commit_changes(kvp[t], proposed[t])
              /\ PendingView'[t] = NoPairs
      BY <3>1, <3>2 DEF StoreInv, Seen, Ending
    <3>5. OwnerView' = OwnerView
      BY <3>3, <3>4, ViewsEqual DEF SameViews
    <3>6. Store!Commit(c)
      BY <3>2, <3>3, <3>4, <3>5, CommitStep
    <3> QED
      BY <3>6 DEF Visible
  <2> QED
    BY <2>1, <2>2
<1>15. ASSUME NEW r \in Requests, handle_set(c, r)
       PROVE  Visible(c)
  BY <1>h, <1>i, <1>s, <1>p, <1>15 DEF handle_set, start, session
<1>16. ASSUME NEW r \in Requests, handle_get(c, r)
       PROVE  Visible(c)
  BY <1>i, <1>s, <1>p, <1>16 DEF handle_get, start, session
<1>17. ASSUME NEW r \in Requests, handle_create(c, r)
       PROVE  Visible(c)
  BY <1>i, <1>s, <1>p, <1>17 DEF handle_create, start, session
<1> QED
  BY <1>1, <1>2, <1>3, <1>4, <1>5, <1>6, <1>7, <1>8, <1>9, <1>10, <1>11, <1>12,
     <1>13, <1>14, <1>15, <1>16, <1>17 DEF ClientStep, Handle

\* The end of a connection and of a transaction: the first step of a rollback
\* undoes it, the iterations only let go of one table after the other.
LEMMA EndStepVisible ==
  ASSUME StoreInv, StoreInv', NEW c \in Conns, Frame(c),
         \/ close_connection(c)
         \/ \E t \in TableNames : commit_table(c, t) \/ rollback_table(c, t)
         \/ commit_unlock(c) \/ commit_done(c) \/ fail_unlock(c) \/ fail_done(c)
  PROVE  Visible(c)
<1>p. /\ pc \in [Conns -> Labels] /\ todo \in [Conns -> SUBSET TableNames]
      /\ locked_tables \in [Conns -> SUBSET TableNames]
      /\ table_obj \in [Conns -> TableNames \cup {None}]
      /\ kvp \in [TableNames -> Pairs] /\ proposed \in [TableNames -> Pairs]
  BY DEF StoreInv, SafeInv, ExclusionInv, TypeInv, TypeOK
<1>l. LockInv(c) /\ LocalsInv(c)
  BY DEF StoreInv, SafeInv, ExclusionInv, TypeInv
<1>1. CASE close_connection(c)
  <2>1. CASE in_transaction[c]
    <3>1. /\ pc[c] = "close" /\ pc'[c] = "fail" /\ todo'[c] = locked_tables[c]
          /\ UNCHANGED <<kvp, proposed, locked_tables, in_transaction>>
      BY <1>1, <1>p, <2>1 DEF close_connection, At, fail_transaction, session, process
    <3>2. Store!Abort(c)
      BY <2>1, <3>1, AbortStep DEF LoopLabels
    <3> QED
      BY <3>2 DEF Visible
  <2>2. CASE ~in_transaction[c]
    <3>1. /\ pc[c] = "close" /\ pc'[c] = "closed" /\ locked_tables'[c] = {}
          /\ UNCHANGED <<kvp, proposed>>
      BY <1>1, <1>p, <2>2 DEF close_connection, At, Delete, process
    <3>2. locked_tables[c] = {}
      BY <1>l, <2>2 DEF LockInv
    <3> QED
      BY <3>1, <3>2, IdleInvisible DEF BodyLabels, LoopLabels
  <2> QED
    BY <2>1, <2>2
\* The commit has taken effect before, and is the same when it is done.
<1>2. ASSUME NEW t \in TableNames, commit_table(c, t)
      PROVE  Visible(c)
  <2>1. /\ pc[c] = "commit" /\ pc'[c] = "commit_unlock" /\ t \in todo[c]
        /\ kvp' = [kvp EXCEPT ![t] = commit_changes(kvp[t], proposed[t])]
        /\ UNCHANGED <<proposed, locked_tables, in_transaction, todo>>
    BY <1>2, <1>p DEF commit_table, At, goto, session
  <2>2. /\ \A u \in TableNames : /\ Holds(c, u)' <=> Holds(c, u)
                                 /\ Committing(c, u)' <=> Committing(c, u)
                                 /\ ~Failing(c, u)' /\ ~Failing(c, u)
        /\ Committing(c, t) /\ Holds(c, t)
    BY <1>l, <2>1 DEF Holds, Committing, Failing, LockInv, LoopLabels
  <2>3. \A u \in TableNames : u # t => Untouched(c, u)
    BY <1>p, <2>1, <2>2 DEF Untouched
  <2>4. commit_changes(kvp[t], proposed[t])' = commit_changes(kvp[t], proposed[t])
    BY <1>p, <2>1 DEF commit_changes
  <2>5. SameViews(t)
    BY <2>2, <2>4 DEF StoreInv, Seen, Ending, SameViews, NoPairs
  <2> QED
    BY <2>3, <2>5, InvisibleStep DEF Visible
<1>3. ASSUME NEW t \in TableNames, rollback_table(c, t)
      PROVE  Visible(c)
  <2>1. /\ pc[c] = "fail" /\ pc'[c] = "fail_unlock" /\ t \in todo[c]
        /\ \A u \in TableNames : u # t => proposed'[u] = proposed[u]
        /\ UNCHANGED <<kvp, locked_tables, in_transaction, todo>>
    BY <1>3, <1>p DEF rollback_table, At, goto, session
  <2>2. /\ \A u \in TableNames : /\ Holds(c, u)' <=> Holds(c, u)
                                 /\ ~Committing(c, u)' /\ ~Committing(c, u)
                                 /\ Failing(c, u)' <=> Failing(c, u)
        /\ Failing(c, t) /\ Holds(c, t)
    BY <1>l, <2>1 DEF Holds, Committing, Failing, LockInv, LoopLabels
  <2>3. \A u \in TableNames : u # t => Untouched(c, u)
    BY <2>1, <2>2 DEF Untouched
  <2>4. SameViews(t)
    BY <2>1, <2>2 DEF StoreInv, Seen, Ending, SameViews, NoPairs
  <2> QED
    BY <2>3, <2>4, InvisibleStep DEF Visible
<1>4. ASSUME NEW label, NEW loop, next_table(c, label, loop),
             \/ label = "commit_unlock" /\ loop = "commit"
             \/ label = "fail_unlock" /\ loop = "fail"
      PROVE  Visible(c)
  <2>0. PICK t : t = table_obj[c]
    OBVIOUS
  <2>1. /\ pc[c] = label /\ pc'[c] = loop /\ todo'[c] = todo[c] \ {t}
        /\ UNCHANGED <<kvp, proposed, locked_tables, in_transaction>>
    BY <1>4, <1>p, <2>0 DEF next_table, At, session
  <2>2. t \in TableNames /\ t \in todo[c]
    BY <1>4, <1>l, <1>p, <2>0, <2>1 DEF LocalsInv
  <2>3. Holds(c, t) /\ ~Cleans(c, t) /\ ~Holds(c, t)'
    BY <1>4, <1>l, <2>0, <2>1, <2>2 DEF Holds, Cleans, LockInv, LoopLabels
  <2>4. \A u \in TableNames : u # t => Untouched(c, u)
    BY <1>4, <2>1 DEF Untouched, Holds, Committing, Failing
  <2>5. Store!Release(c, t)
    BY <2>1, <2>2, <2>3, <2>4, ReleaseStepOf
  <2> QED
    BY <2>2, <2>5 DEF Visible
<1>5. CASE commit_done(c) \/ fail_done(c)
  <2>1. /\ pc[c] \in {"commit", "fail"} /\ pc'[c] \in {"read", "closed"}
        /\ todo[c] = {} /\ locked_tables'[c] = {} /\ UNCHANGED <<kvp, proposed>>
    BY <1>5, <1>p DEF commit_done, fail_done, At, write_ok, respond, Delete, EndTransaction, process
  <2>2. \A u \in TableNames : Untouched(c, u)
    BY <2>1 DEF Untouched, Holds, Committing, Failing
  <2> QED
    BY <2>2, InvisibleStep DEF Visible
<1> QED
  BY <1>1, <1>2, <1>3, <1>4, <1>5 DEF commit_unlock, fail_unlock

\* SET and GET on the table they have found.
LEMMA TableStepVisible ==
  ASSUME StoreInv, StoreInv', NEW c \in Conns, Frame(c),
         \/ find_table(c) \/ lock(c) \/ trylock(c) \/ set_table_value(c) \/ autocommit(c)
         \/ unlock(c) \/ get_has_key(c) \/ get_table_value(c)
         \/ get_missing(c) \/ get_catch(c)
  PROVE  Visible(c)
<1>p. /\ pc \in [Conns -> Labels] /\ todo \in [Conns -> SUBSET TableNames]
      /\ locked_tables \in [Conns -> SUBSET TableNames]
      /\ table_obj \in [Conns -> TableNames \cup {None}]
      /\ kvp \in [TableNames -> Pairs] /\ proposed \in [TableNames -> Pairs]
      /\ stack \in [Conns -> Seq(Value)]
  BY DEF StoreInv, SafeInv, ExclusionInv, TypeInv, TypeOK
<1>l. LockInv(c) /\ KeyInv(c) /\ LocalsInv(c)
  BY DEF StoreInv, SafeInv, ExclusionInv, TypeInv
<1>b. Body(c) \in {"set", "has_key"}
  BY DEF Body
<1>0. PICK t : t = table_obj[c]
  OBVIOUS
<1>t. pc[c] \in TableLabels => t \in TableNames /\ t = req[c].table /\ req[c].key \in Keys
  BY <1>0, <1>l DEF LocalsInv, RequestLabels, TableRequest
<1>1. CASE find_table(c)
  <2>1. CASE Throw(c)
    BY <1>1, <2>1, ExceptionVisible DEF find_table, At, Throw, process, session, BodyLabels, LoopLabels
  <2>2. CASE ~Throw(c)
    <3>1. /\ pc[c] = "find"
          /\ \/ ~in_transaction[c] /\ pc'[c] = "lock"
             \/ in_transaction[c] /\ pc'[c] \in {"trylock", "set", "has_key"}
          /\ UNCHANGED <<kvp, proposed, locked_tables, in_transaction>>
      BY <1>1, <1>p, <1>b, <2>2 DEF find_table, At, goto, process, session
    <3>2. \A u \in TableNames : Untouched(c, u)
      BY <3>1 DEF Untouched, Holds, Committing, Failing
    <3> QED
      BY <3>2, InvisibleStep DEF Visible
  <2> QED
    BY <2>1, <2>2
<1>2. CASE lock(c)
  <2>1. /\ pc[c] = "lock" /\ pc'[c] \in {"set", "has_key"} /\ ~mutex[t]
        /\ UNCHANGED <<kvp, proposed, locked_tables, in_transaction, table_obj>>
    BY <1>2, <1>0, <1>p, <1>b DEF lock, At, goto, session, locals
  <2>2. t \in TableNames
    BY <1>t, <2>1 DEF TableLabels
  <2>3. \A d \in Conns : ~Holds(d, t)
    BY <2>1, <2>2 DEF StoreInv, SafeInv, ExclusionInv, LockInv
  <2>4. ~in_transaction[c] /\ locked_tables[c] = {}
    BY <1>l, <2>1 DEF LockInv
  <2>5. Holds(c, t)' /\ ~Ending(c, t)'
    BY <1>0, <2>1, <2>4 DEF Holds, Ending, Committing, Failing
  <2>6. \A u \in TableNames : u # t => Untouched(c, u)
    BY <1>0, <2>1, <2>4 DEF Untouched, Holds, Committing, Failing
  <2>7. Store!Acquire(c, t)
    BY <2>1, <2>2, <2>3, <2>5, <2>6, AcquireStep
  <2> QED
    BY <2>2, <2>7 DEF Visible
<1>3. CASE trylock(c)
  <2>1. CASE Throw(c)
    BY <1>3, <2>1, ExceptionVisible DEF trylock, At, Throw, process, session, BodyLabels, LoopLabels
  <2>2. CASE ~Throw(c)
    <3>1. /\ pc[c] = "trylock" /\ pc'[c] \in {"set", "has_key"} /\ ~mutex[t]
          /\ locked_tables'[c] = locked_tables[c] \cup {t}
          /\ UNCHANGED <<kvp, proposed, in_transaction, table_obj>>
      BY <1>3, <1>0, <1>p, <1>b, <2>2 DEF trylock, At, goto, locals
    <3>2. t \in TableNames
      BY <1>t, <3>1 DEF TableLabels
    <3>3. \A d \in Conns : ~Holds(d, t)
      BY <3>1, <3>2 DEF StoreInv, SafeInv, ExclusionInv, LockInv
    <3>4. in_transaction[c]
      BY <1>l, <3>1 DEF LockInv
    <3>5. Holds(c, t)' /\ ~Ending(c, t)'
      BY <3>1 DEF Holds, Ending, Committing, Failing
    <3>6. \A u \in TableNames : u # t => Untouched(c, u)
      BY <3>1, <3>4 DEF Untouched, Holds, Committing, Failing
    <3>7. Store!Acquire(c, t)
      BY <3>1, <3>2, <3>3, <3>5, <3>6, AcquireStep
    <3> QED
      BY <3>2, <3>7 DEF Visible
  <2> QED
    BY <2>1, <2>2
<1>4. CASE set_table_value(c)
  <2>1. PICK k, v : k = req[c].key /\ v = get_top(stack[c])
    OBVIOUS
  <2>2. /\ pc[c] = "set"
        /\ proposed' = [proposed EXCEPT ![t] = [proposed[t] EXCEPT ![k] = v]]
        /\ UNCHANGED <<kvp, locked_tables, in_transaction>>
    BY <1>4, <1>0, <1>p, <2>1 DEF set_table_value, At, set
  <2>3. t \in TableNames /\ k \in Keys
    BY <1>t, <2>1, <2>2 DEF TableLabels
  <2>4. v \in Value
    BY <1>l, <1>p, <2>1, <2>2, TopType DEF LocalsInv
  <2>5. \/ in_transaction[c] /\ pc'[c] = "read"
        \/ ~in_transaction[c] /\ pc'[c] = "autocommit" /\ table_obj'[c] = t
    BY <1>4, <1>0, <1>p DEF set_table_value, FinishIn, write_ok, respond, goto, locals
  <2>6. /\ \A u \in TableNames : Holds(c, u)' <=> Holds(c, u)
        /\ \A u \in TableNames : ~Ending(c, u)' /\ ~Ending(c, u)
    BY <1>0, <2>2, <2>5 DEF Holds, Ending, Committing, Failing
  <2>7. Holds(c, t)
    BY <1>0, <1>l, <2>2, <2>3, TouchingHolds DEF Touches
  <2>8. \A u \in TableNames : u # t => Untouched(c, u)
    BY <1>p, <2>2, <2>6 DEF Untouched, Ending
  <2>9. proposed'[t] = [proposed[t] EXCEPT ![k] = v] /\ kvp'[t] = kvp[t]
    BY <1>p, <2>2, <2>3
  <2>10. Store!Propose(c, t, k, v)
    BY <2>3, <2>4, <2>6, <2>7, <2>8, <2>9, ProposeStep
  <2> QED
    BY <2>3, <2>4, <2>10 DEF Visible
\* The one table of an autocommitted SET.
<1>5. CASE autocommit(c)
  <2>1. /\ pc[c] = "autocommit" /\ pc'[c] = "unlock"
        /\ kvp' = [kvp EXCEPT ![t] = commit_changes(kvp[t], proposed[t])]
        /\ UNCHANGED <<proposed, locked_tables, in_transaction, table_obj>>
    BY <1>5, <1>0, <1>p DEF autocommit, At, goto, session, locals
  <2>2. t \in TableNames
    BY <1>t, <2>1 DEF TableLabels
  <2>3. ~in_transaction[c] /\ locked_tables[c] = {}
    BY <1>l, <2>1 DEF LockInv
  <2>4. \A u \in TableNames : /\ Holds(c, u) <=> u = t
                              /\ Holds(c, u)' <=> u = t
                              /\ ~Ending(c, u) /\ ~Ending(c, u)'
    BY <1>0, <2>1, <2>3 DEF Holds, Ending, Committing, Failing
  <2>5. \A u \in TableNames : u # t => Untouched(c, u)
    BY <1>p, <2>1, <2>4 DEF Untouched, Ending
  <2>6. \A u \in TableNames : u # t => SameViews(u)
    BY <2>5, UntouchedViews
  <2>7. /\ OwnerView'[t] = c /\ OwnerView[t] = c
        /\ CommittedView'[t] = kvp'[t] /\ PendingView'[t] = Diff(t)'
    BY <2>2, <2>4 DEF StoreInv, Seen, Ending
  <2>8. kvp'[t] = commit_changes(kvp[t], proposed[t])
    BY <1>p, <2>1, <2>2
  <2>9. Diff(t)' = NoPairs
    <3>1. ~Cleans(c, t)'
      BY <2>1, <2>3 DEF Cleans
    <3> QED
      BY <2>2, <2>4, <3>1 DEF StoreInv, Seen, NoPairs
  <2>10. OwnerView' = OwnerView
    BY <2>6, <2>7, ViewsEqual DEF SameViews
  <2>11. Store!Commit(c)
    BY <2>2, <2>4, <2>6, <2>7, <2>8, <2>9, <2>10, CommitStep
  <2> QED
    BY <2>11 DEF Visible
<1>6. CASE unlock(c)
  <2>1. /\ pc[c] = "unlock" /\ pc'[c] = "read"
        /\ UNCHANGED <<kvp, proposed, locked_tables, in_transaction>>
    BY <1>6, <1>p DEF unlock, At, write_ok, respond, session
  <2>2. t \in TableNames
    BY <1>t, <2>1 DEF TableLabels
  <2>3. ~in_transaction[c] /\ locked_tables[c] = {}
    BY <1>l, <2>1 DEF LockInv
  <2>4. Holds(c, t) /\ ~Cleans(c, t) /\ ~Holds(c, t)'
    BY <1>0, <2>1, <2>3 DEF Holds, Cleans
  <2>5. \A u \in TableNames : u # t => Untouched(c, u)
    BY <1>0, <2>1, <2>3 DEF Untouched, Holds, Committing, Failing
  <2>6. Store!Release(c, t)
    BY <2>1, <2>2, <2>4, <2>5, ReleaseStepOf
  <2> QED
    BY <2>2, <2>6 DEF Visible
<1>7. CASE get_has_key(c)
  <2>1. /\ pc[c] = "has_key" /\ pc'[c] \in {"get", "missing"}
        /\ UNCHANGED <<kvp, proposed, locked_tables, in_transaction, table_obj>>
    BY <1>7, <1>p DEF get_has_key, At, goto, process, session, locals
  <2>2. \A u \in TableNames : Untouched(c, u)
    BY <2>1 DEF Untouched, Holds, Committing, Failing
  <2> QED
    BY <2>2, InvisibleStep DEF Visible
<1>8. CASE get_table_value(c)
  <2>1. pc[c] = "get" /\ t \in TableNames /\ req[c].key \in Keys
    BY <1>8, <1>t DEF get_table_value, At, TableLabels
  <2>2. get(kvp[t], proposed[t], req[c].key) # None
    BY <1>l, <1>t, <2>1 DEF KeyInv, KeyPresent, get, TableLabels
  <2>3. /\ \/ in_transaction[c] /\ pc'[c] = "read"
           \/ ~in_transaction[c] /\ pc'[c] = "unlock" /\ table_obj'[c] = t
        /\ UNCHANGED <<kvp, proposed, locked_tables, in_transaction>>
    BY <1>8, <1>0, <1>p, <2>2 DEF get_table_value, FinishIn, write_ok, respond, goto, locals, process
  <2>4. \A u \in TableNames : Untouched(c, u)
    BY <1>0, <2>1, <2>3 DEF Untouched, Holds, Committing, Failing
  <2> QED
    BY <2>4, InvisibleStep DEF Visible
<1>9. CASE get_missing(c) \/ get_catch(c)
  BY <1>9, <1>l DEF KeyInv, get_missing, get_catch, At
<1> QED
  BY <1>1, <1>2, <1>3, <1>4, <1>5, <1>6, <1>7, <1>8, <1>9

\* CREATE: the store has an empty table for every name from the start.
LEMMA CreateStepVisible ==
  ASSUME StoreInv, StoreInv', NEW c \in Conns, Frame(c),
         \/ create_lock(c) \/ create_find(c) \/ create_exists(c)
         \/ create_insert(c) \/ create_assign(c) \/ create_unlock(c)
  PROVE  Visible(c)
<1>p. /\ pc \in [Conns -> Labels] /\ todo \in [Conns -> SUBSET TableNames]
      /\ kvp \in [TableNames -> Pairs] /\ proposed \in [TableNames -> Pairs]
  BY DEF StoreInv, SafeInv, ExclusionInv, TypeInv, TypeOK
<1>l. LockInv(c) /\ LocalsInv(c) /\ ExistInv(c)
  BY DEF StoreInv, SafeInv, ExclusionInv, TypeInv
<1>1. CASE create_lock(c) \/ create_find(c) \/ create_insert(c) \/ create_unlock(c)
  <2>1. /\ pc[c] \in CreateLabels /\ pc'[c] \in CreateLabels \cup {"read"}
        /\ UNCHANGED <<kvp, proposed, locked_tables>>
    BY <1>1, <1>p DEF create_lock, create_find, create_insert, create_unlock, At, goto,
       process, session, CreateLabels, OwnerLabels
  <2> QED
    BY <2>1, IdleInvisible DEF BodyLabels, LoopLabels, CreateLabels, OwnerLabels
<1>2. CASE create_exists(c)
  BY <1>2, ExceptionVisible DEF create_exists, At, session, BodyLabels, LoopLabels
<1>3. CASE create_assign(c)
  <2>0. PICK t : t = req[c].table
    OBVIOUS
  <2>1. /\ pc[c] = "create_assign" /\ pc'[c] = "create_unlock"
        /\ kvp' = [kvp EXCEPT ![t] = NoPairs]
        /\ proposed' = [proposed EXCEPT ![t] = NoPairs]
        /\ UNCHANGED <<locked_tables, in_transaction>>
    BY <1>3, <1>p, <2>0 DEF create_assign, At, session
  <2>2. t \in TableNames /\ slot[t] # "table"
    BY <1>l, <2>0, <2>1 DEF LocalsInv, ExistInv, CreateLabels, OwnerLabels, CreateRequest
  <2>3. \A d \in Conns : ~Holds(d, t)
    BY <2>2, HeldTablesExist DEF StoreInv, SafeInv, ExclusionInv
  <2>4. \A u \in TableNames : /\ Holds(c, u)' <=> Holds(c, u)
                              /\ ~Ending(c, u) /\ ~Ending(c, u)'
    BY <2>1 DEF Holds, Ending, Committing, Failing
  <2>5. \A u \in TableNames : u # t => Untouched(c, u)
    BY <1>p, <2>1, <2>4 DEF Untouched, Ending
  <2>6. \A d \in Conns : ~Holds(d, t)'
    BY <2>2, <2>3, <2>4, OthersHold
  <2>7. kvp'[t] = NoPairs /\ kvp[t] = NoPairs
    BY <1>p, <2>1, <2>2 DEF StoreInv, SafeInv, ExclusionInv, NewTablesEmpty
  <2>8. SameViews(t)
    BY <2>2, <2>3, <2>6, <2>7 DEF StoreInv, Seen, SameViews, NoPairs
  <2> QED
    BY <2>5, <2>8, InvisibleStep DEF Visible
<1> QED
  BY <1>1, <1>2, <1>3

-----------------------------------------------------------------------------
(* The refinement.                                                           *)

\* A step of a thread is a step of the store or cannot be seen in it.
LEMMA StepVisible ==
  ASSUME StoreInv, StoreInv', NEW c \in Conns, ClientStep(c) \/ read_eof(c) \/ ThreadStep(c)
  PROVE  Visible(c)
<1>1. Frame(c)
  BY OwnStateOnly DEF StoreInv, SafeInv, ExclusionInv, TypeInv
<1> QED
  BY <1>1, ClientStepVisible, EndStepVisible, TableStepVisible, CreateStepVisible DEF ThreadStep

\* A step of the server seen from the store.
LEMMA StoreStep == StoreInv /\ StoreInv' /\ [Next]_vars => [Store!Next]_(Store!vars)
<1> SUFFICES ASSUME StoreInv, StoreInv', [Next]_vars
             PROVE  [Store!Next]_(Store!vars)
  OBVIOUS
<1>1. ASSUME NEW c \in Conns, Visible(c)
      PROVE  [Store!Next]_(Store!vars)
  BY <1>1 DEF Visible, Invisible, Store!Next, Store!vars
<1>2. ASSUME UNCHANGED <<process, session, locals, pc, todo>>
      PROVE  Invisible
  BY <1>2 DEF Invisible, CommittedView, OwnerView, PendingView, Holds, Committing, Failing,
     process, session, locals
<1>3. Invisible => [Store!Next]_(Store!vars)
  BY DEF Invisible, Store!vars
<1>4. CASE \E c \in Conns : ClientStep(c) \/ read_eof(c) \/ ThreadStep(c)
  BY <1>1, <1>4, StepVisible
<1>5. CASE \E c, d \in Conns : data_race(c, d)
  BY <1>2, <1>3, <1>5 DEF data_race
<1>6. CASE UNCHANGED vars
  BY <1>2, <1>3, <1>6 DEF vars
<1> QED
  BY <1>4, <1>5, <1>6 DEF Next, Dead

\* The server starts as a store that nobody uses.
LEMMA StoreInit == StoreInv /\ Init => Store!Init
<1> SUFFICES ASSUME StoreInv, Init
             PROVE  Store!Init
  OBVIOUS
<1>1. \A c \in Conns, t \in TableNames : ~Holds(c, t)
  BY DEF Init, Holds
<1>2. \A t \in TableNames : OwnerView[t] = None /\ CommittedView[t] = kvp[t] /\ PendingView[t] = NoPairs
  BY <1>1 DEF StoreInv, Seen
<1>3. OwnerView = [t \in TableNames |-> None]
  BY <1>2 DEF OwnerView
<1>4. PendingView = [t \in TableNames |-> NoPairs]
  BY <1>2 DEF PendingView
<1>5. CommittedView \in [TableNames -> Pairs]
  BY <1>2 DEF CommittedView, StoreInv, SafeInv, ExclusionInv, TypeInv, TypeOK
<1> QED
  BY <1>3, <1>4, <1>5 DEF Store!Init, Store!Pairs, Store!Nothing, Pairs, NoPairs

\* The views are those of a store that is used as it should be, for ever.
LEMMA StoreAlways ==
  ASSUME ~MissingKeyGets
  PROVE  Spec => []StoreInv
  BY SafeAlways, SafeSeen, PTL

\* The server implements the transactional store: a commit of several tables,
\* which handle_commit performs table by table, takes effect in one step, a
\* rollback leaves no trace, and nobody changes a table another client owns, as
\* long as every GET is for a key that is there (handle_set, handle_get,
\* handle_commit, handle_create, fail_transaction).
THEOREM StoreImplemented ==
  ASSUME ~MissingKeyGets
  PROVE  Spec => ImplementsStore
  BY StoreInit, StoreStep, StoreAlways, PTL DEF Spec, ImplementsStore, Store!Spec

\* A GET that reads finds what the store has, or the transaction's own proposal.
LEMMA StepReadsClean ==
  ASSUME StoreInv, [Next]_vars, NEW c \in Conns
  PROVE  CleanRead(c)
<1>p. TypeOK /\ LocalsInv(c) /\ LockInv(c)
  BY DEF StoreInv, SafeInv, ExclusionInv, TypeInv
<1>1. SUFFICES ASSUME pc[c] = "get", stack'[c] # stack[c]
               PROVE  LET t == table_obj[c]
                          k == req[c].key
                      IN  \/ get_top(stack'[c]) = CommittedView[t][k]
                          \/ in_transaction[c] /\ get_top(stack'[c]) = PendingView[t][k]
  <2>1. Len(stack[c]) \in Nat
    BY <1>p, LenProperties DEF TypeOK
  <2> QED
    BY <2>1 DEF CleanRead
<1>2. ASSUME NEW d \in Conns, d # c
      PROVE  ~(ClientStep(d) \/ read_eof(d) \/ ThreadStep(d))
  BY <1>1, <1>2, <1>p, OwnStateOnly DEF Frame
<1>3. get_table_value(c)
  <2>1. ClientStep(c) \/ read_eof(c) \/ ThreadStep(c)
    BY <1>1, <1>2 DEF Next, Dead, data_race, vars, session
  <2>2. ~(ClientStep(c) \/ read_eof(c))
    <3>1. \A r \in Requests : ~Handle(c, r)
      BY <1>1 DEF Handle, Serving, At, handle_push, handle_pop, handle_top, handle_arith,
         handle_bye, handle_unsupported, handle_begin, handle_commit, handle_set,
         handle_get, handle_create
    <3> QED
      BY <1>1, <3>1 DEF ClientStep, Accept, ClientLeaves, read_invalid, handle_login,
         refuse, read_eof, At, session
  <2> QED
    BY <1>1, <2>1, <2>2 DEF ThreadStep, At, close_connection, commit_table,
       rollback_table, commit_unlock, commit_done, fail_unlock, fail_done, next_table,
       find_table, lock, trylock, set_table_value, autocommit, unlock, get_has_key,
       get_missing, get_catch, create_lock, create_find, create_exists, create_insert,
       create_assign, create_unlock
<1>4. PICK t, k, v : t = table_obj[c] /\ k = req[c].key /\ v = get(kvp[t], proposed[t], k)
  OBVIOUS
<1>5. t \in TableNames /\ k \in Keys /\ Holds(c, t) /\ ~Ending(c, t)
  <2>1. t \in TableNames /\ k \in Keys
    BY <1>p, <1>1, <1>4 DEF LocalsInv, RequestLabels, TableLabels, TableRequest
  <2> QED
    BY <1>p, <1>1, <1>4, <2>1, TouchingHolds DEF Touches, Ending, Committing, Failing
<1>6. CommittedView[t] = kvp[t] /\ PendingView[t] = Diff(t) /\ (~Cleans(c, t) => CleanTable(t))
  BY <1>5 DEF StoreInv, Seen, Ending
<1>7. v # None /\ v \in Value /\ stack' = [stack EXCEPT ![c] = push(@, v)]
  <2>1. v # None /\ stack' = [stack EXCEPT ![c] = push(@, v)]
    BY <1>1, <1>3, <1>4 DEF get_table_value, session
  <2>2. v \in Value \cup {None}
    BY <1>p, <1>4, <1>5 DEF get, TypeOK, Pairs
  <2> QED
    BY <2>1, <2>2
<1>8. get_top(stack'[c]) = v
  <2>1. stack \in [Conns -> Seq(Value)]
    BY <1>p DEF TypeOK
  <2>2. stack'[c] = Append(stack[c], v)
    BY <1>7, <2>1 DEF push
  <2> QED
    BY <1>7, <2>1, <2>2, AppendProperties DEF get_top
\* A key that is only proposed is the transaction's own proposal.
<1>9. kvp[t][k] = v \/ (in_transaction[c] /\ Diff(t)[k] = v)
  <2>1. CASE kvp[t][k] # None
    BY <1>4, <2>1 DEF get
  <2>2. CASE kvp[t][k] = None
    <3>1. proposed[t][k] = v /\ Diff(t)[k] = v
      BY <1>4, <1>5, <1>7, <2>2 DEF get, Diff
    <3>2. ~CleanTable(t)
      BY <1>5, <1>7, <2>2, <3>1 DEF CleanTable
    <3>3. Cleans(c, t)
      BY <1>6, <3>2
    <3> QED
      BY <1>p, <1>1, <3>1, <3>3 DEF Cleans, LockInv
  <2> QED
    BY <2>1, <2>2
<1> QED
  BY <1>4, <1>6, <1>8, <1>9

\* No dirty reads and no half of a commit: a GET brings to the stack the value
\* the store has committed, or one that the client's own transaction has
\* proposed (get_table_value while others commit and roll back), as long as
\* every GET is for a key that is there.
THEOREM ReadsAreClean ==
  ASSUME ~MissingKeyGets
  PROVE  Spec => NoDirtyRead
<1>1. StoreInv /\ [Next]_vars => [\A c \in Conns : CleanRead(c)]_vars
  BY StepReadsClean
<1> QED
  BY <1>1, StoreAlways, PTL DEF Spec, NoDirtyRead
=============================================================================
