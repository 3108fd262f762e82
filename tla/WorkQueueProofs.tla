--------------------------- MODULE WorkQueueProofs ---------------------------
(***************************************************************************)
(* Theorems about WorkQueue, for any number of processes, workers, units,  *)
(* rows, leases and faults.                                                *)
(***************************************************************************)
EXTENDS WorkQueue, WellFoundedInduction, FiniteSetTheorems, TLAPS

(* Leases and least rows. *)

LEMMA KeyOfLease == \A l \in Lease : KeyOf(l) \in Key
BY DEF Lease, KeyOf

\* A non-empty set of rows has a least one, and Min finds it.
LEMMA MinOfRows ==
  ASSUME NEW S \in SUBSET Item, S # {}
  PROVE  Min(S) \in S /\ \A i \in S : Min(S) <= i
<1>1. S \subseteq Nat
  BY ConstantsAssumption
<1> DEFINE LessThan == {ss \in Nat \X Nat : ss[1] < ss[2]}
<1>2. IsWellFoundedOn(LessThan, Nat)
  BY NatLessThanWellFounded DEF OpToRel
<1>3. PICK x \in S : \A y \in S : ~(<<y, x>> \in LessThan)
  <2> HIDE DEF LessThan
  <2> QED BY <1>1, <1>2, WFMin
<1>4. \A y \in S : x <= y
  <2> SUFFICES ASSUME NEW y \in S PROVE x <= y
    OBVIOUS
  <2>1. x \in Nat /\ y \in Nat
    BY <1>1
  <2>2. ~(<<y, x>> \in LessThan)
    BY <1>3
  <2>3. ~(y < x)
    BY <2>1, <2>2
  <2> QED BY <2>1, <2>3
<1>5. QED
  BY <1>4 DEF Min

\* What an INSERT adds are leases of keys that had none left unissued.
LEMMA NextLeaseType ==
  ASSUME TypeOK, NEW p \in Process, NEW k \in Inserted(p)
  PROVE  /\ k \in Key
         /\ NextLease(k) \in Lease
         /\ KeyOf(NextLease(k)) = k
         /\ issued[k] + 1 \in 0..MaxLeases
BY ConstantsAssumption DEF TypeOK, Inserted, NextLease, Lease, KeyOf

\* A fetch returns a non-empty set of pending rows of its unit.
LEMMA BatchIsPending ==
  ASSUME NEW k \in Key, Pending(k) # {}, NEW B \in Batches(k)
  PROVE  B # {} /\ B \subseteq Pending(k)
<1>1. Pending(k) \subseteq Item
  BY DEF Pending, Rows
<1>2. CASE Kind[k] = "representation"
  BY <1>2 DEF Batches, Prefixes
<1>3. CASE Kind[k] # "representation"
  BY <1>1, <1>3, MinOfRows DEF Batches
<1>4. QED
  BY <1>2, <1>3
\* The blamed row is one of the batch, and its first.
LEMMA BlamedIsFirst ==
  ASSUME TypeOK, NEW l \in Lease, task[l] \in Holding
  PROVE  /\ Blamed(l) \in batch[l]
         /\ Blamed(l) \in Item
         /\ \A i \in batch[l] : Blamed(l) <= i
<1>1. batch[l] \in SUBSET Item /\ batch[l] # {}
  BY DEF TypeOK
<1>2. QED
  BY <1>1, MinOfRows DEF Blamed
-----------------------------------------------------------------------------
(* Types. *)

LEMMA InitType == Init => TypeOK
BY ConstantsAssumption
   DEF Init, TypeOK, RowStatus, PollState, TaskState, Holding

LEMMA NextType == TypeOK /\ [Next]_vars => TypeOK'
<1> SUFFICES ASSUME TypeOK, [Next]_vars PROVE TypeOK'
  OBVIOUS
<1> USE ConstantsAssumption, KeyOfLease
    DEF TypeOK, RowStatus, PollState, TaskState, Holding, Fault, Goto, counts
<1>1. ASSUME NEW i \in Item, Enqueue(i) PROVE TypeOK'
  BY <1>1 DEF Enqueue, dbVars, pollVars, taskVars, history
<1>2. ASSUME NEW p \in Process, PollBegin(p) PROVE TypeOK'
  BY <1>2 DEF PollBegin, dbVars, pollVars, taskVars, history
<1>3. ASSUME NEW p \in Process, PollSelect(p) PROVE TypeOK'
  BY <1>3 DEF PollSelect, dbVars, pollVars, taskVars, history
<1>4. ASSUME NEW p \in Process, PollClaim(p) PROVE TypeOK'
  <2>1. \A k \in Inserted(p) : k \in Key /\ NextLease(k) \in Lease /\ issued[k] + 1 \in 0..MaxLeases
    BY NextLeaseType
  <2>2. aqs' \subseteq Lease /\ stale' \subseteq aqs'
    BY <1>4, <2>1 DEF PollClaim
  <2>3. issued' \in [Key -> 0..MaxLeases]
    BY <1>4, <2>1 DEF PollClaim
  <2>4. task' \in [Lease -> TaskState] /\ home' \in [Lease -> Process]
    BY <1>4 DEF PollClaim
  <2>5. \A l \in Lease : task'[l] \in Holding => task[l] \in Holding
    BY <1>4 DEF PollClaim
  <2>6. QED
    BY <1>4, <2>2, <2>3, <2>4, <2>5 DEF PollClaim, history
<1>5. ASSUME NEW p \in Process, PollTrack(p) PROVE TypeOK'
  BY <1>5 DEF PollTrack, ClaimedBy, dbVars, pollVars, taskVars, history
<1>6. ASSUME NEW p \in Process, Cleanup(p) PROVE TypeOK'
  BY <1>6 DEF Cleanup, dbVars, pollVars, taskVars, history
<1>7. ASSUME NEW p \in Process, Exit(p) PROVE TypeOK'
  BY <1>7 DEF Exit, Stop, dbVars, pollVars, taskVars, history
<1>8. ASSUME NEW p \in Process, Start(p) PROVE TypeOK'
  BY <1>8 DEF Start, dbVars, pollVars, taskVars, history
<1>9. ASSUME NEW p \in Process, PollError(p) PROVE TypeOK'
  BY <1>9 DEF PollError, dbVars, pollVars, taskVars, history
<1>10. ASSUME NEW p \in Process, Shutdown(p) PROVE TypeOK'
  BY <1>10 DEF Shutdown, dbVars, pollVars, taskVars, history
<1>11. ASSUME NEW p \in Process, Crash(p) PROVE TypeOK'
  <2>1. faults' \in 0..MaxFaults
    BY <1>11 DEF Crash
  <2>2. QED
    BY <1>11, <2>1 DEF Crash, Stop, dbVars, history
<1>12. ASSUME NEW l \in Lease, Acquire(l) PROVE TypeOK'
  BY <1>12 DEF Acquire, dbVars, pollVars, taskVars, history
<1>13. ASSUME NEW l \in Lease, Leave(l) PROVE TypeOK'
  BY <1>13 DEF Leave, dbVars, pollVars, taskVars, history
<1>14. ASSUME NEW l \in Lease, Fetch(l) PROVE TypeOK'
  <2>1. PICK B \in Batches(KeyOf(l)) : batch' = [batch EXCEPT ![l] = B]
    BY <1>14 DEF Fetch
  <2>2. B # {} /\ B \subseteq Pending(KeyOf(l))
    BY <1>14, BatchIsPending DEF Fetch
  <2>3. B \subseteq Item /\ \A i \in B : WorkUnitOf[i] = KeyOf(l)
    BY <2>2 DEF Pending, Rows
  <2>4. QED
    BY <1>14, <2>1, <2>2, <2>3 DEF Fetch, dbVars, pollVars, history
<1>15. ASSUME NEW l \in Lease, Handle(l) PROVE TypeOK'
  BY <1>15 DEF Handle, dbVars, pollVars, taskVars, history
<1>16. ASSUME NEW l \in Lease, HandleRaises(l) PROVE TypeOK'
  BY <1>16, BlamedIsFirst DEF HandleRaises, dbVars, pollVars, taskVars, history
<1>17. ASSUME NEW l \in Lease, MarkProcessed(l) PROVE TypeOK'
  BY <1>17 DEF MarkProcessed, Refreshed, dbVars, pollVars, taskVars, history
<1>18. ASSUME NEW l \in Lease, MarkErrored(l) PROVE TypeOK'
  BY <1>18, BlamedIsFirst DEF MarkErrored, Refreshed, dbVars, pollVars, taskVars, history
<1>19. ASSUME NEW l \in Lease, Close(l) PROVE TypeOK'
  BY <1>19 DEF Close, dbVars, pollVars, taskVars, history
<1>20. ASSUME NEW l \in Lease, Publish(l) PROVE TypeOK'
  BY <1>20 DEF Publish, dbVars, pollVars, taskVars, history
<1>21. ASSUME NEW l \in Lease, Expire(l) PROVE TypeOK'
  BY <1>21 DEF Expire, dbVars, pollVars, taskVars, history
<1>22. ASSUME NEW l \in Lease, MarkProcessedRaises(l) PROVE TypeOK'
  <2>1. faults' \in 0..MaxFaults
    BY <1>22 DEF MarkProcessedRaises
  <2>2. Blamed(l) \in Item
    BY <1>22, BlamedIsFirst DEF MarkProcessedRaises
  <2>3. QED
    BY <1>22, <2>1, <2>2 DEF MarkProcessedRaises, dbVars, pollVars
<1>23. ASSUME NEW l \in Lease, MarkErroredRaises(l) PROVE TypeOK'
  BY <1>23 DEF MarkErroredRaises, dbVars, pollVars, taskVars, history
<1>24. ASSUME NEW l \in Lease, CloseRaises(l) PROVE TypeOK'
  BY <1>24 DEF CloseRaises, dbVars, pollVars, taskVars, history
<1>25. ASSUME NEW s \in Scopes, DeleteScope(s) PROVE TypeOK'
  BY <1>25 DEF DeleteScope, pollVars, taskVars, history
<1>26. CASE UNCHANGED vars
  BY <1>26 DEF vars, dbVars, pollVars, taskVars, history, counts
<1>27. QED
  BY <1>1, <1>2, <1>3, <1>4, <1>5, <1>6, <1>7, <1>8, <1>9, <1>10, <1>11, <1>12, <1>13, <1>14, <1>15, <1>16, <1>17, <1>18, <1>19, <1>20, <1>21, <1>22, <1>23, <1>24, <1>25, <1>26
     DEF Next, PollStep, TaskStep, FaultStep

\* Every reachable state is well typed, and no task ever holds a batch that is
\* empty or contains a row of another unit.
THEOREM TypeCorrect == Spec => []TypeOK
BY InitType, NextType, PTL DEF Spec
-----------------------------------------------------------------------------
(* One lease per unit. *)

\* Whatever SELECTs two pollers have behind them, ON CONFLICT DO NOTHING leaves
\* each work unit at most one row in active_queue_sessions.
THEOREM LeasesAreExclusive == Spec => []OneLeasePerUnit
<1>1. Init => OneLeasePerUnit
  BY DEF Init, OneLeasePerUnit
<1>2. TypeOK /\ OneLeasePerUnit /\ [Next]_vars => OneLeasePerUnit'
  <2> SUFFICES ASSUME TypeOK, OneLeasePerUnit, [Next]_vars PROVE OneLeasePerUnit'
    OBVIOUS
  <2>1. ASSUME NEW p \in Process, PollClaim(p) PROVE OneLeasePerUnit'
    <3>1. SUFFICES ASSUME NEW l \in aqs', NEW m \in aqs', KeyOf(l) = KeyOf(m)
                   PROVE  l = m
      BY DEF OneLeasePerUnit
    <3>2. aqs' = aqs \union {NextLease(k) : k \in Inserted(p)}
      BY <2>1 DEF PollClaim
    <3>3. \A k \in Inserted(p) : KeyOf(NextLease(k)) = k /\ ~IsLeased(k)
      BY DEF NextLease, KeyOf, Inserted
    <3>4. QED
      BY <3>1, <3>2, <3>3 DEF OneLeasePerUnit, IsLeased
  <2>2. CASE aqs' \subseteq aqs
    BY <2>2 DEF OneLeasePerUnit
  <2>3. (\E p \in Process : PollClaim(p)) \/ aqs' \subseteq aqs
    BY DEF Next, PollStep, TaskStep, FaultStep, vars, dbVars, Enqueue, PollBegin,
           PollSelect, PollTrack, Cleanup, Exit, Start, PollError, Shutdown, Crash, Stop,
           Acquire, Leave, Fetch, Handle, HandleRaises, MarkProcessed, MarkErrored,
           Close, Publish, Expire, MarkProcessedRaises, MarkErroredRaises, CloseRaises,
           DeleteScope
  <2>4. QED
    BY <2>1, <2>2, <2>3
<1>3. QED
  BY <1>1, <1>2, TypeCorrect, PTL DEF Spec
-----------------------------------------------------------------------------
(* Rows are attempted before they are struck off, and in order. *)

\* What most steps leave alone: the rows, the attempts, and the batches held.
Quiet ==
  /\ UNCHANGED <<queue, handled, failed>>
  /\ \A l \in Lease : task'[l] \in Holding => task'[l] = task[l] /\ batch'[l] = batch[l]

RowStep ==
  \/ \E i \in Item : Enqueue(i)
  \/ \E l \in Lease : \/ Fetch(l) \/ Handle(l) \/ HandleRaises(l) \/ MarkProcessed(l)
                      \/ MarkProcessedRaises(l) \/ MarkErrored(l) \/ Publish(l)
  \/ \E s \in Scopes : DeleteScope(s)

LEMMA QuietOrRowStep == TypeOK /\ [Next]_vars => Quiet \/ RowStep
<1> SUFFICES ASSUME TypeOK, [Next]_vars PROVE Quiet \/ RowStep
  OBVIOUS
<1> USE DEF Quiet, Holding, TypeOK, history, taskVars, dbVars, Goto
<1>1. ASSUME NEW p \in Process, PollBegin(p) \/ PollSelect(p) \/ Start(p) \/ Shutdown(p) \/ Cleanup(p)
      PROVE  Quiet
  BY <1>1 DEF PollBegin, PollSelect, Start, Shutdown, Cleanup
<1>2. ASSUME NEW p \in Process, PollClaim(p) \/ PollTrack(p) \/ PollError(p)
      PROVE  Quiet
  BY <1>2 DEF PollClaim, PollTrack, PollError
<1>3. ASSUME NEW p \in Process, Exit(p) \/ Crash(p)
      PROVE  Quiet
  BY <1>3 DEF Exit, Crash, Stop
<1>4. ASSUME NEW l \in Lease, Acquire(l) \/ Leave(l) \/ Close(l) \/ Expire(l)
      PROVE  Quiet
  BY <1>4 DEF Acquire, Leave, Close, Expire
<1>5. ASSUME NEW l \in Lease, MarkErroredRaises(l) \/ CloseRaises(l)
      PROVE  Quiet
  BY <1>5 DEF MarkErroredRaises, CloseRaises
<1>6. CASE UNCHANGED vars
  BY <1>6 DEF vars
<1>7. QED
  BY <1>1, <1>2, <1>3, <1>4, <1>5, <1>6 DEF Next, PollStep, TaskStep, FaultStep, RowStep

\* NoRowLost made inductive: what is about to be marked has been attempted.
AttemptInv ==
  /\ NoRowLost
  /\ \A l \in Lease : /\ task[l] = "marking" => batch[l] \subseteq handled
                      /\ task[l] = "failing" => Blamed(l) \in failed

LEMMA NextAttempt == TypeOK /\ AttemptInv /\ [Next]_vars => AttemptInv'
<1> SUFFICES ASSUME TypeOK, AttemptInv, [Next]_vars PROVE AttemptInv'
  OBVIOUS
<1> USE DEF AttemptInv, NoRowLost, TypeOK, Holding, history, Goto
<1>1. CASE Quiet
  BY <1>1 DEF Quiet, Blamed
<1>2. ASSUME NEW i \in Item, Enqueue(i) PROVE AttemptInv'
  BY <1>2 DEF Enqueue, taskVars, Blamed
<1>3. ASSUME NEW l \in Lease, Fetch(l) PROVE AttemptInv'
  BY <1>3 DEF Fetch, dbVars, Blamed
<1>4. ASSUME NEW l \in Lease, Handle(l) PROVE AttemptInv'
  BY <1>4 DEF Handle, dbVars, Blamed
<1>5. ASSUME NEW l \in Lease, HandleRaises(l) \/ MarkProcessedRaises(l) PROVE AttemptInv'
  BY <1>5 DEF HandleRaises, MarkProcessedRaises, dbVars, Blamed
<1>6. ASSUME NEW l \in Lease, MarkProcessed(l) PROVE AttemptInv'
  BY <1>6 DEF MarkProcessed, Marked, Blamed
<1>7. ASSUME NEW l \in Lease, MarkErrored(l) PROVE AttemptInv'
  BY <1>7, BlamedIsFirst DEF MarkErrored, Blamed
<1>8. ASSUME NEW l \in Lease, Publish(l) PROVE AttemptInv'
  BY <1>8 DEF Publish, Blamed
<1>9. ASSUME NEW s \in Scopes, DeleteScope(s) PROVE AttemptInv'
  BY <1>9 DEF DeleteScope, taskVars, Blamed
<1>10. QED
  BY <1>1, <1>2, <1>3, <1>4, <1>5, <1>6, <1>7, <1>8, <1>9, QuietOrRowStep DEF RowStep

\* A row is struck off as processed only after a handler returned with it, and
\* as errored only after an attempt that blamed it raised.
THEOREM RowsAreAttempted == Spec => []NoRowLost
<1>1. Init => AttemptInv
  BY DEF Init, AttemptInv, NoRowLost
<1>2. AttemptInv => NoRowLost
  BY DEF AttemptInv
<1>3. QED
  BY <1>1, <1>2, NextAttempt, TypeCorrect, PTL DEF Spec

Finished(i) == queue[i] \in {"processed", "errored"}
Struck(i)   == queue[i] \in {"processed", "errored", "deleted"}

\* FinishedInOrder made inductive.  Rows of a serially fed unit become known
\* from the front, and the rows before a held batch are struck off or held by it.
KnownFromTheFront ==
  \A k \in OrderedKeys : \A i, j \in Rows(k) :
    i < j /\ queue[j] # "absent" => queue[i] # "absent"

HeldAtTheFront(l) ==
  \A i \in batch[l] :
    /\ queue[i] # "absent"
    /\ KeyOf(l) \in OrderedKeys =>
         \A j \in Rows(KeyOf(l)) : j < i => Struck(j) \/ j \in batch[l]

FrontInv ==
  /\ FinishedInOrder
  /\ KnownFromTheFront
  /\ \A l \in Lease : task[l] \in Holding => HeldAtTheFront(l)

LEMMA NextFront == TypeOK /\ FrontInv /\ [Next]_vars => FrontInv'
<1> SUFFICES ASSUME TypeOK, FrontInv, [Next]_vars PROVE FrontInv'
  OBVIOUS
<1> USE DEF TypeOK, RowStatus, Holding, Struck, Finished, Rows, Goto
<1>1. CASE Quiet
  <2>1. FinishedInOrder' /\ KnownFromTheFront'
    BY <1>1 DEF Quiet, FrontInv, FinishedInOrder, KnownFromTheFront
  <2>2. ASSUME NEW l \in Lease, task'[l] \in Holding PROVE HeldAtTheFront(l)'
    BY <1>1, <2>2 DEF Quiet, FrontInv, HeldAtTheFront
  <2>3. QED
    BY <2>1, <2>2 DEF FrontInv
<1>2. ASSUME NEW i \in Item, Enqueue(i) PROVE FrontInv'
  <2>1. \A j \in Item : (Struck(j)' <=> Struck(j)) /\ (Finished(j)' <=> Finished(j))
    BY <1>2 DEF Enqueue
  <2>2. FinishedInOrder'
    BY <2>1 DEF FrontInv, FinishedInOrder
  <2>3. KnownFromTheFront'
    BY <1>2, ConstantsAssumption DEF Enqueue, FrontInv, KnownFromTheFront
  <2>4. ASSUME NEW l \in Lease, task'[l] \in Holding PROVE HeldAtTheFront(l)'
    BY <1>2, <2>1, <2>4 DEF Enqueue, taskVars, FrontInv, HeldAtTheFront
  <2>5. QED
    BY <2>2, <2>3, <2>4 DEF FrontInv
<1>3. ASSUME NEW l \in Lease, Fetch(l) PROVE FrontInv'
  <2> DEFINE k == KeyOf(l)
  <2>1. PICK B \in Batches(k) : batch' = [batch EXCEPT ![l] = B]
    BY <1>3 DEF Fetch
  <2>2. Pending(k) # {} /\ k \in Key /\ UNCHANGED queue
    BY <1>3, KeyOfLease DEF Fetch, dbVars
  <2>3. B # {} /\ B \subseteq Pending(k)
    BY <2>2, BatchIsPending
  <2>4. ASSUME NEW i \in B, NEW j \in Pending(k), j < i PROVE j \in B
    <3>1. CASE Kind[k] = "representation"
      BY <2>4, <3>1 DEF Batches, Prefixes
    <3>2. CASE Kind[k] # "representation"
      <4>1. i = Min(Pending(k)) /\ Pending(k) \in SUBSET Item
        BY <3>2 DEF Batches, Pending
      <4>2. i <= j /\ i \in Nat /\ j \in Nat
        BY <2>2, <4>1, MinOfRows, ConstantsAssumption
      <4>3. QED
        BY <2>4, <4>2
    <3>3. QED
      BY <3>1, <3>2
  <2>5. FinishedInOrder' /\ KnownFromTheFront'
    BY <2>2 DEF FrontInv, FinishedInOrder, KnownFromTheFront
  <2>6. ASSUME NEW i \in B, k \in OrderedKeys, NEW j \in Rows(k), j < i
        PROVE  Struck(j) \/ j \in B
    <3>1. i \in Rows(k) /\ queue[i] # "absent"
      BY <2>3 DEF Pending
    <3>2. queue[j] # "absent"
      BY <2>6, <3>1 DEF FrontInv, KnownFromTheFront
    <3>3. Struck(j) \/ j \in Pending(k)
      BY <3>2 DEF Pending
    <3>4. QED
      BY <2>4, <2>6, <3>3
  <2>7. HeldAtTheFront(l)'
    BY <2>1, <2>2, <2>3, <2>6 DEF HeldAtTheFront, Pending
  <2>8. ASSUME NEW m \in Lease, m # l, task'[m] \in Holding PROVE HeldAtTheFront(m)'
    BY <1>3, <2>1, <2>2, <2>8 DEF Fetch, FrontInv, HeldAtTheFront
  <2>9. QED
    BY <2>5, <2>7, <2>8 DEF FrontInv
<1>4. ASSUME NEW l \in Lease, Handle(l) \/ HandleRaises(l) \/ MarkProcessedRaises(l)
      PROVE  FrontInv'
  <2>1. UNCHANGED <<queue, batch>> /\ \A m \in Lease : task'[m] \in Holding => task[m] \in Holding
    BY <1>4 DEF Handle, HandleRaises, MarkProcessedRaises, dbVars
  <2>2. QED
    BY <2>1 DEF FrontInv, FinishedInOrder, KnownFromTheFront, HeldAtTheFront
<1>5. ASSUME NEW l \in Lease, MarkProcessed(l) PROVE FrontInv'
  <2>1. HeldAtTheFront(l) /\ task[l] \in Holding
    BY <1>5 DEF MarkProcessed, FrontInv
  <2>2. \A i \in Item : /\ queue'[i] = "absent" <=> queue[i] = "absent"
                        /\ Struck(i)' <=> Struck(i) \/ i \in batch[l]
                        /\ Finished(i)' => Finished(i) \/ i \in batch[l]
    BY <1>5, <2>1 DEF MarkProcessed, Marked, HeldAtTheFront
  <2>3. ASSUME NEW k \in OrderedKeys, NEW i \in Rows(k), NEW j \in Rows(k), i < j, Finished(j)'
        PROVE  Struck(i)'
    <3>1. CASE Finished(j)
      BY <2>2, <2>3, <3>1 DEF FrontInv, FinishedInOrder
    <3>2. CASE j \in batch[l]
      BY <2>1, <2>2, <2>3, <3>2 DEF HeldAtTheFront
    <3>3. QED
      BY <2>2, <2>3, <3>1, <3>2
  <2>4. FinishedInOrder' /\ KnownFromTheFront'
    BY <2>2, <2>3 DEF FrontInv, FinishedInOrder, KnownFromTheFront
  <2>5. ASSUME NEW m \in Lease, task'[m] \in Holding PROVE HeldAtTheFront(m)'
    BY <1>5, <2>2, <2>5 DEF MarkProcessed, FrontInv, HeldAtTheFront
  <2>6. QED
    BY <2>4, <2>5 DEF FrontInv
<1>6. ASSUME NEW l \in Lease, MarkErrored(l) PROVE FrontInv'
  <2> DEFINE b == Blamed(l)
  <2>1. HeldAtTheFront(l) /\ b \in batch[l] /\ b \in Item /\ \A i \in batch[l] : b <= i
    BY <1>6, BlamedIsFirst DEF MarkErrored, FrontInv
  <2>2. \A i \in Item : /\ queue'[i] = "absent" <=> queue[i] = "absent"
                        /\ Struck(i)' <=> Struck(i) \/ i = b
                        /\ Finished(i)' => Finished(i) \/ i = b
    BY <1>6, <2>1 DEF MarkErrored, HeldAtTheFront
  <2>3. ASSUME NEW k \in OrderedKeys, NEW i \in Rows(k), NEW j \in Rows(k), i < j, Finished(j)'
        PROVE  Struck(i)'
    <3>1. CASE Finished(j)
      BY <2>2, <2>3, <3>1 DEF FrontInv, FinishedInOrder
    <3>2. CASE j = b
      <4>1. i \notin batch[l]
        BY <2>1, <2>3, <3>2, ConstantsAssumption
      <4>2. KeyOf(l) = k
        BY <1>6, <2>1, <3>2 DEF MarkErrored
      <4>3. QED
        BY <2>1, <2>2, <2>3, <3>2, <4>1, <4>2 DEF HeldAtTheFront
    <3>3. QED
      BY <2>2, <2>3, <3>1, <3>2
  <2>4. FinishedInOrder' /\ KnownFromTheFront'
    BY <2>2, <2>3 DEF FrontInv, FinishedInOrder, KnownFromTheFront
  <2>5. ASSUME NEW m \in Lease, task'[m] \in Holding PROVE HeldAtTheFront(m)'
    BY <1>6, <2>2, <2>5 DEF MarkErrored, FrontInv, HeldAtTheFront
  <2>6. QED
    BY <2>4, <2>5 DEF FrontInv
<1>7. ASSUME NEW l \in Lease, Publish(l) PROVE FrontInv'
  <2>1. \A i \in Item : /\ Struck(i)' <=> Struck(i)
                        /\ Finished(i)' <=> Finished(i)
                        /\ queue[i] # "absent" => queue'[i] # "absent"
                        /\ WorkUnitOf[i] \in OrderedKeys => queue'[i] = queue[i]
    BY <1>7, ConstantsAssumption DEF Publish
  <2>2. FinishedInOrder' /\ KnownFromTheFront'
    BY <2>1 DEF FrontInv, FinishedInOrder, KnownFromTheFront
  <2>3. ASSUME NEW m \in Lease, task'[m] \in Holding PROVE HeldAtTheFront(m)'
    BY <1>7, <2>1, <2>3 DEF Publish, FrontInv, HeldAtTheFront
  <2>4. QED
    BY <2>2, <2>3 DEF FrontInv
<1>8. ASSUME NEW s \in Scopes, DeleteScope(s) PROVE FrontInv'
  <2>1. /\ \A i \in Item : /\ queue'[i] = "absent" <=> queue[i] = "absent"
                           /\ Struck(i) => Struck(i)'
                           /\ Finished(i)' => Finished(i)
        /\ UNCHANGED <<task, batch>>
    BY <1>8 DEF DeleteScope, taskVars
  <2>2. FinishedInOrder' /\ KnownFromTheFront'
    BY <2>1 DEF FrontInv, FinishedInOrder, KnownFromTheFront
  <2>3. ASSUME NEW m \in Lease, task'[m] \in Holding PROVE HeldAtTheFront(m)'
    BY <2>1, <2>3 DEF FrontInv, HeldAtTheFront
  <2>4. QED
    BY <2>2, <2>3 DEF FrontInv
<1>9. QED
  BY <1>1, <1>2, <1>3, <1>4, <1>5, <1>6, <1>7, <1>8, QuietOrRowStep DEF RowStep

\* In a serially fed unit no row is struck off before an earlier one that is still
\* there, whatever crashes, errors, slow handlers, stolen leases and deletions of
\* its session happen on the way.
THEOREM OrderedUnitsFinishInOrder == Spec => []FinishedInOrder
<1>1. Init => FrontInv
  BY DEF Init, FrontInv, FinishedInOrder, KnownFromTheFront, Rows, Holding
<1>2. FrontInv => FinishedInOrder
  BY DEF FrontInv
<1>3. QED
  BY <1>1, <1>2, NextFront, TypeCorrect, PTL DEF Spec
-----------------------------------------------------------------------------
(* The queue is the ledger of WorkLedger. *)

\* What a task holds may be attempted and struck off in the ledger, whole or,
\* when its first row is blamed, by that row alone.
LEMMA HeldIsFromTheFront ==
  ASSUME TypeOK, FrontInv, NEW l \in Lease, task[l] \in Holding
  PROVE  /\ batch[l] \in (SUBSET Item) \ {{}}
         /\ Ledger!SameUnit(batch[l])
         /\ Ledger!FromTheFront(batch[l])
         /\ \A i \in batch[l] : Ledger!Known(i)
         /\ Ledger!FromTheFront({Blamed(l)})
<1>1. /\ batch[l] \in (SUBSET Item) \ {{}}
      /\ \A i \in batch[l] : WorkUnitOf[i] = KeyOf(l)
  BY DEF TypeOK
<1>2. HeldAtTheFront(l)
  BY DEF FrontInv
<1>3. Ledger!SameUnit(batch[l]) /\ \A i \in batch[l] : Ledger!Known(i)
  BY <1>1, <1>2 DEF HeldAtTheFront, Ledger!SameUnit, Ledger!Known
<1>4. ASSUME NEW i \in batch[l], NEW j \in Item,
             WorkUnitOf[i] \in OrderedKeys, WorkUnitOf[j] = WorkUnitOf[i], j < i
      PROVE  Ledger!Struck(j) \/ j \in batch[l]
  BY <1>1, <1>2, <1>4 DEF HeldAtTheFront, Rows, Struck, Ledger!Struck
<1>5. Ledger!FromTheFront(batch[l])
  BY <1>4 DEF Ledger!FromTheFront
<1>6. Blamed(l) \in batch[l] /\ \A j \in batch[l] : ~(j < Blamed(l))
  <2>1. Blamed(l) \in batch[l] /\ \A j \in batch[l] : Blamed(l) <= j
    BY BlamedIsFirst
  <2>2. batch[l] \subseteq Nat
    BY <1>1, ConstantsAssumption
  <2>3. QED
    BY <2>1, <2>2
<1>7. Ledger!FromTheFront({Blamed(l)})
  BY <1>4, <1>6 DEF Ledger!FromTheFront
<1>8. QED
  BY <1>1, <1>3, <1>5, <1>7

LEMMA InitLedger == Init => Ledger!Init
BY DEF Init, Ledger!Init

LEMMA NextLedger == TypeOK /\ AttemptInv /\ FrontInv /\ [Next]_vars => [Ledger!Next]_(Ledger!vars)
<1> SUFFICES ASSUME TypeOK, AttemptInv, FrontInv, [Next]_vars
             PROVE  Ledger!Next \/ UNCHANGED Ledger!vars
  OBVIOUS
<1> USE DEF Holding, history, Goto, Ledger!Next
<1>1. CASE Quiet
  BY <1>1 DEF Quiet, Ledger!vars
<1>2. ASSUME NEW i \in Item, Enqueue(i) PROVE Ledger!Next
  BY <1>2 DEF Enqueue, Ledger!Submit
<1>3. ASSUME NEW l \in Lease, Fetch(l) PROVE UNCHANGED Ledger!vars
  BY <1>3 DEF Fetch, dbVars, Ledger!vars
<1>4. ASSUME NEW l \in Lease, Handle(l) PROVE Ledger!Next
  <2>1. Ledger!Return(batch[l])
    BY <1>4, HeldIsFromTheFront DEF Handle, dbVars, Ledger!Return
  <2>2. QED
    BY <1>4, <2>1, HeldIsFromTheFront DEF Handle
<1>5. ASSUME NEW l \in Lease, HandleRaises(l) \/ MarkProcessedRaises(l) PROVE Ledger!Next
  <2>1. task[l] \in Holding
    BY <1>5 DEF HandleRaises, MarkProcessedRaises
  <2>2. Ledger!Raise(Blamed(l))
    BY <1>5, <2>1, HeldIsFromTheFront, BlamedIsFirst
       DEF HandleRaises, MarkProcessedRaises, dbVars, Ledger!Raise
  <2>3. QED
    BY <2>1, <2>2, BlamedIsFirst
<1>6. ASSUME NEW l \in Lease, MarkProcessed(l) PROVE Ledger!Next
  <2>1. task[l] = "marking" /\ batch[l] \subseteq handled
    BY <1>6 DEF MarkProcessed, AttemptInv
  <2>2. Ledger!Settle(batch[l])
    BY <1>6, <2>1, HeldIsFromTheFront DEF MarkProcessed, Marked, Ledger!Settle
  <2>3. QED
    BY <2>1, <2>2, HeldIsFromTheFront
<1>7. ASSUME NEW l \in Lease, MarkErrored(l) PROVE Ledger!Next
  <2>1. task[l] = "failing" /\ Blamed(l) \in failed
    BY <1>7 DEF MarkErrored, AttemptInv
  <2>2. Ledger!Reject(Blamed(l))
    BY <1>7, <2>1, HeldIsFromTheFront DEF MarkErrored, Ledger!Reject
  <2>3. QED
    BY <2>1, <2>2, BlamedIsFirst
<1>8. ASSUME NEW l \in Lease, Publish(l) PROVE Ledger!Next \/ UNCHANGED Ledger!vars
  <2>1. CASE UNCHANGED queue
    BY <1>8, <2>1 DEF Publish, Ledger!vars
  <2>2. CASE \E e \in EventItem : queue[e] = "absent" /\ queue' = [queue EXCEPT ![e] = "pending"]
    BY <1>8, <2>2, ConstantsAssumption DEF Publish, Ledger!Submit
  <2>3. QED
    BY <1>8, <2>1, <2>2 DEF Publish
<1>9. ASSUME NEW s \in Scopes, DeleteScope(s) PROVE Ledger!Next
  <2>1. Ledger!Withdraw(s.rows)
    BY <1>9 DEF DeleteScope, Ledger!Withdraw, Ledger!Known
  <2>2. QED
    BY <2>1
<1>10. QED
  BY <1>1, <1>2, <1>3, <1>4, <1>5, <1>6, <1>7, <1>8, <1>9, QuietOrRowStep DEF RowStep

\* Processes, leases and tasks implement the at-least-once ledger: every step of
\* the deriver is a step of WorkLedger or leaves the ledger alone.
THEOREM QueueIsALedger == Spec => ImplementsLedger
<1>1. Init => AttemptInv /\ FrontInv
  BY DEF Init, AttemptInv, NoRowLost, FrontInv, FinishedInOrder, KnownFromTheFront, Rows, Holding
<1>2. Spec => [](AttemptInv /\ FrontInv)
  BY <1>1, NextAttempt, NextFront, TypeCorrect, PTL DEF Spec
<1>3. QED
  BY <1>2, InitLedger, NextLedger, TypeCorrect, PTL DEF Spec, ImplementsLedger, Ledger!Spec
-----------------------------------------------------------------------------
(* Leases are known to the process that took them. *)

\* Lease ids are handed out in order, so an INSERT takes one no task ever had;
\* and what a process tracks are leases it took itself and has started.
LeaseInv ==
  /\ \A l \in Lease : task[l] # "none" => l[2] <= issued[KeyOf(l)]
  /\ \A p \in Process : \A l \in worker_ownership[p] :
       home[l] = p /\ task[l] \notin {"none", "claimed"}

\* Steps that hand out no id and start no task.
NoLeaseStep ==
  /\ UNCHANGED <<issued, home>>
  /\ \A p \in Process : worker_ownership'[p] \subseteq worker_ownership[p]
  /\ \A l \in Lease : \/ task'[l] = task[l]
                      \/ task[l] # "none" /\ task'[l] \notin {"none", "claimed"}

LEMMA LeaseStep ==
  TypeOK /\ [Next]_vars => NoLeaseStep \/ \E p \in Process : PollClaim(p) \/ PollTrack(p)
<1> SUFFICES ASSUME TypeOK, [Next]_vars
             PROVE  NoLeaseStep \/ \E p \in Process : PollClaim(p) \/ PollTrack(p)
  OBVIOUS
<1> USE DEF NoLeaseStep, TypeOK, TaskState, taskVars, dbVars, Goto
<1>1. ASSUME NEW p \in Process, PollBegin(p) \/ PollSelect(p) \/ Start(p) \/ Shutdown(p)
      PROVE  NoLeaseStep
  BY <1>1 DEF PollBegin, PollSelect, Start, Shutdown
<1>2. ASSUME NEW p \in Process, Cleanup(p) \/ PollError(p) PROVE NoLeaseStep
  BY <1>2 DEF Cleanup, PollError, ClaimedBy
<1>3. ASSUME NEW p \in Process, Exit(p) \/ Crash(p) PROVE NoLeaseStep
  BY <1>3 DEF Exit, Crash, Stop
<1>4. ASSUME NEW l \in Lease, Acquire(l) \/ Leave(l) \/ Fetch(l) \/ Handle(l) \/ HandleRaises(l)
      PROVE  NoLeaseStep
  BY <1>4 DEF Acquire, Leave, Fetch, Handle, HandleRaises
<1>5. ASSUME NEW l \in Lease, \/ MarkProcessed(l) \/ MarkErrored(l) \/ MarkProcessedRaises(l)
                              \/ MarkErroredRaises(l) \/ Publish(l)
      PROVE  NoLeaseStep
  BY <1>5 DEF MarkProcessed, MarkErrored, MarkProcessedRaises, MarkErroredRaises, Publish
<1>6. ASSUME NEW l \in Lease, Close(l) \/ CloseRaises(l) \/ Expire(l) PROVE NoLeaseStep
  BY <1>6 DEF Close, CloseRaises, Expire
<1>7. ASSUME NEW i \in Item, Enqueue(i) PROVE NoLeaseStep
  BY <1>7 DEF Enqueue
<1>8. ASSUME NEW s \in Scopes, DeleteScope(s) PROVE NoLeaseStep
  BY <1>8 DEF DeleteScope
<1>9. CASE UNCHANGED vars
  BY <1>9 DEF vars
<1>10. QED
  BY <1>1, <1>2, <1>3, <1>4, <1>5, <1>6, <1>7, <1>8, <1>9
     DEF Next, PollStep, TaskStep, FaultStep

LEMMA NextLeases == TypeOK /\ LeaseInv /\ [Next]_vars => LeaseInv'
<1> SUFFICES ASSUME TypeOK, LeaseInv, [Next]_vars PROVE LeaseInv'
  OBVIOUS
<1>1. CASE NoLeaseStep
  BY <1>1 DEF NoLeaseStep, LeaseInv, TypeOK
<1>2. ASSUME NEW p \in Process, PollClaim(p) PROVE LeaseInv'
  <2> DEFINE new == {NextLease(k) : k \in Inserted(p)}
  <2>1. ASSUME NEW l \in new PROVE task[l] = "none" /\ l \in Lease /\ l[2] <= issued'[KeyOf(l)]
    <3>1. PICK k \in Inserted(p) : l = NextLease(k)
      OBVIOUS
    <3>2. k \in Key /\ l \in Lease /\ KeyOf(l) = k /\ l[2] = issued[k] + 1 /\ issued[k] \in Nat
      BY <3>1, NextLeaseType DEF NextLease, TypeOK
    <3>3. ~(l[2] <= issued[KeyOf(l)])
      BY <3>2
    <3>4. issued'[k] = issued[k] + 1
      BY <1>2, <3>2 DEF PollClaim
    <3>5. QED
      BY <3>2, <3>3, <3>4 DEF LeaseInv
  <2>2. \A k \in Key : issued[k] \in Nat /\ issued'[k] >= issued[k]
    BY <1>2 DEF PollClaim, TypeOK
  <2>3. ASSUME NEW l \in Lease, task'[l] # "none" PROVE l[2] <= issued'[KeyOf(l)]
    <3>1. CASE l \in new
      BY <2>1, <3>1
    <3>2. CASE l \notin new
      <4>1. l[2] <= issued[KeyOf(l)] /\ l[2] \in Nat /\ KeyOf(l) \in Key
        BY <1>2, <2>3, <3>2, KeyOfLease DEF PollClaim, LeaseInv, Lease
      <4>2. issued[KeyOf(l)] \in Nat /\ issued'[KeyOf(l)] \in Nat
        BY <1>2, <4>1 DEF PollClaim, TypeOK
      <4>3. QED
        BY <2>2, <4>1, <4>2
    <3>3. QED
      BY <3>1, <3>2
  <2>4. ASSUME NEW q \in Process, NEW l \in worker_ownership[q]
        PROVE  home'[l] = q /\ task'[l] \notin {"none", "claimed"}
    <3>1. l \in Lease /\ l \notin new
      BY <2>1 DEF LeaseInv, TypeOK
    <3>2. QED
      BY <1>2, <3>1 DEF PollClaim, LeaseInv
  <2>5. QED
    BY <1>2, <2>3, <2>4 DEF PollClaim, LeaseInv
<1>3. ASSUME NEW p \in Process, PollTrack(p) PROVE LeaseInv'
  <2>1. \A l \in Lease : task'[l] # "none" => task[l] # "none"
    BY <1>3 DEF PollTrack, ClaimedBy
  <2>2. UNCHANGED <<issued, home>>
    BY <1>3 DEF PollTrack, dbVars
  <2>3. ASSUME NEW q \in Process, NEW l \in worker_ownership'[q]
        PROVE  home'[l] = q /\ task'[l] \notin {"none", "claimed"}
    <3>1. l \in worker_ownership[q] \/ (q = p /\ l \in ClaimedBy(p) /\ ~shutdown_event[p])
      BY <1>3 DEF PollTrack, TypeOK
    <3>2. CASE l \in worker_ownership[q]
      BY <1>3, <2>2, <3>2 DEF PollTrack, LeaseInv, TypeOK
    <3>3. CASE q = p /\ l \in ClaimedBy(p) /\ ~shutdown_event[p]
      BY <1>3, <2>2, <3>3 DEF PollTrack, ClaimedBy
    <3>4. QED
      BY <3>1, <3>2, <3>3
  <2>4. QED
    BY <2>1, <2>2, <2>3 DEF LeaseInv
<1>4. QED
  BY <1>1, <1>2, <1>3, LeaseStep

LEMMA LeasesAreKnown == Spec => []LeaseInv
<1>1. Init => LeaseInv
  BY DEF Init, LeaseInv
<1>2. QED
  BY <1>1, NextLeases, TypeCorrect, PTL DEF Spec

\* A row of active_queue_sessions disappears because it was stale, because the
\* process that took it gives it up, or in the deletion of the session or workspace
\* its key names: a task that lost its unit never deletes the lease of the task
\* that has it now, whatever cleanup and deletions do while tasks still run.
THEOREM LeasesEndAtHome == Spec => OnlyOwnersRelease
<1> DEFINE Accounted(l) ==
      \/ l \in stale
      \/ l \in worker_ownership[home[l]] \ worker_ownership'[home[l]]
      \/ deletions' # deletions /\ \E s \in Scopes : KeyOf(l) \in s.units
<1>1. ASSUME TypeOK, LeaseInv, [Next]_vars, NEW l \in aqs \ aqs'
      PROVE  Accounted(l)
  <2>1. ASSUME NEW p \in Process, PollBegin(p) PROVE Accounted(l)
    BY <1>1, <2>1 DEF PollBegin, Sweep
  <2>2. ASSUME NEW p \in Process, Cleanup(p) PROVE Accounted(l)
    BY <1>1, <2>2 DEF Cleanup, LeaseInv, TypeOK
  <2>3. ASSUME NEW m \in Lease, Close(m) PROVE Accounted(l)
    BY <1>1, <2>3 DEF Close, Owns, Released, TypeOK
  <2>4. ASSUME NEW s \in Scopes, DeleteScope(s) PROVE Accounted(l)
    <3>1. deletions \in Nat /\ deletions' = deletions + 1 /\ KeyOf(l) \in s.units
      BY <1>1, <2>4, ConstantsAssumption DEF DeleteScope, TypeOK
    <3>2. QED
      BY <3>1
  <2>5. QED
    BY <1>1, <2>1, <2>2, <2>3, <2>4
       DEF Next, PollStep, TaskStep, FaultStep, vars, dbVars, Enqueue, PollClaim, PollSelect,
           PollTrack, Exit, Start, PollError, Shutdown, Crash, Stop, Acquire, Leave, Fetch,
           Handle, HandleRaises, MarkProcessed, MarkErrored, Publish, Expire,
           MarkProcessedRaises, MarkErroredRaises, CloseRaises
<1>2. TypeOK /\ LeaseInv /\ [Next]_vars => [\A l \in aqs \ aqs' : Accounted(l)]_vars
  BY <1>1
<1>3. QED
  BY <1>2, LeasesAreKnown, TypeCorrect, PTL DEF Spec, OnlyOwnersRelease
-----------------------------------------------------------------------------
(* No process is overbooked. *)

\* Only units with pending rows can be claimed, and there are finitely many rows.
LEMMA ClaimableIsFinite ==
  ASSUME NEW S \in SUBSET {k \in Key : Claimable(k)}
  PROVE  IsFiniteSet(S)
<1> DEFINE Q == {i \in Item : WorkUnitOf[i] \in S}
           f == [i \in Q |-> WorkUnitOf[i]]
<1>1. IsFiniteSet(Q)
  BY ConstantsAssumption, FS_Subset
<1>2. \A k \in S : \E i \in Q : f[i] = k
  BY DEF Claimable, Pending, Rows
<1>3. f \in Surjection(Q, S)
  BY <1>2 DEF Surjection
<1>4. QED
  BY <1>1, <1>3, FS_Surjection

\* An INSERT creates at most as many leases as the SELECT returned units.
LEMMA LeasesPerUnit ==
  ASSUME NEW K, IsFiniteSet(K), NEW L \in SUBSET K
  PROVE  LET new == {NextLease(k) : k \in L}
         IN  IsFiniteSet(new) /\ Cardinality(new) <= Cardinality(K)
<1> DEFINE new == {NextLease(k) : k \in L}
           f == [k \in L |-> NextLease(k)]
<1>1. IsFiniteSet(L) /\ Cardinality(L) <= Cardinality(K)
  BY FS_Subset
<1>2. f \in Surjection(L, new)
  BY DEF Surjection
<1>3. IsFiniteSet(new) /\ Cardinality(new) <= Cardinality(L)
  BY <1>1, <1>2, FS_Surjection
<1>4. Cardinality(new) \in Nat /\ Cardinality(L) \in Nat /\ Cardinality(K) \in Nat
  BY <1>1, <1>3, FS_CardinalityType
<1>5. QED
  BY <1>1, <1>3, <1>4

LEMMA UnionBound ==
  ASSUME NEW S, NEW T, IsFiniteSet(S), IsFiniteSet(T)
  PROVE  /\ IsFiniteSet(S \union T)
         /\ Cardinality(S) \in Nat /\ Cardinality(T) \in Nat
         /\ Cardinality(S \union T) <= Cardinality(S) + Cardinality(T)
<1>1. /\ IsFiniteSet(S \union T)
      /\ Cardinality(S \union T) = Cardinality(S) + Cardinality(T) - Cardinality(S \cap T)
  BY FS_Union
<1>2. IsFiniteSet(S \cap T)
  BY FS_Intersection
<1>3. Cardinality(S) \in Nat /\ Cardinality(T) \in Nat /\ Cardinality(S \cap T) \in Nat
  BY <1>2, FS_CardinalityType
<1>4. QED
  BY <1>1, <1>3

\* WithinCapacity made inductive.  Between its claim and its tracking a process
\* is the only one to touch the leases it claimed, and the room its SELECT
\* counted on can only grow meanwhile: nothing but tracking adds to what it owns.
Booked(p) == worker_ownership[p] \union ClaimedBy(p)

CapacityInv ==
  \A p \in Process :
    /\ poll[p] # "track" => ClaimedBy(p) = {}
    /\ poll[p] = "claim" =>
         /\ IsFiniteSet(available_units[p])
         /\ Cardinality(worker_ownership[p]) + Cardinality(available_units[p]) <= Workers
    /\ IsFiniteSet(Booked(p))
    /\ Cardinality(Booked(p)) <= Workers

LEMMA CapacitySuffices == CapacityInv => WithinCapacity
BY DEF CapacityInv, WithinCapacity, Booked

\* A step that books nothing for p and leaves its polling loop alone.
LEMMA Unbooked ==
  ASSUME CapacityInv, NEW p \in Process,
         worker_ownership'[p] \subseteq worker_ownership[p],
         ClaimedBy(p)' \subseteq ClaimedBy(p),
         poll'[p] # "track" => poll[p] # "track" \/ ClaimedBy(p)' = {},
         poll'[p] = "claim" => poll[p] = "claim" /\ available_units'[p] = available_units[p]
  PROVE  /\ poll'[p] # "track" => ClaimedBy(p)' = {}
         /\ poll'[p] = "claim" =>
              /\ IsFiniteSet(available_units'[p])
              /\ Cardinality(worker_ownership'[p]) + Cardinality(available_units'[p]) <= Workers
         /\ IsFiniteSet(Booked(p)')
         /\ Cardinality(Booked(p)') <= Workers
<1>1. Booked(p)' \subseteq Booked(p) /\ IsFiniteSet(Booked(p)) /\ Cardinality(Booked(p)) <= Workers
  BY DEF Booked, CapacityInv
<1>2. /\ IsFiniteSet(Booked(p)') /\ Cardinality(Booked(p)') <= Cardinality(Booked(p))
      /\ Cardinality(Booked(p)') \in Nat /\ Cardinality(Booked(p)) \in Nat
  <2>1. IsFiniteSet(Booked(p)') /\ Cardinality(Booked(p)') <= Cardinality(Booked(p))
    BY <1>1, FS_Subset
  <2>2. QED
    BY <1>1, <2>1, FS_CardinalityType
<1>3. IsFiniteSet(worker_ownership[p])
  BY <1>1, FS_Subset DEF Booked
<1>4. /\ IsFiniteSet(worker_ownership'[p])
      /\ Cardinality(worker_ownership'[p]) <= Cardinality(worker_ownership[p])
  BY <1>3, FS_Subset
<1>5. Cardinality(worker_ownership'[p]) \in Nat /\ Cardinality(worker_ownership[p]) \in Nat
  BY <1>3, <1>4, FS_CardinalityType
<1>6. ASSUME poll'[p] = "claim"
      PROVE  /\ IsFiniteSet(available_units'[p])
             /\ Cardinality(worker_ownership'[p]) + Cardinality(available_units'[p]) <= Workers
  <2>1. /\ IsFiniteSet(available_units[p]) /\ available_units'[p] = available_units[p]
        /\ Cardinality(worker_ownership[p]) + Cardinality(available_units[p]) <= Workers
    BY <1>6 DEF CapacityInv
  <2>2. Cardinality(available_units[p]) \in Nat /\ Workers \in Nat
    BY <2>1, FS_CardinalityType, ConstantsAssumption
  <2>3. QED
    BY <1>4, <1>5, <2>1, <2>2
<1>7. poll'[p] # "track" => ClaimedBy(p)' = {}
  BY DEF CapacityInv
<1>8. QED
  BY <1>1, <1>2, <1>6, <1>7, ConstantsAssumption

Bookings == \E p \in Process : PollSelect(p) \/ PollClaim(p) \/ PollTrack(p)

\* Every other step books nothing, for any process.
LEMMA BookingSteps ==
  ASSUME TypeOK, CapacityInv, [Next]_vars, ~Bookings, NEW q \in Process
  PROVE  /\ worker_ownership'[q] \subseteq worker_ownership[q]
         /\ ClaimedBy(q)' \subseteq ClaimedBy(q)
         /\ poll'[q] # "track" => poll[q] # "track" \/ ClaimedBy(q)' = {}
         /\ poll'[q] = "claim" => poll[q] = "claim" /\ available_units'[q] = available_units[q]
<1> DEFINE Goal == /\ worker_ownership'[q] \subseteq worker_ownership[q]
                   /\ ClaimedBy(q)' \subseteq ClaimedBy(q)
                   /\ poll'[q] # "track" => poll[q] # "track" \/ ClaimedBy(q)' = {}
                   /\ poll'[q] = "claim" => /\ poll[q] = "claim"
                                            /\ available_units'[q] = available_units[q]
<1> USE DEF ClaimedBy, TypeOK, taskVars, dbVars, pollVars, Goto
<1>1. ASSUME NEW p \in Process, PollBegin(p) \/ Start(p) \/ Shutdown(p) \/ Cleanup(p)
      PROVE  Goal
  BY <1>1 DEF PollBegin, Start, Shutdown, Cleanup
<1>2. ASSUME NEW p \in Process, PollError(p) PROVE Goal
  BY <1>2 DEF PollError
<1>3. ASSUME NEW p \in Process, Exit(p) \/ Crash(p) PROVE Goal
  BY <1>3 DEF Exit, Crash, Stop
<1>4. ASSUME NEW l \in Lease, Acquire(l) \/ Leave(l) \/ Fetch(l) \/ Handle(l) \/ HandleRaises(l)
      PROVE  Goal
  BY <1>4 DEF Acquire, Leave, Fetch, Handle, HandleRaises
<1>5. ASSUME NEW l \in Lease, \/ MarkProcessed(l) \/ MarkErrored(l) \/ MarkProcessedRaises(l)
                              \/ MarkErroredRaises(l) \/ Publish(l)
      PROVE  Goal
  BY <1>5 DEF MarkProcessed, MarkErrored, MarkProcessedRaises, MarkErroredRaises, Publish
<1>6. ASSUME NEW l \in Lease, Close(l) \/ CloseRaises(l) \/ Expire(l) PROVE Goal
  BY <1>6 DEF Close, CloseRaises, Expire
<1>7. ASSUME NEW i \in Item, Enqueue(i) PROVE Goal
  BY <1>7 DEF Enqueue
<1>8. ASSUME NEW s \in Scopes, DeleteScope(s) PROVE Goal
  BY <1>8 DEF DeleteScope
<1>9. CASE UNCHANGED vars
  BY <1>9 DEF vars
<1>10. QED
  BY <1>1, <1>2, <1>3, <1>4, <1>5, <1>6, <1>7, <1>8, <1>9
     DEF Next, PollStep, TaskStep, FaultStep, Bookings

LEMMA NextCapacity == TypeOK /\ LeaseInv /\ CapacityInv /\ [Next]_vars => CapacityInv'
<1> SUFFICES ASSUME TypeOK, LeaseInv, CapacityInv, [Next]_vars PROVE CapacityInv'
  OBVIOUS
<1>1. CASE ~Bookings
  BY <1>1, BookingSteps, Unbooked DEF CapacityInv
<1>2. ASSUME NEW p \in Process, PollSelect(p) PROVE CapacityInv'
  <2>1. UNCHANGED <<worker_ownership, home, task>> /\ poll[p] = "select"
    BY <1>2 DEF PollSelect, taskVars
  <2>2. \A q \in Process : ClaimedBy(q)' = ClaimedBy(q) /\ Booked(q)' = Booked(q)
    BY <2>1 DEF ClaimedBy, Booked
  <2>3. PICK S \in SUBSET {k \in Key : Claimable(k) /\ ~IsLeased(k) /\ issued[k] < MaxLeases} :
          /\ Cardinality(S) <= Limit(p)
          /\ available_units' = [available_units EXCEPT ![p] = S]
          /\ poll' = [poll EXCEPT ![p] = IF S = {} THEN "top" ELSE "claim"]
    BY <1>2 DEF PollSelect
  <2>4. IsFiniteSet(S) /\ Cardinality(S) \in Nat
    <3>1. IsFiniteSet(S)
      BY ClaimableIsFinite
    <3>2. QED
      BY <3>1, FS_CardinalityType
  <2>5. /\ IsFiniteSet(worker_ownership[p]) /\ IsFiniteSet(Booked(p))
        /\ Cardinality(worker_ownership[p]) <= Cardinality(Booked(p))
    <3>1. IsFiniteSet(Booked(p)) /\ worker_ownership[p] \in SUBSET Booked(p)
      BY DEF CapacityInv, Booked
    <3>2. QED
      BY <3>1, FS_Subset
  <2>6. Cardinality(worker_ownership[p]) \in Nat /\ Cardinality(Booked(p)) \in Nat
    BY <2>5, FS_CardinalityType
  <2>7. Cardinality(worker_ownership[p]) + Cardinality(S) <= Workers
    BY <2>3, <2>4, <2>5, <2>6, ConstantsAssumption DEF Limit, CapacityInv
  <2>8. QED
    BY <2>1, <2>2, <2>3, <2>4, <2>7 DEF CapacityInv, TypeOK
<1>3. ASSUME NEW p \in Process, PollClaim(p) PROVE CapacityInv'
  <2> DEFINE new == {NextLease(k) : k \in Inserted(p)}
  <2>1. /\ poll[p] = "claim"
        /\ task' = [l \in Lease |-> IF l \in new THEN "claimed" ELSE task[l]]
        /\ home' = [l \in Lease |-> IF l \in new THEN p ELSE home[l]]
        /\ available_units' = [available_units EXCEPT ![p] = {}]
        /\ poll' = [poll EXCEPT ![p] = IF new = {} THEN "top" ELSE "track"]
        /\ UNCHANGED worker_ownership
    BY <1>3 DEF PollClaim
  <2>2. ClaimedBy(p) = {} /\ new \subseteq Lease
    BY <2>1, NextLeaseType DEF CapacityInv
  <2>3. ClaimedBy(p)' = new
    BY <2>1, <2>2 DEF ClaimedBy
  <2>4. IsFiniteSet(new) /\ Cardinality(new) <= Cardinality(available_units[p])
    <3>1. Inserted(p) \in SUBSET available_units[p] /\ IsFiniteSet(available_units[p])
      BY <2>1 DEF Inserted, CapacityInv
    <3>2. QED
      BY <3>1, LeasesPerUnit
  <2>5. IsFiniteSet(worker_ownership[p])
    <3>1. IsFiniteSet(Booked(p)) /\ worker_ownership[p] \in SUBSET Booked(p)
      BY DEF CapacityInv, Booked
    <3>2. QED
      BY <3>1, FS_Subset
  <2>6. /\ IsFiniteSet(Booked(p)')
        /\ Cardinality(Booked(p)') <= Cardinality(worker_ownership[p]) + Cardinality(new)
        /\ Cardinality(worker_ownership[p]) \in Nat /\ Cardinality(new) \in Nat
    BY <2>1, <2>3, <2>4, <2>5, UnionBound DEF Booked
  <2>7. Cardinality(Booked(p)') <= Workers
    <3>1. /\ Cardinality(worker_ownership[p]) + Cardinality(available_units[p]) <= Workers
          /\ IsFiniteSet(available_units[p])
      BY <2>1 DEF CapacityInv
    <3>2. Cardinality(Booked(p)') \in Nat /\ Cardinality(available_units[p]) \in Nat
      BY <2>6, <3>1, FS_CardinalityType
    <3>3. QED
      BY <2>4, <2>6, <3>1, <3>2, ConstantsAssumption
  <2>8. ASSUME NEW q \in Process, q # p
        PROVE  /\ ClaimedBy(q)' \subseteq ClaimedBy(q)
               /\ UNCHANGED <<worker_ownership[q], available_units[q], poll[q]>>
    BY <2>1, <2>8 DEF ClaimedBy, TypeOK
  <2>9. ASSUME NEW q \in Process, q # p
        PROVE  /\ poll'[q] # "track" => ClaimedBy(q)' = {}
               /\ poll'[q] = "claim" =>
                    /\ IsFiniteSet(available_units'[q])
                    /\ Cardinality(worker_ownership'[q]) + Cardinality(available_units'[q]) <= Workers
               /\ IsFiniteSet(Booked(q)')
               /\ Cardinality(Booked(q)') <= Workers
    BY <2>8, <2>9, Unbooked
  <2>10. poll'[p] # "claim" /\ (poll'[p] # "track" => ClaimedBy(p)' = {})
    BY <2>1, <2>3 DEF TypeOK
  <2>11. QED
    BY <2>6, <2>7, <2>9, <2>10 DEF CapacityInv
<1>4. ASSUME NEW p \in Process, PollTrack(p) PROVE CapacityInv'
  <2>1. /\ poll[p] = "track" /\ poll' = [poll EXCEPT ![p] = "top"]
        /\ UNCHANGED <<home, available_units>>
        /\ \A l \in Lease : task'[l] = "claimed" <=> task[l] = "claimed" /\ l \notin ClaimedBy(p)
        /\ worker_ownership' = [worker_ownership EXCEPT ![p] = @ \union ClaimedBy(p)]
           \/ UNCHANGED worker_ownership
    BY <1>4 DEF PollTrack
  <2>2. ClaimedBy(p)' = {}
    BY <2>1 DEF ClaimedBy
  <2>3. Booked(p)' \subseteq Booked(p)
    BY <2>1, <2>2 DEF Booked, TypeOK
  <2>4. IsFiniteSet(Booked(p)') /\ Cardinality(Booked(p)') <= Workers
    <3>1. IsFiniteSet(Booked(p)) /\ Cardinality(Booked(p)) <= Workers
      BY DEF CapacityInv
    <3>2. IsFiniteSet(Booked(p)') /\ Cardinality(Booked(p)') <= Cardinality(Booked(p))
      BY <2>3, <3>1, FS_Subset
    <3>3. Cardinality(Booked(p)') \in Nat /\ Cardinality(Booked(p)) \in Nat
      BY <3>1, <3>2, FS_CardinalityType
    <3>4. QED
      BY <3>1, <3>2, <3>3, ConstantsAssumption
  <2>5. ASSUME NEW q \in Process, q # p
        PROVE  /\ ClaimedBy(q)' \subseteq ClaimedBy(q)
               /\ UNCHANGED <<worker_ownership[q], available_units[q], poll[q]>>
    BY <2>1, <2>5 DEF ClaimedBy, TypeOK
  <2>6. ASSUME NEW q \in Process, q # p
        PROVE  /\ poll'[q] # "track" => ClaimedBy(q)' = {}
               /\ poll'[q] = "claim" =>
                    /\ IsFiniteSet(available_units'[q])
                    /\ Cardinality(worker_ownership'[q]) + Cardinality(available_units'[q]) <= Workers
               /\ IsFiniteSet(Booked(q)')
               /\ Cardinality(Booked(q)') <= Workers
    BY <2>5, <2>6, Unbooked
  <2>7. poll'[p] = "top"
    BY <2>1 DEF TypeOK
  <2>8. QED
    BY <2>2, <2>4, <2>6, <2>7 DEF CapacityInv
<1>5. QED
  BY <1>1, <1>2, <1>3, <1>4 DEF Bookings

\* A polling loop computes its room one await before it claims and two before it
\* tracks, while its own tasks untrack themselves: it still never holds more
\* leases than it has workers.
THEOREM CapacityIsKept == Spec => []WithinCapacity
<1>1. Init => CapacityInv
  <2>1. IsFiniteSet({}) /\ Cardinality({}) = 0
    BY FS_EmptySet
  <2>2. Init => \A p \in Process : Booked(p) = {} /\ ClaimedBy(p) = {} /\ poll[p] = "top"
    BY DEF Init, ClaimedBy, Booked
  <2>3. 0 <= Workers
    BY ConstantsAssumption
  <2>4. QED
    BY <2>1, <2>2, <2>3 DEF CapacityInv
<1>2. QED
  BY <1>1, NextCapacity, CapacitySuffices, LeasesAreKnown, TypeCorrect, PTL DEF Spec
=============================================================================
