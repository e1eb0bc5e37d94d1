---------------------- MODULE AnnouncerExecutorProofs ----------------------
(***************************************************************************)
(* Proofs about AnnouncerExecutor, for any finite set of task slots, any   *)
(* set of torrents and any number of permits.                              *)
(*                                                                         *)
(* TypeOK alone is not inductive: that a release keeps permits within its  *)
(* bound needs PermitsConserved, and PermitsConserved needs the types.     *)
(* The two are proved together as IInv.                                    *)
(***************************************************************************)
EXTENDS AnnouncerExecutor, FiniteSetTheorems, TLAPS

\* The inductive invariant.
IInv == TypeOK /\ PermitsConserved

-----------------------------------------------------------------------------
\* Sets of task slots are finite, so their cardinalities are numbers.
LEMMA TasksFinite ==
    ASSUME NEW S \in SUBSET Task
    PROVE  /\ IsFiniteSet(S)
           /\ Cardinality(S) \in Nat
<1>1. IsFiniteSet(S)
  BY ExecutorAssumption, FS_Subset
<1> QED
  BY <1>1, FS_CardinalityType

\* The books balance: a permit count in Nat that, with the holders, makes up
\* the semaphore's size is also within the semaphore's size.
LEMMA BalanceBounds ==
    ASSUME NEW S \in SUBSET Task, NEW p \in Nat,
           p + Cardinality(S) = MaxConcurrentAnnounces
    PROVE  p \in 0..MaxConcurrentAnnounces
BY TasksFinite, ExecutorAssumption

\* Aborting a set of tasks (Submit, Deny, DenyAll) releases exactly the permits
\* of those that were talking to a tracker.
LEMMA AbortKeepsBalance ==
    ASSUME IInv, NEW S \in SUBSET Task, Abort(S)
    PROVE  /\ phase' \in [Task -> Phase]
           /\ permits' \in Nat
           /\ PermitsConserved'
<1> DEFINE hit == {t \in S : phase[t] \in {"waiting", "announcing"}}
<1>1. /\ phase' = [t \in Task |-> IF t \in hit THEN "ended" ELSE phase[t]]
      /\ permits' = permits + Cardinality(hit \cap Holders)
  BY DEF Abort
<1>2. phase' \in [Task -> Phase]
  BY <1>1 DEF IInv, TypeOK, Phase
<1>3. Holders' = Holders \ hit
  BY <1>1 DEF Holders, IInv, TypeOK
<1>4. /\ IsFiniteSet(Holders)
      /\ Cardinality(Holders) \in Nat
  BY TasksFinite DEF Holders
<1>5. Cardinality(Holders \ hit)
        = Cardinality(Holders) - Cardinality(Holders \cap hit)
  BY <1>4, FS_Difference
<1>6. hit \cap Holders = Holders \cap hit
  OBVIOUS
<1>7. /\ IsFiniteSet(Holders \cap hit)
      /\ Cardinality(Holders \cap hit) <= Cardinality(Holders)
  BY <1>4, FS_Intersection
<1>8. Cardinality(Holders \cap hit) \in Nat
  BY <1>7, FS_CardinalityType
<1>9. /\ permits \in Nat
      /\ permits + Cardinality(Holders) = MaxConcurrentAnnounces
  BY ExecutorAssumption DEF IInv, TypeOK, PermitsConserved
<1>10. permits' \in Nat
  BY <1>1, <1>6, <1>8, <1>9
<1>11. permits' + Cardinality(Holders') = MaxConcurrentAnnounces
  BY <1>1, <1>3, <1>4, <1>5, <1>6, <1>8, <1>9
<1> QED
  BY <1>2, <1>10, <1>11 DEF PermitsConserved

-----------------------------------------------------------------------------
LEMMA InitIInv == Init => IInv
<1> SUFFICES ASSUME Init PROVE IInv
  OBVIOUS
<1>1. TypeOK
  BY ExecutorAssumption DEF Init, TypeOK, Phase
<1>2. Holders = {}
  BY DEF Init, Holders
<1>3. PermitsConserved
  BY <1>2, FS_EmptySet, ExecutorAssumption DEF PermitsConserved, Init
<1> QED
  BY <1>1, <1>3 DEF IInv

\* Every action keeps the types and the balance.
LEMMA NextIInv == IInv /\ [Next]_vars => IInv'
<1> SUFFICES ASSUME IInv, [Next]_vars PROVE IInv'
  OBVIOUS
<1> USE ExecutorAssumption
<1>0. /\ TypeOK
      /\ permits + Cardinality(Holders) = MaxConcurrentAnnounces
      /\ IsFiniteSet(Holders)
      /\ Cardinality(Holders) \in Nat
  BY TasksFinite DEF IInv, PermitsConserved, Holders
<1>11. Holders' \in SUBSET Task
  BY DEF Holders
<1>1. ASSUME NEW t \in Task, NEW h \in Torrent, Spawn(t, h) PROVE IInv'
  <2>1. phase[t] = "ended" /\ t \notin Holders
    BY <1>1, <1>0 DEF Spawn, Free, Unfinished, Holders
  <2>2. Holders' = Holders
    BY <1>1, <2>1, <1>0 DEF Spawn, Holders, TypeOK, Phase
  <2>3. PermitsConserved'
    BY <1>1, <1>0, <2>2 DEF Spawn, PermitsConserved
  <2>4. TypeOK'
    BY <1>1, <1>0 DEF Spawn, TypeOK, Phase
  <2> QED
    BY <2>3, <2>4 DEF IInv
<1>2. CASE Submit
  <2>1. submitting \in Task /\ target[submitting] \in Torrent
    BY <1>2, <1>0 DEF Submit, TypeOK
  <2>2. PICK S \in SUBSET Task : Abort(S)
    BY <1>2 DEF Submit
  <2>3. /\ phase' \in [Task -> Phase]
        /\ permits' \in Nat
        /\ PermitsConserved'
    BY <2>2, AbortKeepsBalance
  <2>4. running' \in [Torrent -> Task \cup {NoTask}]
    BY <1>2, <1>0, <2>1 DEF Submit, TypeOK
  <2>5. permits' \in 0..MaxConcurrentAnnounces
    BY <2>3, <1>11, BalanceBounds DEF PermitsConserved
  <2> QED
    BY <1>2, <1>0, <2>3, <2>4, <2>5 DEF Submit, TypeOK, IInv
<1>3. ASSUME NEW t \in Task, AcquirePermit(t) PROVE IInv'
  <2>1. t \notin Holders
    BY <1>3 DEF AcquirePermit, Holders
  <2>2. Holders' = Holders \cup {t}
    BY <1>3, <1>0 DEF AcquirePermit, Holders, TypeOK, Phase
  <2>3. Cardinality(Holders') = Cardinality(Holders) + 1
    BY <1>0, <2>1, <2>2, FS_AddElement
  <2>4. PermitsConserved'
    BY <1>3, <1>0, <2>3 DEF AcquirePermit, PermitsConserved, TypeOK
  <2>5. TypeOK'
    BY <1>3, <1>0 DEF AcquirePermit, TypeOK, Phase
  <2> QED
    BY <2>4, <2>5 DEF IInv
<1>4. ASSUME NEW t \in Task, Respond(t) PROVE IInv'
  <2>1. t \in Holders
    BY <1>4 DEF Respond, Holders
  <2>2. Holders' = Holders
    BY <1>4, <2>1, <1>0 DEF Respond, Holders, TypeOK, Phase
  <2>3. PermitsConserved'
    BY <1>4, <1>0, <2>2 DEF Respond, PermitsConserved
  <2>4. TypeOK'
    BY <1>4, <1>0 DEF Respond, TypeOK, Phase
  <2> QED
    BY <2>3, <2>4 DEF IInv
<1>5. ASSUME NEW t \in Task, Leave(t) PROVE IInv'
  <2>1. t \in Holders
    BY <1>5 DEF Leave, Holders
  <2>2. Holders' = Holders \ {t}
    BY <1>5, <1>0 DEF Leave, Holders, TypeOK, Phase
  <2>3. Cardinality(Holders') = Cardinality(Holders) - 1
    BY <1>0, <2>1, <2>2, FS_RemoveElement
  <2>4. PermitsConserved'
    BY <1>5, <1>0, <2>3 DEF Leave, PermitsConserved, TypeOK
  <2>5. permits' \in Nat
    BY <1>5, <1>0 DEF Leave, TypeOK
  <2>6. permits' \in 0..MaxConcurrentAnnounces
    BY <2>4, <2>5, <1>11, BalanceBounds DEF PermitsConserved
  <2>7. TypeOK'
    BY <1>5, <1>0, <2>6 DEF Leave, TypeOK, Phase
  <2> QED
    BY <2>4, <2>7 DEF IInv
<1>6. ASSUME NEW h \in Torrent, Deny(h) PROVE IInv'
  <2>1. {running[h]} \in SUBSET Task
    BY <1>6, <1>0 DEF Deny, TypeOK
  <2>2. /\ phase' \in [Task -> Phase]
        /\ permits' \in Nat
        /\ PermitsConserved'
    BY <1>6, <2>1, AbortKeepsBalance DEF Deny
  <2>3. permits' \in 0..MaxConcurrentAnnounces
    BY <2>2, <1>11, BalanceBounds DEF PermitsConserved
  <2> QED
    BY <1>6, <1>0, <2>2, <2>3 DEF Deny, TypeOK, IInv
<1>7. CASE DenyAll
  <2>1. Registered \in SUBSET Task
    BY DEF Registered
  <2>2. /\ phase' \in [Task -> Phase]
        /\ permits' \in Nat
        /\ PermitsConserved'
    BY <1>7, <2>1, AbortKeepsBalance DEF DenyAll
  <2>3. permits' \in 0..MaxConcurrentAnnounces
    BY <2>2, <1>11, BalanceBounds DEF PermitsConserved
  <2> QED
    BY <1>7, <1>0, <2>2, <2>3 DEF DenyAll, TypeOK, IInv
<1>8. CASE BeginAwait
  <2>1. Holders' = Holders
    BY <1>8 DEF BeginAwait, Holders
  <2>2. Registered \in SUBSET Task
    BY DEF Registered
  <2> QED
    BY <1>8, <1>0, <2>1, <2>2 DEF BeginAwait, TypeOK, IInv, PermitsConserved
<1>9. CASE AwaitReturn \/ AwaitTimeout
  <2>1. Holders' = Holders
    BY <1>9 DEF AwaitReturn, AwaitTimeout, Holders
  <2> QED
    BY <1>9, <1>0, <2>1
    DEF AwaitReturn, AwaitTimeout, TypeOK, IInv, PermitsConserved
<1>10. CASE UNCHANGED vars
  <2>1. Holders' = Holders
    BY <1>10 DEF vars, Holders
  <2> QED
    BY <1>10, <1>0, <2>1 DEF vars, TypeOK, IInv, PermitsConserved
<1> QED
  BY <1>1, <1>2, <1>3, <1>4, <1>5, <1>6, <1>7, <1>8, <1>9, <1>10 DEF Next

-----------------------------------------------------------------------------
\* The variables always hold values of their types; in particular the
\* semaphore never holds more permits than it was created with.
THEOREM TypeCorrect == Spec => []TypeOK
<1>1. IInv => TypeOK
  BY DEF IInv
<1> QED
  BY <1>1, InitIInv, NextIInv, PTL DEF Spec

\* No permit is lost or made up however a task ends (announcer_executor.rs:
\* 116-136, 141-161): aborts and completions release exactly what was held.
THEOREM PermitBalance == Spec => []PermitsConserved
<1>1. IInv => PermitsConserved
  BY DEF IInv
<1> QED
  BY <1>1, InitIInv, NextIInv, PTL DEF Spec

\* "No more than this number can enter Announcer::announce concurrently"
\* (announcer_executor.rs:27-30), counting those still in their handlers.
THEOREM ConcurrencyBound ==
    Spec => [](Cardinality(Holders) <= MaxConcurrentAnnounces)
<1>1. IInv => Cardinality(Holders) <= MaxConcurrentAnnounces
  BY TasksFinite, ExecutorAssumption
  DEF IInv, TypeOK, PermitsConserved, Holders
<1> QED
  BY <1>1, InitIInv, NextIInv, PTL DEF Spec

\* Submit, Deny and DenyAll abort what they take out of `running`; only the
\* shutdown drain, and another task of the same torrent that removes the entry
\* by key when it ends (announcer_executor.rs:128), leave an abortable task
\* unregistered.  The other task is older or newer than the one it orphans.
THEOREM OrphanCause == Spec => OrphanedOnlyByAnotherTask
<1> DEFINE Dropped(t) == /\ running[target[t]] = t
                         /\ phase[t] \in {"waiting", "announcing"}
                         /\ phase'[t] # "ended"
                         /\ running'[target[t]] # t
           Caused(t)  == \/ BeginAwait
                         \/ \E u \in Task \ {t} :
                                target[u] = target[t] /\ Leave(u)
<1>1. ASSUME TypeOK, Next, NEW t \in Task, Dropped(t)
      PROVE  Caused(t)
  <2>0. target[t] \in Torrent
    BY <1>1 DEF TypeOK
  <2>1. ASSUME NEW x \in Task, NEW h \in Torrent, Spawn(x, h)
        PROVE  FALSE
    BY <1>1, <2>1 DEF Spawn
  <2>2. CASE Submit
    <3>1. target[submitting] = target[t]
      BY <1>1, <2>0, <2>2 DEF Submit, TypeOK
    <3>2. Abort({t})
      BY <1>1, <2>2, <3>1 DEF Submit
    <3> QED
      BY <1>1, <3>2 DEF Abort
  <2>3. ASSUME NEW u \in Task, AcquirePermit(u) \/ Respond(u)
        PROVE  FALSE
    BY <1>1, <2>3 DEF AcquirePermit, Respond
  <2>4. ASSUME NEW u \in Task, Leave(u)
        PROVE  Caused(t)
    BY <1>1, <2>0, <2>4 DEF Leave, TypeOK
  <2>5. ASSUME NEW h \in Torrent, Deny(h)
        PROVE  FALSE
    <3>1. h = target[t]
      BY <1>1, <2>0, <2>5 DEF Deny, TypeOK
    <3>2. Abort({t})
      BY <1>1, <2>5, <3>1 DEF Deny
    <3> QED
      BY <1>1, <3>2 DEF Abort
  <2>6. CASE DenyAll
    <3>1. t \in Registered
      BY <1>1, <2>0 DEF Registered
    <3>2. Abort(Registered)
      BY <2>6 DEF DenyAll
    <3> QED
      BY <1>1, <3>1, <3>2 DEF Abort
  <2>7. CASE AwaitReturn \/ AwaitTimeout
    BY <1>1, <2>7 DEF AwaitReturn, AwaitTimeout
  <2> QED
    BY <1>1, <2>1, <2>2, <2>3, <2>4, <2>5, <2>6, <2>7 DEF Next
<1>2. TypeOK /\ [Next]_vars
        => [\A t \in Task : Dropped(t) => Caused(t)]_vars
  BY <1>1
<1> QED
  BY <1>2, TypeCorrect, PTL DEF Spec, OrphanedOnlyByAnotherTask

=============================================================================
