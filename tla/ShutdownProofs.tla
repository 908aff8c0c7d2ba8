--------------------------- MODULE ShutdownProofs ---------------------------
(***************************************************************************)
(* Proofs about graceful shutdown: for any finite set of workers, and any  *)
(* requests and streams.                                                   *)
(***************************************************************************)
EXTENDS Shutdown, FiniteSetTheorems, TLAPS

\* The workers Group.wg counts: added, and not yet done.
Live == {w \in Workers : worker[w] \in {"added", "running"}}

\* The counter is the number of live workers, and a wait that reports that
\* everything finished saw it at zero and was the last thing to happen.
CountIsExact ==
  /\ count = Cardinality(Live)
  /\ drained => phase = "stopped" /\ count = 0

IInv == TypeOK /\ CountIsExact

\* What counting one more worker, or one fewer, does to the counter.
LEMMA Counting ==
  ASSUME NEW S \in SUBSET Workers, NEW w \in Workers
  PROVE  /\ IsFiniteSet(S) /\ Cardinality(S) \in Nat
         /\ w \notin S => Cardinality(S \cup {w}) = Cardinality(S) + 1
         /\ w \in S => Cardinality(S \ {w}) = Cardinality(S) - 1
         /\ w \in S => Cardinality(S) > 0
<1>1. IsFiniteSet(S) /\ Cardinality(S) \in Nat
  BY WorkersAssumption, FS_Subset, FS_CardinalityType
<1>2. w \notin S => Cardinality(S \cup {w}) = Cardinality(S) + 1
  BY <1>1, FS_AddElement
<1>3. w \in S => Cardinality(S \ {w}) = Cardinality(S) - 1
  BY <1>1, FS_RemoveElement
<1>4. w \in S => Cardinality(S) # 0
  BY <1>1, FS_EmptySet
<1>5. QED
  BY <1>1, <1>2, <1>3, <1>4

LEMMA ShutdownInit == Init => IInv
<1> SUFFICES ASSUME Init PROVE IInv
  OBVIOUS
<1>1. TypeOK
  BY DEF Init, TypeOK, Phases
<1>2. Live = {}
  BY DEF Init, Live
<1>3. QED
  BY <1>1, <1>2, FS_EmptySet DEF Init, IInv, CountIsExact

-----------------------------------------------------------------------------
LEMMA GoKeeps ==
  ASSUME IInv, NEW w \in Workers, Go(w)
  PROVE  IInv'
<1> USE DEF IInv
<1>1. ~drained /\ drained' = drained /\ w \notin Live
  BY DEF Go, Declines, Running, CountIsExact, Live
<1>2. CASE closed
  <2>1. Live' = Live
    BY <1>2 DEF Go, Declines, Live, TypeOK
  <2>2. QED
    BY <1>1, <1>2, <2>1 DEF Go, Declines, TypeOK, CountIsExact
<1>3. CASE ~closed
  <2>1. Live' = Live \cup {w}
    BY <1>3 DEF Go, Declines, Live, TypeOK
  <2>2. Cardinality(Live') = Cardinality(Live) + 1
    BY <1>1, <2>1, Counting DEF Live
  <2>3. QED
    BY <1>1, <1>3, <2>2 DEF Go, Declines, TypeOK, CountIsExact
<1>4. QED
  BY <1>2, <1>3

LEMMA SpawnKeeps ==
  ASSUME IInv, NEW w \in Workers, Spawn(w)
  PROVE  IInv'
<1> USE DEF IInv
<1>1. Live' = Live
  BY DEF Spawn, Live, TypeOK
<1>2. QED
  BY <1>1 DEF Spawn, TypeOK, CountIsExact

LEMMA DoneKeeps ==
  ASSUME IInv, NEW w \in Workers, Done(w)
  PROVE  IInv'
<1> USE DEF IInv
<1>1. ~drained /\ drained' = drained
  BY DEF Done, CountDown, Running, CountIsExact
<1>2. w \in Live /\ Live' = Live \ {w}
  BY DEF Done, CountDown, Live, TypeOK
<1>3. Cardinality(Live') = Cardinality(Live) - 1 /\ count > 0
  BY <1>2, Counting DEF Live, CountIsExact
<1>4. QED
  BY <1>1, <1>3 DEF Done, CountDown, TypeOK, CountIsExact

\* Everything that leaves the workers and their counter alone.
LEMMA RestKeeps ==
  ASSUME IInv,
         \/ \E r \in Requests : Accept(r) \/ Respond(r)
         \/ StartScan \/ EndScan \/ Main \/ UNCHANGED vars
  PROVE  IInv'
<1> USE DEF IInv
<1>1. UNCHANGED <<worker, count>>
  BY DEF Accept, Respond, StartScan, EndScan, Main, WaitReturns, Signal, StopServing, ServerShutdown,
         CloseGroup, Wait, vars
<1>2. Live' = Live
  BY <1>1 DEF Live
<1>3. TypeOK'
  BY DEF TypeOK, Phases, Accept, Respond, StartScan, EndScan, Main, WaitReturns, Signal, StopServing,
         ServerShutdown, CloseGroup, Wait, vars
<1>4. (drained => phase = "stopped" /\ count = 0)'
  BY DEF CountIsExact, Accept, Respond, StartScan, EndScan, Main, WaitReturns, Signal, StopServing,
         ServerShutdown, CloseGroup, Wait, vars
<1>5. QED
  BY <1>1, <1>2, <1>3, <1>4 DEF CountIsExact

-----------------------------------------------------------------------------
\* The counter of safego.Group is exact whenever anything starts or ends.
THEOREM CounterIsExact == Spec => []IInv
<1>1. IInv /\ [Next]_vars => IInv'
  BY GoKeeps, SpawnKeeps, DoneKeeps, RestKeeps DEF Next
<1>2. QED
  BY <1>1, ShutdownInit, PTL DEF Spec

\* The worker of every phase, and the phase of main, are among those the code has.
THEOREM ShutdownTypes == Spec => []TypeOK
<1>1. IInv => TypeOK
  BY DEF IInv
<1>2. QED
  BY <1>1, CounterIsExact, PTL

\* Group.Wait: when it reports that every worker finished, none is running, and
\* none that was accepted is yet to run, whichever event raced the wait.
THEOREM DrainedIsDrained == Spec => []DrainedMeansNoWorker
<1>1. IInv => DrainedMeansNoWorker
  <2> SUFFICES ASSUME IInv, drained, NEW w \in Workers
               PROVE  worker[w] \notin {"added", "running"}
    BY DEF DrainedMeansNoWorker
  <2>1. Cardinality(Live) = 0
    BY DEF IInv, CountIsExact
  <2>2. Live \in SUBSET Workers
    BY DEF Live
  <2>3. w \notin Live
    <3>1. w \in Live => Cardinality(Live) > 0
      BY <2>2, Counting
    <3>2. QED
      BY <2>1, <3>1
  <2>4. QED
    BY <2>3 DEF Live
<1>2. QED
  BY <1>1, CounterIsExact, PTL

\* The lock of Group.Go: no worker is counted in once the group is closed.
THEOREM NothingJoinsAWait == Spec => NoAddDuringWait
<1>1. IInv /\ [Next]_vars => [closed => count' <= count]_vars
  <2> SUFFICES ASSUME IInv, Next, closed PROVE count' <= count
    OBVIOUS
  <2>1. count \in Nat
    BY DEF IInv, TypeOK
  <2>2. CASE \E w \in Workers : Go(w) \/ Spawn(w) \/ Done(w)
    <3>1. closed = TRUE
      BY DEF IInv, TypeOK
    <3>2. PICK w \in Workers : Go(w) \/ Spawn(w) \/ Done(w)
      BY <2>2
    <3>3. count' = count \/ count' = count - 1
      BY <3>1, <3>2 DEF Go, Declines, Spawn, Done, CountDown
    <3>4. QED
      BY <2>1, <3>3
  <2>3. CASE \/ \E r \in Requests : Accept(r) \/ Respond(r)
             \/ StartScan \/ EndScan \/ Main
    <3>1. count' = count
      BY <2>3 DEF Accept, Respond, StartScan, EndScan, Main, WaitReturns, Signal, StopServing,
                  ServerShutdown, CloseGroup, Wait
    <3>2. QED
      BY <2>1, <3>1
  <2>4. QED
    BY <2>2, <2>3 DEF Next
<1>2. QED
  BY <1>1, CounterIsExact, PTL DEF Spec, NoAddDuringWait
=============================================================================
