------------------------ MODULE ChannelAiringsProofs ------------------------
(***************************************************************************)
(* Proofs about what a channel airs and what it writes down: for any items *)
(* and bags, any number of turns, any number of skips at any moment, stops *)
(* and crashes, and whichever writes the database refuses.                 *)
(***************************************************************************)
EXTENDS ChannelAirings, FiniteSetTheorems, TLAPS

\* The loop owes the play of this turn a verdict.
Owes == phase \in {"picked", "logged", "playing", "ended"}

Kept    == {"aired", "lost", "stranded"}
KeptOf(f, u) == {p \in Plays \ u : f[p] \in Kept}

Fates == {"none", "aired", "forgotten", "stranded", "lost"}

\* Of the types, what the rest needs.
Typed ==
  /\ phase \in {"off", "deciding", "picked", "logged", "playing", "ended", "waiting"}
  /\ play \in 0..MaxPlays
  /\ row \in [Plays -> {"none", "open", "closed", "discarded"}]
  /\ fate \in [Plays -> Fates]
  /\ cycle \in Nat /\ prior \in Nat
  /\ unsaved \subseteq 1..play

\* Each play gets its verdict in its own turn, by the loop or by the crash that
\* took the loop away.
EachHasItsFate ==
  /\ Owes => play # 0
  /\ \A p \in Plays : fate[p] = "none" <=> (p > play \/ (p = play /\ Owes))

\* A row is open while its play is on, or as the leftover of a crash that no loop
\* has started after, or of a write that failed.
OpenIsOn ==
  \A p \in Plays : row[p] = "open" =>
    \/ p = play /\ phase \in {"logged", "playing", "ended"}
    \/ phase = "off" /\ fate[p] = "lost"
    \/ p \in unwritten

ClosedIsAired ==
  \A p \in Plays : row[p] = "closed" => fate[p] \in {"aired", "lost"} \/ p \in unwritten

\* The position is committed with the pick, ahead of the verdict, if it can be saved.
CycleRunsAhead ==
  LET kept == Cardinality(KeptOf(fate, unsaved)) IN
  IF Owes THEN /\ prior = kept
               /\ cycle = IF play \in unsaved THEN kept ELSE kept + 1
          ELSE cycle = kept

IInv == Typed /\ EachHasItsFate /\ OpenIsOn /\ ClosedIsAired /\ CycleRunsAhead

-----------------------------------------------------------------------------
(* Counting.                                                                *)

LEMMA KeptIsFinite ==
  ASSUME NEW f, NEW u
  PROVE  IsFiniteSet(KeptOf(f, u)) /\ Cardinality(KeptOf(f, u)) \in Nat
<1>1. IsFiniteSet(Plays)
  BY FS_Interval, BoundAssumption DEF Plays
<1>2. IsFiniteSet(KeptOf(f, u))
  BY <1>1, FS_Subset DEF KeptOf
<1>3. QED
  BY <1>2, FS_CardinalityType

\* A verdict that keeps a position that was saved counts one, any other counts nothing.
LEMMA VerdictCounts ==
  ASSUME Typed, play \in Plays, fate[play] = "none", NEW v, fate' = [fate EXCEPT ![play] = v]
  PROVE  Cardinality(KeptOf(fate', unsaved)) =
           IF v \in Kept /\ play \notin unsaved THEN Cardinality(KeptOf(fate, unsaved)) + 1
                                              ELSE Cardinality(KeptOf(fate, unsaved))
<1>1. play \notin KeptOf(fate, unsaved)
  BY DEF KeptOf, Kept
<1>2. CASE v \in Kept /\ play \notin unsaved
  <2>1. KeptOf(fate', unsaved) = KeptOf(fate, unsaved) \cup {play}
    BY <1>2 DEF KeptOf, Typed
  <2>2. QED
    BY <1>1, <1>2, <2>1, KeptIsFinite, FS_AddElement
<1>3. CASE ~(v \in Kept /\ play \notin unsaved)
  <2>1. KeptOf(fate', unsaved) = KeptOf(fate, unsaved)
    BY <1>1, <1>3 DEF KeptOf, Typed
  <2>2. QED
    BY <1>3, <2>1
<1>4. QED
  BY <1>2, <1>3

LEMMA InitHolds == Init => IInv
<1> SUFFICES ASSUME Init PROVE IInv
  OBVIOUS
<1>1. Typed /\ EachHasItsFate /\ OpenIsOn /\ ClosedIsAired
  BY BoundAssumption DEF Init, Typed, Fates, Owes, EachHasItsFate, OpenIsOn, ClosedIsAired, Plays
<1>2. KeptOf(fate, unsaved) = {}
  BY DEF Init, KeptOf, Kept
<1>3. QED
  BY <1>1, <1>2, FS_EmptySet DEF Init, IInv, CycleRunsAhead, Owes

-----------------------------------------------------------------------------
(* A turn of the loop.                                                      *)

LEMMA StartKeeps ==
  ASSUME IInv, StartLoop
  PROVE  IInv'
<1>1. /\ phase = "off" /\ phase' = "deciding" /\ ~Owes /\ ~Owes'
      /\ UNCHANGED <<play, fate, cycle, prior, unsaved>>
  BY DEF StartLoop, Owes, cycleVars
<1>2. PICK left \in SUBSET Plays :
        /\ row' = [p \in Plays |-> IF p \in left THEN row[p] ELSE OrphanClosed(row[p])]
        /\ unwritten' = unwritten \cup left
  BY DEF StartLoop
<1>3. Typed'
  BY <1>1, <1>2 DEF IInv, Typed, OrphanClosed
<1>4. EachHasItsFate' /\ CycleRunsAhead'
  BY <1>1 DEF IInv, EachHasItsFate, CycleRunsAhead
<1>5. \A p \in Plays :
        /\ row'[p] = "open" => p \in unwritten'
        /\ row'[p] = "closed" => p \in unwritten' \/ row[p] \in {"open", "closed"}
  BY <1>2 DEF OrphanClosed
<1>6. unwritten \subseteq unwritten'
  BY <1>2
<1>7. OpenIsOn' /\ ClosedIsAired'
  BY <1>1, <1>5, <1>6 DEF IInv, OpenIsOn, ClosedIsAired
<1>8. QED
  BY <1>3, <1>4, <1>7 DEF IInv

LEMMA PickKeeps ==
  ASSUME IInv, NEW i \in Items, Pick(i)
  PROVE  IInv'
<1>1. /\ phase = "deciding" /\ phase' = "picked" /\ ~Owes /\ Owes'
      /\ play < MaxPlays /\ play' = play + 1
      /\ prior' = cycle
      /\ \/ cycle' = cycle + 1 /\ unsaved' = unsaved
         \/ cycle' = cycle /\ unsaved' = unsaved \cup {play + 1}
      /\ UNCHANGED <<row, fate, unwritten>>
  BY DEF Pick, Owes
<1>2. Typed'
  <2>1. play' \in 0..MaxPlays /\ unsaved' \subseteq 1..play' /\ cycle' \in Nat
    <3>1. play \in Nat /\ unsaved \subseteq 1..play /\ cycle \in Nat
      BY DEF IInv, Typed
    <3>2. unsaved' \subseteq unsaved \cup {play + 1}
      BY <1>1
    <3>3. 1..play \subseteq 1..(play + 1) /\ play + 1 \in 1..(play + 1)
      BY <3>1
    <3>4. QED
      BY <1>1, <3>1, <3>2, <3>3, BoundAssumption
  <2>2. QED
    BY <1>1, <2>1 DEF IInv, Typed
<1>3. EachHasItsFate'
  BY <1>1, BoundAssumption DEF IInv, EachHasItsFate, Typed, Plays
<1>4. OpenIsOn' /\ ClosedIsAired'
  BY <1>1 DEF IInv, OpenIsOn, ClosedIsAired
<1>5. CycleRunsAhead'
  <2>1. fate[play + 1] = "none" /\ play + 1 \in Plays
    BY <1>1, BoundAssumption DEF IInv, EachHasItsFate, Typed, Plays
  <2>2. KeptOf(fate', unsaved') = KeptOf(fate, unsaved)
    BY <1>1, <2>1 DEF KeptOf, Kept
  <2>3. play + 1 \notin unsaved
    BY DEF IInv, Typed
  <2>4. QED
    BY <1>1, <2>2, <2>3 DEF IInv, CycleRunsAhead
<1>6. QED
  BY <1>2, <1>3, <1>4, <1>5 DEF IInv

LEMMA LogKeeps ==
  ASSUME IInv, OnPlayStart
  PROVE  IInv'
<1>1. /\ phase = "picked" /\ phase' = "logged" /\ Owes /\ Owes'
      /\ row' \in {row, [row EXCEPT ![play] = "open"]}
      /\ UNCHANGED <<play, fate, unwritten, cycle, prior, unsaved>>
  BY DEF OnPlayStart, Owes, cycleVars
<1>2. Typed' /\ EachHasItsFate' /\ CycleRunsAhead'
  BY <1>1 DEF IInv, Typed, EachHasItsFate, CycleRunsAhead
<1>3. OpenIsOn' /\ ClosedIsAired'
  BY <1>1 DEF IInv, Typed, OpenIsOn, ClosedIsAired
<1>4. QED
  BY <1>2, <1>3 DEF IInv

\* From one place at which the loop owes a verdict to another; rows are not touched.
LEMMA PlayingKeeps ==
  ASSUME IInv, PutOn \/ \E how \in {"clean", "window", "cut", "error"} : EndPlay(how)
  PROVE  IInv'
<1>1. /\ phase \in {"logged", "playing"} /\ phase' \in {"playing", "ended"} /\ Owes /\ Owes'
      /\ UNCHANGED <<play, row, fate, unwritten, cycle, prior, unsaved>>
  BY DEF PutOn, EndPlay, Owes, cycleVars, playVars
<1>2. Typed' /\ EachHasItsFate' /\ CycleRunsAhead'
  BY <1>1 DEF IInv, Typed, EachHasItsFate, CycleRunsAhead
<1>3. OpenIsOn' /\ ClosedIsAired'
  BY <1>1 DEF IInv, OpenIsOn, ClosedIsAired
<1>4. QED
  BY <1>2, <1>3 DEF IInv

\* The verdicts: v is what becomes of the play, and its row agrees with it.
LEMMA VerdictKeeps ==
  ASSUME IInv, phase = "ended", phase' \in {"deciding", "waiting"},
         NEW v \in {"aired", "forgotten", "stranded"},
         fate' = [fate EXCEPT ![play] = v],
         row' \in [Plays -> {"none", "open", "closed", "discarded"}],
         \A p \in Plays : p # play => row'[p] = row[p],
         unwritten \subseteq unwritten',
         play \in unwritten' \/ (row'[play] # "open" /\ (row'[play] = "closed" => v = "aired")),
         cycle' = IF v \in Kept THEN cycle ELSE prior, prior' = 0,
         UNCHANGED <<play, unsaved>>
  PROVE  IInv'
<1>1. Owes /\ ~Owes' /\ play \in Plays /\ fate[play] = "none"
  BY DEF Owes, IInv, Typed, EachHasItsFate, Plays
<1>2. Typed'
  BY DEF IInv, Typed, Fates
<1>3. EachHasItsFate'
  BY <1>1 DEF IInv, EachHasItsFate, Typed, Plays
<1>4. OpenIsOn' /\ ClosedIsAired'
  BY <1>1 DEF IInv, OpenIsOn, ClosedIsAired, Typed
<1>5. CycleRunsAhead'
  <2>1. Cardinality(KeptOf(fate', unsaved)) =
          IF v \in Kept /\ play \notin unsaved THEN Cardinality(KeptOf(fate, unsaved)) + 1
                                             ELSE Cardinality(KeptOf(fate, unsaved))
    BY <1>1, VerdictCounts DEF IInv
  <2>2. QED
    BY <1>1, <2>1 DEF IInv, CycleRunsAhead
<1>6. QED
  BY <1>2, <1>3, <1>4, <1>5 DEF IInv

\* The row of the play is as the verdict has it, or the write failed.
LEMMA RowSettled ==
  ASSUME IInv, play \in Plays, NEW S, NEW r \in S,
         Writes([row EXCEPT ![play] = r]), S \subseteq {"none", "closed", "discarded"}
  PROVE  /\ row' \in [Plays -> {"none", "open", "closed", "discarded"}]
         /\ \A p \in Plays : p # play => row'[p] = row[p]
         /\ unwritten \subseteq unwritten'
         /\ play \in unwritten' \/ row'[play] \in {r, row[play]} \ {"open"}
BY DEF Writes, IInv, Typed

LEMMA SettleKeeps ==
  ASSUME IInv, Settle
  PROVE  IInv'
<1>1. /\ phase = "ended" /\ phase' \in {"deciding", "waiting"} /\ prior' = 0
      /\ UNCHANGED <<play, unsaved>>
  BY DEF Settle, SettleSilent, SettleFalseStart, SettleAired, TurnIsOver
<1>2. play \in Plays /\ fate[play] = "none"
  BY <1>1 DEF IInv, Typed, EachHasItsFate, Owes, Plays
<1>3. row[play] = "closed" => play \in unwritten
  BY <1>2 DEF IInv, ClosedIsAired
<1>4. CASE SettleSilent \/ SettleFalseStart
  <2>1. Writes(Discarded(play)) /\ Undo
    BY <1>4 DEF SettleSilent, SettleFalseStart
  <2>2. PICK v \in {"forgotten", "stranded"} :
          /\ fate' = [fate EXCEPT ![play] = v]
          /\ cycle' = IF v \in Kept THEN cycle ELSE prior
    BY <2>1 DEF Undo, Rewind, Kept
  <2>3. PICK r \in {"none", "discarded"} : Discarded(play) = [row EXCEPT ![play] = r]
    BY <1>2 DEF Discarded, IInv, Typed
  <2>4. QED
    BY <1>1, <1>2, <1>3, <2>1, <2>2, <2>3, RowSettled, VerdictKeeps
<1>5. CASE SettleAired
  <2>1. /\ Writes([row EXCEPT ![play] = IF row[play] = "open" THEN "closed" ELSE row[play]])
        /\ fate' = [fate EXCEPT ![play] = "aired"] /\ cycle' = cycle
    BY <1>5 DEF SettleAired
  <2>2. QED
    BY <1>1, <1>2, <1>3, <2>1, RowSettled, VerdictKeeps DEF Kept, IInv, Typed
<1>6. QED
  BY <1>4, <1>5 DEF Settle

-----------------------------------------------------------------------------
(* What happens to the loop.                                                *)

\* A skip deletes a row, whichever it read: the airing or the next one.
LEMMA ForgetKeeps ==
  ASSUME IInv, NEW k \in Skippers, Forget(k)
  PROVE  IInv'
<1>1. UNCHANGED <<phase, play, fate, unwritten, cycle, prior, unsaved>>
  BY DEF Forget, cycleVars
<1>2. /\ row' \in [Plays -> {"none", "open", "closed", "discarded"}]
      /\ \A p \in Plays : row'[p] \in {row[p], "discarded"}
  BY DEF Forget, Discarded, IInv, Typed
<1>3. Typed' /\ EachHasItsFate' /\ CycleRunsAhead'
  BY <1>1, <1>2 DEF IInv, Typed, EachHasItsFate, CycleRunsAhead, Owes
<1>4. OpenIsOn' /\ ClosedIsAired'
  BY <1>1, <1>2 DEF IInv, OpenIsOn, ClosedIsAired
<1>5. QED
  BY <1>3, <1>4 DEF IInv

\* The loop rests or leaves: it owed nothing, and owes nothing.
LEMMA RestKeeps ==
  ASSUME IInv, BackoffElapses \/ Leave
  PROVE  IInv'
<1>1. /\ phase \in {"deciding", "waiting"} /\ phase' \in {"deciding", "off"} /\ ~Owes /\ ~Owes'
      /\ UNCHANGED <<play, row, fate, unwritten, cycle, prior, unsaved>>
  BY DEF BackoffElapses, Leave, Owes, cycleVars, playVars
<1>2. Typed' /\ EachHasItsFate' /\ CycleRunsAhead'
  BY <1>1 DEF IInv, Typed, EachHasItsFate, CycleRunsAhead
<1>3. OpenIsOn' /\ ClosedIsAired'
  BY <1>1 DEF IInv, OpenIsOn, ClosedIsAired
<1>4. QED
  BY <1>2, <1>3 DEF IInv

LEMMA CrashKeeps ==
  ASSUME IInv, Crash
  PROVE  IInv'
<1>1. /\ phase # "off" /\ phase' = "off" /\ ~Owes'
      /\ prior' = 0 /\ UNCHANGED <<play, row, unwritten, cycle, unsaved>>
  BY DEF Crash, TurnIsOver, Owes
<1>2. CASE Owes
  <2>1. play \in Plays /\ fate[play] = "none" /\ fate' = [fate EXCEPT ![play] = "lost"]
    BY <1>2 DEF Crash, IInv, Typed, EachHasItsFate, Plays
  <2>2. Typed' /\ OpenIsOn' /\ ClosedIsAired'
    BY <1>1, <2>1 DEF IInv, Typed, Fates, OpenIsOn, ClosedIsAired
  <2>3. EachHasItsFate'
    BY <1>1, <1>2, <2>1 DEF IInv, Typed, EachHasItsFate, Plays
  <2>4. Cardinality(KeptOf(fate', unsaved)) =
          IF "lost" \in Kept /\ play \notin unsaved THEN Cardinality(KeptOf(fate, unsaved)) + 1
                                                  ELSE Cardinality(KeptOf(fate, unsaved))
    BY <2>1, VerdictCounts DEF IInv
  <2>5. CycleRunsAhead'
    BY <1>1, <1>2, <2>1, <2>4 DEF IInv, CycleRunsAhead, Kept
  <2>6. QED
    BY <2>2, <2>3, <2>5 DEF IInv
<1>3. CASE ~Owes
  <2>1. fate' = fate
    BY <1>3 DEF Crash, IInv, Typed, EachHasItsFate, Plays
  <2>2. Typed' /\ EachHasItsFate' /\ CycleRunsAhead'
    BY <1>1, <1>3, <2>1 DEF IInv, Typed, EachHasItsFate, CycleRunsAhead
  <2>3. OpenIsOn' /\ ClosedIsAired'
    BY <1>1, <1>3, <2>1 DEF IInv, OpenIsOn, ClosedIsAired, Owes
  <2>4. QED
    BY <2>2, <2>3 DEF IInv
<1>4. QED
  BY <1>2, <1>3

\* What becomes of the item on air, and of the requests to skip it, touches nothing
\* that is written down.
LEMMA OthersKeep ==
  ASSUME IInv,
         \/ FirstByte \/ Ages \/ Stop
         \/ \E p \in Plays : WatchdogReturns(p) \/ \E why \in Clocks : WatchdogCuts(p, why)
         \/ \E k \in Skippers : AskToSkip(k) \/ TakeCancel(k) \/ Judge(k) \/ CutItem(k)
         \/ UNCHANGED vars
  PROVE  IInv'
<1>1. UNCHANGED <<phase, play, row, fate, unwritten, cycle, prior, unsaved>>
  BY DEF FirstByte, Ages, Stop, WatchdogReturns, WatchdogCuts, AskToSkip, TakeCancel, Judge,
         CutItem, vars, playVars, cycleVars
<1>2. QED
  BY <1>1 DEF IInv, Typed, EachHasItsFate, OpenIsOn, ClosedIsAired, CycleRunsAhead, Owes

-----------------------------------------------------------------------------
\* The inductive invariant holds in every reachable state: of the turns of the loop and
\* of the skips, stops and crashes that meet them anywhere.
THEOREM AiringsInvariant == Spec => []IInv
<1>1. IInv /\ [Next]_vars => IInv'
  <2> SUFFICES ASSUME IInv, [Next]_vars PROVE IInv'
    OBVIOUS
  <2>1. CASE StartLoop \/ OnPlayStart \/ \E i \in Items : Pick(i)
    BY <2>1, StartKeeps, LogKeeps, PickKeeps
  <2>2. CASE PutOn \/ \E how \in {"clean", "window", "cut", "error"} : EndPlay(how)
    BY <2>2, PlayingKeeps
  <2>3. CASE Settle
    BY <2>3, SettleKeeps
  <2>4. CASE BackoffElapses \/ Leave
    BY <2>4, RestKeeps
  <2>5. CASE \E k \in Skippers : Forget(k)
    BY <2>5, ForgetKeeps
  <2>6. CASE Crash
    BY <2>6, CrashKeeps
  <2>7. CASE \/ FirstByte \/ Ages \/ Stop
             \/ \E p \in Plays : WatchdogReturns(p) \/ \E why \in Clocks : WatchdogCuts(p, why)
             \/ \E k \in Skippers : AskToSkip(k) \/ TakeCancel(k) \/ Judge(k) \/ CutItem(k)
             \/ UNCHANGED vars
    BY <2>7, OthersKeep
  <2>8. QED
    BY <2>1, <2>2, <2>3, <2>4, <2>5, <2>6, <2>7 DEF Next, SkipStep
<1>2. QED
  BY <1>1, InitHolds, PTL DEF Spec

\* The play log is what aired: between two items no row is open, and a row that stays is
\* of an airing that was let stand or that a crash took the loop away from, but for plays
\* whose row could not be written at their end.
THEOREM TheLogIsTheTruth == Spec => []LogMatchesFate
<1>1. IInv => LogMatchesFate
  BY DEF IInv, OpenIsOn, ClosedIsAired, LogMatchesFate, Settled
<1>2. QED
  BY <1>1, AiringsInvariant, PTL

\* The cycle stands where the airings that stand have brought it: what was rewound is
\* not counted, nor what was never saved, whatever was skipped, stopped or died in between.
THEOREM ThePositionIsKept == Spec => []PositionIsKept
<1>1. IInv => PositionIsKept
  BY DEF IInv, CycleRunsAhead, PositionIsKept, Settled, Owes, KeptOf, Kept
<1>2. QED
  BY <1>1, AiringsInvariant, PTL
=============================================================================
