----------------------- MODULE ChannelStreamerProofs -----------------------
(***************************************************************************)
(* Proofs about the streamers of a channel: for any number of streamers,   *)
(* listeners, loops, edits and late timers, whatever panics.               *)
(***************************************************************************)
EXTENDS ChannelStreamer, TLAPS

\* A handler that was given a streamer was given one that was built.
HandlersHaveStreamers ==
  /\ at \in [Listeners -> {"idle", "found", "attached"}]
  /\ of \in [Listeners -> Streamers \cup {NoStreamer}]
  /\ \A l \in Listeners : at[l] # "idle" => of[l] \in made

\* A streamer is taken off the map once, and the map never gets it back: the
\* one that is being stopped is not the one that is registered.
StoppedIsOffTheMap ==
  /\ made \subseteq Streamers
  /\ registered \in made \cup {NoStreamer}
  /\ restarting \in made \cup {NoStreamer}
  /\ closing \in made \cup {NoStreamer}
  /\ restarting # NoStreamer => restarting # registered
  /\ closing # NoStreamer => closing # registered
  /\ closeAt = "stopping" => closing # NoStreamer

StreamersHaveState ==
  /\ listeners \in [Streamers -> SUBSET Listeners]
  /\ done \in [Streamers -> Loops \cup {NoLoop}]

\* Nobody listens to a streamer that is yet to be built.
UnbuiltAreUnheard == \A s \in Streamers \ made : listeners[s] = {}

IInv ==
  /\ HandlersHaveStreamers
  /\ StoppedIsOffTheMap
  /\ StreamersHaveState
  /\ UnbuiltAreUnheard
  /\ RegisteredIsStarted

LEMMA InitHolds == Init => IInv
BY StreamerAssumption
DEF Init, IInv, HandlersHaveStreamers, StoppedIsOffTheMap, StreamersHaveState,
    UnbuiltAreUnheard, RegisteredIsStarted

\* startLocked leaves the streamer with a loop, and touches no other streamer.
LEMMA StartGivesALoop ==
  ASSUME NEW s \in Streamers, StreamersHaveState, StartLocked(s)
  PROVE  /\ done' \in [Streamers -> Loops \cup {NoLoop}]
         /\ done'[s] # NoLoop
         /\ \A t \in Streamers : t # s => done'[t] = done[t]
<1>1. CASE done[s] # NoLoop
  BY <1>1 DEF StartLocked, Started, StreamersHaveState
<1>2. CASE done[s] = NoLoop
  BY <1>2, StreamerAssumption DEF StartLocked, Started, StreamersHaveState
<1>3. QED
  BY <1>1, <1>2

\* stopLocked takes the loop of its own streamer only.
LEMMA StopTakesOneLoop ==
  ASSUME NEW s \in Streamers, StreamersHaveState, StopLocked(s)
  PROVE  /\ done' \in [Streamers -> Loops \cup {NoLoop}]
         /\ \A t \in Streamers : t # s => done'[t] = done[t]
BY DEF StopLocked, CancelLoop, StreamersHaveState

-----------------------------------------------------------------------------
(* The steps of a handler.                                                  *)

LEMMA FindKeeps ==
  ASSUME IInv, NEW l \in Listeners, Find(l)
  PROVE  IInv'
<1> USE DEF IInv
<1>1. HandlersHaveStreamers'
  BY StreamerAssumption DEF Find, HandlersHaveStreamers, StoppedIsOffTheMap
<1>2. StoppedIsOffTheMap'
  BY StreamerAssumption DEF Find, StoppedIsOffTheMap, closeVars
<1>3. StreamersHaveState' /\ UnbuiltAreUnheard'
  BY DEF Find, StreamersHaveState, UnbuiltAreUnheard
<1>4. RegisteredIsStarted'
  <2>1. CASE registered # NoStreamer
    BY <2>1 DEF Find, RegisteredIsStarted
  <2>2. CASE registered = NoStreamer
    BY <2>2 DEF Find, RegisteredIsStarted, UnbuiltAreUnheard
  <2>3. QED
    BY <2>1, <2>2
<1>5. QED
  BY <1>1, <1>2, <1>3, <1>4

LEMMA AttachKeeps ==
  ASSUME IInv, NEW l \in Listeners, Attach(l)
  PROVE  IInv'
<1> USE DEF IInv
<1>1. of[l] \in made /\ of[l] \in Streamers
  BY DEF Attach, HandlersHaveStreamers, StoppedIsOffTheMap
<1>2. /\ done' \in [Streamers -> Loops \cup {NoLoop}]
      /\ done'[of[l]] # NoLoop
      /\ \A t \in Streamers : t # of[l] => done'[t] = done[t]
  BY <1>1, StartGivesALoop DEF Attach
<1>3. HandlersHaveStreamers'
  BY <1>1 DEF Attach, HandlersHaveStreamers
<1>4. StoppedIsOffTheMap'
  BY DEF Attach, StoppedIsOffTheMap, closeVars
<1>5. StreamersHaveState' /\ UnbuiltAreUnheard'
  BY <1>1, <1>2 DEF Attach, StreamersHaveState, UnbuiltAreUnheard
<1>6. RegisteredIsStarted'
  BY <1>1, <1>2 DEF Attach, StreamersHaveState, RegisteredIsStarted
<1>7. QED
  BY <1>3, <1>4, <1>5, <1>6

\* A listener that leaves, or is dropped, only makes the set smaller.
LEMMA LeavingKeeps ==
  ASSUME IInv, NEW l \in Listeners, Detach(l) \/ Drop(l)
  PROVE  IInv'
<1> USE DEF IInv
<1>1. of[l] \in Streamers
  BY DEF Detach, Drop, HandlersHaveStreamers, StoppedIsOffTheMap
<1>2. /\ listeners' = [listeners EXCEPT ![of[l]] = @ \ {l}]
      /\ UNCHANGED <<registered, made, done, restarting, closeAt, closing>>
  BY DEF Detach, Drop, closeVars
<1>3. HandlersHaveStreamers'
  BY StreamerAssumption DEF Detach, Drop, HandlersHaveStreamers, handlerVars
<1>4. StoppedIsOffTheMap' /\ StreamersHaveState'
  BY <1>1, <1>2 DEF StoppedIsOffTheMap, StreamersHaveState
<1>5. \A s \in Streamers : listeners'[s] \subseteq listeners[s]
  BY <1>1, <1>2 DEF StreamersHaveState
<1>6. UnbuiltAreUnheard' /\ RegisteredIsStarted'
  BY <1>2, <1>5 DEF UnbuiltAreUnheard, RegisteredIsStarted
<1>7. QED
  BY <1>3, <1>4, <1>6

-----------------------------------------------------------------------------
(* The steps that stop a streamer.                                          *)

\* The linger stops a streamer it finds without listeners.
LEMMA IdleStopKeeps ==
  ASSUME IInv, NEW s \in Streamers, IdleStop(s)
  PROVE  IInv'
<1> USE DEF IInv
<1>1. /\ done' \in [Streamers -> Loops \cup {NoLoop}]
      /\ \A t \in Streamers : listeners[t] # {} => done'[t] = done[t]
  <2>1. CASE listeners[s] = {}
    BY <2>1, StopTakesOneLoop DEF IdleStop, Unheard
  <2>2. CASE listeners[s] # {}
    BY <2>2 DEF IdleStop, Unheard, StreamersHaveState
  <2>3. QED
    BY <2>1, <2>2
<1>2. HandlersHaveStreamers' /\ StoppedIsOffTheMap' /\ UnbuiltAreUnheard'
  BY DEF IdleStop, Unheard, HandlersHaveStreamers, StoppedIsOffTheMap, UnbuiltAreUnheard,
         handlerVars, closeVars
<1>3. StreamersHaveState' /\ RegisteredIsStarted'
  BY <1>1 DEF IdleStop, Unheard, StreamersHaveState, RegisteredIsStarted
<1>4. QED
  BY <1>2, <1>3

\* An edit, and shutdown, stop the streamer they took off the map.
LEMMA OwnerStopKeeps ==
  ASSUME IInv, StopLoop \/ StopAndNote
  PROVE  IInv'
<1> USE DEF IInv
<1>1. PICK s \in Streamers : StopLocked(s) /\ s # registered
  BY StreamerAssumption DEF StopLoop, StopAndNote, StoppedIsOffTheMap
<1>2. /\ done' \in [Streamers -> Loops \cup {NoLoop}]
      /\ \A t \in Streamers : t # s => done'[t] = done[t]
  BY <1>1, StopTakesOneLoop
<1>3. UNCHANGED <<registered, made, listeners, handlerVars, closing>>
  BY DEF StopLoop, StopAndNote, closeVars
<1>4. HandlersHaveStreamers' /\ UnbuiltAreUnheard'
  BY <1>3 DEF HandlersHaveStreamers, UnbuiltAreUnheard, handlerVars
<1>5. StoppedIsOffTheMap'
  BY DEF StopLoop, StopAndNote, StoppedIsOffTheMap, closeVars
<1>6. StreamersHaveState' /\ RegisteredIsStarted'
  BY <1>1, <1>2, <1>3 DEF StreamersHaveState, RegisteredIsStarted
<1>7. QED
  BY <1>4, <1>5, <1>6

\* What takes a streamer off the map.
LEMMA UnregisterKeeps ==
  ASSUME IInv, Unregister \/ CloseService
  PROVE  IInv'
<1> USE DEF IInv
<1>1. UNCHANGED <<made, listeners, done, handlerVars>> /\ registered' = NoStreamer
  BY DEF Unregister, CloseService
<1>2. HandlersHaveStreamers' /\ StreamersHaveState' /\ UnbuiltAreUnheard'
  BY <1>1 DEF HandlersHaveStreamers, StreamersHaveState, UnbuiltAreUnheard, handlerVars
<1>3. StoppedIsOffTheMap'
  BY DEF Unregister, CloseService, StoppedIsOffTheMap, closeVars
<1>4. RegisteredIsStarted'
  BY <1>1, StreamerAssumption DEF RegisteredIsStarted
<1>5. QED
  BY <1>2, <1>3, <1>4

\* The rest changes nothing of what the invariant is about.
LEMMA OthersKeep ==
  ASSUME IInv,
         \/ \E s \in Streamers : Elapse(s)
         \/ \E p \in Loops : LoopStep(p)
         \/ Signal
         \/ Awaited
         \/ UNCHANGED vars
  PROVE  IInv'
<1> USE DEF IInv
<1>1. /\ UNCHANGED <<registered, made, listeners, done, handlerVars, restarting, closing>>
      /\ closeAt' = closeAt \/ closeAt' = "done"
  BY DEF Elapse, LoopStep, Signal, Awaited, vars, closeVars
<1>2. StoppedIsOffTheMap'
  BY <1>1 DEF StoppedIsOffTheMap
<1>3. HandlersHaveStreamers' /\ StreamersHaveState' /\ UnbuiltAreUnheard' /\ RegisteredIsStarted'
  BY <1>1 DEF HandlersHaveStreamers, StreamersHaveState, UnbuiltAreUnheard,
              RegisteredIsStarted, handlerVars
<1>4. QED
  BY <1>2, <1>3

-----------------------------------------------------------------------------
LEMMA NextKeeps ==
  ASSUME IInv, [Next]_vars
  PROVE  IInv'
<1>1. CASE \E l \in Listeners : Find(l) \/ Attach(l) \/ Detach(l) \/ Drop(l)
  BY <1>1, FindKeeps, AttachKeeps, LeavingKeeps
<1>2. CASE \E s \in Streamers : IdleStop(s)
  BY <1>2, IdleStopKeeps
<1>3. CASE StopLoop \/ StopAndNote
  BY <1>3, OwnerStopKeeps
<1>4. CASE Unregister \/ CloseService
  BY <1>4, UnregisterKeeps
<1>5. CASE \/ \E s \in Streamers : Elapse(s)
           \/ \E p \in Loops : LoopStep(p)
           \/ Signal \/ Awaited \/ UNCHANGED vars
  BY <1>5, OthersKeep
<1>6. QED
  BY <1>1, <1>2, <1>3, <1>4, <1>5 DEF Next

\* The inductive invariant holds in every reachable state: of the attaching,
\* leaving, lingering, editing and closing of service.go and streamer.go.
THEOREM StreamerInvariant == Spec => []IInv
BY NextKeeps, InitHolds, PTL DEF Spec

\* Attach's promise: the streamer the service would hand out, if anybody
\* listens to it, has a loop that is meant to run; the linger timers of any
\* number of departures, and an edit or a shutdown of another streamer, never
\* take it away.
THEOREM NobodyAttachesToTheDead == Spec => []RegisteredIsStarted
<1>1. IInv => RegisteredIsStarted
  BY DEF IInv
<1>2. QED
  BY <1>1, StreamerInvariant, PTL

-----------------------------------------------------------------------------
(* One loop at a time.                                                      *)

\* What is known of the loops of any streamer, stopped by an edit or not: one that is
\* over has an owner no more, one that is under way was started by a streamer that was
\* built, and startLocked keeps done and lastDone together.
LoopsTyped ==
  /\ stage \in [Loops -> {"waiting", "running", "over"}]
  /\ owner \in [Loops -> Streamers \cup {NoStreamer}]
  /\ prev \in [Loops -> Loops \cup {NoLoop}]
  /\ lastDone \in [Streamers -> Loops \cup {NoLoop}]
  /\ callbacks \in [Streamers -> Nat]
  /\ \A p \in Loops : IF stage[p] = "over" THEN owner[p] = NoStreamer ELSE owner[p] \in made
  /\ cancelled \subseteq {p \in Loops : stage[p] # "over"}

DoneIsTheirs ==
  \A s \in Streamers : done[s] # NoLoop =>
    /\ done[s] = lastDone[s]
    /\ stage[done[s]] # "over" => owner[done[s]] = s

\* A loop under way whose context is not done is the one its streamer means to run;
\* once the process stops there is none, and before that the one it means to run is
\* not cancelled.
LiveIsDone ==
  \A p \in Loops : stage[p] # "over" /\ p \notin cancelled => done[owner[p]] = p /\ ~stopping

DoneIsLive ==
  ~stopping => \A s \in Streamers : done[s] \notin cancelled

\* Of the streamer on the map: a linger that has elapsed found every loop over that
\* was stopped before.
CallbacksFindNothing(s) ==
  ~stopping /\ callbacks[s] > 0 => \A p \in cancelled : owner[p] # s

OneRuns(s) ==
  \A p, q \in Loops :
    stage[p] = "running" /\ stage[q] = "running" /\ owner[p] = s /\ owner[q] = s => p = q

\* A stopped loop that still runs is the last one, or the one that the last waits for.
LastWaits(s) ==
  ~stopping => \A p \in cancelled : stage[p] = "running" /\ owner[p] = s =>
    IF done[s] = NoLoop THEN lastDone[s] = p
    ELSE stage[done[s]] = "waiting" /\ prev[done[s]] = p

RegisteredIsSerial ==
  \A s \in Streamers : s = registered /\ s \notin crowded =>
    CallbacksFindNothing(s) /\ OneRuns(s) /\ LastWaits(s)

SerialInv ==
  /\ IInv
  /\ LoopsTyped /\ DoneIsTheirs /\ LiveIsDone /\ DoneIsLive
  /\ RegisteredIsSerial

LEMMA SerialInit == Init => SerialInv
<1> SUFFICES ASSUME Init PROVE SerialInv
  OBVIOUS
<1>1. IInv
  BY InitHolds
<1>2. LoopsTyped
  BY DEF Init, LoopsTyped
<1>3. DoneIsTheirs /\ LiveIsDone /\ DoneIsLive
  BY DEF Init, DoneIsTheirs, LiveIsDone, DoneIsLive
<1>4. RegisteredIsSerial
  BY StreamerAssumption DEF Init, RegisteredIsSerial
<1>5. QED
  BY <1>1, <1>2, <1>3, <1>4 DEF SerialInv

\* A streamer that is not built has no loop.
LEMMA UnbuiltHaveNoLoop ==
  ASSUME LoopsTyped, NEW s, s \notin made, s # NoStreamer
  PROVE  \A p \in Loops : owner[p] # s
BY DEF LoopsTyped

LEMMA RunningHaveStreamers ==
  ASSUME SerialInv
  PROVE  /\ made \subseteq Streamers /\ registered \in Streamers \cup {NoStreamer}
         /\ \A p \in Loops : stage[p] # "over" => owner[p] \in Streamers
         /\ NoStreamer \notin Streamers /\ NoLoop \notin Loops
         /\ done \in [Streamers -> Loops \cup {NoLoop}]
BY StreamerAssumption DEF SerialInv, IInv, StoppedIsOffTheMap, StreamersHaveState, LoopsTyped

\* A step that is about no loop; the map may have got a new streamer, or none.
LEMMA LoopsStay ==
  ASSUME SerialInv, IInv',
         UNCHANGED <<stage, owner, prev, cancelled, done, lastDone, stopping, callbacks, crowded>>,
         made \subseteq made', registered' \in {registered, NoStreamer} \cup (Streamers \ made)
  PROVE  SerialInv'
<1> USE DEF SerialInv
<1>1. LoopsTyped' /\ DoneIsTheirs' /\ LiveIsDone' /\ DoneIsLive'
  BY DEF LoopsTyped, DoneIsTheirs, LiveIsDone, DoneIsLive
<1>2. RegisteredIsSerial'
  <2> SUFFICES ASSUME NEW s \in Streamers, s = registered', s \notin crowded
               PROVE  CallbacksFindNothing(s)' /\ OneRuns(s)' /\ LastWaits(s)'
    BY DEF RegisteredIsSerial
  <2>1. CASE s = registered
    BY <2>1 DEF RegisteredIsSerial, CallbacksFindNothing, OneRuns, LastWaits
  <2>2. CASE s # registered
    <3>1. s \notin made
      BY <2>2, RunningHaveStreamers
    <3>2. \A p \in Loops : owner[p] # s
      BY <3>1, UnbuiltHaveNoLoop, RunningHaveStreamers
    <3>3. QED
      BY <3>2 DEF LoopsTyped, CallbacksFindNothing, OneRuns, LastWaits
  <2>3. QED
    BY <2>1, <2>2
<1>3. QED
  BY <1>1, <1>2

LEMMA QuietStepsAreSerial ==
  ASSUME SerialInv, IInv',
         \/ \E l \in Listeners : Find(l) \/ Detach(l) \/ Drop(l)
         \/ Unregister \/ CloseService \/ Awaited \/ UNCHANGED vars
  PROVE  SerialInv'
<1>1. UNCHANGED <<stage, owner, prev, cancelled, done, lastDone, stopping, callbacks, crowded>>
  BY DEF Find, Detach, Drop, Unregister, CloseService, Awaited, vars, loopVars, timerVars
<1>2. made \subseteq made' /\ registered' \in {registered, NoStreamer} \cup (Streamers \ made)
  BY DEF Find, Detach, Drop, Unregister, CloseService, Awaited, vars
<1>3. QED
  BY <1>1, <1>2, LoopsStay

\* startLocked: the new loop waits for the last.
LEMMA AttachIsSerial ==
  ASSUME SerialInv, IInv', NEW l \in Listeners, Attach(l)
  PROVE  SerialInv'
<1> USE DEF SerialInv
<1> DEFINE s == of[l]
<1>1. s \in Streamers /\ s \in made
  BY DEF Attach, IInv, HandlersHaveStreamers, StoppedIsOffTheMap
<1>2. UNCHANGED <<registered, made, stopping, callbacks, crowded>>
  BY DEF Attach
<1>3. CASE Started(s)
  BY <1>2, <1>3, LoopsStay DEF Attach, StartLocked, loopVars
<1>4. CASE ~Started(s)
  <2>1. PICK p \in Loops :
          /\ Fresh(p)
          /\ done' = [done EXCEPT ![s] = p]
          /\ lastDone' = [lastDone EXCEPT ![s] = p]
          /\ stage' = [stage EXCEPT ![p] = "waiting"]
          /\ owner' = [owner EXCEPT ![p] = s]
          /\ prev' = [prev EXCEPT ![p] = lastDone[s]]
          /\ cancelled' = IF stopping THEN cancelled \cup {p} ELSE cancelled
    BY <1>4 DEF Attach, StartLocked
  <2>2. /\ stage[p] = "over" /\ owner[p] = NoStreamer /\ p \notin cancelled /\ p # NoLoop
        /\ \A t \in Streamers : p \notin {done[t], lastDone[t]}
        /\ done[s] = NoLoop
    BY <1>4, <2>1, RunningHaveStreamers DEF Fresh, LoopsTyped, Started
  <2> HIDE DEF s
  <2>3. LoopsTyped'
    BY <1>1, <1>2, <2>1, <2>2 DEF LoopsTyped
  <2>4. DoneIsTheirs'
    BY <1>1, <2>1, <2>2, RunningHaveStreamers DEF DoneIsTheirs, LoopsTyped
  <2>5. LiveIsDone'
    <3> SUFFICES ASSUME NEW q \in Loops, stage'[q] # "over", q \notin cancelled'
                 PROVE  done'[owner'[q]] = q /\ ~stopping'
      BY DEF LiveIsDone
    <3>1. CASE q = p
      BY <1>1, <1>2, <2>1, <3>1, RunningHaveStreamers DEF LoopsTyped
    <3>2. CASE q # p
      <4>1. stage[q] # "over" /\ q \notin cancelled /\ owner'[q] = owner[q]
        BY <2>1, <3>2 DEF LoopsTyped
      <4>2. done[owner[q]] = q /\ ~stopping /\ owner[q] \in Streamers /\ q # NoLoop
        BY <4>1, RunningHaveStreamers DEF LiveIsDone
      <4>3. owner[q] # s
        BY <2>2, <4>2
      <4>4. QED
        BY <1>2, <2>1, <4>1, <4>2, <4>3, RunningHaveStreamers
    <3>3. QED
      BY <3>1, <3>2
  <2>6. DoneIsLive'
    BY <1>1, <1>2, <2>1, <2>2, RunningHaveStreamers DEF DoneIsLive
  <2>7. RegisteredIsSerial'
    <3> SUFFICES ASSUME NEW t \in Streamers, t = registered, t \notin crowded
                 PROVE  CallbacksFindNothing(t)' /\ OneRuns(t)' /\ LastWaits(t)'
      BY <1>2 DEF RegisteredIsSerial
    <3>1. CallbacksFindNothing(t) /\ OneRuns(t) /\ LastWaits(t)
      BY DEF RegisteredIsSerial
    <3>2. CallbacksFindNothing(t)'
      BY <1>2, <2>1, <2>2, <3>1 DEF CallbacksFindNothing, LoopsTyped
    <3>3. OneRuns(t)'
      BY <2>1, <2>2, <3>1 DEF OneRuns, LoopsTyped
    <3>4. LastWaits(t)'
      <4> SUFFICES ASSUME ~stopping, NEW q \in cancelled, stage'[q] = "running", owner'[q] = t
                   PROVE  IF done'[t] = NoLoop THEN lastDone'[t] = q
                          ELSE stage'[done'[t]] = "waiting" /\ prev'[done'[t]] = q
        BY <1>2, <2>1 DEF LastWaits
      <4>1. q \in Loops /\ q # p /\ stage[q] = "running" /\ owner[q] = t
        BY <2>1, <2>2 DEF LoopsTyped
      <4>2. IF done[t] = NoLoop THEN lastDone[t] = q
            ELSE stage[done[t]] = "waiting" /\ prev[done[t]] = q
        BY <3>1, <4>1 DEF LastWaits
      <4>3. CASE t = s
        <5>1. lastDone[s] = q /\ done'[s] = p
          BY <1>1, <2>1, <2>2, <4>2, <4>3, RunningHaveStreamers
        <5>2. stage'[p] = "waiting" /\ prev'[p] = lastDone[s]
          BY <2>1 DEF LoopsTyped
        <5>3. QED
          BY <2>2, <4>3, <5>1, <5>2
      <4>4. CASE t # s
        <5>1. done'[t] = done[t] /\ lastDone'[t] = lastDone[t] /\ done[t] # p
          BY <2>1, <2>2, <4>4, RunningHaveStreamers DEF LoopsTyped
        <5>2. CASE done[t] = NoLoop
          BY <4>2, <5>1, <5>2
        <5>3. CASE done[t] # NoLoop
          <6>1. done[t] \in Loops
            BY <5>3, RunningHaveStreamers
          <6>2. stage'[done[t]] = stage[done[t]] /\ prev'[done[t]] = prev[done[t]]
            BY <2>1, <5>1, <6>1 DEF LoopsTyped
          <6>3. QED
            BY <4>2, <5>1, <5>3, <6>2
        <5>4. QED
          BY <5>2, <5>3
      <4>5. QED
        BY <4>3, <4>4
    <3>5. QED
      BY <3>2, <3>3, <3>4
  <2>8. QED
    BY <2>3, <2>4, <2>5, <2>6, <2>7
<1>5. QED
  BY <1>3, <1>4

\* The linger elapses when the loops that were stopped before are over.
LEMMA ElapseIsSerial ==
  ASSUME PromptUnwind, SerialInv, IInv', NEW s \in Streamers, Elapse(s)
  PROVE  SerialInv'
<1> USE DEF SerialInv
<1>1. UNCHANGED <<stage, owner, prev, cancelled, done, lastDone, stopping, made, registered,
                  crowded>>
  BY DEF Elapse, loopVars
<1>2. callbacks' = [callbacks EXCEPT ![s] = @ + 1] /\ \A p \in cancelled : owner[p] # s
  BY DEF Elapse, LingerMayElapse
<1>3. LoopsTyped'
  <2>1. callbacks' \in [Streamers -> Nat]
    BY <1>2 DEF LoopsTyped
  <2>2. QED
    BY <1>1, <2>1 DEF LoopsTyped
<1>4. DoneIsTheirs' /\ LiveIsDone' /\ DoneIsLive'
  BY <1>1 DEF DoneIsTheirs, LiveIsDone, DoneIsLive
<1>5. RegisteredIsSerial'
  <2> SUFFICES ASSUME NEW t \in Streamers, t = registered, t \notin crowded
               PROVE  CallbacksFindNothing(t)' /\ OneRuns(t)' /\ LastWaits(t)'
    BY <1>1 DEF RegisteredIsSerial
  <2>1. CallbacksFindNothing(t) /\ OneRuns(t) /\ LastWaits(t)
    BY DEF RegisteredIsSerial
  <2>2. CallbacksFindNothing(t)'
    BY <1>1, <1>2, <2>1 DEF CallbacksFindNothing, LoopsTyped
  <2>3. QED
    BY <1>1, <2>1, <2>2 DEF OneRuns, LastWaits
<1>6. QED
  BY <1>3, <1>4, <1>5

\* stopLocked cancels the loop that its streamer means to run, and no other.
LEMMA CancelIsSerial ==
  ASSUME SerialInv, NEW s \in Streamers, CancelLoop(s),
         UNCHANGED <<stage, owner, prev, lastDone, stopping, made>>,
         callbacks' \in [Streamers -> Nat]
  PROVE  /\ LoopsTyped' /\ DoneIsTheirs' /\ LiveIsDone' /\ DoneIsLive'
         /\ done'[s] = NoLoop
         /\ \A t \in Streamers : t # s => done'[t] = done[t]
         /\ \A p \in cancelled' \ cancelled : owner[p] = s /\ p = done[s]
<1> USE DEF SerialInv
<1>1. /\ cancelled' = cancelled \cup Running(s)
      /\ done'[s] = NoLoop
      /\ \A t \in Streamers : t # s => done'[t] = done[t]
  BY RunningHaveStreamers DEF CancelLoop
<1>2. \A p \in Running(s) : p \in Loops /\ p = done[s] /\ stage[p] # "over" /\ owner[p] = s
  BY RunningHaveStreamers DEF Running, DoneIsTheirs
<1>3. LoopsTyped'
  BY <1>1, <1>2 DEF LoopsTyped
<1>4. DoneIsTheirs'
  BY <1>1 DEF DoneIsTheirs
<1>5. LiveIsDone'
  <2> SUFFICES ASSUME NEW p \in Loops, stage[p] # "over", p \notin cancelled'
               PROVE  done'[owner[p]] = p /\ ~stopping
    BY DEF LiveIsDone
  <2>1. done[owner[p]] = p /\ ~stopping /\ owner[p] \in Streamers
    BY <1>1, RunningHaveStreamers DEF LiveIsDone
  <2>2. owner[p] # s
    BY <1>1, <2>1 DEF Running
  <2>3. QED
    BY <1>1, <2>1, <2>2
<1>6. DoneIsLive'
  <2> SUFFICES ASSUME ~stopping, NEW t \in Streamers
               PROVE  done'[t] \notin cancelled'
    BY DEF DoneIsLive
  <2>1. CASE t = s
    BY <1>1, <1>3, <2>1, RunningHaveStreamers DEF LoopsTyped
  <2>2. CASE t # s
    <3>1. done'[t] = done[t] /\ done[t] \notin cancelled
      BY <1>1, <2>2 DEF DoneIsLive
    <3>2. done[t] \notin Running(s)
      BY <1>2, <2>2, RunningHaveStreamers DEF DoneIsTheirs
    <3>3. QED
      BY <1>1, <3>1, <3>2
  <2>3. QED
    BY <2>1, <2>2
<1>7. QED
  BY <1>1, <1>2, <1>3, <1>4, <1>5, <1>6

\* ... so that the streamers it is not about do not notice.
LEMMA OthersDoNotNotice ==
  ASSUME SerialInv, NEW s \in Streamers, CancelLoop(s),
         UNCHANGED <<stage, owner, prev, lastDone, stopping, made>>,
         callbacks' \in [Streamers -> Nat],
         NEW t \in Streamers, t # s, t = registered, t \notin crowded, callbacks'[t] = callbacks[t]
  PROVE  CallbacksFindNothing(t)' /\ OneRuns(t)' /\ LastWaits(t)'
<1>1. CallbacksFindNothing(t) /\ OneRuns(t) /\ LastWaits(t)
  BY DEF SerialInv, RegisteredIsSerial
<1>2. done'[t] = done[t] /\ \A p \in cancelled' : owner[p] = t => p \in cancelled
  BY CancelIsSerial
<1>3. CallbacksFindNothing(t)'
  BY <1>1, <1>2 DEF CallbacksFindNothing
<1>4. OneRuns(t)' /\ LastWaits(t)'
  BY <1>1, <1>2 DEF OneRuns, LastWaits
<1>5. QED
  BY <1>3, <1>4

\* An edit and shutdown stop a streamer that is off the map.
LEMMA OwnerStopIsSerial ==
  ASSUME SerialInv, IInv', StopLoop \/ StopAndNote
  PROVE  SerialInv'
<1> USE DEF SerialInv
<1>1. PICK s \in Streamers : CancelLoop(s) /\ s # registered
  BY StreamerAssumption DEF StopLoop, StopAndNote, StopLocked, IInv, StoppedIsOffTheMap
<1>2. UNCHANGED <<stage, owner, prev, lastDone, stopping, made, registered, callbacks, crowded>>
  BY DEF StopLoop, StopAndNote, loopVars
<1>3. callbacks' \in [Streamers -> Nat]
  BY <1>2 DEF LoopsTyped
<1>4. LoopsTyped' /\ DoneIsTheirs' /\ LiveIsDone' /\ DoneIsLive'
  BY <1>1, <1>2, <1>3, CancelIsSerial
<1>5. RegisteredIsSerial'
  <2> SUFFICES ASSUME NEW t \in Streamers, t = registered, t \notin crowded
               PROVE  CallbacksFindNothing(t)' /\ OneRuns(t)' /\ LastWaits(t)'
    BY <1>2 DEF RegisteredIsSerial
  <2>1. QED
    BY <1>1, <1>2, <1>3, OthersDoNotNotice
<1>6. QED
  BY <1>4, <1>5

\* The linger's stop: the loop it cancels is the only one of its streamer under way
\* that is cancelled, as no other was when the linger elapsed.
LEMMA IdleStopIsSerial ==
  ASSUME SerialInv, IInv', NEW s \in Streamers, IdleStop(s)
  PROVE  SerialInv'
<1> USE DEF SerialInv
<1>1. /\ UNCHANGED <<stage, owner, prev, lastDone, stopping, made, registered>>
      /\ callbacks[s] > 0 /\ callbacks' = [callbacks EXCEPT ![s] = @ - 1]
      /\ crowded' = IF callbacks[s] > 1 THEN crowded \cup {s} ELSE crowded
      /\ CancelLoop(s) \/ UNCHANGED <<done, cancelled>>
  BY DEF IdleStop, StopLocked, loopVars
<1>2. /\ callbacks' \in [Streamers -> Nat]
      /\ callbacks'[s] = callbacks[s] - 1
      /\ \A t \in Streamers : t # s => callbacks'[t] = callbacks[t]
  BY <1>1 DEF LoopsTyped
<1>3. CASE CancelLoop(s)
  <2>1. LoopsTyped' /\ DoneIsTheirs' /\ LiveIsDone' /\ DoneIsLive'
    BY <1>1, <1>2, <1>3, CancelIsSerial
  <2>2. RegisteredIsSerial'
    <3> SUFFICES ASSUME NEW t \in Streamers, t = registered, t \notin crowded'
                 PROVE  CallbacksFindNothing(t)' /\ OneRuns(t)' /\ LastWaits(t)'
      BY <1>1 DEF RegisteredIsSerial
    <3>1. t \notin crowded
      BY <1>1
    <3>2. CASE t # s
      BY <1>1, <1>2, <1>3, <3>1, <3>2, OthersDoNotNotice
    <3>3. CASE t = s
      <4>1. CallbacksFindNothing(s) /\ OneRuns(s)
        BY <3>1, <3>3 DEF RegisteredIsSerial
      <4>2. ~(callbacks'[s] > 0)
        BY <1>1, <1>2, <3>3 DEF LoopsTyped
      <4>3. /\ done'[s] = NoLoop
            /\ \A p \in cancelled' \ cancelled : owner[p] = s /\ p = done[s]
        BY <1>1, <1>2, <1>3, CancelIsSerial
      <4>4. LastWaits(s)'
        <5> SUFFICES ASSUME ~stopping, NEW p \in cancelled', stage[p] = "running", owner[p] = s
                     PROVE  lastDone[s] = p
          BY <1>1, <4>3 DEF LastWaits
        <5>1. p \notin cancelled
          BY <1>1, <4>1 DEF CallbacksFindNothing
        <5>2. p = done[s] /\ p \in Loops
          BY <2>1, <4>3, <5>1 DEF LoopsTyped
        <5>3. QED
          BY <5>2, RunningHaveStreamers DEF DoneIsTheirs
      <4>5. CallbacksFindNothing(s)' /\ OneRuns(s)'
        BY <1>1, <4>1, <4>2 DEF CallbacksFindNothing, OneRuns
      <4>6. QED
        BY <3>3, <4>4, <4>5
    <3>4. QED
      BY <3>2, <3>3
  <2>3. QED
    BY <2>1, <2>2
<1>4. CASE UNCHANGED <<done, cancelled>>
  <2>1. LoopsTyped' /\ DoneIsTheirs' /\ LiveIsDone' /\ DoneIsLive'
    BY <1>1, <1>2, <1>4 DEF LoopsTyped, DoneIsTheirs, LiveIsDone, DoneIsLive
  <2>2. RegisteredIsSerial'
    <3> SUFFICES ASSUME NEW t \in Streamers, t = registered, t \notin crowded'
                 PROVE  CallbacksFindNothing(t)' /\ OneRuns(t)' /\ LastWaits(t)'
      BY <1>1 DEF RegisteredIsSerial
    <3>1. CallbacksFindNothing(t) /\ OneRuns(t) /\ LastWaits(t)
      BY <1>1 DEF RegisteredIsSerial
    <3>2. callbacks'[t] > 0 => callbacks[t] > 0
      BY <1>1, <1>2 DEF LoopsTyped
    <3>3. QED
      BY <1>1, <1>4, <3>1, <3>2 DEF CallbacksFindNothing, OneRuns, LastWaits
  <2>3. QED
    BY <2>1, <2>2
<1>5. QED
  BY <1>1, <1>3, <1>4

\* Shutdown cancels every loop there is.
LEMMA SignalIsSerial ==
  ASSUME SerialInv, IInv', Signal
  PROVE  SerialInv'
<1> USE DEF SerialInv
<1>1. /\ UNCHANGED <<stage, owner, prev, done, lastDone, made, registered, callbacks, crowded>>
      /\ stopping' = TRUE
      /\ cancelled' = cancelled \cup {p \in Loops : stage[p] # "over"}
  BY DEF Signal, loopVars, timerVars
<1>2. LoopsTyped' /\ DoneIsTheirs' /\ LiveIsDone' /\ DoneIsLive'
  BY <1>1 DEF LoopsTyped, DoneIsTheirs, LiveIsDone, DoneIsLive
<1>3. RegisteredIsSerial'
  BY <1>1 DEF RegisteredIsSerial, CallbacksFindNothing, OneRuns, LastWaits
<1>4. QED
  BY <1>2, <1>3

\* A loop that begins to play: the one before is over, so no other of its streamer runs.
LEMMA EnterIsSerial ==
  ASSUME SerialInv, IInv', NEW p \in Loops, Enter(p),
         UNCHANGED <<done, lastDone, stopping, made, registered, callbacks, crowded>>
  PROVE  SerialInv'
<1> USE DEF SerialInv
<1>1. /\ stage[p] = "waiting" /\ Over(prev[p]) /\ p \notin cancelled
      /\ stage' = [stage EXCEPT ![p] = "running"]
      /\ prev' = [prev EXCEPT ![p] = NoLoop]
      /\ UNCHANGED <<owner, cancelled>>
  BY DEF Enter
<1>2. /\ stage'[p] = "running"
      /\ \A q \in Loops : q # p => stage'[q] = stage[q] /\ prev'[q] = prev[q]
      /\ \A q \in Loops : stage'[q] = "over" <=> stage[q] = "over"
  BY <1>1 DEF LoopsTyped
<1>3. LoopsTyped'
  BY <1>1, <1>2, StreamerAssumption DEF LoopsTyped
<1>4. DoneIsTheirs' /\ LiveIsDone' /\ DoneIsLive'
  <2>1. DoneIsTheirs'
    BY <1>1, <1>2, RunningHaveStreamers DEF DoneIsTheirs
  <2>2. LiveIsDone' /\ DoneIsLive'
    BY <1>1, <1>2 DEF LiveIsDone, DoneIsLive
  <2>3. QED
    BY <2>1, <2>2
<1>5. RegisteredIsSerial'
  <2> SUFFICES ASSUME NEW t \in Streamers, t = registered, t \notin crowded
               PROVE  CallbacksFindNothing(t)' /\ OneRuns(t)' /\ LastWaits(t)'
    BY DEF RegisteredIsSerial
  <2>1. CallbacksFindNothing(t) /\ OneRuns(t) /\ LastWaits(t)
    BY DEF RegisteredIsSerial
  <2>2. done[owner[p]] = p /\ ~stopping /\ owner[p] \in Streamers /\ p # NoLoop
    BY <1>1, RunningHaveStreamers DEF LiveIsDone
  <2>3. \A q \in Loops : q # p /\ owner[q] = owner[p] /\ owner[p] = t => stage[q] # "running"
    <3> SUFFICES ASSUME NEW q \in Loops, q # p, owner[q] = t, owner[p] = t, stage[q] = "running"
                 PROVE  FALSE
      OBVIOUS
    <3>1. q \in cancelled
      BY <2>2 DEF LiveIsDone
    <3>2. prev[p] = q
      BY <2>1, <2>2, <3>1 DEF LastWaits
    <3>3. QED
      BY <1>1, <3>2, RunningHaveStreamers DEF Over
  <2>4. CallbacksFindNothing(t)'
    BY <1>1, <2>1 DEF CallbacksFindNothing
  <2>5. OneRuns(t)'
    BY <1>1, <1>2, <2>1, <2>3 DEF OneRuns
  <2>6. LastWaits(t)'
    <3> SUFFICES ASSUME NEW q \in cancelled, stage'[q] = "running", owner[q] = t
                 PROVE  IF done[t] = NoLoop THEN lastDone[t] = q
                        ELSE stage'[done[t]] = "waiting" /\ prev'[done[t]] = q
      BY <1>1 DEF LastWaits
    <3>1. q \in Loops /\ q # p /\ stage[q] = "running"
      BY <1>1, <1>2 DEF LoopsTyped
    <3>2. IF done[t] = NoLoop THEN lastDone[t] = q
          ELSE stage[done[t]] = "waiting" /\ prev[done[t]] = q
      BY <2>1, <2>2, <3>1 DEF LastWaits
    <3>3. CASE done[t] = NoLoop
      BY <3>2, <3>3
    <3>4. CASE done[t] # NoLoop
      <4>1. done[t] \in Loops /\ stage[done[t]] = "waiting" /\ prev[done[t]] = q
        BY <3>2, <3>4, RunningHaveStreamers
      <4>2. done[t] # p
        <5>1. SUFFICES ASSUME done[t] = p PROVE FALSE
          OBVIOUS
        <5>2. owner[p] = t
          BY <1>1, <3>4, <5>1 DEF DoneIsTheirs
        <5>3. QED
          BY <2>3, <3>1, <5>2
      <4>3. QED
        BY <1>2, <3>4, <4>1, <4>2
    <3>5. QED
      BY <3>3, <3>4
  <2>7. QED
    BY <2>4, <2>5, <2>6
<1>6. QED
  BY <1>3, <1>4, <1>5

\* A loop that returns is forgotten; the one its streamer means to run waits on, as it is
\* not cancelled.
LEMMA ReturnIsSerial ==
  ASSUME SerialInv, IInv', NEW p \in Loops, stage[p] # "over", Return(p),
         stage[p] = "waiting" => p \in cancelled,
         UNCHANGED <<done, lastDone, stopping, made, registered, callbacks, crowded>>
  PROVE  SerialInv'
<1> USE DEF SerialInv
<1>1. /\ stage' = [stage EXCEPT ![p] = "over"]
      /\ owner' = [owner EXCEPT ![p] = NoStreamer]
      /\ prev' = [prev EXCEPT ![p] = NoLoop]
      /\ cancelled' = cancelled \ {p}
  BY DEF Return
<1>2. /\ stage'[p] = "over" /\ owner'[p] = NoStreamer
      /\ \A q \in Loops : q # p => stage'[q] = stage[q] /\ prev'[q] = prev[q] /\ owner'[q] = owner[q]
  BY <1>1 DEF LoopsTyped
<1>3. LoopsTyped'
  BY <1>1, <1>2 DEF LoopsTyped
<1>4. DoneIsTheirs'
  BY <1>2, RunningHaveStreamers DEF DoneIsTheirs
<1>5. LiveIsDone' /\ DoneIsLive'
  BY <1>1, <1>2 DEF LiveIsDone, DoneIsLive
<1>6. RegisteredIsSerial'
  <2> SUFFICES ASSUME NEW t \in Streamers, t = registered, t \notin crowded
               PROVE  CallbacksFindNothing(t)' /\ OneRuns(t)' /\ LastWaits(t)'
    BY DEF RegisteredIsSerial
  <2>1. CallbacksFindNothing(t) /\ OneRuns(t) /\ LastWaits(t)
    BY DEF RegisteredIsSerial
  <2>2. \A q \in cancelled' : q \in Loops /\ q \in cancelled /\ q # p
    BY <1>1 DEF LoopsTyped
  <2>3. CallbacksFindNothing(t)' /\ OneRuns(t)'
    BY <1>2, <2>1, <2>2 DEF CallbacksFindNothing, OneRuns
  <2>4. LastWaits(t)'
    <3> SUFFICES ASSUME ~stopping, NEW q \in cancelled', stage'[q] = "running", owner'[q] = t
                 PROVE  IF done[t] = NoLoop THEN lastDone[t] = q
                        ELSE stage'[done[t]] = "waiting" /\ prev'[done[t]] = q
      BY DEF LastWaits
    <3>1. IF done[t] = NoLoop THEN lastDone[t] = q
          ELSE stage[done[t]] = "waiting" /\ prev[done[t]] = q
      BY <1>2, <2>1, <2>2 DEF LastWaits
    <3>2. CASE done[t] # p
      BY <1>2, <3>1, <3>2, RunningHaveStreamers
    <3>3. CASE done[t] = p
      <4>1. stage[p] = "waiting" /\ p \notin cancelled
        BY <3>1, <3>3, RunningHaveStreamers DEF DoneIsLive
      <4>2. QED
        BY <4>1
    <3>4. QED
      BY <3>2, <3>3
  <2>5. QED
    BY <2>3, <2>4
<1>7. QED
  BY <1>3, <1>4, <1>5, <1>6

LEMMA LoopStepIsSerial ==
  ASSUME SerialInv, IInv', NEW p \in Loops, LoopStep(p)
  PROVE  SerialInv'
<1>1. UNCHANGED <<done, lastDone, stopping, made, registered, callbacks, crowded>>
  BY DEF LoopStep, timerVars
<1>2. CASE Enter(p)
  BY <1>1, <1>2, EnterIsSerial
<1>3. CASE GiveUp(p) \/ Exit(p)
  <2>1. Return(p) /\ stage[p] # "over" /\ (stage[p] = "waiting" => p \in cancelled)
    BY <1>3 DEF GiveUp, Exit
  <2>2. QED
    BY <1>1, <2>1, ReturnIsSerial
<1>4. QED
  BY <1>2, <1>3 DEF LoopStep

\* The stronger invariant holds in every reachable state, if a cancelled loop unwinds
\* before a linger elapses; whatever panics, and whoever edits and shuts down.
THEOREM SerialInvariant ==
  ASSUME PromptUnwind
  PROVE  Spec => []SerialInv
<1>1. SerialInv /\ [Next]_vars => SerialInv'
  <2> SUFFICES ASSUME SerialInv, [Next]_vars PROVE SerialInv'
    OBVIOUS
  <2>1. IInv'
    BY NextKeeps DEF SerialInv
  <2>2. CASE \E l \in Listeners : Attach(l)
    BY <2>1, <2>2, AttachIsSerial
  <2>3. CASE \E s \in Streamers : Elapse(s) \/ IdleStop(s)
    BY <2>1, <2>3, ElapseIsSerial, IdleStopIsSerial
  <2>4. CASE \E p \in Loops : LoopStep(p)
    BY <2>1, <2>4, LoopStepIsSerial
  <2>5. CASE Signal \/ StopLoop \/ StopAndNote
    BY <2>1, <2>5, SignalIsSerial, OwnerStopIsSerial
  <2>6. CASE \/ \E l \in Listeners : Find(l) \/ Detach(l) \/ Drop(l)
             \/ Unregister \/ CloseService \/ Awaited \/ UNCHANGED vars
    BY <2>1, <2>6, QuietStepsAreSerial
  <2>7. QED
    BY <2>2, <2>3, <2>4, <2>5, <2>6 DEF Next
<1>2. QED
  BY <1>1, SerialInit, PTL DEF Spec

\* startLocked's promise, of the streamer on the map: a listener never hears two loops at
\* once, as long as no two lingers of its streamer have waited for s.mu at the same time.
THEOREM OneLoopPlays ==
  ASSUME PromptUnwind
  PROVE  Spec => []RegisteredHasOneLoop
<1>1. SerialInv => RegisteredHasOneLoop
  <2> SUFFICES ASSUME SerialInv, registered \notin crowded, NEW p \in Loops, NEW q \in Loops,
                      stage[p] = "running", stage[q] = "running",
                      owner[p] = registered, owner[q] = registered
               PROVE  p = q
    BY DEF RegisteredHasOneLoop
  <2>1. registered \in Streamers
    BY RunningHaveStreamers
  <2>2. OneRuns(registered)
    BY <2>1 DEF SerialInv, RegisteredIsSerial
  <2>3. QED
    BY <2>2 DEF OneRuns
<1>2. QED
  BY <1>1, SerialInvariant, PTL

=============================================================================
