-------------------------- MODULE ChannelStreamer --------------------------
(***************************************************************************)
(* The life of a channel's streamer: internal/channels/streamer.go and the *)
(* part of service.go that owns the streamers of one channel.              *)
(*                                                                         *)
(* A streamer runs a programming loop while somebody listens.  The first   *)
(* listener starts it, the last one to leave arms a linger timer that      *)
(* stops it, an edit of the channel replaces the streamer, and shutdown    *)
(* stops it and waits.  A stop only cancels the loop; the goroutine then   *)
(* unwinds by itself, and a new loop waits for the one it replaces.        *)
(*                                                                         *)
(* What a loop plays is the matter of ChannelAirings.                      *)
(***************************************************************************)
EXTENDS Naturals, FiniteSets

CONSTANTS
  Streamers,      \* the channelStreamer values the service may build
  Listeners,      \* the HTTP handlers of one channel's stream
  Loops,          \* the done channels: one per loop that is started
  NoStreamer,
  NoLoop,
  PromptUnwind,   \* a cancelled loop is over before a linger (20 s) elapses
  LoopsPanic,     \* may a loop panic?  (safego recovers it)
  Shuts,          \* does the process shut down?
  MaxUpdates,     \* bound: how often the channel is edited
  MaxCallbacks    \* bound: linger timers out of idleStop's reach at a time

ASSUME StreamerAssumption ==
  /\ NoStreamer \notin Streamers
  /\ NoLoop \notin Loops
  /\ PromptUnwind \in BOOLEAN /\ LoopsPanic \in BOOLEAN /\ Shuts \in BOOLEAN
  /\ MaxUpdates \in Nat /\ MaxCallbacks \in Nat

VARIABLES
  registered,  \* Service.streamers[id]
  made,        \* the streamers built so far
  listeners,   \* listeners of each streamer
  done,        \* done of each streamer
  lastDone,    \* lastDone of each streamer
  armed,       \* idleStop refers to a timer that has not fired
  loose,       \* live timers idleStop no longer refers to
  callbacks,   \* timers that have fired and wait for s.mu
  crowded,     \* history: the streamers of which two callbacks waited for s.mu at once
  stage,       \* where each loop's goroutine is
  owner,       \* its streamer
  prev,        \* previous, as startLocked read it
  cancelled,   \* the loops under way whose context is done
  at,          \* where each handler is
  of,          \* the streamer it was given
  restarting,  \* the streamer restartIfRunning took off the map and has yet to stop
  closeAt,     \* where Service.Close is
  closing,     \* the streamer it stops
  closeWait,   \* the loop it waits for
  stopping,    \* baseCtx, the process's signal context, is done
  updates      \* edits so far

timerVars  == <<armed, loose, callbacks, crowded>>
loopVars   == <<stage, owner, prev>>
closeVars  == <<closeAt, closing, closeWait>>
handlerVars == <<at, of>>
vars == <<registered, made, listeners, done, lastDone, timerVars, loopVars, cancelled,
          handlerVars, restarting, closeVars, stopping, updates>>

TypeOK ==
  /\ registered \in Streamers \cup {NoStreamer}
  /\ made \subseteq Streamers
  /\ listeners \in [Streamers -> SUBSET Listeners]
  /\ done \in [Streamers -> Loops \cup {NoLoop}]
  /\ lastDone \in [Streamers -> Loops \cup {NoLoop}]
  /\ armed \in [Streamers -> BOOLEAN]
  /\ loose \in [Streamers -> 0..MaxCallbacks]
  /\ callbacks \in [Streamers -> 0..MaxCallbacks] /\ crowded \subseteq Streamers
  /\ stage \in [Loops -> {"waiting", "running", "over"}]
  /\ owner \in [Loops -> Streamers \cup {NoStreamer}]
  /\ prev \in [Loops -> Loops \cup {NoLoop}]
  /\ cancelled \subseteq Loops
  /\ at \in [Listeners -> {"idle", "found", "attached"}]
  /\ of \in [Listeners -> Streamers \cup {NoStreamer}]
  /\ restarting \in Streamers \cup {NoStreamer}
  /\ closeAt \in {"no", "stopping", "waiting", "done"}
  /\ closing \in Streamers \cup {NoStreamer}
  /\ closeWait \in Loops \cup {NoLoop}
  /\ stopping \in BOOLEAN
  /\ updates \in 0..MaxUpdates

Init ==
  /\ registered = NoStreamer /\ made = {}
  /\ listeners = [s \in Streamers |-> {}]
  /\ done = [s \in Streamers |-> NoLoop]
  /\ lastDone = [s \in Streamers |-> NoLoop]
  /\ armed = [s \in Streamers |-> FALSE]
  /\ loose = [s \in Streamers |-> 0]
  /\ callbacks = [s \in Streamers |-> 0] /\ crowded = {}
  /\ stage = [p \in Loops |-> "over"]
  /\ owner = [p \in Loops |-> NoStreamer]
  /\ prev = [p \in Loops |-> NoLoop]
  /\ cancelled = {}
  /\ at = [l \in Listeners |-> "idle"]
  /\ of = [l \in Listeners |-> NoStreamer]
  /\ restarting = NoStreamer
  /\ closeAt = "no" /\ closing = NoStreamer /\ closeWait = NoLoop
  /\ stopping = FALSE
  /\ updates = 0

\* <-previous: the loop that is replaced has closed its done.
NotAwaited(p) == TRUE  \* a mutant
Over(p) == p # NoLoop => stage[p] = "over"

\* A done channel nobody refers to any more may stand for the next one made.
Fresh(p) ==
  /\ stage[p] = "over"
  /\ \A s \in Streamers : p \notin {done[s], lastDone[s]}
  /\ \A q \in Loops : stage[q] = "waiting" => prev[q] # p
  /\ closeWait # p

EverStarted(s) == lastDone[s] # NoLoop  \* a mutant
Started(s) == done[s] # NoLoop

\* startLocked.
StartLocked(s) ==
  IF Started(s)
    THEN UNCHANGED <<done, lastDone, loopVars, cancelled>>
    ELSE \E p \in Loops :
           /\ Fresh(p)
           /\ done' = [done EXCEPT ![s] = p]
           /\ lastDone' = [lastDone EXCEPT ![s] = p]
           /\ stage' = [stage EXCEPT ![p] = "waiting"]
           /\ owner' = [owner EXCEPT ![p] = s]
           /\ prev' = [prev EXCEPT ![p] = lastDone[s]]
           /\ cancelled' = IF stopping THEN cancelled \cup {p} ELSE cancelled

\* cancel, when it is not nil; of a loop that is over it does nothing.
Running(s) == {p \in Loops : p = done[s] /\ stage[p] # "over"}

\* stopLocked, without its cancelIdleStopLocked.
CancelLoop(s) ==
  /\ cancelled' = cancelled \cup Running(s)
  /\ done' = [done EXCEPT ![s] = NoLoop]

StopLocked(s) ==
  /\ CancelLoop(s)
  /\ armed' = [armed EXCEPT ![s] = FALSE]

-----------------------------------------------------------------------------
(* A handler of GET /channels/{id}/stream.                                  *)

\* streamerFor: the channel's streamer, or a new one.
Find(l) ==
  /\ at[l] = "idle"
  /\ \/ /\ registered # NoStreamer
        /\ of' = [of EXCEPT ![l] = registered]
        /\ UNCHANGED <<registered, made>>
     \/ /\ registered = NoStreamer
        /\ \E s \in Streamers \ made :
             /\ registered' = s
             /\ made' = made \cup {s}
             /\ of' = [of EXCEPT ![l] = s]
  /\ at' = [at EXCEPT ![l] = "found"]
  /\ UNCHANGED <<listeners, done, lastDone, timerVars, loopVars, cancelled, restarting,
                 closeVars, stopping, updates>>

Attach(l) ==
  LET s == of[l] IN
  /\ at[l] = "found"
  /\ at' = [at EXCEPT ![l] = "attached"]
  /\ listeners' = [listeners EXCEPT ![s] = @ \cup {l}]
  /\ armed' = [armed EXCEPT ![s] = FALSE]
  /\ StartLocked(s)
  /\ UNCHANGED <<registered, made, loose, callbacks, crowded, of, restarting, closeVars, stopping,
                 updates>>

StillListed(s, l) == listeners[s] = {l}  \* a mutant
LastOut(s, l) == listeners[s] \subseteq {l}

\* detach.  The last one out arms the linger, again if it was armed.
Detach(l) ==
  LET s == of[l] IN
  /\ at[l] = "attached"
  /\ at' = [at EXCEPT ![l] = "idle"]
  /\ of' = [of EXCEPT ![l] = NoStreamer]
  /\ listeners' = [listeners EXCEPT ![s] = @ \ {l}]
  /\ armed' = IF LastOut(s, l) THEN [armed EXCEPT ![s] = TRUE] ELSE armed
  /\ UNCHANGED <<registered, made, done, lastDone, loose, callbacks, crowded, loopVars, cancelled,
                 restarting, closeVars, stopping, updates>>

\* broadcast drops a listener that cannot keep up and closes its channel; the
\* handler finds that out, and detaches, in its own time.
Drop(l) ==
  LET s == of[l] IN
  /\ at[l] = "attached" /\ l \in listeners[s]
  /\ \E p \in Loops : owner[p] = s /\ stage[p] = "running"
  /\ listeners' = [listeners EXCEPT ![s] = @ \ {l}]
  /\ UNCHANGED <<registered, made, done, lastDone, timerVars, loopVars, cancelled,
                 handlerVars, restarting, closeVars, stopping, updates>>

-----------------------------------------------------------------------------
(* The linger timer.                                                        *)

LingerMayElapse(s) ==
  PromptUnwind => \A p \in cancelled : owner[p] # s

Elapse(s) ==
  /\ LingerMayElapse(s)
  /\ \/ /\ armed[s] /\ callbacks[s] + loose[s] < MaxCallbacks
        /\ armed' = [armed EXCEPT ![s] = FALSE]
        /\ UNCHANGED loose
     \/ loose[s] > 0 /\ loose' = [loose EXCEPT ![s] = @ - 1] /\ UNCHANGED armed
  /\ callbacks' = [callbacks EXCEPT ![s] = @ + 1]
  /\ UNCHANGED <<crowded, registered, made, listeners, done, lastDone, loopVars, cancelled,
                 handlerVars, restarting, closeVars, stopping, updates>>

NotLookedAt(s) == TRUE  \* a mutant
Unheard(s) == listeners[s] = {}

\* The callback, once it has s.mu.  It clears idleStop whichever timer that
\* refers to by now.
IdleStop(s) ==
  /\ callbacks[s] > 0
  /\ callbacks' = [callbacks EXCEPT ![s] = @ - 1]
  /\ crowded' = IF callbacks[s] > 1 THEN crowded \cup {s} ELSE crowded
  /\ loose' = IF armed[s] THEN [loose EXCEPT ![s] = @ + 1] ELSE loose
  /\ IF Unheard(s)
       THEN StopLocked(s)
       ELSE armed' = [armed EXCEPT ![s] = FALSE] /\ UNCHANGED <<done, cancelled>>
  /\ UNCHANGED <<registered, made, listeners, lastDone, loopVars, handlerVars, restarting,
                 closeVars, stopping, updates>>

-----------------------------------------------------------------------------
(* A loop's goroutine.                                                      *)

\* The previous loop is over and the context is not done: play.
Enter(p) ==
  /\ stage[p] = "waiting" /\ Over(prev[p]) /\ p \notin cancelled
  /\ stage' = [stage EXCEPT ![p] = "running"]
  /\ prev' = [prev EXCEPT ![p] = NoLoop]
  /\ UNCHANGED <<owner, cancelled>>

\* The goroutine returns, and its variables are gone with it; its done is closed.
Return(p) ==
  /\ stage' = [stage EXCEPT ![p] = "over"]
  /\ owner' = [owner EXCEPT ![p] = NoStreamer]
  /\ prev' = [prev EXCEPT ![p] = NoLoop]
  /\ cancelled' = cancelled \ {p}

\* Cancelled while it waits: return, without waiting any longer.
GiveUp(p) == stage[p] = "waiting" /\ p \in cancelled /\ Return(p)

\* A loop leaves when its context is done, or by a panic; done is closed either
\* way, and only a stop clears the streamer's own reference to it.
Exit(p) ==
  /\ stage[p] = "running"
  /\ p \in cancelled \/ LoopsPanic
  /\ Return(p)

LoopStep(p) ==
  /\ Enter(p) \/ GiveUp(p) \/ Exit(p)
  /\ UNCHANGED <<registered, made, listeners, done, lastDone, timerVars,
                 handlerVars, restarting, closeVars, stopping, updates>>

-----------------------------------------------------------------------------
(* The service: an edit of the channel, and shutdown.                       *)

\* restartIfRunning, after the channel row was written: off the map.
Unregister ==
  /\ updates < MaxUpdates
  /\ registered # NoStreamer /\ restarting = NoStreamer
  /\ updates' = updates + 1
  /\ restarting' = registered
  /\ registered' = NoStreamer
  /\ UNCHANGED <<made, listeners, done, lastDone, timerVars, loopVars, cancelled,
                 handlerVars, closeVars, stopping>>

\* ... and stopLoop, which waits for nothing and tells no listener.
StopLoop ==
  /\ restarting # NoStreamer
  /\ StopLocked(restarting)
  /\ restarting' = NoStreamer
  /\ UNCHANGED <<registered, made, listeners, lastDone, loose, callbacks, crowded, loopVars,
                 handlerVars, closeVars, stopping, updates>>

\* SIGTERM: the context every loop derives from is done.
Signal ==
  /\ Shuts /\ ~stopping
  /\ stopping' = TRUE
  /\ cancelled' = cancelled \cup {p \in Loops : stage[p] # "over"}
  /\ UNCHANGED <<registered, made, listeners, done, lastDone, timerVars, loopVars,
                 handlerVars, restarting, closeVars, updates>>

\* Service.Close: empty the map.
CloseService ==
  /\ stopping /\ closeAt = "no"
  /\ closing' = registered
  /\ registered' = NoStreamer
  /\ closeAt' = IF registered = NoStreamer THEN "done" ELSE "stopping"
  /\ UNCHANGED <<made, listeners, done, lastDone, timerVars, loopVars, cancelled,
                 handlerVars, restarting, closeWait, stopping, updates>>

\* stopAndWait: stop, note lastDone, wait for it.
StopAndNote ==
  /\ closeAt = "stopping"
  /\ StopLocked(closing)
  /\ closeWait' = lastDone[closing]
  /\ closeAt' = "waiting"
  /\ UNCHANGED <<registered, made, listeners, lastDone, loose, callbacks, crowded, loopVars,
                 handlerVars, restarting, closing, stopping, updates>>

Awaited ==
  /\ closeAt = "waiting" /\ Over(closeWait)
  /\ closeAt' = "done"
  /\ closeWait' = NoLoop
  /\ UNCHANGED <<registered, made, listeners, done, lastDone, timerVars, loopVars,
                 cancelled, handlerVars, restarting, closing, stopping, updates>>

Next ==
  \/ \E l \in Listeners : Find(l) \/ Attach(l) \/ Detach(l) \/ Drop(l)
  \/ \E s \in Streamers : Elapse(s) \/ IdleStop(s)
  \/ \E p \in Loops : LoopStep(p)
  \/ Unregister \/ StopLoop
  \/ Signal \/ CloseService \/ StopAndNote \/ Awaited

Spec == Init /\ [][Next]_vars

\* Goroutines and timers run.  Nobody is obliged to listen, or to leave; but a
\* handler whose channel was closed returns.
Fairness ==
  /\ \A p \in Loops : WF_vars(LoopStep(p) /\ (p \in cancelled \/ stage[p] = "waiting"))
  /\ \A s \in Streamers : WF_vars(Elapse(s)) /\ WF_vars(IdleStop(s))
  /\ \A l \in Listeners : /\ WF_vars(Attach(l))
                          /\ WF_vars(Detach(l) /\ l \notin listeners[of[l]])
  /\ WF_vars(StopLoop)

FairSpec == Spec /\ Fairness

-----------------------------------------------------------------------------
(* What must hold.                                                          *)

\* startLocked: "Starting a new loop before that finishes would leave two
\* transcoders writing into the same listener set, interleaving their output
\* into audible garbage".
OneLoopAtATime ==
  \A p, q \in Loops :
    stage[p] = "running" /\ stage[q] = "running" /\ owner[p] = owner[q] => p = q

\* The same of the streamer on the map, which no edit has stopped: only its own
\* linger stops it, and a cancelled loop is over before that elapses again.  Not of
\* one of which two lingers' callbacks have waited for s.mu at once: the second may
\* then stop a loop that still waits for the one that the first has stopped.
RegisteredHasOneLoop ==
  registered \notin crowded =>
    \A p, q \in Loops :
      /\ stage[p] = "running" /\ stage[q] = "running"
      /\ owner[p] = registered /\ owner[q] = registered
      => p = q

\* Attach: the fault its lock is there to prevent is a listener that "stayed
\* attached to a dead streamer -- no bytes, no error, no log, silent until it
\* gave up".  The streamer on the map, with a listener, has a loop that is meant
\* to run, however attaching, leaving, lingering and editing interleave.
RegisteredIsStarted ==
  \A s \in Streamers : s = registered /\ listeners[s] # {} => done[s] # NoLoop

\* UpdateChannel restarts the streamer "so listeners get the new
\* bitrate/codec": no listener is left on a streamer that is not meant to run.
AttachedMeansStarted ==
  ~stopping => \A s \in Streamers : listeners[s] # {} => done[s] # NoLoop

\* Service.Close "stops every running streamer and waits for their ffmpeg
\* subprocesses to be reaped": after it no loop of the channel runs.
CloseReapsLoops ==
  closeAt = "done" => \A p \in Loops : stage[p] # "running"

\* "A short linger makes a reconnection re-attach to the loop that is already
\* running": a loop is not stopped as idle while a linger is still running.
LingerIsGranted ==
  [][\A s \in Streamers : armed[s] /\ done[s] # NoLoop => done'[s] # NoLoop]_vars

\* A listener of the streamer on the map that stays gets a loop that runs,
\* unless the streamer is taken off the map.
AttachedGetsALoop ==
  \A l \in Listeners : \A s \in Streamers :
    (l \in listeners[s] /\ s = registered) ~>
      \/ l \notin listeners[s]
      \/ s # registered
      \/ stopping
      \/ \E p \in Loops : owner[p] = s /\ stage[p] = "running" /\ p \notin cancelled

\* A channel nobody listens to stops transcoding.
AbandonedLoopStops ==
  \A s \in Streamers :
    (listeners[s] = {} /\ \E p \in Loops : owner[p] = s /\ stage[p] = "running") ~>
      (listeners[s] # {} \/ \A p \in Loops : owner[p] = s => stage[p] # "running")
=============================================================================
