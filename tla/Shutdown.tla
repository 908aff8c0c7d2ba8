------------------------------ MODULE Shutdown ------------------------------
(***************************************************************************)
(* Graceful shutdown: main of cmd/samo-server and safego.Group.            *)
(*                                                                         *)
(* SIGTERM cancels the background context.  main then drains the HTTP      *)
(* server in two phases, reaps the channel streamers, waits for the        *)
(* background group and closes the database pool.  Workers are started by  *)
(* events, so a start may race every one of these steps.  A scan runs on a *)
(* goroutine that libraries.Service starts by itself.                      *)
(***************************************************************************)
EXTENDS Naturals, FiniteSets

CONSTANTS
  Workers,  \* background workers, started at boot or by an event
  Requests, \* HTTP requests
  Streams   \* the requests that end only when their context is cancelled

ASSUME StreamsAssumption == Streams \subseteq Requests
ASSUME WorkersAssumption == IsFiniteSet(Workers)

VARIABLES
  phase,     \* how far main is
  serveDone, \* serveCtx is cancelled
  request,   \* the HTTP requests
  worker,    \* the workers handed to Group.Go
  closed,    \* Group.closed
  count,     \* the counter of Group.wg
  drained,   \* what Group.Wait returned
  scan       \* the scan goroutine

vars == <<phase, serveDone, request, worker, closed, count, drained, scan>>

Phases == {"serving", "draining", "reaping", "waiting", "stopped"}

TypeOK ==
  /\ phase \in Phases
  /\ {serveDone, closed, drained} \subseteq BOOLEAN
  /\ request \in [Requests -> {"new", "open", "over"}]
  /\ worker \in [Workers -> {"new", "added", "running", "over", "declined"}]
  /\ count \in Nat
  /\ scan \in {"idle", "running", "over"}

Init ==
  /\ phase = "serving"
  /\ serveDone = FALSE /\ closed = FALSE /\ drained = FALSE
  /\ request = [r \in Requests |-> "new"]
  /\ worker = [w \in Workers |-> "new"]
  /\ count = 0
  /\ scan = "idle"

Running == phase # "stopped"

-----------------------------------------------------------------------------
(* The HTTP server.                                                         *)

Accept(r) ==
  /\ phase = "serving" /\ request[r] = "new"
  /\ request' = [request EXCEPT ![r] = "open"]
  /\ UNCHANGED <<phase, serveDone, worker, closed, count, drained, scan>>

Respond(r) ==
  /\ Running /\ request[r] = "open"
  /\ r \in Streams => serveDone
  /\ request' = [request EXCEPT ![r] = "over"]
  /\ UNCHANGED <<phase, serveDone, worker, closed, count, drained, scan>>

-----------------------------------------------------------------------------
(* safego.Group.                                                            *)

NeverDeclines == FALSE  \* a mutant
Declines == closed

\* Go: under the mutex, decline when closed or count the worker in.
Go(w) ==
  /\ Running /\ worker[w] = "new"
  /\ IF Declines
       THEN worker' = [worker EXCEPT ![w] = "declined"] /\ UNCHANGED count
       ELSE worker' = [worker EXCEPT ![w] = "added"] /\ count' = count + 1
  /\ UNCHANGED <<phase, serveDone, request, closed, drained, scan>>

Spawn(w) ==
  /\ Running /\ worker[w] = "added"
  /\ worker' = [worker EXCEPT ![w] = "running"]
  /\ UNCHANGED <<phase, serveDone, request, closed, count, drained, scan>>

CountDown == count - 1

\* wg.Done is deferred inside the panic guard: it runs however the worker ends.
Done(w) ==
  /\ Running /\ worker[w] = "running"
  /\ worker' = [worker EXCEPT ![w] = "over"]
  /\ count' = CountDown
  /\ UNCHANGED <<phase, serveDone, request, closed, drained, scan>>

-----------------------------------------------------------------------------
(* The scan goroutine.  runScan resolves its libraries on the background    *)
(* context, so nothing starts once that is cancelled.                       *)

StartScan ==
  /\ phase = "serving" /\ scan = "idle"
  /\ scan' = "running"
  /\ UNCHANGED <<phase, serveDone, request, worker, closed, count, drained>>

EndScan ==
  /\ Running /\ scan = "running"
  /\ scan' = "over"
  /\ UNCHANGED <<phase, serveDone, request, worker, closed, count, drained>>

-----------------------------------------------------------------------------
(* main, after SIGTERM.                                                     *)

Signal ==
  /\ phase = "serving"
  /\ phase' = "draining"
  /\ UNCHANGED <<serveDone, request, worker, closed, count, drained, scan>>

\* streamDrainGrace has passed: every request context is cancelled.
StopServing ==
  /\ phase \in {"draining", "reaping", "waiting"} /\ ~serveDone
  /\ serveDone' = TRUE
  /\ UNCHANGED <<phase, request, worker, closed, count, drained, scan>>

\* srv.Shutdown returns when no request is open, or when shutdownTimeout is
\* over, which is long after streamDrainGrace.
ServerShutdown ==
  /\ phase = "draining"
  /\ serveDone \/ \A r \in Requests : request[r] # "open"
  /\ phase' = "reaping"
  /\ UNCHANGED <<serveDone, request, worker, closed, count, drained, scan>>

\* channelsService.Close is over or gave up; Group.Wait closes the group.
CloseGroup ==
  /\ phase = "reaping"
  /\ phase' = "waiting"
  /\ closed' = TRUE
  /\ UNCHANGED <<serveDone, request, worker, count, drained, scan>>

\* Group.Wait: true when the counter is zero, false at its timeout.
ReturnsUnchecked(finished) == TRUE  \* a mutant
NeverTimesOut(finished) == finished /\ count = 0  \* a mutant
WaitReturns(finished) == finished => count = 0

\* The deferred db.Close follows and the process ends.
Wait(finished) ==
  /\ phase = "waiting"
  /\ WaitReturns(finished)
  /\ drained' = finished
  /\ phase' = "stopped"
  /\ UNCHANGED <<serveDone, request, worker, closed, count, scan>>

Main == Signal \/ StopServing \/ ServerShutdown \/ CloseGroup \/ (\E b \in BOOLEAN : Wait(b))

Next ==
  \/ \E r \in Requests : Accept(r) \/ Respond(r)
  \/ \E w \in Workers : Go(w) \/ Spawn(w) \/ Done(w)
  \/ StartScan \/ EndScan
  \/ Main

Spec == Init /\ [][Next]_vars

\* main's own steps are taken, each bounded by a timer.  Nothing is assumed of
\* a worker, a request or a scan: any of them may be wedged.
FairSpec == Spec /\ WF_vars(StopServing \/ ServerShutdown \/ CloseGroup
                              \/ (\E b \in BOOLEAN : Wait(b)))

-----------------------------------------------------------------------------
(* What must hold.                                                          *)

\* "WaitGroup forbids an Add that races a Wait": once the group waits, its
\* counter only falls, whatever event starts a worker at that moment.
NoAddDuringWait == [][closed => count' <= count]_vars

\* A wait that reports every worker finished is right: none writes to the pool
\* that is closed next.
DrainedMeansNoWorker ==
  drained => \A w \in Workers : worker[w] \notin {"added", "running"}

\* "Waiting for them here is what keeps the deferred db.Close() from yanking
\* the pool out from under an in-flight scan": the same of the scan goroutine.
DrainedMeansNoScan == drained => scan # "running"

\* A wedged worker or an endless stream delays a stop and never prevents it.
StopsAfterSignal == (phase = "draining") ~> (phase = "stopped")
=============================================================================
