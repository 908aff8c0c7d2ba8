--------------------------- MODULE ChannelAirings ---------------------------
(***************************************************************************)
(* What one channel airs and what it writes down about it: loop,           *)
(* playItemWithFade and skipCurrent of internal/channels/streamer.go, with *)
(* the play log and the programme state they keep in the database.         *)
(*                                                                         *)
(* Each turn of the loop picks an item, which commits the programme state, *)
(* opens a row in the play log, plays, and settles the turn: the airing    *)
(* stands, or it is forgotten and the programme state is put back.  A      *)
(* listener's skip is a request of its own: it reads which item may be     *)
(* cancelled, then which one is on air, then deletes that one's row, then  *)
(* cancels, and the loop may have moved on between any two of these.       *)
(*                                                                         *)
(* The channel has aired before: its programme state is saved, so it can   *)
(* be put back.  The engine's choice is any item; when it has none, the    *)
(* loop asks again later and nothing has changed.  The database may refuse *)
(* any write, and the loop goes on.  Time is the age of the item on air:   *)
(* young below countsAsAired (60 s).                                       *)
(***************************************************************************)
EXTENDS Naturals, FiniteSets

CONSTANTS
  Items,       \* what the engine may pick
  Sources,
  SourceOf,    \* [Items -> Sources]
  Bags,        \* shuffled items: the play log is their queue
  Episodes,    \* podcast episodes: skipCurrent keeps their row too
  Skippers,    \* requests to Service.Skip
  NoSkip,      \* a skip request that is at rest
  Stops,       \* may the channel be stopped (idle, edited, shut down)?
  Crashes,     \* may the process die?
  MaxPlays,    \* bound: turns of the loop
  MaxMissed    \* bound: plays of which the position or the row cannot be written

ASSUME SourceAssumption ==
  /\ SourceOf \in [Items -> Sources]
  /\ Bags \subseteq Items /\ Episodes \subseteq Items /\ Bags \cap Episodes = {}
ASSUME BoundAssumption ==
  MaxPlays \in Nat /\ MaxMissed \in Nat /\ {Stops, Crashes} \subseteq BOOLEAN

DeadSourceAfter == 3

VARIABLES
  phase,       \* where the loop is
  play,        \* the number of this turn: the plays are 1..play
  item,        \* the item of each play
  row,         \* its row in channel_play_log
  fate,        \* what the loop made of it
  unwritten,   \* history: the plays whose row could not be closed or deleted
  young,       \* less than countsAsAired since the current play began
  written,     \* the current play delivered audio
  ending,      \* how it ended
  cut,         \* its context is cancelled
  clocks,      \* plays whose preemption or stall watchdog has not returned
  cutCause,
  skipCancel,  \* the play the skip button can cancel, 0 for none
  current,     \* the mirror for now-playing: the play, and its log row
  currentLog,
  cycle,       \* the programme state: how many positions of the cycle are used up
  prior,       \* priorState, as this turn read it
  unsaved,     \* history: the plays whose position could not be saved
  failures,
  steppedOff,  \* the sources suppressed as dead
  ctxDone,     \* the loop's context is done
  skip         \* each skip request: where it is and what it read

playVars  == <<item, row, fate, unwritten>>
airVars   == <<young, written, ending, cut>>
cutVars   == <<clocks, cutCause, skipCancel>>
nowVars   == <<current, currentLog>>
cycleVars == <<cycle, prior, unsaved>>
deadVars  == <<failures, steppedOff>>
vars == <<phase, play, playVars, airVars, cutVars, nowVars, cycleVars, deadVars, ctxDone, skip>>

Plays  == 1..MaxPlays
Causes == {"unknown", "skip", "boundary", "preempt", "stall"}
Clocks == {"boundary", "preempt", "stall"}

Skips ==
  {NoSkip} \cup
  [at : {"asked", "judging", "cutting"}, cancel : 0..MaxPlays, log : {0}] \cup
  [at : {"forgetting"}, cancel : 0..MaxPlays, log : Plays]

TypeOK ==
  /\ phase \in {"off", "deciding", "picked", "logged", "playing", "ended", "waiting"}
  /\ play \in 0..MaxPlays
  /\ item \in [Plays -> Items]
  /\ row \in [Plays -> {"none", "open", "closed", "discarded"}]
  /\ fate \in [Plays -> {"none", "aired", "forgotten", "stranded", "lost"}]
  /\ ending \in {"none", "clean", "window", "cut", "error"}
  /\ young \in BOOLEAN /\ written \in BOOLEAN /\ cut \in BOOLEAN
  /\ clocks \subseteq Plays /\ unwritten \subseteq Plays /\ unsaved \subseteq Plays
  /\ cutCause \in Causes
  /\ skipCancel \in 0..MaxPlays
  /\ current \in 0..MaxPlays
  /\ currentLog \in 0..MaxPlays
  /\ cycle \in Nat /\ prior \in Nat
  /\ failures \in Nat
  /\ steppedOff \subseteq Sources
  /\ ctxDone \in BOOLEAN
  /\ skip \in [Skippers -> Skips]

Init ==
  /\ phase = "off" /\ play = 0
  /\ item = [p \in Plays |-> CHOOSE i \in Items : TRUE]
  /\ row = [p \in Plays |-> "none"]
  /\ fate = [p \in Plays |-> "none"]
  /\ ending = "none" /\ young = FALSE /\ written = FALSE /\ cut = FALSE
  /\ clocks = {} /\ cutCause = "unknown" /\ skipCancel = 0
  /\ current = 0 /\ currentLog = 0
  /\ cycle = 0 /\ prior = 0
  /\ unwritten = {} /\ unsaved = {}
  /\ failures = 0 /\ steppedOff = {}
  /\ ctxDone = FALSE
  /\ skip = [k \in Skippers |-> NoSkip]

-----------------------------------------------------------------------------
(* The loop.                                                                *)

\* The database may refuse a write about these plays.
MayMiss(plays) == Cardinality(unwritten \cup unsaved \cup plays) <= MaxMissed

\* CloseOrphanedPlays: what is still open is a leftover, and is closed, row by row,
\* until a write fails.
OrphansTrusted(r) == r  \* a mutant
OrphanClosed(r) == IF r = "open" THEN "closed" ELSE r

StartLoop ==
  /\ phase = "off"
  /\ phase' = "deciding"
  /\ \E left \in SUBSET {p \in Plays : row[p] = "open"} :
       /\ left # {} => MayMiss(left)
       /\ row' = [p \in Plays |-> IF p \in left THEN row[p] ELSE OrphanClosed(row[p])]
       /\ unwritten' = unwritten \cup left
  /\ failures' = 0
  /\ UNCHANGED <<play, item, fate, airVars, cutVars, nowVars, cycleVars,
                 steppedOff, ctxDone, skip>>

\* Note where the cycle stands; NextItem picks and commits the next position, or airs
\* what it picked all the same.
Pick(i) ==
  /\ phase = "deciding" /\ ~ctxDone /\ play < MaxPlays
  /\ phase' = "picked"
  /\ play' = play + 1
  /\ item' = [item EXCEPT ![play + 1] = i]
  /\ prior' = cycle
  /\ \/ cycle' = cycle + 1 /\ UNCHANGED unsaved
     \/ MayMiss({play + 1}) /\ UNCHANGED cycle /\ unsaved' = unsaved \cup {play + 1}
  /\ UNCHANGED <<row, fate, unwritten, airVars, cutVars, nowVars, deadVars, ctxDone, skip>>

\* A play whose row could not be inserted goes on air without one.
OnPlayStart ==
  /\ phase = "picked"
  /\ phase' = "logged"
  /\ \/ row' = [row EXCEPT ![play] = "open"]
     \/ MayMiss({play}) /\ UNCHANGED row
  /\ UNCHANGED <<play, item, fate, unwritten, airVars, cutVars, nowVars, cycleVars, deadVars,
                 ctxDone, skip>>

\* The item becomes current and playItem arms its cancel and its watchdogs.
PutOn ==
  /\ phase = "logged"
  /\ phase' = "playing"
  /\ current' = play /\ currentLog' = IF row[play] = "none" THEN 0 ELSE play
  /\ young' = TRUE /\ written' = FALSE /\ cut' = FALSE
  /\ skipCancel' = play
  /\ clocks' = clocks \cup {play}
  /\ UNCHANGED <<play, playVars, ending, cutCause, cycleVars, deadVars, ctxDone, skip>>

FirstByte ==
  /\ phase = "playing" /\ ~written
  /\ written' = TRUE
  /\ UNCHANGED <<phase, play, playVars, young, ending, cut, cutVars, nowVars, cycleVars, deadVars,
                 ctxDone, skip>>

Ages ==
  /\ current # 0 /\ young
  /\ young' = FALSE
  /\ UNCHANGED <<phase, play, playVars, written, ending, cut, cutVars, nowVars, cycleVars, deadVars,
                 ctxDone, skip>>

\* A watchdog gives its reason and cancels its own item.  It may find its timer
\* and its context ready together, so it can still fire when the item is over.
WatchdogCuts(p, why) ==
  /\ p \in clocks
  /\ why = "stall" => p = play /\ phase = "playing"
  /\ clocks' = clocks \ {p}
  /\ cutCause' = why
  /\ cut' = (cut \/ (p = play /\ phase = "playing"))
  /\ UNCHANGED <<phase, play, playVars, young, written, ending, skipCancel, nowVars, cycleVars,
                 deadVars, ctxDone, skip>>

WatchdogReturns(p) ==
  /\ p \in clocks
  /\ p # play \/ phase # "playing" \/ cut \/ ctxDone
  /\ clocks' = clocks \ {p}
  /\ UNCHANGED <<phase, play, playVars, airVars, cutCause, skipCancel, nowVars, cycleVars,
                 deadVars, ctxDone, skip>>

\* playItem returns: the mixer settled the item, or its context was cancelled.
EndPlay(how) ==
  /\ phase = "playing"
  /\ how = "cut" => cut \/ ctxDone
  /\ how = "window" => written
  /\ phase' = "ended"
  /\ ending' = how
  /\ cut' = FALSE /\ skipCancel' = 0
  /\ UNCHANGED <<play, playVars, young, written, clocks, cutCause, nowVars, cycleVars,
                 deadVars, ctxDone, skip>>

\* falseStart: the station, not the listener, took a programme back before it
\* amounted to anything.
FalseStart ==
  /\ written
  /\ ending # "clean"
  /\ item[play] \notin Bags
  /\ young
  /\ \/ cutCause \in {"boundary", "preempt"}
     \/ cutCause = "unknown" /\ ending = "window"

NoRewind == UNCHANGED cycle  \* a mutant

Rewind == cycle' = prior

\* rewindProgramState writes on the loop's own context: nothing is written once that is
\* done, and a play that is forgotten then keeps the position it used up.
Undo ==
  \/ ~ctxDone /\ Rewind /\ fate' = [fate EXCEPT ![play] = "forgotten"]
  \/ /\ ctxDone \/ MayMiss({play})
     /\ UNCHANGED cycle /\ fate' = [fate EXCEPT ![play] = "stranded"]

\* DiscardPlayLog: the row is deleted.
ClosedInstead(p) == [row EXCEPT ![p] = "closed"]  \* a mutant
Discarded(p) == [row EXCEPT ![p] = IF @ = "none" THEN "none" ELSE "discarded"]

\* The row of this play is written, or stays as it is.
Writes(rows) ==
  \/ row' = rows /\ UNCHANGED unwritten
  \/ /\ MayMiss({play}) /\ UNCHANGED row
     /\ unwritten' = IF row[play] = "open" THEN unwritten \cup {play} ELSE unwritten

\* What the turn knew of its play is gone.
TurnIsOver ==
  written' = FALSE /\ ending' = "none" /\ cutCause' = "unknown" /\ prior' = 0

\* No audio: the row goes, the position is put back, and after the third
\* failure in a row the source is stepped off.
SettleSilent ==
  /\ phase = "ended" /\ ~written
  /\ Writes(Discarded(play))
  /\ Undo
  /\ failures' = failures + 1
  /\ steppedOff' = IF failures + 1 >= DeadSourceAfter
                     THEN steppedOff \cup {SourceOf[item[play]]} ELSE steppedOff
  /\ phase' = "waiting"
  /\ TurnIsOver
  /\ UNCHANGED <<play, item, young, cut, clocks, skipCancel, nowVars, unsaved,
                 ctxDone, skip>>

SettleFalseStart ==
  /\ phase = "ended" /\ FalseStart
  /\ Writes(Discarded(play))
  /\ Undo
  /\ failures' = 0
  /\ phase' = "deciding"
  /\ TurnIsOver
  /\ UNCHANGED <<play, item, young, cut, clocks, skipCancel, nowVars, unsaved,
                 steppedOff, ctxDone, skip>>

\* OnPlayEnd: the row is closed, if it is still there.
SettleAired ==
  /\ phase = "ended" /\ written /\ ~FalseStart
  /\ Writes([row EXCEPT ![play] = IF @ = "open" THEN "closed" ELSE @])
  /\ fate' = [fate EXCEPT ![play] = "aired"]
  /\ UNCHANGED cycle
  /\ failures' = 0
  /\ phase' = "deciding"
  /\ TurnIsOver
  /\ UNCHANGED <<play, item, young, cut, clocks, skipCancel, nowVars, unsaved,
                 steppedOff, ctxDone, skip>>

BackoffElapses ==
  /\ phase = "waiting" /\ ~ctxDone
  /\ phase' = "deciding"
  /\ UNCHANGED <<play, playVars, airVars, cutVars, nowVars, cycleVars, deadVars, ctxDone, skip>>

\* The loop's context is done, and the loop sees it where it looks.
Stop ==
  /\ Stops /\ phase # "off" /\ ~ctxDone
  /\ ctxDone' = TRUE
  /\ UNCHANGED <<phase, play, playVars, airVars, cutVars, nowVars, cycleVars, deadVars, skip>>

Leave ==
  /\ ctxDone /\ phase \in {"deciding", "waiting"}
  /\ phase' = "off"
  /\ ctxDone' = FALSE
  /\ current' = 0 /\ currentLog' = 0 /\ young' = FALSE
  /\ UNCHANGED <<play, playVars, written, ending, cut, cutVars, cycleVars, deadVars, skip>>

-----------------------------------------------------------------------------
(* Service.Skip and skipCurrent.                                            *)

\* Something is on: suppress and credit it (not modelled), then skip.
AskToSkip(k) ==
  /\ skip[k] = NoSkip /\ current # 0
  /\ skip' = [skip EXCEPT ![k] = [at |-> "asked", cancel |-> 0, log |-> 0]]
  /\ UNCHANGED <<phase, play, playVars, airVars, cutVars, nowVars, cycleVars, deadVars, ctxDone>>

TakeCancel(k) ==
  /\ skip[k] # NoSkip /\ skip[k].at = "asked"
  /\ skip' = [skip EXCEPT ![k] =
       IF skipCancel = 0 THEN NoSkip ELSE [at |-> "judging", cancel |-> skipCancel, log |-> 0]]
  /\ UNCHANGED <<phase, play, playVars, airVars, cutVars, nowVars, cycleVars, deadVars, ctxDone>>

KeepsRow == current # 0 /\ item[current] \in Bags \cup Episodes

\* Read what is on air now, and whether so little of it went out that the play
\* is to be forgotten.
Judge(k) ==
  /\ skip[k] # NoSkip /\ skip[k].at = "judging"
  /\ skip' = [skip EXCEPT ![k] =
       IF currentLog # 0 /\ ~KeepsRow /\ young
         THEN [@ EXCEPT !.at = "forgetting", !.log = currentLog]
         ELSE [@ EXCEPT !.at = "cutting"]]
  /\ UNCHANGED <<phase, play, playVars, airVars, cutVars, nowVars, cycleVars, deadVars, ctxDone>>

Forget(k) ==
  /\ skip[k] # NoSkip /\ skip[k].at = "forgetting"
  /\ row' = Discarded(skip[k].log) \/ (MayMiss({skip[k].log}) /\ UNCHANGED row)
  /\ currentLog' = 0
  /\ skip' = [skip EXCEPT ![k] = [at |-> "cutting", cancel |-> @.cancel, log |-> 0]]
  /\ UNCHANGED <<phase, play, item, fate, unwritten, airVars, cutVars, current, cycleVars,
                 deadVars, ctxDone>>

\* Flush the listeners, give the reason, call the cancel it took.
CutItem(k) ==
  /\ skip[k] # NoSkip /\ skip[k].at = "cutting"
  /\ cutCause' = "skip"
  /\ cut' = (cut \/ (skip[k].cancel = play /\ phase = "playing"))
  /\ skip' = [skip EXCEPT ![k] = NoSkip]
  /\ UNCHANGED <<phase, play, playVars, young, written, ending, clocks, skipCancel, nowVars,
                 cycleVars, deadVars, ctxDone>>

-----------------------------------------------------------------------------
\* The process dies: the database stays.
Crash ==
  /\ Crashes /\ phase # "off"
  /\ phase' = "off" /\ ctxDone' = FALSE
  /\ fate' = IF play # 0 /\ fate[play] = "none" THEN [fate EXCEPT ![play] = "lost"] ELSE fate
  /\ young' = FALSE /\ cut' = FALSE /\ clocks' = {} /\ skipCancel' = 0
  /\ TurnIsOver
  /\ current' = 0 /\ currentLog' = 0
  /\ failures' = 0 /\ steppedOff' = {}
  /\ skip' = [k \in Skippers |-> NoSkip]
  /\ UNCHANGED <<play, item, row, unwritten, cycle, unsaved>>

Settle == SettleSilent \/ SettleFalseStart \/ SettleAired

SkipStep(k) == TakeCancel(k) \/ Judge(k) \/ Forget(k) \/ CutItem(k)

Next ==
  \/ StartLoop
  \/ \E i \in Items : Pick(i)
  \/ OnPlayStart \/ PutOn \/ FirstByte \/ Ages
  \/ \E p \in Plays : WatchdogReturns(p) \/ \E why \in Clocks : WatchdogCuts(p, why)
  \/ \E how \in {"clean", "window", "cut", "error"} : EndPlay(how)
  \/ Settle
  \/ BackoffElapses
  \/ Stop \/ Leave
  \/ \E k \in Skippers : AskToSkip(k) \/ SkipStep(k)
  \/ Crash

Spec == Init /\ [][Next]_vars

-----------------------------------------------------------------------------
(* What must hold.                                                          *)

Settled == phase \in {"deciding", "waiting"}

\* The play log "is what the scheduler treats as 'this channel has aired that'":
\* between two items no row is open, and a row that remains is an airing the
\* loop let stand, or one a crash took the loop away from; unless its own last
\* write failed, which nobody is told.
LogMatchesFate ==
  Settled =>
    \A p \in Plays \ unwritten :
      /\ row[p] # "open"
      /\ row[p] = "closed" => fate[p] \in {"aired", "lost"}

\* "An item that produced no audio did not happen, so the cycle must not have
\* moved past it", and a false start leaves the cycle "where it stood before
\* the pick": one position is used up per airing that stands, that a crash took
\* away, or that could not be put back, and whose own position was saved.
PositionIsKept ==
  Settled =>
    cycle = Cardinality({p \in Plays \ unsaved : fate[p] \in {"aired", "lost", "stranded"}})

\* The same without the exception, which the code does not keep: the rewind is
\* written on the loop's own context, and a stop has ended that.
NoPlayIsStranded == \A p \in Plays : fate[p] # "stranded"

\* skipCurrent "ends whatever is playing right now" and says of the same play:
\* "Forget the play if barely any of it went out".  The play it forgets is the
\* one it cuts.
SkipForgetsWhatItCuts ==
  \A k \in Skippers :
    (skip[k] # NoSkip /\ skip[k].at = "forgetting") => skip[k].log = skip[k].cancel

\* deadSourceAfter "is how many consecutive unplayable items from a source it
\* takes before the station stops asking that source for anything".
DeadSourceFailedInARow ==
  [][\A s \in steppedOff' \ steppedOff :
       /\ play >= DeadSourceAfter
       /\ \A p \in (play + 1 - DeadSourceAfter)..play :
            SourceOf[item[p]] = s /\ fate'[p] \in {"forgotten", "stranded"}]_vars
=============================================================================
