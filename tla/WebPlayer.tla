------------------------------- MODULE WebPlayer -------------------------------
(***************************************************************************)
(* The player dock of the dashboard: web/src/ui/player.js and the          *)
(* listeners of web/src/app.js on the audio element.                       *)
(*                                                                         *)
(* An audiobook or an episode is asked for from a position.  The server    *)
(* answers with one file: cut at that position, or whole, and nothing      *)
(* tells the client which; applyStreamResumeSeek guesses from how long it  *)
(* is.  From then on globalBase plus the clock of the element is the       *)
(* position in the whole item, and that is what is reported.               *)
(*                                                                         *)
(* Time is counted in the twenty seconds after which playback reports      *)
(* again; a seek lands on such a step.  The glyphs, the clock and the      *)
(* counts of plays are left out, and so is what becomes of a report.       *)
(***************************************************************************)
EXTENDS Naturals, Sequences, FiniteSets, SequencesExt

CONSTANTS
  Titles,      \* bound: what is played: its kind, and how long each of its files is
  MaxAsking   \* bound: how many stored positions are asked for at a time

Kinds == {"music-track", "podcast-episode", "audiobook"}
None  == [kind |-> "none", files |-> << >>]

VARIABLES
  playing,      \* playerTarget
  globalBase,   \* playerTarget.globalBase
  lastProgressSync,
  src,          \* what the element plays: from where in the item, how long it is, and
                \*   whether that is known yet
  currentTime,
  asking,       \* playPodcastEpisode: whose stored positions are being asked for
  report,       \* the last position reported, where the listener was, and by what
  misled        \* history: applyStreamResumeSeek has taken the stream for what it is not

playerVars == <<playing, globalBase, lastProgressSync, src, currentTime, asking, report, misled>>

Sum(lengths) == FoldLeft(LAMBDA a, b : a + b, 0, lengths)
Duration(i)  == Sum(i.files)
Positions    == 0 .. 2 * Max({Duration(i) : i \in Titles})

NoSrc    == [from |-> 0, length |-> 0, known |-> FALSE]
NoReport == [position |-> 0, heard |-> 0, by |-> "none"]

PlayerTypeOK ==
  /\ playing \in Titles \cup {None}
  /\ globalBase \in Positions /\ lastProgressSync \in Positions /\ currentTime \in Positions
  /\ src \in [from : Positions, length : Positions, known : BOOLEAN]
  /\ asking \subseteq Titles
  /\ report \in [position : Nat, heard : Positions,
                 by : {"none", "tick", "flush", "roll", "completed"}]
  /\ misled \in BOOLEAN

Init ==
  /\ playing = None /\ globalBase = 0 /\ lastProgressSync = 0
  /\ src = NoSrc /\ currentTime = 0
  /\ asking = {}
  /\ report = NoReport /\ misled = FALSE

-----------------------------------------------------------------------------
(* The server.                                                              *)

\* streamAudiobook and streamPodcastEpisode: the file the position falls in, cut
\* there if its container allows it, whole otherwise.
Streams(i, at) ==
  LET starts == [n \in DOMAIN i.files |-> Sum(SubSeq(i.files, 1, n - 1))]
      file   == Max({n \in DOMAIN i.files : n = 1 \/ starts[n] <= at})
      end    == starts[file] + i.files[file] IN
  {[from |-> from, length |-> end - from, known |-> FALSE] :
     from \in {starts[file]} \cup (IF at < end THEN {at} ELSE {})}

-----------------------------------------------------------------------------
(* Positions.                                                               *)

\* What the listener hears; before the stream is there, what was asked for.
Heard == IF src.known THEN src.from + currentTime ELSE globalBase

playbackGlobalSeconds(base, time) ==
  IF playing.kind = "music-track" THEN time ELSE base + time

Report(position, heard, by) == report' = [position |-> position, heard |-> heard, by |-> by]

flushPlaybackProgress(base, by) ==
  LET now == playbackGlobalSeconds(base, currentTime) IN
  IF playing = None \/ now = 0 THEN UNCHANGED report ELSE Report(now, Heard, by)

\* playURL: the position of what played until now is reported, with the base that the
\* roll onto the next file has already changed.
playURL(i, at, flushed, by) ==
  /\ flushPlaybackProgress(flushed, by)
  /\ playing' = i /\ globalBase' = at /\ lastProgressSync' = at
  /\ src' \in Streams(i, at) /\ currentTime' = 0
  /\ misled' = FALSE

playTrack(i) ==
  /\ i.kind = "music-track"
  /\ playURL(i, 0, globalBase, "flush")
  /\ UNCHANGED asking

\* playAudiobook, from the position the page was painted with.
playAudiobook(i, at) ==
  /\ i.kind = "audiobook"
  /\ playURL(i, at, globalBase, "flush")
  /\ UNCHANGED asking

\* playPodcastEpisode: the stored position is asked for first.
playPodcastEpisode(i) ==
  /\ i.kind = "podcast-episode"
  /\ asking' = asking \cup {i} /\ Cardinality(asking') <= MaxAsking
  /\ UNCHANGED <<playing, globalBase, lastProgressSync, src, currentTime, report, misled>>

\* It plays whatever has been started since, from the answer or from where its row was
\* painted.
PositionAnswered ==
  \E i \in asking :
    /\ asking' = asking \ {i}
    /\ \E at \in 0 .. Duration(i) : playURL(i, at, globalBase, "flush")

-----------------------------------------------------------------------------
(* The audio element.                                                       *)

\* Whether the stream is taken for the whole item: it is not much shorter.
TakenForWhole == 100 * src.length >= 85 * Duration(playing)

\* a mutant: the base stays.
ResumeKeepsBase ==
  IF globalBase = 0 \/ ~TakenForWhole
  THEN UNCHANGED <<currentTime, globalBase, lastProgressSync>>
  ELSE LET target == Min({globalBase, Duration(playing), src.length}) IN
       /\ currentTime' = target /\ lastProgressSync' = target
       /\ UNCHANGED globalBase

\* A cut stream starts where it should; in a whole one the element is moved there,
\* and the base is no longer needed.
applyStreamResumeSeek ==
  IF globalBase = 0 \/ ~TakenForWhole
  THEN UNCHANGED <<currentTime, globalBase, lastProgressSync>>
  ELSE LET target == Min({globalBase, Duration(playing), src.length}) IN
       /\ currentTime' = target /\ lastProgressSync' = target
       /\ globalBase' = 0

\* loadedmetadata.
MetadataLoaded ==
  /\ playing # None /\ ~src.known
  /\ src' = [src EXCEPT !.known = TRUE]
  /\ applyStreamResumeSeek
  /\ misled' = (src.from # IF TakenForWhole THEN 0 ELSE globalBase)
  /\ UNCHANGED <<playing, asking, report>>

\* reportPlaybackProgress, when the clock stands at t: at most every twenty seconds.
reportPlaybackProgress(t) ==
  LET now == playbackGlobalSeconds(globalBase, t) IN
  IF now <= lastProgressSync
  THEN UNCHANGED <<lastProgressSync, report>>
  ELSE lastProgressSync' = now /\ Report(now, src.from + t, "tick")

\* timeupdate.
Plays ==
  /\ playing # None /\ src.known /\ currentTime < src.length
  /\ currentTime' = currentTime + 1
  /\ reportPlaybackProgress(currentTime')
  /\ UNCHANGED <<playing, globalBase, src, asking, misled>>

\* seekFromPointer: a place on the bar is one in the whole item; a place outside of
\* the stream is its nearest end.
Seek ==
  /\ playing # None /\ src.known
  /\ \E place \in 0 .. Duration(playing) :
       currentTime' = IF place < globalBase THEN 0 ELSE Min({place - globalBase, src.length})
  /\ reportPlaybackProgress(currentTime')
  /\ UNCHANGED <<playing, globalBase, src, asking, misled>>

\* a mutant: the end of a file is the end.
EndsAtOnce ==
  /\ playing # None /\ src.known /\ currentTime = src.length
  /\ Report(globalBase + src.length, Heard, "completed")
  /\ UNCHANGED <<playing, globalBase, lastProgressSync, src, currentTime, asking, misled>>

\* ended: an audiobook rolls onto its next file, everything else is completed.
Ended ==
  LET now == globalBase + src.length IN
  /\ playing # None /\ src.known /\ currentTime = src.length
  /\ \/ /\ playing.kind = "audiobook" /\ now < Duration(playing)
        /\ playURL(playing, now, now, "roll")
     \/ /\ playing.kind # "audiobook" \/ now >= Duration(playing)
        /\ Report(now, Heard, "completed")
        /\ UNCHANGED <<playing, globalBase, lastProgressSync, src, currentTime, misled>>
  /\ UNCHANGED asking

\* The stop button; or a station or a channel plays, of which nothing is reported.
Stop ==
  /\ playing # None
  /\ flushPlaybackProgress(globalBase, "flush")
  /\ playing' = None /\ globalBase' = 0 /\ src' = NoSrc /\ currentTime' = 0
  /\ misled' = FALSE
  /\ UNCHANGED <<lastProgressSync, asking>>

-----------------------------------------------------------------------------
Press(i) == \/ playTrack(i)
            \/ \E at \in 0 .. Duration(i) : playAudiobook(i, at)
            \/ playPodcastEpisode(i)

Element == PositionAnswered \/ MetadataLoaded \/ Plays \/ Seek \/ Ended \/ Stop

Next == (\E i \in Titles : Press(i)) \/ Element

Spec == Init /\ [][Next]_playerVars

-----------------------------------------------------------------------------
\* player.js: globalBase "is what converts back to a position in the whole item, and
\* getting it wrong silently reports everyone's progress as near-zero".  Whatever is
\* reported is where the listener is, however the stream came and wherever it was
\* moved, if applyStreamResumeSeek has guessed right; but for the report made as an
\* audiobook rolls onto its next file, which counts the file that ended twice.
ReportIsHeard ==
  [][report' # report /\ report'.by # "roll" /\ ~misled
       => report'.position = report'.heard]_playerVars

\* Nothing is completed before its end: a file that ends is not a book that ends.
CompletedAtTheEnd ==
  [][report' # report /\ report'.by = "completed" /\ ~misled
       => report'.heard = Duration(playing)]_playerVars

=============================================================================
