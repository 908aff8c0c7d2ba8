----------------------------- MODULE WebDashboard -----------------------------
(***************************************************************************)
(* The pages of the dashboard with two parts that run beside them: Explo's *)
(* panel, which is there while the search is on the screen, and the player *)
(* dock, which no page takes away.                                         *)
(*                                                                         *)
(* A panel is made anew whenever viewSearch paints, also over another one, *)
(* and is gone when a late load of another page paints over it.            *)
(***************************************************************************)
EXTENDS WebViews

CONSTANTS
  Songs, Albums, MaxRevision, MaxCalls, MaxPosts,  \* of WebExplo
  Titles, MaxAsking,                               \* of WebPlayer
  Finds,   \* bound: the sessions in which the panel's searches are used
  Wanted,  \* bound: the items asked for in a session
  Played   \* bound: the items played in a session

VARIABLES
  job, jobs, mounted, available, adding, posts, polls, refreshing, firstRefresh, kind,
  artists, discography, revision, searching, lookups, painted, doubtful,
  playing, globalBase, lastProgressSync, src, currentTime, asking, report, misled

Explo  == INSTANCE WebExplo
Player == INSTANCE WebPlayer

\* Only an audiobook has several files.
ASSUME TitlesAssumption ==
  \A i \in Titles :
    /\ i.kind \in Player!Kinds /\ i.files \in Seq(Nat \ {0}) /\ i.files # << >>
    /\ i.kind # "audiobook" => Len(i.files) = 1

\* What the fold in Sum computes, file by file.
ASSUME SumAssumption ==
  \A i \in Titles :
    LET upTo(n) == Player!Sum(SubSeq(i.files, 1, n)) IN
    upTo(0) = 0 /\ \A n \in DOMAIN i.files : upTo(n) = upTo(n - 1) + i.files[n]

ASSUME WantedAssumption == \A s \in Sessions : Wanted[s] \subseteq Explo!Items
ASSUME PlayedAssumption == \A s \in Sessions : Played[s] \subseteq Titles

exploVars  == <<job, jobs, mounted, available, adding, posts, polls, refreshing, firstRefresh,
                kind, artists, discography, revision, searching, lookups, painted, doubtful>>
playerVars == <<playing, globalBase, lastProgressSync, src, currentTime, asking, report, misled>>
dashboardVars == <<vars, exploVars, playerVars>>

DashboardTypeOK == TypeOK /\ Explo!ExploTypeOK /\ Player!PlayerTypeOK

DashboardInit ==
  /\ Init /\ Player!Init
  /\ Explo!Init /\ mounted = (screen = "search")

-----------------------------------------------------------------------------
\* viewSearch mounts a panel; any other page painted in its place removes it.
Repainted == IF screen' = "search" THEN Explo!Mount ELSE Explo!Leave

\* Bound: where the panel or the player is used, the pages are only walked through, with
\* one load under way.
Walks   == session \in Finds \/ Wanted[session] # {} \/ Played[session] # {}
OneLoad == Len(loads') <= 1

Elsewhere == MusicMode \/ LoadMore \/ Reopen \/ RefreshRadio \/ Write \/ Type \/ WriteAnswered
               \/ WriteFails \/ SearchAnswered \/ DebounceFires \/ Import

PageStep ==
  /\ \/ /\ navigateTo \/ (~Walks /\ RefreshActiveView)
        /\ Repainted
     \/ /\ LoadAnswered \/ (~Walks /\ Elsewhere)
        /\ IF screen' = screen THEN UNCHANGED exploVars ELSE Explo!Leave
  /\ Walks => OneLoad
  /\ UNCHANGED playerVars

ExploStep ==
  /\ \/ session \in Finds /\ Explo!Searching
     \/ \E i \in Wanted[session] : Explo!Add(i)
     \/ Walks /\ (Explo!Answers \/ Explo!Refresh)
  /\ UNCHANGED <<vars, playerVars>>

\* The PLAY buttons of trackList, episodeList and openAudiobook.
PlayButtons(i) ==
  CASE i.kind = "audiobook"       -> {"audiobooks/item"}
    [] i.kind = "podcast-episode" -> {"podcasts", "podcasts/show", "search"}
    [] i.kind = "music-track"     -> {"music", "music/album", "music/playlist", "search"}

PlayerStep ==
  /\ \/ \E i \in Played[session] : screen \in PlayButtons(i) /\ Player!Press(i)
     \/ Player!Element
  /\ UNCHANGED <<vars, exploVars>>

DashboardNext == PageStep \/ ExploStep \/ PlayerStep

DashboardSpec == DashboardInit /\ [][DashboardNext]_dashboardVars

-----------------------------------------------------------------------------
\* There is a panel of Explo's exactly while the search is on the screen, and what it
\* searched for last is what it shows last: WebExplo's NewestResultsStay, across visits.
NewestResultsStay == (mounted <=> screen = "search") /\ Explo!NewestResultsStay

\* No item is asked for a second time while the server is working on it, also if the
\* user leaves the search and comes back: WebExplo's NothingIsAskedForTwice.
NothingIsAskedForTwice == Explo!NothingIsAskedForTwice

\* What is reported of playback is what was heard, whatever page is on the screen:
\* WebPlayer's ReportIsHeard.
ReportIsHeard == Player!ReportIsHeard

\* Nothing is completed before its end: WebPlayer's CompletedAtTheEnd.
CompletedAtTheEnd == Player!CompletedAtTheEnd

=============================================================================
