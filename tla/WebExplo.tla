------------------------------- MODULE WebExplo -------------------------------
(***************************************************************************)
(* Explo's panel under the search field: web/src/ui/explo_search.js, with  *)
(* what it needs of ui/explo_job.js.                                       *)
(*                                                                         *)
(* The panel searches for music that is not in the library and asks for    *)
(* songs and albums; a loop of its own asks how those come along.  The     *)
(* requests are remembered by the module, the rest by the panel: a visit   *)
(* to another page leaves its requests and polls under way, and the next   *)
(* panel starts afresh beside them.                                        *)
(*                                                                         *)
(* Of a search the model keeps its number, of an item how its request      *)
(* stands: "open" while it moves, then "failed" or "done" until the server *)
(* no longer knows of it.  One dashboard is at work.  The choice of a      *)
(* provider, the track lists and the covers are left out, and so is the    *)
(* copy in the browser's storage.                                          *)
(***************************************************************************)
EXTENDS Naturals, Sequences, FiniteSets, SequencesExt

CONSTANTS
  Songs, Albums,  \* bound: what there is to ask for
  MaxRevision,    \* bound: how many searches one panel makes
  MaxCalls,       \* bound: how many polls are under way at a time
  MaxPosts        \* bound: how many requests for items are

Items == Songs \cup Albums

VARIABLES
  job,           \* on the server: how the request for an item stands
  jobs,          \* the same, as the browser knows it: jobs and albumJobs
  mounted,       \* there is a panel
  available,     \* Explo is
  adding,        \* the items this panel is asking for
  posts,         \* the requests under way, and what became of them on the server
  polls,         \* the polls of items under way, and what the server answered
  refreshing,    \* where the loop of refresh is
  firstRefresh,
  kind,          \* what is searched for: "items" (songs or albums) or "artists"
  artists,       \* some are listed
  discography,   \* of an artist: "none", "loading" or "shown"
  revision,
  searching,     \* the form waits for its answer: its button is disabled
  lookups,       \* the searches of this panel under way
  painted,       \* the number of the search whose answer was painted last
  doubtful       \* history: the items of which the browser may have missed something

jobVars    == <<job, jobs, adding, posts, doubtful>>
loopVars   == <<available, polls, refreshing, firstRefresh>>
searchVars == <<kind, artists, discography, revision, searching, lookups, painted>>
exploVars  == <<jobVars, mounted, loopVars, searchVars>>

States == {"none", "open", "failed", "done"}

ExploTypeOK ==
  /\ job \in [Items -> States] /\ jobs \in [Items -> States]
  /\ mounted \in BOOLEAN /\ available \in BOOLEAN /\ firstRefresh \in BOOLEAN
  /\ adding \subseteq Items /\ doubtful \subseteq Items
  /\ posts \in Seq([of : Items, own : BOOLEAN, at : {"sent", "accepted", "refused"}])
  /\ Len(posts) <= MaxPosts
  /\ polls \subseteq [of : Items, own : BOOLEAN, got : States \cup {"unread"}, early : BOOLEAN]
  /\ refreshing \in {"no", "status", "items", "timer"}
  /\ kind \in {"items", "artists"} /\ artists \in BOOLEAN /\ searching \in BOOLEAN
  /\ discography \in {"none", "loading", "shown"}
  /\ revision \in 0 .. MaxRevision /\ painted \in 0 .. MaxRevision
  /\ lookups \subseteq [no : 1 .. MaxRevision, by : {"items", "artists", "releases"}]

-----------------------------------------------------------------------------
(* The panel comes and goes.                                                *)

NewPanel ==
  /\ available' = FALSE /\ firstRefresh' = TRUE
  /\ adding' = {}
  /\ kind' = "items" /\ artists' = FALSE /\ discography' = "none"
  /\ revision' = 0 /\ searching' = FALSE /\ lookups' = {} /\ painted' = 0

\* What the panel before has under way comes to an end on its own; what it asked for
\* may be accepted unseen by the next one.
LeftBehind ==
  /\ posts' = [n \in DOMAIN posts |-> [posts[n] EXCEPT !.own = FALSE]]
  /\ polls' = {[p EXCEPT !.own = FALSE] : p \in polls}
  /\ doubtful' = doubtful \cup {posts[n].of : n \in DOMAIN posts}
  /\ UNCHANGED <<job, jobs>>

\* mountExploSearch: viewSearch has painted the page, maybe over another panel.
Mount ==
  /\ NewPanel /\ LeftBehind
  /\ mounted' = TRUE /\ refreshing' = "status"

\* The page is painted over.  A panel that is not connected answers to nothing but
\* its polls and requests.
Leave ==
  IF mounted
  THEN NewPanel /\ LeftBehind /\ mounted' = FALSE /\ refreshing' = "no"
  ELSE UNCHANGED exploVars

Init ==
  /\ job = [i \in Items |-> "none"] /\ jobs = job
  /\ mounted \in BOOLEAN /\ refreshing = IF mounted THEN "status" ELSE "no"
  /\ available = FALSE /\ firstRefresh = TRUE
  /\ adding = {} /\ posts = << >> /\ polls = {} /\ doubtful = {}
  /\ kind = "items" /\ artists = FALSE /\ discography = "none"
  /\ revision = 0 /\ searching = FALSE /\ lookups = {} /\ painted = 0

-----------------------------------------------------------------------------
(* The searches.                                                            *)

NewSearch(by) ==
  /\ revision < MaxRevision /\ revision' = revision + 1
  /\ lookups' = lookups \cup {[no |-> revision', by |-> by]}

\* The form is submitted.
Search ==
  /\ mounted /\ available /\ ~searching
  /\ NewSearch(kind) /\ searching' = TRUE
  /\ UNCHANGED <<jobVars, mounted, loopVars, kind, artists, discography, painted>>

\* A pill of the kinds, which submits the form if there is a query in the field, also
\* while its button is disabled.
ChooseKind ==
  /\ mounted /\ available
  /\ kind' \in {"items", "artists"} \ {kind}
  /\ \/ NewSearch(kind') /\ searching' = TRUE
     \/ UNCHANGED <<revision, lookups, searching>>
  /\ UNCHANGED <<jobVars, mounted, loopVars, artists, discography, painted>>

\* openArtist.
openArtist ==
  /\ mounted /\ kind = "artists" /\ artists /\ discography = "none"
  /\ discography' = "loading"
  /\ NewSearch("releases")
  /\ UNCHANGED <<jobVars, mounted, loopVars, kind, artists, searching, painted>>

\* Back to the artists: nothing under way is wanted any more.
BackToArtists ==
  /\ mounted /\ kind = "artists" /\ discography = "shown"
  /\ discography' = "none"
  /\ revision < MaxRevision /\ revision' = revision + 1 /\ painted' = revision'
  /\ UNCHANGED <<jobVars, mounted, loopVars, kind, artists, searching, lookups>>

\* a mutant: any answer is painted.
AnySearchAnswered ==
  /\ \E s \in lookups :
       /\ lookups' = lookups \ {s}
       /\ painted' = s.no
       /\ searching' = (searching /\ s.by = "releases")
       /\ \/ /\ artists' \in IF s.by = "artists" THEN BOOLEAN ELSE {artists}
             /\ discography' = CASE s.by = "releases" -> "shown"
                                 [] s.by = "artists"  -> "none"
                                 [] OTHER -> discography
          \/ /\ discography' = IF s.by = "releases" THEN "none" ELSE discography
             /\ UNCHANGED artists
  /\ UNCHANGED <<jobVars, mounted, loopVars, kind, revision>>

\* The answer, or a failure, which leaves what is listed: neither is painted if
\* something newer was asked for.
SearchAnswered ==
  /\ \E s \in lookups :
       /\ lookups' = lookups \ {s}
       /\ searching' = (searching /\ (s.no # revision \/ s.by = "releases"))
       /\ \/ s.no # revision /\ UNCHANGED <<painted, artists, discography>>
          \/ /\ s.no = revision /\ painted' = s.no
             /\ artists' \in IF s.by = "artists" THEN BOOLEAN ELSE {artists}
             /\ discography' = CASE s.by = "releases" -> "shown"
                                 [] s.by = "artists"  -> "none"
                                 [] OTHER -> discography
          \/ /\ s.no = revision /\ painted' = s.no
             /\ discography' = IF s.by = "releases" THEN "none" ELSE discography
             /\ UNCHANGED artists
  /\ UNCHANGED <<jobVars, mounted, loopVars, kind, revision>>

-----------------------------------------------------------------------------
(* Asking for an item.                                                      *)

\* a mutant: the button only looks at what has been answered.
busyOnceAnswered(i) == jobs[i] \in {"open", "done"}

\* renderSongs and renderAlbumRows: a button is disabled while its item is being
\* asked for, moves or is done.
busy(i) == i \in adding \/ jobs[i] \in {"open", "done"}

\* The listener of the buttons: POST a download.
Add(i) ==
  /\ mounted /\ available /\ ~busy(i)
  /\ adding' = adding \cup {i}
  /\ posts' = Append(posts, [of |-> i, own |-> TRUE, at |-> "sent"]) /\ Len(posts') <= MaxPosts
  /\ UNCHANGED <<job, jobs, doubtful, mounted, loopVars, searchVars>>

\* The server takes the request, or refuses it.  A poll that it has answered by then
\* tells how the item stood before.
ServerTakes ==
  /\ \E n \in DOMAIN posts :
       /\ posts[n].at = "sent"
       /\ \/ /\ job' = [job EXCEPT ![posts[n].of] = "open"]
             /\ posts' = [posts EXCEPT ![n].at = "accepted"]
             /\ polls' = {[p EXCEPT !.early = (@ \/ (p.of = posts[n].of /\ p.got # "unread"))] :
                            p \in polls}
          \/ /\ posts' = [posts EXCEPT ![n].at = "refused"]
             /\ UNCHANGED <<job, polls>>
  /\ UNCHANGED <<jobs, adding, doubtful, mounted, available, refreshing, firstRefresh, searchVars>>

\* The answer, or a failure, also of a request that was taken.
AddAnswered ==
  /\ \E n \in DOMAIN posts :
       LET p == posts[n] IN
       /\ p.at # "sent"
       /\ posts' = RemoveAt(posts, n)
       /\ adding' = IF p.own THEN adding \ {p.of} ELSE adding
       /\ \/ /\ p.at = "accepted"
             /\ jobs' = [jobs EXCEPT ![p.of] = "open"]
             /\ doubtful' = IF \E m \in DOMAIN posts \ {n} : posts[m].of = p.of
                            THEN doubtful ELSE doubtful \ {p.of}
          \/ /\ UNCHANGED jobs
             /\ doubtful' = IF p.at = "accepted" THEN doubtful \cup {p.of} ELSE doubtful
  /\ UNCHANGED <<job, mounted, loopVars, searchVars>>

\* Explo is through with an item, and in time nothing knows of it any more.
JobMoves ==
  /\ \E i \in Items :
       \/ job[i] = "open" /\ \E s \in {"failed", "done"} : job' = [job EXCEPT ![i] = s]
       \/ job[i] \in {"failed", "done"} /\ job' = [job EXCEPT ![i] = "none"]
  /\ UNCHANGED <<jobs, adding, posts, doubtful, mounted, loopVars, searchVars>>

-----------------------------------------------------------------------------
(* refresh.                                                                 *)

\* What is worth asking for: songs that move, and albums that move, or all of them
\* the first time.
Polled == {i \in Items : jobs[i] = "open"}
            \cup {i \in Albums : firstRefresh /\ jobs[i] # "none"}

\* The state of Explo has come.
StatusAnswered ==
  /\ refreshing = "status"
  /\ available' \in BOOLEAN
  /\ polls' = polls \cup {[of |-> i, own |-> TRUE, got |-> "unread", early |-> FALSE] : i \in Polled}
  /\ Cardinality(polls') <= MaxCalls
  /\ refreshing' = "items"
  /\ UNCHANGED <<jobVars, mounted, firstRefresh, searchVars>>

\* It has not: try again later.
StatusFails ==
  /\ refreshing = "status"
  /\ available' = FALSE /\ refreshing' = "timer"
  /\ UNCHANGED <<jobVars, mounted, polls, firstRefresh, searchVars>>

ServerReads ==
  /\ \E p \in polls :
       /\ p.got = "unread"
       /\ polls' = (polls \ {p}) \cup {[p EXCEPT !.got = job[p.of]]}
  /\ UNCHANGED <<jobVars, mounted, available, refreshing, firstRefresh, searchVars>>

\* A poll is answered, whatever panel it is of.  A song that nothing knows of any more
\* has failed; such an album was never asked for.
PollAnswered ==
  /\ \E p \in polls :
       /\ polls' = polls \ {p}
       /\ \/ /\ p.got # "unread"
             /\ jobs' = [jobs EXCEPT ![p.of] =
                           IF p.got = "none" /\ p.of \in Songs THEN "failed" ELSE p.got]
             /\ doubtful' = IF p.early THEN doubtful \cup {p.of} ELSE doubtful
          \/ UNCHANGED <<jobs, doubtful>>
  /\ UNCHANGED <<job, adding, posts, mounted, available, refreshing, firstRefresh, searchVars>>

\* All polls of this round are answered: another one in two or ten seconds.
RoundEnds ==
  /\ refreshing = "items" /\ ~\E p \in polls : p.own
  /\ refreshing' = "timer" /\ firstRefresh' = FALSE
  /\ UNCHANGED <<jobVars, mounted, available, polls, searchVars>>

RefreshFires ==
  /\ refreshing = "timer" /\ refreshing' = "status"
  /\ UNCHANGED <<jobVars, mounted, available, polls, firstRefresh, searchVars>>

-----------------------------------------------------------------------------
Searching == Search \/ ChooseKind \/ openArtist \/ BackToArtists
Answers   == SearchAnswered \/ ServerTakes \/ AddAnswered \/ JobMoves
Refresh   == StatusAnswered \/ StatusFails \/ ServerReads \/ PollAnswered \/ RoundEnds
               \/ RefreshFires

Next == Mount \/ Leave \/ Searching \/ (\E i \in Items : Add(i)) \/ Answers \/ Refresh

Spec == Init /\ [][Next]_exploVars

-----------------------------------------------------------------------------
\* An answer that comes late never takes the place of a newer one: when nothing is
\* under way, what was painted last is what was asked for last.
NewestResultsStay == lookups = {} => painted = revision

\* What the server is working on is not asked for again: a button is there to press
\* only if the item is not being asked for and not known to move.  The browser may
\* have missed something of an item (`doubtful`): an answer that was lost, a request
\* of a panel that is gone, or a poll that was answered before the request was taken and
\* came after.
NothingIsAskedForTwice ==
  /\ \A i \in Items \ doubtful : job[i] = "open" => busy(i)
  /\ \A m, n \in DOMAIN posts :
       posts[m].of = posts[n].of /\ posts[m].of \notin doubtful => m = n

=============================================================================
