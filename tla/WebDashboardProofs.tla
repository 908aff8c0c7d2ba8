------------------------- MODULE WebDashboardProofs -------------------------
(***************************************************************************)
(* Proofs about the pages of the dashboard, Explo's panel and the player   *)
(* dock: for any sessions, queries, loads, imports, items and titles.      *)
(***************************************************************************)
EXTENDS WebDashboard, SequenceTheorems, WellFoundedInduction, TLAPS

-----------------------------------------------------------------------------
(* The invariant of the pages.                                              *)

Modes == MusicModes \cup {"none", "playlists"}
LoadsOf == [page : Views, phase : 1 .. 2, append : BOOLEAN, mode : Modes, at : Nat]
MusicPage == [mode : Modes, at : Nat]

ViewsTyped ==
  /\ session \in Sessions /\ session \subseteq Pages /\ hash \in Pages /\ screen \in Screens
  /\ loads \in Seq(LoadsOf)
  /\ musicMode \in Modes /\ musicListItems \in Seq(MusicPage) /\ musicListOffset \in Nat
  /\ searchQuery \in Queries \cup {""} /\ searches \subseteq Queries
  /\ debounce \subseteq {"own", "left"}
  /\ chains \in Seq({"waiting", "asking", "rereading"})

\* What keeps SearchShowsItsQuery: once the field's own timeout has fired, and no two
\* searches have overlapped, the one under way is for what is in the field.
SearchIsForTheField ==
  screen = "search" /\ ~raced /\ "own" \notin debounce =>
    /\ searches \subseteq {searchQuery}
    /\ searches = {} => results \in {searchQuery, "error"}

\* The list is whole, not empty, and of the mode that is chosen.
SettledAs(items, offset, mode) ==
  /\ offset = Len(items) /\ items # << >>
  /\ \A n \in DOMAIN items : items[n] = [mode |-> mode, at |-> n - 1]

\* What a load of the list counts on when no other overlaps it.
CountsOn(l, items, offset, mode) ==
  /\ l.append => SettledAs(items, offset, mode)
  /\ l.phase = 2 => l.mode = mode /\ l.at = offset
  /\ l.phase = 2 /\ ~l.append => items = << >> /\ offset = 0

Settled   == SettledAs(musicListItems, musicListOffset, musicMode)
Counts(l) == CountsOn(l, musicListItems, musicListOffset, musicMode)

\* What keeps MusicListIsWhole: unless loads of the list have overlapped there is one at
\* most, which began by emptying the screen, and what it counts on stays.
OneLoadOfTheList ==
  ~crossed =>
    /\ \A i, j \in DOMAIN loads : IsMusic(loads[i]) /\ IsMusic(loads[j]) => i = j
    /\ \A i \in DOMAIN loads : IsMusic(loads[i]) => screen # "music" /\ Counts(loads[i])
    /\ screen = "music" => Settled

ViewsInv ==
  /\ ViewsTyped
  /\ NothingWaitsInVain
  /\ ImportIsFollowed
  /\ SearchIsForTheField
  /\ OneLoadOfTheList

-----------------------------------------------------------------------------
(* The invariant of the panel.                                              *)

Posts == [of : Explo!Items, own : BOOLEAN, at : {"sent", "accepted", "refused"}]
Polls == [of : Explo!Items, own : BOOLEAN, got : Explo!States \cup {"unread"}, early : BOOLEAN]

ExploTyped ==
  /\ job \in [Explo!Items -> Explo!States] /\ jobs \in [Explo!Items -> Explo!States]
  /\ posts \in Seq(Posts) /\ polls \subseteq Polls
  /\ adding \subseteq Explo!Items

\* What keeps NewestResultsStay: the newest search is painted, or under way.
NewestIsUnderWay ==
  painted # revision => \E s \in lookups : s.no = revision

\* A request for an item of which nothing was missed is of this panel, its button is
\* disabled, and it was made when the server was not working on the item.
PostCounts(p) ==
  p.of \notin doubtful =>
    /\ p.own /\ p.of \in adding
    /\ p.at # "accepted" /\ job[p.of] = "open" => jobs[p.of] \in {"open", "done"}

AskedForOnce ==
  /\ Explo!NothingIsAskedForTwice
  /\ \A n \in DOMAIN posts : PostCounts(posts[n])
  /\ \A i \in adding : \E n \in DOMAIN posts : posts[n].of = i /\ posts[n].own

\* An answer under way that was read while the server was working on an item says so,
\* and one read before that is known to be.
PollsAreCurrent ==
  \A p \in polls : p.got # "unread" /\ ~p.early /\ job[p.of] = "open" => p.got = "open"

ExploInv ==
  /\ ExploTyped
  /\ mounted <=> screen = "search"
  /\ NewestIsUnderWay
  /\ AskedForOnce
  /\ PollsAreCurrent

-----------------------------------------------------------------------------
(* The invariant of the player.                                             *)

Stream == [from : Nat, length : Nat, known : BOOLEAN]

PlayerTyped ==
  /\ playing \in Titles \cup {Player!None}
  /\ asking \subseteq {i \in Titles : i.kind = "podcast-episode"}
  /\ currentTime \in Nat /\ globalBase \in Nat /\ src \in Stream

\* Unless applyStreamResumeSeek was misled, the base is where the stream starts; before
\* it knows, the element has not moved.
BaseIsTheStart ==
  /\ playing.kind = "music-track" => globalBase = 0
  /\ ~src.known => currentTime = 0
  /\ src.known /\ ~misled => globalBase = src.from

\* A stream ends where a file of the item does.
UpTo(i, n) == Player!Sum(SubSeq(i.files, 1, n))
EndsWithAFile ==
  playing # Player!None =>
    \E n \in DOMAIN playing.files : src.from + src.length = UpTo(playing, n)

PlayerInv == PlayerTyped /\ BaseIsTheStart /\ EndsWithAFile

-----------------------------------------------------------------------------
(* Sequences.                                                               *)

\* An element is taken out: the ones after it move up.
LEMMA Removal ==
  ASSUME NEW S, NEW s \in Seq(S), NEW i \in DOMAIN s
  PROVE  /\ RemoveAt(s, i) \in Seq(S)
         /\ Len(RemoveAt(s, i)) = Len(s) - 1
         /\ DOMAIN RemoveAt(s, i) = 1 .. Len(s) - 1
         /\ \A k \in 1 .. Len(s) - 1 : RemoveAt(s, i)[k] = s[IF k < i THEN k ELSE k + 1]
<1> DEFINE front == SubSeq(s, 1, i - 1)
           back  == SubSeq(s, i + 1, Len(s))
<1>1. i \in 1 .. Len(s) /\ Len(s) \in Nat
  OBVIOUS
<1>2. /\ front \in Seq(S) /\ Len(front) = i - 1
      /\ \A k \in 1 .. i - 1 : front[k] = s[k]
  BY <1>1
<1>3. /\ back \in Seq(S) /\ Len(back) = Len(s) - i
      /\ \A k \in 1 .. Len(s) - i : back[k] = s[k + i]
  BY <1>1
<1>4. RemoveAt(s, i) = front \o back
  BY DEF RemoveAt
<1> HIDE DEF front, back
<1>5. /\ front \o back \in Seq(S) /\ Len(front \o back) = Len(s) - 1
  BY <1>1, <1>2, <1>3
<1>6. \A k \in 1 .. Len(s) - 1 : (front \o back)[k] = s[IF k < i THEN k ELSE k + 1]
  <2> SUFFICES ASSUME NEW k \in 1 .. Len(s) - 1
               PROVE  (front \o back)[k] = s[IF k < i THEN k ELSE k + 1]
    OBVIOUS
  <2>1. CASE k < i
    <3>1. (front \o back)[k] = front[k]
      BY <1>1, <1>2, <1>3, <2>1
    <3>2. QED
      BY <1>1, <1>2, <2>1, <3>1
  <2>2. CASE ~(k < i)
    <3>1. (front \o back)[k] = back[k - Len(front)]
      BY <1>1, <1>2, <1>3, <2>2, ConcatProperties
    <3>2. back[k - (i - 1)] = s[k - (i - 1) + i]
      BY <1>1, <1>3, <2>2
    <3>3. k - (i - 1) + i = k + 1
      BY <1>1
    <3>4. QED
      BY <1>2, <2>2, <3>1, <3>2, <3>3
  <2>3. QED
    BY <2>1, <2>2
<1>7. QED
  BY <1>4, <1>5, <1>6

\* An element is changed, or one is appended.
LEMMA Changed ==
  ASSUME NEW S, NEW s \in Seq(S), NEW i \in DOMAIN s, NEW x \in S
  PROVE  /\ [s EXCEPT ![i] = x] \in Seq(S)
         /\ DOMAIN [s EXCEPT ![i] = x] = DOMAIN s
         /\ \A k \in DOMAIN s : [s EXCEPT ![i] = x][k] = IF k = i THEN x ELSE s[k]
OBVIOUS

LEMMA Appended ==
  ASSUME NEW S, NEW s \in Seq(S), NEW x \in S
  PROVE  /\ Append(s, x) \in Seq(S) /\ Append(s, x) # << >>
         /\ DOMAIN Append(s, x) = 1 .. Len(s) + 1 /\ DOMAIN s = 1 .. Len(s)
         /\ \A k \in 1 .. Len(s) + 1 : Append(s, x)[k] = IF k <= Len(s) THEN s[k] ELSE x
OBVIOUS

LEMMA OneElement ==
  ASSUME NEW S, NEW x \in S, NEW s, s = <<x>>
  PROVE  s \in Seq(S) /\ s # << >> /\ \A k \in DOMAIN s : k = 1 /\ s[k] = x
OBVIOUS

LEMMA ElementsOf ==
  ASSUME NEW S, NEW s \in Seq(S)
  PROVE  DOMAIN s = 1 .. Len(s) /\ Len(s) \in Nat /\ \A k \in DOMAIN s : s[k] \in S
BY ElementOfSeq

-----------------------------------------------------------------------------
(* The pages: what the actions have in common.                              *)

LEMMA NewLoad ==
  ASSUME NEW p \in Views, NEW append \in BOOLEAN
  PROVE  /\ Load(p, append) \in LoadsOf
         /\ Load(p, append).page = p /\ Load(p, append).append = append
         /\ Load(p, append).phase = 1
BY DEF Load, LoadsOf, Modes

LEMMA LoadsGrow ==
  ASSUME ViewsTyped, NEW l \in LoadsOf, loads' = Append(loads, l)
  PROVE  loads' \in Seq(LoadsOf) /\ loads' # << >>
<1>1. loads \in Seq(LoadsOf)
  BY DEF ViewsTyped
<1>2. QED
  BY <1>1, Appended

\* A load joins the others: of another page, which leaves the list to the loads there
\* are, or of the list.
LEMMA LoadJoins ==
  ASSUME ViewsTyped, OneLoadOfTheList, NEW l \in LoadsOf, loads' = Append(loads, l),
         UNCHANGED <<musicListItems, musicListOffset>>,
         IsMusic(l) \/ UNCHANGED musicMode,
         ~crossed' => ~crossed \/ (IsMusic(l) /\ ~l.append),
         screen' # "music" \/ (screen' = screen /\ ~IsMusic(l)),
         IsMusic(l) => l.phase = 1 /\ (~crossed' => ~Overlaps) /\ screen' # "music",
         IsMusic(l) /\ l.append => UNCHANGED musicMode /\ screen = "music"
  PROVE  OneLoadOfTheList'
<1> DEFINE S(m) == CountsOn(m, musicListItems', musicListOffset', musicMode')
<1>1. /\ DOMAIN loads' = 1 .. Len(loads) + 1 /\ DOMAIN loads = 1 .. Len(loads)
      /\ Len(loads) \in Nat
      /\ \A k \in 1 .. Len(loads) + 1 : loads'[k] = IF k <= Len(loads) THEN loads[k] ELSE l
  <2>1. loads \in Seq(LoadsOf)
    BY DEF ViewsTyped
  <2>2. QED
    BY <2>1, Appended, ElementsOf
<1>2. SUFFICES ASSUME ~crossed'
               PROVE  /\ \A i, j \in DOMAIN loads' :
                           IsMusic(loads'[i]) /\ IsMusic(loads'[j]) => i = j
                      /\ \A i \in DOMAIN loads' : IsMusic(loads'[i]) =>
                           screen' # "music" /\ S(loads'[i])
                      /\ screen' = "music" => Settled'
  BY DEF OneLoadOfTheList, IsMusic, Counts
<1> HIDE DEF S
<1>3. CASE IsMusic(l)
  <2>1. \A k \in DOMAIN loads' : IsMusic(loads'[k]) => loads'[k] = l /\ k = Len(loads) + 1
    <3>1. \A k \in DOMAIN loads : ~IsMusic(loads[k])
      BY <1>2, <1>3 DEF Overlaps
    <3>2. QED
      BY <1>1, <3>1
  <2>2. S(l)
    <3>1. CASE l.append
      BY <1>2, <1>3, <3>1 DEF OneLoadOfTheList, S, CountsOn, Settled
    <3>2. CASE ~l.append
      BY <1>3, <3>2 DEF S, CountsOn
    <3>3. QED
      BY <3>1, <3>2
  <2>3. QED
    BY <1>3, <2>1, <2>2
<1>4. CASE ~IsMusic(l)
  <2>1. UNCHANGED <<musicListItems, musicListOffset, musicMode>> /\ ~crossed
    BY <1>2, <1>4
  <2>2. \A k \in DOMAIN loads' : IsMusic(loads'[k]) => k \in DOMAIN loads /\ loads'[k] = loads[k]
    BY <1>1, <1>4
  <2>3. /\ \A i, j \in DOMAIN loads : IsMusic(loads[i]) /\ IsMusic(loads[j]) => i = j
        /\ \A k \in DOMAIN loads : IsMusic(loads[k]) => screen # "music" /\ S(loads[k])
        /\ screen = "music" => Settled
    BY <2>1 DEF OneLoadOfTheList, Counts, S
  <2>4. Settled' = Settled
    BY <2>1 DEF Settled
  <2>5. QED
    BY <1>4, <2>2, <2>3, <2>4
<1>5. QED
  BY <1>3, <1>4

\* The loads and the list are left alone.
LEMMA ListStays ==
  ASSUME OneLoadOfTheList, UNCHANGED <<loads, crossed, musicListItems, musicListOffset, musicMode>>,
         screen' # "music" \/ screen' = screen
  PROVE  OneLoadOfTheList'
BY DEF OneLoadOfTheList, Counts, Settled, IsMusic

\* A page is called for.
LEMMA ShowKeeps ==
  ASSUME ViewsInv, NEW p \in Pages, Show(p), hash' \in Pages, musicMode' \in Modes,
         p = "music" \/ UNCHANGED musicMode, chains' = chains,
         UNCHANGED <<session, musicListItems, musicListOffset, searchQuery>>
  PROVE  ViewsInv'
<1>1. /\ loads \in Seq(LoadsOf) /\ searchQuery \in Queries \cup {""}
      /\ debounce \subseteq {"own", "left"} /\ screen \in Screens
  BY DEF ViewsInv, ViewsTyped
<1>2. /\ panel' = "none" /\ debounce' \subseteq {"left"}
      /\ raced' = FALSE /\ screen' \in {"search", "loading"}
  BY <1>1 DEF Show, viewSearch, renderLoading, Paint, NoSearch
<1>3. CASE p = "search" /\ viewSearch /\ UNCHANGED <<loads, crossed>>
  <2>1. /\ screen' = "search"
        /\ \/ searchQuery = "" /\ results' = "" /\ searches' = {}
           \/ searchQuery # "" /\ results' = "querying" /\ searches' = {searchQuery}
    BY <1>3 DEF viewSearch, Paint
  <2>2. ViewsTyped'
    BY <1>1, <1>2, <1>3, <2>1 DEF ViewsInv, ViewsTyped, Screens, Pages
  <2>3. NothingWaitsInVain' /\ ImportIsFollowed' /\ SearchIsForTheField'
    BY <1>2, <1>3, <2>1 DEF NothingWaitsInVain, ImportIsFollowed, SearchIsForTheField
  <2>4. p # "music"
    BY <1>3
  <2>5. OneLoadOfTheList'
    BY <1>3, <2>1, <2>4, ListStays DEF ViewsInv
  <2>6. QED
    BY <2>2, <2>3, <2>5 DEF ViewsInv
<1>4. CASE /\ p # "search" /\ renderLoading /\ NoSearch /\ loads' = Append(loads, Load(p, FALSE))
           /\ crossed' = IF p = "music" THEN Overlaps ELSE crossed
  <2>1. /\ p \in Views /\ screen' = "loading" /\ results' = "" /\ searches' = {}
    BY <1>4 DEF Pages, renderLoading, Paint, NoSearch
  <2>2. /\ Load(p, FALSE) \in LoadsOf /\ Load(p, FALSE).page = p
        /\ ~Load(p, FALSE).append /\ Load(p, FALSE).phase = 1
    BY <2>1, NewLoad
  <2>3. loads' \in Seq(LoadsOf) /\ loads' # << >>
    BY <1>4, <2>2, LoadsGrow DEF ViewsInv
  <2>4. ViewsTyped'
    BY <1>1, <1>2, <2>1, <2>3 DEF ViewsInv, ViewsTyped, Screens
  <2>5. NothingWaitsInVain' /\ ImportIsFollowed' /\ SearchIsForTheField'
    BY <1>2, <2>1, <2>3 DEF NothingWaitsInVain, ImportIsFollowed, SearchIsForTheField
  <2>6. OneLoadOfTheList'
    BY <1>4, <2>1, <2>2, LoadJoins DEF ViewsInv, IsMusic
  <2>7. QED
    BY <2>4, <2>5, <2>6 DEF ViewsInv
<1>5. QED
  BY <1>3, <1>4 DEF Show

\* The radio tab is asked for again without a word.
LEMMA QuietLoadKeeps ==
  ASSUME ViewsInv, loads' = Append(loads, Load("radio", FALSE)), hash' \in Pages,
         UNCHANGED <<session, screen, musicVars, searchQuery, searchVars, importVars>>
  PROVE  ViewsInv'
<1>1. /\ Load("radio", FALSE) \in LoadsOf /\ Load("radio", FALSE).page = "radio"
  BY NewLoad DEF Views
<1>2. loads' \in Seq(LoadsOf) /\ loads' # << >>
  BY <1>1, LoadsGrow DEF ViewsInv
<1>3. ViewsTyped'
  BY <1>2 DEF ViewsInv, ViewsTyped, musicVars, searchVars, importVars
<1>4. NothingWaitsInVain' /\ ImportIsFollowed' /\ SearchIsForTheField'
  BY <1>2 DEF ViewsInv, NothingWaitsInVain, ImportIsFollowed, SearchIsForTheField, musicVars,
              searchVars, importVars
<1>5. OneLoadOfTheList'
  BY <1>1, LoadJoins DEF ViewsInv, IsMusic, musicVars
<1>6. QED
  BY <1>3, <1>4, <1>5 DEF ViewsInv

\* Nothing happens to the screen.
LEMMA StillKeeps ==
  ASSUME ViewsInv, hash' \in Pages,
         UNCHANGED <<session, screen, loads, musicVars, searchQuery, searchVars, importVars>>
  PROVE  ViewsInv'
<1>1. ViewsTyped' /\ NothingWaitsInVain' /\ ImportIsFollowed' /\ SearchIsForTheField'
  BY DEF ViewsInv, ViewsTyped, NothingWaitsInVain, ImportIsFollowed, SearchIsForTheField,
         musicVars, searchVars, importVars
<1>2. OneLoadOfTheList'
  BY ListStays DEF ViewsInv, musicVars
<1>3. QED
  BY <1>1, <1>2 DEF ViewsInv

\* The search runs for what is in the field, after a timeout or a button.
LEMMA SearchRuns ==
  ASSUME ViewsInv, screen = "search", hash' \in Pages,
         results' = IF searchQuery = "" THEN "" ELSE "querying",
         searches' = searches \cup ({searchQuery} \ {""}),
         raced' = (searches # {}), debounce' \subseteq debounce,
         UNCHANGED <<session, screen, loads, musicVars, searchQuery, importVars>>
  PROVE  ViewsInv'
<1>1. ViewsTyped' /\ NothingWaitsInVain' /\ ImportIsFollowed' /\ SearchIsForTheField'
  BY DEF ViewsInv, ViewsTyped, NothingWaitsInVain, ImportIsFollowed, SearchIsForTheField,
         musicVars, importVars
<1>2. OneLoadOfTheList'
  BY ListStays DEF ViewsInv, musicVars
<1>3. QED
  BY <1>1, <1>2 DEF ViewsInv

-----------------------------------------------------------------------------
(* The pages: what is clicked and typed.                                    *)

LEMMA Tabs == \A p \in Pages : TabOf(p) \in Pages
BY DEF Pages, Views, TabOf, MusicPages, AudiobookPages, PodcastPages

LEMMA NavigationKeeps ==
  ASSUME ViewsInv, navigateTo \/ MusicMode \/ Reopen \/ RefreshActiveView
  PROVE  ViewsInv'
<1>1. session \subseteq Pages /\ hash \in Pages /\ screen \in Screens /\ musicMode \in Modes
  BY DEF ViewsInv, ViewsTyped
<1>2. CASE navigateTo
  BY <1>1, <1>2, ShowKeeps DEF navigateTo, Navigate
<1>3. CASE MusicMode
  BY <1>1, <1>3, ShowKeeps DEF MusicMode, navVars, Modes, Pages, Views
<1>4. CASE Reopen
  <2>1. screen \in Pages /\ screen # "music"
    BY <1>4 DEF Reopen, Settings, Pages, Views
  <2>2. QED
    BY <1>1, <1>4, <2>1, ShowKeeps DEF Reopen, navVars
<1>5. CASE RefreshActiveView
  BY <1>1, <1>5, Tabs, ShowKeeps DEF RefreshActiveView, navVars
<1>6. QED
  BY <1>2, <1>3, <1>4, <1>5

LEMMA LoadMoreKeeps ==
  ASSUME ViewsInv, LoadMore
  PROVE  ViewsInv'
<1>1. /\ screen = "music" /\ screen' = "loading" /\ panel' = "none"
      /\ debounce' \subseteq {"own", "left"}
      /\ results' = "" /\ searches' = {}
      /\ loads' = Append(loads, Load("music", TRUE)) /\ crossed' = (crossed \/ Overlaps)
      /\ UNCHANGED <<session, hash, musicMode, musicListItems, musicListOffset, searchQuery, chains>>
  BY DEF LoadMore, renderLoading, Paint, NoSearch, navVars, ViewsInv, ViewsTyped
<1>2. /\ Load("music", TRUE) \in LoadsOf /\ Load("music", TRUE).page = "music"
      /\ Load("music", TRUE).append /\ Load("music", TRUE).phase = 1
  BY NewLoad DEF Views
<1>3. loads' \in Seq(LoadsOf) /\ loads' # << >>
  BY <1>1, <1>2, LoadsGrow DEF ViewsInv
<1>4. ViewsTyped'
  BY <1>1, <1>3 DEF ViewsInv, ViewsTyped, Screens
<1>5. NothingWaitsInVain' /\ ImportIsFollowed' /\ SearchIsForTheField'
  BY <1>1, <1>3 DEF NothingWaitsInVain, ImportIsFollowed, SearchIsForTheField
<1>6. OneLoadOfTheList'
  BY <1>1, <1>2, LoadJoins DEF ViewsInv, IsMusic
<1>7. QED
  BY <1>4, <1>5, <1>6 DEF ViewsInv

LEMMA TypingKeeps ==
  ASSUME ViewsInv, Type \/ SearchAnswered
  PROVE  ViewsInv'
<1>1. UNCHANGED <<navVars, screen, loads, musicVars, importVars, raced>>
  BY DEF Type, SearchAnswered
<1>2. OneLoadOfTheList'
  BY <1>1, ListStays DEF ViewsInv, musicVars
<1>3. CASE Type
  BY <1>1, <1>2, <1>3
  DEF Type, ViewsInv, ViewsTyped, NothingWaitsInVain, ImportIsFollowed, SearchIsForTheField,
      navVars, musicVars, importVars
<1>4. CASE SearchAnswered
  <2>1. PICK q \in searches : searches' = searches \ {q} /\ results' \in {q, "error"}
    BY <1>4 DEF SearchAnswered
  <2>2. UNCHANGED <<searchQuery, debounce>>
    BY <1>4 DEF SearchAnswered
  <2>3. q \in Queries /\ q # "querying"
    BY <2>1, QueriesAssumption DEF ViewsInv, ViewsTyped
  <2>4. ViewsTyped' /\ NothingWaitsInVain' /\ ImportIsFollowed'
    BY <1>1, <2>1, <2>2, <2>3
    DEF ViewsInv, ViewsTyped, NothingWaitsInVain, ImportIsFollowed, navVars, musicVars, importVars
  <2>5. SearchIsForTheField'
    BY <1>1, <2>1, <2>2 DEF ViewsInv, SearchIsForTheField
  <2>6. QED
    BY <1>2, <2>4, <2>5 DEF ViewsInv
<1>5. QED
  BY <1>3, <1>4

LEMMA DebounceKeeps ==
  ASSUME ViewsInv, DebounceFires
  PROVE  ViewsInv'
<1>1. /\ UNCHANGED <<session, hash, screen, loads, musicVars, searchQuery, importVars>>
      /\ debounce' \subseteq debounce /\ hash' \in Pages
  BY DEF DebounceFires, navVars, ViewsInv, ViewsTyped
<1>2. CASE screen = "search"
  BY <1>1, <1>2, SearchRuns DEF DebounceFires, runSearch
<1>3. CASE screen # "search"
  <2>1. UNCHANGED <<results, searches, raced>>
    BY <1>3 DEF DebounceFires, runSearch
  <2>2. ViewsTyped' /\ NothingWaitsInVain' /\ ImportIsFollowed' /\ SearchIsForTheField'
    BY <1>1, <1>3, <2>1
    DEF ViewsInv, ViewsTyped, NothingWaitsInVain, ImportIsFollowed, SearchIsForTheField,
        musicVars, importVars
  <2>3. OneLoadOfTheList'
    BY <1>1, ListStays DEF ViewsInv, musicVars
  <2>4. QED
    BY <2>2, <2>3 DEF ViewsInv
<1>4. QED
  BY <1>2, <1>3

\* The chains of followPlaylistImport.
LEMMA ImportKeeps ==
  ASSUME ViewsInv, Import
  PROVE  ViewsInv'
<1> DEFINE At == {"waiting", "asking", "rereading"}
<1>1. UNCHANGED <<navVars, screen, loads, musicVars, searchQuery, searchVars>>
  BY DEF Import, ImportEnds, ChainFires, ChainAnswered, ChainReread
<1>2. chains \in Seq(At)
  BY DEF ViewsInv, ViewsTyped
<1>3. chains' \in Seq(At) /\ (panel' = "open" => chains' # << >>)
  <2>1. CASE ImportEnds
    BY <1>2, <2>1 DEF ImportEnds, importVars, ViewsInv, ImportIsFollowed
  <2>2. ASSUME NEW i \in DOMAIN chains, NEW at \in At, chains' = [chains EXCEPT ![i] = at]
        PROVE  chains' \in Seq(At) /\ chains' # << >>
    <3>1. chains' \in Seq(At) /\ DOMAIN chains' = DOMAIN chains
      BY <1>2, <2>2, Changed
    <3>2. QED
      BY <2>2, <3>1
  <2>3. ASSUME NEW i \in DOMAIN chains, chains' = RemoveAt(chains, i)
        PROVE  chains' \in Seq(At)
    BY <1>2, <2>3, Removal
  <2>4. CASE ChainFires
    BY <2>2, <2>3, <2>4 DEF ChainFires
  <2>5. CASE ChainReread
    BY <2>2, <2>5 DEF ChainReread
  <2>6. CASE ChainAnswered
    BY <2>2, <2>3, <2>6 DEF ChainAnswered
  <2>7. QED
    BY <2>1, <2>4, <2>5, <2>6 DEF Import
<1>4. ViewsTyped' /\ NothingWaitsInVain' /\ ImportIsFollowed' /\ SearchIsForTheField'
  BY <1>1, <1>3 DEF ViewsInv, ViewsTyped, NothingWaitsInVain, ImportIsFollowed,
                    SearchIsForTheField, navVars, musicVars, searchVars
<1>5. OneLoadOfTheList'
  BY <1>1, ListStays DEF ViewsInv, musicVars
<1>6. QED
  BY <1>4, <1>5 DEF ViewsInv

-----------------------------------------------------------------------------
(* The pages: what an answered button or form does.  However many there    *)
(* are, each shows one page, asks for the radio tab again, runs the search *)
(* again, or leaves the screen alone.                                      *)

ShowsOne == \E p \in Views : Show(p)
AsksForRadio ==
  loads' = Append(loads, Load("radio", FALSE)) /\ UNCHANGED <<screen, crossed, searchVars, panel>>
SearchesAgain ==
  /\ screen = "search"
  /\ results' = IF searchQuery = "" THEN "" ELSE "querying"
  /\ searches' = searches \cup ({searchQuery} \ {""})
  /\ raced' = (searches # {})
  /\ UNCHANGED <<screen, loads, crossed, debounce, panel>>

LEMMA SettingsPages == Settings \subseteq Views
BY DEF Settings, Views

LEMMA SettingsShown ==
  ASSUME NEW p \in Settings, viewSettings(p)
  PROVE  ShowsOne
BY SettingsPages DEF viewSettings, ShowsOne

LEMMA SettingsWrites ==
  ASSUME NEW p, AfterSettingsWrite(p)
  PROVE  ShowsOne \/ Stays
<1>1. CASE bindSettingsForms(p)
  BY <1>1, SettingsShown DEF bindSettingsForms
<1>2. CASE ExploForm(p)
  BY <1>2, SettingsShown DEF ExploForm, Settings
<1>3. CASE ProfileForm(p)
  BY <1>3 DEF ProfileForm
<1>4. CASE UserForm(p)
  BY <1>4 DEF UserForm, ShowsOne, Views
<1>5. CASE LibraryButton(p)
  BY <1>5, SettingsShown DEF LibraryButton, Settings
<1>6. CASE ArtistImages(p)
  BY <1>6 DEF ArtistImages, ShowsOne, Views
<1>7. CASE AccountButton(p)
  BY <1>7, SettingsShown DEF AccountButton, Settings
<1>8. QED
  BY <1>1, <1>2, <1>3, <1>4, <1>5, <1>6, <1>7 DEF AfterSettingsWrite

LEMMA PageWrites ==
  ASSUME NEW p, AfterPageWrite(p)
  PROVE  ShowsOne \/ Stays \/ AsksForRadio \/ SearchesAgain
<1>1. CASE AfterPlaybackToggle(p)
  BY <1>1 DEF AfterPlaybackToggle, ShowsOne, SearchesAgain, Views
<1>2. CASE StationButton(p)
  <2>1. CASE hash \in Settings /\ viewSettings(p)
    BY <2>1, SettingsPages DEF viewSettings, ShowsOne
  <2>2. QED
    BY <1>2, <2>1 DEF StationButton, ShowsOne, Views
<1>3. CASE PodcastButton(p)
  <2>1. "settings/podcasts" \in Settings /\ {"podcasts", "podcasts/show"} \subseteq Views
    BY DEF Settings, Views
  <2>2. viewSettings("settings/podcasts") => ShowsOne
    BY <2>1, SettingsShown
  <2>3. QED
    BY <1>3, <2>1, <2>2 DEF PodcastButton, ShowsOne
<1>4. CASE applyIdentifyCandidate(p)
  BY <1>4 DEF applyIdentifyCandidate, ShowsOne, Views
<1>5. CASE CoverUploaded(p)
  BY <1>5 DEF CoverUploaded, WithCover, ShowsOne, Views
<1>6. CASE AfterRadioWrite(p)
  BY <1>6 DEF AfterRadioWrite, ShowsOne, AsksForRadio, Views
<1>7. QED
  BY <1>1, <1>2, <1>3, <1>4, <1>5, <1>6 DEF AfterPageWrite

LEMMA WriteEffects ==
  ASSUME ViewsInv, WriteAnswered
  PROVE  /\ hash' \in Pages
         /\ \/ /\ UNCHANGED musicMode
               /\ ShowsOne \/ Stays \/ AsksForRadio \/ SearchesAgain
            \/ Show("music") /\ musicMode' = "playlists"
<1>1. hash \in Pages
  BY DEF ViewsInv, ViewsTyped
<1>2. PICK p \in writes :
        \/ /\ AfterSettingsWrite(p) \/ AfterPageWrite(p)
           /\ UNCHANGED <<hash, musicMode, imported>>
        \/ /\ deleteCatalogItem(p) \/ composerSubmit(p)
           /\ UNCHANGED <<musicMode, imported>>
        \/ ImportSubmitted(p) /\ UNCHANGED musicMode
        \/ AfterPlaylistWrite(p) /\ UNCHANGED imported
        \/ AfterImportRetry(p) /\ imported' = TRUE /\ UNCHANGED <<hash, musicMode>>
  BY DEF WriteAnswered
<1>3. ASSUME NEW q \in Views, Navigate(q)
      PROVE  hash' \in Pages /\ ShowsOne
  BY <1>3 DEF Navigate, ShowsOne, Pages
<1>4. {"music", "audiobooks", "podcasts", "podcasts/show", "home", "radio", "music/playlist"}
        \subseteq Views
  BY DEF Views
<1>5. CASE /\ AfterSettingsWrite(p) \/ AfterPageWrite(p)
           /\ UNCHANGED <<hash, musicMode, imported>>
  BY <1>1, <1>5, SettingsWrites, PageWrites
<1>6. CASE deleteCatalogItem(p) /\ UNCHANGED musicMode
  BY <1>3, <1>4, <1>6 DEF deleteCatalogItem
<1>7. CASE composerSubmit(p) /\ UNCHANGED musicMode
  <2>1. CASE p \in {"home", "podcasts", "podcasts/show", "radio"} /\ Show(p) /\ UNCHANGED hash
    BY <1>1, <1>4, <1>7, <2>1 DEF ShowsOne
  <2>2. CASE Navigate("music/playlist")
    BY <1>3, <1>4, <1>7, <2>2
  <2>3. QED
    BY <1>7, <2>1, <2>2 DEF composerSubmit
<1>8. CASE ImportSubmitted(p) /\ UNCHANGED musicMode
  BY <1>1, <1>3, <1>4, <1>8 DEF ImportSubmitted
<1>9. CASE AfterPlaylistWrite(p)
  <2>1. CASE Navigate(p) /\ p = "music/playlist" /\ UNCHANGED musicMode
    BY <1>3, <1>4, <2>1
  <2>2. CASE Show(p) /\ p = "music/playlist" /\ UNCHANGED <<hash, musicMode>>
    BY <1>1, <1>4, <2>2 DEF ShowsOne
  <2>3. CASE Navigate("music") /\ musicMode' = "playlists"
    BY <1>4, <2>3 DEF Navigate, Pages
  <2>4. QED
    BY <1>9, <2>1, <2>2, <2>3 DEF AfterPlaylistWrite
<1>10. CASE AfterImportRetry(p) /\ UNCHANGED <<hash, musicMode>>
  BY <1>1, <1>4, <1>10 DEF AfterImportRetry, ShowsOne
<1>11. QED
  BY <1>2, <1>5, <1>6, <1>7, <1>8, <1>9, <1>10

LEMMA WriteKeeps ==
  ASSUME ViewsInv, WriteAnswered
  PROVE  ViewsInv' /\ (screen' = screen \/ screen' # "search")
<1>1. UNCHANGED <<session, musicListItems, musicListOffset, searchQuery, chains>>
  BY DEF WriteAnswered
<1>2. hash' \in Pages /\ musicMode \in Modes /\ "playlists" \in Modes
  BY WriteEffects DEF ViewsInv, ViewsTyped, Modes
<1>3. ASSUME NEW p \in Views, Show(p)
      PROVE  screen' # "search" /\ p \in Pages
  BY <1>3 DEF Show, renderLoading, Paint, Views, Pages
<1>4. CASE ShowsOne /\ UNCHANGED musicMode
  BY <1>1, <1>2, <1>3, <1>4, ShowKeeps DEF ShowsOne
<1>5. CASE Show("music") /\ musicMode' = "playlists"
  <2>1. "music" \in Views
    BY DEF Views
  <2>2. QED
    BY <1>1, <1>2, <1>3, <1>5, <2>1, ShowKeeps
<1>6. CASE Stays /\ UNCHANGED musicMode
  BY <1>1, <1>2, <1>6, StillKeeps DEF Stays, musicVars, importVars
<1>7. CASE AsksForRadio /\ UNCHANGED musicMode
  BY <1>1, <1>2, <1>7, QuietLoadKeeps DEF AsksForRadio, musicVars, importVars
<1>8. CASE SearchesAgain /\ UNCHANGED musicMode
  BY <1>1, <1>2, <1>8, SearchRuns DEF SearchesAgain, musicVars, importVars
<1>9. QED
  BY <1>4, <1>5, <1>6, <1>7, <1>8, WriteEffects

-----------------------------------------------------------------------------
(* The pages: the answers to their loads.                                   *)

LEMMA MusicHasTwoPhases == Len(Phases("music")) = 2
BY DEF Phases, viewMusic, ensureStreamToken, Phase

\* A load is over and something other than the music page is painted.
LEMMA LoadLeaves ==
  ASSUME ViewsTyped, OneLoadOfTheList, NEW i \in DOMAIN loads, loads' = RemoveAt(loads, i),
         screen' # "music", UNCHANGED <<crossed, musicListItems, musicListOffset, musicMode>>
  PROVE  OneLoadOfTheList'
<1> DEFINE S(m) == CountsOn(m, musicListItems', musicListOffset', musicMode')
           Was(k) == IF k < i THEN k ELSE k + 1
<1>1. /\ DOMAIN loads' = 1 .. Len(loads) - 1 /\ DOMAIN loads = 1 .. Len(loads)
      /\ Len(loads) \in Nat
      /\ \A k \in 1 .. Len(loads) - 1 : loads'[k] = loads[Was(k)]
  <2>1. loads \in Seq(LoadsOf)
    BY DEF ViewsTyped
  <2>2. QED
    BY <2>1, Removal, ElementsOf
<1>2. SUFFICES ASSUME ~crossed'
               PROVE  /\ \A j, k \in DOMAIN loads' :
                           IsMusic(loads'[j]) /\ IsMusic(loads'[k]) => j = k
                      /\ \A k \in DOMAIN loads' : IsMusic(loads'[k]) => S(loads'[k])
  BY DEF OneLoadOfTheList, IsMusic, Counts
<1>3. /\ \A j, k \in DOMAIN loads : IsMusic(loads[j]) /\ IsMusic(loads[k]) => j = k
      /\ \A k \in DOMAIN loads : IsMusic(loads[k]) => S(loads[k])
  BY <1>2 DEF OneLoadOfTheList, Counts
<1> HIDE DEF S
<1>4. /\ \A k \in DOMAIN loads' : Was(k) \in DOMAIN loads /\ loads'[k] = loads[Was(k)]
      /\ \A j, k \in DOMAIN loads' : Was(j) = Was(k) => j = k
  BY <1>1
<1> HIDE DEF Was
<1>5. ASSUME NEW k \in DOMAIN loads', IsMusic(loads'[k])
      PROVE  Was(k) \in DOMAIN loads /\ IsMusic(loads[Was(k)]) /\ S(loads'[k])
  <2>1. Was(k) \in DOMAIN loads /\ loads'[k] = loads[Was(k)]
    BY <1>4
  <2>2. QED
    BY <1>3, <1>5, <2>1
<1>6. QED
  BY <1>3, <1>4, <1>5

\* The load of the list itself is over.
LEMMA ListIsPainted ==
  ASSUME ViewsTyped, OneLoadOfTheList, NEW i \in DOMAIN loads, loads' = RemoveAt(loads, i),
         IsMusic(loads[i]), loads[i].phase = 2, PaintMusic(loads[i]), screen' = "music",
         UNCHANGED <<crossed, musicMode>>
  PROVE  OneLoadOfTheList'
<1> DEFINE l   == loads[i]
           got == <<[mode |-> l.mode, at |-> l.at]>>
<1>1. /\ loads \in Seq(LoadsOf) /\ musicListItems \in Seq(MusicPage) /\ musicListOffset \in Nat
      /\ l \in LoadsOf
  BY ElementsOf DEF ViewsTyped
<1>2. SUFFICES ASSUME ~crossed
               PROVE  /\ \A k \in DOMAIN loads' : ~IsMusic(loads'[k])
                      /\ Settled'
  BY DEF OneLoadOfTheList, IsMusic
<1>3. \A k \in DOMAIN loads' : ~IsMusic(loads'[k])
  <2>1. /\ DOMAIN loads' = 1 .. Len(loads) - 1 /\ DOMAIN loads = 1 .. Len(loads)
        /\ Len(loads) \in Nat
        /\ \A k \in 1 .. Len(loads) - 1 : loads'[k] = loads[IF k < i THEN k ELSE k + 1]
    BY <1>1, Removal, ElementsOf
  <2>2. \A k \in DOMAIN loads : IsMusic(loads[k]) => k = i
    BY <1>2 DEF OneLoadOfTheList
  <2>3. SUFFICES ASSUME NEW k \in DOMAIN loads' PROVE ~IsMusic(loads'[k])
    OBVIOUS
  <2>4. (IF k < i THEN k ELSE k + 1) \in DOMAIN loads \ {i}
    BY <2>1
  <2>5. QED
    BY <2>1, <2>2, <2>4
<1>4. Counts(l)
  BY <1>2 DEF OneLoadOfTheList
<1>5. l.mode = musicMode /\ l.at = musicListOffset
  BY <1>4 DEF Counts, CountsOn
<1>6. /\ musicListItems' = IF l.append THEN musicListItems \o got ELSE got
      /\ musicListOffset' = musicListOffset + 1
  BY DEF PaintMusic, renderError, Paint
<1>7. CASE ~l.append
  <2>1. musicListOffset = 0
    BY <1>4, <1>5, <1>7 DEF Counts, CountsOn
  <2>2. musicListItems' = <<[mode |-> musicMode, at |-> 0]>> /\ musicListOffset' = 1
    BY <1>5, <1>6, <1>7, <2>1
  <2>3. QED
    BY <1>3, <2>2 DEF Settled, SettledAs
<1>8. CASE l.append
  <2>1. /\ musicListOffset = Len(musicListItems) /\ musicListItems # << >>
        /\ \A n \in DOMAIN musicListItems : musicListItems[n] = [mode |-> musicMode, at |-> n - 1]
    BY <1>4, <1>8 DEF Counts, CountsOn, SettledAs
  <2> DEFINE x == [mode |-> musicMode, at |-> Len(musicListItems)]
  <2>2. x \in MusicPage /\ got = <<x>>
    BY <1>1, <1>5, <2>1 DEF MusicPage, LoadsOf, ViewsTyped
  <2>3. musicListItems' = Append(musicListItems, x)
    <3> HIDE DEF x
    <3>1. musicListItems \o <<x>> = Append(musicListItems, x)
      BY <1>1, <2>2
    <3>2. QED
      BY <1>6, <1>8, <2>2, <3>1
  <2>4. /\ musicListItems' # << >> /\ Len(musicListItems') = Len(musicListItems) + 1
        /\ DOMAIN musicListItems' = 1 .. Len(musicListItems) + 1
        /\ DOMAIN musicListItems = 1 .. Len(musicListItems) /\ Len(musicListItems) \in Nat
        /\ \A k \in 1 .. Len(musicListItems) + 1 :
             musicListItems'[k] = IF k <= Len(musicListItems) THEN musicListItems[k] ELSE x
    <3> HIDE DEF x
    <3>1. QED
      BY <1>1, <2>2, <2>3, Appended, ElementsOf
  <2>5. \A n \in DOMAIN musicListItems' : musicListItems'[n] = [mode |-> musicMode, at |-> n - 1]
    <3> SUFFICES ASSUME NEW n \in 1 .. Len(musicListItems) + 1
                 PROVE  musicListItems'[n] = [mode |-> musicMode, at |-> n - 1]
      BY <2>4
    <3>1. CASE n <= Len(musicListItems)
      <4>1. n \in DOMAIN musicListItems /\ musicListItems'[n] = musicListItems[n]
        BY <2>4, <3>1
      <4>2. musicListItems[n] = [mode |-> musicMode, at |-> n - 1]
        BY <2>1, <4>1
      <4>3. QED
        BY <4>1, <4>2
    <3>2. CASE ~(n <= Len(musicListItems))
      <4>1. n - 1 = Len(musicListItems)
        BY <2>4, <3>2
      <4>2. musicListItems'[n] = x
        BY <2>4, <3>2
      <4>3. [mode |-> musicMode, at |-> n - 1] = x
        BY <4>1, Zenon
      <4> HIDE DEF x
      <4>4. QED
        BY <4>2, <4>3
    <3>3. QED
      BY <3>1, <3>2
  <2>6. QED
    BY <1>3, <1>6, <2>1, <2>4, <2>5 DEF Settled, SettledAs
<1>9. QED
  BY <1>7, <1>8

\* The page has its first answers and asks for more.
LEMMA LoadGoesOn ==
  ASSUME ViewsInv, NEW i \in DOMAIN loads,
         hash' \in Pages,
         \/ IsMusic(loads[i]) /\ loads[i].phase = 1 /\ StartOfList(i)
         \/ /\ ~IsMusic(loads[i]) /\ loads' = [loads EXCEPT ![i].phase = 2]
            /\ UNCHANGED <<musicListItems, musicListOffset>>,
         UNCHANGED <<session, screen, crossed, musicMode, searchQuery, searchVars, importVars>>
  PROVE  ViewsInv'
<1> DEFINE l == loads[i]
           at == IF l.append THEN musicListOffset ELSE 0
           m  == IF IsMusic(l) THEN [l EXCEPT !.phase = 2, !.mode = musicMode, !.at = at]
                 ELSE [l EXCEPT !.phase = 2]
<1>1. /\ loads \in Seq(LoadsOf) /\ musicListItems \in Seq(MusicPage) /\ musicListOffset \in Nat
      /\ l \in LoadsOf /\ musicMode \in Modes
  BY ElementsOf DEF ViewsInv, ViewsTyped
<1>2. loads' = [loads EXCEPT ![i] = m]
  BY DEF StartOfList
<1>3. /\ m \in LoadsOf /\ m.page = l.page /\ m.append = l.append /\ m.phase = 2
      /\ IsMusic(l) => m.mode = musicMode /\ m.at = at
  <2>1. at \in Nat
    BY <1>1
  <2>2. /\ l.page \in Views /\ l.append \in BOOLEAN /\ l.mode \in Modes /\ l.at \in Nat
        /\ \A x \in {l.mode, musicMode}, y \in {l.at, at} :
             /\ x \in Modes /\ y \in Nat
             /\ [page |-> l.page, phase |-> 2, append |-> l.append, mode |-> x, at |-> y] \in LoadsOf
    BY <1>1, <2>1 DEF LoadsOf
  <2>3. CASE IsMusic(l)
    <3>1. m = [page |-> l.page, phase |-> 2, append |-> l.append, mode |-> musicMode, at |-> at]
      BY <1>1, <2>3 DEF LoadsOf
    <3> HIDE DEF m, at, l
    <3>2. QED
      BY <2>2, <3>1
  <2>4. CASE ~IsMusic(l)
    <3>1. m = [page |-> l.page, phase |-> 2, append |-> l.append, mode |-> l.mode, at |-> l.at]
      BY <1>1, <2>4 DEF LoadsOf
    <3> HIDE DEF m, at, l
    <3>2. QED
      BY <2>2, <2>4, <3>1
  <2>5. QED
    BY <2>3, <2>4
<1>4. /\ IsMusic(l) => /\ musicListOffset' = at
                       /\ musicListItems' = IF l.append THEN musicListItems ELSE << >>
      /\ ~IsMusic(l) => UNCHANGED <<musicListItems, musicListOffset>>
  BY DEF StartOfList
<1> HIDE DEF m
<1>5. /\ loads' \in Seq(LoadsOf) /\ DOMAIN loads' = DOMAIN loads
      /\ \A k \in DOMAIN loads : loads'[k] = IF k = i THEN m ELSE loads[k]
  BY <1>1, <1>2, <1>3, Changed
<1>6. loads' # << >>
  BY <1>5
<1>7. ViewsTyped'
  <2>1. musicListItems' \in {musicListItems, << >>} /\ musicListOffset' \in {musicListOffset, 0}
    BY <1>4
  <2>2. << >> \in Seq(MusicPage)
    OBVIOUS
  <2>3. musicListItems' \in Seq(MusicPage)
    BY <1>1, <2>1, <2>2, Zenon
  <2>4. musicListOffset' \in Nat
    BY <1>1, <2>1
  <2>5. QED
    BY <1>5, <2>3, <2>4 DEF ViewsInv, ViewsTyped, searchVars, importVars
<1>8. NothingWaitsInVain' /\ ImportIsFollowed' /\ SearchIsForTheField'
  BY <1>6 DEF ViewsInv, NothingWaitsInVain, ImportIsFollowed, SearchIsForTheField, searchVars,
              importVars
<1>9. OneLoadOfTheList'
  <2> DEFINE S(x) == CountsOn(x, musicListItems', musicListOffset', musicMode')
  <2>1. SUFFICES ASSUME ~crossed
                 PROVE  /\ \A j, k \in DOMAIN loads' :
                             IsMusic(loads'[j]) /\ IsMusic(loads'[k]) => j = k
                        /\ \A k \in DOMAIN loads' : IsMusic(loads'[k]) =>
                             screen # "music" /\ S(loads'[k])
                        /\ screen = "music" => Settled'
    BY DEF OneLoadOfTheList, IsMusic, Counts
  <2>2. /\ \A j, k \in DOMAIN loads : IsMusic(loads[j]) /\ IsMusic(loads[k]) => j = k
        /\ \A k \in DOMAIN loads : IsMusic(loads[k]) => screen # "music" /\ Counts(loads[k])
        /\ screen = "music" => Settled
    BY <2>1 DEF ViewsInv, OneLoadOfTheList
  <2>3. \A k \in DOMAIN loads : IsMusic(loads'[k]) <=> IsMusic(loads[k])
    BY <1>3, <1>5 DEF IsMusic
  <2>4. CASE IsMusic(l)
    <3>1. S(m)
      BY <1>3, <1>4, <2>2, <2>4 DEF Counts, CountsOn
    <3>2. \A k \in DOMAIN loads : IsMusic(loads[k]) => k = i
      BY <2>2, <2>4
    <3>3. screen # "music"
      BY <2>2, <2>4
    <3> HIDE DEF S
    <3>4. QED
      BY <1>5, <2>2, <2>3, <3>1, <3>2, <3>3
  <2>5. CASE ~IsMusic(l)
    <3>1. UNCHANGED <<musicListItems, musicListOffset, musicMode>>
      BY <1>4, <2>5
    <3>2. \A k \in DOMAIN loads : IsMusic(loads[k]) => loads'[k] = loads[k] /\ S(loads[k])
      BY <1>5, <2>2, <2>5, <3>1 DEF Counts
    <3>3. Settled' = Settled
      BY <3>1 DEF Settled
    <3> HIDE DEF S
    <3>4. QED
      BY <1>5, <2>2, <2>3, <3>2, <3>3
  <2>6. QED
    BY <2>4, <2>5
<1>10. QED
  BY <1>7, <1>8, <1>9 DEF ViewsInv

\* Whatever is painted at the end of a load: nothing waits on it, and no search is there.
LEMMA PaintKeeps ==
  ASSUME ViewsInv, OneLoadOfTheList', hash' \in Pages, NoSearch,
         NEW i \in DOMAIN loads, loads' = RemoveAt(loads, i),
         musicListItems' \in Seq(MusicPage), musicListOffset' \in Nat,
         chains' \in Seq({"waiting", "asking", "rereading"}),
         NEW what \in Views \cup {"error"}, NEW shown, Paint(what, shown),
         shown = "open" => chains' # << >>,
         UNCHANGED <<session, musicMode, searchQuery>>
  PROVE  ViewsInv' /\ screen' # "search"
<1>1. /\ screen' \in Screens /\ screen' \notin {"loading", "search"}
      /\ panel' = shown /\ debounce' \subseteq {"own", "left"}
      /\ results' = "" /\ searches' = {}
  BY DEF Paint, NoSearch, Views, Pages, Screens, ViewsInv, ViewsTyped
<1>2. loads' \in Seq(LoadsOf)
  BY Removal DEF ViewsInv, ViewsTyped
<1>3. ViewsTyped'
  BY <1>1, <1>2 DEF ViewsInv, ViewsTyped
<1>4. NothingWaitsInVain' /\ ImportIsFollowed' /\ SearchIsForTheField'
  BY <1>1 DEF NothingWaitsInVain, ImportIsFollowed, SearchIsForTheField
<1>5. QED
  BY <1>1, <1>3, <1>4 DEF ViewsInv

LEMMA LoadAnsweredKeeps ==
  ASSUME ViewsInv, LoadAnswered
  PROVE  ViewsInv' /\ (screen' = screen \/ screen' # "search")
<1>1. UNCHANGED <<session, hash, musicMode, crossed, searchQuery>>
  BY DEF LoadAnswered, navVars
<1>2. PICK i \in DOMAIN loads :
        LET l == loads[i]
            phases == Phases(l.page)
            phase  == phases[l.phase] IN
        \E failed \in {{}} \cup {{r} : r \in phase.needs \cup phase.spares} :
          \/ /\ renderError /\ NoSearch
             /\ loads' = RemoveAt(loads, i)
             /\ UNCHANGED <<musicListItems, musicListOffset, chains>>
          \/ /\ l.phase < Len(phases)
             /\ IF IsMusic(l)
                THEN StartOfList(i)
                ELSE /\ loads' = [loads EXCEPT ![i].phase = 2]
                     /\ UNCHANGED <<musicListItems, musicListOffset>>
             /\ UNCHANGED <<screen, searchVars, importVars>>
          \/ /\ l.phase = Len(phases)
             /\ loads' = RemoveAt(loads, i) /\ NoSearch
             /\ \/ IsMusic(l) /\ PaintMusic(l) /\ UNCHANGED chains
                \/ /\ l.page = "music/playlist" /\ PaintPlaylist(failed)
                   /\ UNCHANGED <<musicListItems, musicListOffset>>
                \/ /\ l.page \notin {"music", "music/playlist"} /\ Paint(l.page, "none")
                   /\ UNCHANGED <<musicListItems, musicListOffset, chains>>
  BY DEF LoadAnswered
<1> DEFINE l == loads[i]
<1>3. /\ loads \in Seq(LoadsOf) /\ l \in LoadsOf /\ hash' \in Pages
      /\ musicListItems \in Seq(MusicPage) /\ musicListOffset \in Nat
      /\ chains \in Seq({"waiting", "asking", "rereading"})
  BY <1>1, ElementsOf DEF ViewsInv, ViewsTyped
<1>4. /\ l.page \in Views /\ l.phase \in 1 .. 2 /\ l.mode \in Modes /\ l.at \in Nat
      /\ IsMusic(l) => Len(Phases(l.page)) = 2
  BY <1>3, MusicHasTwoPhases DEF LoadsOf, IsMusic
<1> HIDE DEF l
<1>5. CASE /\ renderError /\ NoSearch /\ loads' = RemoveAt(loads, i)
           /\ UNCHANGED <<musicListItems, musicListOffset, chains>>
  <2>1. OneLoadOfTheList'
    BY <1>1, <1>5, LoadLeaves DEF ViewsInv, renderError, Paint
  <2>2. QED
    BY <1>1, <1>3, <1>5, <2>1, PaintKeeps DEF renderError
<1>6. CASE /\ l.phase < Len(Phases(l.page))
           /\ IF IsMusic(l)
              THEN StartOfList(i)
              ELSE /\ loads' = [loads EXCEPT ![i].phase = 2]
                   /\ UNCHANGED <<musicListItems, musicListOffset>>
           /\ UNCHANGED <<screen, searchVars, importVars>>
  <2>1. \/ IsMusic(l) /\ l.phase = 1 /\ StartOfList(i)
        \/ /\ ~IsMusic(l) /\ loads' = [loads EXCEPT ![i].phase = 2]
           /\ UNCHANGED <<musicListItems, musicListOffset>>
    <3>1. IsMusic(l) => l.phase = 1
      <4>1. l.phase < Len(Phases(l.page))
        BY <1>6
      <4>2. IsMusic(l) => l.phase < 2
        BY <1>4, <4>1, Zenon
      <4>3. l.phase \in 1 .. 2
        BY <1>4
      <4>4. QED
        BY <4>2, <4>3
    <3>2. QED
      BY <1>6, <3>1, Zenon
  <2>2. ViewsInv'
    BY <1>1, <1>3, <1>6, <2>1, LoadGoesOn DEF l
  <2>3. QED
    BY <1>6, <2>2
<1>7. CASE /\ l.phase = Len(Phases(l.page)) /\ loads' = RemoveAt(loads, i) /\ NoSearch
           /\ IsMusic(l) /\ PaintMusic(l) /\ UNCHANGED chains
  <2> DEFINE got == <<[mode |-> l.mode, at |-> l.at]>>
  <2>1. CASE Grows(l)
    <3>1. /\ musicListItems' = IF l.append THEN musicListItems \o got ELSE got
          /\ musicListOffset' = musicListOffset + 1
          /\ Paint("music", "none")
      BY <1>7, <2>1 DEF PaintMusic
    <3>2. got \in Seq(MusicPage)
      BY <1>4 DEF MusicPage
    <3> HIDE DEF got
    <3>3. musicListItems' \in Seq(MusicPage) /\ musicListOffset' \in Nat
      BY <1>3, <3>1, <3>2
    <3>4. l.phase = 2 /\ screen' = "music"
      BY <1>4, <1>7, <3>1 DEF Paint
    <3>5. OneLoadOfTheList'
      BY <1>1, <1>7, <3>4, ListIsPainted DEF ViewsInv, l
    <3>6. QED
      BY <1>1, <1>3, <1>7, <3>1, <3>3, <3>5, PaintKeeps DEF Views
  <2>2. CASE ~Grows(l)
    <3>1. renderError /\ UNCHANGED <<musicListItems, musicListOffset>>
      BY <1>7, <2>2 DEF PaintMusic
    <3>2. OneLoadOfTheList'
      BY <1>1, <1>7, <3>1, LoadLeaves DEF ViewsInv, renderError, Paint
    <3>3. QED
      BY <1>1, <1>3, <1>7, <3>1, <3>2, PaintKeeps DEF renderError
  <2>3. QED
    BY <2>1, <2>2
<1>8. ASSUME NEW failed, loads' = RemoveAt(loads, i), NoSearch, PaintPlaylist(failed),
             UNCHANGED <<musicListItems, musicListOffset>>
      PROVE  ViewsInv' /\ screen' # "search"
  <2> DEFINE moves == "import" \notin failed /\ imported
  <2>1. PICK shown \in {"open", "none", "still"} :
          /\ Paint("music/playlist", shown)
          /\ chains' = IF moves THEN Append(chains, "waiting") ELSE chains
          /\ shown = "open" => moves
    BY <1>8 DEF PaintPlaylist
  <2>2. Append(chains, "waiting") \in Seq({"waiting", "asking", "rereading"})
    BY <1>3
  <2>3. /\ chains' \in Seq({"waiting", "asking", "rereading"})
        /\ shown = "open" => chains' # << >>
    <3>1. CASE moves
      <4>1. chains' = Append(chains, "waiting") /\ Append(chains, "waiting") # << >>
        BY <1>3, <2>1, <3>1, Appended
      <4>2. QED
        BY <2>2, <4>1
    <3>2. CASE ~moves
      <4>1. chains' = chains /\ shown # "open"
        BY <2>1, <3>2
      <4>2. QED
        BY <1>3, <4>1
    <3>3. QED
      BY <3>1, <3>2
  <2>4. OneLoadOfTheList'
    BY <1>1, <1>8, <2>1, LoadLeaves DEF ViewsInv, Paint
  <2>5. "music/playlist" \in Views \cup {"error"}
    BY DEF Views
  <2>6. QED
    BY <1>1, <1>3, <1>8, <2>1, <2>3, <2>4, <2>5, PaintKeeps
<1>9. CASE /\ loads' = RemoveAt(loads, i) /\ NoSearch
           /\ l.page \notin {"music", "music/playlist"} /\ Paint(l.page, "none")
           /\ UNCHANGED <<musicListItems, musicListOffset, chains>>
  <2>1. OneLoadOfTheList'
    BY <1>1, <1>9, LoadLeaves DEF ViewsInv, Paint
  <2>2. QED
    BY <1>1, <1>3, <1>4, <1>9, <2>1, PaintKeeps
<1>10. QED
  BY <1>2, <1>5, <1>6, <1>7, <1>8, <1>9 DEF l

-----------------------------------------------------------------------------
(* The pages: the invariant.                                                *)

LEMMA ViewsInit ==
  ASSUME Init
  PROVE  ViewsInv
<1>1. session \in Sessions /\ session \subseteq Pages /\ hash \in Pages
  BY SessionsAssumption DEF Init
<1>2. /\ loads \in Seq(LoadsOf) /\ (hash # "search" => loads # << >>)
      /\ screen \in Screens /\ screen # "music"
      /\ \A i, j \in DOMAIN loads : i = j
      /\ \A i \in DOMAIN loads : ~loads[i].append /\ loads[i].phase = 1
  <2>1. CASE hash = "search"
    <3>1. screen = "search" /\ loads = << >>
      BY <2>1 DEF Init
    <3>2. QED
      BY <2>1, <3>1 DEF Screens, Pages
  <2>2. CASE hash # "search"
    <3>1. /\ Load(hash, FALSE) \in LoadsOf /\ ~Load(hash, FALSE).append
          /\ Load(hash, FALSE).phase = 1
      BY <1>1, <2>2, NewLoad DEF Pages
    <3>2. loads = <<Load(hash, FALSE)>> /\ screen = "loading"
      BY <2>2 DEF Init
    <3>3. /\ loads \in Seq(LoadsOf) /\ loads # << >>
          /\ \A k \in DOMAIN loads : k = 1 /\ loads[k] = Load(hash, FALSE)
      BY <3>1, <3>2, OneElement
    <3>4. QED
      BY <3>1, <3>2, <3>3 DEF Screens
  <2>3. QED
    BY <2>1, <2>2
<1>3. ViewsTyped
  <2>1. /\ musicMode \in Modes /\ musicListItems = << >> /\ musicListOffset = 0
        /\ searchQuery = "" /\ searches = {} /\ debounce = {} /\ chains = << >>
    BY DEF Init, Modes
  <2>2. << >> \in Seq(MusicPage) /\ << >> \in Seq({"waiting", "asking", "rereading"})
    OBVIOUS
  <2>3. QED
    BY <1>1, <1>2, <2>1, <2>2 DEF ViewsTyped
<1>4. NothingWaitsInVain /\ ImportIsFollowed /\ SearchIsForTheField
  BY <1>2 DEF Init, NothingWaitsInVain, ImportIsFollowed, SearchIsForTheField
<1>5. OneLoadOfTheList
  BY <1>2 DEF OneLoadOfTheList, Counts, CountsOn
<1>6. QED
  BY <1>3, <1>4, <1>5 DEF ViewsInv

\* No late answer, and nothing a page does, brings the search to the screen.
LEMMA ElsewhereKeeps ==
  ASSUME ViewsInv, LoadAnswered \/ Elsewhere
  PROVE  ViewsInv' /\ (screen' = screen \/ screen' # "search")
<1>1. screen \in Screens /\ hash \in Pages
  BY DEF ViewsInv, ViewsTyped
<1>2. CASE LoadAnswered
  BY <1>2, LoadAnsweredKeeps
<1>3. CASE MusicMode \/ Reopen
  <2>1. ViewsInv'
    BY <1>3, NavigationKeeps
  <2>2. screen # "search" /\ (Show("music") \/ Show(screen))
    BY <1>3 DEF MusicMode, Reopen, Settings
  <2>3. screen' # "search"
    BY <2>2 DEF Show, renderLoading, Paint
  <2>4. QED
    BY <2>1, <2>3
<1>4. CASE LoadMore
  BY <1>4, LoadMoreKeeps DEF LoadMore, renderLoading, Paint
<1>5. CASE RefreshRadio
  BY <1>1, <1>5, QuietLoadKeeps DEF RefreshRadio, navVars
<1>6. CASE Write \/ WriteFails
  BY <1>1, <1>6, StillKeeps DEF Write, WriteFails, navVars
<1>7. CASE Type \/ SearchAnswered
  BY <1>7, TypingKeeps DEF Type, SearchAnswered
<1>8. CASE WriteAnswered
  BY <1>8, WriteKeeps
<1>9. CASE DebounceFires
  BY <1>9, DebounceKeeps DEF DebounceFires
<1>10. CASE Import
  <2>1. screen' = screen
    BY <1>10 DEF Import, ImportEnds, ChainFires, ChainAnswered, ChainReread
  <2>2. QED
    BY <1>10, <2>1, ImportKeeps
<1>11. QED
  BY <1>2, <1>3, <1>4, <1>5, <1>6, <1>7, <1>8, <1>9, <1>10 DEF Elsewhere

LEMMA UnchangedKeeps ==
  ASSUME ViewsInv, UNCHANGED vars
  PROVE  ViewsInv'
BY StillKeeps DEF ViewsInv, ViewsTyped, vars, navVars, musicVars, searchVars, importVars

LEMMA ViewsStep ==
  ASSUME ViewsInv, [DashboardNext]_dashboardVars
  PROVE  ViewsInv'
<1>1. CASE PageStep
  BY <1>1, NavigationKeeps, ElsewhereKeeps DEF PageStep
<1>2. CASE ExploStep \/ PlayerStep \/ UNCHANGED dashboardVars
  BY <1>2, UnchangedKeeps DEF ExploStep, PlayerStep, dashboardVars
<1>3. QED
  BY <1>1, <1>2 DEF DashboardNext

\* What the pages keep, whatever the user, the server and the clocks do and in whatever
\* order the answers come: the invariant that the theorems below rest on.
THEOREM PagesInvariant == DashboardSpec => []ViewsInv
<1>1. DashboardInit => ViewsInv
  BY ViewsInit DEF DashboardInit
<1>2. ViewsInv /\ [DashboardNext]_dashboardVars => ViewsInv'
  BY ViewsStep
<1>3. QED
  BY <1>1, <1>2, PTL DEF DashboardSpec

\* No page says that it is loading, or a search that it is under way, with nothing under
\* way: not after a failure, and not when another page's late answer was painted over it.
THEOREM NothingSaysItLoadsInVain == DashboardSpec => []NothingWaitsInVain
<1>1. ViewsInv => NothingWaitsInVain
  BY DEF ViewsInv
<1>2. QED
  BY <1>1, PagesInvariant, PTL

\* LOAD MORE never skips a page of the list, shows one twice or mixes two modes, unless
\* two loads of the list have overlapped.
THEOREM LoadMoreKeepsTheListWhole == DashboardSpec => []MusicListIsWhole
<1>1. ViewsInv => MusicListIsWhole
  <2> SUFFICES ASSUME ViewsInv, screen = "music", ~crossed
               PROVE  /\ musicListOffset = Len(musicListItems)
                      /\ \A n \in DOMAIN musicListItems :
                           musicListItems[n] = [mode |-> musicListItems[1].mode, at |-> n - 1]
    BY DEF MusicListIsWhole
  <2>1. Settled /\ musicListItems \in Seq(MusicPage)
    BY DEF ViewsInv, OneLoadOfTheList, ViewsTyped
  <2>2. 1 \in DOMAIN musicListItems
    BY <2>1 DEF Settled, SettledAs
  <2>3. musicListItems[1].mode = musicMode
    BY <2>1, <2>2 DEF Settled, SettledAs
  <2>4. QED
    BY <2>1, <2>3 DEF Settled, SettledAs
<1>2. QED
  BY <1>1, PagesInvariant, PTL

\* With nothing under way and no timeout pending, what is under the search field is the
\* answer for what is in it, or an error, unless the last search overlapped another.
THEOREM TheSearchShowsItsQuery == DashboardSpec => []SearchShowsItsQuery
<1>1. ViewsInv => SearchShowsItsQuery
  BY DEF ViewsInv, SearchIsForTheField, SearchShowsItsQuery
<1>2. QED
  BY <1>1, PagesInvariant, PTL

\* A panel that shows an import moving is brought up to date by some chain of timers and
\* requests, however many visits and failed requests there were.
THEOREM EveryImportIsFollowed == DashboardSpec => []ImportIsFollowed
<1>1. ViewsInv => ImportIsFollowed
  BY DEF ViewsInv
<1>2. QED
  BY <1>1, PagesInvariant, PTL

-----------------------------------------------------------------------------
(* The panel: the items asked for.                                          *)

Items    == Explo!Items
Asked(i) == \E n \in DOMAIN posts : posts[n].of = i
Once     == \A m, n \in DOMAIN posts :
              posts[m].of = posts[n].of /\ posts[m].of \notin doubtful => m = n
Known    == \A i \in Items \ doubtful : job[i] = "open" => i \in adding \/ jobs[i] \in {"open", "done"}
Counting == \A n \in DOMAIN posts : PostCounts(posts[n])
OfAPost  == \A i \in adding : \E n \in DOMAIN posts : posts[n].of = i /\ posts[n].own

ItemsInv ==
  /\ ExploTyped
  /\ Known /\ Once /\ Counting /\ OfAPost
  /\ PollsAreCurrent

LEMMA ItemsOfTheInvariant ==
  ExploInv <=> (mounted <=> screen = "search") /\ NewestIsUnderWay /\ ItemsInv
BY DEF ExploInv, AskedForOnce, ItemsInv, Explo!NothingIsAskedForTwice, Explo!busy, Known, Once,
       Counting, OfAPost, Items

LEMMA InvariantOfTheItems ==
  ASSUME mounted' <=> screen' = "search", NewestIsUnderWay', ItemsInv'
  PROVE  ExploInv'
BY DEF ExploInv, AskedForOnce, ItemsInv, Explo!NothingIsAskedForTwice, Explo!busy, Known, Once,
       Counting, OfAPost, Items

LEMMA PostOf ==
  ASSUME ItemsInv, NEW n \in DOMAIN posts
  PROVE  /\ posts \in Seq(Posts) /\ posts[n] \in Posts
         /\ posts[n].of \in Items /\ posts[n].own \in BOOLEAN
         /\ posts[n].at \in {"sent", "accepted", "refused"}
<1>1. posts \in Seq(Posts)
  BY DEF ItemsInv, ExploTyped
<1>2. posts[n] \in Posts
  BY <1>1, ElementsOf
<1>3. QED
  BY <1>1, <1>2 DEF Posts, Items

\* The panel is gone, and maybe another one is there: what was under way is doubtful.
LEMMA PanelIsLeft ==
  ASSUME ItemsInv, Explo!LeftBehind, adding' = {}
  PROVE  ItemsInv'
<1>1. /\ job' = job /\ jobs' = jobs
      /\ doubtful' = doubtful \cup {posts[n].of : n \in DOMAIN posts}
      /\ posts' = [n \in DOMAIN posts |-> [posts[n] EXCEPT !.own = FALSE]]
      /\ polls' = {[p EXCEPT !.own = FALSE] : p \in polls}
  BY DEF Explo!LeftBehind
<1>2. posts' \in Seq(Posts) /\ DOMAIN posts' = DOMAIN posts
  <2>1. posts \in Seq(Posts)
    BY DEF ItemsInv, ExploTyped
  <2>2. \A n \in 1 .. Len(posts) : [posts[n] EXCEPT !.own = FALSE] \in Posts
    <3> SUFFICES ASSUME NEW n \in 1 .. Len(posts)
                 PROVE  [posts[n] EXCEPT !.own = FALSE] \in Posts
      OBVIOUS
    <3>1. posts[n] \in Posts
      BY <2>1, ElementsOf
    <3>2. QED
      BY <3>1 DEF Posts
  <2>3. DOMAIN posts = 1 .. Len(posts) /\ Len(posts) \in Nat
    BY <2>1, ElementsOf
  <2>4. QED
    BY <1>1, <2>2, <2>3
<1>3. \A n \in DOMAIN posts : posts'[n].of = posts[n].of
  <2> SUFFICES ASSUME NEW n \in DOMAIN posts PROVE posts'[n].of = posts[n].of
    OBVIOUS
  <2>1. posts[n] \in Posts
    BY PostOf
  <2>2. QED
    BY <1>1, <2>1 DEF Posts
<1>4. \A p \in polls' : \E q \in polls : /\ p \in Polls /\ p.got = q.got /\ p.early = q.early
                                         /\ p.of = q.of
  <2> SUFFICES ASSUME NEW q \in polls
               PROVE  /\ [q EXCEPT !.own = FALSE] \in Polls
                      /\ [q EXCEPT !.own = FALSE].got = q.got
                      /\ [q EXCEPT !.own = FALSE].early = q.early
                      /\ [q EXCEPT !.own = FALSE].of = q.of
    BY <1>1
  <2>1. q \in Polls
    BY DEF ItemsInv, ExploTyped
  <2>2. QED
    BY <2>1 DEF Polls
<1>5. ExploTyped'
  BY <1>1, <1>2, <1>4 DEF ItemsInv, ExploTyped
<1>6. \A n \in DOMAIN posts' : posts'[n].of \in doubtful'
  BY <1>1, <1>2, <1>3
<1>7. Once' /\ Counting' /\ OfAPost'
  BY <1>6 DEF Once, Counting, OfAPost, PostCounts
<1>8. Known'
  BY <1>1 DEF ItemsInv, Known, OfAPost
<1>9. PollsAreCurrent'
  BY <1>1, <1>4 DEF ItemsInv, PollsAreCurrent
<1>10. QED
  BY <1>5, <1>7, <1>8, <1>9 DEF ItemsInv

LEMMA AddKeeps ==
  ASSUME ItemsInv, NEW i \in Items, Explo!Add(i)
  PROVE  ItemsInv'
<1> DEFINE new == [of |-> i, own |-> TRUE, at |-> "sent"]
<1>1. /\ i \notin adding /\ jobs[i] \notin {"open", "done"}
      /\ adding' = adding \cup {i} /\ posts' = Append(posts, new)
      /\ UNCHANGED <<job, jobs, doubtful, polls>>
  BY DEF Explo!Add, Explo!busy, Explo!loopVars
<1>2. /\ posts \in Seq(Posts) /\ new \in Posts
      /\ new.of = i /\ new.own /\ new.at = "sent"
  BY DEF ItemsInv, ExploTyped, Posts, Items
<1> HIDE DEF new
<1>3. /\ posts' \in Seq(Posts)
      /\ DOMAIN posts' = 1 .. Len(posts) + 1 /\ DOMAIN posts = 1 .. Len(posts)
      /\ \A k \in 1 .. Len(posts) + 1 : posts'[k] = IF k <= Len(posts) THEN posts[k] ELSE new
      /\ Len(posts) \in Nat
  BY <1>1, <1>2, Appended, ElementsOf
<1>4. ExploTyped'
  BY <1>1, <1>3 DEF ItemsInv, ExploTyped, Items
<1>5. Known' /\ PollsAreCurrent'
  BY <1>1 DEF ItemsInv, Known, PollsAreCurrent
<1>6. i \notin doubtful => job[i] # "open" /\ \A n \in DOMAIN posts : posts[n].of # i
  BY <1>1 DEF ItemsInv, Known, Counting, PostCounts
<1>7. Once'
  <2> SUFFICES ASSUME NEW m \in DOMAIN posts', NEW n \in DOMAIN posts',
                      posts'[m].of = posts'[n].of, posts'[m].of \notin doubtful
               PROVE  m = n
    BY <1>1 DEF Once
  <2>1. CASE m \in DOMAIN posts /\ n \in DOMAIN posts
    BY <1>3, <2>1 DEF ItemsInv, Once
  <2>2. CASE m \notin DOMAIN posts /\ n \notin DOMAIN posts
    BY <1>3, <2>2
  <2>3. CASE m \notin DOMAIN posts /\ n \in DOMAIN posts
    BY <1>2, <1>3, <1>6, <2>3
  <2>4. CASE m \in DOMAIN posts /\ n \notin DOMAIN posts
    BY <1>2, <1>3, <1>6, <2>4
  <2>5. QED
    BY <2>1, <2>2, <2>3, <2>4
<1>8. Counting'
  <2> SUFFICES ASSUME NEW n \in DOMAIN posts' PROVE PostCounts(posts[n])'
    BY DEF Counting
  <2>1. CASE n \in DOMAIN posts
    <3>1. posts'[n] = posts[n] /\ PostCounts(posts[n])
      BY <1>3, <2>1 DEF ItemsInv, Counting
    <3>2. QED
      BY <1>1, <3>1 DEF PostCounts
  <2>2. CASE n \notin DOMAIN posts
    <3>1. posts'[n] = new
      BY <1>3, <2>2
    <3>2. QED
      BY <1>1, <1>2, <1>6, <3>1 DEF PostCounts
  <2>3. QED
    BY <2>1, <2>2
<1>9. OfAPost'
  <2> SUFFICES ASSUME NEW j \in adding'
               PROVE  \E n \in DOMAIN posts' : posts'[n].of = j /\ posts'[n].own
    BY DEF OfAPost
  <2>1. CASE j = i
    <3>1. Len(posts) + 1 \in DOMAIN posts' /\ posts'[Len(posts) + 1] = new
      BY <1>3
    <3>2. QED
      BY <1>2, <2>1, <3>1
  <2>2. CASE j # i
    <3>1. PICK n \in DOMAIN posts : posts[n].of = j /\ posts[n].own
      BY <1>1, <2>2 DEF ItemsInv, OfAPost
    <3>2. n \in DOMAIN posts' /\ posts'[n] = posts[n]
      BY <1>3
    <3>3. QED
      BY <3>1, <3>2
  <2>3. QED
    BY <2>1, <2>2
<1>10. QED
  BY <1>4, <1>5, <1>7, <1>8, <1>9 DEF ItemsInv

LEMMA ServerTakesKeeps ==
  ASSUME ItemsInv, Explo!ServerTakes
  PROVE  ItemsInv'
<1>1. PICK n \in DOMAIN posts :
        /\ posts[n].at = "sent"
        /\ \/ /\ job' = [job EXCEPT ![posts[n].of] = "open"]
              /\ posts' = [posts EXCEPT ![n].at = "accepted"]
              /\ polls' = {[p EXCEPT !.early = (@ \/ (p.of = posts[n].of /\ p.got # "unread"))] :
                             p \in polls}
           \/ /\ posts' = [posts EXCEPT ![n].at = "refused"]
              /\ UNCHANGED <<job, polls>>
  BY DEF Explo!ServerTakes
<1> DEFINE i == posts[n].of
<1>2. UNCHANGED <<jobs, adding, doubtful>>
  BY DEF Explo!ServerTakes
<1>3. /\ posts \in Seq(Posts) /\ posts[n] \in Posts /\ i \in Items
      /\ job \in [Items -> Explo!States] /\ "open" \in Explo!States
  BY PostOf DEF ItemsInv, ExploTyped, Items, Explo!States
<1>4. PICK at \in {"accepted", "refused"} : posts' = [posts EXCEPT ![n].at = at]
  BY <1>1
<1>5. /\ posts' \in Seq(Posts) /\ DOMAIN posts' = DOMAIN posts
      /\ \A k \in DOMAIN posts : /\ posts'[k].of = posts[k].of /\ posts'[k].own = posts[k].own
                                 /\ posts'[k].at = IF k = n THEN at ELSE posts[k].at
  <2> DEFINE x == [posts[n] EXCEPT !.at = at]
  <2>1. x \in Posts /\ x.of = posts[n].of /\ x.own = posts[n].own /\ x.at = at
    BY <1>3 DEF Posts
  <2>2. posts' = [posts EXCEPT ![n] = x]
    BY <1>4
  <2> HIDE DEF x
  <2>3. /\ posts' \in Seq(Posts) /\ DOMAIN posts' = DOMAIN posts
        /\ \A k \in DOMAIN posts : posts'[k] = IF k = n THEN x ELSE posts[k]
    BY <1>3, <2>1, <2>2, Changed
  <2>4. QED
    BY <2>1, <2>3
<1>6. Once' /\ OfAPost'
  BY <1>2, <1>5 DEF ItemsInv, Once, OfAPost
<1>7. CASE /\ job' = [job EXCEPT ![i] = "open"]
           /\ posts' = [posts EXCEPT ![n].at = "accepted"]
           /\ polls' = {[p EXCEPT !.early = (@ \/ (p.of = i /\ p.got # "unread"))] : p \in polls}
  <2>1. /\ job' \in [Items -> Explo!States] /\ job'[i] = "open"
        /\ \A j \in Items : j # i => job'[j] = job[j]
    BY <1>3, <1>7
  <2>2. at = "accepted"
    <3>1. posts'[n].at = "accepted"
      BY <1>3, <1>7 DEF Posts
    <3>2. QED
      BY <1>5, <3>1
  <2>3. ASSUME NEW p \in polls'
        PROVE  /\ p \in Polls
               /\ \E q \in polls : /\ p.of = q.of /\ p.got = q.got
                                   /\ p.early = (q.early \/ (q.of = i /\ q.got # "unread"))
    <3>1. PICK q \in polls : p = [q EXCEPT !.early = (@ \/ (q.of = i /\ q.got # "unread"))]
      BY <1>7, <2>3
    <3>2. q \in Polls
      BY DEF ItemsInv, ExploTyped
    <3> DEFINE e == q.early \/ (q.of = i /\ q.got # "unread")
    <3>3. e \in BOOLEAN
      OBVIOUS
    <3>4. p = [q EXCEPT !.early = e]
      BY <3>1
    <3>5. p \in Polls /\ p.of = q.of /\ p.got = q.got /\ p.early = e
      <4> HIDE DEF e
      <4>1. QED
        BY <3>2, <3>3, <3>4 DEF Polls
    <3>6. QED
      BY <3>5
  <2>4. ExploTyped'
    BY <1>2, <1>5, <2>1, <2>3 DEF ItemsInv, ExploTyped, Items
  <2>5. i \notin doubtful => i \in adding
    BY DEF ItemsInv, Counting, PostCounts
  <2>6. Known'
    BY <1>2, <2>1, <2>5 DEF ItemsInv, Known
  <2>7. Counting'
    <3> SUFFICES ASSUME NEW k \in DOMAIN posts', posts'[k].of \notin doubtful
                 PROVE  /\ posts'[k].own /\ posts'[k].of \in adding
                        /\ posts'[k].at # "accepted" /\ job'[posts'[k].of] = "open"
                             => jobs[posts'[k].of] \in {"open", "done"}
      BY <1>2 DEF Counting, PostCounts
    <3>1. PostCounts(posts[k]) /\ k \in DOMAIN posts /\ posts[k].of \in Items
      BY <1>5, PostOf DEF ItemsInv, Counting
    <3>2. CASE k = n
      BY <1>5, <2>2, <3>1, <3>2 DEF PostCounts
    <3>3. CASE k # n
      <4>1. posts[k].of # i
        BY <1>5, <3>1, <3>3 DEF ItemsInv, Once
      <4>2. QED
        BY <1>5, <2>1, <3>1, <3>3, <4>1 DEF PostCounts
    <3>4. QED
      BY <3>2, <3>3
  <2>8. PollsAreCurrent'
    <3> SUFFICES ASSUME NEW p \in polls', p.got # "unread", ~p.early, job'[p.of] = "open"
                 PROVE  p.got = "open"
      BY DEF PollsAreCurrent
    <3>1. PICK q \in polls : /\ p.of = q.of /\ p.got = q.got
                             /\ p.early = (q.early \/ (q.of = i /\ q.got # "unread"))
      BY <2>3
    <3>2. q.of # i /\ q.of \in Items
      BY <2>3, <3>1 DEF Polls, Items
    <3>3. QED
      BY <2>1, <3>1, <3>2 DEF ItemsInv, PollsAreCurrent
  <2>9. QED
    BY <1>6, <2>4, <2>6, <2>7, <2>8 DEF ItemsInv
<1>8. CASE posts' = [posts EXCEPT ![n].at = "refused"] /\ UNCHANGED <<job, polls>>
  <2>1. \A k \in DOMAIN posts : posts'[k].at # "accepted" => posts[k].at # "accepted"
    BY <1>1, <1>5
  <2>2. ExploTyped' /\ Known' /\ PollsAreCurrent'
    BY <1>2, <1>5, <1>8 DEF ItemsInv, ExploTyped, Known, PollsAreCurrent
  <2>3. Counting'
    BY <1>2, <1>5, <1>8, <2>1 DEF ItemsInv, Counting, PostCounts
  <2>4. QED
    BY <1>6, <2>2, <2>3 DEF ItemsInv
<1>9. QED
  BY <1>1, <1>7, <1>8

LEMMA AddAnsweredKeeps ==
  ASSUME ItemsInv, Explo!AddAnswered
  PROVE  ItemsInv'
<1>1. PICK n \in DOMAIN posts :
        LET p == posts[n] IN
        /\ p.at # "sent"
        /\ posts' = RemoveAt(posts, n)
        /\ adding' = IF p.own THEN adding \ {p.of} ELSE adding
        /\ \/ /\ p.at = "accepted"
              /\ jobs' = [jobs EXCEPT ![p.of] = "open"]
              /\ doubtful' = IF \E m \in DOMAIN posts \ {n} : posts[m].of = p.of
                             THEN doubtful ELSE doubtful \ {p.of}
           \/ /\ UNCHANGED jobs
              /\ doubtful' = IF p.at = "accepted" THEN doubtful \cup {p.of} ELSE doubtful
  BY DEF Explo!AddAnswered, RemoveAt, Explo!RemoveAt
<1> DEFINE i      == posts[n].of
           Was(k) == IF k < n THEN k ELSE k + 1
<1>2. UNCHANGED <<job, polls>>
  BY DEF Explo!AddAnswered, Explo!loopVars
<1>3. /\ posts \in Seq(Posts) /\ i \in Items
      /\ jobs \in [Items -> Explo!States] /\ "open" \in Explo!States
  BY PostOf DEF ItemsInv, ExploTyped, Items, Explo!States
<1>4. /\ posts' \in Seq(Posts)
      /\ \A k \in DOMAIN posts' : Was(k) \in DOMAIN posts \ {n} /\ posts'[k] = posts[Was(k)]
      /\ \A j, k \in DOMAIN posts' : Was(j) = Was(k) => j = k
      /\ \A m \in DOMAIN posts \ {n} : \E k \in DOMAIN posts' : Was(k) = m
  <2>1. /\ posts' \in Seq(Posts) /\ DOMAIN posts' = 1 .. Len(posts) - 1
        /\ \A k \in 1 .. Len(posts) - 1 : posts'[k] = posts[Was(k)]
        /\ DOMAIN posts = 1 .. Len(posts) /\ Len(posts) \in Nat
    BY <1>1, <1>3, Removal, ElementsOf
  <2>2. ASSUME NEW m \in DOMAIN posts \ {n}
        PROVE  \E k \in DOMAIN posts' : Was(k) = m
    <3>1. CASE m < n
      <4>1. m \in DOMAIN posts' /\ Was(m) = m
        BY <2>1, <3>1
      <4>2. QED
        BY <4>1
    <3>2. CASE ~(m < n)
      <4>1. m - 1 \in DOMAIN posts' /\ Was(m - 1) = m
        BY <2>1, <2>2, <3>2
      <4>2. QED
        BY <4>1
    <3>3. QED
      BY <3>1, <3>2
  <2>3. /\ \A k \in DOMAIN posts' : Was(k) \in DOMAIN posts \ {n}
        /\ \A j, k \in DOMAIN posts' : Was(j) = Was(k) => j = k
    BY <2>1
  <2>4. QED
    BY <2>1, <2>2, <2>3
<1> HIDE DEF Was
<1>5. /\ adding' \subseteq adding
      /\ \A j \in adding : j \notin adding' => j = i /\ posts[n].own
  BY <1>1
<1>6. OfAPost'
  <2> SUFFICES ASSUME NEW j \in adding'
               PROVE  \E k \in DOMAIN posts' : posts'[k].of = j /\ posts'[k].own
    BY DEF OfAPost
  <2>1. PICK m \in DOMAIN posts : posts[m].of = j /\ posts[m].own
    BY <1>5 DEF ItemsInv, OfAPost
  <2>2. m # n
    BY <1>1, <2>1
  <2>3. PICK k \in DOMAIN posts' : Was(k) = m
    BY <1>4, <2>2
  <2>4. QED
    BY <1>4, <2>1, <2>3
<1>7. /\ jobs' \in [Items -> Explo!States]
      /\ \A j \in Items : j # i => jobs'[j] = jobs[j]
      /\ \A j : j # i => (j \in doubtful' <=> j \in doubtful)
  BY <1>1, <1>3
<1>8. ASSUME NEW k \in DOMAIN posts', posts'[k].of \notin doubtful'
      PROVE  posts'[k].of \notin doubtful /\ posts'[k].of # i
  <2>1. Was(k) \in DOMAIN posts \ {n} /\ posts'[k] = posts[Was(k)]
    BY <1>4
  <2>2. CASE posts'[k].of = i
    <3>1. i \notin doubtful
      BY <1>1, <1>8, <2>1, <2>2
    <3>2. QED
      BY <2>1, <2>2, <3>1 DEF ItemsInv, Once
  <2>3. QED
    BY <1>7, <1>8, <2>2
<1>9. Once'
  <2> SUFFICES ASSUME NEW j \in DOMAIN posts', NEW k \in DOMAIN posts',
                      posts'[j].of = posts'[k].of, posts'[j].of \notin doubtful'
               PROVE  j = k
    BY DEF Once
  <2>1. posts'[j] = posts[Was(j)] /\ posts'[k] = posts[Was(k)]
    BY <1>4
  <2>2. Was(j) = Was(k)
    BY <1>4, <1>8, <2>1 DEF ItemsInv, Once
  <2>3. QED
    BY <1>4, <2>2
<1>10. Counting'
  <2> SUFFICES ASSUME NEW k \in DOMAIN posts', posts'[k].of \notin doubtful'
               PROVE  /\ posts'[k].own /\ posts'[k].of \in adding'
                      /\ posts'[k].at # "accepted" /\ job[posts'[k].of] = "open"
                           => jobs'[posts'[k].of] \in {"open", "done"}
    BY <1>2 DEF Counting, PostCounts
  <2>1. Was(k) \in DOMAIN posts /\ posts'[k] = posts[Was(k)]
    BY <1>4
  <2>2. PostCounts(posts'[k]) /\ posts'[k].of \in Items
    BY <2>1, PostOf DEF ItemsInv, Counting
  <2>3. QED
    BY <1>5, <1>7, <1>8, <2>2 DEF PostCounts
<1>11. Known'
  <2> SUFFICES ASSUME NEW j \in Items, j \notin doubtful', job[j] = "open"
               PROVE  j \in adding' \/ jobs'[j] \in {"open", "done"}
    BY <1>2 DEF Known
  <2>1. CASE j # i
    BY <1>5, <1>7, <2>1 DEF ItemsInv, Known
  <2>2. CASE j = i /\ jobs' = [jobs EXCEPT ![i] = "open"]
    BY <1>3, <2>2
  <2>3. CASE j = i /\ UNCHANGED jobs /\ posts[n].at # "accepted" /\ doubtful' = doubtful
    BY <2>3 DEF ItemsInv, Counting, PostCounts
  <2>4. QED
    BY <1>1, <2>1, <2>2, <2>3
<1>12. ExploTyped' /\ PollsAreCurrent'
  BY <1>2, <1>4, <1>5, <1>7 DEF ItemsInv, ExploTyped, PollsAreCurrent, Items
<1>13. QED
  BY <1>6, <1>9, <1>10, <1>11, <1>12 DEF ItemsInv

LEMMA JobMovesKeeps ==
  ASSUME ItemsInv, Explo!JobMoves
  PROVE  ItemsInv'
<1>1. UNCHANGED <<jobs, adding, posts, doubtful, polls>>
  BY DEF Explo!JobMoves, Explo!loopVars
<1>2. /\ job' \in [Items -> Explo!States]
      /\ \A i \in Items : job'[i] = "open" => job[i] = "open"
  BY DEF Explo!JobMoves, Explo!States, ItemsInv, ExploTyped, Items
<1>3. ExploTyped' /\ Known' /\ Once' /\ OfAPost'
  BY <1>1, <1>2 DEF ItemsInv, ExploTyped, Known, Once, OfAPost, Items
<1>4. Counting'
  <2> SUFFICES ASSUME NEW n \in DOMAIN posts PROVE PostCounts(posts[n])'
    BY <1>1 DEF Counting
  <2>1. PostCounts(posts[n]) /\ posts[n].of \in Items
    BY PostOf DEF ItemsInv, Counting
  <2>2. QED
    BY <1>1, <1>2, <2>1 DEF PostCounts
<1>5. PollsAreCurrent'
  <2>1. \A p \in polls : p.of \in Items
    BY DEF ItemsInv, ExploTyped, Polls, Items
  <2>2. QED
    BY <1>1, <1>2, <2>1 DEF ItemsInv, PollsAreCurrent
<1>6. QED
  BY <1>3, <1>4, <1>5 DEF ItemsInv

\* What the browser knows of an item may change when it was polled; what is not known any
\* better stays doubtful.
LEMMA PollAnsweredKeeps ==
  ASSUME ItemsInv, Explo!PollAnswered
  PROVE  ItemsInv'
<1>1. PICK p \in polls :
        /\ polls' = polls \ {p}
        /\ \/ /\ p.got # "unread"
              /\ jobs' = [jobs EXCEPT ![p.of] =
                            IF p.got = "none" /\ p.of \in Songs THEN "failed" ELSE p.got]
              /\ doubtful' = IF p.early THEN doubtful \cup {p.of} ELSE doubtful
           \/ UNCHANGED <<jobs, doubtful>>
  BY DEF Explo!PollAnswered
<1>2. UNCHANGED <<job, adding, posts>>
  BY DEF Explo!PollAnswered
<1>3. /\ p \in Polls /\ p.of \in Items /\ p.got \in Explo!States \cup {"unread"}
      /\ jobs \in [Items -> Explo!States] /\ "failed" \in Explo!States
  BY DEF ItemsInv, ExploTyped, Polls, Items, Explo!States
<1>4. /\ jobs' \in [Items -> Explo!States] /\ doubtful \subseteq doubtful'
      /\ \A i \in Items \ doubtful' : jobs'[i] = jobs[i] \/ (job[i] = "open" => jobs'[i] = "open")
  <2>1. CASE UNCHANGED <<jobs, doubtful>>
    BY <1>3, <2>1
  <2>2. CASE /\ p.got # "unread"
             /\ jobs' = [jobs EXCEPT ![p.of] =
                           IF p.got = "none" /\ p.of \in Songs THEN "failed" ELSE p.got]
             /\ doubtful' = IF p.early THEN doubtful \cup {p.of} ELSE doubtful
    <3>1. ~p.early /\ job[p.of] = "open" => p.got = "open"
      BY <2>2 DEF ItemsInv, PollsAreCurrent
    <3>2. /\ jobs'[p.of] \in Explo!States
          /\ p.got = "open" => jobs'[p.of] = "open"
          /\ \A i \in Items : i # p.of => jobs'[i] = jobs[i]
      BY <1>3, <2>2
    <3>3. jobs' \in [Items -> Explo!States]
      BY <1>3, <2>2
    <3>4. QED
      BY <2>2, <3>1, <3>2, <3>3
  <2>3. QED
    BY <1>1, <2>1, <2>2
<1>5. ExploTyped' /\ OfAPost' /\ Once' /\ PollsAreCurrent'
  BY <1>1, <1>2, <1>4 DEF ItemsInv, ExploTyped, OfAPost, Once, PollsAreCurrent, Items
<1>6. Known'
  BY <1>2, <1>4 DEF ItemsInv, Known
<1>7. Counting'
  <2> SUFFICES ASSUME NEW n \in DOMAIN posts PROVE PostCounts(posts[n])'
    BY <1>2 DEF Counting
  <2>1. PostCounts(posts[n]) /\ posts[n].of \in Items
    BY PostOf DEF ItemsInv, Counting
  <2>2. QED
    BY <1>2, <1>4, <2>1 DEF PostCounts
<1>8. QED
  BY <1>5, <1>6, <1>7 DEF ItemsInv

\* The items are left alone, and polls may be sent or read.
LEMMA PollsMove ==
  ASSUME ItemsInv, UNCHANGED <<job, jobs, adding, posts, doubtful>>,
         \A p \in polls' : p \in Polls /\ (p \in polls \/ p.got \in {"unread", job[p.of]})
  PROVE  ItemsInv'
<1>1. ExploTyped' /\ Known' /\ Once' /\ OfAPost'
  BY DEF ItemsInv, ExploTyped, Known, Once, OfAPost
<1>2. Counting'
  BY DEF ItemsInv, Counting, PostCounts
<1>3. PollsAreCurrent'
  BY DEF ItemsInv, PollsAreCurrent
<1>4. QED
  BY <1>1, <1>2, <1>3 DEF ItemsInv

LEMMA RefreshKeeps ==
  ASSUME ItemsInv, Explo!Refresh
  PROVE  ItemsInv'
<1>1. polls \subseteq Polls /\ job \in [Items -> Explo!States]
  BY DEF ItemsInv, ExploTyped, Items
<1>2. CASE Explo!StatusAnswered
  <2>1. /\ UNCHANGED <<job, jobs, adding, posts, doubtful>>
        /\ polls' = polls \cup {[of |-> i, own |-> TRUE, got |-> "unread", early |-> FALSE] :
                                  i \in Explo!Polled}
    BY <1>2 DEF Explo!StatusAnswered, Explo!jobVars
  <2>2. Explo!Polled \subseteq Items
    BY DEF Explo!Polled, Items, Explo!Items
  <2>3. \A p \in polls' : p \in Polls /\ (p \in polls \/ p.got \in {"unread", job[p.of]})
    <3> SUFFICES ASSUME NEW i \in Explo!Polled, NEW p,
                        p = [of |-> i, own |-> TRUE, got |-> "unread", early |-> FALSE]
                 PROVE  p \in Polls /\ p.got = "unread"
      BY <1>1, <2>1
    <3>1. QED
      BY <2>2 DEF Polls, Items
  <2>4. QED
    BY <2>1, <2>3, PollsMove
<1>3. CASE Explo!ServerReads
  <2>1. PICK q \in polls : /\ q.got = "unread"
                           /\ polls' = (polls \ {q}) \cup {[q EXCEPT !.got = job[q.of]]}
    BY <1>3 DEF Explo!ServerReads
  <2> DEFINE r == [q EXCEPT !.got = job[q.of]]
  <2>2. q \in Polls /\ q.of \in Items /\ job[q.of] \in Explo!States
    BY <1>1 DEF Polls, Items
  <2>3. r \in Polls /\ r.got = job[q.of] /\ r.of = q.of
    BY <2>2 DEF Polls
  <2> HIDE DEF r
  <2>4. polls' = (polls \ {q}) \cup {r}
    BY <2>1 DEF r
  <2>5. UNCHANGED <<job, jobs, adding, posts, doubtful>>
    BY <1>3 DEF Explo!ServerReads, Explo!jobVars
  <2>6. QED
    BY <1>1, <2>3, <2>4, <2>5, PollsMove
<1>4. CASE Explo!PollAnswered
  BY <1>4, PollAnsweredKeeps
<1>5. CASE Explo!StatusFails \/ Explo!RoundEnds \/ Explo!RefreshFires
  BY <1>1, <1>5, PollsMove DEF Explo!StatusFails, Explo!RoundEnds, Explo!RefreshFires, Explo!jobVars
<1>6. QED
  BY <1>2, <1>3, <1>4, <1>5 DEF Explo!Refresh

-----------------------------------------------------------------------------
(* The panel: the searches, and the invariant.                              *)

LEMMA SearchingKeeps ==
  ASSUME ExploInv, Explo!Searching \/ Explo!SearchAnswered
  PROVE  /\ NewestIsUnderWay' /\ ItemsInv' /\ mounted' = mounted
<1>1. UNCHANGED <<job, jobs, adding, posts, doubtful, polls, mounted>>
  BY DEF Explo!Searching, Explo!Search, Explo!ChooseKind, Explo!openArtist, Explo!BackToArtists,
         Explo!SearchAnswered, Explo!jobVars, Explo!loopVars
<1>2. ItemsInv'
  BY <1>1, ItemsOfTheInvariant, PollsMove DEF ItemsInv, ExploTyped
<1>3. ASSUME NEW by, Explo!NewSearch(by)
      PROVE  \E s \in lookups' : s.no = revision'
  <2> DEFINE new == [no |-> revision', by |-> by]
  <2>1. new \in lookups' /\ new.no = revision'
    BY <1>3 DEF Explo!NewSearch
  <2>2. QED
    BY <2>1
<1>4. NewestIsUnderWay'
  <2>1. NewestIsUnderWay
    BY DEF ExploInv
  <2>2. CASE Explo!Search
    BY <1>3, <2>2 DEF Explo!Search, NewestIsUnderWay
  <2>3. CASE Explo!ChooseKind
    BY <1>3, <2>1, <2>3 DEF Explo!ChooseKind, NewestIsUnderWay
  <2>4. CASE Explo!openArtist
    BY <1>3, <2>4 DEF Explo!openArtist, NewestIsUnderWay
  <2>5. CASE Explo!BackToArtists
    BY <2>5 DEF Explo!BackToArtists, NewestIsUnderWay
  <2>6. CASE Explo!SearchAnswered
    <3>1. PICK s \in lookups :
            /\ lookups' = lookups \ {s}
            /\ \/ s.no # revision /\ UNCHANGED painted
               \/ s.no = revision /\ painted' = s.no
      BY <2>6 DEF Explo!SearchAnswered
    <3>2. UNCHANGED revision
      BY <2>6 DEF Explo!SearchAnswered
    <3>3. QED
      BY <2>1, <3>1, <3>2 DEF NewestIsUnderWay
  <2>7. QED
    BY <2>2, <2>3, <2>4, <2>5, <2>6 DEF Explo!Searching
<1>5. QED
  BY <1>1, <1>2, <1>4

\* A page is painted: a panel is made, or the one there was is gone.
LEMMA PaintingKeeps ==
  ASSUME ExploInv,
         \/ Repainted
         \/ /\ IF screen' = screen THEN UNCHANGED exploVars ELSE Explo!Leave
            /\ screen' = screen \/ screen' # "search"
  PROVE  ExploInv'
<1>1. CASE Explo!NewPanel /\ Explo!LeftBehind /\ (mounted' <=> screen' = "search")
  <2>1. NewestIsUnderWay'
    BY <1>1 DEF Explo!NewPanel, NewestIsUnderWay
  <2>2. ItemsInv'
    BY <1>1, ItemsOfTheInvariant, PanelIsLeft DEF Explo!NewPanel
  <2>3. QED
    BY <1>1, <2>1, <2>2, InvariantOfTheItems
<1>2. CASE UNCHANGED exploVars /\ (mounted' <=> screen' = "search")
  <2>1. UNCHANGED <<job, jobs, adding, posts, doubtful, polls, revision, painted, lookups>>
    BY <1>2 DEF exploVars
  <2>2. ItemsInv'
    BY <2>1, ItemsOfTheInvariant, PollsMove DEF ItemsInv, ExploTyped
  <2>3. NewestIsUnderWay'
    BY <2>1 DEF ExploInv, NewestIsUnderWay
  <2>4. QED
    BY <1>2, <2>2, <2>3, InvariantOfTheItems
<1>3. mounted <=> screen = "search"
  BY DEF ExploInv
<1>4. CASE Repainted
  BY <1>1, <1>2, <1>3, <1>4
  DEF Repainted, Explo!Mount, Explo!Leave, exploVars, Explo!exploVars, Explo!jobVars,
      Explo!loopVars, Explo!searchVars
<1>5. CASE screen' = screen /\ UNCHANGED exploVars
  BY <1>2, <1>3, <1>5 DEF exploVars
<1>6. CASE screen' # screen /\ screen' # "search" /\ Explo!Leave
  BY <1>1, <1>2, <1>3, <1>6
  DEF Explo!Leave, exploVars, Explo!exploVars, Explo!jobVars, Explo!loopVars, Explo!searchVars
<1>7. QED
  BY <1>4, <1>5, <1>6

LEMMA ExploStepKeeps ==
  ASSUME ExploInv, ExploStep, session \in Sessions
  PROVE  ExploInv'
<1>1. /\ ItemsInv /\ NewestIsUnderWay /\ (mounted <=> screen = "search")
      /\ screen' = screen
  BY ItemsOfTheInvariant DEF ExploStep, vars
<1>2. CASE Explo!Searching \/ Explo!SearchAnswered
  BY <1>1, <1>2, SearchingKeeps, InvariantOfTheItems
<1>3. ASSUME ItemsInv', UNCHANGED <<revision, painted, lookups, mounted>>
      PROVE  ExploInv'
  <2>1. NewestIsUnderWay'
    BY <1>1, <1>3 DEF NewestIsUnderWay
  <2>2. QED
    BY <1>1, <1>3, <2>1, InvariantOfTheItems
<1>4. CASE \E i \in Wanted[session] : Explo!Add(i)
  <2>1. PICK i \in Items : Explo!Add(i)
    BY <1>4, WantedAssumption DEF Items
  <2>2. QED
    BY <1>1, <1>3, <2>1, AddKeeps DEF Explo!Add, Explo!searchVars
<1>5. CASE Explo!ServerTakes
  BY <1>1, <1>3, <1>5, ServerTakesKeeps DEF Explo!ServerTakes, Explo!searchVars
<1>6. CASE Explo!AddAnswered
  BY <1>1, <1>3, <1>6, AddAnsweredKeeps DEF Explo!AddAnswered, Explo!searchVars
<1>7. CASE Explo!JobMoves
  BY <1>1, <1>3, <1>7, JobMovesKeeps DEF Explo!JobMoves, Explo!searchVars
<1>8. CASE Explo!Refresh
  BY <1>1, <1>3, <1>8, RefreshKeeps
  DEF Explo!Refresh, Explo!StatusAnswered, Explo!StatusFails, Explo!ServerReads,
      Explo!PollAnswered, Explo!RoundEnds, Explo!RefreshFires, Explo!searchVars
<1>9. QED
  BY <1>2, <1>4, <1>5, <1>6, <1>7, <1>8 DEF ExploStep, Explo!Answers

LEMMA ExploInit ==
  ASSUME DashboardInit
  PROVE  ExploInv
<1>1. /\ job = [i \in Items |-> "none"] /\ jobs = job
      /\ adding = {} /\ posts = << >> /\ polls = {} /\ doubtful = {}
      /\ revision = 0 /\ painted = 0 /\ mounted = (screen = "search")
  BY DEF DashboardInit, Explo!Init, Items
<1>2. ExploTyped
  BY <1>1 DEF ExploTyped, Explo!States, Items
<1>3. NewestIsUnderWay /\ PollsAreCurrent /\ AskedForOnce
  BY <1>1 DEF NewestIsUnderWay, PollsAreCurrent, AskedForOnce, Explo!NothingIsAskedForTwice,
              Explo!busy, Items
<1>4. QED
  BY <1>1, <1>2, <1>3 DEF ExploInv

LEMMA ExploStays ==
  ASSUME ExploInv, UNCHANGED <<vars, exploVars>>
  PROVE  ExploInv'
BY PaintingKeeps DEF vars

LEMMA PanelStep ==
  ASSUME ViewsInv, ExploInv, [DashboardNext]_dashboardVars
  PROVE  ExploInv'
<1>1. CASE PageStep
  BY <1>1, ElsewhereKeeps, PaintingKeeps DEF PageStep
<1>2. CASE ExploStep
  BY <1>2, ExploStepKeeps DEF ViewsInv, ViewsTyped
<1>3. CASE PlayerStep \/ UNCHANGED dashboardVars
  BY <1>3, ExploStays DEF PlayerStep, dashboardVars
<1>4. QED
  BY <1>1, <1>2, <1>3 DEF DashboardNext

\* What the panel of Explo keeps while the pages come and go around it, with the requests
\* and polls of the panels before it still under way.
THEOREM PanelInvariant == DashboardSpec => []ExploInv
<1>1. DashboardInit => ExploInv
  BY ExploInit
<1>2. ViewsInv /\ ExploInv /\ [DashboardNext]_dashboardVars => ExploInv'
  BY PanelStep
<1>3. QED
  BY <1>1, <1>2, PagesInvariant, PTL DEF DashboardSpec

\* There is a panel exactly while the search is on the screen, and a late answer never
\* takes the place of a newer one.
THEOREM TheNewestResultsStay == DashboardSpec => []NewestResultsStay
<1>1. ExploInv => NewestResultsStay
  BY DEF ExploInv, NewestIsUnderWay, NewestResultsStay, Explo!NewestResultsStay
<1>2. QED
  BY <1>1, PanelInvariant, PTL

\* What the server is working on is not asked for again, also by a panel that was made
\* while the request of the one before was under way, unless something of the item was
\* missed.
THEOREM NothingIsAskedForAgain == DashboardSpec => []NothingIsAskedForTwice
<1>1. ExploInv => NothingIsAskedForTwice
  BY DEF ExploInv, AskedForOnce, NothingIsAskedForTwice
<1>2. QED
  BY <1>1, PanelInvariant, PTL

-----------------------------------------------------------------------------
(* The player: the files of an item.                                        *)

\* What induction amounts to, and no operator is needed to say it: among naturals there
\* is a least.
LEMMA Least ==
  ASSUME NEW S \in SUBSET Nat, S # {}
  PROVE  \E x \in S : \A y \in S : x <= y
<1> DEFINE below == {ss \in Nat \X Nat : ss[1] < ss[2]}
<1>1. IsWellFoundedOn(below, Nat)
  BY NatLessThanWellFounded DEF OpToRel
<1>2. \A x, y \in Nat : <<y, x>> \in below <=> y < x
  OBVIOUS
<1> HIDE DEF below
<1>3. PICK x \in S : \A y \in S : <<y, x>> \notin below
  BY <1>1, WFMin
<1>4. \A y \in S : x <= y
  <2> SUFFICES ASSUME NEW y \in S PROVE x <= y
    OBVIOUS
  <2>1. x \in Nat /\ y \in Nat
    OBVIOUS
  <2>2. ~(y < x)
    BY <1>2, <1>3, <2>1
  <2>3. QED
    BY <2>1, <2>2
<1>5. QED
  BY <1>4

LEMMA Smallest ==
  ASSUME NEW S \in SUBSET Nat, S # {}
  PROVE  Player!Min(S) \in S
<1>1. PICK x \in S : \A y \in S : x <= y
  BY Least
<1>2. QED
  BY <1>1 DEF Player!Min

LEMMA Largest ==
  ASSUME NEW S \in SUBSET Nat, S # {}, NEW b \in Nat, \A x \in S : x <= b
  PROVE  Player!Max(S) \in S
<1> DEFINE T == {b - x : x \in S}
<1>1. T \subseteq Nat /\ T # {}
  <2>1. \A x \in S : x \in Nat /\ b - x \in Nat
    <3> SUFFICES ASSUME NEW x \in S PROVE x \in Nat /\ b - x \in Nat
      OBVIOUS
    <3>1. x \in Nat /\ x <= b
      OBVIOUS
    <3>2. QED
      BY <3>1
  <2>2. QED
    BY <2>1
<1>2. PICK t \in T : \A u \in T : t <= u
  BY <1>1, Least
<1>3. PICK x \in S : t = b - x
  OBVIOUS
<1>4. \A y \in S : x >= y
  <2> SUFFICES ASSUME NEW y \in S PROVE x >= y
    OBVIOUS
  <2>1. b - y \in T
    OBVIOUS
  <2>2. b - x <= b - y /\ x \in Nat /\ y \in Nat
    BY <1>2, <1>3, <2>1
  <2>3. QED
    BY <2>2
<1>5. QED
  BY <1>4 DEF Player!Max

LEMMA FilesOf ==
  ASSUME NEW i \in Titles
  PROVE  /\ DOMAIN i.files = 1 .. Len(i.files) /\ Len(i.files) \in Nat /\ Len(i.files) >= 1
         /\ \A n \in 1 .. Len(i.files) : i.files[n] \in Nat \ {0}
         /\ i.kind # "audiobook" => Len(i.files) = 1
         /\ i.kind \in Player!Kinds /\ i # Player!None
<1>1. i.files \in Seq(Nat \ {0}) /\ i.files # << >>
  BY TitlesAssumption
<1>2. DOMAIN i.files = 1 .. Len(i.files) /\ Len(i.files) \in Nat /\ Len(i.files) >= 1
  BY <1>1
<1>3. \A n \in 1 .. Len(i.files) : i.files[n] \in Nat \ {0}
  BY <1>1, ElementsOf
<1>4. i.kind \in Player!Kinds /\ (i.kind # "audiobook" => Len(i.files) = 1)
  BY TitlesAssumption
<1>5. Player!None.kind \notin Player!Kinds
  BY DEF Player!None, Player!Kinds
<1>6. QED
  BY <1>2, <1>3, <1>4, <1>5

\* An item is as long as all its files, and no shorter than the first of them.
LEMMA SumsOf ==
  ASSUME NEW i \in Titles
  PROVE  /\ \A n \in 0 .. Len(i.files) : UpTo(i, n) \in Nat /\ UpTo(i, n) <= Player!Duration(i)
         /\ \A n \in 1 .. Len(i.files) : UpTo(i, n) = UpTo(i, n - 1) + i.files[n]
         /\ UpTo(i, Len(i.files)) = Player!Duration(i)
<1> DEFINE len    == Len(i.files)
           sum(n) == UpTo(i, n)
<1>1. /\ DOMAIN i.files = 1 .. len /\ len \in Nat
      /\ \A n \in 1 .. len : i.files[n] \in Nat
  BY FilesOf
<1>2. sum(0) = 0 /\ \A n \in 1 .. len : sum(n) = sum(n - 1) + i.files[n]
  BY <1>1, SumAssumption DEF UpTo
<1>3. sum(len) = Player!Duration(i)
  <2>1. i.files \in Seq(Nat \ {0})
    BY TitlesAssumption
  <2>2. SubSeq(i.files, 1, len) = i.files
    BY <2>1
  <2>3. QED
    BY <2>2 DEF UpTo, Player!Duration
<1> HIDE DEF len, sum
<1>4. \A n \in 0 .. len : sum(n) \in Nat
  <2> DEFINE T == {n \in 0 .. len : sum(n) \notin Nat}
  <2> SUFFICES ASSUME T # {} PROVE FALSE
    OBVIOUS
  <2>1. T \subseteq Nat
    BY <1>1
  <2>2. PICK n \in T : \A m \in T : n <= m
    BY <2>1, Least
  <2>3. n # 0 /\ n \in 1 .. len
    BY <1>1, <1>2, <2>2
  <2>4. n - 1 \in 0 .. len /\ ~(n <= n - 1)
    BY <1>1, <2>3
  <2>5. sum(n - 1) \in Nat
    BY <2>2, <2>4
  <2>6. sum(n) = sum(n - 1) + i.files[n] /\ i.files[n] \in Nat
    BY <1>1, <1>2, <2>3
  <2>7. sum(n) \in Nat
    BY <2>5, <2>6
  <2>8. QED
    BY <2>2, <2>7
<1>5. \A n \in 0 .. len : sum(n) <= sum(len)
  <2> DEFINE T == {k \in 0 .. len : ~(sum(len - k) <= sum(len))}
  <2>1. T = {}
    <3> SUFFICES ASSUME T # {} PROVE FALSE
      OBVIOUS
    <3>1. T \subseteq Nat
      BY <1>1
    <3>2. PICK k \in T : \A m \in T : k <= m
      BY <3>1, Least
    <3>3. k \in 0 .. len /\ ~(sum(len - k) <= sum(len))
      BY <3>2
    <3>4. sum(len) \in Nat
      BY <1>1, <1>4
    <3>5. k # 0
      BY <1>1, <3>3, <3>4
    <3>6. k - 1 \in 0 .. len /\ ~(k <= k - 1) /\ len - k + 1 \in 1 .. len /\ len - k \in 0 .. len
      BY <1>1, <3>3, <3>5
    <3>7. sum(len - (k - 1)) <= sum(len)
      BY <3>2, <3>6
    <3>8. len - (k - 1) = len - k + 1 /\ len - k + 1 - 1 = len - k
      BY <1>1, <3>3
    <3>9. sum(len - k + 1) = sum(len - k) + i.files[len - k + 1]
      BY <1>2, <3>6, <3>8
    <3>10. sum(len - k) \in Nat /\ i.files[len - k + 1] \in Nat
      BY <1>1, <1>4, <3>6
    <3>11. QED
      BY <3>3, <3>4, <3>7, <3>8, <3>9, <3>10
  <2> SUFFICES ASSUME NEW n \in 0 .. len PROVE sum(n) <= sum(len)
    OBVIOUS
  <2>2. len - n \in 0 .. len /\ len - (len - n) = n
    BY <1>1
  <2>3. sum(len - (len - n)) <= sum(len)
    BY <2>1, <2>2
  <2>4. QED
    BY <2>2, <2>3
<1>6. QED
  BY <1>2, <1>3, <1>4, <1>5 DEF len, sum

\* Whichever way the server answers, the stream ends where a file does.
LEMMA StreamsOf ==
  ASSUME NEW i \in Titles, NEW at \in Nat, NEW s \in Player!Streams(i, at)
  PROVE  /\ s \in Stream /\ ~s.known
         /\ \E n \in DOMAIN i.files : s.from + s.length = UpTo(i, n)
<1> DEFINE starts == [n \in DOMAIN i.files |-> UpTo(i, n - 1)]
           here   == {n \in DOMAIN i.files : n = 1 \/ starts[n] <= at}
           file   == Player!Max(here)
           end    == starts[file] + i.files[file]
<1>1. PICK from \in {starts[file]} \cup (IF at < end THEN {at} ELSE {}) :
        s = [from |-> from, length |-> end - from, known |-> FALSE]
  BY DEF Player!Streams, UpTo
<1>2. /\ DOMAIN i.files = 1 .. Len(i.files) /\ Len(i.files) \in Nat /\ Len(i.files) >= 1
      /\ \A n \in 1 .. Len(i.files) : i.files[n] \in Nat \ {0}
  BY FilesOf
<1>3. file \in DOMAIN i.files
  <2>1. here \in SUBSET Nat /\ here # {} /\ \A n \in here : n <= Len(i.files)
    <3>1. 1 \in here
      BY <1>2
    <3>2. here \subseteq 1 .. Len(i.files)
      BY <1>2
    <3> HIDE DEF here
    <3>3. QED
      BY <1>2, <3>1, <3>2
  <2> HIDE DEF here
  <2>2. file \in here
    BY <1>2, <2>1, Largest
  <2>3. QED
    BY <2>2 DEF here
<1> HIDE DEF file
<1>4. /\ starts[file] = UpTo(i, file - 1) /\ UpTo(i, file - 1) \in Nat
      /\ UpTo(i, file) = UpTo(i, file - 1) + i.files[file] /\ UpTo(i, file) \in Nat
      /\ i.files[file] \in Nat
  <2>1. file \in 1 .. Len(i.files) /\ file \in 0 .. Len(i.files) /\ file - 1 \in 0 .. Len(i.files)
    BY <1>2, <1>3
  <2>2. QED
    BY <1>2, <1>3, <2>1, SumsOf
<1> HIDE DEF starts
<1>5. end = UpTo(i, file) /\ end \in Nat
  BY <1>4
<1> HIDE DEF end
<1>6. from \in Nat /\ end - from \in Nat /\ from + (end - from) = end
  BY <1>1, <1>4, <1>5 DEF end
<1>7. QED
  BY <1>1, <1>3, <1>5, <1>6 DEF Stream

-----------------------------------------------------------------------------
(* The player: what its steps keep and report.                              *)

\* A report is of where the listener is, but for the one of an audiobook that rolls onto
\* its next file; one that something is complete is made at its end.
Reported ==
  report' # report /\ ~misled =>
    /\ report'.by # "roll" => report'.position = report'.heard
    /\ report'.by = "completed" => report'.heard = Player!Duration(playing)

\* What the invariant says of the clock: the position that is worked out is the one that
\* is heard.
LEMMA PositionIsHeard ==
  ASSUME PlayerInv, ~misled, src.known, NEW t \in Nat
  PROVE  Player!playbackGlobalSeconds(globalBase, t) = src.from + t
BY DEF PlayerInv, PlayerTyped, BaseIsTheStart, Player!playbackGlobalSeconds

LEMMA FlushIsHeard ==
  ASSUME PlayerInv, NEW base, NEW by, by # "completed", base = globalBase \/ by = "roll",
         Player!flushPlaybackProgress(base, by)
  PROVE  Reported
<1> SUFFICES ASSUME report' # report, ~misled
             PROVE  report'.by = by /\ (by # "roll" => report'.position = report'.heard)
  BY DEF Reported
<1> DEFINE now == Player!playbackGlobalSeconds(base, currentTime)
<1>1. now # 0 /\ report' = [position |-> now, heard |-> Player!Heard, by |-> by]
  BY DEF Player!flushPlaybackProgress, Player!Report
<1>2. CASE src.known /\ base = globalBase
  <2>1. now = src.from + currentTime
    BY <1>2, PositionIsHeard DEF PlayerInv, PlayerTyped
  <2>2. QED
    BY <1>1, <1>2, <2>1 DEF Player!Heard
<1>3. CASE ~src.known /\ base = globalBase
  <2>1. currentTime = 0 /\ globalBase \in Nat
    BY <1>3 DEF PlayerInv, PlayerTyped, BaseIsTheStart
  <2>2. now = globalBase
    BY <1>1, <1>3, <2>1 DEF Player!playbackGlobalSeconds
  <2>3. QED
    BY <1>1, <1>3, <2>2 DEF Player!Heard
<1>4. QED
  BY <1>1, <1>2, <1>3

\* Something is played, from a position in it.
LEMMA PlayingKeeps ==
  ASSUME PlayerInv, NEW i \in Titles, NEW at \in Nat, NEW base, NEW by,
         by # "completed", base = globalBase \/ by = "roll",
         Player!playURL(i, at, base, by), i.kind = "music-track" => at = 0,
         asking' \subseteq asking
  PROVE  PlayerInv' /\ Reported
<1>1. /\ playing' = i /\ globalBase' = at /\ currentTime' = 0 /\ misled' = FALSE
      /\ src' \in Player!Streams(i, at)
      /\ Player!flushPlaybackProgress(base, by)
  BY DEF Player!playURL
<1>2. /\ src' \in Stream /\ ~src'.known
      /\ \E n \in DOMAIN i.files : src'.from + src'.length = UpTo(i, n)
  BY <1>1, StreamsOf
<1>3. PlayerTyped' /\ BaseIsTheStart'
  BY <1>1, <1>2 DEF PlayerInv, PlayerTyped, BaseIsTheStart
<1>4. EndsWithAFile'
  BY <1>1, <1>2 DEF EndsWithAFile
<1>5. Reported
  BY <1>1, FlushIsHeard
<1>6. QED
  BY <1>3, <1>4, <1>5 DEF PlayerInv

LEMMA PressKeeps ==
  ASSUME PlayerInv, NEW i \in Titles, Player!Press(i)
  PROVE  PlayerInv' /\ Reported
<1>1. CASE Player!playTrack(i)
  BY <1>1, PlayingKeeps DEF Player!playTrack
<1>2. ASSUME NEW at \in 0 .. Player!Duration(i), Player!playAudiobook(i, at)
      PROVE  PlayerInv' /\ Reported
  <2>1. at \in Nat
    BY SumsOf, FilesOf
  <2>2. QED
    BY <1>2, <2>1, PlayingKeeps DEF Player!playAudiobook
<1>3. CASE Player!playPodcastEpisode(i)
  <2>1. /\ i.kind = "podcast-episode" /\ asking' = asking \cup {i}
        /\ UNCHANGED <<playing, globalBase, src, currentTime, report, misled>>
    BY <1>3 DEF Player!playPodcastEpisode
  <2>2. QED
    BY <2>1 DEF PlayerInv, PlayerTyped, BaseIsTheStart, EndsWithAFile, Reported
<1>4. QED
  BY <1>1, <1>2, <1>3 DEF Player!Press

LEMMA PositionAnsweredKeeps ==
  ASSUME PlayerInv, Player!PositionAnswered
  PROVE  PlayerInv' /\ Reported
<1>1. PICK i \in asking :
        /\ asking' = asking \ {i}
        /\ \E at \in 0 .. Player!Duration(i) : Player!playURL(i, at, globalBase, "flush")
  BY DEF Player!PositionAnswered
<1>2. PICK at \in 0 .. Player!Duration(i) : Player!playURL(i, at, globalBase, "flush")
  BY <1>1
<1>3. i \in Titles /\ i.kind = "podcast-episode"
  BY DEF PlayerInv, PlayerTyped
<1>4. at \in Nat
  BY <1>3, SumsOf, FilesOf
<1>5. QED
  BY <1>1, <1>2, <1>3, <1>4, PlayingKeeps

\* applyStreamResumeSeek takes the stream for the whole item or for a part of it; when it
\* is right, so is the base.
LEMMA MetadataKeeps ==
  ASSUME PlayerInv, Player!MetadataLoaded
  PROVE  PlayerInv' /\ Reported
<1>1. /\ playing # Player!None /\ ~src.known
      /\ src' = [src EXCEPT !.known = TRUE]
      /\ misled' = (src.from # IF Player!TakenForWhole THEN 0 ELSE globalBase)
      /\ Player!applyStreamResumeSeek
      /\ UNCHANGED <<playing, asking, report>>
  BY DEF Player!MetadataLoaded
<1>2. /\ playing \in Titles /\ src \in Stream /\ currentTime \in Nat /\ globalBase \in Nat
      /\ Player!Duration(playing) \in Nat
  <2>1. playing \in Titles
    BY <1>1 DEF PlayerInv, PlayerTyped
  <2>2. QED
    BY <2>1, SumsOf, FilesOf DEF PlayerInv, PlayerTyped
<1>3. /\ src' \in Stream /\ src'.known /\ src'.from = src.from /\ src'.length = src.length
  BY <1>1, <1>2 DEF Stream
<1>4. CASE globalBase = 0 \/ ~Player!TakenForWhole
  <2>1. UNCHANGED <<currentTime, globalBase>>
    BY <1>1, <1>4 DEF Player!applyStreamResumeSeek
  <2>2. PlayerTyped' /\ EndsWithAFile'
    BY <1>1, <1>3, <2>1 DEF PlayerInv, PlayerTyped, EndsWithAFile
  <2>3. BaseIsTheStart'
    BY <1>1, <1>3, <1>4, <2>1 DEF PlayerInv, BaseIsTheStart
  <2>4. QED
    BY <1>1, <2>2, <2>3 DEF PlayerInv, Reported
<1>5. CASE ~(globalBase = 0 \/ ~Player!TakenForWhole)
  <2> DEFINE S == {globalBase, Player!Duration(playing), src.length}
  <2>1. globalBase' = 0 /\ currentTime' = Player!Min(S)
    BY <1>1, <1>5 DEF Player!applyStreamResumeSeek
  <2>2. S \in SUBSET Nat /\ S # {}
    BY <1>2 DEF Stream
  <2> HIDE DEF S
  <2>3. currentTime' \in Nat
    BY <2>1, <2>2, Smallest
  <2>4. PlayerTyped' /\ EndsWithAFile'
    BY <1>1, <1>3, <2>1, <2>3 DEF PlayerInv, PlayerTyped, EndsWithAFile
  <2>5. BaseIsTheStart'
    BY <1>1, <1>3, <1>5, <2>1 DEF BaseIsTheStart
  <2>6. QED
    BY <1>1, <2>4, <2>5 DEF PlayerInv, Reported
<1>6. QED
  BY <1>4, <1>5

\* The clock of the element moves, by itself or from the bar.
LEMMA ClockKeeps ==
  ASSUME PlayerInv, Player!Plays \/ Player!Seek
  PROVE  PlayerInv' /\ Reported
<1>1. /\ playing # Player!None /\ src.known
      /\ Player!reportPlaybackProgress(currentTime')
      /\ UNCHANGED <<playing, globalBase, src, asking, misled>>
  BY DEF Player!Plays, Player!Seek
<1>2. playing \in Titles /\ src \in Stream /\ currentTime \in Nat /\ globalBase \in Nat
  BY <1>1 DEF PlayerInv, PlayerTyped
<1>3. currentTime' \in Nat
  <2>1. CASE Player!Plays
    BY <1>2, <2>1 DEF Player!Plays
  <2>2. CASE Player!Seek
    <3>1. PICK place \in 0 .. Player!Duration(playing) :
            currentTime' = IF place < globalBase THEN 0
                           ELSE Player!Min({place - globalBase, src.length})
      BY <2>2 DEF Player!Seek
    <3>2. place \in Nat
      BY <1>2, SumsOf, FilesOf
    <3>3. CASE ~(place < globalBase)
      <4> DEFINE S == {place - globalBase, src.length}
      <4>1. S \in SUBSET Nat /\ S # {}
        BY <1>2, <3>2, <3>3 DEF Stream
      <4>2. currentTime' = Player!Min(S)
        BY <3>1, <3>3
      <4> HIDE DEF S
      <4>3. QED
        BY <4>1, <4>2, Smallest
    <3>4. QED
      BY <3>1, <3>3
  <2>3. QED
    BY <2>1, <2>2
<1>4. PlayerInv'
  BY <1>1, <1>3 DEF PlayerInv, PlayerTyped, BaseIsTheStart, EndsWithAFile
<1>5. Reported
  <2> SUFFICES ASSUME report' # report, ~misled
               PROVE  report'.by = "tick" /\ report'.position = report'.heard
    BY DEF Reported
  <2> DEFINE now == Player!playbackGlobalSeconds(globalBase, currentTime')
  <2>1. report' = [position |-> now, heard |-> src.from + currentTime', by |-> "tick"]
    BY <1>1 DEF Player!reportPlaybackProgress, Player!Report
  <2>2. now = src.from + currentTime'
    BY <1>1, <1>3, PositionIsHeard
  <2>3. QED
    BY <2>1, <2>2
<1>6. QED
  BY <1>4, <1>5

\* The stream has ended, and with it a file: the next one is played, or it was the last.
LEMMA EndedKeeps ==
  ASSUME PlayerInv, Player!Ended
  PROVE  PlayerInv' /\ Reported
<1> DEFINE now == globalBase + src.length
<1>1. /\ playing \in Titles /\ src.known /\ currentTime = src.length
      /\ src \in Stream /\ globalBase \in Nat /\ now \in Nat
      /\ asking' = asking
  BY DEF Player!Ended, PlayerInv, PlayerTyped, Stream
<1>2. CASE /\ playing.kind = "audiobook" /\ now < Player!Duration(playing)
           /\ Player!playURL(playing, now, now, "roll")
  BY <1>1, <1>2, PlayingKeeps
<1>3. CASE /\ playing.kind # "audiobook" \/ now >= Player!Duration(playing)
           /\ report' = [position |-> now, heard |-> Player!Heard, by |-> "completed"]
           /\ UNCHANGED <<playing, globalBase, src, currentTime, misled>>
  <2>1. PlayerInv'
    BY <1>1, <1>3 DEF PlayerInv, PlayerTyped, BaseIsTheStart, EndsWithAFile
  <2>2. ASSUME ~misled
        PROVE  now = Player!Heard /\ Player!Heard = Player!Duration(playing)
    <3>1. now = src.from + src.length /\ Player!Heard = src.from + src.length
      BY <1>1, <2>2 DEF PlayerInv, BaseIsTheStart, Player!Heard
    <3>2. playing # Player!None
      BY <1>1, FilesOf
    <3>3. PICK n \in DOMAIN playing.files : now = UpTo(playing, n)
      BY <3>1, <3>2 DEF PlayerInv, EndsWithAFile
    <3>4. /\ DOMAIN playing.files = 1 .. Len(playing.files) /\ Len(playing.files) \in Nat
          /\ playing.kind # "audiobook" => Len(playing.files) = 1
      BY <1>1, FilesOf
    <3>5. /\ UpTo(playing, n) <= Player!Duration(playing)
          /\ UpTo(playing, Len(playing.files)) = Player!Duration(playing)
          /\ Player!Duration(playing) \in Nat
      <4>1. n \in 0 .. Len(playing.files) /\ Len(playing.files) \in 0 .. Len(playing.files)
        BY <3>4
      <4>2. QED
        BY <1>1, <4>1, SumsOf
    <3>6. CASE playing.kind # "audiobook"
      <4>1. Len(playing.files) = 1
        BY <3>4, <3>6
      <4>2. n \in 1 .. Len(playing.files)
        BY <3>4
      <4>3. n = Len(playing.files)
        BY <4>1, <4>2
      <4>4. QED
        BY <3>1, <3>3, <3>5, <4>3
    <3>7. CASE now >= Player!Duration(playing)
      BY <1>1, <3>1, <3>3, <3>5, <3>7
    <3>8. QED
      BY <1>3, <3>6, <3>7
  <2>3. Reported
    BY <1>3, <2>2 DEF Reported
  <2>4. QED
    BY <2>1, <2>3
<1>4. QED
  BY <1>2, <1>3 DEF Player!Ended, Player!Report

LEMMA StopKeeps ==
  ASSUME PlayerInv, Player!Stop
  PROVE  PlayerInv' /\ Reported
<1>1. /\ Player!flushPlaybackProgress(globalBase, "flush")
      /\ playing' = Player!None /\ globalBase' = 0 /\ src' = Player!NoSrc /\ currentTime' = 0
      /\ misled' = FALSE /\ asking' = asking
  BY DEF Player!Stop
<1>2. src' \in Stream /\ ~src'.known
  BY <1>1 DEF Stream, Player!NoSrc
<1>3. PlayerInv'
  BY <1>1, <1>2 DEF PlayerInv, PlayerTyped, BaseIsTheStart, EndsWithAFile
<1>4. QED
  BY <1>1, <1>3, FlushIsHeard

LEMMA PlayerInit ==
  ASSUME DashboardInit
  PROVE  PlayerInv
<1>1. /\ playing = Player!None /\ globalBase = 0 /\ src = Player!NoSrc /\ currentTime = 0
      /\ asking = {}
  BY DEF DashboardInit, Player!Init
<1>2. QED
  BY <1>1 DEF PlayerInv, PlayerTyped, BaseIsTheStart, EndsWithAFile, Stream, Player!NoSrc

LEMMA DockStep ==
  ASSUME ViewsInv, PlayerInv, [DashboardNext]_dashboardVars
  PROVE  PlayerInv' /\ Reported
<1>1. CASE PlayerStep
  <2>1. CASE \E i \in Played[session] : Player!Press(i)
    <3>1. PICK i \in Titles : Player!Press(i)
      BY <2>1, PlayedAssumption DEF ViewsInv, ViewsTyped
    <3>2. QED
      BY <3>1, PressKeeps
  <2>2. CASE Player!Element
    BY <2>2, PositionAnsweredKeeps, MetadataKeeps, ClockKeeps, EndedKeeps, StopKeeps
    DEF Player!Element
  <2>3. QED
    BY <1>1, <2>1, <2>2 DEF PlayerStep
<1>2. CASE UNCHANGED playerVars
  BY <1>2 DEF playerVars, PlayerInv, PlayerTyped, BaseIsTheStart, EndsWithAFile, Reported
<1>3. QED
  BY <1>1, <1>2 DEF DashboardNext, PageStep, ExploStep, dashboardVars

\* What the player dock keeps: where the stream starts, and where it ends.
THEOREM PlayerInvariant == DashboardSpec => []PlayerInv
<1>1. DashboardInit => PlayerInv
  BY PlayerInit
<1>2. ViewsInv /\ PlayerInv /\ [DashboardNext]_dashboardVars => PlayerInv'
  BY DockStep
<1>3. QED
  BY <1>1, <1>2, PagesInvariant, PTL DEF DashboardSpec

\* Whatever is reported of playback is where the listener is, however the server cut the
\* stream and wherever the clock was moved, if applyStreamResumeSeek has guessed right.
THEOREM WhatIsReportedWasHeard == DashboardSpec => ReportIsHeard
<1>1. ViewsInv /\ PlayerInv /\ [DashboardNext]_dashboardVars =>
        [report' # report /\ report'.by # "roll" /\ ~misled
           => report'.position = report'.heard]_(Player!playerVars)
  BY DockStep DEF Reported
<1>2. QED
  BY <1>1, PagesInvariant, PlayerInvariant, PTL
  DEF DashboardSpec, ReportIsHeard, Player!ReportIsHeard

\* Nothing is reported as completed before the end of its last file.
THEOREM NothingIsCompletedEarly == DashboardSpec => CompletedAtTheEnd
<1>1. ViewsInv /\ PlayerInv /\ [DashboardNext]_dashboardVars =>
        [report' # report /\ report'.by = "completed" /\ ~misled
           => report'.heard = Player!Duration(playing)]_(Player!playerVars)
  BY DockStep DEF Reported
<1>2. QED
  BY <1>1, PagesInvariant, PlayerInvariant, PTL
  DEF DashboardSpec, CompletedAtTheEnd, Player!CompletedAtTheEnd

=============================================================================
