------------------------------- MODULE WebViews -------------------------------
(***************************************************************************)
(* The pages of the dashboard: web/src/app.js, without the radio tab's own *)
(* machinery (WebStation) and the scan readout (WebScan).                  *)
(*                                                                         *)
(* A page is a function that empties the screen, sends its requests and    *)
(* paints what they answer, wherever the user has gone in the meantime: no *)
(* load is ever cancelled and none looks whether it is still wanted.  Of a *)
(* page the model keeps its requests, phase by phase: the ones whose       *)
(* failure ends the load in an error (`needs`) and the ones with a         *)
(* fallback of their own (`spares`).  Of what is painted it keeps the      *)
(* page's name, and the three things that outlive one load: the list that  *)
(* LOAD MORE grows, the results of the search, and the panel of an import. *)
(***************************************************************************)
EXTENDS Naturals, Sequences, FiniteSets, SequencesExt

CONSTANTS
  Sessions,   \* bound: the sets of pages one session navigates to; only a session with
              \*   the music page uses its pills and LOAD MORE, and only one with a
              \*   playlist makes one
  MusicModes, \* bound: the modes of the music page that are used
  MaxPages,   \* bound: the length of the music list, in pages of MUSIC_PAGE_SIZE
  Queries,    \* bound: what is typed into the search
  MaxLoads,   \* bound: how many loads are under way at a time
  MaxChains   \* bound: how many timers and requests follow the import at a time

VARIABLES
  session,          \* the pages of this session
  hash,             \* location.hash: the page navigated to last
  screen,           \* what is painted: a page, "loading" or "error"
  loads,            \* the loads under way, oldest first
  writes,           \* the requests of buttons and forms under way, by their page
  musicMode,
  musicListItems,   \* the pages in the list, each with the mode it was asked in
  musicListOffset,
  crossed,          \* history: two loads of the list have overlapped
  searchQuery,
  results,          \* what is under the search field
  searches,         \* the searches under way whose field is still on the screen
  debounce,         \* the pending timeouts: of the field on the screen, or left over
  raced,            \* history: two searches have overlapped
  imported,         \* on the server: the import still moves
  panel,            \* the import's panel: shows it moving, shows it done, or is not there
  chains            \* where each chain of followPlaylistImport is

navVars    == <<session, hash>>
musicVars  == <<musicMode, musicListItems, musicListOffset, crossed>>
searchVars == <<results, searches, debounce, raced>>
importVars == <<panel, chains>>
vars == <<navVars, screen, loads, writes, musicVars, searchQuery, searchVars,
          imported, importVars>>

-----------------------------------------------------------------------------
(* The pages and their requests.                                            *)

Phase(needs, spares) == [needs |-> needs, spares |-> spares]

viewHome == <<Phase({"overview", "recently-added"}, {"libraries", "stations"})>>

\* The token that a stream's URL carries comes before what can be played.
ensureStreamToken == Phase({"stream-token"}, {})

\* The list of the mode; with the playlists the state of Explo's discovery.
viewMusic == <<ensureStreamToken, Phase({"list"}, {"discovery"})>>

openArtist == <<Phase({"artist"}, {"albums"})>>
openAuthor == <<Phase({"author"}, {})>>
openSeries == <<Phase({"series"}, {})>>
openAlbum  == <<Phase({"album"}, {"tracks"})>>
openPlaylist == <<ensureStreamToken, Phase({"playlist"}, {"tracks", "import"})>>

\* The list of the mode, then loadLibraries.
viewAudiobooks == <<Phase({"list"}, {}), Phase({}, {"libraries"})>>
viewPodcasts   == <<Phase({"list"}, {}), Phase({}, {"libraries"})>>
openAudiobook  == <<Phase({"audiobook"}, {})>>
findPodcastLinkedFeed == Phase({}, {"feeds"})
openPodcast    == <<Phase({"show"}, {"episodes"}), findPodcastLinkedFeed>>

viewExplo == <<Phase({"tracks"}, {})>>
viewUsers == <<Phase({"users"}, {})>>

\* viewSettings, by settingsMode.
settingsLibraries == <<Phase({"libraries"}, {"jobs", "backfill", "missing-files"})>>
settingsRadio     == <<Phase({}, {"stations", "station-directory"})>>
settingsPodcasts  == <<Phase({}, {"feeds", "cache"})>>
settingsExplo     == <<Phase({}, {"me", "config", "discovery"})>>
settingsAccount   == <<Phase({"me"}, {"tokens", "lastfm", "lastfm-config", "listenbrainz"})>>

\* The lists of the radio tab come with fallbacks; a channel must be there.
viewRadio == <<Phase({"channel"}, {"stations"})>>

\* views, detailHandlers, and the modes of viewSettings.  The search has nothing to
\* load.
Views == {"home", "music", "audiobooks", "podcasts", "radio", "explo", "users",
          "settings/libraries", "settings/radio", "settings/podcasts", "settings/explo",
          "settings/account", "music/album", "music/artist", "music/playlist",
          "audiobooks/item", "audiobooks/author", "audiobooks/series", "podcasts/show"}

Phases(p) ==
  CASE p = "home"               -> viewHome
    [] p = "music"              -> viewMusic
    [] p = "audiobooks"         -> viewAudiobooks
    [] p = "podcasts"           -> viewPodcasts
    [] p = "radio"              -> viewRadio
    [] p = "explo"              -> viewExplo
    [] p = "users"              -> viewUsers
    [] p = "settings/libraries" -> settingsLibraries
    [] p = "settings/radio"     -> settingsRadio
    [] p = "settings/podcasts"  -> settingsPodcasts
    [] p = "settings/explo"     -> settingsExplo
    [] p = "settings/account"   -> settingsAccount
    [] p = "music/album"        -> openAlbum
    [] p = "music/artist"       -> openArtist
    [] p = "music/playlist"     -> openPlaylist
    [] p = "audiobooks/item"    -> openAudiobook
    [] p = "audiobooks/author"  -> openAuthor
    [] p = "audiobooks/series"  -> openSeries
    [] p = "podcasts/show"      -> openPodcast

Pages   == Views \cup {"search"}
Screens == Pages \cup {"loading", "error"}

ASSUME SessionsAssumption == Sessions \subseteq SUBSET Pages

\* What the results are besides those of a query: none, under way or failed.
ASSUME QueriesAssumption == Queries \cap {"", "querying", "error"} = {}

Settings == {"settings/libraries", "settings/radio", "settings/podcasts",
             "settings/explo", "settings/account"}
MusicPages     == {"music", "music/album", "music/artist", "music/playlist"}
AudiobookPages == {"audiobooks", "audiobooks/item", "audiobooks/author", "audiobooks/series"}
PodcastPages   == {"podcasts", "podcasts/show"}

\* The tab a page belongs to, by the name of the tab's own page.
TabOf(p) ==
  CASE p \in MusicPages     -> "music"
    [] p \in AudiobookPages -> "audiobooks"
    [] p \in PodcastPages   -> "podcasts"
    [] OTHER -> p

Load(p, append) == [page |-> p, phase |-> 1, append |-> append, mode |-> "none", at |-> 0]
IsMusic(l) == l.page = "music"
Overlaps   == \E i \in DOMAIN loads : IsMusic(loads[i])

TypeOK ==
  /\ session \in Sessions
  /\ hash \in Pages /\ screen \in Screens
  /\ loads \in Seq([page : Views, phase : 1 .. 2, append : BOOLEAN,
                    mode : MusicModes \cup {"none"}, at : 0 .. 2 * MaxPages])
  /\ Len(loads) <= MaxLoads
  /\ writes \subseteq Pages
  /\ musicMode \in MusicModes
  /\ musicListItems \in Seq([mode : MusicModes, at : 0 .. 2 * MaxPages])
  /\ musicListOffset \in 0 .. 2 * MaxPages
  /\ crossed \in BOOLEAN /\ raced \in BOOLEAN
  /\ searchQuery \in Queries \cup {""}
  /\ results \in Queries \cup {"", "querying", "error"}
  /\ searches \subseteq Queries
  /\ debounce \subseteq {"own", "left"}
  /\ imported \in BOOLEAN
  /\ panel \in {"none", "open", "still"}
  /\ chains \in Seq({"waiting", "asking", "rereading"}) /\ Len(chains) <= MaxChains

-----------------------------------------------------------------------------
(* What is painted.                                                         *)

\* main.innerHTML is replaced: the search field and the panel of the import are
\* gone, unless the new page brings them.
Paint(what, shown) ==
  /\ screen' = what
  /\ panel' = shown
  /\ debounce' = IF "own" \in debounce THEN {"left"} ELSE debounce

renderLoading      == Paint("loading", "none")
\* a mutant: the error goes to the status line and the page stays.
SilentError        == UNCHANGED <<screen, panel, debounce>>
renderError        == Paint("error", "none")
NoSearch           == results' = "" /\ searches' = {} /\ raced' = FALSE

\* viewSearch: a field with the last query in it, which is run at once.
viewSearch ==
  /\ Paint("search", "none")
  /\ raced' = FALSE
  /\ IF searchQuery = ""
     THEN results' = "" /\ searches' = {}
     ELSE results' = "querying" /\ searches' = {searchQuery}

\* A page is called for: from the navigation, after a write, or anew.
Show(p) ==
  \/ /\ p = "search"
     /\ viewSearch
     /\ UNCHANGED <<loads, crossed>>
  \/ /\ p # "search"
     /\ renderLoading /\ NoSearch
     /\ loads' = Append(loads, Load(p, FALSE)) /\ Len(loads') <= MaxLoads
     /\ crossed' = IF p = "music" THEN Overlaps ELSE crossed

\* boot: the user is known and the hash says what to show.
Init ==
  /\ session \in Sessions
  /\ hash \in session
  /\ screen = IF hash = "search" THEN "search" ELSE "loading"
  /\ loads = IF hash = "search" THEN << >> ELSE <<Load(hash, FALSE)>>
  /\ writes = {}
  /\ musicMode \in MusicModes /\ musicListItems = << >> /\ musicListOffset = 0
  /\ crossed = FALSE
  /\ searchQuery = "" /\ results = "" /\ searches = {} /\ debounce = {} /\ raced = FALSE
  /\ imported \in BOOLEAN /\ panel = "none" /\ chains = << >>

-----------------------------------------------------------------------------
(* Navigation and buttons.                                                  *)

\* navigateTo and dispatchHash; the same hash is dispatched again.
Navigate(p) == hash' = p /\ Show(p)

navigateTo ==
  /\ \E p \in session : Navigate(p)
  /\ UNCHANGED <<session, writes, musicMode, musicListItems, musicListOffset, searchQuery,
                 imported, chains>>

\* A pill of the music page.
MusicMode ==
  /\ screen = "music" /\ "music" \in session
  /\ musicMode' \in MusicModes
  /\ Show("music")
  /\ UNCHANGED <<navVars, writes, musicListItems, musicListOffset, searchQuery, imported,
                 chains>>

\* LOAD MORE, which is there while the list is not complete.
LoadMore ==
  /\ screen = "music" /\ "music" \in session /\ Len(musicListItems) < MaxPages
  /\ renderLoading /\ NoSearch
  /\ loads' = Append(loads, Load("music", TRUE)) /\ Len(loads') <= MaxLoads
  /\ crossed' = (crossed \/ Overlaps)
  /\ UNCHANGED <<navVars, writes, musicMode, musicListItems, musicListOffset, searchQuery,
                 imported, chains>>

\* A pill or a row of another page, which calls for that page again without going to
\* it: if a late load has painted the page over another tab, that tab stays active.
Reopen ==
  /\ screen \in {"audiobooks", "podcasts", "radio"} \cup Settings
  /\ Show(screen)
  /\ UNCHANGED <<navVars, writes, musicMode, musicListItems, musicListOffset, searchQuery,
                 imported, chains>>

\* refreshActiveView, at the end of a scan: the tab's own page, whatever is open.
RefreshActiveView ==
  /\ Show(TabOf(hash))
  /\ UNCHANGED <<navVars, writes, musicMode, musicListItems, musicListOffset, searchQuery,
                 imported, chains>>

\* renderRadio(true): a poll, or what follows a button, asks again without a word.
RefreshRadio ==
  /\ "radio" \in session
  /\ loads' = Append(loads, Load("radio", FALSE)) /\ Len(loads') <= MaxLoads
  /\ UNCHANGED <<navVars, screen, writes, musicVars, searchQuery, searchVars, imported,
                 importVars>>

\* A button or a form of the page that writes something.
Write ==
  /\ screen \in Pages \ {"explo", "music/artist", "audiobooks/author", "audiobooks/series"}
  /\ writes' = writes \cup {screen} /\ Cardinality(writes') <= 1
  /\ UNCHANGED <<navVars, screen, loads, musicVars, searchQuery, searchVars, imported,
                 importVars>>

Stays == UNCHANGED <<screen, loads, crossed, searchVars, panel>>

\* viewSettings, with the mode chosen by now, on whichever tab.
viewSettings(p) == Show(IF hash \in Settings THEN hash ELSE p)

\* bindSettingsForms: a library, a station, a feed or a key is added, or a connection
\* made.
bindSettingsForms(p) == p \in Settings \ {"settings/explo"} /\ viewSettings(p)

\* The same: Explo is set up or switched off, or told to go over its tracks again.
ExploForm(p) == p = "settings/explo" /\ (viewSettings(p) \/ Stays)

\* The same: the profile is saved, or a token is issued and shown.
ProfileForm(p) == p = "settings/account" /\ Stays

\* The same: a user is created.
UserForm(p) == p = "users" /\ Show(p)

\* delete-library, remove-missing-file, remove-all-missing-files.
LibraryButton(p) == p = "settings/libraries" /\ viewSettings(p)

\* fetch-artist-images, also on the home page: the settings of the libraries, or their
\* panel of the job alone if they are what is shown.
ArtistImages(p) ==
  /\ p \in {"home", "settings/libraries"}
  /\ IF hash = "settings/libraries" THEN Stays ELSE Show("settings/libraries")

\* revoke-token, and the buttons of Last.fm and ListenBrainz.
AccountButton(p) == p = "settings/account" /\ (viewSettings(p) \/ Stays)

\* The buttons of the stations, on the radio tab and in its settings: add one or probe
\* all; probe, toggle or delete one, which only the radio tab shows at once.
StationButton(p) ==
  /\ p \in {"radio", "settings/radio"}
  /\ \/ IF hash \in Settings THEN viewSettings(p) ELSE Show("radio")
     \/ IF hash = "radio" THEN Show("radio") ELSE Stays

\* The buttons of the podcasts: the show they are on is opened again; without one it is
\* the list while the tab is still there, and the settings otherwise.
PodcastButton(p) ==
  \/ p = "podcasts/show" /\ Show(p)
  \/ /\ p \in {"podcasts", "settings/podcasts"}
     /\ IF TabOf(hash) = "podcasts" THEN Show("podcasts") ELSE viewSettings("settings/podcasts")
  \/ p = "podcasts" /\ (Show(p) \/ Stays)
  \/ p = "settings/podcasts" /\ viewSettings(p)

\* The pages with a trackList, and so with its buttons.
WithTracks == {"music", "music/album", "search"}

\* toggle-playback: the music page anew if the tab is still "music", the search again
\* if it is "search" and its field is there.
AfterPlaybackToggle(p) ==
  /\ p \in WithTracks
  /\ \/ TabOf(hash) = "music" /\ Show("music")
     \/ TabOf(hash) # "music" /\ ~(hash = "search" /\ screen = "search") /\ Stays
     \/ /\ hash = "search" /\ screen = "search"
        /\ results' = IF searchQuery = "" THEN "" ELSE "querying"
        /\ searches' = searches \cup ({searchQuery} \ {""})
        /\ raced' = (searches # {})
        /\ UNCHANGED <<screen, loads, crossed, debounce, panel>>

\* deleteCatalogItem: an album, an audiobook or a show is gone, and its tab is shown.
deleteCatalogItem(p) ==
  \/ p = "music/album" /\ Navigate("music")
  \/ p = "audiobooks/item" /\ Navigate("audiobooks")
  \/ p = "podcasts/show" /\ Navigate("podcasts")

\* A match is adopted: the item is opened again, on whichever tab.
applyIdentifyCandidate(p) ==
  p \in {"audiobooks/item", "podcasts/show"} /\ Show(p)

\* Where uploadMusicPlaylistCover, uploadPodcastCover, uploadRadioCover and
\* uploadChannelCover put a cover: a playlist, a show, a station or a channel.
WithCover == {"music/playlist", "podcasts/show", "radio"}

\* A cover was uploaded: the page it is of is opened again, the radio only if its tab is
\* still open.
CoverUploaded(p) ==
  p \in WithCover /\ IF p = "radio" /\ hash # "radio" THEN Stays ELSE Show(p)

\* The buttons of the channels: viewRadio, or renderRadio(true), on whichever tab.
AfterRadioWrite(p) ==
  /\ p = "radio"
  /\ \/ Show(p)
     \/ /\ loads' = Append(loads, Load(p, FALSE)) /\ Len(loads') <= MaxLoads
        /\ UNCHANGED <<screen, crossed, searchVars, panel>>

\* The buttons of a playlist: navigate to it, open it again, or go to the playlists
\* after it was deleted, which their list offers too.
AfterPlaylistWrite(p) ==
  \/ /\ p = "music/playlist"
     /\ \/ Navigate(p) /\ UNCHANGED musicMode
        \/ Show(p) /\ UNCHANGED <<hash, musicMode>>
  \/ p \in {"music", "music/playlist"} /\ Navigate("music") /\ musicMode' = "playlists"

\* playlist-import-keep, playlist-import-retry: the import moves again, and the page is
\* opened again.
AfterImportRetry(p) == p = "music/playlist" /\ Show(p)

\* composerSubmit: a library, a feed, a station or a device is added, or a playlist made
\* or changed.
composerSubmit(p) ==
  \/ p \in {"home", "podcasts", "podcasts/show", "radio"} /\ Show(p) /\ UNCHANGED hash
  \/ /\ p \in {"music", "music/playlist"} /\ "music/playlist" \in session
     /\ Navigate("music/playlist")

\* composerSubmit("playlist-import"), through Explo or not; what it has made is opened.
ImportSubmitted(p) ==
  /\ p = "music" /\ "music/playlist" \in session
  /\ \/ Navigate("music/playlist") /\ imported' \in {imported, TRUE}
     \/ Stays /\ UNCHANGED <<hash, imported>>

\* What a button or a form does once it is answered.
AfterSettingsWrite(p) ==
  bindSettingsForms(p) \/ ExploForm(p) \/ ProfileForm(p) \/ UserForm(p)
    \/ LibraryButton(p) \/ ArtistImages(p) \/ AccountButton(p)
AfterPageWrite(p) ==
  AfterPlaybackToggle(p) \/ StationButton(p) \/ PodcastButton(p)
    \/ applyIdentifyCandidate(p) \/ CoverUploaded(p) \/ AfterRadioWrite(p)

WriteAnswered ==
  /\ \E p \in writes :
       /\ writes' = writes \ {p}
       /\ \/ /\ AfterSettingsWrite(p) \/ AfterPageWrite(p)
             /\ UNCHANGED <<hash, musicMode, imported>>
          \/ /\ deleteCatalogItem(p) \/ composerSubmit(p)
             /\ UNCHANGED <<musicMode, imported>>
          \/ ImportSubmitted(p) /\ UNCHANGED musicMode
          \/ AfterPlaylistWrite(p) /\ UNCHANGED imported
          \/ AfterImportRetry(p) /\ imported' = TRUE /\ UNCHANGED <<hash, musicMode>>
  /\ UNCHANGED <<session, musicListItems, musicListOffset, searchQuery, chains>>

\* It fails: an alert, or a line in the form.
WriteFails ==
  /\ \E p \in writes : writes' = writes \ {p}
  /\ UNCHANGED <<navVars, screen, loads, musicVars, searchQuery, searchVars, imported,
                 importVars>>

-----------------------------------------------------------------------------
(* The answers.                                                             *)

\* a mutant: the offset of the list before is kept.
KeptOffset(i) ==
  LET l == loads[i] IN
  /\ loads' = [loads EXCEPT ![i] = [l EXCEPT !.phase = 2, !.mode = musicMode,
                                             !.at = musicListOffset]]
  /\ musicListItems' = IF l.append THEN musicListItems ELSE << >>
  /\ UNCHANGED musicListOffset

\* The rest of viewMusic, once there is a stream token: the list is emptied unless
\* it is to grow, and its next page is asked for, in the mode of now.
StartOfList(i) ==
  LET l == loads[i]
      at == IF l.append THEN musicListOffset ELSE 0 IN
  /\ loads' = [loads EXCEPT ![i] = [l EXCEPT !.phase = 2, !.mode = musicMode, !.at = at]]
  /\ musicListOffset' = at
  /\ musicListItems' = IF l.append THEN musicListItems ELSE << >>

\* A favourites list is an object of four lists, any other is an array: growing one
\* as the other throws.
IsBucket == musicListItems # << >> /\ musicListItems[1].mode = "favorites"
Grows(l) == ~l.append \/ (l.mode = "favorites") = IsBucket

PaintMusic(l) ==
  LET got == <<[mode |-> l.mode, at |-> l.at]>> IN
  IF Grows(l)
  THEN /\ musicListItems' = IF l.append THEN musicListItems \o got ELSE got
       /\ musicListOffset' = musicListOffset + 1
       /\ Paint("music", "none")
  ELSE renderError /\ UNCHANGED <<musicListItems, musicListOffset>>

\* The rest of openPlaylist: the panel of the import, if there was one and it came, is
\* followed while anything in it moves.
PaintPlaylist(failed) ==
  LET moves == "import" \notin failed /\ imported IN
  /\ \E shown \in CASE moves              -> {"open"}
                   [] "import" \in failed -> {"none"}
                   [] OTHER              -> {"none", "still"} :
       Paint("music/playlist", shown)
  /\ chains' = IF moves THEN Append(chains, "waiting") ELSE chains
  /\ Len(chains') <= MaxChains

\* One phase of a load is answered, with one request failing or none: what several
\* failures do one of them does.
LoadAnswered ==
  /\ \E i \in DOMAIN loads :
       LET l == loads[i]
           phases == Phases(l.page)
           phase  == phases[l.phase] IN
       \E failed \in {{}} \cup {{r} : r \in phase.needs \cup phase.spares} :
         \/ /\ failed \cap phase.needs # {}
            /\ renderError /\ NoSearch
            /\ loads' = RemoveAt(loads, i)
            /\ UNCHANGED <<musicListItems, musicListOffset, chains>>
         \/ /\ failed \cap phase.needs = {} /\ l.phase < Len(phases)
            /\ IF IsMusic(l)
               THEN StartOfList(i)
               ELSE /\ loads' = [loads EXCEPT ![i].phase = 2]
                    /\ UNCHANGED <<musicListItems, musicListOffset>>
            /\ UNCHANGED <<screen, searchVars, importVars>>
         \/ /\ failed \cap phase.needs = {} /\ l.phase = Len(phases)
            /\ loads' = RemoveAt(loads, i) /\ NoSearch
            /\ \/ IsMusic(l) /\ PaintMusic(l) /\ UNCHANGED chains
               \/ /\ l.page = "music/playlist" /\ PaintPlaylist(failed)
                  /\ UNCHANGED <<musicListItems, musicListOffset>>
               \/ /\ l.page \notin {"music", "music/playlist"} /\ Paint(l.page, "none")
                  /\ UNCHANGED <<musicListItems, musicListOffset, chains>>
  /\ UNCHANGED <<navVars, writes, musicMode, crossed, searchQuery, imported>>

-----------------------------------------------------------------------------
(* The search.                                                              *)

Type ==
  /\ screen = "search"
  /\ searchQuery' \in Queries \cup {""}
  /\ debounce' = debounce \cup {"own"}
  /\ UNCHANGED <<navVars, screen, loads, writes, musicVars, results, searches, raced,
                 imported, importVars>>

\* a mutant: a query too short leaves what is there.
SearchLongOnly ==
  IF screen # "search" \/ searchQuery = ""
  THEN UNCHANGED <<results, searches, raced>>
  ELSE /\ results' = "querying"
       /\ searches' = searches \cup {searchQuery}
       /\ raced' = (searches # {})

\* 250 ms after the last key: runSearch, for what is in the field by now, if there
\* still is one.  A query too short is not sent.
runSearch ==
  IF screen # "search"
  THEN UNCHANGED <<results, searches, raced>>
  ELSE /\ results' = IF searchQuery = "" THEN "" ELSE "querying"
       /\ searches' = searches \cup ({searchQuery} \ {""})
       /\ raced' = (searches # {})

DebounceFires ==
  /\ \E t \in debounce : debounce' = debounce \ {t}
  /\ runSearch
  /\ UNCHANGED <<navVars, screen, loads, writes, musicVars, searchQuery, imported, importVars>>

SearchAnswered ==
  /\ \E q \in searches :
       /\ searches' = searches \ {q}
       /\ results' \in {q, "error"}
  /\ UNCHANGED <<navVars, screen, loads, writes, musicVars, searchQuery, debounce, raced,
                 imported, importVars>>

-----------------------------------------------------------------------------
(* The import of a playlist: followPlaylistImport, one chain for each time  *)
(* the page was painted.                                                    *)

\* The server has worked through the import.
ImportEnds ==
  /\ imported /\ imported' = FALSE
  /\ UNCHANGED <<navVars, screen, loads, writes, musicVars, searchQuery, searchVars,
                 importVars>>

ChainFires ==
  /\ \E i \in DOMAIN chains :
       /\ chains[i] = "waiting"
       /\ chains' = IF panel = "none" THEN RemoveAt(chains, i)
                    ELSE [chains EXCEPT ![i] = "asking"]
  /\ UNCHANGED <<navVars, screen, loads, writes, musicVars, searchQuery, searchVars,
                 imported, panel>>

\* a mutant: a request that fails ends the chain.
ChainGivesUp ==
  /\ \E i \in DOMAIN chains :
       /\ chains[i] = "asking"
       /\ \/ chains' = RemoveAt(chains, i) /\ UNCHANGED panel
          \/ /\ panel # "none"
             /\ panel' = IF imported THEN "open" ELSE "still"
             /\ \E next \in {"waiting", "rereading"} :
                  chains' = IF imported THEN [chains EXCEPT ![i] = next]
                            ELSE RemoveAt(chains, i)
  /\ UNCHANGED <<navVars, screen, loads, writes, musicVars, searchQuery, searchVars,
                 imported>>

\* The import's view has come, or has not; the tracks are read again if some have
\* joined, and with nothing left to move the chain ends.
ChainAnswered ==
  /\ \E i \in DOMAIN chains :
       /\ chains[i] = "asking"
       /\ \/ chains' = [chains EXCEPT ![i] = "waiting"] /\ UNCHANGED panel
          \/ panel = "none" /\ chains' = RemoveAt(chains, i) /\ UNCHANGED panel
          \/ /\ panel # "none"
             /\ panel' = IF imported THEN "open" ELSE "still"
             /\ \E next \in {"waiting", "rereading"} :
                  chains' = IF imported THEN [chains EXCEPT ![i] = next]
                            ELSE RemoveAt(chains, i)
  /\ UNCHANGED <<navVars, screen, loads, writes, musicVars, searchQuery, searchVars,
                 imported>>

\* The tracks have come, or have not.
ChainReread ==
  /\ \E i \in DOMAIN chains :
       chains[i] = "rereading" /\ chains' = [chains EXCEPT ![i] = "waiting"]
  /\ UNCHANGED <<navVars, screen, loads, writes, musicVars, searchQuery, searchVars,
                 imported, panel>>

-----------------------------------------------------------------------------
User   == navigateTo \/ MusicMode \/ LoadMore \/ Reopen \/ RefreshActiveView
            \/ RefreshRadio \/ Write \/ Type
Answer == LoadAnswered \/ WriteAnswered \/ WriteFails \/ SearchAnswered
Import == ImportEnds \/ ChainFires \/ ChainAnswered \/ ChainReread

Next == User \/ Answer \/ DebounceFires \/ Import

Spec == Init /\ [][Next]_vars

-----------------------------------------------------------------------------
\* Whatever says that something is loading is waiting for an answer: no failure, and
\* no page painted by somebody else, leaves "loading..." or "querying..." standing.
NothingWaitsInVain ==
  /\ screen = "loading" => loads # << >>
  /\ results = "querying" => searches # {}

\* The list that LOAD MORE grows is the first pages of its mode, each once and in
\* order, and the next page to ask for is the one after them.  Nothing in viewMusic
\* keeps two loads of the list apart, so that is said of loads that did not overlap:
\* it holds again from the next time the list is loaded alone.
MusicListIsWhole ==
  /\ screen = "music" /\ ~Overlaps /\ ~crossed
  => /\ musicListOffset = Len(musicListItems)
     /\ \A n \in DOMAIN musicListItems :
          musicListItems[n] = [mode |-> musicListItems[1].mode, at |-> n - 1]

\* Once nothing is under way the results are those of what is in the field, or an
\* error, unless the last search was sent while another was under way: runSearch
\* does not look which of them it is answered.
SearchShowsItsQuery ==
  screen = "search" /\ searches = {} /\ debounce = {} /\ ~raced
    => results \in {searchQuery, "error"}

\* A panel that shows an import moving will be brought up to date: one of the chains
\* has a timer or a request pending, also after a request has failed.
ImportIsFollowed == panel = "open" => chains # << >>

=============================================================================
