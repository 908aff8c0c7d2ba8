---------------------------- MODULE MCWebDashboard ----------------------------
EXTENDS WebDashboard

\* Every page is in some session: the pages with machinery of their own together,
\* the others with one neighbour they can be confused with; and, for the panel and the
\* player, the pages they live on.
MCSessions ==
  {{"music", "home"}, {"search", "music/album"}}
    \cup {{p, "home"} : p \in Pages \ {"home", "music"}}
    \cup {{"search", "explo"}, {"search", "users"}, {"search"},
          {"music/album"}, {"podcasts/show"}, {"audiobooks/item"}}

MCFinds  == {{"search", "explo"}}
MCWanted == [s \in MCSessions |-> CASE s = {"search"}          -> Songs
                                    [] s = {"search", "users"} -> Albums
                                    [] OTHER -> {}]

\* A track, an episode of which only a sixth may be missing, and a book of two files.
Track   == [kind |-> "music-track", files |-> <<3>>]
Episode == [kind |-> "podcast-episode", files |-> <<7>>]
Book    == [kind |-> "audiobook", files |-> <<4, 3>>]
MCTitles == {Track, Episode, Book}
MCPlayed == [s \in MCSessions |-> CASE s = {"music/album"}     -> {Track}
                                    [] s = {"podcasts/show"}   -> {Episode}
                                    [] s = {"audiobooks/item"} -> {Book}
                                    [] OTHER -> {}]

=============================================================================
