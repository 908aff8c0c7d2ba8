--------------------------- MODULE WebStationProofs ---------------------------
(***************************************************************************)
(* Proofs about the radio tab: for any channels and scenes, any number of  *)
(* loads and tier changes under way, whatever fails and however late it    *)
(* comes.                                                                  *)
(*                                                                         *)
(* Whose plan the editors change and which channel it is sent to are       *)
(* decided at different times, by the load that painted the page and by    *)
(* the button; ReadIsTheirs, EditedIsTheirs, SavedIsTheirs and             *)
(* ServedIsTheirs say where the plan of a channel can be in between.  The  *)
(* last part shows that every step of the tab is a step of WebViews or     *)
(* none.                                                                   *)
(***************************************************************************)
EXTENDS WebStation, SequenceTheorems, FiniteSetTheorems, TLAPS

\* The types, by part.
TabTyped ==
  /\ scene \in Scenes
  /\ tab \in {"radio", "home"}
  /\ activeChannelID \in Channels \cup {None}
  /\ hidden \in BOOLEAN /\ radioPollTimer \in BOOLEAN /\ late \in BOOLEAN

\* A channel's page was painted by a load of that channel.
PageIsOfAChannel ==
  screen.page = "detail" =>
    screen.of \in Channels /\ screen.tier \in Tiers /\ activePlan \in Plans

PageTyped ==
  /\ screen \in [page : Painted \cup {"loading", "error"}, of : Channels \cup {None},
                 tier : Tiers \cup {None}]
  /\ {composer, focused} \subseteq BOOLEAN /\ gesture \in {"none", "picked", "held", "lost"}
  /\ activePlan \in Plans \cup {NoPlan} /\ strayed \in BOOLEAN
  /\ PageIsOfAChannel

\* Only a page of a channel asks for one, and only that is read by the server.
LoadIsOfItsPage(l) ==
  IF l.page = "detail" THEN l.of \in Channels ELSE l.doc = NoDoc

Loads == [page : Painted, of : Channels \cup {None}, doc : Docs \cup {NoDoc}]

LoadsTyped ==
  /\ loads \in Seq(Loads) /\ Len(loads) <= MaxLoads
  /\ \A i \in DOMAIN loads : LoadIsOfItsPage(loads[i])

Saves == [of : Channels, to : Channels \cup {None}, tier : Tiers, before : Tiers,
          landed : BOOLEAN, drawn : BOOLEAN]
RanksTyped == rankSaves \in Seq(Saves) /\ Len(rankSaves) <= MaxSaves

\* What savePlan sends is a plan, and it goes to a channel.
SavedIsAPlan == write.by = "plan" => write.to \in Channels /\ write.plan \in Plans

\* A window is posted while the show still needs one.
WindowIsNeeded == write.by = "window" => show.windows < show.needs

WriteTyped ==
  /\ write \in {NoWrite} \cup [by : {"plan", "channel", "device", "station", "content",
                                     "create", "tier", "source", "window"},
                               to : Channels \cup {None}, plan : Plans \cup {NoPlan}]
  /\ SavedIsAPlan

ShowTyped == show \in [needs : 0 .. 2, windows : 0 .. 2] /\ WindowIsNeeded

\* The plan of a channel, or nobody's.
Theirs(plan, c) == plan.of \in {c, "nobody"}

\* Unless a channel was painted over the one that is open, every copy of a plan is of
\* the channel it was read for, is edited on, will be written to or was.
ReadIsTheirs ==
  ~strayed =>
    \A i \in DOMAIN loads :
      loads[i].doc # NoDoc => Theirs(loads[i].doc.plan, loads[i].of)
EditedIsTheirs == ~strayed /\ screen.page = "detail" => Theirs(activePlan, activeChannelID)
SavedIsTheirs  == ~strayed /\ write.by = "plan" => Theirs(write.plan, write.to)
ServedIsTheirs == ~strayed => \A c \in Channels : Theirs(server[c].plan, c)

StationInv ==
  /\ TabTyped /\ PageTyped /\ LoadsTyped /\ RanksTyped /\ WriteTyped /\ ShowTyped
  /\ server \in [Channels -> Docs]
  /\ ReadIsTheirs /\ EditedIsTheirs /\ SavedIsTheirs /\ ServedIsTheirs
  /\ PollingGoesOn

-----------------------------------------------------------------------------
(* Sequences.                                                               *)

\* An element is taken out: the ones after it move up.
LEMMA Removal ==
  ASSUME NEW S, NEW s \in Seq(S), NEW i \in DOMAIN s
  PROVE  /\ RemoveAt(s, i) \in Seq(S)
         /\ Len(RemoveAt(s, i)) = Len(s) - 1
         /\ DOMAIN RemoveAt(s, i) = 1 .. Len(s) - 1
         /\ \A k \in 1 .. Len(s) - 1 : RemoveAt(s, i)[k] = s[IF k < i THEN k ELSE k + 1]
<1> DEFINE front == SubSeq(s, 1, i - 1)
           back  == SubSeq(s, i + 1, Len(s))
<1>1. i \in 1 .. Len(s) /\ Len(s) \in Nat
  OBVIOUS
<1>2. /\ front \in Seq(S) /\ Len(front) = i - 1
      /\ \A k \in 1 .. i - 1 : front[k] = s[k]
  BY <1>1
<1>3. /\ back \in Seq(S) /\ Len(back) = Len(s) - i
      /\ \A k \in 1 .. Len(s) - i : back[k] = s[k + i]
  BY <1>1
<1>4. RemoveAt(s, i) = front \o back
  BY DEF RemoveAt
<1> HIDE DEF front, back
<1>5. /\ front \o back \in Seq(S) /\ Len(front \o back) = Len(s) - 1
  BY <1>1, <1>2, <1>3
<1>6. \A k \in 1 .. Len(s) - 1 : (front \o back)[k] = s[IF k < i THEN k ELSE k + 1]
  <2> SUFFICES ASSUME NEW k \in 1 .. Len(s) - 1
               PROVE  (front \o back)[k] = s[IF k < i THEN k ELSE k + 1]
    OBVIOUS
  <2>1. CASE k < i
    <3>1. (front \o back)[k] = front[k]
      BY <1>1, <1>2, <1>3, <2>1
    <3>2. QED
      BY <1>1, <1>2, <2>1, <3>1
  <2>2. CASE ~(k < i)
    <3>1. (front \o back)[k] = back[k - Len(front)]
      BY <1>1, <1>2, <1>3, <2>2, ConcatProperties
    <3>2. back[k - (i - 1)] = s[k - (i - 1) + i]
      BY <1>1, <1>3, <2>2
    <3>3. k - (i - 1) + i = k + 1
      BY <1>1
    <3>4. QED
      BY <1>2, <2>2, <3>1, <3>2, <3>3
  <2>3. QED
    BY <2>1, <2>2
<1>7. QED
  BY <1>4, <1>5, <1>6

\* An element is changed, or one is appended.
LEMMA Changed ==
  ASSUME NEW S, NEW s \in Seq(S), NEW i \in DOMAIN s, NEW x \in S
  PROVE  /\ [s EXCEPT ![i] = x] \in Seq(S)
         /\ DOMAIN [s EXCEPT ![i] = x] = DOMAIN s
         /\ \A k \in DOMAIN s : [s EXCEPT ![i] = x][k] = IF k = i THEN x ELSE s[k]
OBVIOUS

LEMMA Appended ==
  ASSUME NEW S, NEW s \in Seq(S), NEW x \in S
  PROVE  /\ Append(s, x) \in Seq(S) /\ Append(s, x) # << >>
         /\ DOMAIN Append(s, x) = 1 .. Len(s) + 1 /\ DOMAIN s = 1 .. Len(s)
         /\ \A k \in 1 .. Len(s) + 1 : Append(s, x)[k] = IF k <= Len(s) THEN s[k] ELSE x
OBVIOUS

-----------------------------------------------------------------------------
(* What the actions have in common.                                         *)

\* What a load has read was read before.
NothingRead ==
  \A i \in DOMAIN loads' :
    loads'[i].doc # NoDoc => \E k \in DOMAIN loads : loads'[i] = loads[k]

\* A load of the tab is under way.
RadioLoads == \E i \in DOMAIN loads : loads[i].page \in {"list", "detail"}

LEMMA AskKeeps ==
  ASSUME LoadsTyped, NEW l \in Loads, LoadIsOfItsPage(l), l.doc = NoDoc, Ask(l)
  PROVE  /\ LoadsTyped' /\ NothingRead
         /\ RadioLoads \/ l.page \in {"list", "detail"} => RadioLoads'
<1>1. /\ Append(loads, l) \in Seq(Loads)
      /\ DOMAIN Append(loads, l) = 1 .. Len(loads) + 1 /\ DOMAIN loads = 1 .. Len(loads)
      /\ \A k \in 1 .. Len(loads) + 1 :
           Append(loads, l)[k] = IF k <= Len(loads) THEN loads[k] ELSE l
  BY Appended DEF LoadsTyped
<1>2. loads' = Append(loads, l) /\ Len(loads') <= MaxLoads /\ Len(loads) \in Nat
  BY DEF Ask, LoadsTyped
<1> HIDE DEF Loads, LoadIsOfItsPage
<1>3. \A k \in DOMAIN loads' : loads'[k] = l \/ (k \in DOMAIN loads /\ loads'[k] = loads[k])
  BY <1>1, <1>2
<1>4. LoadsTyped'
  BY <1>1, <1>2, <1>3 DEF LoadsTyped, LoadIsOfItsPage
<1>5. NothingRead
  BY <1>3 DEF NothingRead
<1>6. ASSUME RadioLoads PROVE RadioLoads'
  <2>1. PICK k \in DOMAIN loads : loads[k].page \in {"list", "detail"}
    BY <1>6 DEF RadioLoads
  <2>2. k \in DOMAIN loads' /\ loads'[k] = loads[k]
    BY <1>1, <1>2
  <2>3. QED
    BY <2>1, <2>2 DEF RadioLoads
<1>7. ASSUME l.page \in {"list", "detail"} PROVE RadioLoads'
  <2>1. Len(loads) + 1 \in DOMAIN loads' /\ loads'[Len(loads) + 1] = l
    BY <1>1, <1>2
  <2>2. QED
    BY <1>7, <2>1 DEF RadioLoads
<1>8. QED
  BY <1>4, <1>5, <1>6, <1>7

\* Of the tab's own requests.
LEMMA AskedIsALoad ==
  ASSUME NEW c \in Channels \cup {None}
  PROVE  /\ Asked(c) \in Loads /\ LoadIsOfItsPage(Asked(c)) /\ Asked(c).doc = NoDoc
         /\ Asked(c).page \in {"list", "detail"}
<1>1. c # None => c \in Channels
  OBVIOUS
<1>2. CASE c = None
  BY <1>2 DEF Asked, Loads, LoadIsOfItsPage, Painted
<1>3. CASE c # None
  BY <1>1, <1>3 DEF Asked, Loads, LoadIsOfItsPage, Painted
<1>4. QED
  BY <1>2, <1>3

LEMMA HomeIsALoad ==
  HomePage \in Loads /\ LoadIsOfItsPage(HomePage) /\ HomePage.doc = NoDoc
BY DEF HomePage, Loads, LoadIsOfItsPage, Painted

LEMMA TabAsks ==
  ASSUME LoadsTyped, NEW c \in Channels \cup {None}, Ask(Asked(c))
  PROVE  LoadsTyped' /\ NothingRead /\ RadioLoads'
BY AskKeeps, AskedIsALoad

LEMMA HomeAsks ==
  ASSUME LoadsTyped, Ask(HomePage)
  PROVE  LoadsTyped' /\ NothingRead
BY AskKeeps, HomeIsALoad

LEMMA ReadStays ==
  ASSUME ReadIsTheirs, NothingRead, strayed' = strayed
  PROVE  ReadIsTheirs'
BY DEF ReadIsTheirs, NothingRead

\* The screen is emptied.
LEMMA LoadingKeeps ==
  ASSUME PageTyped, renderLoading, activePlan' \in Plans \cup {NoPlan}, strayed' \in BOOLEAN
  PROVE  PageTyped' /\ EditedIsTheirs' /\ PollingGoesOn'
BY DEF PageTyped, renderLoading, Replace, Page, PageIsOfAChannel, Painted, EditedIsTheirs,
       PollingGoesOn

\* What the server has and what is being saved stay.
LEMMA SavedStays ==
  ASSUME WriteTyped, SavedIsTheirs, write' = write, strayed' = strayed
  PROVE  WriteTyped' /\ SavedIsTheirs'
BY DEF WriteTyped, SavedIsAPlan, SavedIsTheirs

LEMMA ServedStays ==
  ASSUME server \in [Channels -> Docs], ServedIsTheirs, server' = server, strayed' = strayed
  PROVE  (server \in [Channels -> Docs])' /\ ServedIsTheirs'
BY DEF ServedIsTheirs

LEMMA ShowStays == ASSUME ShowTyped, show' = show, write' = write PROVE ShowTyped'
BY DEF ShowTyped, WindowIsNeeded

LEMMA RanksStay == ASSUME RanksTyped, rankSaves' = rankSaves PROVE RanksTyped'
BY DEF RanksTyped

\* The page stays.
LEMMA PageStays ==
  ASSUME PageTyped, EditedIsTheirs, UNCHANGED <<seenVars, planVars, activeChannelID>>
  PROVE  PageTyped' /\ EditedIsTheirs'
BY DEF PageTyped, PageIsOfAChannel, EditedIsTheirs, seenVars, planVars

LEMMA LoadsStay ==
  ASSUME LoadsTyped, ReadIsTheirs, loads' = loads, strayed' = strayed
  PROVE  LoadsTyped' /\ ReadIsTheirs' /\ (RadioLoads => RadioLoads')
BY DEF LoadsTyped, ReadIsTheirs, RadioLoads

\* What the tab is besides its screen and its loads.
Rest == <<rankSaves, write, server, show, strayed>>

RestInv == RanksTyped /\ WriteTyped /\ ShowTyped /\ server \in [Channels -> Docs]
             /\ SavedIsTheirs /\ ServedIsTheirs

LEMMA RestStays == ASSUME RestInv, UNCHANGED Rest PROVE RestInv'
BY SavedStays, ServedStays, ShowStays, RanksStay DEF Rest, RestInv

LEMMA ByParts ==
  /\ StationInv => TabTyped /\ PageTyped /\ LoadsTyped /\ RestInv /\ ReadIsTheirs
                     /\ EditedIsTheirs /\ PollingGoesOn
  /\ TabTyped' /\ PageTyped' /\ LoadsTyped' /\ RestInv' /\ ReadIsTheirs'
       /\ EditedIsTheirs' /\ PollingGoesOn' => StationInv'
BY DEF StationInv, RestInv

\* A step that empties the screen and asks for a page of the tab or another.
LEMMA ViewKeeps ==
  ASSUME PageTyped, LoadsTyped, ReadIsTheirs, renderLoading, UNCHANGED planVars,
         NEW l, Ask(l), l = HomePage \/ \E c \in Channels \cup {None} : l = Asked(c)
  PROVE  PageTyped' /\ LoadsTyped' /\ ReadIsTheirs' /\ EditedIsTheirs' /\ PollingGoesOn'
<1>1. PageTyped' /\ EditedIsTheirs' /\ PollingGoesOn'
  BY LoadingKeeps DEF planVars, PageTyped
<1>2. LoadsTyped' /\ NothingRead
  BY TabAsks, HomeAsks
<1>3. QED
  BY <1>1, <1>2, ReadStays DEF planVars

\* A step that asks for a page of the tab again without a word.
LEMMA RefreshKeeps ==
  ASSUME PageTyped, LoadsTyped, ReadIsTheirs, EditedIsTheirs,
         NEW c \in Channels \cup {None}, refreshRadio(c), UNCHANGED <<planVars, activeChannelID>>
  PROVE  PageTyped' /\ LoadsTyped' /\ ReadIsTheirs' /\ EditedIsTheirs' /\ PollingGoesOn'
<1>1. PageTyped' /\ EditedIsTheirs'
  BY PageStays DEF refreshRadio
<1>2. LoadsTyped' /\ NothingRead /\ RadioLoads'
  BY TabAsks DEF refreshRadio
<1>3. PollingGoesOn'
  BY <1>2 DEF PollingGoesOn, RadioLoads
<1>4. QED
  BY <1>1, <1>2, <1>3, ReadStays DEF planVars

\* A step that leaves the screen and the loads as they are.
LEMMA NothingSeen ==
  ASSUME PageTyped, LoadsTyped, ReadIsTheirs, EditedIsTheirs, PollingGoesOn,
         UNCHANGED <<seenVars, planVars, loads, activeChannelID, tab>>,
         radioPollTimer' = radioPollTimer \/ tab' # "radio" \/ radioPollTimer'
  PROVE  PageTyped' /\ LoadsTyped' /\ ReadIsTheirs' /\ EditedIsTheirs' /\ PollingGoesOn'
<1>1. PageTyped' /\ EditedIsTheirs'
  BY PageStays
<1>2. LoadsTyped' /\ ReadIsTheirs' /\ (RadioLoads => RadioLoads')
  BY LoadsStay DEF planVars
<1>3. PollingGoesOn'
  BY <1>2 DEF PollingGoesOn, RadioLoads, seenVars
<1>4. QED
  BY <1>1, <1>2, <1>3

-----------------------------------------------------------------------------
(* The tabs and the poll.                                                   *)

LEMMA TabKeeps == ASSUME StationInv, Tab PROVE StationInv'
<1> USE DEF planVars, pollVars
<1>1. CASE navigateTo
  <2>1. TabTyped' /\ renderLoading /\ UNCHANGED planVars /\ RestInv'
    BY <1>1, RestStays, ByParts DEF navigateTo, TabTyped, Rest
  <2>2. activeChannelID \in Channels \cup {None}
    BY ByParts DEF TabTyped
  <2>3. QED
    BY <1>1, <2>1, <2>2, ViewKeeps, ByParts DEF navigateTo
<1>2. CASE RefreshActiveView
  <2>1. TabTyped' /\ renderLoading /\ UNCHANGED planVars /\ RestInv'
    BY <1>2, RestStays, ByParts DEF RefreshActiveView, TabTyped, Rest
  <2>2. activeChannelID \in Channels \cup {None}
    BY ByParts DEF TabTyped
  <2>3. QED
    BY <1>2, <2>1, <2>2, ViewKeeps, ByParts DEF RefreshActiveView
<1>3. CASE Hide
  <2>1. TabTyped' /\ RestInv'
    BY <1>3, RestStays, ByParts DEF Hide, TabTyped, Rest
  <2>2. QED
    BY <1>3, <2>1, NothingSeen, ByParts DEF Hide
<1>4. CASE Return
  <2>1. TabTyped' /\ RestInv' /\ activeChannelID \in Channels \cup {None}
    BY <1>4, RestStays, ByParts DEF Return, TabTyped, Rest
  <2>2. CASE refreshRadio(activeChannelID)
    BY <1>4, <2>1, <2>2, RefreshKeeps, ByParts DEF Return
  <2>3. CASE UNCHANGED <<seenVars, loads>>
    BY <1>4, <2>1, <2>3, NothingSeen, ByParts DEF Return
  <2>4. QED
    BY <1>4, <2>2, <2>3 DEF Return
<1>5. QED
  BY <1>1, <1>2, <1>3, <1>4 DEF Tab

LEMMA PollFiresKeeps == ASSUME StationInv, PollFires PROVE StationInv'
<1> USE DEF planVars
<1>1. TabTyped' /\ RestInv' /\ activeChannelID \in Channels \cup {None}
  BY RestStays, ByParts DEF PollFires, TabTyped, Rest
<1>2. CASE refreshRadio(activeChannelID)
  BY <1>1, <1>2, RefreshKeeps, ByParts DEF PollFires
<1>3. CASE UNCHANGED <<seenVars, loads>> /\ (tab # "radio" \/ radioPollTimer')
  BY <1>1, <1>3, NothingSeen, ByParts DEF PollFires
<1>4. QED
  BY <1>2, <1>3 DEF PollFires

LEMMA LateRefreshKeeps == ASSUME StationInv, LateRefresh PROVE StationInv'
<1>1. TabTyped' /\ RestInv' /\ activeChannelID \in Channels \cup {None}
  BY RestStays, ByParts DEF LateRefresh, TabTyped, Rest, planVars
<1>2. QED
  BY <1>1, RefreshKeeps, ByParts DEF LateRefresh, planVars

LEMMA ServerReadsKeeps == ASSUME StationInv, ServerReads PROVE StationInv'
<1> USE DEF planVars, pollVars
<1>1. TabTyped' /\ RestInv'
  BY RestStays, ByParts DEF ServerReads, TabTyped, Rest
<1>2. PageTyped' /\ EditedIsTheirs'
  BY PageStays, ByParts DEF ServerReads
<1>3. PICK i \in DOMAIN loads :
        /\ loads[i].page = "detail" /\ loads[i].doc = NoDoc
        /\ loads' = [loads EXCEPT ![i].doc = server[loads[i].of]]
  BY DEF ServerReads
<1> DEFINE l == loads[i]
           got == [l EXCEPT !.doc = server[l.of]]
<1>4. /\ loads \in Seq(Loads) /\ Len(loads) <= MaxLoads
      /\ \A k \in DOMAIN loads : LoadIsOfItsPage(loads[k])
      /\ server \in [Channels -> Docs]
  BY ByParts DEF LoadsTyped, RestInv
<1>5. l \in Loads /\ LoadIsOfItsPage(l)
  BY <1>4, ElementOfSeq
<1>6. l.of \in Channels /\ server[l.of] \in Docs
  BY <1>3, <1>4, <1>5 DEF LoadIsOfItsPage
<1>7. /\ got \in Loads /\ LoadIsOfItsPage(got)
      /\ got.page = "detail" /\ got.of = l.of /\ got.doc = server[l.of]
  BY <1>3, <1>5, <1>6 DEF Loads, LoadIsOfItsPage
<1>8. loads' = [loads EXCEPT ![i] = got]
  BY <1>3
<1> HIDE DEF got, l, Loads, LoadIsOfItsPage
<1>9. /\ loads' \in Seq(Loads) /\ DOMAIN loads' = DOMAIN loads
      /\ \A k \in DOMAIN loads : loads'[k] = IF k = i THEN got ELSE loads[k]
  BY <1>4, <1>7, <1>8, Changed
<1>10. Len(loads') = Len(loads)
  BY <1>4, <1>8
<1>11. LoadsTyped'
  BY <1>4, <1>7, <1>9, <1>10 DEF LoadsTyped, LoadIsOfItsPage
<1>12. ReadIsTheirs'
  <2> SUFFICES ASSUME ~strayed', NEW k \in DOMAIN loads', loads'[k].doc # NoDoc
               PROVE  Theirs(loads'[k].doc.plan, loads'[k].of)
    BY DEF ReadIsTheirs
  <2>1. ~strayed
    BY DEF ServerReads
  <2>2. CASE k = i
    BY <1>6, <1>7, <1>9, <2>1, <2>2, ByParts DEF RestInv, ServedIsTheirs
  <2>3. CASE k # i
    BY <1>9, <2>1, <2>3, ByParts DEF ReadIsTheirs
  <2>4. QED
    BY <2>2, <2>3
<1>13. PollingGoesOn'
  <2>1. RadioLoads => RadioLoads'
    BY <1>3, <1>7, <1>9 DEF RadioLoads, l
  <2>2. QED
    BY <2>1, ByParts DEF PollingGoesOn, RadioLoads, ServerReads, seenVars
<1>14. QED
  BY <1>1, <1>2, <1>11, <1>12, <1>13, ByParts

\* A load is over: what is left was there.
LEMMA LoadLeaves ==
  ASSUME LoadsTyped, NEW i \in DOMAIN loads, loads' = RemoveAt(loads, i)
  PROVE  /\ LoadsTyped' /\ NothingRead
         /\ loads[i] \in Loads /\ LoadIsOfItsPage(loads[i])
<1>1. loads \in Seq(Loads) /\ Len(loads) <= MaxLoads /\ Len(loads) \in Nat
      /\ DOMAIN loads = 1 .. Len(loads) /\ i \in 1 .. Len(loads)
  BY DEF LoadsTyped
<1>2. /\ loads' \in Seq(Loads) /\ Len(loads') = Len(loads) - 1
      /\ DOMAIN loads' = 1 .. Len(loads) - 1
      /\ \A k \in 1 .. Len(loads) - 1 : loads'[k] = loads[IF k < i THEN k ELSE k + 1]
  BY <1>1, Removal
<1> HIDE DEF Loads, LoadIsOfItsPage
<1>3. \A k \in DOMAIN loads' : \E n \in DOMAIN loads : loads'[k] = loads[n]
  <2> TAKE k \in DOMAIN loads'
  <2>1. (IF k < i THEN k ELSE k + 1) \in DOMAIN loads
    BY <1>1, <1>2
  <2>2. QED
    BY <1>2, <2>1
<1>4. Len(loads') <= MaxLoads
  BY <1>1, <1>2, BoundsAssumption
<1>5. LoadsTyped'
  BY <1>2, <1>3, <1>4 DEF LoadsTyped
<1>6. QED
  BY <1>1, <1>3, <1>5, ElementOfSeq DEF NothingRead, LoadsTyped

\* A sequence is changed element by element.
LEMMA Mapped ==
  ASSUME NEW S, NEW s \in Seq(S), NEW t, DOMAIN t = DOMAIN s,
         t = [n \in DOMAIN s |-> t[n]], \A n \in DOMAIN s : t[n] \in S
  PROVE  t \in Seq(S) /\ Len(t) = Len(s)
<1>1. Len(s) \in Nat /\ DOMAIN s = 1 .. Len(s)
  OBVIOUS
<1>2. t \in [1 .. Len(s) -> S]
  BY <1>1
<1>3. t \in Seq(S)
  BY <1>1, <1>2
<1>4. Len(t) = Len(s)
  BY <1>1, <1>3
<1>5. QED
  BY <1>3, <1>4

\* What a failed save would roll back is no longer drawn.
LEMMA UndrawnStaysTyped ==
  ASSUME RanksTyped,
         rankSaves' = [n \in DOMAIN rankSaves |-> [rankSaves[n] EXCEPT !.drawn = FALSE]]
  PROVE  RanksTyped'
<1>1. \A n \in DOMAIN rankSaves : rankSaves[n] \in Saves
  BY ElementOfSeq DEF RanksTyped
<1>2. \A s \in Saves : [s EXCEPT !.drawn = FALSE] \in Saves
  BY DEF Saves
<1> HIDE DEF Saves
<1>3. \A n \in DOMAIN rankSaves : rankSaves'[n] \in Saves
  BY <1>1, <1>2
<1>4. DOMAIN rankSaves' = DOMAIN rankSaves
  OBVIOUS
<1>5. rankSaves' = [n \in DOMAIN rankSaves |-> rankSaves'[n]]
  OBVIOUS
<1>6. rankSaves' \in Seq(Saves) /\ Len(rankSaves') = Len(rankSaves)
  BY <1>3, <1>4, <1>5, Mapped DEF RanksTyped
<1>7. QED
  BY <1>6 DEF RanksTyped

LEMMA LoadAnsweredKeeps == ASSUME StationInv, LoadAnswered PROVE StationInv'
<1>1. PICK i \in DOMAIN loads :
        /\ loads' = RemoveAt(loads, i)
        /\ \/ ListAnswered(i)
           \/ DetailAnswered(i)
           \/ DetailFails(i)
           \/ HomeAnswered(i)
  BY DEF LoadAnswered
<1>2. UNCHANGED <<scene, tab, activeChannelID, hidden, late, write, server, show>>
  BY DEF LoadAnswered
<1> DEFINE l == loads[i]
<1>3. LoadsTyped' /\ NothingRead /\ l \in Loads /\ LoadIsOfItsPage(l)
  BY <1>1, LoadLeaves, ByParts
<1>4. TabTyped' /\ (screen'.page = "list" \/ screen'.page = "detail" =>
                      (tab = "radio" => radioPollTimer'))
  <2> USE <1>2, ByParts DEF TabTyped, Replace, Page, Painted
  <2>1. CASE ListAnswered(i)
    BY <2>1 DEF ListAnswered, scheduleRadioPoll
  <2>2. CASE DetailAnswered(i)
    BY <2>2 DEF DetailAnswered, scheduleRadioPoll
  <2>3. CASE DetailFails(i)
    BY <2>3 DEF DetailFails, renderError
  <2>4. CASE HomeAnswered(i)
    BY <2>4 DEF HomeAnswered, renderError
  <2>5. QED
    BY <1>1, <2>1, <2>2, <2>3, <2>4
<1>5. PollingGoesOn'
  BY <1>2, <1>4 DEF PollingGoesOn
<1>6. /\ PageTyped' /\ EditedIsTheirs' /\ RanksTyped' /\ (~strayed' => ~strayed)
  <2>1. CASE DetailAnswered(i)
    <3>1. /\ screen' = [page |-> "detail", of |-> l.of, tier |-> l.doc.tier]
          /\ l.page = "detail" /\ l.doc # NoDoc
          /\ activePlan' \in {l.doc.plan, Blank}
          /\ strayed' = (strayed \/ l.of # activeChannelID)
          /\ composer' = FALSE /\ focused' = FALSE
          /\ gesture' = IF gesture = "held" THEN "lost" ELSE gesture
      BY <2>1 DEF DetailAnswered, Replace, Page
    <3>2. l.of \in Channels /\ l.doc \in Docs
      BY <1>3, <3>1 DEF Loads, LoadIsOfItsPage
    <3>3. l.doc.plan \in Plans /\ l.doc.tier \in Tiers /\ Blank \in Plans
      BY <3>2 DEF Docs, Blank, Plans
    <3>4. PageTyped'
      <4>1. screen' \in [page : Painted \cup {"loading", "error"}, of : Channels \cup {None},
                         tier : Tiers \cup {None}]
        BY <3>1, <3>2, <3>3 DEF Painted
      <4>2. activePlan' \in Plans /\ strayed' \in BOOLEAN
        BY <3>1, <3>3, ByParts DEF PageTyped
      <4>3. {composer, focused}' \subseteq BOOLEAN /\ gesture' \in {"none", "picked", "held", "lost"}
        BY <3>1, ByParts DEF PageTyped
      <4>4. PageIsOfAChannel'
        BY <3>1, <3>2, <3>3, <4>2 DEF PageIsOfAChannel
      <4>5. QED
        BY <4>1, <4>2, <4>3, <4>4 DEF PageTyped
    <3>5. EditedIsTheirs'
      <4> SUFFICES ASSUME ~strayed' PROVE Theirs(activePlan', activeChannelID')
        BY DEF EditedIsTheirs
      <4>1. ~strayed /\ l.of = activeChannelID /\ activeChannelID' = activeChannelID
        BY <1>2, <3>1
      <4>2. Theirs(l.doc.plan, l.of)
        BY <3>1, <4>1, ByParts DEF ReadIsTheirs
      <4>3. Theirs(Blank, l.of)
        BY DEF Theirs, Blank
      <4>4. QED
        BY <3>1, <4>1, <4>2, <4>3
    <3>6. RanksTyped'
      BY <2>1, UndrawnStaysTyped, ByParts DEF DetailAnswered, RestInv
    <3>7. QED
      BY <3>1, <3>4, <3>5, <3>6
  <2>2. CASE ListAnswered(i) \/ DetailFails(i) \/ HomeAnswered(i)
    <3>1. /\ \/ Replace(Page("list", None, None)) \/ Replace(Page("error", None, None))
             \/ Replace(Page("home", None, None))
          /\ UNCHANGED <<planVars, rankSaves>>
      BY <2>2 DEF ListAnswered, DetailFails, HomeAnswered, renderError
    <3>2. PageTyped' /\ EditedIsTheirs'
      <4>1. \E p \in {"list", "error", "home"} : screen' = [page |-> p, of |-> None, tier |-> None]
        BY <3>1 DEF Replace, Page
      <4>2. /\ composer' = FALSE /\ focused' = FALSE
            /\ gesture' = IF gesture = "held" THEN "lost" ELSE gesture
        BY <3>1 DEF Replace
      <4>3. screen'.page # "detail"
        BY <4>1
      <4>4. screen' \in [page : Painted \cup {"loading", "error"}, of : Channels \cup {None},
                         tier : Tiers \cup {None}]
        BY <4>1 DEF Painted
      <4>5. PageTyped'
        BY <3>1, <4>2, <4>3, <4>4, ByParts DEF PageTyped, PageIsOfAChannel, planVars
      <4>6. QED
        BY <4>3, <4>5 DEF EditedIsTheirs
    <3>3. RanksTyped' /\ strayed' = strayed
      BY <3>1, RanksStay, ByParts DEF RestInv, planVars
    <3>4. QED
      BY <3>2, <3>3
  <2>3. QED
    BY <1>1, <2>1, <2>2
<1>7. ReadIsTheirs'
  BY <1>3, <1>6, ByParts DEF ReadIsTheirs, NothingRead
<1>8. /\ WriteTyped' /\ ShowTyped' /\ server' \in [Channels -> Docs]
      /\ SavedIsTheirs' /\ ServedIsTheirs'
  BY <1>2, <1>6, ByParts, ShowStays DEF RestInv, WriteTyped, SavedIsAPlan, SavedIsTheirs,
         ServedIsTheirs
<1>9. QED
  BY <1>3, <1>4, <1>5, <1>6, <1>7, <1>8, ByParts DEF RestInv

-----------------------------------------------------------------------------
(* The page of a channel, and the buttons.                                  *)

\* What is sent is neither a plan nor a window.
LEMMA SentKeeps ==
  ASSUME RestInv, NEW by \in {"channel", "device", "station", "content", "create", "tier", "source"},
         NEW c \in Channels \cup {None}, Send(by, c, NoPlan),
         UNCHANGED <<rankSaves, server, show, strayed>>
  PROVE  RestInv'
<1>1. write' = [by |-> by, to |-> c, plan |-> NoPlan]
  BY DEF Send
<1>2. WriteTyped' /\ SavedIsTheirs'
  BY <1>1 DEF WriteTyped, SavedIsAPlan, SavedIsTheirs
<1>3. ShowTyped'
  BY <1>1 DEF ShowTyped, WindowIsNeeded, RestInv
<1>4. QED
  BY <1>2, <1>3, RanksStay, ServedStays DEF RestInv

LEMMA OpenChannelKeeps == ASSUME StationInv, OpenChannel PROVE StationInv'
<1> USE DEF planVars, pollVars
<1>1. activeChannelID' \in Channels \cup {None}
  BY ScenesAssumption, ByParts DEF OpenChannel, TabTyped
<1>2. TabTyped' /\ RestInv'
  BY <1>1, RestStays, ByParts DEF OpenChannel, TabTyped, Rest
<1>3. QED
  BY <1>1, <1>2, ViewKeeps, ByParts DEF OpenChannel, viewRadio

LEMMA ChannelSectionKeeps == ASSUME StationInv, ChannelSection PROVE StationInv'
<1> USE DEF planVars, pollVars
<1>1. TabTyped' /\ RestInv' /\ activeChannelID \in Channels \cup {None}
  BY RestStays, ByParts DEF ChannelSection, TabTyped, Rest
<1>2. PageTyped' /\ EditedIsTheirs' /\ PollingGoesOn'
  BY ByParts DEF ChannelSection, PageTyped, Page, PageIsOfAChannel, EditedIsTheirs, PollingGoesOn
<1>3. LoadsTyped' /\ NothingRead
  BY <1>1, TabAsks, ByParts DEF ChannelSection
<1>4. QED
  BY <1>1, <1>2, <1>3, ReadStays, ByParts DEF ChannelSection

LEMMA ComposerKeeps == ASSUME StationInv, toggleComposer PROVE StationInv'
<1> USE DEF planVars, pollVars
<1>1. TabTyped' /\ RestInv'
  BY RestStays, ByParts DEF toggleComposer, TabTyped, Rest
<1>2. PageTyped' /\ EditedIsTheirs'
  BY ByParts DEF toggleComposer, PageTyped, PageIsOfAChannel, EditedIsTheirs
<1>3. LoadsTyped' /\ ReadIsTheirs'
  BY LoadsStay, ByParts DEF toggleComposer
<1>4. PollingGoesOn'
  BY ByParts DEF toggleComposer, PollingGoesOn
<1>5. QED
  BY <1>1, <1>2, <1>3, <1>4, ByParts

LEMMA FocusKeeps == ASSUME StationInv, FocusControl PROVE StationInv'
<1> USE DEF planVars, pollVars
<1>1. TabTyped' /\ RestInv'
  BY RestStays, ByParts DEF FocusControl, TabTyped, Rest
<1>2. PageTyped' /\ EditedIsTheirs'
  BY ByParts DEF FocusControl, PageTyped, PageIsOfAChannel, EditedIsTheirs
<1>3. LoadsTyped' /\ ReadIsTheirs'
  BY LoadsStay, ByParts DEF FocusControl
<1>4. PollingGoesOn'
  BY ByParts DEF FocusControl, PollingGoesOn
<1>5. QED
  BY <1>1, <1>2, <1>3, <1>4, ByParts

LEMMA PressKeeps == ASSUME StationInv, PressButton PROVE StationInv'
<1>1. TabTyped'
  BY ByParts DEF PressButton, TabTyped, pollVars
<1>2. PICK by \in {"channel", "device", "station", "content", "create"} : Send(by, None, NoPlan)
  BY DEF PressButton
<1>3. RestInv'
  BY <1>2, SentKeeps, ByParts DEF PressButton, planVars
<1>4. QED
  BY <1>1, <1>3, NothingSeen, ByParts DEF PressButton, pollVars

LEMMA SubmitKeeps == ASSUME StationInv, SubmitShow PROVE StationInv'
<1>1. TabTyped'
  BY ByParts DEF SubmitShow, TabTyped, pollVars
<1>2. screen.of \in Channels
  BY ByParts DEF SubmitShow, PageTyped, PageIsOfAChannel
<1>3. RestInv'
  BY <1>2, SentKeeps, ByParts DEF SubmitShow, planVars
<1>4. QED
  BY <1>1, <1>3, NothingSeen, ByParts DEF SubmitShow, pollVars

LEMMA SaveSourceKeeps == ASSUME StationInv, SaveSource PROVE StationInv'
<1>1. TabTyped'
  BY ByParts DEF SaveSource, TabTyped, pollVars
<1>2. screen.of \in Channels
  BY ByParts DEF SaveSource, PageTyped, PageIsOfAChannel
<1>3. RestInv'
  BY <1>2, SentKeeps, ByParts DEF SaveSource, planVars
<1>4. QED
  BY <1>1, <1>3, NothingSeen, ByParts DEF SaveSource, pollVars

\* A plan of the channel it is sent to goes to the server.
LEMMA PlanSentKeeps ==
  ASSUME RestInv, NEW c \in Channels, NEW plan \in Plans, Send("plan", c, plan),
         ~strayed => Theirs(plan, c), UNCHANGED <<rankSaves, server, show, strayed>>
  PROVE  RestInv'
<1>1. write' = [by |-> "plan", to |-> c, plan |-> plan]
  BY DEF Send
<1>2. WriteTyped'
  BY <1>1 DEF WriteTyped, SavedIsAPlan
<1>3. SavedIsTheirs'
  BY <1>1 DEF SavedIsTheirs
<1>4. ShowTyped'
  BY <1>1 DEF ShowTyped, WindowIsNeeded, RestInv
<1>5. QED
  BY <1>2, <1>3, <1>4, RanksStay, ServedStays DEF RestInv

LEMMA ResetKeeps == ASSUME StationInv, ResetPlan PROVE StationInv'
<1> DEFINE plan == [of |-> screen.of, edited |-> FALSE]
<1>1. TabTyped'
  BY ByParts DEF ResetPlan, TabTyped, pollVars
<1>2. screen.of \in Channels
  BY ByParts DEF ResetPlan, PageTyped, PageIsOfAChannel
<1>3. plan \in Plans /\ Theirs(plan, screen.of)
  BY <1>2 DEF Plans, Theirs
<1>4. RestInv'
  BY <1>2, <1>3, PlanSentKeeps, ByParts DEF ResetPlan, planVars
<1>5. QED
  BY <1>1, <1>4, NothingSeen, ByParts DEF ResetPlan, pollVars

\* An edit changes what a plan says and not whose it is.
LEMMA EditedPlan ==
  ASSUME NEW plan \in Plans
  PROVE  /\ readBlockForm(plan) \in Plans /\ readBlockForm(plan).of = plan.of
BY DEF readBlockForm, Plans

\* The editors change the plan of the page that is on the screen.
LEMMA EditKeeps ==
  ASSUME PageTyped, EditedIsTheirs, screen.page = "detail",
         activePlan' = readBlockForm(activePlan),
         UNCHANGED <<seenVars, activeChannelID, strayed>>
  PROVE  /\ PageTyped' /\ EditedIsTheirs' /\ activePlan' \in Plans
         /\ ~strayed => Theirs(activePlan', activeChannelID)
<1>1. activePlan \in Plans /\ screen.of \in Channels /\ screen.tier \in Tiers
  BY DEF PageTyped, PageIsOfAChannel
<1>2. activePlan' \in Plans /\ activePlan'.of = activePlan.of
  BY <1>1, EditedPlan
<1>3. PageTyped'
  BY <1>1, <1>2 DEF PageTyped, PageIsOfAChannel, seenVars
<1>4. ~strayed => Theirs(activePlan', activeChannelID)
  BY <1>2 DEF EditedIsTheirs, Theirs
<1>5. EditedIsTheirs'
  BY <1>4 DEF EditedIsTheirs
<1>6. QED
  BY <1>2, <1>3, <1>4, <1>5

\* A step that leaves the screen and the loads, but not the plan on the screen.
LEMMA LoadsAndPollStay ==
  ASSUME LoadsTyped, ReadIsTheirs, PollingGoesOn,
         UNCHANGED <<seenVars, loads, tab, radioPollTimer, strayed>>
  PROVE  LoadsTyped' /\ ReadIsTheirs' /\ PollingGoesOn'
BY LoadsStay DEF PollingGoesOn, seenVars

LEMMA EditPlanKeeps == ASSUME StationInv, EditPlan PROVE StationInv'
<1>1. TabTyped'
  BY ByParts DEF EditPlan, TabTyped, pollVars
<1>2. /\ PageTyped' /\ EditedIsTheirs' /\ activePlan' \in Plans
      /\ ~strayed => Theirs(activePlan', activeChannelID)
  BY EditKeeps, ByParts DEF EditPlan
<1>3. LoadsTyped' /\ ReadIsTheirs' /\ PollingGoesOn'
  BY LoadsAndPollStay, ByParts DEF EditPlan, pollVars
<1>4. RestInv'
  <2>1. CASE UNCHANGED write
    BY <2>1, RestStays, ByParts DEF EditPlan, Rest
  <2>2. CASE activeChannelID # None /\ Send("plan", activeChannelID, activePlan')
    <3>1. activeChannelID \in Channels
      BY <2>2, ByParts DEF TabTyped
    <3>2. QED
      BY <1>2, <2>2, <3>1, PlanSentKeeps, ByParts DEF EditPlan
  <2>3. QED
    BY <2>1, <2>2 DEF EditPlan, savePlan
<1>5. QED
  BY <1>1, <1>2, <1>3, <1>4, ByParts

LEMMA DeclineKeeps == ASSUME StationInv, DeclineRepair PROVE StationInv'
<1>1. TabTyped' /\ RestInv'
  BY RestStays, ByParts DEF DeclineRepair, TabTyped, pollVars, Rest
<1>2. PageTyped' /\ EditedIsTheirs'
  BY EditKeeps, ByParts DEF DeclineRepair
<1>3. LoadsTyped' /\ ReadIsTheirs' /\ PollingGoesOn'
  BY LoadsAndPollStay, ByParts DEF DeclineRepair, pollVars
<1>4. QED
  BY <1>1, <1>2, <1>3, ByParts

-----------------------------------------------------------------------------
(* The answers to the buttons.                                              *)

\* What the answers leave alone.
Elsewhere == <<scene, tab, hidden, radioPollTimer, planVars, rankSaves>>

\* What the page does after an answer: it is emptied and loaded again, for the channel
\* that is open or opened now, or asked for again, now or later, or left.
Reacts ==
  \/ /\ viewRadio(activeChannelID')
     /\ activeChannelID' \in Channels \cup {None} /\ late' = late
  \/ refreshRadio(activeChannelID) /\ UNCHANGED <<activeChannelID, late>>
  \/ UNCHANGED <<activeChannelID, seenVars, loads>> /\ late' \in BOOLEAN

LEMMA ReactionKeeps ==
  ASSUME StationInv, UNCHANGED Elsewhere, Reacts
  PROVE  TabTyped' /\ PageTyped' /\ LoadsTyped' /\ ReadIsTheirs' /\ EditedIsTheirs'
           /\ PollingGoesOn'
<1> USE DEF Elsewhere
<1>1. TabTyped'
  BY ByParts DEF TabTyped, Reacts
<1>2. CASE /\ viewRadio(activeChannelID')
           /\ activeChannelID' \in Channels \cup {None} /\ late' = late
  BY <1>1, <1>2, ViewKeeps, ByParts DEF viewRadio
<1>3. CASE refreshRadio(activeChannelID) /\ UNCHANGED <<activeChannelID, late>>
  BY <1>1, <1>3, RefreshKeeps, ByParts DEF TabTyped
<1>4. CASE UNCHANGED <<activeChannelID, seenVars, loads>> /\ late' \in BOOLEAN
  BY <1>1, <1>4, NothingSeen, ByParts
<1>5. QED
  BY <1>2, <1>3, <1>4 DEF Reacts

LEMMA ButtonReacts == ASSUME StationInv, ButtonDone PROVE Reacts
<1>1. activeChannelID \in Channels \cup {None} /\ late \in BOOLEAN /\ scene \in Scenes
  BY ByParts DEF TabTyped
<1> USE <1>1 DEF Reacts, viewsAgain, refreshesAgain, refreshesLater, Stays
<1>2. CASE ChannelButtonDone
  BY <1>2 DEF ChannelButtonDone
<1>3. CASE SkipDone
  BY <1>3 DEF SkipDone
<1>4. CASE SourceButtonDone
  BY <1>4 DEF SourceButtonDone
<1>5. CASE DeviceButtonDone
  BY <1>5 DEF DeviceButtonDone
<1>6. CASE DeviceSettingDone
  BY <1>6 DEF DeviceSettingDone
<1>7. CASE StationDone
  BY <1>7 DEF StationDone
<1>8. CASE ContentAdded
  BY <1>8 DEF ContentAdded
<1>9. CASE ChannelCreated
  BY <1>9, ScenesAssumption DEF ChannelCreated
<1>10. QED
  BY <1>2, <1>3, <1>4, <1>5, <1>6, <1>7, <1>8, <1>9 DEF ButtonDone

\* The request is answered, or lost.
LEMMA AnsweredKeeps ==
  ASSUME RestInv, write' = NoWrite, UNCHANGED <<rankSaves, server, show, strayed>>
  PROVE  RestInv'
<1>1. WriteTyped' /\ SavedIsTheirs' /\ ShowTyped'
  BY DEF RestInv, WriteTyped, SavedIsAPlan, SavedIsTheirs, ShowTyped, WindowIsNeeded, NoWrite
<1>2. QED
  BY <1>1, RanksStay, ServedStays DEF RestInv

\* The server writes the plan it was sent.
LEMMA PlanLands ==
  ASSUME RestInv, write.by = "plan", server' = [server EXCEPT ![write.to].plan = write.plan],
         write' = NoWrite, UNCHANGED <<rankSaves, show, strayed>>
  PROVE  RestInv'
<1>1. write.to \in Channels /\ write.plan \in Plans /\ server \in [Channels -> Docs]
  BY DEF RestInv, WriteTyped, SavedIsAPlan
<1> DEFINE doc == [server[write.to] EXCEPT !.plan = write.plan]
<1>2. doc \in Docs /\ doc.plan = write.plan
  BY <1>1 DEF Docs
<1>3. server' = [server EXCEPT ![write.to] = doc]
  OBVIOUS
<1> HIDE DEF doc
<1>4. server' \in [Channels -> Docs]
  BY <1>1, <1>2, <1>3
<1>5. ServedIsTheirs'
  <2> SUFFICES ASSUME ~strayed', NEW c \in Channels PROVE Theirs(server'[c].plan, c)
    BY DEF ServedIsTheirs
  <2>1. CASE c = write.to
    BY <1>1, <1>2, <1>3, <2>1 DEF RestInv, SavedIsTheirs
  <2>2. CASE c # write.to
    BY <1>1, <1>3, <2>2 DEF RestInv, ServedIsTheirs
  <2>3. QED
    BY <2>1, <2>2
<1>6. WriteTyped' /\ SavedIsTheirs' /\ ShowTyped'
  BY DEF RestInv, WriteTyped, SavedIsAPlan, SavedIsTheirs, ShowTyped, WindowIsNeeded, NoWrite
<1>7. QED
  BY <1>4, <1>5, <1>6, RanksStay DEF RestInv

\* The server writes what the form says of a source.
LEMMA TierLands ==
  ASSUME RestInv, NEW c \in Channels, NEW tier \in Tiers,
         server' = [server EXCEPT ![c].tier = tier],
         write' = NoWrite, UNCHANGED <<rankSaves, show, strayed>>
  PROVE  RestInv'
<1>1. server \in [Channels -> Docs]
  BY DEF RestInv
<1> DEFINE doc == [server[c] EXCEPT !.tier = tier]
<1>2. doc \in Docs /\ doc.plan = server[c].plan
  BY <1>1 DEF Docs
<1>3. server' = [server EXCEPT ![c] = doc]
  OBVIOUS
<1> HIDE DEF doc
<1>4. server' \in [Channels -> Docs] /\ \A d \in Channels : server'[d].plan = server[d].plan
  BY <1>1, <1>2, <1>3
<1>5. ServedIsTheirs'
  BY <1>4 DEF RestInv, ServedIsTheirs
<1>6. WriteTyped' /\ SavedIsTheirs' /\ ShowTyped'
  BY DEF RestInv, WriteTyped, SavedIsAPlan, SavedIsTheirs, ShowTyped, WindowIsNeeded, NoWrite
<1>7. QED
  BY <1>4, <1>5, <1>6, RanksStay DEF RestInv

LEMMA LandedKeeps ==
  ASSUME RestInv, Landed, write' = NoWrite, UNCHANGED <<rankSaves, show, strayed>>
  PROVE  RestInv'
<1>1. CASE write.by = "plan" /\ server' = [server EXCEPT ![write.to].plan = write.plan]
  BY <1>1, PlanLands
<1>2. ASSUME write.by = "tier", write.to # None, NEW tier \in Tiers,
             server' = [server EXCEPT ![write.to].tier = tier]
      PROVE  RestInv'
  <2>1. write.to \in Channels
    BY <1>2 DEF RestInv, WriteTyped, NoWrite
  <2>2. QED
    BY <1>2, <2>1, TierLands
<1>3. QED
  BY <1>1, <1>2 DEF Landed

\* The server has booked the source, or a window of it.
LEMMA BookingKeeps ==
  ASSUME RestInv, show' \in [needs : 0 .. 2, windows : 0 .. 2], UNCHANGED <<rankSaves, server, strayed>>,
         \/ write' = NoWrite
         \/ /\ write.by \in {"source", "window"} /\ write' = [write EXCEPT !.by = "window"]
            /\ show'.windows < show'.needs
  PROVE  RestInv'
<1>1. CASE write' = NoWrite
  <2>1. WriteTyped' /\ SavedIsTheirs' /\ ShowTyped'
    BY <1>1 DEF WriteTyped, SavedIsAPlan, SavedIsTheirs, ShowTyped, WindowIsNeeded, NoWrite
  <2>2. QED
    BY <2>1, RanksStay, ServedStays DEF RestInv
<1>2. CASE /\ write.by \in {"source", "window"} /\ write' = [write EXCEPT !.by = "window"]
           /\ show'.windows < show'.needs
  <2>1. write \in [by : {"plan", "channel", "device", "station", "content", "create",
                         "tier", "source", "window"},
                   to : Channels \cup {None}, plan : Plans \cup {NoPlan}]
    BY <1>2 DEF RestInv, WriteTyped, NoWrite
  <2>2. write' = [by |-> "window", to |-> write.to, plan |-> write.plan]
    BY <1>2, <2>1
  <2>3. WriteTyped'
    BY <2>1, <2>2 DEF WriteTyped, SavedIsAPlan
  <2>4. SavedIsTheirs' /\ ShowTyped'
    BY <1>2, <2>2 DEF SavedIsTheirs, ShowTyped, WindowIsNeeded
  <2>5. QED
    BY <2>3, <2>4, RanksStay, ServedStays DEF RestInv
<1>3. QED
  BY <1>1, <1>2

LEMMA WriteAnsweredKeeps == ASSUME StationInv, WriteAnswered PROVE StationInv'
<1>1. UNCHANGED Elsewhere /\ strayed' = strayed /\ rankSaves' = rankSaves
  BY DEF WriteAnswered, Elsewhere, planVars
<1>2. activeChannelID \in Channels \cup {None} /\ late \in BOOLEAN
  BY ByParts DEF TabTyped
<1>3. RestInv /\ show \in [needs : 0 .. 2, windows : 0 .. 2] /\ WindowIsNeeded
  BY ByParts DEF RestInv, ShowTyped
<1>4. ASSUME Reacts, RestInv' PROVE StationInv'
  BY <1>1, <1>4, ReactionKeeps, ByParts
<1>5. CASE SourcePosted
  <2>1. Reacts
    BY <1>2, <1>5 DEF SourcePosted, Reacts
  <2>2. show'.windows < show'.needs /\ show' \in [needs : 0 .. 2, windows : 0 .. 2]
    BY <1>5 DEF SourcePosted
  <2>3. RestInv'
    BY <1>1, <1>3, <1>5, <2>2, BookingKeeps DEF SourcePosted
  <2>4. QED
    BY <1>4, <2>1, <2>3
<1>6. CASE WindowPosted
  <2>1. Reacts
    BY <1>2, <1>6 DEF WindowPosted, Reacts
  <2>2. show' = [show EXCEPT !.windows = show.windows + 1] /\ show.windows < show.needs
    BY <1>3, <1>6 DEF WindowPosted, WindowIsNeeded
  <2>3. show' \in [needs : 0 .. 2, windows : 0 .. 2]
    BY <1>3, <2>2
  <2>4. CASE write' = NoWrite
    BY <1>1, <1>3, <1>4, <1>6, <2>1, <2>3, <2>4, BookingKeeps DEF WindowPosted
  <2>5. CASE show'.windows < show'.needs /\ write' = write
    <3>1. WriteTyped'
      BY <1>3, <2>5 DEF RestInv, WriteTyped, SavedIsAPlan
    <3>2. SavedIsTheirs' /\ ShowTyped'
      BY <1>1, <1>3, <2>3, <2>5 DEF RestInv, SavedIsTheirs, ShowTyped, WindowIsNeeded
    <3>3. RestInv'
      BY <1>1, <1>3, <1>6, <3>1, <3>2, RanksStay, ServedStays DEF RestInv, WindowPosted
    <3>4. QED
      BY <1>4, <2>1, <3>3
  <2>6. QED
    BY <1>6, <2>4, <2>5 DEF WindowPosted
<1>7. CASE PlanSaved
  <2>1. Reacts
    BY <1>2, <1>7 DEF PlanSaved, Reacts
  <2>2. RestInv'
    BY <1>1, <1>3, <1>7, LandedKeeps DEF PlanSaved
  <2>3. QED
    BY <1>4, <2>1, <2>2
<1>8. CASE ButtonDone
  <2>1. Reacts
    BY <1>8, ButtonReacts
  <2>2. RestInv'
    BY <1>1, <1>3, <1>8, AnsweredKeeps DEF ButtonDone
  <2>3. QED
    BY <1>4, <2>1, <2>2
<1>9. CASE WriteFails
  <2>1. Reacts
    BY <1>2, <1>9 DEF WriteFails, Reacts
  <2>2. CASE UNCHANGED server
    BY <1>1, <1>3, <1>4, <1>9, <2>1, <2>2, AnsweredKeeps DEF WriteFails
  <2>3. CASE Landed
    BY <1>1, <1>3, <1>4, <1>9, <2>1, <2>3, LandedKeeps DEF WriteFails
  <2>4. QED
    BY <1>9, <2>2, <2>3 DEF WriteFails
<1>10. QED
  BY <1>5, <1>6, <1>7, <1>8, <1>9 DEF WriteAnswered

LEMMA ButtonsKeep == ASSUME StationInv, Buttons PROVE StationInv'
BY OpenChannelKeeps, ChannelSectionKeeps, ComposerKeeps, FocusKeeps, PressKeeps, EditPlanKeeps,
   ResetKeeps, SaveSourceKeeps, DeclineKeeps, SubmitKeeps, WriteAnsweredKeeps DEF Buttons

-----------------------------------------------------------------------------
(* The tier list.                                                           *)

LEMMA SaveOf ==
  ASSUME RanksTyped, NEW n \in DOMAIN rankSaves
  PROVE  rankSaves[n] \in Saves /\ Len(rankSaves) \in Nat /\ n \in 1 .. Len(rankSaves)
BY ElementOfSeq DEF RanksTyped

\* The card is drawn in a tier, on a page that stays the page it was.
LEMMA CardKeeps ==
  ASSUME PageTyped, EditedIsTheirs, NEW tier \in Tiers, screen' = [screen EXCEPT !.tier = tier],
         UNCHANGED <<composer, focused>>, gesture' \in {"none", "picked", "held", "lost"},
         UNCHANGED <<planVars, activeChannelID>>
  PROVE  PageTyped' /\ EditedIsTheirs' /\ screen'.page = screen.page
<1>1. /\ screen' \in [page : Painted \cup {"loading", "error"}, of : Channels \cup {None},
                      tier : Tiers \cup {None}]
      /\ screen'.page = screen.page /\ screen'.of = screen.of /\ screen'.tier = tier
  BY DEF PageTyped
<1>2. PageTyped'
  BY <1>1 DEF PageTyped, PageIsOfAChannel, planVars
<1>3. QED
  BY <1>1, <1>2 DEF EditedIsTheirs, planVars

LEMMA GestureKeeps == ASSUME StationInv, Gesture PROVE StationInv'
<1>1. TabTyped' /\ RestInv'
  BY RestStays, ByParts DEF Gesture, TabTyped, pollVars, planVars, Rest
<1>2. gesture' \in {"none", "picked", "held", "lost"}
  BY DEF Gesture
<1>3. PageTyped' /\ EditedIsTheirs'
  BY <1>2, ByParts DEF Gesture, PageTyped, PageIsOfAChannel, EditedIsTheirs, planVars
<1>4. LoadsTyped' /\ ReadIsTheirs'
  BY LoadsStay, ByParts DEF Gesture, planVars
<1>5. PollingGoesOn'
  BY ByParts DEF Gesture, PollingGoesOn, pollVars
<1>6. QED
  BY <1>1, <1>3, <1>4, <1>5, ByParts

\* A step of the tier list that changes at most the tier that is shown.
LEMMA RankStep ==
  ASSUME StationInv, UNCHANGED <<scene, tab, activeChannelID, hidden, composer, focused, pollVars,
                                 loads, planVars, write, show>>,
         gesture' \in {gesture, "none"},
         screen' = screen \/ \E tier \in Tiers : screen' = [screen EXCEPT !.tier = tier],
         RanksTyped', (server \in [Channels -> Docs])', ServedIsTheirs'
  PROVE  StationInv'
<1>1. TabTyped'
  BY ByParts DEF TabTyped, pollVars
<1>2. RestInv'
  BY SavedStays, ShowStays, ByParts DEF RestInv, planVars
<1>3. gesture' \in {"none", "picked", "held", "lost"}
  BY ByParts DEF PageTyped
<1>4. PageTyped' /\ EditedIsTheirs' /\ screen'.page = screen.page
  <2>1. CASE screen' = screen
    BY <1>3, <2>1, ByParts DEF PageTyped, PageIsOfAChannel, EditedIsTheirs, planVars
  <2>2. ASSUME NEW tier \in Tiers, screen' = [screen EXCEPT !.tier = tier]
        PROVE  PageTyped' /\ EditedIsTheirs' /\ screen'.page = screen.page
    BY <1>3, <2>2, CardKeeps, ByParts
  <2>3. QED
    BY <2>1, <2>2
<1>5. LoadsTyped' /\ ReadIsTheirs'
  BY LoadsStay, ByParts DEF planVars
<1>6. PollingGoesOn'
  BY <1>4, ByParts DEF PollingGoesOn, pollVars
<1>7. QED
  BY <1>1, <1>2, <1>4, <1>5, <1>6, ByParts

LEMMA SetTierKeeps == ASSUME StationInv, setSourceTier PROVE StationInv'
<1>1. PICK tier \in Tiers :
        IF tier = screen.tier
        THEN UNCHANGED <<screen, rankSaves>>
        ELSE /\ screen' = [screen EXCEPT !.tier = tier]
             /\ rankSaves' = Append(rankSaves,
                  [of |-> screen.of, to |-> activeChannelID, tier |-> tier,
                   before |-> screen.tier, landed |-> FALSE, drawn |-> TRUE])
             /\ Len(rankSaves') <= MaxSaves
  BY DEF setSourceTier
<1>2. RanksTyped'
  <2>1. CASE tier = screen.tier
    BY <1>1, <2>1, RanksStay, ByParts DEF RestInv
  <2>2. CASE tier # screen.tier
    <3>1. /\ screen.of \in Channels /\ screen.tier \in Tiers
          /\ activeChannelID \in Channels \cup {None}
      BY ByParts DEF setSourceTier, PageTyped, PageIsOfAChannel, TabTyped
    <3>2. [of |-> screen.of, to |-> activeChannelID, tier |-> tier,
           before |-> screen.tier, landed |-> FALSE, drawn |-> TRUE] \in Saves
      BY <3>1 DEF Saves
    <3> HIDE DEF Saves
    <3>3. QED
      BY <1>1, <2>2, <3>2, Appended, ByParts DEF RestInv, RanksTyped
  <2>3. QED
    BY <2>1, <2>2
<1>3. (server \in [Channels -> Docs])' /\ ServedIsTheirs'
  BY ServedStays, ByParts DEF setSourceTier, RestInv, planVars
<1>4. screen' = screen \/ \E t \in Tiers : screen' = [screen EXCEPT !.tier = t]
  BY <1>1
<1>5. QED
  BY <1>2, <1>3, <1>4, RankStep DEF setSourceTier

LEMMA TierWrittenKeeps == ASSUME StationInv, TierWritten PROVE StationInv'
<1>1. PICK n \in DOMAIN rankSaves :
        /\ server' = [server EXCEPT ![rankSaves[n].of].tier = rankSaves[n].tier]
        /\ rankSaves' = [rankSaves EXCEPT ![n].landed = TRUE]
  BY DEF TierWritten
<1> DEFINE s == rankSaves[n]
           landed == [s EXCEPT !.landed = TRUE]
           doc == [server[s.of] EXCEPT !.tier = s.tier]
<1>2. s \in Saves /\ server \in [Channels -> Docs] /\ rankSaves \in Seq(Saves)
      /\ Len(rankSaves) <= MaxSaves
  BY SaveOf, ByParts DEF RestInv, RanksTyped
<1>3. s.of \in Channels /\ s.tier \in Tiers /\ landed \in Saves
  BY <1>2 DEF Saves
<1>4. doc \in Docs /\ doc.plan = server[s.of].plan
  BY <1>2, <1>3 DEF Docs
<1>5. server' = [server EXCEPT ![s.of] = doc] /\ rankSaves' = [rankSaves EXCEPT ![n] = landed]
  BY <1>1
<1> HIDE DEF doc, landed, s, Saves
<1>6. RanksTyped'
  <2>1. rankSaves' \in Seq(Saves)
    BY <1>2, <1>3, <1>5, Changed
  <2>2. Len(rankSaves') = Len(rankSaves)
    BY <1>2, <1>5
  <2>3. QED
    BY <1>2, <2>1, <2>2 DEF RanksTyped
<1>7. server' \in [Channels -> Docs]
  BY <1>2, <1>3, <1>4, <1>5
<1>8. ServedIsTheirs'
  <2> SUFFICES ASSUME ~strayed', NEW c \in Channels PROVE Theirs(server'[c].plan, c)
    BY DEF ServedIsTheirs
  <2>1. Theirs(server[c].plan, c)
    BY ByParts DEF TierWritten, planVars, RestInv, ServedIsTheirs
  <2>2. server'[c].plan = server[c].plan
    BY <1>2, <1>3, <1>4, <1>5
  <2>3. QED
    BY <2>1, <2>2
<1>9. QED
  BY <1>6, <1>7, <1>8, RankStep DEF TierWritten, seenVars

LEMMA TierAnsweredKeeps == ASSUME StationInv, TierAnswered PROVE StationInv'
<1>1. PICK n \in DOMAIN rankSaves :
        /\ rankSaves' = RemoveAt(rankSaves, n)
        /\ \/ UNCHANGED screen
           \/ screen' = IF rankSaves[n].drawn /\ screen.page = "detail"
                        THEN [screen EXCEPT !.tier = rankSaves[n].before] ELSE screen
  BY DEF TierAnswered
<1>2. rankSaves[n] \in Saves /\ Len(rankSaves) \in Nat /\ n \in 1 .. Len(rankSaves)
      /\ rankSaves \in Seq(Saves) /\ Len(rankSaves) <= MaxSaves
  BY SaveOf, ByParts DEF RestInv, RanksTyped
<1>3. rankSaves[n].before \in Tiers
  BY <1>2 DEF Saves
<1> HIDE DEF Saves
<1>4. rankSaves' \in Seq(Saves) /\ Len(rankSaves') = Len(rankSaves) - 1
  BY <1>1, <1>2, Removal
<1>5. Len(rankSaves') <= MaxSaves
  BY <1>2, <1>4, BoundsAssumption
<1>6. RanksTyped'
  BY <1>4, <1>5 DEF RanksTyped
<1>7. (server \in [Channels -> Docs])' /\ ServedIsTheirs'
  BY ServedStays, ByParts DEF TierAnswered, RestInv, planVars
<1>8. screen' = screen \/ \E t \in Tiers : screen' = [screen EXCEPT !.tier = t]
  BY <1>1, <1>3
<1>9. QED
  BY <1>6, <1>7, <1>8, RankStep DEF TierAnswered

-----------------------------------------------------------------------------
(* The theorems.                                                            *)

LEMMA StationInit == Init => StationInv
<1> SUFFICES ASSUME Init PROVE StationInv
  OBVIOUS
<1>1. TabTyped
  BY DEF Init, TabTyped
<1>2. PageTyped /\ EditedIsTheirs /\ PollingGoesOn
  BY DEF Init, PageTyped, PageIsOfAChannel, EditedIsTheirs, PollingGoesOn, Page
<1>3. LoadsTyped /\ ReadIsTheirs
  <2>1. Asked(None) \in Loads /\ LoadIsOfItsPage(Asked(None)) /\ Asked(None).doc = NoDoc
    BY AskedIsALoad
  <2>2. loads = <<Asked(None)>>
    BY DEF Init
  <2> HIDE DEF Loads, LoadIsOfItsPage
  <2>3. /\ loads \in Seq(Loads) /\ Len(loads) = 1
        /\ \A k \in DOMAIN loads : loads[k] = Asked(None)
    BY <2>1, <2>2
  <2>4. QED
    BY <2>1, <2>3, BoundsAssumption DEF LoadsTyped, ReadIsTheirs
<1>4. RanksTyped
  BY BoundsAssumption DEF Init, RanksTyped
<1>5. WriteTyped /\ SavedIsTheirs /\ ShowTyped
  BY DEF Init, WriteTyped, SavedIsAPlan, SavedIsTheirs, ShowTyped, WindowIsNeeded, NoWrite
<1>6. server \in [Channels -> Docs] /\ ServedIsTheirs
  <2>1. \A c \in Channels : [plan |-> [of |-> c, edited |-> FALSE], tier |-> "C"] \in Docs
    BY DEF Docs, Plans, Tiers
  <2>2. QED
    BY <2>1 DEF Init, ServedIsTheirs, Theirs
<1>7. QED
  BY <1>1, <1>2, <1>3, <1>4, <1>5, <1>6 DEF StationInv

LEMMA StationStep == StationInv /\ [Next]_vars => StationInv'
<1> SUFFICES ASSUME StationInv, [Next]_vars PROVE StationInv'
  OBVIOUS
<1>1. CASE Tab
  BY <1>1, TabKeeps
<1>2. CASE Poll
  BY <1>2, PollFiresKeeps, LateRefreshKeeps, ServerReadsKeeps, LoadAnsweredKeeps DEF Poll
<1>3. CASE Buttons
  BY <1>3, ButtonsKeep
<1>4. CASE Rank
  BY <1>4, GestureKeeps, SetTierKeeps, TierWrittenKeeps, TierAnsweredKeeps DEF Rank
<1>5. CASE UNCHANGED vars
  <2>1. UNCHANGED <<scene, tab, activeChannelID, hidden, seenVars, pollVars, loads, planVars,
                    rankSaves, write, server, show>>
    BY <1>5 DEF vars
  <2>2. TabTyped' /\ RestInv'
    BY <2>1, RestStays, ByParts DEF TabTyped, Rest, pollVars, planVars
  <2>3. QED
    BY <2>1, <2>2, NothingSeen, ByParts DEF pollVars
<1>6. QED
  BY <1>1, <1>2, <1>3, <1>4, <1>5 DEF Next

\* The radio tab keeps its types, and knows of every copy of a plan whose it is
\* (renderChannelDetail, savePlan) and of every page what follows it (scheduleRadioPoll).
THEOREM StationInvariant == Spec => []StationInv
BY StationInit, StationStep, PTL DEF Spec

\* Every variable of the radio tab keeps its type: what a late load paints, a failed
\* save rolls back or a form changes is always of the kind the page expects.
THEOREM StationTypes == Spec => []TypeOK
<1>1. StationInv => TypeOK
  BY DEF StationInv, TypeOK, TabTyped, PageTyped, LoadsTyped, RanksTyped, WriteTyped, ShowTyped,
         Loads, Saves
<1>2. QED
  BY <1>1, StationInvariant, PTL

\* The poll of the radio tab goes on: a page of it that is on the screen while the tab
\* is open has a poll pending, or a load under way that ends in one (scheduleRadioPoll,
\* renderRadio).
THEOREM ThePollGoesOn == Spec => []PollingGoesOn
<1>1. StationInv => PollingGoesOn
  BY DEF StationInv
<1>2. QED
  BY <1>1, StationInvariant, PTL

\* savePlan never writes the plan of one channel over that of another, unless a late
\* load has painted a channel over the one that is open.
THEOREM PlansStayWithTheirChannel == Spec => []PlanGoesToItsChannel
<1>1. StationInv => PlanGoesToItsChannel
  BY DEF StationInv, ServedIsTheirs, Theirs, PlanGoesToItsChannel
<1>2. QED
  BY <1>1, StationInvariant, PTL

-----------------------------------------------------------------------------
(* The tab is a page of WebViews.  What a step must do there:                *)

\* The loads as WebViews has them.
PageLoad(l) ==
  [page |-> Kind(l.page), phase |-> 1, append |-> FALSE, mode |-> "none", at |-> 0]
PageLoads(s) == [i \in DOMAIN s |-> PageLoad(s[i])]

PageWrites == IF write = NoWrite THEN {} ELSE {"radio"}

\* Nothing of it is seen there.
LEMMA UnseenStep ==
  ASSUME UNCHANGED <<tab, PageLoads(loads), PageWrites>>, Kind(screen'.page) = Kind(screen.page)
  PROVE  UNCHANGED Views!vars
BY DEF PageLoads, PageLoad, PageWrites, Views!vars, Views!navVars, Views!musicVars,
       Views!searchVars, Views!importVars

LEMMA Images ==
  ASSUME NEW s \in Seq(Loads)
  PROVE  /\ PageLoads(s) \in Seq({PageLoad(l) : l \in Loads})
         /\ Len(PageLoads(s)) = Len(s) /\ DOMAIN PageLoads(s) = DOMAIN s
         /\ Len(s) \in Nat /\ DOMAIN s = 1 .. Len(s)
         /\ \A i \in DOMAIN s : PageLoads(s)[i] = PageLoad(s[i])
<1>1. /\ Len(s) \in Nat /\ DOMAIN s = 1 .. Len(s)
      /\ \A i \in DOMAIN s : s[i] \in Loads
  BY ElementOfSeq
<1> DEFINE Image == {PageLoad(l) : l \in Loads}
<1>2. \A i \in DOMAIN s : PageLoad(s[i]) \in Image
  BY <1>1
<1> HIDE DEF Image, Loads, PageLoad
<1>3. PageLoads(s) \in [1 .. Len(s) -> Image]
  BY <1>1, <1>2 DEF PageLoads
<1>4. PageLoads(s) \in Seq(Image)
  BY <1>1, <1>3
<1>5. Len(PageLoads(s)) = Len(s)
  BY <1>1, <1>3, <1>4
<1>6. QED
  BY <1>1, <1>4, <1>5 DEF PageLoads, Image

LEMMA AsFunction ==
  ASSUME NEW S, NEW q \in Seq(S)
  PROVE  q = [k \in DOMAIN q |-> q[k]]
<1>1. q \in [1 .. Len(q) -> S]
  BY LenProperties
<1>2. QED
  BY <1>1

\* A load that joins or leaves here does so there.
LEMMA ImageOfAppend ==
  ASSUME NEW s \in Seq(Loads), NEW l \in Loads
  PROVE  PageLoads(Append(s, l)) = Append(PageLoads(s), PageLoad(l))
<1> DEFINE Image == {PageLoad(m) : m \in Loads}
           t == Append(s, l)
<1>1. /\ Len(s) \in Nat /\ PageLoads(s) \in Seq(Image) /\ Len(PageLoads(s)) = Len(s)
      /\ DOMAIN s = 1 .. Len(s)
      /\ \A i \in 1 .. Len(s) : PageLoads(s)[i] = PageLoad(s[i])
  BY Images
<1>2. PageLoad(l) \in Image
  OBVIOUS
<1> HIDE DEF Image, Loads, PageLoad
<1>3. /\ t \in Seq(Loads) /\ DOMAIN t = 1 .. Len(s) + 1
      /\ \A k \in 1 .. Len(s) + 1 : t[k] = IF k <= Len(s) THEN s[k] ELSE l
  BY Appended
<1>4. DOMAIN Append(PageLoads(s), PageLoad(l)) = 1 .. Len(s) + 1
      /\ \A k \in 1 .. Len(s) + 1 : Append(PageLoads(s), PageLoad(l))[k] =
           IF k <= Len(s) THEN PageLoads(s)[k] ELSE PageLoad(l)
  BY <1>1, <1>2, Appended
<1>5. DOMAIN PageLoads(t) = 1 .. Len(s) + 1
      /\ \A k \in 1 .. Len(s) + 1 : PageLoads(t)[k] = PageLoad(t[k])
  BY <1>3 DEF PageLoads
<1> HIDE DEF t
<1>6. \A k \in 1 .. Len(s) + 1 :
        PageLoads(t)[k] = Append(PageLoads(s), PageLoad(l))[k]
  BY <1>1, <1>3, <1>4, <1>5
<1>7. PageLoads(t) = [k \in 1 .. Len(s) + 1 |-> PageLoads(t)[k]]
  BY <1>5 DEF PageLoads
<1>8. Append(PageLoads(s), PageLoad(l)) =
        [k \in 1 .. Len(s) + 1 |-> Append(PageLoads(s), PageLoad(l))[k]]
  <2>1. Append(PageLoads(s), PageLoad(l)) \in Seq(Image)
    BY <1>1, <1>2, Appended
  <2>2. QED
    BY <1>4, <2>1, AsFunction
<1>9. PageLoads(t) = Append(PageLoads(s), PageLoad(l))
  BY <1>6, <1>7, <1>8
<1>10. QED
  BY <1>9 DEF t

LEMMA ImageOfRemoval ==
  ASSUME NEW s \in Seq(Loads), NEW i \in DOMAIN s
  PROVE  PageLoads(RemoveAt(s, i)) = RemoveAt(PageLoads(s), i)
<1> DEFINE Image == {PageLoad(m) : m \in Loads}
           t == RemoveAt(s, i)
           u == RemoveAt(PageLoads(s), i)
           n == Len(s) - 1
<1>1. /\ Len(s) \in Nat /\ PageLoads(s) \in Seq(Image) /\ Len(PageLoads(s)) = Len(s)
      /\ DOMAIN s = 1 .. Len(s) /\ DOMAIN PageLoads(s) = DOMAIN s
      /\ \A k \in 1 .. Len(s) : PageLoads(s)[k] = PageLoad(s[k])
  BY Images
<1> HIDE DEF Image, Loads, PageLoad
<1>2. /\ t \in Seq(Loads) /\ DOMAIN t = 1 .. n
      /\ \A k \in 1 .. n : t[k] = s[IF k < i THEN k ELSE k + 1]
  BY Removal
<1>3. /\ u \in Seq(Image) /\ DOMAIN u = 1 .. n
      /\ \A k \in 1 .. n : u[k] = PageLoads(s)[IF k < i THEN k ELSE k + 1]
  BY <1>1, Removal
<1>4. \A k \in 1 .. n : (IF k < i THEN k ELSE k + 1) \in 1 .. Len(s)
  BY <1>1
<1> HIDE DEF t, u, n
<1>5. DOMAIN PageLoads(t) = 1 .. n /\ \A k \in 1 .. n : PageLoads(t)[k] = PageLoad(t[k])
  BY <1>2 DEF PageLoads
<1>6. \A k \in 1 .. n : PageLoads(t)[k] = u[k]
  BY <1>1, <1>2, <1>3, <1>4, <1>5
<1>7. PageLoads(t) = [k \in 1 .. n |-> PageLoads(t)[k]]
  BY <1>5 DEF PageLoads
<1>8. u = [k \in 1 .. n |-> u[k]]
  BY <1>3, AsFunction
<1>9. PageLoads(t) = u
  BY <1>6, <1>7, <1>8
<1>10. QED
  BY <1>9 DEF t, u

\* The page is emptied and asked for, or asked for without a word.
LEMMA ShownThere ==
  ASSUME LoadsTyped, NEW l \in Loads, renderLoading, Ask(l), NEW p, p = Kind(l.page),
         p \in {"radio", "home"}
  PROVE  Views!Show(p)
<1>1. PageLoads(loads') = Append(PageLoads(loads), PageLoad(l))
  BY ImageOfAppend DEF LoadsTyped, Ask
<1>2. Len(PageLoads(loads')) <= MaxLoads
  <2>1. loads' \in Seq(Loads)
    BY Appended DEF LoadsTyped, Ask
  <2>2. QED
    BY <2>1, Images DEF Ask
<1>3. PageLoad(l) = Views!Load(p, FALSE)
  BY DEF PageLoad, Views!Load
<1>4. Kind(screen'.page) = "loading"
  BY DEF renderLoading, Replace, Page, Kind
<1>5. QED
  BY <1>1, <1>2, <1>3, <1>4
     DEF Views!Show, Views!renderLoading, Views!Paint, Views!NoSearch, PageLoads, PageLoad

LEMMA RefreshedThere ==
  ASSUME LoadsTyped, NEW c \in Channels \cup {None}, refreshRadio(c)
  PROVE  /\ PageLoads(loads') = Append(PageLoads(loads), Views!Load("radio", FALSE))
         /\ Len(PageLoads(loads')) <= MaxLoads
<1>1. Asked(c) \in Loads /\ Kind(Asked(c).page) = "radio"
  BY AskedIsALoad DEF Kind
<1>2. loads' = Append(loads, Asked(c)) /\ Len(loads') <= MaxLoads
  BY DEF refreshRadio, Ask
<1>3. PageLoads(loads') = Append(PageLoads(loads), PageLoad(Asked(c)))
  BY <1>1, <1>2, ImageOfAppend DEF LoadsTyped
<1>4. PageLoad(Asked(c)) = Views!Load("radio", FALSE)
  BY <1>1 DEF PageLoad, Views!Load
<1>5. loads' \in Seq(Loads)
  BY <1>1, <1>2, Appended DEF LoadsTyped
<1>6. QED
  BY <1>2, <1>3, <1>4, <1>5, Images

\* What one step of the tab is there.
There == Views!Next \/ UNCHANGED Views!vars

LEMMA AskedPages ==
  ASSUME NEW c \in Channels \cup {None}
  PROVE  Asked(c) \in Loads /\ Kind(Asked(c).page) = "radio"
BY AskedIsALoad DEF Kind

LEMMA ViewsAskedFor ==
  ASSUME LoadsTyped, NEW c \in Channels \cup {None}, viewRadio(c)
  PROVE  Views!Show("radio")
BY AskedPages, ShownThere DEF viewRadio

LEMMA PageAskedFor ==
  ASSUME StationInv, NEW t \in {"radio", "home"}, renderLoading,
         Ask(IF t = "radio" THEN Asked(activeChannelID) ELSE HomePage)
  PROVE  Views!Show(t)
<1>1. activeChannelID \in Channels \cup {None} /\ LoadsTyped
  BY ByParts DEF TabTyped
<1>2. HomePage \in Loads /\ Kind(HomePage.page) = "home"
  BY HomeIsALoad DEF Kind, HomePage
<1>3. QED
  BY <1>1, <1>2, AskedPages, ShownThere

\* A refresh is the one of renderRadio(true).
LEMMA RefreshThere ==
  ASSUME LoadsTyped, NEW c \in Channels \cup {None}, refreshRadio(c), UNCHANGED <<tab, write>>
  PROVE  There
<1>1. /\ PageLoads(loads') = Append(PageLoads(loads), Views!Load("radio", FALSE))
      /\ Len(PageLoads(loads')) <= MaxLoads
  BY RefreshedThere
<1>2. Kind(screen'.page) = Kind(screen.page)
  BY DEF refreshRadio, seenVars
<1>3. Views!RefreshRadio
  BY <1>1, <1>2
     DEF Views!RefreshRadio, PageLoads, PageLoad, Views!navVars, Views!musicVars,
         Views!searchVars, Views!importVars
<1>4. QED
  BY <1>3 DEF There, Views!Next, Views!User

LEMMA UnseenThere ==
  ASSUME UNCHANGED <<tab, screen, loads, write>>
  PROVE  There
BY UnseenStep DEF There, PageLoads, PageWrites

LEMMA TabThere == ASSUME StationInv, Tab PROVE There
<1>1. CASE navigateTo
  <2>1. tab' \in {"radio", "home"} /\ renderLoading /\ write' = write
        /\ Ask(IF tab' = "radio" THEN Asked(activeChannelID) ELSE HomePage)
    BY <1>1 DEF navigateTo
  <2>2. Views!Show(tab')
    BY <2>1, PageAskedFor
  <2>3. Views!navigateTo
    BY <2>1, <2>2 DEF Views!navigateTo, Views!Navigate
  <2>4. QED
    BY <2>3 DEF There, Views!Next, Views!User
<1>2. CASE RefreshActiveView
  <2>1. /\ tab \in {"radio", "home"} /\ renderLoading /\ UNCHANGED <<tab, write>>
        /\ Ask(IF tab = "radio" THEN Asked(activeChannelID) ELSE HomePage)
    BY <1>2, ByParts DEF RefreshActiveView, TabTyped
  <2>2. Views!Show(tab)
    BY <2>1, PageAskedFor
  <2>3. Views!TabOf(tab) = tab
    BY <2>1 DEF Views!TabOf, Views!MusicPages, Views!AudiobookPages, Views!PodcastPages
  <2>4. Views!RefreshActiveView
    BY <2>1, <2>2, <2>3 DEF Views!RefreshActiveView, Views!navVars
  <2>5. QED
    BY <2>4 DEF There, Views!Next, Views!User
<1>3. CASE Hide
  BY <1>3, UnseenThere DEF Hide, seenVars
<1>4. CASE Return
  <2>1. activeChannelID \in Channels \cup {None} /\ UNCHANGED <<tab, write>>
    BY <1>4, ByParts DEF Return, TabTyped
  <2>2. CASE refreshRadio(activeChannelID)
    BY <2>1, <2>2, RefreshThere, ByParts
  <2>3. CASE UNCHANGED <<seenVars, loads>>
    BY <2>1, <2>3, UnseenThere DEF seenVars
  <2>4. QED
    BY <1>4, <2>2, <2>3 DEF Return
<1>5. QED
  BY <1>1, <1>2, <1>3, <1>4 DEF Tab

\* Whatever load of ours is over, the page it is of is there, in its only phase.
LEMMA PhasesOfThePages ==
  /\ Views!Phases("radio") = <<[needs |-> {"channel"}, spares |-> {"stations"}]>>
  /\ Views!Phases("home") = <<[needs |-> {"overview", "recently-added"},
                               spares |-> {"libraries", "stations"}]>>
BY DEF Views!Phases, Views!viewRadio, Views!viewHome, Views!Phase

LEMMA AnsweredThere ==
  ASSUME LoadsTyped, NEW i \in DOMAIN loads, loads' = RemoveAt(loads, i), UNCHANGED <<tab, write>>,
         Kind(screen'.page) \in {Kind(loads[i].page), "error"},
         Kind(loads[i].page) \in {"radio", "home"}
  PROVE  There
<1> DEFINE p == Kind(loads[i].page)
           l == PageLoads(loads)[i]
           phase == Views!Phases(p)[1]
<1>1. /\ i \in DOMAIN PageLoads(loads) /\ l = PageLoad(loads[i])
  BY Images DEF LoadsTyped
<1>2. l.page = p /\ l.phase = 1
  BY <1>1 DEF PageLoad
<1>3. PageLoads(loads') = RemoveAt(PageLoads(loads), i)
  BY ImageOfRemoval DEF LoadsTyped
<1>4. p \in {"radio", "home"} /\ Kind(screen'.page) \in {p, "error"}
  OBVIOUS
<1>5. Len(Views!Phases(p)) = 1 /\ \E r \in phase.needs : TRUE
  BY <1>4, PhasesOfThePages
<1> HIDE DEF p, phase
<1>6. CASE Kind(screen'.page) = "error"
  <2>1. PICK r \in phase.needs : TRUE
    BY <1>5
  <2>2. {r} \cap phase.needs # {} /\ {r} \in {{}} \cup {{q} : q \in phase.needs \cup phase.spares}
    BY <2>1
  <2>3. Views!renderError /\ Views!NoSearch
    BY <1>6 DEF Views!renderError, Views!Paint, Views!NoSearch
  <2>4. Views!LoadAnswered
    BY <1>1, <1>2, <1>3, <2>2, <2>3
       DEF Views!LoadAnswered, Views!navVars, phase, PageLoads, PageLoad, RemoveAt,
           Views!RemoveAt
  <2>5. QED
    BY <2>4 DEF There, Views!Next, Views!Answer
<1>7. CASE Kind(screen'.page) = p
  <2>1. {} \cap phase.needs = {} /\ {} \in {{}} \cup {{q} : q \in phase.needs \cup phase.spares}
    OBVIOUS
  <2>2. Views!Paint(p, "none") /\ Views!NoSearch /\ p \notin {"music", "music/playlist"}
    BY <1>4, <1>7 DEF Views!Paint, Views!NoSearch
  <2>3. Views!LoadAnswered
    BY <1>1, <1>2, <1>3, <1>5, <2>1, <2>2
       DEF Views!LoadAnswered, Views!navVars, phase, PageLoads, PageLoad, RemoveAt,
           Views!RemoveAt
  <2>4. QED
    BY <2>3 DEF There, Views!Next, Views!Answer
<1>8. QED
  BY <1>4, <1>6, <1>7

LEMMA PollThere == ASSUME StationInv, Poll PROVE There
<1>1. activeChannelID \in Channels \cup {None} /\ LoadsTyped
  BY ByParts DEF TabTyped
<1>2. CASE PollFires
  <2>1. UNCHANGED <<tab, write>>
    BY <1>2 DEF PollFires
  <2>2. CASE refreshRadio(activeChannelID)
    BY <1>1, <2>1, <2>2, RefreshThere
  <2>3. CASE UNCHANGED <<seenVars, loads>>
    BY <2>1, <2>3, UnseenThere DEF seenVars
  <2>4. QED
    BY <1>2, <2>2, <2>3 DEF PollFires
<1>3. CASE LateRefresh
  BY <1>1, <1>3, RefreshThere DEF LateRefresh
<1>4. CASE ServerReads
  <2>1. /\ loads \in Seq(Loads)
        /\ \E i \in DOMAIN loads : loads' = [loads EXCEPT ![i].doc = server[loads[i].of]]
        /\ UNCHANGED <<tab, screen, write>>
    BY <1>1, <1>4 DEF ServerReads, seenVars, LoadsTyped
  <2>2. DOMAIN loads' = DOMAIN loads /\ \A i \in DOMAIN loads : loads'[i].page = loads[i].page
    <3>1. \A i \in DOMAIN loads : loads[i] \in Loads
      BY <2>1, ElementOfSeq
    <3>2. QED
      BY <2>1, <3>1 DEF Loads
  <2>3. PageLoads(loads') = PageLoads(loads)
    BY <2>2 DEF PageLoads, PageLoad
  <2>4. QED
    BY <2>1, <2>3, UnseenStep DEF There, PageWrites
<1>5. CASE LoadAnswered
  <2>1. PICK i \in DOMAIN loads :
          /\ loads' = RemoveAt(loads, i)
          /\ \/ ListAnswered(i)
             \/ DetailAnswered(i)
             \/ DetailFails(i)
             \/ HomeAnswered(i)
    BY <1>5 DEF LoadAnswered
  <2>2. UNCHANGED <<tab, write>>
    BY <1>5 DEF LoadAnswered
  <2>3. \/ loads[i].page \in {"list", "detail"} /\ screen'.page \in {"list", "detail", "error"}
        \/ loads[i].page = "home" /\ screen'.page \in {"home", "error"}
    BY <2>1 DEF ListAnswered, DetailAnswered, DetailFails, HomeAnswered, renderError, Replace,
           Page
  <2>4. /\ Kind(screen'.page) \in {Kind(loads[i].page), "error"}
        /\ Kind(loads[i].page) \in {"radio", "home"}
    BY <2>3 DEF Kind
  <2>5. QED
    BY <1>1, <2>1, <2>2, <2>4, AnsweredThere
<1>6. QED
  BY <1>2, <1>3, <1>4, <1>5 DEF Poll

\* A button of the page that writes something.
LEMMA OneWrite == Views!Cardinality({"radio"}) <= 1
<1>1. Cardinality({"radio"}) = 1
  BY FS_Singleton
<1>2. Views!Cardinality({"radio"}) = Cardinality({"radio"})
  BY DEF Views!Cardinality, Cardinality
<1>3. QED
  BY <1>1, <1>2

LEMMA PressThere ==
  ASSUME write = NoWrite, write' # NoWrite, screen.page \in {"list", "detail"},
         UNCHANGED <<tab, screen, loads>>
  PROVE  There
<1>1. Kind(screen.page) = "radio" /\ Kind(screen'.page) = "radio"
  BY DEF Kind
<1>2. Views!Write
  BY <1>1, OneWrite
     DEF Views!Write, Views!Pages, Views!Views, Views!navVars, Views!musicVars,
         Views!searchVars, Views!importVars
<1>3. QED
  BY <1>2 DEF There, Views!Next, Views!User

\* An answer: the page is shown again, or asked for again, or stays.
LEMMA ReactionThere ==
  ASSUME LoadsTyped, activeChannelID \in Channels \cup {None}, Reacts, write # NoWrite,
         write' = NoWrite, tab' = tab
  PROVE  There
<1>1. CASE viewRadio(activeChannelID') /\ activeChannelID' \in Channels \cup {None}
  <2>1. Views!Show("radio")
    BY <1>1, ViewsAskedFor
  <2>2. Views!AfterRadioWrite("radio")
    BY <2>1 DEF Views!AfterRadioWrite
  <2>3. Views!WriteAnswered
    BY <2>2 DEF Views!WriteAnswered, Views!AfterPageWrite
  <2>4. QED
    BY <2>3 DEF There, Views!Next, Views!Answer
<1>2. CASE refreshRadio(activeChannelID)
  <2>1. /\ PageLoads(loads') = Append(PageLoads(loads), Views!Load("radio", FALSE))
        /\ Len(PageLoads(loads')) <= MaxLoads
    BY <1>2, RefreshedThere
  <2>2. Kind(screen'.page) = Kind(screen.page)
    BY <1>2 DEF refreshRadio, seenVars
  <2>3. Views!AfterRadioWrite("radio")
    BY <2>1, <2>2 DEF Views!AfterRadioWrite, Views!searchVars, PageLoads, PageLoad
  <2>4. Views!WriteAnswered
    BY <2>3 DEF Views!WriteAnswered, Views!AfterPageWrite
  <2>5. QED
    BY <2>4 DEF There, Views!Next, Views!Answer
<1>3. CASE UNCHANGED <<seenVars, loads>>
  <2>1. Kind(screen'.page) = Kind(screen.page) /\ loads' = loads
    BY <1>3 DEF seenVars
  <2>2. Views!WriteFails
    BY <2>1 DEF Views!WriteFails, Views!navVars, Views!musicVars, Views!searchVars,
           Views!importVars
  <2>3. QED
    BY <2>2 DEF There, Views!Next, Views!Answer
<1>4. QED
  BY <1>1, <1>2, <1>3 DEF Reacts

LEMMA AnswersThere == ASSUME StationInv, WriteAnswered PROVE There
<1>1. tab' = tab /\ LoadsTyped /\ WriteTyped
  BY ByParts DEF WriteAnswered, RestInv
<1>2. activeChannelID \in Channels \cup {None} /\ late \in BOOLEAN
  BY ByParts DEF TabTyped
<1>3. ASSUME Reacts, write # NoWrite, write' = NoWrite PROVE There
  BY <1>1, <1>2, <1>3, ReactionThere
<1>4. NoWrite.by = "none"
  BY DEF NoWrite
<1>5. CASE SourcePosted
  <2>1. write # NoWrite /\ write \in [by : {"plan", "channel", "device", "station", "content",
                                            "create", "tier", "source", "window"},
                                      to : Channels \cup {None}, plan : Plans \cup {NoPlan}]
    BY <1>1, <1>4, <1>5 DEF SourcePosted, WriteTyped
  <2>2. write'.by = "window"
    BY <1>5, <2>1 DEF SourcePosted
  <2>3. PageWrites' = PageWrites
    BY <1>4, <2>1, <2>2 DEF PageWrites
  <2>4. QED
    BY <1>1, <1>5, <2>3, UnseenStep DEF SourcePosted, seenVars, There, PageLoads
<1>6. CASE WindowPosted
  <2>1. write # NoWrite
    BY <1>4, <1>6 DEF WindowPosted
  <2>2. CASE UNCHANGED <<write, seenVars, loads>>
    BY <1>1, <2>2, UnseenThere DEF seenVars
  <2>3. CASE write' = NoWrite /\ viewRadio(activeChannelID)
    BY <1>2, <1>3, <1>6, <2>1, <2>3 DEF WindowPosted, Reacts
  <2>4. QED
    BY <1>6, <2>2, <2>3 DEF WindowPosted
<1>7. CASE PlanSaved
  BY <1>2, <1>3, <1>4, <1>7 DEF PlanSaved, Landed, Reacts
<1>8. CASE ButtonDone
  <2>1. Reacts /\ write' = NoWrite
    BY <1>8, ButtonReacts DEF ButtonDone
  <2>2. write # NoWrite
    BY <1>4, <1>8 DEF ButtonDone, ChannelButtonDone, SkipDone, SourceButtonDone, DeviceButtonDone,
           DeviceSettingDone, StationDone, ContentAdded, ChannelCreated
  <2>3. QED
    BY <1>3, <2>1, <2>2
<1>9. CASE WriteFails
  BY <1>2, <1>3, <1>9 DEF WriteFails, Reacts
<1>10. QED
  BY <1>5, <1>6, <1>7, <1>8, <1>9 DEF WriteAnswered

\* Another section, or another channel: the page is called for again.
LEMMA ReopenedThere ==
  ASSUME LoadsTyped, screen.page \in {"list", "detail"}, NEW c \in Channels \cup {None},
         Kind(screen'.page) = "loading", Ask(Asked(c)), UNCHANGED <<tab, write>>
  PROVE  There
<1>1. Kind(screen.page) = "radio"
  BY DEF Kind
<1>2. loads' = Append(loads, Asked(c)) /\ Len(loads') <= MaxLoads
  BY DEF Ask
<1>3. PageLoads(loads') = Append(PageLoads(loads), PageLoad(Asked(c)))
  BY <1>2, AskedPages, ImageOfAppend DEF LoadsTyped
<1>4. PageLoad(Asked(c)) = Views!Load("radio", FALSE)
  BY AskedPages DEF PageLoad, Views!Load
<1>5. Len(PageLoads(loads')) <= MaxLoads
  <2>1. loads' \in Seq(Loads)
    BY <1>2, AskedPages, Appended DEF LoadsTyped
  <2>2. QED
    BY <1>2, <2>1, Images
<1>6. Views!Show("radio")
  BY <1>3, <1>4, <1>5
     DEF Views!Show, Views!renderLoading, Views!Paint, Views!NoSearch, PageLoads, PageLoad
<1>7. Views!Reopen
  BY <1>1, <1>6 DEF Views!Reopen, Views!navVars
<1>8. QED
  BY <1>7 DEF There, Views!Next, Views!User

LEMMA ButtonsThere == ASSUME StationInv, Buttons PROVE There
<1>1. activeChannelID \in Channels \cup {None} /\ LoadsTyped
  BY ByParts DEF TabTyped
<1>2. CASE OpenChannel
  <2>1. activeChannelID' \in Channels \cup {None}
    BY <1>2, ScenesAssumption, ByParts DEF OpenChannel, TabTyped
  <2>2. Kind(screen'.page) = "loading"
    BY <1>2 DEF OpenChannel, viewRadio, renderLoading, Replace, Page, Kind
  <2>3. QED
    BY <1>1, <1>2, <2>1, <2>2, ReopenedThere DEF OpenChannel, viewRadio
<1>3. CASE ChannelSection
  <2>1. Kind(screen'.page) = "loading"
    BY <1>3 DEF ChannelSection, Page, Kind
  <2>2. QED
    BY <1>1, <1>3, <2>1, ReopenedThere DEF ChannelSection
<1>4. CASE toggleComposer
  BY <1>4, UnseenThere DEF toggleComposer
<1>5. CASE PressButton
  <2>1. /\ write = NoWrite /\ screen.page \in {"list", "detail"} /\ UNCHANGED <<tab, seenVars, loads>>
        /\ \E by \in {"channel", "device", "station", "content", "create"} : write'.by = by
    BY <1>5 DEF PressButton, Send
  <2>2. QED
    BY <2>1, PressThere DEF seenVars, NoWrite
<1>6. CASE EditPlan
  <2>1. screen.page \in {"list", "detail"} /\ UNCHANGED <<tab, screen, loads>>
    BY <1>6 DEF EditPlan, seenVars
  <2>2. CASE write' = write
    BY <2>1, <2>2, UnseenThere
  <2>3. CASE Send("plan", activeChannelID, activePlan')
    BY <2>1, <2>3, PressThere DEF Send, NoWrite
  <2>4. QED
    BY <1>6, <2>2, <2>3 DEF EditPlan, savePlan
<1>7. CASE DeclineRepair
  BY <1>7, UnseenThere DEF DeclineRepair, seenVars
<1>8. CASE SubmitShow
  BY <1>8, PressThere DEF SubmitShow, Send, NoWrite, seenVars
<1>9. CASE WriteAnswered
  BY <1>9, AnswersThere
<1>10. CASE FocusControl
  BY <1>10, UnseenThere DEF FocusControl
<1>11. CASE ResetPlan
  BY <1>11, PressThere DEF ResetPlan, Send, NoWrite, seenVars
<1>12. CASE SaveSource
  BY <1>12, PressThere DEF SaveSource, Send, NoWrite, seenVars
<1>13. QED
  BY <1>2, <1>3, <1>4, <1>5, <1>6, <1>7, <1>8, <1>9, <1>10, <1>11, <1>12 DEF Buttons

\* The tier list is not seen there.
LEMMA RankThere == ASSUME StationInv, Rank PROVE There
<1>1. UNCHANGED <<tab, loads, write>>
  BY DEF Rank, Gesture, setSourceTier, TierWritten, TierAnswered
<1>2. screen'.page = screen.page
  <2>1. \A tier : [screen EXCEPT !.tier = tier].page = screen.page
    BY ByParts DEF PageTyped
  <2>2. screen' = screen \/ \E tier : screen' = [screen EXCEPT !.tier = tier]
    BY DEF Rank, Gesture, setSourceTier, TierWritten, TierAnswered, seenVars
  <2>3. QED
    BY <2>1, <2>2
<1>3. QED
  BY <1>1, <1>2, UnseenStep DEF There, PageLoads, PageWrites

LEMMA StartThere == Init => Views!Init
<1> SUFFICES ASSUME Init PROVE Views!Init
  OBVIOUS
<1>1. loads = <<Asked(None)>> /\ PageLoad(Asked(None)) = Views!Load("radio", FALSE)
  BY DEF Init, PageLoad, Asked, Kind, Views!Load
<1>2. PageLoads(loads) = <<Views!Load("radio", FALSE)>>
  <2> DEFINE l == Asked(None)
             m == Views!Load("radio", FALSE)
  <2>1. loads = <<l>> /\ PageLoad(l) = m
    BY <1>1
  <2> HIDE DEF l, m, PageLoad
  <2>2. DOMAIN loads = {1} /\ loads[1] = l
    BY <2>1
  <2>3. PageLoads(loads) = [i \in {1} |-> m]
    BY <2>1, <2>2 DEF PageLoads
  <2>4. <<m>> \in Seq({m}) /\ DOMAIN <<m>> = {1} /\ <<m>>[1] = m
    OBVIOUS
  <2>5. <<m>> = [i \in {1} |-> <<m>>[i]]
    BY <2>4, AsFunction
  <2>6. QED
    BY <2>3, <2>4, <2>5 DEF m
<1>3. QED
  BY <1>2 DEF Init, Views!Init, PageLoads, PageLoad, Page, Kind

\* The radio tab implements what WebViews says of every page: it is emptied, asked for,
\* painted and failed as the others are, and does nothing to the screen besides
\* (renderRadio, viewRadio, renderChannelDetail).
THEOREM TheTabIsAPage == Spec => ImplementsViews
<1>1. StationInv /\ [Next]_vars => [Views!Next]_Views!vars
  <2> SUFFICES ASSUME StationInv, [Next]_vars PROVE There
    BY DEF There
  <2>1. CASE UNCHANGED vars
    BY <2>1, UnseenThere DEF vars, seenVars
  <2>2. QED
    BY <2>1, TabThere, PollThere, ButtonsThere, RankThere DEF Next
<1>2. QED
  BY <1>1, StartThere, StationInvariant, PTL DEF Spec, ImplementsViews, Views!Spec

=============================================================================
