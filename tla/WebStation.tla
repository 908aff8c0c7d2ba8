------------------------------ MODULE WebStation ------------------------------
(***************************************************************************)
(* The radio tab of the dashboard, web/src/app.js: its poll, the page of a *)
(* channel, the plan its editors change and the tier list.                 *)
(*                                                                         *)
(* Everything here is module state and one screen: a poll or a button asks *)
(* again, and what comes back is painted, wherever the user is by then.    *)
(* The plan on the screen is a copy that the editors change and send back  *)
(* whole, to the channel that is open when they do.                        *)
(*                                                                         *)
(* Of a plan the model keeps whose it was and whether it has the edit; of  *)
(* a channel's sources the tier of one.  The other tabs are one page, and  *)
(* so are the three lists of this one: they come with fallbacks and        *)
(* remember nothing.  WebViews is what all pages have in common; this      *)
(* module implements it.                                                   *)
(***************************************************************************)
EXTENDS Naturals, Sequences, FiniteSets, SequencesExt

CONSTANTS
  Channels,
  Scenes,    \* bound: the channels a session opens, the section of their pages it works
             \*   in, and what else it uses: another tab ("home"), "hide", "composer",
             \*   "repair", a plan that does not come ("blank"), the "focus" on a control of
             \*   a device, the "reset" of a plan, the form of a "source", or a kind of button
  MaxLoads,  \* bound: how many loads are under way at a time
  MaxSaves   \* bound: how many tier changes are under way at a time

None == "none"

ASSUME ChannelsAssumption == Channels \cap {None, "nobody"} = {}

ASSUME BoundsAssumption == MaxLoads \in Nat \ {0} /\ MaxSaves \in Nat

ASSUME ScenesAssumption == \A s \in Scenes : s.channels \subseteq Channels

VARIABLES
  scene,
  tab,              \* activeTab
  activeChannelID,
  hidden,           \* document.hidden
  screen,           \* what is painted, of which channel, and the tier it shows
  composer,         \* a composer of the page is open
  gesture,          \* rankPickedID and rankDragID
  focused,          \* document.activeElement is a control of a device, or plays to one
  radioPollTimer,   \* pending
  late,             \* the timeout of 1.2 s after a skip is pending
  loads,            \* the loads under way, and what the server read for them
  activePlan,
  rankSaves,        \* the tier changes under way
  write,            \* the other request of a button under way
  server,           \* the channels: the plan, and the tier of a source
  show,             \* on the server: a show being booked, the windows it needs and has
  strayed           \* history: a channel was painted that was not the open one

seenVars == <<screen, composer, gesture, focused>>
pollVars == <<radioPollTimer, late>>
planVars == <<activePlan, strayed>>
vars == <<scene, tab, activeChannelID, hidden, seenVars, pollVars, loads, planVars,
          rankSaves, write, server, show>>

Tiers == {"C", "S"}
Plans == [of : Channels \cup {"nobody"}, edited : BOOLEAN]
Docs  == [plan : Plans, tier : Tiers]
NoPlan == [of |-> None, edited |-> FALSE]

\* What the editors are given when the request for the plan fails: no category, no
\* pool, no block.
Blank == [of |-> "nobody", edited |-> FALSE]
NoDoc == [plan |-> NoPlan, tier |-> None]
NoWrite == [by |-> "none", to |-> None, plan |-> NoPlan]

Page(p, c, t) == [page |-> p, of |-> c, tier |-> t]
Painted == {"list", "detail", "home"}

TypeOK ==
  /\ scene \in Scenes
  /\ tab \in {"radio", "home"}
  /\ activeChannelID \in Channels \cup {None}
  /\ {hidden, composer, focused, strayed} \subseteq BOOLEAN
  /\ screen \in [page : Painted \cup {"loading", "error"}, of : Channels \cup {None},
                 tier : Tiers \cup {None}]
  /\ gesture \in {"none", "picked", "held", "lost"}
  /\ radioPollTimer \in BOOLEAN /\ late \in BOOLEAN
  /\ loads \in Seq([page : Painted, of : Channels \cup {None}, doc : Docs \cup {NoDoc}])
  /\ Len(loads) <= MaxLoads
  /\ activePlan \in Plans \cup {NoPlan}
  /\ rankSaves \in Seq([of : Channels, to : Channels \cup {None}, tier : Tiers,
                        before : Tiers, landed : BOOLEAN, drawn : BOOLEAN])
  /\ Len(rankSaves) <= MaxSaves
  /\ write \in {NoWrite} \cup [by : {"plan", "channel", "device", "station", "content", "create",
                                     "tier", "source", "window"},
                               to : Channels \cup {None}, plan : Plans \cup {NoPlan}]
  /\ server \in [Channels -> Docs]
  /\ show \in [needs : 0 .. 2, windows : 0 .. 2]

-----------------------------------------------------------------------------
(* What is painted, and what is asked for.                                  *)

\* main.innerHTML is replaced.  A composer is gone with it, and the focus; so is a card
\* under the pointer, whose dragend then no longer reaches the listener on main.
Replace(page) ==
  /\ screen' = page
  /\ composer' = FALSE /\ focused' = FALSE
  /\ gesture' = IF gesture = "held" THEN "lost" ELSE gesture

renderLoading == Replace(Page("loading", None, None))
renderError   == Replace(Page("error", None, None))

\* The requests of a page of this tab: of the open channel, or of a list.
Asked(c) == IF c # None THEN [page |-> "detail", of |-> c, doc |-> NoDoc]
                        ELSE [page |-> "list", of |-> None, doc |-> NoDoc]
HomePage == [page |-> "home", of |-> None, doc |-> NoDoc]

Ask(l) == loads' = Append(loads, l) /\ Len(loads') <= MaxLoads

\* renderRadio(FALSE) and renderRadio(TRUE), for channel c.
viewRadio(c)    == renderLoading /\ Ask(Asked(c))
refreshRadio(c) == UNCHANGED seenVars /\ Ask(Asked(c))

\* hasOpenComposerOrModal, rankIsBusy, radioControlIsBusy.
Busy == composer \/ gesture # "none" \/ rankSaves # << >> \/ focused

Init ==
  /\ scene \in Scenes
  /\ tab = "radio" /\ activeChannelID = None /\ hidden = FALSE
  /\ screen = Page("loading", None, None) /\ composer = FALSE /\ gesture = "none"
  /\ focused = FALSE
  /\ radioPollTimer = FALSE /\ late = FALSE
  /\ loads = <<Asked(None)>>
  /\ activePlan = NoPlan /\ strayed = FALSE
  /\ rankSaves = << >> /\ write = NoWrite
  /\ server = [c \in Channels |-> [plan |-> [of |-> c, edited |-> FALSE], tier |-> "C"]]
  /\ show = [needs |-> 0, windows |-> 0]

-----------------------------------------------------------------------------
(* The tabs.                                                                *)

\* highlightTab: to leave the tab stops its poll.
navigateTo ==
  /\ tab' \in {"radio"} \cup (scene.uses \cap {"home"})
  /\ renderLoading
  /\ Ask(IF tab' = "radio" THEN Asked(activeChannelID) ELSE HomePage)
  /\ radioPollTimer' = (radioPollTimer /\ (tab # "radio" \/ tab' = "radio"))
  /\ UNCHANGED <<scene, activeChannelID, hidden, late, planVars, rankSaves, write, server, show>>

\* refreshActiveView, at the end of a scan.
RefreshActiveView ==
  /\ renderLoading
  /\ Ask(IF tab = "radio" THEN Asked(activeChannelID) ELSE HomePage)
  /\ UNCHANGED <<scene, tab, activeChannelID, hidden, pollVars, planVars, rankSaves, write,
                 server, show>>

\* The tab of the browser is hidden.
Hide ==
  /\ "hide" \in scene.uses
  /\ ~hidden /\ hidden' = TRUE
  /\ UNCHANGED <<scene, tab, activeChannelID, seenVars, pollVars, loads, planVars, rankSaves,
                 write, server, show>>

\* The listener of visibilitychange.
Return ==
  /\ hidden /\ hidden' = FALSE
  /\ IF tab = "radio" /\ ~Busy
     THEN refreshRadio(activeChannelID)
     ELSE UNCHANGED <<seenVars, loads>>
  /\ UNCHANGED <<scene, tab, activeChannelID, pollVars, planVars, rankSaves, write, server, show>>

-----------------------------------------------------------------------------
(* The poll.                                                                *)

\* a mutant: a poll that finds the page busy or hidden is the last.
IdlePollFires ==
  /\ radioPollTimer /\ radioPollTimer' = FALSE
  /\ IF tab = "radio" /\ ~Busy /\ ~hidden
     THEN refreshRadio(activeChannelID)
     ELSE UNCHANGED <<seenVars, loads>>
  /\ UNCHANGED <<scene, tab, activeChannelID, hidden, late, planVars, rankSaves, write, server, show>>

\* The callback of scheduleRadioPoll: asks again, or waits another eight seconds.
PollFires ==
  /\ radioPollTimer
  /\ \/ /\ tab # "radio"
        /\ radioPollTimer' = FALSE
        /\ UNCHANGED <<seenVars, loads>>
     \/ /\ tab = "radio" /\ ~Busy /\ ~hidden
        /\ radioPollTimer' = FALSE
        /\ refreshRadio(activeChannelID)
     \/ /\ tab = "radio" /\ (Busy \/ hidden)
        /\ radioPollTimer' = TRUE
        /\ UNCHANGED <<seenVars, loads>>
  /\ UNCHANGED <<scene, tab, activeChannelID, hidden, late, planVars, rankSaves, write, server, show>>

\* a mutant: the screen is emptied first.
LateView ==
  /\ late /\ late' = FALSE
  /\ viewRadio(activeChannelID)
  /\ UNCHANGED <<scene, tab, activeChannelID, hidden, radioPollTimer, planVars, rankSaves,
                 write, server, show>>

\* The timeout after a skip: it looks neither at the tab nor at what is open.
LateRefresh ==
  /\ late /\ late' = FALSE
  /\ refreshRadio(activeChannelID)
  /\ UNCHANGED <<scene, tab, activeChannelID, hidden, radioPollTimer, planVars, rankSaves,
                 write, server, show>>

\* The server answers what a load of a channel asks: the plan and the sources, in
\* requests of their own, whose answers are compared with nothing of each other.
ServerReads ==
  /\ \E i \in DOMAIN loads :
       /\ loads[i].page = "detail" /\ loads[i].doc = NoDoc
       /\ loads' = [loads EXCEPT ![i].doc = server[loads[i].of]]
  /\ UNCHANGED <<scene, tab, activeChannelID, hidden, seenVars, pollVars, planVars, rankSaves,
                 write, server, show>>

\* The last step of each page of the tab: the next poll, if the tab is still there.
scheduleRadioPoll == radioPollTimer' = (radioPollTimer \/ tab = "radio")

\* renderLegacyRadio, renderSamoRadio, renderChannelsList.
ListAnswered(i) ==
  /\ loads[i].page = "list"
  /\ Replace(Page("list", None, None))
  /\ scheduleRadioPoll
  /\ UNCHANGED <<planVars, rankSaves>>

\* a mutant: a plan the editors already have is kept.
KeptPlan(i) ==
  LET l == loads[i] IN
  /\ l.page = "detail" /\ l.doc # NoDoc
  /\ Replace(Page("detail", l.of, l.doc.tier))
  /\ activePlan' = IF activePlan = NoPlan THEN l.doc.plan ELSE activePlan
  /\ strayed' = (strayed \/ l.of # activeChannelID)
  /\ rankSaves' = [n \in DOMAIN rankSaves |-> [rankSaves[n] EXCEPT !.drawn = FALSE]]
  /\ scheduleRadioPoll

\* a mutant: no next poll.
LastDetail(i) ==
  LET l == loads[i] IN
  /\ l.page = "detail" /\ l.doc # NoDoc
  /\ Replace(Page("detail", l.of, l.doc.tier))
  /\ activePlan' \in {l.doc.plan} \cup (IF "blank" \in scene.uses THEN {Blank} ELSE {})
  /\ strayed' = (strayed \/ l.of # activeChannelID)
  /\ rankSaves' = [n \in DOMAIN rankSaves |-> [rankSaves[n] EXCEPT !.drawn = FALSE]]
  /\ UNCHANGED radioPollTimer

\* renderChannelDetail: the plan is copied for the editors, or a blank one is if it did
\* not come; the sources are copied for the tier list, and what a failed save would
\* roll back is no longer on the screen.
DetailAnswered(i) ==
  LET l == loads[i] IN
  /\ l.page = "detail" /\ l.doc # NoDoc
  /\ Replace(Page("detail", l.of, l.doc.tier))
  /\ activePlan' \in {l.doc.plan} \cup (IF "blank" \in scene.uses THEN {Blank} ELSE {})
  /\ strayed' = (strayed \/ l.of # activeChannelID)
  /\ rankSaves' = [n \in DOMAIN rankSaves |-> [rankSaves[n] EXCEPT !.drawn = FALSE]]
  /\ scheduleRadioPoll

\* The channel does not come: "channel not found", and no further poll.
DetailFails(i) ==
  /\ loads[i].page = "detail"
  /\ renderError
  /\ UNCHANGED <<planVars, rankSaves, radioPollTimer>>

\* The page of another tab.
HomeAnswered(i) ==
  /\ loads[i].page = "home"
  /\ Replace(Page("home", None, None)) \/ renderError
  /\ UNCHANGED <<planVars, rankSaves, radioPollTimer>>

LoadAnswered ==
  /\ \E i \in DOMAIN loads :
       /\ loads' = RemoveAt(loads, i)
       /\ \/ ListAnswered(i)
          \/ DetailAnswered(i)
          \/ DetailFails(i)
          \/ HomeAnswered(i)
  /\ UNCHANGED <<scene, tab, activeChannelID, hidden, late, write, server, show>>

-----------------------------------------------------------------------------
(* The page of a channel, and the buttons.                                  *)

\* channel-open, channel-back, and the pills of the tab (radio-mode).
OpenChannel ==
  /\ screen.page \in {"list", "detail"}
  /\ activeChannelID' \in IF screen.page = "list" THEN scene.channels ELSE {None}
  /\ viewRadio(activeChannelID')
  /\ UNCHANGED <<scene, tab, hidden, pollVars, planVars, rankSaves, write, server, show>>

\* channel-section: another section of the page, here the same one again; what was
\* lifted or dragged is let go.
ChannelSection ==
  /\ screen.page = "detail"
  /\ screen' = Page("loading", None, None) /\ composer' = FALSE /\ gesture' = "none"
  /\ focused' = FALSE
  /\ Ask(Asked(activeChannelID))
  /\ UNCHANGED <<scene, tab, activeChannelID, hidden, pollVars, planVars, rankSaves, write,
                 server, show>>

toggleComposer ==
  /\ "composer" \in scene.uses
  /\ screen.page \in {"list", "detail"}
  /\ composer' = ~composer
  /\ UNCHANGED <<scene, tab, activeChannelID, hidden, screen, gesture, focused, pollVars, loads,
                 planVars, rankSaves, write, server, show>>

\* A control of a device, on its card or in the bar that plays the channel to it, takes
\* the focus or loses it.
FocusControl ==
  /\ "focus" \in scene.uses
  /\ screen.page \in {"list", "detail"}
  /\ focused' = ~focused
  /\ UNCHANGED <<scene, tab, activeChannelID, hidden, screen, composer, gesture, pollVars, loads,
                 planVars, rankSaves, write, server, show>>

Send(by, to, plan) == write = NoWrite /\ write' = [by |-> by, to |-> to, plan |-> plan]

\* Every other button, of the channels, the devices and the stations, or a form of a
\* composer; what follows comes with the answer.  A channel's page has a device's too,
\* to play the channel to it.
PressButton ==
  /\ \E by \in scene.uses \cap {"channel", "device", "station", "content", "create"} :
       /\ by \in {"channel", "content"} => screen.page = "detail"
       /\ by \in {"station", "create"}  => screen.page = "list"
       /\ by = "device" => screen.page \in {"list", "detail"}
       /\ by \in {"content", "create"} => composer
       /\ Send(by, None, NoPlan)
  /\ UNCHANGED <<scene, tab, activeChannelID, hidden, seenVars, pollVars, loads, planVars,
                 rankSaves, server, show>>

-----------------------------------------------------------------------------
(* The plan.                                                                *)

\* savePlan: the whole plan goes to the channel that is open.
savePlan(plan) ==
  IF activeChannelID = None THEN UNCHANGED write ELSE Send("plan", activeChannelID, plan)

\* readBlockForm and the other forms: what they say replaces a part of the plan.
readBlockForm(plan) == [plan EXCEPT !.edited = ~plan.edited]

\* The editors (plan-block-save and its like): activePlan is changed, then saved.
EditPlan ==
  /\ scene.section = "plan" /\ screen.page = "detail"
  /\ activePlan' = readBlockForm(activePlan) /\ savePlan(activePlan')
  /\ UNCHANGED <<scene, tab, activeChannelID, hidden, seenVars, pollVars, loads, rankSaves,
                 server, show, strayed>>

\* plan-reset: the channel goes back to the plan that its sources describe.
ResetPlan ==
  /\ "reset" \in scene.uses
  /\ scene.section = "plan" /\ screen.page = "detail"
  /\ Send("plan", screen.of, [of |-> screen.of, edited |-> FALSE])
  /\ UNCHANGED <<scene, tab, activeChannelID, hidden, seenVars, pollVars, loads, planVars,
                 rankSaves, server, show>>

\* plan-source-save: the form of a source, its tier included, goes to the channel that is
\* open, which refuses a source of another.
SaveSource ==
  /\ "source" \in scene.uses
  /\ screen.page = "detail" /\ composer
  /\ Send("tier", IF screen.of = activeChannelID THEN screen.of ELSE None, NoPlan)
  /\ UNCHANGED <<scene, tab, activeChannelID, hidden, seenVars, pollVars, loads, planVars,
                 rankSaves, server, show>>

\* plan-pools-repair asks only once it has changed activePlan: the answer is no.
DeclineRepair ==
  /\ "repair" \in scene.uses
  /\ scene.section = "plan" /\ screen.page = "detail"
  /\ activePlan' = readBlockForm(activePlan)
  /\ UNCHANGED <<scene, tab, activeChannelID, hidden, seenVars, pollVars, loads, rankSaves,
                 write, server, show, strayed>>

-----------------------------------------------------------------------------
(* A show.                                                                  *)

\* composerSubmit("channel-show"): first the source, then its window, or two of them
\* across midnight (scheduleWindows).
SubmitShow ==
  /\ scene.section = "program" /\ screen.page = "detail" /\ composer
  /\ show.needs = 0
  /\ Send("source", screen.of, NoPlan)
  /\ UNCHANGED <<scene, tab, activeChannelID, hidden, seenVars, pollVars, loads, planVars,
                 rankSaves, server, show>>

SourcePosted ==
  /\ write.by = "source"
  /\ show' \in [needs : {1, 2}, windows : {0}]
  /\ write' = [write EXCEPT !.by = "window"]
  /\ UNCHANGED <<activeChannelID, seenVars, late, loads, server>>

WindowPosted ==
  /\ write.by = "window"
  /\ show' = [show EXCEPT !.windows = @ + 1]
  /\ IF show'.windows < show.needs
     THEN UNCHANGED <<write, seenVars, loads>>
     ELSE write' = NoWrite /\ viewRadio(activeChannelID)
  /\ UNCHANGED <<activeChannelID, late, server>>

-----------------------------------------------------------------------------
(* The answers to the buttons.                                              *)

\* What the server does with a plan, and with a source.
Landed ==
  \/ write.by = "plan" /\ server' = [server EXCEPT ![write.to].plan = write.plan]
  \/ /\ write.by = "tier" /\ write.to # None
     /\ \E tier \in Tiers : server' = [server EXCEPT ![write.to].tier = tier]

PlanSaved ==
  /\ Landed
  /\ viewRadio(activeChannelID)
  /\ write' = NoWrite
  /\ UNCHANGED <<activeChannelID, late, show>>

Stays == UNCHANGED <<activeChannelID, seenVars, late, loads>>
viewsAgain    == viewRadio(activeChannelID) /\ UNCHANGED <<activeChannelID, late>>
refreshesAgain == refreshRadio(activeChannelID) /\ UNCHANGED <<activeChannelID, late>>
refreshesLater == late' = TRUE /\ UNCHANGED <<activeChannelID, seenVars, loads>>

\* channel-talk-share, channel-listening-day, channel-timezone, ...: the
\* page anew; or channel-delete: the list of channels.
ChannelButtonDone ==
  /\ write.by = "channel"
  /\ \/ viewsAgain
     \/ activeChannelID' = None /\ viewRadio(None) /\ UNCHANGED late

\* channel-skip, channel-previous: a while later, or an alert that nothing plays.
SkipDone == write.by = "channel" /\ (refreshesLater \/ Stays)

\* channel-source-toggle, channel-source-delete, channel-schedule-delete.
SourceButtonDone == write.by = "channel" /\ viewsAgain

\* samoradio-pair and samoradio-delete; samoradio-cmd; samoradio-skip and
\* samoradio-previous; samoradio-send.
DeviceButtonDone ==
  write.by = "device" /\ (viewsAgain \/ refreshesAgain \/ refreshesLater \/ Stays)

\* The settings of a device, and its volume, which the answer corrects in its place.
DeviceSettingDone == write.by = "device" /\ (refreshesAgain \/ Stays)

\* station-dir-add and probe-all-radio; the other buttons of a station, which look
\* whether the tab is still there.
StationDone ==
  /\ write.by = "station"
  /\ viewsAgain \/ (tab # "radio" /\ Stays)

\* composerSubmit("channel-content"), all of it added or the rest rejected.
ContentAdded == write.by = "content" /\ viewsAgain

\* composerSubmit("channel"): the new channel is opened.
ChannelCreated ==
  /\ write.by = "create"
  /\ activeChannelID' \in scene.channels
  /\ viewRadio(activeChannelID') /\ UNCHANGED late

ButtonDone ==
  /\ \/ ChannelButtonDone \/ SkipDone \/ SourceButtonDone
     \/ DeviceButtonDone \/ DeviceSettingDone \/ StationDone
     \/ ContentAdded \/ ChannelCreated
  /\ write' = NoWrite
  /\ UNCHANGED <<server, show>>

\* Rejected, or failed on the way back: an alert, or a line in the composer, and the
\* page stays as it is.
WriteFails ==
  /\ write # NoWrite /\ write' = NoWrite
  /\ Landed \/ UNCHANGED server
  /\ UNCHANGED <<activeChannelID, seenVars, late, loads, show>>

WriteAnswered ==
  /\ SourcePosted \/ WindowPosted \/ PlanSaved \/ ButtonDone \/ WriteFails
  /\ UNCHANGED <<scene, tab, hidden, radioPollTimer, planVars, rankSaves>>

-----------------------------------------------------------------------------
(* The tier list.                                                           *)

\* rank-card: lift it, or put it back.  dragstart and dragend.
Gesture ==
  /\ scene.section = "rank" /\ screen.page = "detail"
  /\ \/ gesture = "none"   /\ gesture' \in {"picked", "held"}
     \/ gesture = "picked" /\ gesture' \in {"none", "held"}
     \/ gesture = "held"   /\ gesture' = "none"
     \/ gesture = "lost"   /\ gesture' = "held"
  /\ UNCHANGED <<scene, tab, activeChannelID, hidden, screen, composer, focused, pollVars, loads,
                 planVars, rankSaves, write, server, show>>

\* setSourceTier: the card moves, then the request goes to the channel that is open.
setSourceTier ==
  /\ scene.section = "rank" /\ screen.page = "detail" /\ gesture \in {"picked", "held"}
  /\ gesture' = "none"
  /\ \E tier \in Tiers :
       IF tier = screen.tier
       THEN UNCHANGED <<screen, rankSaves>>
       ELSE /\ screen' = [screen EXCEPT !.tier = tier]
            /\ rankSaves' = Append(rankSaves,
                 [of |-> screen.of, to |-> activeChannelID, tier |-> tier,
                  before |-> screen.tier, landed |-> FALSE, drawn |-> TRUE])
            /\ Len(rankSaves') <= MaxSaves
  /\ UNCHANGED <<scene, tab, activeChannelID, hidden, composer, focused, pollVars, loads, planVars,
                 write, server, show>>

\* PATCH writes the tier of a source of that channel.
TierWritten ==
  /\ \E n \in DOMAIN rankSaves :
       LET s == rankSaves[n] IN
       /\ ~s.landed /\ s.to = s.of
       /\ server' = [server EXCEPT ![s.of].tier = s.tier]
       /\ rankSaves' = [rankSaves EXCEPT ![n].landed = TRUE]
  /\ UNCHANGED <<scene, tab, activeChannelID, hidden, seenVars, pollVars, loads, planVars, write,
                 show>>

\* The answer; after a failure the card goes back to where it was before this change,
\* if it is still the one that was drawn.
TierAnswered ==
  /\ \E n \in DOMAIN rankSaves :
       LET s == rankSaves[n] IN
       /\ rankSaves' = RemoveAt(rankSaves, n)
       /\ \/ s.landed /\ UNCHANGED screen
          \/ screen' = IF s.drawn /\ screen.page = "detail"
                       THEN [screen EXCEPT !.tier = s.before] ELSE screen
  /\ UNCHANGED <<scene, tab, activeChannelID, hidden, composer, gesture, focused, pollVars, loads,
                 planVars, write, server, show>>

-----------------------------------------------------------------------------
Tab     == navigateTo \/ RefreshActiveView \/ Hide \/ Return
Poll    == PollFires \/ LateRefresh \/ ServerReads \/ LoadAnswered
Buttons == OpenChannel \/ ChannelSection \/ toggleComposer \/ FocusControl \/ PressButton
             \/ EditPlan \/ ResetPlan \/ SaveSource \/ DeclineRepair \/ SubmitShow
             \/ WriteAnswered
Rank    == Gesture \/ setSourceTier \/ TierWritten \/ TierAnswered

Next == Tab \/ Poll \/ Buttons \/ Rank

Spec == Init /\ [][Next]_vars

\* A page of a channel comes with its plan.
PlanComes ==
  \E i \in DOMAIN loads :
    loads' = RemoveAt(loads, i) /\ loads[i].page = "detail" /\ activePlan' = loads[i].doc.plan

\* A timer fires, the server reads, and an answer comes or the request fails; a plan
\* does not fail to come for ever.
FairSpec ==
  /\ Spec
  /\ WF_vars(PollFires) /\ WF_vars(ServerReads) /\ WF_vars(LoadAnswered)
  /\ SF_vars(LoadAnswered /\ PlanComes)

-----------------------------------------------------------------------------
(* What all pages have in common: the radio tab is one page of WebViews, its lists  *)
(* and channels alike, and the other tabs another.                                  *)

Kind(page) == IF page \in {"list", "detail"} THEN "radio" ELSE page

Views == INSTANCE WebViews WITH
  Sessions <- {{"radio", "home"}}, MusicModes <- {"albums"}, MaxPages <- 0, Queries <- {},
  MaxChains <- 0,
  session <- {"radio", "home"}, hash <- tab, screen <- Kind(screen.page),
  loads <- [i \in DOMAIN loads |->
              [page |-> Kind(loads[i].page), phase |-> 1, append |-> FALSE, mode |-> "none",
               at |-> 0]],
  writes <- IF write = NoWrite THEN {} ELSE {"radio"},
  musicMode <- "albums", musicListItems <- << >>, musicListOffset <- 0, crossed <- FALSE,
  searchQuery <- "", results <- "", searches <- {}, debounce <- {}, raced <- FALSE,
  imported <- FALSE, panel <- "none", chains <- << >>

-----------------------------------------------------------------------------
\* A page of the radio tab that is on the screen while the tab is open is followed: a
\* poll is pending, or a load of the tab is under way that will schedule the next
\* one.  (An error is not: renderChannelDetail returns before it schedules one.)
PollingGoesOn ==
  tab = "radio" /\ screen.page \in {"list", "detail"}
    => radioPollTimer \/ \E i \in DOMAIN loads : loads[i].page \in {"list", "detail"}

\* A channel's plan is never overwritten with that of another, unless a load that came
\* late has painted a channel over the one that is open: its editors are then on the
\* screen, and savePlan sends what they change to the open channel.  (It may be
\* overwritten with nobody's: see PlanIsNotBlanked.)
PlanGoesToItsChannel ==
  \A c \in Channels : server[c].plan.of \in {c, "nobody"} \/ strayed

\* The page of the open channel shows the server's plan and tiers.
Current ==
  /\ screen.of \in Channels /\ screen.of = activeChannelID
  /\ activePlan = server[screen.of].plan /\ screen.tier = server[screen.of].tier

Undisturbed == tab = "radio" /\ ~hidden /\ ~Busy /\ screen.page = "detail"

\* If nobody touches the page of a channel any more, and no control of a device has kept
\* the focus there, the poll puts it right, whatever was painted late, rolled back,
\* rejected or declined before.
PageCatchesUp ==
  <>[]Undisturbed /\ <>[][~EditPlan /\ ~DeclineRepair]_planVars => []<>Current

\* The tab is a page like the others: it is emptied, asked for, painted and failed as
\* WebViews says, and does nothing to the screen besides.
ImplementsViews == Views!Spec

\* Where the plan did not come, the first edit replaces all of it: renderChannelDetail
\* gives the editors an empty plan then, and savePlan sends it whole.  Not kept.
PlanIsNotBlanked == \A c \in Channels : server[c].plan.of # "nobody"

\* app.js: "a half-made show (a source with no window) is never left behind".
NoShowIsHalfMade ==
  write.by \notin {"source", "window"} => show.windows = show.needs

=============================================================================
