-------------------------- MODULE CatalogProjection --------------------------
(***************************************************************************)
(* The live catalog projection: how a write reaches the readers.           *)
(*                                                                         *)
(* A catalog write takes three steps (internal/api/catalog_commit.go):     *)
(* write the row to the database, install the change in the two in-memory  *)
(* projections (catalog.Service and search.Service), tell the connected    *)
(* clients through events.Hub.  A playlist is installed by itself;         *)
(* everything else, scans included, re-reads the database table by table   *)
(* under catalogReloadMu and swaps the projections.  Two handlers skip a   *)
(* step: a deferred apply leaves its projection to the reload that ends    *)
(* its batch, and the handler that keeps a track announces it without      *)
(* projecting anything, since it takes the scan it asked for to be over.   *)
(*                                                                         *)
(* A row is abstracted to its version: each write of an entity, a delete   *)
(* included, gives it the next one.                                        *)
(***************************************************************************)
EXTENDS Naturals, FiniteSets, Sequences, Functions

CONSTANTS
  Actors,      \* goroutines that write: request handlers, scans
  Scanners,    \* those in the background, which reload and tell nobody: a scan and its
               \* completion callback, the podcast poller, the passes of explo
  Admins,      \* the handlers of an administrator's requests
  Entities,    \* catalog rows
  Playlists,   \* the entities that are playlists
  Scanned,     \* the entities a scan writes: those that come from files
  Clients,     \* subscribers of the event stream (their code is not in this repository)
  Buffer,      \* subscriberBuffer
  CommitsFail, \* may a commit be given up, once the row is written: its context has
               \* ended, or its queries fail?
  MaxVersion,  \* bound: writes of one entity
  MaxWrites,   \* bound: writes of all entities
  MaxCalls,    \* bound: reloads and keeps that administrators ask for
  None

ASSUME ActorsAssumption ==
  /\ Scanners \subseteq Actors /\ None \notin Actors
  /\ Admins \subseteq Actors \ Scanners
ASSUME EntitiesAssumption ==
  /\ Playlists \subseteq Entities /\ None \notin Entities
  /\ Scanned \subseteq Entities \ Playlists
ASSUME NumbersAssumption ==
  {Buffer, MaxVersion, MaxWrites, MaxCalls} \subseteq Nat /\ CommitsFail \in BOOLEAN

VARIABLES
  db,       \* the version of each row in the database
  catalog,  \* catalog.Service
  index,    \* search.Service
  at,       \* where each actor is in its write
  ent,      \* the entity it wrote, None when it only reloads
  held,     \* the version it holds in memory
  seed,     \* the seed it loads: the version read of each entity, 0 if not yet
  unread,   \* the tables its load has not read
  reload,   \* the holder of catalogReloadMu
  queue,    \* the hub's channel of each client
  view,     \* what each client shows
  missed,   \* a notification for the client was dropped since it last reconciled
  crossed,  \* history: the playlists written while another write was under way
  owed,     \* history: the entities whose commit was given up or deferred, until a
            \* reload has their rows
  untold,   \* history: the entities a scan has written, or a commit left, of which no
            \* notification was sent since
  calls     \* counter of the bound

projections == <<catalog, index>>
actorVars   == <<at, ent, held, seed, unread>>
clientVars  == <<queue, view, missed>>
history     == <<crossed, owed, untold>>
vars == <<db, projections, actorVars, reload, clientVars, history, calls>>

Versions == 0..MaxVersion
Places == {"idle", "kept", "written", "fetched", "upserted", "loading", "replaced", "projected"}

TypeOK ==
  /\ {db, catalog, index} \subseteq [Entities -> Versions]
  /\ at \in [Actors -> Places]
  /\ ent \in [Actors -> Entities \cup {None}]
  /\ held \in [Actors -> Versions]
  /\ seed \in [Actors -> [Entities -> Versions]]
  /\ unread \in [Actors -> SUBSET Entities]
  /\ reload \in Actors \cup {None}
  /\ \A c \in Clients : queue[c] \in Seq(Entities \cup {None}) /\ Len(queue[c]) <= Buffer
  /\ view \in [Clients -> [Entities -> Versions]]
  /\ missed \in [Clients -> BOOLEAN]
  /\ crossed \subseteq Playlists /\ owed \subseteq Entities /\ untold \subseteq Entities
  /\ calls \in 0..MaxCalls

Init ==
  /\ db = [e \in Entities |-> 0]
  /\ catalog = db /\ index = db
  /\ at = [a \in Actors |-> "idle"]
  /\ ent = [a \in Actors |-> None]
  /\ held = [a \in Actors |-> 0]
  /\ seed = [a \in Actors |-> [e \in Entities |-> 0]]
  /\ unread = [a \in Actors |-> {}]
  /\ reload = None
  /\ queue = [c \in Clients |-> <<>>]
  /\ view = [c \in Clients |-> db]
  /\ missed = [c \in Clients |-> FALSE]
  /\ crossed = {} /\ owed = {} /\ untold = {}
  /\ calls = 0

Goto(a, place) == at' = [at EXCEPT ![a] = place]

Incremental(a) == ent[a] \in Playlists

\* The actor is between its write, or the start of its reload, and the end of its commit.
Writing(a) == at[a] \notin {"idle", "kept"}

\* The commit is over, with or without its steps.
End(a) ==
  /\ ent' = [ent EXCEPT ![a] = None]
  /\ held' = [held EXCEPT ![a] = 0]
  /\ Goto(a, "idle")

-----------------------------------------------------------------------------
(* The write, and the two ways to project it.                               *)

Write(a, e) ==
  /\ at[a] = "idle"
  /\ a \in Scanners => e \in Scanned
  /\ db[e] < MaxVersion /\ FoldFunction(+, 0, db) < MaxWrites
  /\ db' = [db EXCEPT ![e] = @ + 1]
  /\ ent' = [ent EXCEPT ![a] = e]
  /\ held' = [held EXCEPT ![a] = db[e] + 1]
  /\ Goto(a, "written")
  /\ crossed' = crossed \cup
       (Playlists \cap UNION {{e, ent[b]} : b \in {b \in Actors : Writing(b)}})
  /\ untold' = IF a \in Scanners THEN untold \cup {e} ELSE untold
  /\ UNCHANGED <<projections, seed, unread, reload, clientVars, owed, calls>>

\* postCatalogReload: a commit of no write of its own, which ends a deferred batch.
Reload(a) ==
  /\ calls < MaxCalls /\ calls' = calls + 1
  /\ at[a] = "idle" /\ a \in Admins
  /\ Goto(a, "written")
  /\ crossed' = crossed \cup (Playlists \cap {ent[b] : b \in {b \in Actors : Writing(b)}})
  /\ UNCHANGED <<db, projections, ent, held, seed, unread, reload, clientVars, owed, untold>>

\* playlists.Service answers a write with the row as it reads it back.
FetchRow(a) ==
  /\ at[a] = "written" /\ Incremental(a)
  /\ held' = [held EXCEPT ![a] = db[ent[a]]]
  /\ Goto(a, "fetched")
  /\ UNCHANGED <<db, projections, ent, seed, unread, reload, clientVars, history, calls>>

\* applyCatalogPlaylist and removeCatalogPlaylist: both indexes, in that order,
\* outside catalogReloadMu.  The held row is installed whatever is there.
UpsertCatalog(a) ==
  /\ at[a] = "fetched"
  /\ catalog' = [catalog EXCEPT ![ent[a]] = held[a]]
  /\ Goto(a, "upserted")
  /\ UNCHANGED <<db, index, ent, held, seed, unread, reload, clientVars, history, calls>>

UpsertIndex(a) ==
  /\ at[a] = "upserted"
  /\ index' = [index EXCEPT ![ent[a]] = held[a]]
  /\ Goto(a, "projected")
  /\ UNCHANGED <<db, catalog, ent, held, seed, unread, reload, clientVars, history, calls>>

MutexIgnored == TRUE  \* a mutant
Unheld == reload = None

\* reloadCatalog: take the mutex, read the tables one query after another,
\* swap the catalog, rebuild the search index, give the mutex back.
LockReload(a) ==
  /\ at[a] = "written" /\ ~Incremental(a)
  /\ Unheld
  /\ reload' = a
  /\ unread' = [unread EXCEPT ![a] = Entities]
  /\ Goto(a, "loading")
  /\ UNCHANGED <<db, projections, ent, held, seed, clientVars, history, calls>>

ReadTable(a, e) ==
  /\ at[a] = "loading" /\ e \in unread[a]
  /\ seed' = [seed EXCEPT ![a][e] = db[e]]
  /\ unread' = [unread EXCEPT ![a] = @ \ {e}]
  /\ UNCHANGED <<db, projections, at, ent, held, reload, clientVars, history, calls>>

\* Every query of the load has answered.
SomeRead(a) == seed[a] # [e \in Entities |-> 0]  \* a mutant
AllRead(a) == unread[a] = {}

ReplaceCatalog(a) ==
  /\ at[a] = "loading" /\ AllRead(a)
  /\ catalog' = seed[a]
  /\ Goto(a, "replaced")
  /\ UNCHANGED <<db, index, ent, held, seed, unread, reload, clientVars, history, calls>>

\* searchService.Rebuild works from the seed that the catalog was given.
IndexKept(a) == index  \* a mutant
Indexed(a) == seed[a]

RebuildIndex(a) ==
  /\ at[a] = "replaced"
  /\ index' = Indexed(a)
  /\ reload' = None
  /\ seed' = [seed EXCEPT ![a] = [e \in Entities |-> 0]]
  /\ Goto(a, "projected")
  /\ owed' = {e \in owed : seed[a][e] # db[e]}
  /\ UNCHANGED <<db, catalog, ent, held, unread, clientVars, crossed, untold, calls>>

\* The write is left as it is in the database, to be projected by a later reload.
Leave(a) ==
  /\ owed' = owed \cup ({ent[a]} \ {None})
  /\ untold' = untold \cup ({ent[a]} \ {None})
  /\ End(a)
  /\ UNCHANGED <<db, projections, clientVars, crossed, calls>>

\* The reload runs on the context of the request, or of the scan: when the client goes
\* away, the scan is cancelled or a query fails, the commit ends without projection and
\* notification.  So it does when the row of a playlist cannot be read back.
AbortCommit(a) ==
  /\ CommitsFail
  /\ at[a] \in {"written", "loading"}
  /\ reload' = IF at[a] = "loading" THEN None ELSE reload
  /\ seed' = [seed EXCEPT ![a] = [e \in Entities |-> 0]]
  /\ unread' = [unread EXCEPT ![a] = {}]
  /\ Leave(a)

\* applyMetadata with deferCatalogReload: the write, and nothing else.
Defer(a) ==
  /\ at[a] = "written" /\ a \notin Scanners
  /\ ent[a] # None /\ ~Incremental(a)
  /\ Leave(a)
  /\ UNCHANGED <<seed, unread, reload>>

-----------------------------------------------------------------------------
(* The notification.                                                        *)

HasRoom(c) == Len(queue[c]) < Buffer

\* What a notification is about: one entity, or with None the library.
Covers(n, e) == n \in {e, None}

\* Hub.Publish: a subscriber whose buffer is full misses the event.  Whoever refetches
\* because of it finds what the catalog holds by now.
Send(n) ==
  /\ queue' = [c \in Clients |-> IF HasRoom(c) THEN Append(queue[c], n) ELSE queue[c]]
  /\ missed' = [c \in Clients |-> missed[c] \/ ~HasRoom(c)]
  /\ untold' = untold \ {e \in Entities : Covers(n, e) /\ catalog[e] = db[e]}

TellsNobody(a) == FALSE  \* a mutant
Tells(a) == a \notin Scanners

\* publishCatalogChange.  The completion callback of a scan ends without one.
Publish(a) ==
  /\ at[a] = "projected"
  /\ IF Tells(a) THEN Send(ent[a]) ELSE UNCHANGED <<queue, missed, untold>>
  /\ End(a)
  /\ UNCHANGED <<db, projections, seed, unread, reload, view, crossed, owed, calls>>

\* postExploKeep: copy the file and ask for the scan that will write the row of the
\* copy; the handler holds what that scan is to write.
Keep(a, e) ==
  /\ calls < MaxCalls /\ calls' = calls + 1
  /\ at[a] = "idle" /\ a \in Admins
  /\ e \in Scanned /\ db[e] < MaxVersion
  /\ ent' = [ent EXCEPT ![a] = e]
  /\ held' = [held EXCEPT ![a] = db[e] + 1]
  /\ Goto(a, "kept")
  /\ UNCHANGED <<db, projections, seed, unread, reload, clientVars, history>>

\* It waits until the row is in the database, or half a minute, and never for the
\* scan's reload; then it commits with noProjectionChange.
PublishKept(a) ==
  /\ at[a] = "kept"
  /\ Send(None)
  /\ End(a)
  /\ UNCHANGED <<db, projections, seed, unread, reload, view, crossed, owed, calls>>

\* A client refetches what it is told of, and everything when that is the library or
\* when it reconnects.
Refetch(c) ==
  /\ queue[c] # <<>>
  /\ queue' = [queue EXCEPT ![c] = Tail(@)]
  /\ view' = [view EXCEPT ![c] =
       [e \in Entities |-> IF Covers(Head(queue[c]), e) THEN catalog[e] ELSE view[c][e]]]
  /\ UNCHANGED <<db, projections, actorVars, reload, missed, history, calls>>

Reconcile(c) ==
  /\ missed[c]
  /\ missed' = [missed EXCEPT ![c] = FALSE]
  /\ queue' = [queue EXCEPT ![c] = <<>>]
  /\ view' = [view EXCEPT ![c] = catalog]
  /\ UNCHANGED <<db, projections, actorVars, reload, history, calls>>

-----------------------------------------------------------------------------
Commit(a) ==
  \/ FetchRow(a) \/ UpsertCatalog(a) \/ UpsertIndex(a)
  \/ LockReload(a) \/ (\E e \in Entities : ReadTable(a, e))
  \/ ReplaceCatalog(a) \/ RebuildIndex(a)
  \/ Publish(a) \/ PublishKept(a)

Begin(a) == (\E e \in Entities : Write(a, e) \/ Keep(a, e)) \/ Reload(a)

Next ==
  \/ \E a \in Actors : Begin(a) \/ Commit(a) \/ AbortCommit(a) \/ Defer(a)
  \/ \E c \in Clients : Refetch(c) \/ Reconcile(c)

Spec == Init /\ [][Next]_vars

\* A goroutine that can step does.  Taking the mutex needs no more: with so many writes
\* and calls as the bounds allow, nobody is overtaken at it for ever.
Fairness ==
  /\ \A a \in Actors : WF_vars(Commit(a))
  /\ \A c \in Clients : WF_vars(Refetch(c))

FairSpec == Spec /\ Fairness

-----------------------------------------------------------------------------
(* What must hold.                                                          *)

\* "Publish AFTER the projection, never before: a client acts on this by
\* refetching immediately" -- so at the moment of a notification both
\* projections hold the write it is about, or a later one.  A playlist is installed
\* outside catalogReloadMu: where that ran into another write this, and what
\* follows, is not kept.  It is said of the commits that project something; the one
\* that does not is KeptIsProjected's.
NotifiedIsProjected ==
  [][\A a \in Actors :
       (at[a] = "projected" /\ at'[a] = "idle" /\ ent[a] \in Entities \ crossed)
         => (catalog[ent[a]] >= held[a] /\ index[ent[a]] >= held[a])]_vars

\* The same of a kept track, which the code does not keep: the scan that is said to have
\* "already refreshed the projection" runs in the background.
KeptIsProjected ==
  [][\A a \in Actors :
       (at[a] = "kept" /\ at'[a] = "idle")
         => (catalog[ent[a]] >= held[a] /\ index[ent[a]] >= held[a])]_vars

\* A reader never sees an entity go back in time, in either projection.
ProjectionNeverRegresses ==
  [][\A e \in Entities \ crossed : catalog'[e] >= catalog[e] /\ index'[e] >= index[e]]_vars

Quiet == \A a \in Actors : ~Writing(a)

\* When no write is under way, both projections are what the database holds, but for
\* the rows whose commit was given up or deferred and that no reload has read since.
QuietIsCurrent ==
  Quiet => \A e \in Entities \ (crossed \cup owed) : catalog[e] = db[e] /\ index[e] = db[e]

\* A client that handled everything it was sent, and was sent everything.
CaughtUp(c) == Quiet /\ queue[c] = <<>> /\ ~missed[c]

\* "Miss the third and every OTHER device stays stale": a client that is caught
\* up shows the database, but for what a scan or a commit that was left has written and
\* no notification was sent of since.
QuietClientsAreCurrent ==
  \A c \in Clients : CaughtUp(c) =>
    \A e \in Entities \ (untold \cup crossed) : view[c][e] = db[e]

\* The same of what scans write, which the code does not keep: a scan ends without a
\* notification, and the one that postExploKeep sends of its scan may come before it.
ScansReachClients ==
  \A c \in Clients : CaughtUp(c) => \A e \in Scanned : view[c][e] = db[e]

\* What a handler has written is eventually on every client's screen, unless the
\* notification was dropped for that client, or the commit was given up or deferred.
CommitsReachClients ==
  \A c \in Clients, e \in Entities : \A v \in 1..MaxVersion :
    (\E a \in Actors \ Scanners : at[a] = "written" /\ ent[a] = e /\ held[a] = v)
      ~> (view[c][e] >= v \/ missed[c] \/ e \in crossed \cup owed)
=============================================================================
