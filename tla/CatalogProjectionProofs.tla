---------------------- MODULE CatalogProjectionProofs ----------------------
(***************************************************************************)
(* Proofs about the live projection: for any handlers, scans, entities,    *)
(* playlists and clients, any buffer and any number of writes, with        *)
(* requests that are abandoned.                                            *)
(***************************************************************************)
EXTENDS CatalogProjection, SequenceTheorems, TLAPS

\* Of the types, what the rest needs.
Typed ==
  /\ db \in [Entities -> Nat] /\ catalog \in [Entities -> Nat] /\ index \in [Entities -> Nat]
  /\ at \in [Actors -> Places]
  /\ ent \in [Actors -> Entities \cup {None}]
  /\ held \in [Actors -> Nat]
  /\ seed \in [Actors -> [Entities -> Nat]]
  /\ unread \in [Actors -> SUBSET Entities]
  /\ queue \in [Clients -> Seq(Entities \cup {None})]
  /\ view \in [Clients -> [Entities -> Nat]]
  /\ missed \in [Clients -> BOOLEAN]

\* Where a write is, by the way it is projected.
WritersHaveEntities ==
  \A a \in Actors :
    /\ at[a] = "idle" => ent[a] = None
    /\ Writing(a) /\ ent[a] \in Entities => held[a] <= db[ent[a]]
    /\ at[a] \in {"fetched", "upserted"} => ent[a] \in Playlists
    /\ at[a] \in {"loading", "replaced"} => ent[a] \notin Playlists

\* catalogReloadMu is held by the one that reloads.
ReloadersHoldTheMutex ==
  \A a \in Actors : at[a] \in {"loading", "replaced"} <=> reload = a

\* A playlist that is not crossed is written while nobody else writes anything.
UncrossedIsAlone ==
  \A a, b \in Actors :
    Writing(a) /\ ent[a] \in Playlists \ crossed /\ a # b => ~Writing(b)

\* The projections follow the database, the index the catalog; a seed lies between.
InOrder ==
  \A e \in Entities \ crossed :
    /\ index[e] <= catalog[e] /\ catalog[e] <= db[e]
    /\ \A a \in Actors :
         /\ at[a] = "loading" /\ e \notin unread[a]
              => catalog[e] <= seed[a][e] /\ seed[a][e] <= db[e]
         /\ at[a] = "replaced" => catalog[e] = seed[a][e]

\* How far a write has come.
WritesArrive ==
  \A a \in Actors : Writing(a) /\ ent[a] \in Entities \ crossed =>
    /\ ent[a] \in Playlists => held[a] = db[ent[a]]
    /\ at[a] = "loading" /\ ent[a] \notin unread[a] => held[a] <= seed[a][ent[a]]
    /\ at[a] \in {"replaced", "upserted", "projected"} => held[a] <= catalog[ent[a]]
    /\ at[a] = "projected" => held[a] <= index[ent[a]]

\* a is at work on the last write of e.
Bears(a, e) == Writing(a) /\ ent[a] = e /\ held[a] = db[e]

\* Somebody is who will tell of it.
Heralded(e) == \E a \in Actors \ Scanners : Bears(a, e)

\* Whatever is not projected is on its way, or owed to the next reload.
LastWriteIsProjected ==
  \A e \in Entities \ (crossed \cup owed) :
    index[e] = db[e] \/ \E a \in Actors : Bears(a, e)

\* Whatever a client could not refetch yet will be told of, or was left untold.
CatalogIsHeralded ==
  \A e \in Entities \ (untold \cup crossed) : catalog[e] = db[e] \/ Heralded(e)

\* Whatever a client does not show is on its way to it, or the client will reconnect.
Listed(c, e) == \E i \in 1 .. Len(queue[c]) : Covers(queue[c][i], e)

LastWriteIsTold ==
  \A c \in Clients : \A e \in Entities \ (untold \cup crossed) :
    view[c][e] = db[e] \/ missed[c] \/ Listed(c, e) \/ Heralded(e)

IInv ==
  /\ Typed /\ WritersHaveEntities /\ ReloadersHoldTheMutex /\ UncrossedIsAlone
  /\ InOrder /\ WritesArrive /\ LastWriteIsProjected /\ CatalogIsHeralded /\ LastWriteIsTold

LEMMA InitHolds == Init => IInv
<1> SUFFICES ASSUME Init PROVE IInv
  OBVIOUS
<1>1. Typed
  BY DEF Init, Typed, Places
<1>2. WritersHaveEntities /\ ReloadersHoldTheMutex /\ UncrossedIsAlone
  BY ActorsAssumption
  DEF Init, WritersHaveEntities, ReloadersHoldTheMutex, UncrossedIsAlone, Writing
<1>3. InOrder /\ WritesArrive /\ LastWriteIsProjected /\ CatalogIsHeralded /\ LastWriteIsTold
  BY DEF Init, InOrder, WritesArrive, LastWriteIsProjected, CatalogIsHeralded, LastWriteIsTold,
         Writing
<1>4. QED
  BY <1>1, <1>2, <1>3 DEF IInv

-----------------------------------------------------------------------------
(* The write, and the start of a reload or of a keep.                       *)

\* What the start of something by a leaves alone.
OnlyStarts(a) ==
  /\ \A b \in Actors : b # a => at'[b] = at[b] /\ ent'[b] = ent[b] /\ held'[b] = held[b]
  /\ at[a] = "idle" /\ at'[a] \in {"written", "kept"}
  /\ UNCHANGED <<catalog, index, seed, unread, reload, queue, view, missed, owed>>

\* A playlist that is written while anybody is at work is crossed, and so is the
\* playlist that somebody is at work on.
LEMMA WriteCrosses ==
  ASSUME NEW a \in Actors, NEW e \in Entities, Write(a, e)
  PROVE  /\ crossed \subseteq crossed'
         /\ \A b \in Actors : Writing(b) =>
              /\ e \in Playlists => e \in crossed'
              /\ ent[b] \in Playlists => ent[b] \in crossed'
<1>1. crossed' = crossed \cup
        (Playlists \cap UNION {{e, ent[b]} : b \in {b \in Actors : Writing(b)}})
  BY DEF Write
<1>2. ASSUME NEW b \in Actors, Writing(b)
      PROVE  {e, ent[b]} \subseteq UNION {{e, ent[d]} : d \in {d \in Actors : Writing(d)}}
  BY <1>2
<1>3. QED
  BY <1>1, <1>2

LEMMA WriteKeeps ==
  ASSUME IInv, NEW a \in Actors, NEW e \in Entities, Write(a, e)
  PROVE  IInv'
<1> USE DEF IInv
<1>1. /\ at[a] = "idle" /\ OnlyStarts(a)
      /\ db' = [db EXCEPT ![e] = @ + 1] /\ db'[e] = db[e] + 1
      /\ at'[a] = "written" /\ ent'[a] = e /\ held'[a] = db'[e]
      /\ UNCHANGED <<catalog, index, seed, unread, reload, queue, view, missed, owed>>
  BY DEF Write, Goto, Typed, projections, clientVars, OnlyStarts
<1>2. /\ crossed \subseteq crossed'
      /\ \A b \in Actors : Writing(b) =>
           /\ e \in Playlists => e \in crossed'
           /\ ent[b] \in Playlists => ent[b] \in crossed'
  BY WriteCrosses
<1>3. untold \subseteq untold' /\ (a \in Scanners => e \in untold')
  BY DEF Write
<1>4. \A b \in Actors : b # a => /\ at'[b] = at[b] /\ ent'[b] = ent[b] /\ held'[b] = held[b]
                                /\ Writing(b)' = Writing(b)
  BY <1>1 DEF OnlyStarts, Writing
<1>5. at'[a] = "written" /\ ent'[a] = e /\ held'[a] = db'[e] /\ Writing(a)' /\ ~Writing(a)
  BY <1>1 DEF Writing
<1>6. \A d \in Entities : db'[d] \in Nat /\ db[d] <= db'[d] /\ (d # e => db'[d] = db[d])
  BY <1>1 DEF Typed
<1>7. Typed'
  BY <1>1, <1>6 DEF Typed, Places, Write, Goto
<1>8. WritersHaveEntities'
  <2> SUFFICES ASSUME NEW b \in Actors
               PROVE  /\ at'[b] = "idle" => ent'[b] = None
                      /\ Writing(b)' /\ ent'[b] \in Entities => held'[b] <= db'[ent'[b]]
                      /\ at'[b] \in {"fetched", "upserted"} => ent'[b] \in Playlists
                      /\ at'[b] \in {"loading", "replaced"} => ent'[b] \notin Playlists
    BY DEF WritersHaveEntities
  <2>1. CASE b = a
    BY <1>5, <1>6, <2>1
  <2>2. CASE b # a
    <3>1. held[b] \in Nat /\ (ent[b] \in Entities => db[ent[b]] \in Nat)
      BY DEF Typed
    <3>2. QED
      BY <1>4, <1>6, <2>2, <3>1 DEF WritersHaveEntities
  <2>3. QED
    BY <2>1, <2>2
<1>9. ReloadersHoldTheMutex'
  BY <1>1, <1>4, <1>5 DEF ReloadersHoldTheMutex
<1>10. UncrossedIsAlone'
  BY <1>2, <1>4, <1>5 DEF UncrossedIsAlone
<1>11. InOrder'
  <2> SUFFICES ASSUME NEW d \in Entities \ crossed'
               PROVE  /\ index[d] <= catalog[d] /\ catalog[d] <= db'[d]
                      /\ \A b \in Actors :
                           /\ at'[b] = "loading" /\ d \notin unread[b]
                                => catalog[d] <= seed[b][d] /\ seed[b][d] <= db'[d]
                           /\ at'[b] = "replaced" => catalog[d] = seed[b][d]
    BY <1>1 DEF InOrder
  <2>1. d \in Entities \ crossed /\ db[d] <= db'[d]
    BY <1>2, <1>6
  <2>2. index[d] <= catalog[d] /\ catalog[d] <= db'[d]
    BY <1>6, <2>1 DEF InOrder, Typed
  <2>3. ASSUME NEW b \in Actors
        PROVE  /\ at'[b] = "loading" /\ d \notin unread[b]
                    => catalog[d] <= seed[b][d] /\ seed[b][d] <= db'[d]
               /\ at'[b] = "replaced" => catalog[d] = seed[b][d]
    <3>1. at'[b] \in {"loading", "replaced"} => at'[b] = at[b]
      BY <1>4, <1>5
    <3>2. seed[b][d] \in Nat
      BY DEF Typed
    <3>3. QED
      BY <1>6, <2>1, <3>1, <3>2 DEF InOrder, Typed
  <2>4. QED
    BY <2>2, <2>3
<1>12. WritesArrive'
  <2> SUFFICES ASSUME NEW b \in Actors, Writing(b)', ent'[b] \in Entities \ crossed'
               PROVE  /\ ent'[b] \in Playlists => held'[b] = db'[ent'[b]]
                      /\ at'[b] = "loading" /\ ent'[b] \notin unread[b] => held'[b] <= seed[b][ent'[b]]
                      /\ at'[b] \in {"replaced", "upserted", "projected"} => held'[b] <= catalog[ent'[b]]
                      /\ at'[b] = "projected" => held'[b] <= index[ent'[b]]
    BY <1>1 DEF WritesArrive
  <2>1. CASE b = a
    BY <1>5, <2>1
  <2>2. CASE b # a
    <3>1. ent'[b] \in Playlists => ent'[b] # e
      BY <1>2, <1>4, <2>2
    <3>2. QED
      BY <1>2, <1>4, <1>6, <2>2, <3>1 DEF WritesArrive
  <2>3. QED
    BY <2>1, <2>2
<1>13. \A d \in Entities, b \in Actors : d # e /\ Bears(b, d) => Bears(b, d)'
  <2> SUFFICES ASSUME NEW d \in Entities, NEW b \in Actors, d # e, Bears(b, d)
               PROVE  Bears(b, d)'
    OBVIOUS
  <2>1. b # a
    BY <1>5 DEF Bears
  <2>2. QED
    BY <1>4, <1>6, <2>1 DEF Bears
<1>14. Bears(a, e)'
  BY <1>5 DEF Bears
<1>15. LastWriteIsProjected'
  BY <1>1, <1>2, <1>6, <1>13, <1>14 DEF LastWriteIsProjected
<1>16. \A d \in Entities \ (untold' \cup crossed') :
         d \in Entities \ (untold \cup crossed) /\ (Heralded(d) \/ d = e => Heralded(d)')
  BY <1>2, <1>3, <1>13, <1>14 DEF Heralded
<1>17. CatalogIsHeralded'
  BY <1>1, <1>6, <1>16 DEF CatalogIsHeralded
<1>18. LastWriteIsTold'
  BY <1>1, <1>6, <1>16 DEF LastWriteIsTold, Listed
<1>19. QED
  BY <1>7, <1>8, <1>9, <1>10, <1>11, <1>12, <1>15, <1>17, <1>18

\* A reload, or a keep, that starts has written nothing.
LEMMA CallKeeps ==
  ASSUME IInv, NEW a \in Actors, Reload(a) \/ \E e \in Entities : Keep(a, e)
  PROVE  IInv'
<1> USE DEF IInv
<1>1. OnlyStarts(a) /\ UNCHANGED <<db, untold>>
  BY DEF Reload, Keep, Goto, Typed, OnlyStarts, projections, clientVars, history
<1>2. /\ Writing(a)' => ent'[a] = None
      /\ at[a] = "idle" /\ ~Writing(a) /\ at'[a] \in {"written", "kept"}
      /\ UNCHANGED <<catalog, index, seed, unread, reload, queue, view, missed, owed>>
  BY DEF Reload, Keep, Goto, Typed, WritersHaveEntities, Writing, projections, clientVars, history
<1>3. /\ crossed \subseteq crossed'
      /\ \A b \in Actors : Writing(a)' /\ Writing(b) /\ ent[b] \in Playlists => ent[b] \in crossed'
  BY DEF Reload, Keep, Goto, Typed, Writing, history
<1>4. \A b \in Actors : b # a => /\ at'[b] = at[b] /\ ent'[b] = ent[b] /\ held'[b] = held[b]
                                /\ Writing(b)' = Writing(b)
  BY <1>1 DEF OnlyStarts, Writing
<1>5. Typed'
  <2>1. CASE Reload(a)
    BY <1>1, <1>2, <2>1 DEF Reload, Goto, Typed, Places
  <2>2. CASE \E e \in Entities : Keep(a, e)
    BY <1>1, <1>2, <2>2 DEF Keep, Goto, Typed, Places
  <2>3. QED
    BY <2>1, <2>2
<1>6. WritersHaveEntities'
  <2> SUFFICES ASSUME NEW b \in Actors
               PROVE  /\ at'[b] = "idle" => ent'[b] = None
                      /\ Writing(b)' /\ ent'[b] \in Entities => held'[b] <= db[ent'[b]]
                      /\ at'[b] \in {"fetched", "upserted"} => ent'[b] \in Playlists
                      /\ at'[b] \in {"loading", "replaced"} => ent'[b] \notin Playlists
    BY <1>1 DEF WritersHaveEntities
  <2>1. CASE b = a
    BY <1>2, <2>1, EntitiesAssumption
  <2>2. CASE b # a
    BY <1>4, <2>2 DEF WritersHaveEntities
  <2>3. QED
    BY <2>1, <2>2
<1>7. ReloadersHoldTheMutex'
  BY <1>2, <1>4 DEF ReloadersHoldTheMutex
<1>8. UncrossedIsAlone'
  <2> SUFFICES ASSUME NEW b \in Actors, NEW d \in Actors, b # d, Writing(b)', Writing(d)',
                      ent'[b] \in Playlists \ crossed'
               PROVE  FALSE
    BY DEF UncrossedIsAlone
  <2>1. b # a
    BY <1>2, EntitiesAssumption
  <2>2. CASE d = a
    BY <1>3, <1>4, <2>1, <2>2
  <2>3. CASE d # a
    BY <1>3, <1>4, <2>1, <2>3 DEF UncrossedIsAlone
  <2>4. QED
    BY <2>2, <2>3
<1>9. InOrder'
  <2>1. \A b \in Actors : at'[b] \in {"loading", "replaced"} => at'[b] = at[b]
    BY <1>2, <1>4
  <2>2. QED
    BY <1>1, <1>2, <1>3, <2>1 DEF InOrder
<1>10. WritesArrive'
  <2> SUFFICES ASSUME NEW b \in Actors, Writing(b)', ent'[b] \in Entities \ crossed'
               PROVE  /\ ent'[b] \in Playlists => held'[b] = db[ent'[b]]
                      /\ at'[b] = "loading" /\ ent'[b] \notin unread[b] => held'[b] <= seed[b][ent'[b]]
                      /\ at'[b] \in {"replaced", "upserted", "projected"} => held'[b] <= catalog[ent'[b]]
                      /\ at'[b] = "projected" => held'[b] <= index[ent'[b]]
    BY <1>1, <1>2 DEF WritesArrive
  <2>1. b # a
    BY <1>2, EntitiesAssumption
  <2>2. QED
    BY <1>3, <1>4, <2>1 DEF WritesArrive
<1>11. \A b \in Actors, d \in Entities : Bears(b, d) => Bears(b, d)'
  <2> SUFFICES ASSUME NEW b \in Actors, NEW d \in Entities, Bears(b, d)
               PROVE  Bears(b, d)'
    OBVIOUS
  <2>1. b # a
    BY <1>2 DEF Bears
  <2>2. QED
    BY <1>1, <1>4, <2>1 DEF Bears
<1>12. LastWriteIsProjected'
  BY <1>1, <1>2, <1>3, <1>11 DEF LastWriteIsProjected
<1>13. CatalogIsHeralded' /\ LastWriteIsTold'
  BY <1>1, <1>2, <1>3, <1>11 DEF CatalogIsHeralded, LastWriteIsTold, Listed, Heralded
<1>14. QED
  BY <1>5, <1>6, <1>7, <1>8, <1>9, <1>10, <1>12, <1>13

-----------------------------------------------------------------------------
(* A playlist by itself.                                                    *)

\* While a playlist that is not crossed is on its way, nobody else is at work.
LEMMA AloneWithPlaylist ==
  ASSUME IInv, NEW a \in Actors, Writing(a), ent[a] \in Playlists \ crossed
  PROVE  held[a] = db[ent[a]] /\ \A b \in Actors : b # a => ~Writing(b)
BY EntitiesAssumption DEF IInv, UncrossedIsAlone, WritesArrive

\* What a step of the actor a leaves alone, if it moves only its own write.
OnlyMoves(a) ==
  /\ \A b \in Actors : b # a => /\ at'[b] = at[b] /\ ent'[b] = ent[b] /\ held'[b] = held[b]
                               /\ Writing(b)' = Writing(b)
  /\ ent'[a] = ent[a] /\ Writing(a) /\ Writing(a)'
  /\ at[a] \notin {"idle", "kept"} /\ at'[a] \notin {"idle", "kept"}
  /\ held'[a] = held[a] \/ (ent[a] \in Playlists /\ held'[a] = db[ent[a]])
  /\ UNCHANGED <<db, queue, view, missed, crossed, untold>>

LEMMA MovingKeepsBearers ==
  ASSUME IInv, NEW a \in Actors, OnlyMoves(a)
  PROVE  /\ UncrossedIsAlone'
         /\ \A e \in Entities, b \in Actors : Bears(b, e) => Bears(b, e)'
         /\ \A e \in Entities : Heralded(e) => Heralded(e)'
         /\ LastWriteIsTold'
<1>1. UncrossedIsAlone'
  BY DEF OnlyMoves, IInv, UncrossedIsAlone
<1>2. \A e \in Entities, b \in Actors : Bears(b, e) => Bears(b, e)'
  BY DEF OnlyMoves, Bears
<1>3. \A e \in Entities : Heralded(e) => Heralded(e)'
  BY <1>2 DEF Heralded
<1>4. LastWriteIsTold'
  BY <1>3 DEF OnlyMoves, IInv, LastWriteIsTold, Listed
<1>5. QED
  BY <1>1, <1>2, <1>3, <1>4

LEMMA FetchRowKeeps ==
  ASSUME IInv, NEW a \in Actors, FetchRow(a)
  PROVE  IInv'
<1>1. /\ at[a] = "written" /\ at'[a] = "fetched" /\ ent[a] \in Playlists
      /\ held'[a] = db[ent[a]] /\ OnlyMoves(a)
      /\ UNCHANGED <<catalog, index, ent, seed, unread, reload, owed>>
  BY DEF FetchRow, Incremental, Goto, Writing, OnlyMoves, IInv, Typed, projections, clientVars, history
<1>2. Typed' /\ WritersHaveEntities'
  <2>1. Typed'
    BY <1>1, EntitiesAssumption DEF FetchRow, Goto, IInv, Typed, Places, OnlyMoves
  <2>2. WritersHaveEntities'
    BY <1>1 DEF OnlyMoves, IInv, WritersHaveEntities, Typed
  <2>3. QED
    BY <2>1, <2>2
<1>3. ReloadersHoldTheMutex' /\ InOrder'
  BY <1>1 DEF OnlyMoves, IInv, ReloadersHoldTheMutex, InOrder
<1>4. WritesArrive'
  BY <1>1 DEF OnlyMoves, IInv, WritesArrive
<1>5. LastWriteIsProjected'
  BY <1>1, MovingKeepsBearers DEF OnlyMoves, IInv, LastWriteIsProjected
<1>6. CatalogIsHeralded'
  BY <1>1, MovingKeepsBearers DEF OnlyMoves, IInv, CatalogIsHeralded
<1>7. QED
  BY <1>1, <1>2, <1>3, <1>4, <1>5, <1>6, MovingKeepsBearers DEF IInv

LEMMA UpsertCatalogKeeps ==
  ASSUME IInv, NEW a \in Actors, UpsertCatalog(a)
  PROVE  IInv' /\ \A d \in Entities \ crossed : catalog[d] <= catalog'[d]
<1>1. /\ at[a] = "fetched" /\ at'[a] = "upserted"
      /\ ent[a] \in Playlists /\ ent[a] \in Entities
      /\ catalog' = [catalog EXCEPT ![ent[a]] = held[a]] /\ OnlyMoves(a)
      /\ UNCHANGED <<index, ent, held, seed, unread, reload, owed>>
  BY EntitiesAssumption
  DEF UpsertCatalog, Goto, Writing, OnlyMoves, IInv, WritersHaveEntities, Typed, clientVars, history
<1>2. Typed' /\ WritersHaveEntities'
  <2>1. Typed'
    BY <1>1 DEF UpsertCatalog, Goto, IInv, Typed, Places, OnlyMoves
  <2>2. WritersHaveEntities'
    BY <1>1 DEF OnlyMoves, IInv, WritersHaveEntities
  <2>3. QED
    BY <2>1, <2>2
<1>3. ent[a] \notin crossed => held[a] = db[ent[a]] /\ \A b \in Actors : b # a => ~Writing(b)
  BY <1>1, AloneWithPlaylist DEF OnlyMoves
<1>4. \A d \in Entities \ crossed :
        /\ d # ent[a] => catalog'[d] = catalog[d]
        /\ d = ent[a] => catalog'[d] = db[d]
        /\ catalog[d] <= catalog'[d]
  BY <1>1, <1>3 DEF IInv, Typed, InOrder
<1>5. InOrder'
  <2> SUFFICES ASSUME NEW d \in Entities \ crossed
               PROVE  /\ index[d] <= catalog'[d] /\ catalog'[d] <= db[d]
                      /\ \A b \in Actors :
                           /\ at'[b] = "loading" /\ d \notin unread[b]
                                => catalog'[d] <= seed[b][d] /\ seed[b][d] <= db[d]
                           /\ at'[b] = "replaced" => catalog'[d] = seed[b][d]
    BY <1>1 DEF InOrder, OnlyMoves
  <2>1. CASE d = ent[a]
    <3>1. index[d] <= db[d] /\ catalog'[d] = db[d] /\ db[d] \in Nat
      BY <1>4, <2>1 DEF IInv, InOrder, Typed
    <3>2. \A b \in Actors : at'[b] \notin {"loading", "replaced"}
      BY <1>1, <1>3, <2>1 DEF OnlyMoves, Writing
    <3>3. QED
      BY <3>1, <3>2
  <2>2. CASE d # ent[a]
    BY <1>1, <1>4, <2>2 DEF OnlyMoves, IInv, InOrder
  <2>3. QED
    BY <2>1, <2>2
<1>6. ReloadersHoldTheMutex'
  BY <1>1 DEF OnlyMoves, IInv, ReloadersHoldTheMutex
<1>7. WritesArrive'
  <2> SUFFICES ASSUME NEW b \in Actors, Writing(b)', ent[b] \in Entities \ crossed
               PROVE  /\ ent[b] \in Playlists => held[b] = db[ent[b]]
                      /\ at'[b] = "loading" /\ ent[b] \notin unread[b] => held[b] <= seed[b][ent[b]]
                      /\ at'[b] \in {"replaced", "upserted", "projected"} => held[b] <= catalog'[ent[b]]
                      /\ at'[b] = "projected" => held[b] <= index[ent[b]]
    BY <1>1 DEF WritesArrive, OnlyMoves
  <2>1. CASE b = a
    BY <1>1, <1>3, <1>4, <2>1 DEF IInv, Typed
  <2>2. CASE b # a
    <3>1. at'[b] = at[b] /\ Writing(b)
      BY <1>1, <2>2 DEF OnlyMoves
    <3>2. {held[b], catalog[ent[b]], catalog'[ent[b]]} \subseteq Nat
      BY <1>2, <2>2 DEF IInv, Typed
    <3>3. QED
      BY <1>4, <3>1, <3>2 DEF IInv, WritesArrive
  <2>3. QED
    BY <2>1, <2>2
<1>8. LastWriteIsProjected'
  BY <1>1, MovingKeepsBearers DEF OnlyMoves, IInv, LastWriteIsProjected
<1>9. CatalogIsHeralded'
  <2>1. \A d \in Entities \ crossed : catalog[d] = db[d] => catalog'[d] = db[d]
    BY <1>2, <1>3, <1>4 DEF IInv, InOrder, Typed
  <2>2. QED
    BY <1>1, <2>1, MovingKeepsBearers DEF OnlyMoves, IInv, CatalogIsHeralded
<1>10. QED
  BY <1>1, <1>2, <1>4, <1>5, <1>6, <1>7, <1>8, <1>9, MovingKeepsBearers DEF IInv

LEMMA UpsertIndexKeeps ==
  ASSUME IInv, NEW a \in Actors, UpsertIndex(a)
  PROVE  IInv' /\ \A d \in Entities \ crossed : index[d] <= index'[d]
<1>1. /\ at[a] = "upserted" /\ at'[a] = "projected"
      /\ ent[a] \in Playlists /\ ent[a] \in Entities
      /\ index' = [index EXCEPT ![ent[a]] = held[a]] /\ OnlyMoves(a)
      /\ UNCHANGED <<catalog, ent, held, seed, unread, reload, owed>>
  BY EntitiesAssumption
  DEF UpsertIndex, Goto, Writing, OnlyMoves, IInv, WritersHaveEntities, Typed, clientVars, history
<1>2. Typed' /\ WritersHaveEntities'
  <2>1. Typed'
    BY <1>1 DEF UpsertIndex, Goto, IInv, Typed, Places, OnlyMoves
  <2>2. WritersHaveEntities'
    BY <1>1 DEF OnlyMoves, IInv, WritersHaveEntities
  <2>3. QED
    BY <2>1, <2>2
<1>3. ent[a] \notin crossed => /\ held[a] = db[ent[a]] /\ held[a] <= catalog[ent[a]]
                              /\ \A b \in Actors : b # a => ~Writing(b)
  BY <1>1, AloneWithPlaylist DEF OnlyMoves, IInv, WritesArrive
<1>4. \A d \in Entities \ crossed :
        /\ index[d] <= index'[d] /\ index'[d] <= catalog[d]
        /\ index'[d] = IF d = ent[a] THEN db[d] ELSE index[d]
  BY <1>1, <1>3 DEF IInv, Typed, InOrder
<1>5. InOrder' /\ ReloadersHoldTheMutex'
  BY <1>1, <1>4 DEF OnlyMoves, IInv, InOrder, ReloadersHoldTheMutex
<1>6. WritesArrive'
  <2> SUFFICES ASSUME NEW b \in Actors, Writing(b)', ent[b] \in Entities \ crossed
               PROVE  /\ ent[b] \in Playlists => held[b] = db[ent[b]]
                      /\ at'[b] = "loading" /\ ent[b] \notin unread[b] => held[b] <= seed[b][ent[b]]
                      /\ at'[b] \in {"replaced", "upserted", "projected"} => held[b] <= catalog[ent[b]]
                      /\ at'[b] = "projected" => held[b] <= index'[ent[b]]
    BY <1>1 DEF WritesArrive, OnlyMoves
  <2>1. CASE b = a
    BY <1>1, <1>3, <1>4, <2>1 DEF IInv, Typed
  <2>2. CASE b # a
    <3>1. at'[b] = at[b] /\ Writing(b)
      BY <1>1, <2>2 DEF OnlyMoves
    <3>2. {held[b], index[ent[b]], index'[ent[b]]} \subseteq Nat
      BY <1>2, <2>2 DEF IInv, Typed
    <3>3. QED
      BY <1>4, <3>1, <3>2 DEF IInv, WritesArrive
  <2>3. QED
    BY <2>1, <2>2
<1>7. LastWriteIsProjected'
  <2>1. \A d \in Entities \ crossed : index[d] = db[d] => index'[d] = db[d]
    BY <1>4
  <2>2. QED
    BY <1>1, <2>1, MovingKeepsBearers DEF OnlyMoves, IInv, LastWriteIsProjected
<1>8. CatalogIsHeralded'
  BY <1>1, MovingKeepsBearers DEF OnlyMoves, IInv, CatalogIsHeralded
<1>9. QED
  BY <1>1, <1>2, <1>4, <1>5, <1>6, <1>7, <1>8, MovingKeepsBearers DEF IInv

-----------------------------------------------------------------------------
(* The reload.                                                              *)

LEMMA LockReloadKeeps ==
  ASSUME IInv, NEW a \in Actors, LockReload(a)
  PROVE  IInv'
<1>1. /\ at[a] = "written" /\ at'[a] = "loading" /\ ent[a] \notin Playlists
      /\ reload = None /\ reload' = a /\ OnlyMoves(a)
      /\ unread'[a] = Entities /\ \A b \in Actors : b # a => unread'[b] = unread[b]
      /\ UNCHANGED <<catalog, index, ent, held, seed, owed>>
  BY DEF LockReload, Incremental, Unheld, Goto, Writing, OnlyMoves, IInv, Typed, projections, clientVars,
         history
<1>2. \A b \in Actors : at[b] \notin {"loading", "replaced"}
  BY <1>1, ActorsAssumption DEF IInv, ReloadersHoldTheMutex
<1>3. Typed' /\ WritersHaveEntities'
  <2>1. Typed'
    BY <1>1 DEF LockReload, Goto, IInv, Typed, Places, OnlyMoves
  <2>2. WritersHaveEntities'
    BY <1>1 DEF OnlyMoves, IInv, WritersHaveEntities
  <2>3. QED
    BY <2>1, <2>2
<1>4. ReloadersHoldTheMutex'
  BY <1>1, <1>2 DEF OnlyMoves, ReloadersHoldTheMutex
<1>5. InOrder'
  BY <1>1, <1>2 DEF OnlyMoves, IInv, InOrder
<1>6. WritesArrive'
  BY <1>1, <1>2 DEF OnlyMoves, IInv, WritesArrive
<1>7. LastWriteIsProjected'
  BY <1>1, MovingKeepsBearers DEF OnlyMoves, IInv, LastWriteIsProjected
<1>8. CatalogIsHeralded'
  BY <1>1, MovingKeepsBearers DEF OnlyMoves, IInv, CatalogIsHeralded
<1>9. QED
  BY <1>1, <1>3, <1>4, <1>5, <1>6, <1>7, <1>8, MovingKeepsBearers DEF IInv

LEMMA ReadTableKeeps ==
  ASSUME IInv, NEW a \in Actors, NEW e \in Entities, ReadTable(a, e)
  PROVE  IInv'
<1>1. /\ at[a] = "loading" /\ at'[a] = "loading" /\ OnlyMoves(a)
      /\ UNCHANGED <<catalog, index, at, ent, held, reload, owed>>
      /\ seed'[a] = [seed[a] EXCEPT ![e] = db[e]] /\ unread'[a] = unread[a] \ {e}
      /\ \A b \in Actors : b # a => seed'[b] = seed[b] /\ unread'[b] = unread[b]
  BY DEF ReadTable, Writing, OnlyMoves, IInv, Typed, projections, clientVars, history
<1>2. \A b \in Actors, d \in Entities : seed'[b][d] = IF b = a /\ d = e THEN db[d] ELSE seed[b][d]
  BY <1>1 DEF IInv, Typed
<1>3. Typed' /\ WritersHaveEntities'
  <2>1. Typed'
    BY <1>1 DEF ReadTable, IInv, Typed, OnlyMoves
  <2>2. WritersHaveEntities'
    BY <1>1 DEF OnlyMoves, IInv, WritersHaveEntities
  <2>3. QED
    BY <2>1, <2>2
<1>4. ReloadersHoldTheMutex'
  BY <1>1 DEF IInv, ReloadersHoldTheMutex
<1>5. InOrder'
  <2> SUFFICES ASSUME NEW d \in Entities \ crossed, NEW b \in Actors
               PROVE  /\ at[b] = "loading" /\ d \notin unread'[b]
                           => catalog[d] <= seed'[b][d] /\ seed'[b][d] <= db[d]
                      /\ at[b] = "replaced" => catalog[d] = seed'[b][d]
    BY <1>1 DEF OnlyMoves, IInv, InOrder
  <2>1. CASE b = a /\ d = e
    BY <1>1, <1>2, <2>1 DEF IInv, InOrder, Typed
  <2>2. CASE ~(b = a /\ d = e)
    BY <1>1, <1>2, <2>2 DEF IInv, InOrder
  <2>3. QED
    BY <2>1, <2>2
<1>6. WritesArrive'
  <2> SUFFICES ASSUME NEW b \in Actors, at[b] = "loading", ent[b] \in Entities \ crossed,
                      ent[b] \notin unread'[b]
               PROVE  held[b] <= seed'[b][ent[b]]
    BY <1>1 DEF OnlyMoves, IInv, WritesArrive
  <2>1. ent[b] \in Entities /\ held[b] <= db[ent[b]]
    BY DEF IInv, WritersHaveEntities, Writing
  <2>2. CASE b = a /\ ent[b] = e
    BY <1>2, <2>1, <2>2
  <2>3. CASE ~(b = a /\ ent[b] = e)
    BY <1>1, <1>2, <2>1, <2>3 DEF IInv, WritesArrive, Writing
  <2>4. QED
    BY <2>2, <2>3
<1>7. LastWriteIsProjected'
  BY <1>1, MovingKeepsBearers DEF OnlyMoves, IInv, LastWriteIsProjected
<1>8. CatalogIsHeralded'
  BY <1>1, MovingKeepsBearers DEF OnlyMoves, IInv, CatalogIsHeralded
<1>9. QED
  BY <1>1, <1>3, <1>4, <1>5, <1>6, <1>7, <1>8, MovingKeepsBearers DEF IInv

LEMMA ReplaceCatalogKeeps ==
  ASSUME IInv, NEW a \in Actors, ReplaceCatalog(a)
  PROVE  IInv' /\ \A d \in Entities \ crossed : catalog[d] <= catalog'[d]
<1>1. /\ at[a] = "loading" /\ at'[a] = "replaced" /\ ent[a] \notin Playlists
      /\ unread[a] = {} /\ catalog' = seed[a] /\ OnlyMoves(a)
      /\ UNCHANGED <<index, ent, held, seed, unread, reload, owed>>
  BY DEF ReplaceCatalog, AllRead, Goto, Writing, OnlyMoves, IInv, Typed, WritersHaveEntities, clientVars,
         history
<1>2. \A b \in Actors : b # a => at[b] \notin {"loading", "replaced"}
  BY <1>1 DEF IInv, ReloadersHoldTheMutex
<1>3. Typed' /\ WritersHaveEntities'
  <2>1. Typed'
    BY <1>1 DEF ReplaceCatalog, Goto, IInv, Typed, Places, OnlyMoves
  <2>2. WritersHaveEntities'
    BY <1>1 DEF OnlyMoves, IInv, WritersHaveEntities
  <2>3. QED
    BY <2>1, <2>2
<1>4. \A d \in Entities \ crossed :
        catalog[d] <= catalog'[d] /\ catalog'[d] <= db[d] /\ index[d] <= catalog'[d]
  BY <1>1 DEF IInv, InOrder, Typed
<1>5. ReloadersHoldTheMutex' /\ InOrder'
  BY <1>1, <1>2, <1>4 DEF OnlyMoves, IInv, ReloadersHoldTheMutex, InOrder
<1>6. WritesArrive'
  <2> SUFFICES ASSUME NEW b \in Actors, Writing(b)', ent[b] \in Entities \ crossed
               PROVE  /\ ent[b] \in Playlists => held[b] = db[ent[b]]
                      /\ at'[b] = "loading" /\ ent[b] \notin unread[b] => held[b] <= seed[b][ent[b]]
                      /\ at'[b] \in {"replaced", "upserted", "projected"} => held[b] <= catalog'[ent[b]]
                      /\ at'[b] = "projected" => held[b] <= index[ent[b]]
    BY <1>1 DEF WritesArrive, OnlyMoves
  <2>1. CASE b = a
    BY <1>1, <2>1 DEF IInv, WritesArrive, OnlyMoves
  <2>2. CASE b # a
    <3>1. at'[b] = at[b] /\ Writing(b)
      BY <1>1, <2>2 DEF OnlyMoves
    <3>2. {held[b], catalog[ent[b]], catalog'[ent[b]]} \subseteq Nat
      BY <1>3, <2>2 DEF IInv, Typed
    <3>3. QED
      BY <1>4, <3>1, <3>2 DEF IInv, WritesArrive
  <2>3. QED
    BY <2>1, <2>2
<1>7. LastWriteIsProjected'
  BY <1>1, MovingKeepsBearers DEF OnlyMoves, IInv, LastWriteIsProjected
<1>8. CatalogIsHeralded'
  <2>1. \A d \in Entities \ crossed : catalog[d] = db[d] => catalog'[d] = db[d]
    BY <1>2, <1>3, <1>4 DEF IInv, InOrder, Typed
  <2>2. QED
    BY <1>1, <2>1, MovingKeepsBearers DEF OnlyMoves, IInv, CatalogIsHeralded
<1>9. QED
  BY <1>1, <1>3, <1>4, <1>5, <1>6, <1>7, <1>8, MovingKeepsBearers DEF IInv

\* The index is built from the seed that the catalog was given.
LEMMA RebuildIndexKeeps ==
  ASSUME IInv, NEW a \in Actors, RebuildIndex(a)
  PROVE  IInv' /\ \A d \in Entities \ crossed : index[d] <= index'[d]
<1>1. /\ at[a] = "replaced" /\ at'[a] = "projected" /\ ent[a] \notin Playlists
      /\ index' = seed[a] /\ reload' = None /\ OnlyMoves(a)
      /\ \A b \in Actors : b # a => seed'[b] = seed[b]
      /\ owed' = {d \in owed : seed[a][d] # db[d]}
      /\ UNCHANGED <<catalog, ent, held, unread>>
  BY DEF RebuildIndex, Indexed, Goto, Writing, OnlyMoves, IInv, Typed, WritersHaveEntities, clientVars,
         history
<1>2. \A b \in Actors : at'[b] \notin {"loading", "replaced"}
  BY <1>1 DEF IInv, ReloadersHoldTheMutex, OnlyMoves
<1>3. Typed' /\ WritersHaveEntities'
  <2>1. Typed'
    BY <1>1 DEF RebuildIndex, Goto, IInv, Typed, Places, OnlyMoves
  <2>2. WritersHaveEntities'
    BY <1>1 DEF OnlyMoves, IInv, WritersHaveEntities
  <2>3. QED
    BY <2>1, <2>2
<1>4. \A d \in Entities \ crossed : index[d] <= index'[d] /\ index'[d] = catalog[d]
  BY <1>1 DEF IInv, InOrder, Typed
<1>5. ReloadersHoldTheMutex' /\ InOrder'
  BY <1>1, <1>2, <1>4, ActorsAssumption DEF OnlyMoves, IInv, ReloadersHoldTheMutex, InOrder, Typed
<1>6. WritesArrive'
  <2> SUFFICES ASSUME NEW b \in Actors, Writing(b)', ent[b] \in Entities \ crossed
               PROVE  /\ ent[b] \in Playlists => held[b] = db[ent[b]]
                      /\ at'[b] \in {"upserted", "projected"} => held[b] <= catalog[ent[b]]
                      /\ at'[b] = "projected" => held[b] <= index'[ent[b]]
    BY <1>1, <1>2 DEF WritesArrive, OnlyMoves
  <2>1. CASE b = a
    BY <1>1, <1>4, <2>1 DEF IInv, WritesArrive, OnlyMoves
  <2>2. CASE b # a
    <3>1. at'[b] = at[b] /\ Writing(b)
      BY <1>1, <2>2 DEF OnlyMoves
    <3>2. {held[b], index[ent[b]], index'[ent[b]]} \subseteq Nat
      BY <1>3, <2>2 DEF IInv, Typed
    <3>3. QED
      BY <1>4, <3>1, <3>2 DEF IInv, WritesArrive
  <2>3. QED
    BY <2>1, <2>2
<1>7. LastWriteIsProjected'
  <2>1. \A d \in Entities \ crossed : index[d] = db[d] => index'[d] = db[d]
    BY <1>4 DEF IInv, InOrder, Typed
  <2>2. \A d \in Entities : d \in owed /\ d \notin owed' => index'[d] = db[d]
    BY <1>1
  <2>3. QED
    BY <1>1, <2>1, <2>2, MovingKeepsBearers DEF OnlyMoves, IInv, LastWriteIsProjected
<1>8. CatalogIsHeralded'
  BY <1>1, MovingKeepsBearers DEF OnlyMoves, IInv, CatalogIsHeralded
<1>9. QED
  BY <1>1, <1>3, <1>4, <1>5, <1>6, <1>7, <1>8, MovingKeepsBearers DEF IInv

-----------------------------------------------------------------------------
(* The end of a write.                                                      *)

\* What a step of the actor a leaves alone, if it ends what a is doing.
OnlyEnds(a) ==
  /\ \A b \in Actors : b # a => /\ at'[b] = at[b] /\ ent'[b] = ent[b] /\ held'[b] = held[b]
                               /\ Writing(b)' = Writing(b)
  /\ at[a] # "idle" /\ at'[a] = "idle" /\ ent'[a] = None /\ ~Writing(a)'
  /\ at' \in [Actors -> Places] /\ ent' \in [Actors -> Entities \cup {None}]
  /\ held' \in [Actors -> Nat]
  /\ UNCHANGED <<db, catalog, index, view, crossed>>

LEMMA EndEnds ==
  ASSUME IInv, NEW a \in Actors, End(a), at[a] # "idle",
         UNCHANGED <<db, catalog, index, view, crossed>>
  PROVE  OnlyEnds(a)
<1>1. /\ at' = [at EXCEPT ![a] = "idle"] /\ ent' = [ent EXCEPT ![a] = None]
      /\ held' = [held EXCEPT ![a] = 0]
  BY DEF End, Goto
<1>2. /\ at' \in [Actors -> Places] /\ ent' \in [Actors -> Entities \cup {None}]
      /\ held' \in [Actors -> Nat]
  BY <1>1 DEF IInv, Typed, Places
<1>3. /\ at'[a] = "idle" /\ ent'[a] = None
      /\ \A b \in Actors : b # a => at'[b] = at[b] /\ ent'[b] = ent[b] /\ held'[b] = held[b]
  BY <1>1 DEF IInv, Typed
<1>4. QED
  BY <1>2, <1>3 DEF OnlyEnds, Writing

LEMMA EndingKeeps ==
  ASSUME IInv, NEW a \in Actors, OnlyEnds(a)
  PROVE  /\ WritersHaveEntities' /\ UncrossedIsAlone'
         /\ \A e \in Entities, b \in Actors : Bears(b, e) /\ b # a => Bears(b, e)'
<1>1. WritersHaveEntities'
  <2> SUFFICES ASSUME NEW b \in Actors
               PROVE  /\ at'[b] = "idle" => ent'[b] = None
                      /\ Writing(b)' /\ ent'[b] \in Entities => held'[b] <= db[ent'[b]]
                      /\ at'[b] \in {"fetched", "upserted"} => ent'[b] \in Playlists
                      /\ at'[b] \in {"loading", "replaced"} => ent'[b] \notin Playlists
    BY DEF OnlyEnds, WritersHaveEntities
  <2>1. CASE b = a
    BY <2>1 DEF OnlyEnds
  <2>2. CASE b # a
    BY <2>2 DEF OnlyEnds, IInv, WritersHaveEntities
  <2>3. QED
    BY <2>1, <2>2
<1>2. UncrossedIsAlone'
  BY DEF OnlyEnds, IInv, UncrossedIsAlone
<1>3. \A e \in Entities, b \in Actors : Bears(b, e) /\ b # a => Bears(b, e)'
  BY DEF OnlyEnds, Bears
<1>4. QED
  BY <1>1, <1>2, <1>3

\* A commit that is left owes its row to a reload and to the clients.
LEMMA LeaveKeeps ==
  ASSUME IInv, NEW a \in Actors, Leave(a), at[a] \in {"written", "loading"},
         reload' = IF at[a] = "loading" THEN None ELSE reload,
         seed' \in [Actors -> [Entities -> Nat]], unread' \in [Actors -> SUBSET Entities],
         \A b \in Actors : b # a => seed'[b] = seed[b] /\ unread'[b] = unread[b]
  PROVE  IInv'
<1>1. OnlyEnds(a) /\ UNCHANGED <<queue, missed>>
  <2>1. End(a) /\ UNCHANGED <<db, catalog, index, view, crossed, queue, missed>>
    BY DEF Leave, projections, clientVars
  <2>2. QED
    BY <2>1, EndEnds
<1>2. Typed'
  BY <1>1 DEF IInv, Typed, OnlyEnds
<1>3. ReloadersHoldTheMutex'
  BY <1>1, ActorsAssumption DEF OnlyEnds, IInv, ReloadersHoldTheMutex
<1>4. InOrder' /\ WritesArrive'
  <2>1. InOrder'
    BY <1>1 DEF OnlyEnds, IInv, InOrder
  <2>2. WritesArrive'
    BY <1>1 DEF OnlyEnds, IInv, WritesArrive
  <2>3. QED
    BY <2>1, <2>2
<1>5. \A e \in Entities : /\ e \notin owed' => e \notin owed /\ ~Bears(a, e)
                          /\ e \notin untold' => e \notin untold /\ ~Bears(a, e)
  BY EntitiesAssumption DEF Bears, Leave
<1>6. LastWriteIsProjected'
  BY <1>1, <1>5, EndingKeeps DEF OnlyEnds, IInv, LastWriteIsProjected
<1>7. \A e \in Entities : e \notin untold' /\ Heralded(e) => Heralded(e)'
  BY <1>1, <1>5, EndingKeeps DEF Heralded
<1>8. CatalogIsHeralded' /\ LastWriteIsTold'
  BY <1>1, <1>5, <1>7 DEF OnlyEnds, IInv, CatalogIsHeralded, LastWriteIsTold, Listed
<1>9. QED
  BY <1>1, <1>2, <1>3, <1>4, <1>6, <1>8, EndingKeeps DEF IInv

LEMMA AbortKeeps ==
  ASSUME IInv, NEW a \in Actors, AbortCommit(a)
  PROVE  IInv'
<1>1. /\ at[a] \in {"written", "loading"} /\ Leave(a)
      /\ reload' = IF at[a] = "loading" THEN None ELSE reload
      /\ seed' = [seed EXCEPT ![a] = [e \in Entities |-> 0]]
      /\ unread' = [unread EXCEPT ![a] = {}]
  BY DEF AbortCommit
<1>2. /\ seed' \in [Actors -> [Entities -> Nat]] /\ unread' \in [Actors -> SUBSET Entities]
      /\ \A b \in Actors : b # a => seed'[b] = seed[b] /\ unread'[b] = unread[b]
  BY <1>1 DEF IInv, Typed
<1>3. QED
  BY <1>1, <1>2, LeaveKeeps

LEMMA DeferKeeps ==
  ASSUME IInv, NEW a \in Actors, Defer(a)
  PROVE  IInv'
<1>1. at[a] = "written" /\ Leave(a) /\ UNCHANGED <<seed, unread, reload>>
  BY DEF Defer
<1>2. seed' \in [Actors -> [Entities -> Nat]] /\ unread' \in [Actors -> SUBSET Entities]
  BY <1>1 DEF IInv, Typed
<1>3. QED
  BY <1>1, <1>2, LeaveKeeps

\* Whoever is told of something is told, or misses it; what was queued stays queued; and
\* what is told now was there to be refetched.
LEMMA SendTells ==
  ASSUME IInv, NEW n \in Entities \cup {None}, Send(n)
  PROVE  /\ queue' \in [Clients -> Seq(Entities \cup {None})] /\ missed' \in [Clients -> BOOLEAN]
         /\ \A c \in Clients, e \in Entities :
              /\ Covers(n, e) => missed'[c] \/ Listed(c, e)'
              /\ missed[c] => missed'[c]
              /\ Listed(c, e) => Listed(c, e)'
         /\ \A e \in untold : e \in untold' \/ (Covers(n, e) /\ catalog[e] = db[e])
<1>1. queue \in [Clients -> Seq(Entities \cup {None})] /\ missed \in [Clients -> BOOLEAN]
  BY DEF IInv, Typed
<1>2. ASSUME NEW c \in Clients, HasRoom(c), NEW e \in Entities
      PROVE  /\ Covers(n, e) => Listed(c, e)'
             /\ Listed(c, e) => Listed(c, e)'
  <2>1. queue'[c] = Append(queue[c], n) /\ queue[c] \in Seq(Entities \cup {None})
    BY <1>1, <1>2 DEF Send
  <2>2. /\ Len(queue'[c]) = Len(queue[c]) + 1 /\ Len(queue[c]) \in Nat
        /\ queue'[c][Len(queue[c]) + 1] = n
        /\ \A i \in 1 .. Len(queue[c]) : queue'[c][i] = queue[c][i]
    BY <2>1
  <2>3. QED
    BY <2>2 DEF Listed, Covers
<1>3. ASSUME NEW c \in Clients, ~HasRoom(c)
      PROVE  missed'[c] /\ queue'[c] = queue[c]
  BY <1>3 DEF Send
<1>4. /\ queue' \in [Clients -> Seq(Entities \cup {None})] /\ missed' \in [Clients -> BOOLEAN]
      /\ \A c \in Clients : missed[c] => missed'[c]
  BY <1>1 DEF Send, HasRoom
<1>5. \A e \in untold : e \in untold' \/ (Covers(n, e) /\ catalog[e] = db[e])
  BY DEF Send, IInv, Typed
<1>6. QED
  BY <1>2, <1>3, <1>4, <1>5 DEF Listed

LEMMA SendKeeps ==
  ASSUME IInv, NEW a \in Actors, OnlyEnds(a), NEW n \in Entities \cup {None}, Send(n),
         \A e \in Entities \ crossed : Bears(a, e) => Covers(n, e) /\ catalog[e] = db[e]
  PROVE  CatalogIsHeralded' /\ LastWriteIsTold'
<1>1. UNCHANGED <<db, catalog, index, view, crossed>>
  BY DEF OnlyEnds
<1>2. \A e \in Entities \ crossed : \/ Heralded(e) => Heralded(e)'
                                    \/ Covers(n, e) /\ catalog[e] = db[e]
  BY EndingKeeps DEF Heralded
<1>3. ASSUME NEW e \in Entities \ (untold' \cup crossed)
      PROVE  catalog[e] = db[e] \/ Heralded(e)'
  <2>1. CASE e \in untold
    BY <1>3, <2>1, SendTells
  <2>2. CASE e \notin untold
    BY <1>2, <1>3, <2>2 DEF IInv, CatalogIsHeralded
  <2>3. QED
    BY <2>1, <2>2
<1>4. ASSUME NEW e \in Entities \ (untold' \cup crossed), NEW c \in Clients
      PROVE  view[c][e] = db[e] \/ missed'[c] \/ Listed(c, e)' \/ Heralded(e)'
  <2>1. CASE e \in untold
    BY <1>4, <2>1, SendTells
  <2>2. CASE e \notin untold
    BY <1>2, <1>4, <2>2, SendTells DEF IInv, LastWriteIsTold
  <2>3. QED
    BY <2>1, <2>2
<1>5. QED
  BY <1>1, <1>3, <1>4 DEF CatalogIsHeralded, LastWriteIsTold

\* At the end of its commit a write is projected.
LEMMA ProjectedIsThere ==
  ASSUME IInv, NEW a \in Actors, at[a] = "projected", NEW e \in Entities \ crossed, Bears(a, e)
  PROVE  index[e] = db[e] /\ catalog[e] = db[e]
<1>1. ent[a] = e /\ held[a] = db[e] /\ Writing(a)
  BY DEF Bears
<1>2. held[a] <= index[e]
  BY <1>1 DEF IInv, WritesArrive
<1>3. index[e] <= catalog[e] /\ catalog[e] <= db[e]
  BY DEF IInv, InOrder
<1>4. db[e] \in Nat /\ catalog[e] \in Nat /\ index[e] \in Nat
  BY DEF IInv, Typed
<1>5. QED
  BY <1>1, <1>2, <1>3, <1>4

\* What an end keeps of the rest.
LEMMA EndOfCommitKeeps ==
  ASSUME IInv, NEW a \in Actors, OnlyEnds(a), at[a] \in {"projected", "kept"},
         UNCHANGED <<seed, unread, reload, owed>>
  PROVE  /\ ReloadersHoldTheMutex' /\ InOrder' /\ WritesArrive' /\ LastWriteIsProjected'
<1>1. ReloadersHoldTheMutex' /\ InOrder' /\ WritesArrive'
  BY DEF OnlyEnds, IInv, ReloadersHoldTheMutex, InOrder, WritesArrive
<1>2. \A e \in Entities \ crossed : Bears(a, e) => index[e] = db[e]
  BY ProjectedIsThere DEF Bears, Writing
<1>3. LastWriteIsProjected'
  BY <1>2, EndingKeeps DEF OnlyEnds, IInv, LastWriteIsProjected
<1>4. QED
  BY <1>1, <1>3

LEMMA PublishKeeps ==
  ASSUME IInv, NEW a \in Actors, Publish(a)
  PROVE  IInv'
<1>1. at[a] = "projected" /\ UNCHANGED <<seed, unread, reload, owed>> /\ OnlyEnds(a)
  <2>1. /\ at[a] = "projected" /\ End(a)
        /\ UNCHANGED <<db, catalog, index, view, crossed, seed, unread, reload, owed>>
    BY DEF Publish, projections
  <2>2. QED
    BY <2>1, EndEnds
<1>2. \A e \in Entities \ crossed : Bears(a, e) => Covers(ent[a], e) /\ catalog[e] = db[e]
  BY <1>1, ProjectedIsThere DEF Bears, Covers
<1>3. /\ queue' \in [Clients -> Seq(Entities \cup {None})] /\ missed' \in [Clients -> BOOLEAN]
      /\ CatalogIsHeralded' /\ LastWriteIsTold'
  <2>1. CASE Tells(a)
    <3>1. PICK n \in Entities \cup {None} : n = ent[a] /\ Send(n)
      BY <2>1 DEF Publish, IInv, Typed
    <3>2. QED
      BY <1>1, <1>2, <3>1, SendTells, SendKeeps
  <2>2. CASE ~Tells(a)
    <3>1. a \in Scanners /\ UNCHANGED <<queue, missed, untold>>
      BY <2>2 DEF Tells, Publish
    <3>2. \A e \in Entities : Heralded(e) => Heralded(e)'
      BY <1>1, <3>1, EndingKeeps DEF Heralded
    <3>3. CatalogIsHeralded' /\ LastWriteIsTold'
      BY <1>1, <3>1, <3>2 DEF OnlyEnds, IInv, CatalogIsHeralded, LastWriteIsTold, Listed
    <3>4. QED
      BY <3>1, <3>3 DEF IInv, Typed
  <2>3. QED
    BY <2>1, <2>2
<1>4. Typed'
  BY <1>1, <1>3 DEF IInv, Typed, OnlyEnds
<1>5. QED
  BY <1>1, <1>3, <1>4, EndingKeeps, EndOfCommitKeeps DEF IInv

\* A notification of the library that no projection preceded takes nothing from anybody.
LEMMA PublishKeptKeeps ==
  ASSUME IInv, NEW a \in Actors, PublishKept(a)
  PROVE  IInv'
<1>1. /\ at[a] = "kept" /\ UNCHANGED <<seed, unread, reload, owed>>
      /\ OnlyEnds(a) /\ Send(None)
  <2>1. /\ at[a] = "kept" /\ End(a) /\ Send(None)
        /\ UNCHANGED <<db, catalog, index, view, crossed, seed, unread, reload, owed>>
    BY DEF PublishKept, projections
  <2>2. QED
    BY <2>1, EndEnds
<1>2. /\ queue' \in [Clients -> Seq(Entities \cup {None})] /\ missed' \in [Clients -> BOOLEAN]
      /\ CatalogIsHeralded' /\ LastWriteIsTold'
  <2>1. \A e \in Entities : ~Bears(a, e)
    BY <1>1 DEF Bears, Writing
  <2>2. PICK n \in Entities \cup {None} : n = None
    OBVIOUS
  <2>3. Send(n)
    BY <1>1, <2>2
  <2>4. QED
    BY <1>1, <2>1, <2>3, SendTells, SendKeeps
<1>3. Typed'
  BY <1>1, <1>2 DEF IInv, Typed, OnlyEnds
<1>4. QED
  BY <1>1, <1>2, <1>3, EndingKeeps, EndOfCommitKeeps DEF IInv

-----------------------------------------------------------------------------
(* The clients.                                                             *)

\* A step of a client moves nothing but what that client holds, and the bound's counter.
LEMMA ClientKeeps ==
  ASSUME IInv, UNCHANGED <<db, projections, actorVars, reload, history>>,
         queue' \in [Clients -> Seq(Entities \cup {None})], view' \in [Clients -> [Entities -> Nat]],
         missed' \in [Clients -> BOOLEAN], LastWriteIsTold'
  PROVE  IInv'
<1>1. UNCHANGED <<db, catalog, index, at, ent, held, seed, unread, reload, crossed, owed, untold>>
  BY DEF projections, actorVars, history
<1>2. Typed'
  BY <1>1 DEF IInv, Typed
<1>3. WritersHaveEntities' /\ ReloadersHoldTheMutex' /\ UncrossedIsAlone' /\ InOrder'
        /\ WritesArrive'
  BY <1>1 DEF IInv, WritersHaveEntities, ReloadersHoldTheMutex, UncrossedIsAlone, InOrder,
              WritesArrive, Writing
<1>4. LastWriteIsProjected' /\ CatalogIsHeralded'
  BY <1>1 DEF IInv, LastWriteIsProjected, CatalogIsHeralded, Heralded, Bears, Writing
<1>5. QED
  BY <1>2, <1>3, <1>4 DEF IInv

LEMMA RefetchKeeps ==
  ASSUME IInv, NEW c \in Clients, Refetch(c)
  PROVE  IInv'
<1> DEFINE h == Head(queue[c])
<1>1. queue[c] \in Seq(Entities \cup {None}) /\ queue[c] # <<>> /\ h \in Entities \cup {None}
  <2>1. queue[c] \in Seq(Entities \cup {None}) /\ queue[c] # <<>>
    BY DEF Refetch, IInv, Typed
  <2>2. QED
    BY <2>1, HeadTailProperties
<1>2. /\ Tail(queue[c]) \in Seq(Entities \cup {None})
      /\ \A e \in Entities : Listed(c, e) /\ ~Covers(h, e)
           => \E i \in 1 .. Len(Tail(queue[c])) : Covers(Tail(queue[c])[i], e)
  <2>1. /\ Tail(queue[c]) \in Seq(Entities \cup {None}) /\ Len(Tail(queue[c])) = Len(queue[c]) - 1
        /\ \A i \in 1 .. Len(queue[c]) - 1 : Tail(queue[c])[i] = queue[c][i + 1]
    BY <1>1
  <2>2. ASSUME NEW e \in Entities, NEW i \in 1 .. Len(queue[c]), Covers(queue[c][i], e), ~Covers(h, e)
        PROVE  \E k \in 1 .. Len(Tail(queue[c])) : Covers(Tail(queue[c])[k], e)
    <3>1. i # 1
      BY <1>1, <2>2
    <3>2. i - 1 \in 1 .. Len(queue[c]) - 1 /\ (i - 1) + 1 = i
      BY <1>1, <3>1
    <3>3. QED
      BY <2>1, <2>2, <3>2
  <2>3. QED
    BY <2>1, <2>2 DEF Listed
<1>3. /\ queue' = [queue EXCEPT ![c] = Tail(queue[c])]
      /\ view' = [view EXCEPT ![c] = 
           [e \in Entities |-> IF Covers(h, e) THEN catalog[e] ELSE view[c][e]]]
      /\ UNCHANGED <<missed, db, catalog, index, at, ent, held, crossed, owed, untold>>
  BY <1>1 DEF Refetch, IInv, Typed, projections, actorVars, history
<1>4. queue' \in [Clients -> Seq(Entities \cup {None})] /\ view' \in [Clients -> [Entities -> Nat]]
  BY <1>1, <1>2, <1>3 DEF IInv, Typed
<1>5. LastWriteIsTold'
  <2> SUFFICES ASSUME NEW b \in Clients, NEW e \in Entities \ (untold \cup crossed)
               PROVE  \/ view'[b][e] = db[e] \/ missed[b] \/ Listed(b, e)' \/ Heralded(e)
    BY <1>3 DEF LastWriteIsTold, Heralded, Bears, Writing
  <2>1. CASE b # c
    BY <1>3, <2>1 DEF IInv, Typed, LastWriteIsTold, Listed
  <2>2. CASE b = c /\ Covers(h, e)
    BY <1>1, <1>3, <2>2 DEF IInv, Typed, CatalogIsHeralded
  <2>3. CASE b = c /\ ~Covers(h, e)
    <3>1. view'[b][e] = view[b][e] /\ queue'[b] = Tail(queue[c])
      BY <1>1, <1>3, <2>3 DEF IInv, Typed
    <3>2. QED
      BY <1>2, <2>3, <3>1 DEF IInv, LastWriteIsTold, Listed
  <2>4. QED
    BY <2>1, <2>2, <2>3
<1>6. QED
  BY <1>3, <1>4, <1>5, ClientKeeps DEF Refetch, IInv, Typed

LEMMA ReconcileKeeps ==
  ASSUME IInv, NEW c \in Clients, Reconcile(c)
  PROVE  IInv'
<1>1. /\ queue' = [queue EXCEPT ![c] = <<>>] /\ view' = [view EXCEPT ![c] = catalog]
      /\ missed' = [missed EXCEPT ![c] = FALSE]
      /\ UNCHANGED <<db, catalog, at, ent, held, crossed, owed, untold>>
  BY DEF Reconcile, projections, actorVars, history
<1>2. /\ queue' \in [Clients -> Seq(Entities \cup {None})] /\ view' \in [Clients -> [Entities -> Nat]]
      /\ missed' \in [Clients -> BOOLEAN]
  BY <1>1 DEF IInv, Typed
<1>3. LastWriteIsTold'
  <2> SUFFICES ASSUME NEW b \in Clients, NEW e \in Entities \ (untold \cup crossed)
               PROVE  \/ view'[b][e] = db[e] \/ missed'[b] \/ Listed(b, e)' \/ Heralded(e)
    BY <1>1 DEF LastWriteIsTold, Heralded, Bears, Writing
  <2>1. CASE b = c
    BY <1>1, <2>1 DEF IInv, Typed, CatalogIsHeralded
  <2>2. CASE b # c
    BY <1>1, <2>2 DEF IInv, Typed, LastWriteIsTold, Listed
  <2>3. QED
    BY <2>1, <2>2
<1>4. QED
  BY <1>2, <1>3, ClientKeeps DEF Reconcile

-----------------------------------------------------------------------------
\* The inductive invariant holds in every reachable state: of the writes, the two ways to
\* project them, the notifications, and the clients.
LEMMA StepKeeps == IInv /\ [Next]_vars => IInv'
<1> SUFFICES ASSUME IInv, [Next]_vars PROVE IInv'
  OBVIOUS
<1>1. ASSUME NEW a \in Actors, Begin(a)
      PROVE  IInv'
  BY <1>1, WriteKeeps, CallKeeps DEF Begin
<1>2. ASSUME NEW a \in Actors, Commit(a)
      PROVE  IInv'
  BY <1>2, FetchRowKeeps, UpsertCatalogKeeps, UpsertIndexKeeps, LockReloadKeeps, ReadTableKeeps,
     ReplaceCatalogKeeps, RebuildIndexKeeps, PublishKeeps, PublishKeptKeeps DEF Commit
<1>3. ASSUME NEW a \in Actors, AbortCommit(a) \/ Defer(a)
      PROVE  IInv'
  BY <1>3, AbortKeeps, DeferKeeps
<1>4. ASSUME NEW c \in Clients, Refetch(c) \/ Reconcile(c)
      PROVE  IInv'
  BY <1>4, RefetchKeeps, ReconcileKeeps
<1>5. CASE UNCHANGED vars
  <2>1. UNCHANGED <<db, catalog, index, at, ent, held, seed, unread, reload, queue, view, missed,
                    crossed, owed, untold>>
    BY <1>5 DEF vars, projections, actorVars, clientVars, history
  <2>2. LastWriteIsTold' /\ Typed'
    BY <2>1 DEF IInv, LastWriteIsTold, Listed, Heralded, Bears, Writing, Typed
  <2>3. QED
    BY <2>1, <2>2, ClientKeeps DEF projections, actorVars, history, Typed
<1>6. QED
  BY <1>1, <1>2, <1>3, <1>4, <1>5 DEF Next

THEOREM ProjectionInvariant == Spec => []IInv
BY InitHolds, StepKeeps, PTL DEF Spec

\* When no write is under way, readers see what the database holds: whatever overtook what
\* before, but for playlists that were written together and the rows of commits that were
\* given up or deferred, and that no reload has read since.
THEOREM TheQuietProjectionIsCurrent == Spec => []QuietIsCurrent
<1>1. IInv => QuietIsCurrent
  BY DEF IInv, LastWriteIsProjected, InOrder, Typed, Bears, QuietIsCurrent, Quiet
<1>2. QED
  BY <1>1, ProjectionInvariant, PTL

\* A client that has handled all it was sent, and was sent everything, shows the database.
THEOREM QuietClientsShowTheDatabase == Spec => []QuietClientsAreCurrent
<1>1. IInv => QuietClientsAreCurrent
  BY DEF IInv, LastWriteIsTold, Listed, Heralded, Bears, QuietClientsAreCurrent, CaughtUp, Quiet
<1>2. QED
  BY <1>1, ProjectionInvariant, PTL

\* No reader sees an entity go back, in either projection, at any step.
THEOREM ReadersNeverGoBack == Spec => ProjectionNeverRegresses
<1>1. ASSUME IInv, [Next]_vars
      PROVE  \A e \in Entities \ crossed : catalog'[e] >= catalog[e] /\ index'[e] >= index[e]
  <2> SUFFICES \A e \in Entities \ crossed : catalog[e] <= catalog'[e] /\ index[e] <= index'[e]
    BY <1>1, StepKeeps DEF IInv, Typed
  <2>1. CASE UNCHANGED projections
    BY <1>1, <2>1 DEF projections, IInv, Typed
  <2>2. ASSUME NEW a \in Actors, UpsertCatalog(a) \/ ReplaceCatalog(a)
        PROVE  \A e \in Entities \ crossed : catalog[e] <= catalog'[e] /\ index[e] <= index'[e]
    <3>1. index' = index
      BY <2>2 DEF UpsertCatalog, ReplaceCatalog
    <3>2. QED
      BY <1>1, <2>2, <3>1, UpsertCatalogKeeps, ReplaceCatalogKeeps DEF IInv, Typed
  <2>3. ASSUME NEW a \in Actors, UpsertIndex(a) \/ RebuildIndex(a)
        PROVE  \A e \in Entities \ crossed : catalog[e] <= catalog'[e] /\ index[e] <= index'[e]
    <3>1. catalog' = catalog
      BY <2>3 DEF UpsertIndex, RebuildIndex
    <3>2. QED
      BY <1>1, <2>3, <3>1, UpsertIndexKeeps, RebuildIndexKeeps DEF IInv, Typed
  <2>4. QED
    BY <1>1, <2>1, <2>2, <2>3
    DEF Next, vars, Begin, Commit, Write, Reload, Keep, FetchRow, LockReload, ReadTable, AbortCommit,
        Defer, Leave, Publish, PublishKept, Refetch, Reconcile
<1>2. QED
  BY <1>1, ProjectionInvariant, PTL DEF Spec, ProjectionNeverRegresses

\* Whoever refetches because of a notification finds the write it is about, or a later one.
THEOREM WhatIsToldIsThere == Spec => NotifiedIsProjected
<1>1. ASSUME IInv, [Next]_vars
      PROVE  \A a \in Actors :
               (at[a] = "projected" /\ at'[a] = "idle" /\ ent[a] \in Entities \ crossed)
                 => (catalog[ent[a]] >= held[a] /\ index[ent[a]] >= held[a])
  BY <1>1 DEF IInv, Typed, WritesArrive, Writing
<1>2. QED
  BY <1>1, ProjectionInvariant, PTL DEF Spec, NotifiedIsProjected
=============================================================================
