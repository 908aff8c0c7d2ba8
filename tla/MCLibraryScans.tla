--------------------------- MODULE MCLibraryScans ---------------------------
(* Two folders, so that a walk can be cut short between them, and the       *)
(* request for everything: what a caller is answered changes no state here, *)
(* and who joins whom is the watcher's run.                                 *)
EXTENDS LibraryScans, TLC

CONSTANTS f1, f2, music, books

mcFolders   == {f1, f2}
mcLibraries == {music, books}
mcLibraryOf == (f1 :> music) @@ (f2 :> books)
mcRequests  == {[scope |-> "all", library |-> NoRequest, paths |-> {}]}
=============================================================================
