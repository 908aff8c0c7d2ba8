--------------------------- MODULE MCLibraryWatch ---------------------------
(* A music library of two folders and a book library of one.                *)
EXTENDS LibraryWatch, TLC

CONSTANTS f1, f2, f3, music, books

mcFolders   == {f1, f2, f3}
mcTwoFolders == {f1, f3}
mcLibraries == {music, books}
mcLibraryOf == (f1 :> music) @@ (f2 :> music) @@ (f3 :> books)
mcTwoLibraryOf == (f1 :> music) @@ (f3 :> books)

Asking(scope, library, folders) == [scope |-> scope, library |-> library, paths |-> folders]

mcRequests ==
  [scope : Scopes, library : mcLibraries \cup {NoRequest}, paths : SUBSET Folders]

\* A full scan never matches what the watcher asks for; a subpath scan of the
\* music library, such as the one that shows a kept track, does.
mcFullScan == {Asking("all", NoRequest, {})}
mcKeepScan == {Asking("subpaths", music, {f1})}
=============================================================================
