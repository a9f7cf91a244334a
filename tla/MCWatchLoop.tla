---------------------------- MODULE MCWatchLoop ----------------------------
(***************************************************************************)
(* One or two source files, a temporary name an editor renames from, and a *)
(* file a build writes: source by its name and ignored by its place.       *)
(***************************************************************************)
EXTENDS WatchLoop

Files == {"app.py", "db.ts"}
MCPath == Files \cup {".app.py.swp", "dist/app.js"}
MCSourceExt == Files \cup {"dist/app.js"}
MCIgnored == {"dist/app.js"}
MCOnly == {"any", "test_integrity"}
=============================================================================
