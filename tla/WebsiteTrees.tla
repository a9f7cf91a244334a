--------------------------- MODULE WebsiteTrees ---------------------------
(***************************************************************************)
(* The trees the website reads.  A repository is fetched into a temporary  *)
(* directory for the life of one request; a local Tainted also reads a     *)
(* directory in place.  The analyses of fetched trees are cached.  Requests*)
(* run side by side while people push and save, and the process may end.   *)
(***************************************************************************)
EXTENDS Integers, Sequences, SequencesExt

CONSTANTS
    Repo,      \* repositories on GitHub
    Folder,    \* directories on the machine the website runs on
    Slot,      \* requests served at a time
    None,
    CacheMax,  \* _ANALYSIS_CACHE_MAX
    MaxPaths, MaxVersion, MaxProcess  \* bounds of the instance

ASSUME TreesAssumption ==
    /\ Repo \cap Folder = {} /\ None \notin Repo \cup Folder
    /\ CacheMax \in Nat \ {0}
    /\ {MaxPaths, MaxVersion, MaxProcess} \subseteq Nat

Source == Repo \cup Folder
Kind == {"analyze", "fix", "prove"}

VARIABLES
    local,   \* TAINTED_LOCAL_MODE
    process, \* which process serves
    head,    \* the version of each repository and directory
    req,     \* what each slot is serving
    made,    \* temporary directories made so far
    disk,    \* those that are still there
    strays,  \* those whose request could not remove them (history)
    cache    \* _ANALYSIS_CACHE, the most recently used last

treesvars == <<local, process, head, req, made, disk, strays, cache>>

\* `since` is the version when the request came (history); `tree` what was fetched.
Request == [at : {"checkout", "lookup", "analysing", "storing", "firing", "leaving"},
            kind : Kind, source : Source, since : Nat, path : Nat, tree : Nat,
            result : Nat \cup {None}]

ASSUME NoneIsNoRequest == None \notin Request

TreesInit ==
    /\ local \in BOOLEAN /\ process = 1
    /\ head = [s \in Source |-> 0]
    /\ req = [s \in Slot |-> None]
    /\ made = 0 /\ disk = {} /\ strays = {}
    /\ cache = <<>>

-----------------------------------------------------------------------------
At(s, place) == req[s] # None /\ req[s].at = place
Serve(s, r) == req' = [req EXCEPT ![s] = r]
GoTo(s, place) == Serve(s, [req[s] EXCEPT !.at = place])
Refuse(s) == Serve(s, None)

\* Only a fetched checkout is looked up in the cache, and only to fix.
Caches(r) == r.kind = "fix" /\ r.source \in Repo
Onward(r) == IF r.kind = "prove" THEN "firing" ELSE IF Caches(r) THEN "lookup" ELSE "analysing"

\* A request to analyse, to fix or, past the gate, to fire.
Arrive(s) ==
    /\ req[s] = None
    /\ \E kind \in Kind, source \in Source :
          Serve(s, [at |-> "checkout", kind |-> kind, source |-> source, since |-> head[source],
                    path |-> 0, tree |-> 0, result |-> None])
    /\ UNCHANGED <<local, process, head, made, disk, strays, cache>>

\* _checkout of a repository: fetch_repo makes a directory and extracts the archive.
Fetch(s) ==
    /\ At(s, "checkout") /\ req[s].source \in Repo
    /\ made < MaxPaths
    /\ made' = made + 1
    /\ disk' = disk \cup {made'}
    /\ Serve(s, [req[s] EXCEPT !.at = Onward(req[s]), !.path = made',
                               !.tree = head[req[s].source]])
    /\ UNCHANGED <<local, process, head, strays, cache>>

\* fetch_repo fails.  A failure it foresees removes the directory it made; a stream
\* that cannot be decompressed raises past its handlers.
FetchFails(s) ==
    /\ At(s, "checkout") /\ req[s].source \in Repo
    /\ made < MaxPaths
    /\ made' = made + 1
    /\ \/ UNCHANGED <<disk, strays>>
       \/ disk' = disk \cup {made'} /\ strays' = strays \cup {made'}
    /\ Refuse(s)
    /\ UNCHANGED <<local, process, head, cache>>

\* A directory is read in place, by a local Tainted only.
Open(s) ==
    /\ At(s, "checkout") /\ req[s].source \in Folder
    /\ IF local THEN GoTo(s, Onward(req[s])) ELSE Refuse(s)
    /\ UNCHANGED <<local, process, head, made, disk, strays, cache>>

\* Nobody is signed in, or no longer.
NoSession(s) ==
    /\ At(s, "checkout") /\ req[s].source \in Repo
    /\ Refuse(s)
    /\ UNCHANGED <<local, process, head, made, disk, strays, cache>>

\* Fault: a lookup that takes any checkout for the repository's.
CachedForRepository(path) == DOMAIN cache

\* The entry of _ANALYSIS_CACHE under a checkout's path.
Cached(path) == {i \in DOMAIN cache : cache[i].path = path}

\* The other entries: a path has one entry at most.
Others(path) ==
    IF Cached(path) = {} THEN cache ELSE RemoveAt(cache, CHOOSE i \in Cached(path) : TRUE)

\* _analysis_for, under its lock: what is there is used, and used most recently.  The
\* directory of this request is new, so as the code stands nothing is there.
Lookup(s) ==
    /\ At(s, "lookup")
    /\ IF Cached(req[s].path) = {}
       THEN GoTo(s, "analysing") /\ UNCHANGED cache
       ELSE \E i \in Cached(req[s].path) :
               /\ Serve(s, [req[s] EXCEPT !.at = "leaving", !.result = cache[i].tree])
               /\ cache' = Append(RemoveAt(cache, i), cache[i])
    /\ UNCHANGED <<local, process, head, made, disk, strays>>

\* core_analyze, outside the lock; it may raise.  A directory is as it is now.
Analyse(s) ==
    /\ At(s, "analysing")
    /\ LET r == req[s] IN
       \/ GoTo(s, "leaving")
       \/ Serve(s, [r EXCEPT !.at = IF Caches(r) THEN "storing" ELSE "leaving",
                             !.result = IF r.source \in Folder THEN head[r.source] ELSE r.tree])
    /\ UNCHANGED <<local, process, head, made, disk, strays, cache>>

\* Under the lock again: the entry goes last, and the oldest go.
Store(s) ==
    /\ At(s, "storing")
    /\ LET all == Append(Others(req[s].path), [path |-> req[s].path, tree |-> req[s].result])
       IN  cache' = IF Len(all) > CacheMax THEN Tail(all) ELSE all
    /\ GoTo(s, "leaving")
    /\ UNCHANGED <<local, process, head, made, disk, strays>>

\* The attacks run; a run that hangs past the join keeps its tree.
Fire(s) ==
    /\ At(s, "firing")
    /\ \/ GoTo(s, "leaving") /\ UNCHANGED strays
       \/ req[s].path # 0 /\ strays' = strays \cup {req[s].path} /\ Refuse(s)
    /\ UNCHANGED <<local, process, head, made, disk, cache>>

\* Fault: a request that raised removes nothing.
CleanupAfterAnswer(r) == IF r.kind # "prove" /\ r.result = None THEN {} ELSE {r.path}

\* Checkout.cleanup, in the `finally` of _checkout.
Cleanup(r) == {r.path}

Leave(s) ==
    /\ At(s, "leaving")
    /\ disk' = disk \ Cleanup(req[s])
    /\ Refuse(s)
    /\ UNCHANGED <<local, process, head, made, strays, cache>>

\* Somebody pushes to a repository, or saves in a directory.
Change(source) ==
    /\ head[source] < MaxVersion
    /\ head' = [head EXCEPT ![source] = @ + 1]
    /\ UNCHANGED <<local, process, req, made, disk, strays, cache>>

\* The process ends, with everything it was serving and all it kept in memory.
Restart ==
    /\ process < MaxProcess
    /\ process' = process + 1
    /\ req' = [s \in Slot |-> None]
    /\ strays' = disk
    /\ cache' = <<>>
    /\ UNCHANGED <<local, head, made, disk>>

Handle(s) ==
    \/ Arrive(s) \/ Fetch(s) \/ FetchFails(s) \/ Open(s) \/ NoSession(s)
    \/ Lookup(s) \/ Analyse(s) \/ Store(s) \/ Fire(s) \/ Leave(s)

TreesNext == (\E s \in Slot : Handle(s)) \/ (\E source \in Source : Change(source)) \/ Restart

TreesSpec == TreesInit /\ [][TreesNext]_treesvars

-----------------------------------------------------------------------------
(* Properties.                                                             *)

\* The answer to a click describes the tree it was asked about: the one this request
\* fetched, and never one older than the click, whatever the cache holds (_analysis_for).
AnswersAreCurrent ==
    \A s \in Slot :
        At(s, "leaving") /\ req[s].result # None =>
            /\ req[s].result >= req[s].since
            /\ req[s].path # 0 => req[s].result = req[s].tree

\* A tree stays on disk until its request is over, and no longer unless the request could
\* not remove it: the process died, the run hung or the archive was broken (_checkout).
TreesLiveOneRequest ==
    disk = strays \cup {req[s].path : s \in {x \in Slot : req[x] # None /\ req[x].path # 0}}
=============================================================================
