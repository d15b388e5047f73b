--------------------------- MODULE MC_RemoteSync ----------------------------
(***************************************************************************)
(* Instances of RemoteSync for TLC.  A behaviour chooses its scope in the  *)
(* initial state, so one run checks the sum of the scopes: what overlaps   *)
(* is in one scope, what never meets is in two.                            *)
(***************************************************************************)
EXTENDS RemoteSync, TLC

CONSTANTS s1, s2

Scope(platform, syncs, there, ops) ==
    [platform |-> platform, syncs |-> syncs, there |-> there, ops |-> ops]

(* Both sides change; conflicts, their resolution, crashes, deletions.     *)
Comparing == {Scope("hashnode", {s1}, {1}, {"author", "resolve", "delete", "crash"})}
(* Two synchronizations of one article overlap and crash.                  *)
Overlapping == {Scope("hashnode", {s1, s2}, {1}, {"author", "crash"})}
(* Listings while articles are published, removed and fail to load.        *)
Listings ==
    {Scope(platform, {s1}, {1}, {"author", "refresh", "remove", "post", "outage"}) :
        platform \in Platforms}
    \cup {Scope("hashnode", {s1}, {1, 2}, {"author", "outage"})}
    \cup {Scope("medium", {s1}, {1, 2}, {"author", "limit"})}
(* Pushes and browser publishing of an article made here or there.         *)
Publishing ==
    {Scope(platform, {s1}, there,
           {"author", "push", "publish", "resolve", "post", "crash", "outage"}) :
        platform \in Platforms, there \in {{}, {1}}}
(* Browser publishing alone, where the browser fails but nothing crashes.  *)
Browsing == {Scope("medium", {s1}, {1}, {"author", "publish", "remove", "outage"})}
(* An article deleted under a push or a run.                               *)
Deleting == {Scope("hashnode", {s1}, {}, {"push", "publish", "delete"})}
(* Import besides synchronization.                                         *)
Importing == {Scope("hashnode", {s1}, {1}, {"author", "import", "delete"})}

Protected ==
    Comparing \cup Overlapping \cup Listings \cup Publishing \cup Browsing \cup Deleting
        \cup Importing
=============================================================================
