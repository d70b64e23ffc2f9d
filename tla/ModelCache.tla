----------------------------- MODULE ModelCache -----------------------------
(***************************************************************************)
(* The cache of 3D models of the front end                                 *)
(* (src/frontend/src/3d/ModelCache.js).  An entry of the cache stands for  *)
(* one load of a file: it is made by the get that misses, and whoever      *)
(* holds it keeps it after it has left the cache.  The operators map a     *)
(* store to the store after a call; they are plain functions because a     *)
(* call is never interrupted, the loader's callbacks and the promise       *)
(* continuations they release aside (LoadOk, LoadFails).                   *)
(***************************************************************************)
EXTENDS Naturals

CONSTANTS
  Urls,   \* addresses of model files
  Loads,  \* the numbers of the loads, a bound of the model
  None

ASSUME LoadsAssumption == Loads \subseteq Nat
ASSUME NoneAssumption == None \notin Urls \cup Loads

(* st: unused, loading (loadPromise set), loaded (prototype set), failed    *)
(* (the promise rejected).  alive: the resources of the prototype have not  *)
(* been disposed of.                                                        *)
Entry == [url : Urls \cup {None}, st : {"unused", "loading", "loaded", "failed"},
          refs : Nat, alive : BOOLEAN]
Unused == [url |-> None, st |-> "unused", refs |-> 0, alive |-> FALSE]
Store == [map : [Urls -> Loads \cup {None}], entry : [Loads -> Entry]]
EmptyStore == [map |-> [u \in Urls |-> None], entry |-> [e \in Loads |-> Unused]]

(* get on an address that is not cached: a new entry, loading. *)
Start(s, u, e) ==
  [map |-> [s.map EXCEPT ![u] = e],
   entry |-> [s.entry EXCEPT ![e] = [url |-> u, st |-> "loading", refs |-> 0, alive |-> FALSE]]]

(* n calls of acquire. *)
Acquire(s, u, n) ==
  IF s.map[u] = None THEN s
  ELSE [s EXCEPT !.entry[s.map[u]].refs = @ + n]

(* Mutant: the entry stays in the cache after its resources are gone. *)
ReleaseKeeps(s, u, force) ==
  IF s.map[u] = None THEN s
  ELSE LET e == s.entry[s.map[u]]
           left == IF e.refs = 0 THEN 0 ELSE e.refs - 1
       IN [s EXCEPT !.entry[s.map[u]] =
             [e EXCEPT !.refs = left, !.alive = @ /\ left > 0 /\ ~force]]

(* release, and the disposal of the prototype when nobody holds it.  The    *)
(* prototype of a load under way is null, and nothing is disposed of.       *)
Release(s, u, force) ==
  IF s.map[u] = None THEN s
  ELSE LET e == s.entry[s.map[u]]
           left == IF e.refs = 0 THEN 0 ELSE e.refs - 1
           gone == left = 0 \/ force
       IN [map |-> [s.map EXCEPT ![u] = IF gone THEN None ELSE @],
           entry |-> [s.entry EXCEPT ![s.map[u]] =
             [e EXCEPT !.refs = left, !.alive = @ /\ ~gone]]]

(* The loader's success callback and the continuation of the get that began *)
(* the load.                                                                *)
LoadOk(s, e) ==
  [s EXCEPT !.entry[e] = [@ EXCEPT !.st = "loaded", !.alive = TRUE]]

(* The error callback: the address leaves the cache, whatever load is under *)
(* it by now.                                                               *)
LoadFails(s, e) ==
  [map |-> [s.map EXCEPT ![s.entry[e].url] = None],
   entry |-> [s.entry EXCEPT ![e].st = "failed"]]

(* What get hands out can be used, now or when its load ends: an entry in   *)
(* the cache is of its address and is neither failed nor disposed of.       *)
Usable(s) ==
  \A u \in Urls : s.map[u] # None =>
    /\ s.entry[s.map[u]].url = u
    /\ \/ s.entry[s.map[u]].st = "loading"
       \/ s.entry[s.map[u]].st = "loaded" /\ s.entry[s.map[u]].alive
=============================================================================
