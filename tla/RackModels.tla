----------------------------- MODULE RackModels -----------------------------
(***************************************************************************)
(* The custom rack models of the hall (CustomRackModel and DataHallScene   *)
(* in src/frontend/src/components/DataHallDesigner/DataHallDesigner.jsx)   *)
(* over the model cache.  Each visible rack has an effect that gets the    *)
(* model of the hall, takes a reference and shows a clone; its cleanup     *)
(* marks the run as cancelled, disposes of the clone it knows and gives a  *)
(* reference back.  React runs all cleanups of a commit before its         *)
(* effects, and no load ends within a commit.                              *)
(*                                                                         *)
(* Models uploaded as a folder have assets and do not go through the       *)
(* cache; they are left out, as are the geometry and colours of a clone.   *)
(***************************************************************************)
EXTENDS ModelCache, FiniteSets

CONSTANTS
  Racks,
  MaxRefs  \* bound of the model: no commit begins with more references or runs than this

ASSUME RacksAssumption == IsFiniteSet(Racks)

VARIABLES
  store,     \* the model cache
  url,       \* config.rackModel.url, None without a custom model
  visible,   \* the racks that are rendered
  rack,      \* the component of each rack
  old,       \* cancelled runs that wait for each load
  ready,     \* customReady: the default racks are not drawn
  cleanups,  \* the racks whose cleanup the commit under way has still to run
  effects    \* the racks whose effect it has still to run

vars == <<store, url, visible, rack, old, ready, cleanups, effects>>

(* first: modelUrlRef; wait: the load its current run waits for; stale: the *)
(* loads cancelled runs of the same component wait for; model: the load its *)
(* clone is from; own: the effect's closure holds that clone; gutted: the   *)
(* clone on display was disposed of; err: loadError.                        *)
Rack == [first : Urls \cup {None}, wait : Loads \cup {None}, stale : SUBSET Loads,
         model : Loads \cup {None}, own : BOOLEAN, gutted : BOOLEAN, err : BOOLEAN]
NoRack == [first |-> None, wait |-> None, stale |-> {}, model |-> None,
           own |-> FALSE, gutted |-> FALSE, err |-> FALSE]

Committing == cleanups # {} \/ effects # {}

Init ==
  /\ store = EmptyStore
  /\ url = None
  /\ visible = {}
  /\ rack = [r \in Racks |-> NoRack]
  /\ old = [e \in Loads |-> 0]
  /\ ready = FALSE
  /\ cleanups = {}
  /\ effects = {}

-----------------------------------------------------------------------------

(* A render that shows the racks v with model u: an upload, a change of the *)
(* rack's dimensions (again), the inspection of one rack and the way back,  *)
(* a change of the layout, the removal of the model.                        *)
Commit(v, u, again) ==
  LET change == u # url \/ again
  IN /\ ~Committing
     /\ u = None => v = {}
     /\ \E e \in Loads : store.entry[e].st = "unused"
     /\ \A e \in Loads : store.entry[e].refs <= MaxRefs /\ old[e] <= MaxRefs
     /\ change \/ v # visible
     /\ url' = u
     /\ visible' = v
     /\ cleanups' = {r \in visible : change \/ r \notin v}
     /\ effects' = {r \in v : change \/ r \notin visible}
     /\ ready' = (ready /\ u = url)
     /\ UNCHANGED <<store, rack, old>>

(* The cleanup of an effect.  A component that is no longer rendered is     *)
(* gone, its cancelled runs are not.                                        *)
Cleanup(r) ==
  LET c == rack[r]
  IN /\ r \in cleanups
     /\ store' = IF c.first = None THEN store ELSE Release(store, c.first, FALSE)
     /\ old' = IF c.wait = None THEN old ELSE [old EXCEPT ![c.wait] = @ + 1]
     /\ rack' = [rack EXCEPT ![r] =
          IF r \notin visible THEN NoRack
          ELSE [c EXCEPT !.wait = None, !.gutted = @ \/ c.own,
                         !.stale = @ \cup ({c.wait} \ {None})]]
     /\ cleanups' = cleanups \ {r}
     /\ UNCHANGED <<url, visible, ready, effects>>

(* What the effect of rack r finds: the model is there, it waits for load   *)
(* e, or the promise it is given has failed.                                *)
Shows(c, e) == [c EXCEPT !.model = e, !.wait = None, !.own = FALSE, !.gutted = FALSE, !.err = FALSE]
Mounted(r) == [rack[r] EXCEPT !.first = IF @ = None THEN url ELSE @]

EffectHit(r) ==
  LET e == store.map[url]
  IN /\ e # None
     /\ \/ /\ store.entry[e].st = "loaded"
           /\ store' = Acquire(store, url, 1)
           /\ rack' = [rack EXCEPT ![r] = Shows(Mounted(r), e)]
           /\ ready' = TRUE
        \/ /\ store.entry[e].st = "loading"
           /\ rack' = [rack EXCEPT ![r] =
                [Mounted(r) EXCEPT !.wait = e, !.own = rack[r].model # None]]
           /\ UNCHANGED <<store, ready>>
        \/ /\ store.entry[e].st = "failed"
           /\ rack' = [rack EXCEPT ![r] =
                [Mounted(r) EXCEPT !.err = TRUE, !.own = rack[r].model # None]]
           /\ ready' = FALSE
           /\ UNCHANGED store

EffectMiss(r, e) ==
  /\ store.map[url] = None
  /\ store.entry[e].st = "unused"
  /\ \A f \in Loads : f < e => store.entry[f].st # "unused"
  /\ store' = Start(store, url, e)
  /\ rack' = [rack EXCEPT ![r] =
       [Mounted(r) EXCEPT !.wait = e, !.own = rack[r].model # None]]
  /\ UNCHANGED ready

Effect(r) ==
  /\ cleanups = {}
  /\ r \in effects
  /\ EffectHit(r) \/ \E e \in Loads : EffectMiss(r, e)
  /\ effects' = effects \ {r}
  /\ UNCHANGED <<url, visible, old, cleanups>>

-----------------------------------------------------------------------------
(* Mutant: only those the address still waits for are told. *)
WaitingCached(e) == {r \in Racks : rack[r].wait = e /\ store.map[store.entry[e].url] = e}

(* Mutant: a run does not look whether it was cancelled. *)
WaitingAll(e) == {r \in Racks : rack[r].wait = e \/ e \in rack[r].stale}

(* The racks whose current run waits for load e. *)
Waiting(e) == {r \in Racks : rack[r].wait = e}

(* A load ends well.  Every run that waited takes a reference on whatever   *)
(* the address holds by then, cancelled or not; the others show a clone.    *)
ModelLoaded(e) ==
  /\ ~Committing
  /\ store.entry[e].st = "loading"
  /\ store' = Acquire(LoadOk(store, e), store.entry[e].url, Cardinality(Waiting(e)) + old[e])
  /\ rack' = [r \in Racks |->
       LET c == [rack[r] EXCEPT !.stale = @ \ {e}]
       IN IF r \in Waiting(e) THEN Shows(c, e) ELSE c]
  /\ old' = [old EXCEPT ![e] = 0]
  /\ ready' = (ready \/ Waiting(e) # {})
  /\ UNCHANGED <<url, visible, cleanups, effects>>

(* It fails: the handler sets the error of its component even when its run  *)
(* was cancelled.                                                           *)
ModelFails(e) ==
  /\ ~Committing
  /\ store.entry[e].st = "loading"
  /\ store' = LoadFails(store, e)
  /\ rack' = [r \in Racks |->
       LET c == [rack[r] EXCEPT !.stale = @ \ {e}]
       IN IF r \in Waiting(e) THEN [c EXCEPT !.err = TRUE, !.wait = None]
          ELSE IF e \in rack[r].stale THEN [c EXCEPT !.err = TRUE] ELSE c]
  /\ old' = [old EXCEPT ![e] = 0]
  /\ ready' = (ready /\ Waiting(e) = {} /\ old[e] = 0)
  /\ UNCHANGED <<url, visible, cleanups, effects>>

Next ==
  \/ \E v \in SUBSET Racks, u \in Urls \cup {None}, again \in BOOLEAN : Commit(v, u, again)
  \/ \E r \in Racks : Cleanup(r) \/ Effect(r)
  \/ \E e \in Loads : ModelLoaded(e) \/ ModelFails(e)

Fairness ==
  /\ \A r \in Racks : WF_vars(Cleanup(r)) /\ WF_vars(Effect(r))
  /\ \A e \in Loads : WF_vars(ModelLoaded(e) \/ ModelFails(e))

Spec == Init /\ [][Next]_vars /\ Fairness
-----------------------------------------------------------------------------
(* The types of the variables. *)
TypeOK ==
  /\ store \in Store
  /\ url \in Urls \cup {None}
  /\ visible \subseteq Racks
  /\ rack \in [Racks -> Rack]
  /\ old \in [Loads -> Nat]
  /\ ready \in BOOLEAN
  /\ cleanups \subseteq Racks
  /\ effects \subseteq visible

(* What the cache hands out is of its address, and neither failed nor       *)
(* disposed of, through releases and failures while loads are under way.    *)
CacheUsable == Usable(store)

(* A rack that waits for nothing shows the model the hall has now, or none: *)
(* the load of an earlier model that ends late does not replace it.         *)
ShownIsCurrent ==
  \A r \in visible :
    ~Committing /\ rack[r].wait = None /\ ~rack[r].err
      => rack[r].model # None /\ store.entry[rack[r].model].url = url

(* A rack that waits for a load comes to an end of it, whatever became of   *)
(* its entry in the cache.                                                  *)
Settles == \A r \in Racks, e \in Loads : rack[r].wait = e ~> rack[r].wait # e
=============================================================================
