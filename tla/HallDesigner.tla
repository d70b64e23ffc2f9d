---------------------------- MODULE HallDesigner ----------------------------
(***************************************************************************)
(* How the hall designer loads, edits and saves the configurations of data *)
(* halls (src/frontend/src/components/DataHallDesigner/                    *)
(* DataHallDesigner.jsx) against the server.  An action is an event of the *)
(* page: a user's or the parent's, a timer, or a response; it includes the *)
(* render it causes and the effects of that render, which run before the   *)
(* next event.  Cleanups of effects run first and see the refs of the      *)
(* render before.                                                          *)
(*                                                                         *)
(* A configuration is the number of the edit it comes from and the hall it *)
(* was made in.  Its contents, the layout and the 3D scene are left out,   *)
(* as are the PDUs, which are loaded together with the racks.              *)
(***************************************************************************)
EXTENDS Naturals, FiniteSets

CONSTANTS
  Halls,
  None,
  ReadOnly,   \* the readOnly prop
  NeuralMode, \* the neuralMode prop: the page is part of the switchboard
  MaxEdits,   \* bound of the model on the edits
  MaxFlight   \* and on the requests in flight when somebody acts

ASSUME NoneAssumption == None \notin Halls
ASSUME PropsAssumption == ReadOnly \in BOOLEAN /\ NeuralMode \in BOOLEAN
ASSUME BoundsAssumption == MaxEdits \in Nat /\ MaxFlight \in Nat

VARIABLES
  exists,   \* the halls in the database
  server,   \* the configuration it has of each, None when none was saved
  ext,      \* externalHallId, the hall the parent has selected
  mounted,  \* FALSE until the list of halls has come
  asked,    \* until then, what externalHallId was when the page was opened
  hallId,
  config,
  racks,    \* the hall that storedRacks are of
  req,      \* requestedHall
  loading,  \* isLoading
  guard,    \* isLoadingRef
  release,  \* the timeout that frees the guard is pending for the last load
  timer,    \* of the autosave: "off", "on", "late" (set after that timeout)
  trigger,  \* the parent has asked for a refresh, hallRefreshTrigger # 0
  posts,    \* configurations on their way to the server
  gets,     \* requests for the state of a hall
  edits     \* edits made, a counter of the model

page == <<ext, mounted, asked, hallId, config, racks, req, loading, guard, release, timer, trigger>>
vars == <<exists, server, page, posts, gets, edits>>

Config == [of : Halls \cup {None}, edit : 0 .. MaxEdits]
Default(h) == [of |-> h, edit |-> 0]

(* A save, and what the code awaiting it does next: nothing, load a hall    *)
(* (and tell the parent), do so for a page that was left, or load the racks *)
(* again.                                                                   *)
Post == [hall : Halls \cup {None}, config : Config,
         next : {"nothing", "load", "orphan", "racks"}, to : Halls \cup {None}, tell : BOOLEAN]

(* current: no later load has begun.  first: init awaits it, and ends the   *)
(* loading whatever became of it.  seen: the server has read the row, or    *)
(* found no such hall; config: what it had saved for it.                    *)
Get == [what : {"load", "racks"}, id : Halls, current : BOOLEAN, tell : BOOLEAN,
        first : BOOLEAN, seen : {"no", "yes", "gone"}, config : Config \cup {None}]

Flush(h, c, next, to, tell) == [hall |-> h, config |-> c, next |-> next, to |-> to, tell |-> tell]
Save(h, c) == Flush(h, c, "nothing", None, FALSE)
Load(id, tell, first) ==
  [what |-> "load", id |-> id, current |-> TRUE, tell |-> tell, first |-> first,
   seen |-> "no", config |-> None]
LoadRacks(id) == [Load(id, FALSE, FALSE) EXCEPT !.what = "racks"]
(* A load of a page that was left: all it can do is to tell the parent. *)
Orphan(id) == [Load(id, TRUE, FALSE) EXCEPT !.current = FALSE]

Init ==
  /\ exists \in SUBSET Halls
  /\ server = [h \in Halls |-> None]
  /\ ext \in exists \cup {None}
  /\ mounted = FALSE
  /\ asked = ext
  /\ hallId = None
  /\ config = Default(None)
  /\ racks = None
  /\ req = None
  /\ loading = TRUE
  /\ guard = TRUE
  /\ release = FALSE
  /\ timer = "off"
  /\ trigger = FALSE
  /\ posts = {}
  /\ gets = {}
  /\ edits = 0

Busy == Cardinality(posts) + Cardinality(gets)
-----------------------------------------------------------------------------
(* loadHallState up to its request: earlier loads are not current any more, *)
(* and what the server has read for them makes no difference.               *)
Outdated(gs) == {[g EXCEPT !.current = FALSE, !.seen = "no", !.config = None] : g \in gs}
StartLoad(id, tell, first) ==
  /\ gets' = Outdated(gets) \cup {Load(id, tell, first)}
  /\ req' = id
  /\ loading' = TRUE
  /\ guard' = TRUE
  /\ release' = FALSE

(* The effect that follows the hall the parent has selected, after a render *)
(* with these values.                                                       *)
FollowParent(e, h, c, l) ==
  IF e # None /\ e # h /\ ~l THEN {Flush(h, c, "load", e, FALSE)} ELSE {}

(* The effect that loads the racks again; it also runs after each change of *)
(* storedRacks, as flushSave is a new function then.                        *)
Refresh(t, h, c) == IF t /\ h # None THEN {Flush(h, c, "racks", h, FALSE)} ELSE {}

(* flushSave clears the timer of the autosave. *)
AfterFlush(ps, t) == IF ps = {} THEN t ELSE "off"

(* Mutant: the effect with flushSave as its cleanup runs on unmount only. *)
CleanupMissing(h, c) == {}

(* The cleanup that flushes what the page had before this render. *)
Cleanup(h, c) == IF h = None THEN {} ELSE {Save(h, c)}
-----------------------------------------------------------------------------
(* The list of halls comes: the hall the parent had when the page was       *)
(* opened is loaded, there or not, otherwise the first of the list.         *)
ListHalls(id) ==
  /\ ~mounted
  /\ exists # {}
  /\ IF asked = None THEN id \in exists ELSE id = asked
  /\ mounted' = TRUE
  /\ asked' = None
  /\ StartLoad(id, asked = None, TRUE)
  /\ UNCHANGED <<exists, server, ext, hallId, config, racks, timer, trigger, posts, edits>>

(* There is none, or the list does not come: a hall is made and loaded.     *)
MakeDefaultHall(id) ==
  /\ ~mounted
  /\ id \notin exists
  /\ exists' = exists \cup {id}
  /\ server' = [server EXCEPT ![id] = None]
  /\ mounted' = TRUE
  /\ asked' = None
  /\ StartLoad(id, TRUE, TRUE)
  /\ UNCHANGED <<ext, hallId, config, racks, timer, trigger, posts, edits>>

(* That fails too: no hall is shown, until the parent's is followed.        *)
NoHall ==
  /\ ~mounted
  /\ mounted' = TRUE
  /\ asked' = None
  /\ loading' = FALSE
  /\ posts' = posts \cup FollowParent(ext, None, config, FALSE)
  /\ UNCHANGED <<exists, server, ext, hallId, config, racks, req, guard, release, timer,
                 trigger, gets, edits>>

(* What the page offers.  The panel "Field Control" has the selector of     *)
(* halls, the dialogs, the parameters and the upload of a rack model; the   *)
(* landing page offers the halls as well when the hall on display has no    *)
(* racks (which depends on the contents of the configuration).              *)
FieldControl == ~ReadOnly /\ ~NeuralMode
HallSelector(id) == FieldControl /\ id # hallId
LandingPicker(id) == ~loading /\ id # hallId
NewHallDialog == FieldControl
DeleteDialog == FieldControl
ParameterForm == FieldControl
ObjectsEditable == ~ReadOnly /\ ~NeuralMode
SceneObjectList == FieldControl /\ ObjectsEditable
CanvasDrop == ObjectsEditable
ObjectToolbar == ObjectsEditable
ModelUpload == FieldControl
LabelForm == ~ReadOnly /\ racks # None

(* An edit of a parameter or of a scene object, or the end of the upload of *)
(* a model.  The autosave waits for 1.5 s, longer than the timeout of the   *)
(* guard.                                                                   *)
Edit ==
  /\ ParameterForm \/ SceneObjectList \/ CanvasDrop \/ ObjectToolbar \/ ModelUpload
  /\ edits < MaxEdits
  /\ edits' = edits + 1
  /\ config' = [config EXCEPT !.edit = edits + 1]
  /\ timer' = IF hallId = None THEN timer ELSE IF release THEN "late" ELSE "on"
  /\ UNCHANGED <<exists, server, ext, mounted, asked, hallId, racks, req, loading, guard, release,
                 trigger, posts, gets>>

(* The timer of the autosave: saveHallState looks at the guard. *)
Autosave ==
  /\ timer = "on" \/ (timer = "late" /\ ~release)
  /\ timer' = "off"
  /\ posts' = IF guard THEN posts ELSE posts \cup {Save(hallId, config)}
  /\ UNCHANGED <<exists, server, ext, mounted, asked, hallId, config, racks, req, loading, guard,
                 release, trigger, gets, edits>>

ReleaseGuard ==
  /\ release
  /\ release' = FALSE
  /\ guard' = FALSE
  /\ UNCHANGED <<exists, server, ext, mounted, asked, hallId, config, racks, req, loading, timer,
                 trigger, posts, gets, edits>>

(* A hall is selected in the designer, or by the parent. *)
SelectHall(id) ==
  /\ mounted
  /\ Busy < MaxFlight
  /\ id \in exists
  /\ HallSelector(id) \/ LandingPicker(id)
  /\ posts' = posts \cup {Flush(hallId, config, "load", id, TRUE)}
  /\ timer' = "off"
  /\ UNCHANGED <<exists, server, ext, mounted, asked, hallId, config, racks, req, loading, guard,
                 release, trigger, gets, edits>>

ParentSelects(id) ==
  LET follow == FollowParent(id, hallId, config, loading)
  IN /\ Busy < MaxFlight
     /\ id \in exists \ {ext}
     /\ ext' = id
     /\ posts' = posts \cup follow
     /\ timer' = AfterFlush(follow, timer)
     /\ UNCHANGED <<exists, server, mounted, asked, hallId, config, racks, req, loading, guard,
                    release, trigger, gets, edits>>

(* The parent asks for a refresh, after PDUs were assigned to racks. *)
ParentRefreshes ==
  LET again == Refresh(TRUE, hallId, config)
  IN /\ Busy < MaxFlight
     /\ trigger' = TRUE
     /\ posts' = posts \cup again
     /\ timer' = AfterFlush(again, timer)
     /\ UNCHANGED <<exists, server, ext, mounted, asked, hallId, config, racks, req, loading, guard,
                    release, gets, edits>>

(* createHall of the dialog, answered: the list comes again, then the hall. *)
(* Nothing is flushed and the parent is not told.                           *)
CreateHall(id) ==
  /\ mounted
  /\ Busy < MaxFlight
  /\ NewHallDialog
  /\ id \notin exists
  /\ exists' = exists \cup {id}
  /\ server' = [server EXCEPT ![id] = None]
  /\ StartLoad(id, FALSE, FALSE)
  /\ UNCHANGED <<ext, mounted, asked, hallId, config, racks, timer, trigger, posts, edits>>

(* deleteHall, answered: the first hall of the list is loaded, or, when     *)
(* there is none or the list does not come, none is shown.  The hall was on *)
(* display when the dialog was confirmed, it need not be any more.          *)
DeleteHall(id) ==
  /\ mounted
  /\ Busy < MaxFlight
  /\ DeleteDialog
  /\ id \in exists
  /\ exists' = exists \ {id}
  /\ server' = [server EXCEPT ![id] = None]
  /\ \/ /\ \E other \in exists' : StartLoad(other, TRUE, FALSE)
        /\ UNCHANGED <<hallId, posts, timer>>
     \/ /\ hallId' = None
        /\ posts' = posts \cup IF hallId = None THEN {}
                               ELSE FollowParent(ext, None, config, loading)
        /\ timer' = "off"
        /\ UNCHANGED <<gets, req, loading, guard, release>>
  /\ UNCHANGED <<ext, mounted, asked, config, racks, trigger, edits>>

(* saveRackLabel: storedRacks change, and with them flushSave. *)
RelabelRack ==
  LET follow == FollowParent(ext, hallId, config, loading)
  IN /\ Busy < MaxFlight
     /\ LabelForm /\ hallId # None
     /\ posts' = posts \cup Cleanup(hallId, config) \cup follow
                  \cup Refresh(trigger, hallId, config)
     /\ timer' = "off"
     /\ UNCHANGED <<exists, server, ext, mounted, asked, hallId, config, racks, req, loading, guard,
                    release, trigger, gets, edits>>

(* The user leaves the page and comes back.  What was in flight arrives     *)
(* still; of what awaited it only the call to the parent has an effect.     *)
(* Leaving before the list of halls has come is left out.                   *)
Leave ==
  /\ Busy < MaxFlight
  /\ mounted
  /\ posts' = {IF p.tell THEN [p EXCEPT !.next = "orphan"] ELSE Save(p.hall, p.config) : p \in posts}
               \cup Cleanup(hallId, config)
  /\ gets' = {Orphan(g.id) : g \in {o \in gets : o.tell}}
  /\ mounted' = FALSE
  /\ asked' = ext
  /\ hallId' = None
  /\ config' = Default(None)
  /\ racks' = None
  /\ req' = None
  /\ loading' = TRUE
  /\ guard' = TRUE
  /\ release' = FALSE
  /\ timer' = "off"
  /\ UNCHANGED <<exists, server, ext, trigger, edits>>
-----------------------------------------------------------------------------
(* A save reaches the server, in any order, or is lost; either way the code *)
(* behind flushSave goes on.                                                *)
PostEnds(p) ==
  /\ p \in posts
  /\ posts' = posts \ {p}
  /\ server' \in {server, IF p.hall \in exists THEN [server EXCEPT ![p.hall] = p.config] ELSE server}
  /\ \/ /\ p.next = "nothing"
        /\ UNCHANGED <<gets, req, loading, guard, release>>
     \/ /\ p.next = "load"
        /\ StartLoad(p.to, p.tell, FALSE)
     \/ /\ p.next = "orphan"
        /\ gets' = gets \cup {Orphan(p.to)}
        /\ UNCHANGED <<req, loading, guard, release>>
     \/ /\ p.next = "racks"
        /\ gets' = gets \cup {LoadRacks(p.to)}
        /\ UNCHANGED <<req, loading, guard, release>>
  /\ UNCHANGED <<exists, ext, mounted, asked, hallId, config, racks, timer, trigger, edits>>

(* Mutant: an answer is taken whichever request it is to. *)
AnyAnswer(g) == g.what = "load"

(* generation === hallLoadGeneration.current *)
IsCurrent(g) == g.what = "load" /\ g.current

(* The server reads the state of a hall to be loaded; of a request for the  *)
(* racks only the hall matters.                                             *)
ServerReads(g) ==
  /\ g \in gets
  /\ IsCurrent(g) /\ g.seen = "no"
  /\ gets' = (gets \ {g}) \cup
       {[g EXCEPT !.seen = IF g.id \in exists THEN "yes" ELSE "gone",
                  !.config = server[g.id]]}
  /\ UNCHANGED <<exists, server, page, posts, edits>>

(* Mutant: a hall that has no configuration keeps the one on display. *)
ReceivedOld(g) == IF g.config = None THEN config ELSE g.config

(* The configuration a load brings: the default where none was saved. *)
Received(g) == IF g.config = None THEN Default(g.id) ELSE g.config

LoadAnswered(g) ==
  LET c == Received(g)
      e == IF g.tell THEN g.id ELSE ext
  IN /\ g \in gets
     /\ IsCurrent(g)
     /\ g.seen = "yes"
     /\ gets' = gets \ {g}
     /\ hallId' = g.id
     /\ config' = c
     /\ racks' = g.id
     /\ ext' = e
     /\ loading' = FALSE
     /\ release' = TRUE
     /\ timer' = IF ReadOnly THEN "off" ELSE "late"
     /\ posts' = posts \cup Cleanup(hallId, config)
                  \cup FollowParent(e, g.id, c, FALSE) \cup Refresh(trigger, g.id, c)
     /\ UNCHANGED <<exists, server, mounted, asked, req, guard, trigger, edits>>

(* The current load fails: nothing but the flags changes. *)
LoadFails(g) ==
  LET e == IF g.tell THEN g.id ELSE ext
      follow == FollowParent(e, hallId, config, FALSE)
  IN /\ g \in gets
     /\ IsCurrent(g)
     /\ gets' = gets \ {g}
     /\ ext' = e
     /\ loading' = FALSE
     /\ release' = TRUE
     /\ timer' = AfterFlush(follow, timer)
     /\ posts' = posts \cup follow
     /\ UNCHANGED <<exists, server, mounted, asked, hallId, config, racks, req, guard, trigger, edits>>

(* Mutant: an outdated load frees the guard as well. *)
OutdatedFrees(g) ==
  LET e == IF g.tell THEN g.id ELSE ext
      l == loading /\ ~g.first
      follow == IF e = ext /\ l = loading THEN {} ELSE FollowParent(e, hallId, config, l)
  IN /\ g \in gets
     /\ g.what = "load" /\ ~g.current
     /\ gets' = gets \ {g}
     /\ ext' = e
     /\ loading' = l
     /\ timer' = AfterFlush(follow, timer)
     /\ posts' = posts \cup follow
     /\ release' = TRUE
     /\ UNCHANGED <<exists, server, mounted, asked, hallId, config, racks, req, guard,
                    trigger, edits>>

(* An outdated load ends; the parent is told of its hall nevertheless, and  *)
(* the load of init ends the loading.                                       *)
LoadOutdated(g) ==
  LET e == IF g.tell THEN g.id ELSE ext
      l == loading /\ ~g.first
      follow == IF e = ext /\ l = loading THEN {} ELSE FollowParent(e, hallId, config, l)
  IN /\ g \in gets
     /\ g.what = "load" /\ ~g.current
     /\ gets' = gets \ {g}
     /\ ext' = e
     /\ loading' = l
     /\ timer' = AfterFlush(follow, timer)
     /\ posts' = posts \cup follow
     /\ UNCHANGED <<exists, server, mounted, asked, hallId, config, racks, req, guard,
                    release, trigger, edits>>

(* reloadPdusAndRacks looks whether a load began, or another is under way. *)
RacksWanted(g) == g.current /\ g.id = req

RacksAnswered(g) ==
  LET follow == FollowParent(ext, hallId, config, loading)
      wanted == g.id \in exists /\ RacksWanted(g)
  IN /\ g \in gets
     /\ g.what = "racks"
     /\ gets' = gets \ {g}
     /\ IF wanted
        THEN /\ racks' = g.id
             /\ timer' = "off"
             /\ posts' = posts \cup Cleanup(hallId, config) \cup follow
                          \cup Refresh(trigger, hallId, config)
        ELSE UNCHANGED <<racks, timer, posts>>
     /\ UNCHANGED <<exists, server, ext, mounted, asked, hallId, config, req, loading, guard,
                    release, trigger, edits>>

Response ==
  \/ \E p \in posts : PostEnds(p)
  \/ \E g \in gets :
       ServerReads(g) \/ LoadAnswered(g) \/ LoadFails(g) \/ LoadOutdated(g) \/ RacksAnswered(g)

Next ==
  \/ \E id \in Halls :
       \/ ListHalls(id) \/ MakeDefaultHall(id)
       \/ SelectHall(id) \/ ParentSelects(id) \/ CreateHall(id) \/ DeleteHall(id)
  \/ NoHall \/ Edit \/ Autosave \/ ReleaseGuard
  \/ ParentRefreshes \/ RelabelRack \/ Leave
  \/ Response

Spec == Init /\ [][Next]_vars
-----------------------------------------------------------------------------
(* The types of the variables. *)
TypeOK ==
  /\ exists \subseteq Halls
  /\ server \in [Halls -> Config \cup {None}]
  /\ ext \in Halls \cup {None}
  /\ mounted \in BOOLEAN
  /\ asked \in Halls \cup {None}
  /\ hallId \in Halls \cup {None}
  /\ config \in Config
  /\ racks \in Halls \cup {None}
  /\ req \in Halls \cup {None}
  /\ loading \in BOOLEAN /\ guard \in BOOLEAN /\ release \in BOOLEAN
  /\ timer \in {"off", "on", "late"}
  /\ trigger \in BOOLEAN
  /\ posts \subseteq Post
  /\ gets \subseteq Get
  /\ edits \in 0 .. MaxEdits

(* A hall is never given the configuration of another one, whichever of the *)
(* four ways of saving runs between the renders of a switch.                *)
OwnConfig ==
  /\ \A h \in Halls : server[h] # None => server[h].of = h
  /\ \A p \in posts : p.hall # None => p.config.of = p.hall

(* The autosave is silent from the request of a load to its answer, which   *)
(* replaces the configuration: "Only the current request may release the    *)
(* autosave guard".                                                         *)
QuietWhileLoading ==
  [][Autosave /\ posts' # posts => ~\E g \in gets : g.what = "load" /\ g.current]_vars

(* When the page turns to another hall, what it had of the one before is on *)
(* its way to the server or was there already.                              *)
SwitchSaves ==
  [][hallId # None /\ hallId' \notin {hallId, None}
       => server[hallId] = config \/ \E p \in posts' : p.hall = hallId /\ p.config = config]_vars

(* The designer shows the hall asked for last.                              *)
Latest == INSTANCE LatestRequest WITH Items <- Halls, requested <- req, shown <- hallId
ShowsLatest == Latest!Spec
=============================================================================
