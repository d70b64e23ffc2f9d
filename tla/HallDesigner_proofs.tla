------------------------- MODULE HallDesigner_proofs -------------------------
(***************************************************************************)
(* Proofs about the hall designer, for any number of halls, edits and      *)
(* requests in flight: no hall gets the configuration of another, the      *)
(* autosave keeps quiet during a load, a switch saves what the page had,   *)
(* and the page shows the hall asked for last (LatestRequest).             *)
(***************************************************************************)
EXTENDS HallDesigner, TLAPS

(* A configuration on its way goes to the hall it was made in; what awaits  *)
(* it knows which hall to load.                                             *)
GoodPost(p) ==
  /\ p \in Post
  /\ p.next # "nothing" => p.to \in Halls
  /\ p.tell => p.next \in {"load", "orphan"}
  /\ p.hall # None => p.config.of = p.hall

(* What the server has read for a request belongs to the hall of it.        *)
GoodGet(g) == g \in Get /\ (g.config # None => g.config.of = g.id)

PageOK ==
  /\ ext \in Halls \cup {None} /\ mounted \in BOOLEAN /\ asked \in Halls \cup {None}
  /\ hallId \in Halls \cup {None} /\ config \in Config /\ racks \in Halls \cup {None}
  /\ req \in Halls \cup {None}
  /\ loading \in BOOLEAN /\ guard \in BOOLEAN /\ release \in BOOLEAN
  /\ timer \in {"off", "on", "late"} /\ trigger \in BOOLEAN /\ edits \in 0 .. MaxEdits
  /\ hallId # None => config.of = hallId

ServerOK ==
  /\ exists \subseteq Halls
  /\ server \in [Halls -> Config \cup {None}]
  /\ \A h \in Halls : server[h] # None => server[h].of = h

PostsOK == \A p \in posts : GoodPost(p)
GetsOK == \A g \in gets : GoodGet(g)

(* At most one load is current: it is of the hall asked for last, and the   *)
(* guard is up until it ends.                                               *)
LoadOK ==
  /\ \A g \in gets : IsCurrent(g) => g.id = req /\ guard /\ ~release
  /\ \A g, k \in gets : IsCurrent(g) /\ IsCurrent(k) => g = k

HallInv == PageOK /\ ServerOK /\ PostsOK /\ GetsOK /\ LoadOK

-----------------------------------------------------------------------------
(* The records the actions build.                                           *)
LEMMA FlushGood ==
  ASSUME NEW h \in Halls \cup {None}, NEW c \in Config, h # None => c.of = h,
         NEW next \in {"nothing", "load", "orphan", "racks"}, NEW to \in Halls \cup {None},
         NEW tell \in BOOLEAN, next # "nothing" => to \in Halls, tell => next \in {"load", "orphan"}
  PROVE GoodPost(Flush(h, c, next, to, tell))
  BY DEF GoodPost, Flush, Post

LEMMA SaveGood ==
  ASSUME NEW h \in Halls \cup {None}, NEW c \in Config, h # None => c.of = h
  PROVE GoodPost(Save(h, c))
  BY FlushGood DEF Save

LEMMA FollowGood ==
  ASSUME NEW e \in Halls \cup {None}, NEW h \in Halls \cup {None}, NEW c \in Config,
         h # None => c.of = h, NEW l
  PROVE \A p \in FollowParent(e, h, c, l) : GoodPost(p)
  BY FlushGood DEF FollowParent

LEMMA RefreshGood ==
  ASSUME NEW t, NEW h \in Halls \cup {None}, NEW c \in Config, h # None => c.of = h
  PROVE \A p \in Refresh(t, h, c) : GoodPost(p)
  BY FlushGood DEF Refresh

LEMMA CleanupGood ==
  ASSUME NEW h \in Halls \cup {None}, NEW c \in Config, h # None => c.of = h
  PROVE \A p \in Cleanup(h, c) : GoodPost(p)
  BY SaveGood DEF Cleanup

LEMMA LoadGood ==
  ASSUME NEW id \in Halls, NEW tell \in BOOLEAN, NEW first \in BOOLEAN
  PROVE /\ GoodGet(Load(id, tell, first))
        /\ Load(id, tell, first).id = id /\ IsCurrent(Load(id, tell, first))
        /\ GoodGet(LoadRacks(id)) /\ ~IsCurrent(LoadRacks(id))
        /\ GoodGet(Orphan(id)) /\ ~IsCurrent(Orphan(id))
  BY DEF GoodGet, Load, LoadRacks, Orphan, Get, IsCurrent

LEMMA DefaultGood == ASSUME NEW h \in Halls \cup {None} PROVE Default(h) \in Config /\ Default(h).of = h
  BY BoundsAssumption DEF Default, Config

(* A load that begins is the current one, and the only one.                 *)
LEMMA StartGood ==
  ASSUME GetsOK, NEW id \in Halls, NEW tell \in BOOLEAN, NEW first \in BOOLEAN,
         StartLoad(id, tell, first)
  PROVE /\ GetsOK' /\ LoadOK'
        /\ req' \in Halls /\ loading' = TRUE /\ guard' = TRUE /\ release' = FALSE
<1>1. ASSUME NEW g \in gets
      PROVE LET o == [g EXCEPT !.current = FALSE, !.seen = "no", !.config = None]
            IN GoodGet(o) /\ ~IsCurrent(o)
  <2>1. g \in Get
    BY DEF GetsOK, GoodGet
  <2> QED
    BY <2>1 DEF GoodGet, Get, IsCurrent
<1>2. \A k \in Outdated(gets) : GoodGet(k) /\ ~IsCurrent(k)
  BY <1>1 DEF Outdated
<1>3. gets' = Outdated(gets) \cup {Load(id, tell, first)} /\ req' = id /\ guard' = TRUE /\ release' = FALSE
      /\ loading' = TRUE
  BY DEF StartLoad
<1>4. GetsOK'
  BY <1>2, <1>3, LoadGood DEF GetsOK
<1>5. \A k \in gets' : IsCurrent(k) => k = Load(id, tell, first)
  BY <1>2, <1>3
<1>6. LoadOK'
  BY <1>3, <1>5, LoadGood DEF LoadOK
<1> QED
  BY <1>3, <1>4, <1>6

-----------------------------------------------------------------------------
LEMMA HallBegins == Init => HallInv
<1> SUFFICES ASSUME Init PROVE HallInv
  OBVIOUS
<1>1. PageOK
  <2>1. ext \in Halls \cup {None} /\ edits \in 0 .. MaxEdits /\ config \in Config
    BY DefaultGood, BoundsAssumption DEF Init
  <2> QED
    BY <2>1 DEF Init, PageOK
<1>2. ServerOK
  BY DEF Init, ServerOK
<1>3. PostsOK /\ GetsOK /\ LoadOK
  BY DEF Init, PostsOK, GetsOK, LoadOK
<1> QED
  BY <1>1, <1>2, <1>3 DEF HallInv

(* Loads that begin before anything is shown.                               *)
LEMMA OpenKeeps ==
  ASSUME HallInv, NEW id \in Halls, ListHalls(id) \/ MakeDefaultHall(id) PROVE HallInv'
<1> USE DEF HallInv
<1>1. PICK tell \in BOOLEAN : StartLoad(id, tell, TRUE)
  BY DEF ListHalls, MakeDefaultHall
<1>2. GetsOK' /\ LoadOK' /\ req' \in Halls /\ loading' = TRUE /\ guard' = TRUE /\ release' = FALSE
  BY <1>1, StartGood
<1>3. PageOK'
  BY <1>2 DEF PageOK, ListHalls, MakeDefaultHall
<1>4. ServerOK' /\ PostsOK'
  BY DEF ServerOK, PostsOK, ListHalls, MakeDefaultHall
<1> QED
  BY <1>2, <1>3, <1>4

LEMMA NoHallKeeps == ASSUME HallInv, NoHall PROVE HallInv'
<1> USE DEF HallInv
<1>1. \A p \in FollowParent(ext, None, config, FALSE) : GoodPost(p)
  BY FollowGood DEF PageOK
<1>2. PostsOK'
  BY <1>1 DEF NoHall, PostsOK
<1> QED
  BY <1>2 DEF NoHall, PageOK, ServerOK, GetsOK, LoadOK

LEMMA EditKeeps == ASSUME HallInv, Edit PROVE HallInv'
<1> USE DEF HallInv
<1>1. edits' \in 0 .. MaxEdits
  BY BoundsAssumption DEF Edit, PageOK
<1>2. config' \in Config /\ config'.of = config.of
  BY <1>1 DEF Edit, PageOK, Config
<1>3. PageOK'
  BY <1>1, <1>2 DEF Edit, PageOK
<1> QED
  BY <1>3 DEF Edit, ServerOK, PostsOK, GetsOK, LoadOK

LEMMA AutosaveKeeps == ASSUME HallInv, Autosave PROVE HallInv'
<1> USE DEF HallInv
<1>1. GoodPost(Save(hallId, config))
  BY SaveGood DEF PageOK
<1>2. PostsOK'
  BY <1>1 DEF Autosave, PostsOK
<1> QED
  BY <1>2 DEF Autosave, PageOK, ServerOK, GetsOK, LoadOK

LEMMA ReleaseKeeps == ASSUME HallInv, ReleaseGuard PROVE HallInv'
  BY DEF HallInv, ReleaseGuard, PageOK, ServerOK, PostsOK, GetsOK, LoadOK

(* Selections, refreshes and labels change what is sent only.               *)
LEMMA SelectKeeps ==
  ASSUME HallInv, \/ \E id \in Halls : SelectHall(id) \/ ParentSelects(id)
                  \/ ParentRefreshes \/ RelabelRack
  PROVE HallInv'
<1> USE DEF HallInv
<1>1. ASSUME NEW id \in Halls, SelectHall(id) PROVE PostsOK'
  <2>1. GoodPost(Flush(hallId, config, "load", id, TRUE))
    BY FlushGood DEF PageOK
  <2> QED
    BY <1>1, <2>1 DEF SelectHall, PostsOK
<1>2. ASSUME NEW id \in Halls, ParentSelects(id) PROVE PostsOK'
  <2>1. \A p \in FollowParent(id, hallId, config, loading) : GoodPost(p)
    BY FollowGood DEF PageOK
  <2> QED
    BY <1>2, <2>1 DEF ParentSelects, PostsOK
<1>3. CASE ParentRefreshes
  <2>1. \A p \in Refresh(TRUE, hallId, config) : GoodPost(p)
    BY RefreshGood DEF PageOK
  <2>2. PostsOK'
    BY <1>3, <2>1 DEF ParentRefreshes, PostsOK
  <2> QED
    BY <1>3, <2>2 DEF ParentRefreshes, AfterFlush, PageOK, ServerOK, GetsOK, LoadOK
<1>4. CASE RelabelRack
  <2>1. /\ \A p \in Cleanup(hallId, config) : GoodPost(p)
        /\ \A p \in FollowParent(ext, hallId, config, loading) : GoodPost(p)
        /\ \A p \in Refresh(trigger, hallId, config) : GoodPost(p)
    BY CleanupGood, FollowGood, RefreshGood DEF PageOK
  <2>2. PostsOK'
    BY <1>4, <2>1 DEF RelabelRack, PostsOK
  <2> QED
    BY <1>4, <2>2 DEF RelabelRack, PageOK, ServerOK, GetsOK, LoadOK
<1>5. ASSUME NEW id \in Halls, SelectHall(id) PROVE HallInv'
  BY <1>1, <1>5 DEF SelectHall, PageOK, ServerOK, GetsOK, LoadOK
<1>6. ASSUME NEW id \in Halls, ParentSelects(id) PROVE HallInv'
  BY <1>2, <1>6 DEF ParentSelects, AfterFlush, PageOK, ServerOK, GetsOK, LoadOK
<1> QED
  BY <1>3, <1>4, <1>5, <1>6

LEMMA CreateKeeps == ASSUME HallInv, NEW id \in Halls, CreateHall(id) PROVE HallInv'
<1> USE DEF HallInv
<1>1. GetsOK' /\ LoadOK' /\ req' \in Halls /\ loading' = TRUE /\ guard' = TRUE /\ release' = FALSE
  BY StartGood DEF CreateHall
<1>2. PageOK'
  BY <1>1 DEF PageOK, CreateHall
<1>3. ServerOK' /\ PostsOK'
  BY DEF ServerOK, PostsOK, CreateHall
<1> QED
  BY <1>1, <1>2, <1>3

LEMMA DeleteKeeps == ASSUME HallInv, NEW id \in Halls, DeleteHall(id) PROVE HallInv'
<1> USE DEF HallInv
<1>1. ServerOK'
  BY DEF ServerOK, DeleteHall
<1>2. CASE /\ \E other \in exists' : StartLoad(other, TRUE, FALSE)
           /\ UNCHANGED <<hallId, posts, timer>>
  <2>1. PICK other \in Halls : StartLoad(other, TRUE, FALSE)
    BY <1>1, <1>2 DEF ServerOK
  <2>2. GetsOK' /\ LoadOK' /\ req' \in Halls /\ loading' = TRUE /\ guard' = TRUE /\ release' = FALSE
    BY <2>1, StartGood
  <2> QED
    BY <1>1, <1>2, <2>2 DEF DeleteHall, PageOK, PostsOK
<1>3. CASE /\ hallId' = None
           /\ posts' = posts \cup IF hallId = None THEN {}
                                  ELSE FollowParent(ext, None, config, loading)
           /\ timer' = "off"
           /\ UNCHANGED <<gets, req, loading, guard, release>>
  <2>1. \A p \in FollowParent(ext, None, config, loading) : GoodPost(p)
    BY FollowGood DEF PageOK
  <2>2. PostsOK'
    BY <1>3, <2>1 DEF PostsOK
  <2> QED
    BY <1>1, <1>3, <2>2 DEF DeleteHall, PageOK, GetsOK, LoadOK
<1> QED
  BY <1>2, <1>3 DEF DeleteHall

LEMMA LeaveKeeps == ASSUME HallInv, Leave PROVE HallInv'
<1> USE DEF HallInv
<1>1. ASSUME NEW p \in posts
      PROVE GoodPost(IF p.tell THEN [p EXCEPT !.next = "orphan"] ELSE Save(p.hall, p.config))
  <2>1. p \in Post /\ (p.hall # None => p.config.of = p.hall) /\ (p.tell => p.to \in Halls)
    BY DEF PostsOK, GoodPost
  <2>2. GoodPost(Save(p.hall, p.config))
    BY <2>1, SaveGood DEF Post
  <2>3. ASSUME p.tell PROVE GoodPost([p EXCEPT !.next = "orphan"])
    BY <2>1, <2>3 DEF GoodPost, Post
  <2> QED
    BY <2>2, <2>3
<1>2. PostsOK'
  <2>1. \A p \in Cleanup(hallId, config) : GoodPost(p)
    BY CleanupGood DEF PageOK
  <2> QED
    BY <1>1, <2>1 DEF Leave, PostsOK
<1>3. ASSUME NEW g \in gets PROVE GoodGet(Orphan(g.id)) /\ ~IsCurrent(Orphan(g.id))
  BY LoadGood DEF GetsOK, GoodGet, Get
<1>4. GetsOK' /\ LoadOK'
  BY <1>3 DEF Leave, GetsOK, LoadOK
<1>5. PageOK'
  BY DefaultGood DEF Leave, PageOK
<1> QED
  BY <1>2, <1>4, <1>5 DEF Leave, ServerOK

-----------------------------------------------------------------------------
(* Answers.                                                                 *)
LEMMA PostEndsKeeps == ASSUME HallInv, NEW p \in posts, PostEnds(p) PROVE HallInv'
<1> USE DEF HallInv
<1>1. GoodPost(p) /\ p \in Post
  BY DEF PostsOK, GoodPost
<1>2. ServerOK'
  <2>1. p.hall \in exists => p.hall \in Halls /\ p.hall # None
    BY NoneAssumption DEF ServerOK
  <2>2. p.config \in Config
    BY <1>1 DEF Post
  <2> QED
    BY <1>1, <2>1, <2>2 DEF PostEnds, ServerOK, GoodPost
<1>3. PostsOK'
  BY DEF PostEnds, PostsOK
<1>4. CASE p.next = "nothing" /\ UNCHANGED <<gets, req, loading, guard, release>>
  BY <1>2, <1>3, <1>4 DEF PostEnds, PageOK, GetsOK, LoadOK
<1>5. CASE p.next = "load" /\ StartLoad(p.to, p.tell, FALSE)
  <2>1. p.to \in Halls /\ p.tell \in BOOLEAN
    BY <1>1, <1>5 DEF GoodPost, Post
  <2>2. GetsOK' /\ LoadOK' /\ req' \in Halls /\ loading' = TRUE /\ guard' = TRUE /\ release' = FALSE
    BY <1>5, <2>1, StartGood
  <2> QED
    BY <1>2, <1>3, <2>2 DEF PostEnds, PageOK
<1>6. CASE p.next \in {"orphan", "racks"} /\ UNCHANGED <<req, loading, guard, release>>
           /\ gets' \in {gets \cup {Orphan(p.to)}, gets \cup {LoadRacks(p.to)}}
  <2>1. p.to \in Halls
    BY <1>1, <1>6 DEF GoodPost
  <2>2. GetsOK' /\ LoadOK'
    BY <1>6, <2>1, LoadGood DEF GetsOK, LoadOK
  <2> QED
    BY <1>2, <1>3, <1>6, <2>2 DEF PostEnds, PageOK
<1> QED
  BY <1>4, <1>5, <1>6 DEF PostEnds

LEMMA ServerReadsKeeps == ASSUME HallInv, NEW g \in gets, ServerReads(g) PROVE HallInv'
<1> USE DEF HallInv
<1> DEFINE o == [g EXCEPT !.seen = IF g.id \in exists THEN "yes" ELSE "gone", !.config = server[g.id]]
<1>1. g \in Get /\ IsCurrent(g)
  BY DEF GetsOK, GoodGet, ServerReads
<1>2. GoodGet(o) /\ IsCurrent(o) /\ o.id = g.id
  <2>1. server[g.id] \in Config \cup {None} /\ (server[g.id] # None => server[g.id].of = g.id)
    BY <1>1 DEF ServerOK, Get
  <2> QED
    BY <1>1, <2>1 DEF GoodGet, Get, IsCurrent
<1>3. gets' = (gets \ {g}) \cup {o}
  BY DEF ServerReads
<1> HIDE DEF o
<1>4. GetsOK' /\ LoadOK'
  BY <1>1, <1>2, <1>3 DEF GetsOK, LoadOK, ServerReads, page
<1> QED
  BY <1>4 DEF ServerReads, page, PageOK, ServerOK, PostsOK

LEMMA LoadAnsweredKeeps == ASSUME HallInv, NEW g \in gets, LoadAnswered(g) PROVE HallInv'
<1> USE DEF HallInv
<1> DEFINE c == Received(g)
           e == IF g.tell THEN g.id ELSE ext
<1>1. g.id \in Halls /\ c \in Config /\ c.of = g.id /\ e \in Halls \cup {None}
  BY DefaultGood DEF GetsOK, GoodGet, Get, Received, PageOK
<1>2. PageOK'
  BY <1>1 DEF LoadAnswered, PageOK
<1>3. PostsOK'
  <2>1. /\ \A p \in Cleanup(hallId, config) : GoodPost(p)
        /\ \A p \in FollowParent(e, g.id, c, FALSE) : GoodPost(p)
        /\ \A p \in Refresh(trigger, g.id, c) : GoodPost(p)
    BY <1>1, CleanupGood, FollowGood, RefreshGood DEF PageOK
  <2> QED
    BY <2>1 DEF LoadAnswered, PostsOK
<1>4. GetsOK' /\ LoadOK'
  BY DEF LoadAnswered, GetsOK, LoadOK
<1> QED
  BY <1>2, <1>3, <1>4 DEF LoadAnswered, ServerOK

LEMMA LoadFailsKeeps == ASSUME HallInv, NEW g \in gets, LoadFails(g) PROVE HallInv'
<1> USE DEF HallInv
<1> DEFINE e == IF g.tell THEN g.id ELSE ext
<1>1. e \in Halls \cup {None}
  BY DEF GetsOK, GoodGet, Get, PageOK
<1>2. PostsOK'
  <2>1. \A p \in FollowParent(e, hallId, config, FALSE) : GoodPost(p)
    BY <1>1, FollowGood DEF PageOK
  <2> QED
    BY <2>1 DEF LoadFails, PostsOK
<1>3. PageOK'
  BY <1>1 DEF LoadFails, AfterFlush, PageOK
<1>4. GetsOK' /\ LoadOK'
  BY DEF LoadFails, GetsOK, LoadOK
<1> QED
  BY <1>2, <1>3, <1>4 DEF LoadFails, ServerOK

LEMMA LoadOutdatedKeeps == ASSUME HallInv, NEW g \in gets, LoadOutdated(g) PROVE HallInv'
<1> USE DEF HallInv
<1> DEFINE e == IF g.tell THEN g.id ELSE ext
           l == loading /\ ~g.first
<1>1. e \in Halls \cup {None} /\ l \in BOOLEAN
  BY DEF GetsOK, GoodGet, Get, PageOK
<1>2. PostsOK'
  <2>1. \A p \in FollowParent(e, hallId, config, l) : GoodPost(p)
    BY <1>1, FollowGood DEF PageOK
  <2> QED
    BY <2>1 DEF LoadOutdated, PostsOK
<1>3. PageOK'
  BY <1>1 DEF LoadOutdated, AfterFlush, PageOK
<1>4. GetsOK' /\ LoadOK'
  BY DEF LoadOutdated, GetsOK, LoadOK
<1> QED
  BY <1>2, <1>3, <1>4 DEF LoadOutdated, ServerOK

LEMMA RacksAnsweredKeeps == ASSUME HallInv, NEW g \in gets, RacksAnswered(g) PROVE HallInv'
<1> USE DEF HallInv
<1>1. g.id \in Halls
  BY DEF GetsOK, GoodGet, Get
<1>2. PostsOK'
  <2>1. /\ \A p \in Cleanup(hallId, config) : GoodPost(p)
        /\ \A p \in FollowParent(ext, hallId, config, loading) : GoodPost(p)
        /\ \A p \in Refresh(trigger, hallId, config) : GoodPost(p)
    BY CleanupGood, FollowGood, RefreshGood DEF PageOK
  <2> QED
    BY <2>1 DEF RacksAnswered, PostsOK
<1>3. PageOK'
  BY <1>1 DEF RacksAnswered, PageOK
<1>4. GetsOK' /\ LoadOK'
  BY DEF RacksAnswered, GetsOK, LoadOK
<1> QED
  BY <1>2, <1>3, <1>4 DEF RacksAnswered, ServerOK

-----------------------------------------------------------------------------
LEMMA HallKeeps == HallInv /\ [Next]_vars => HallInv'
<1> SUFFICES ASSUME HallInv, [Next]_vars PROVE HallInv'
  OBVIOUS
<1>1. ASSUME NEW id \in Halls, ListHalls(id) \/ MakeDefaultHall(id) PROVE HallInv'
  BY <1>1, OpenKeeps
<1>2. ASSUME NEW id \in Halls, SelectHall(id) \/ ParentSelects(id) PROVE HallInv'
  BY <1>2, SelectKeeps
<1>3. ASSUME NEW id \in Halls, CreateHall(id) \/ DeleteHall(id) PROVE HallInv'
  BY <1>3, CreateKeeps, DeleteKeeps
<1>4. CASE NoHall \/ Edit \/ Autosave \/ ReleaseGuard
  BY <1>4, NoHallKeeps, EditKeeps, AutosaveKeeps, ReleaseKeeps
<1>5. CASE ParentRefreshes \/ RelabelRack \/ Leave
  BY <1>5, SelectKeeps, LeaveKeeps
<1>6. ASSUME NEW p \in posts, PostEnds(p) PROVE HallInv'
  BY <1>6, PostEndsKeeps
<1>7. ASSUME NEW g \in gets, ServerReads(g) \/ LoadAnswered(g) \/ LoadFails(g) PROVE HallInv'
  BY <1>7, ServerReadsKeeps, LoadAnsweredKeeps, LoadFailsKeeps
<1>8. ASSUME NEW g \in gets, LoadOutdated(g) \/ RacksAnswered(g) PROVE HallInv'
  BY <1>8, LoadOutdatedKeeps, RacksAnsweredKeeps
<1>9. CASE UNCHANGED vars
  BY <1>9 DEF vars, page, HallInv, PageOK, ServerOK, PostsOK, GetsOK, LoadOK
<1> QED
  BY <1>1, <1>2, <1>3, <1>4, <1>5, <1>6, <1>7, <1>8, <1>9 DEF Next, Response

LEMMA HallInvariant == Spec => []HallInv
  BY HallBegins, HallKeeps, PTL DEF Spec

(* No hall has, or is about to be sent, the configuration of another one,   *)
(* whichever of the saves of DataHallDesigner.jsx runs around a switch.     *)
THEOREM OwnConfiguration == Spec => []OwnConfig
<1>1. HallInv => OwnConfig
  BY DEF HallInv, ServerOK, PostsOK, GoodPost, OwnConfig
<1> QED
  BY <1>1, HallInvariant, PTL

(* Autosave sends nothing between the request of a load and its answer.     *)
THEOREM AutosaveQuiet == Spec => QuietWhileLoading
<1>1. HallInv /\ [Next]_vars =>
        [Autosave /\ posts' # posts => ~\E g \in gets : g.what = "load" /\ g.current]_vars
  BY DEF HallInv, LoadOK, IsCurrent, Autosave
<1> QED
  BY <1>1, HallInvariant, PTL DEF Spec, QuietWhileLoading

(* What the page had of a hall is on its way, or was saved, when it turns   *)
(* to another one.                                                          *)
THEOREM SwitchNeverLoses == Spec => SwitchSaves
<1>1. HallInv /\ [Next]_vars =>
        [hallId # None /\ hallId' \notin {hallId, None}
           => server[hallId] = config \/ \E p \in posts' : p.hall = hallId /\ p.config = config]_vars
  <2> SUFFICES ASSUME [Next]_vars, hallId # None, hallId' \notin {hallId, None}
               PROVE \E p \in posts' : p.hall = hallId /\ p.config = config
    OBVIOUS
  <2>1. PICK g \in gets : LoadAnswered(g)
    BY DEF Next, Response, vars, page, ListHalls, MakeDefaultHall, SelectHall, ParentSelects, CreateHall,
           DeleteHall, NoHall, Edit, Autosave, ReleaseGuard, ParentRefreshes, RelabelRack, Leave,
           PostEnds, ServerReads, LoadFails, LoadOutdated, RacksAnswered
  <2>2. Save(hallId, config) \in posts'
    BY <2>1 DEF LoadAnswered, Cleanup
  <2> QED
    BY <2>2 DEF Save, Flush
<1> QED
  BY <1>1, HallInvariant, PTL DEF Spec, SwitchSaves

-----------------------------------------------------------------------------
(* Each step of the designer is one of the latest-request view or leaves it *)
(* as it is.                                                                *)
LEMMA StepIsLatest == HallInv /\ [Next]_vars => [Latest!Next]_(Latest!vars)
<1> SUFFICES ASSUME HallInv, [Next]_vars PROVE [Latest!Next]_(Latest!vars)
  OBVIOUS
<1> USE DEF Latest!Next, Latest!vars, Latest!Request, Latest!Answer, Latest!Close
<1>1. ASSUME NEW id \in Halls, ListHalls(id) \/ MakeDefaultHall(id) \/ CreateHall(id)
      PROVE \E i \in Halls : Latest!Request(i)
  BY <1>1 DEF ListHalls, MakeDefaultHall, CreateHall, StartLoad
<1>2. ASSUME NEW id \in Halls, DeleteHall(id) PROVE Latest!Next
  <2>1. CASE hallId' = None /\ req' = req
    BY <2>1
  <2>2. CASE \E other \in exists' : StartLoad(other, TRUE, FALSE) /\ hallId' = hallId
    <3>1. exists' \subseteq Halls
      BY <1>2 DEF HallInv, ServerOK, DeleteHall
    <3> QED
      BY <2>2, <3>1 DEF StartLoad
  <2> QED
    BY <1>2, <2>1, <2>2 DEF DeleteHall
<1>3. CASE Leave
  BY <1>3 DEF Leave
<1>4. ASSUME NEW p \in posts, PostEnds(p) PROVE [Latest!Next]_(Latest!vars)
  <2>1. p.next = "load" => p.to \in Halls
    BY DEF HallInv, PostsOK, GoodPost
  <2> QED
    BY <1>4, <2>1 DEF PostEnds, StartLoad
<1>5. ASSUME NEW g \in gets, LoadAnswered(g) PROVE Latest!Answer
  <2>1. g.id = req
    BY <1>5 DEF HallInv, LoadOK, LoadAnswered
  <2> QED
    BY <1>5, <2>1 DEF LoadAnswered
<1>6. ASSUME NEW id \in Halls, SelectHall(id) \/ ParentSelects(id) PROVE UNCHANGED Latest!vars
  BY <1>6 DEF SelectHall, ParentSelects
<1>7. CASE NoHall \/ Edit \/ Autosave \/ ReleaseGuard \/ ParentRefreshes \/ RelabelRack
  BY <1>7 DEF NoHall, Edit, Autosave, ReleaseGuard, ParentRefreshes, RelabelRack
<1>8. ASSUME NEW g \in gets, ServerReads(g) \/ LoadFails(g) \/ LoadOutdated(g) \/ RacksAnswered(g)
      PROVE UNCHANGED Latest!vars
  BY <1>8 DEF ServerReads, LoadFails, LoadOutdated, RacksAnswered, page
<1>9. CASE UNCHANGED vars
  BY <1>9 DEF vars, page
<1> QED
  BY <1>1, <1>2, <1>3, <1>4, <1>5, <1>6, <1>7, <1>8, <1>9 DEF Next, Response

(* The designer implements LatestRequest: what it shows is nothing, or the  *)
(* hall it has shown, or that of the latest request.                        *)
THEOREM ImplementsLatest == Spec => ShowsLatest
<1>1. Init => Latest!Init
  BY DEF Init, Latest!Init
<1> QED
  BY <1>1, StepIsLatest, HallInvariant, PTL DEF Spec, ShowsLatest, Latest!Spec
=============================================================================
