------------------------- MODULE Dashboard_proofs -------------------------
(***************************************************************************)
(* Proofs about the dashboard with all its parts at once, and about the page *)
(* of a technician beside it: for every set of PDUs and any number of        *)
(* clicks, answers and reads under way.  Then proofs about the incidents of  *)
(* the server which that page acts on (Incidents), for any alarms, threads   *)
(* and restarts.                                                             *)
(***************************************************************************)
EXTENDS Dashboard, Incidents, FiniteSetTheorems, SequenceTheorems, WellFoundedInduction, TLAPS

-----------------------------------------------------------------------------
(* The navigation.  A handler shows a section by its page, and takes the     *)
(* section from what was kept: of that only the type is needed.             *)
NavInv ==
  /\ shell \in {"plain", "neural"} /\ ops \in BOOLEAN
  /\ stencil \in StencilSections /\ keptStencil \in StencilSections
  /\ board \in BoardSections /\ keptBoard \in BoardSections
  /\ NavShown

(* What the pages of a section are. *)
LEMMA PagesOpened ==
  /\ \A s \in BoardSections : BoardPage(s) \in Pages(s)
  /\ \A s \in StencilSections : StencilPage(s) \in Pages(s)
  /\ Pages("fleet") = PduTabs
  /\ "datahall" \in Pages("overview") /\ "datahall" \in Pages("designer")
<1>1. Pages("fleet") = PduTabs /\ BoardPage("fleet") \in PduTabs
  BY DEF Pages, BoardPage, PduTabs
<1>3. \A s \in {"overview", "alarms"} : Pages(s) = {BoardPage(s)}
  BY DEF Pages, BoardSections
<1>4. \A s \in StencilSections : Pages(s) = {StencilPage(s)}
  BY DEF Pages, BoardSections, StencilSections
<1>5. BoardPage("overview") = "datahall" /\ StencilPage("designer") = "datahall"
  BY DEF BoardPage, StencilPage
<1> QED
  BY <1>1, <1>3, <1>4, <1>5 DEF BoardSections, StencilSections

LEMMA NavStep == [DashNext]_dashVars => NavNext \/ UNCHANGED navVars
<1>1. Navigates => NavNext
  BY DEF Navigates, ListRead, NavNext
<1> QED
  BY <1>1 DEF DashNext, Works, Configures, Reboots, Responds, dashVars

LEMMA NavKept ==
  ASSUME NavInv, NavNext \/ UNCHANGED navVars PROVE NavInv'
<1> USE DEF NavInv, Opens
<1> USE DEF NavShown, BackAtAssign, Highlighted, Neural
<1>1. ASSUME NEW a \in {"neural", "plain", "failed"}, Detected(a) PROVE NavInv'
  <2>1. CASE a = "neural"
    <3>1. InitNeuralShell /\ UNCHANGED ops
      BY <1>1, <2>1 DEF Detected
    <3>2. /\ shell' = "neural" /\ stencil' = "designer" /\ keptStencil' = "designer"
          /\ board' = "overview" /\ keptBoard' = "overview" /\ tab' = "datahall"
      BY <3>1 DEF InitNeuralShell
    <3> QED
      BY <3>1, <3>2, PagesOpened DEF StencilSections, BoardSections
  <2>2. CASE a = "plain"
    BY <1>1, <2>2 DEF Detected, sections
  <2>3. CASE a = "failed"
    BY <1>1, <2>3 DEF Detected, sections, Pages
  <2> QED
    BY <2>1, <2>2, <2>3
<1>2. ASSUME NEW on \in BOOLEAN, Primary(on) PROVE NavInv'
  BY <1>2, PagesOpened DEF Primary, StencilPage
<1>3. ASSUME NEW s \in StencilSections, StencilSection(s) PROVE NavInv'
  BY <1>3, PagesOpened DEF StencilSection
<1>4. ASSUME NEW s \in BoardSections, BoardSection(s) PROVE NavInv'
  BY <1>4, PagesOpened DEF BoardSection, ToBoard, OpensBoard
<1>5. ASSUME NEW s \in AlarmSections, AlarmsSection(s) PROVE NavInv'
  BY <1>5 DEF AlarmsSection, Pages
<1>6. CASE OpenDevices
  BY <1>6, PagesOpened DEF OpenDevices, ToBoard, OpensBoard, BoardSections
<1>7. CASE HallFailed \/ DeletePdu
  BY <1>7 DEF HallFailed, DeletePdu, sections, Pages
<1>8. ASSUME NEW p \in PDUs, SidebarSelect(p) \/ FleetSelect(p) \/ TreeClick(p) PROVE NavInv'
  <2>1. CASE SidebarSelect(p)
    BY <2>1, PagesOpened DEF SidebarSelect, SelectsFromSidebar, ToFleet, BoardSections, PduTabs
  <2>2. CASE FleetSelect(p)
    BY <2>2 DEF FleetSelect, sections, Pages
  <2>3. CASE TreeClick(p)
    BY <2>3 DEF TreeClick, sections
  <2> QED
    BY <1>8, <2>1, <2>2, <2>3
<1>9. ASSUME NEW p \in PDUs, NEW t \in PduTabs, PanelSelect(p, t) PROVE NavInv'
  BY <1>9, PagesOpened DEF PanelSelect, NeuralLayout, ToFleet, BoardSections
<1>10. ASSUME NEW p \in PDUs, NEW hidden \in BOOLEAN, Navigate(p, hidden) PROVE NavInv'
  <2>1. CASE Neural /\ ~hidden
    BY <1>10, <2>1, PagesOpened
       DEF Navigate, SelectsFromSidebar, ToFleet, BoardSections, PduTabs
  <2>2. CASE ~(Neural /\ ~hidden)
    BY <1>10, <2>2 DEF Navigate, sections
  <2> QED
    BY <2>1, <2>2
<1>11. ASSUME NEW t \in PduTabs, FleetTab(t) \/ SubTab(t) PROVE NavInv'
  BY <1>11, PagesOpened DEF FleetTab, FleetSplit, SubTab, sections
<1>12. ASSUME NEW t, Tile(t) PROVE NavInv'
  BY <1>12 DEF Tile, sections
<1>13. ASSUME NEW ps, NEW silent, HallLoaded(ps, silent) PROVE NavInv'
  BY <1>13 DEF HallLoaded, sections, Pages
<1>14. CASE UNCHANGED navVars
  BY <1>14 DEF navVars, sections, Pages
<1> QED
  BY <1>1, <1>2, <1>3, <1>4, <1>5, <1>6, <1>7, <1>8, <1>9, <1>10, <1>11, <1>12, <1>13, <1>14
     DEF NavNext

(* By whatever way the operator came to it, the page belongs to the section  *)
(* that the rail of the neural shell shows, but for a PDU that the filter    *)
(* hides and for the assignment that the operator came back to.             *)
THEOREM PageOfSection == DashSpec => []NavShown
<1>1. DashInit => NavInv
  BY DEF DashInit, NavInit, NavInv, NavShown, BackAtAssign, Highlighted, Pages, StencilPage, BoardPage,
         StencilSections, BoardSections, PduTabs
<1>2. NavInv => NavShown
  BY DEF NavInv
<1> QED
  BY <1>1, <1>2, NavStep, NavKept, PTL DEF DashSpec

-----------------------------------------------------------------------------
(* The settings.  The calls to the server are numbered, so that one sent now *)
(* is not one that is under way, and the set of them counts them.           *)
Calls(S, c, p) == {x \in S : x.call = c /\ x.of = p}

LEMMA CallsFinite ==
  ASSUME NEW S, IsFiniteSet(S), NEW c, NEW p
  PROVE  Cardinality(Calls(S, c, p)) \in Nat
<1>1. IsFiniteSet(Calls(S, c, p))
  BY FS_Subset DEF Calls
<1> QED
  BY <1>1, FS_CardinalityType

(* T has one call more than S, of PDU p and kind c if x is. *)
More(S, T, x, c, p) ==
  /\ x.call = c /\ x.of = p => Cardinality(Calls(T, c, p)) = Cardinality(Calls(S, c, p)) + 1
  /\ ~(x.call = c /\ x.of = p) => Cardinality(Calls(T, c, p)) = Cardinality(Calls(S, c, p))

LEMMA CallAdded ==
  ASSUME NEW S, IsFiniteSet(S), NEW x, x \notin S, NEW c, NEW p
  PROVE  IsFiniteSet(S \cup {x}) /\ More(S, S \cup {x}, x, c, p)
<1>1. IsFiniteSet(S \cup {x})
  BY FS_AddElement
<1>2. CASE x.call = c /\ x.of = p
  <2> DEFINE T == Calls(S, c, p)
  <2>1. Calls(S \cup {x}, c, p) = T \cup {x}
    BY <1>2 DEF Calls
  <2>2. IsFiniteSet(T) /\ x \notin T
    BY FS_Subset DEF Calls
  <2> HIDE DEF T
  <2>3. Cardinality(T \cup {x}) = Cardinality(T) + 1
    BY <2>2, FS_AddElement
  <2>4. Cardinality(Calls(S \cup {x}, c, p)) = Cardinality(Calls(S, c, p)) + 1
    BY <2>1, <2>3, Zenon DEF T
  <2> QED
    BY <1>1, <1>2, <2>4 DEF More
<1>3. CASE ~(x.call = c /\ x.of = p)
  <2>1. Calls(S \cup {x}, c, p) = Calls(S, c, p)
    BY <1>3 DEF Calls
  <2> QED
    BY <1>1, <1>3, <2>1, Zenon DEF More
<1> QED
  BY <1>2, <1>3

LEMMA CallGone ==
  ASSUME NEW S, IsFiniteSet(S), NEW x \in S, NEW c, NEW p
  PROVE  IsFiniteSet(S \ {x}) /\ More(S \ {x}, S, x, c, p)
<1>1. IsFiniteSet(S \ {x}) /\ x \notin S \ {x}
  BY FS_RemoveElement
<1>2. (S \ {x}) \cup {x} = S
  OBVIOUS
<1>3. More(S \ {x}, (S \ {x}) \cup {x}, x, c, p)
  BY <1>1, CallAdded, Zenon
<1> QED
  BY <1>1, <1>2, <1>3, Zenon

(* A call to a PDU, or none. *)
CallTo(k, q, n) == IF q = None THEN {} ELSE {[call |-> k, of |-> q, n |-> n]}

LEMMA CallsStayFinite ==
  ASSUME NEW S, IsFiniteSet(S), NEW k, NEW q, NEW n PROVE IsFiniteSet(S \cup CallTo(k, q, n))
<1>1. CASE q = None
  <2>1. S \cup CallTo(k, q, n) = S
    BY <1>1 DEF CallTo
  <2> QED
    BY <2>1, Zenon
<1>2. CASE q # None
  <2>1. CallTo(k, q, n) = {[call |-> k, of |-> q, n |-> n]}
    BY <1>2 DEF CallTo
  <2> QED
    BY <2>1, FS_AddElement, Zenon
<1> QED
  BY <1>1, <1>2, Zenon

(* T has one call more than S, of PDU p and kind c if it is k to q. *)
MoreTo(S, T, k, q, c, p) ==
  /\ k = c /\ q = p => Cardinality(Calls(T, c, p)) = Cardinality(Calls(S, c, p)) + 1
  /\ ~(k = c /\ q = p) => Cardinality(Calls(T, c, p)) = Cardinality(Calls(S, c, p))

LEMMA CallMade ==
  ASSUME NEW S, IsFiniteSet(S), NEW k, NEW q, NEW n, NEW c, NEW p, p # None,
         \A x \in S : x # [call |-> k, of |-> q, n |-> n]
  PROVE  MoreTo(S, S \cup CallTo(k, q, n), k, q, c, p)
<1>1. CASE q = None
  <2>1. S \cup CallTo(k, q, n) = S
    BY <1>1 DEF CallTo
  <2>2. ~(k = c /\ q = p)
    BY <1>1
  <2> QED
    BY <2>1, <2>2, Zenon DEF MoreTo
<1>2. CASE q # None
  <2> DEFINE x == [call |-> k, of |-> q, n |-> n]
  <2>1. x.call = k /\ x.of = q /\ x \notin S
    OBVIOUS
  <2>2. CallTo(k, q, n) = {x}
    BY <1>2 DEF CallTo
  <2> HIDE DEF x
  <2>3. IsFiniteSet(S \cup {x}) /\ More(S, S \cup {x}, x, c, p)
    BY <2>1, CallAdded, Zenon
  <2> QED
    BY <2>1, <2>2, <2>3, Zenon DEF More, MoreTo
<1> QED
  BY <1>1, <1>2, Zenon

HoldsInv ==
  /\ clicks \in Nat
  /\ holds \in [PDUs -> Nat] /\ strays \in [PDUs -> Nat]
  /\ IsFiniteSet(posts) /\ \A x \in posts : x.of \in PDUs /\ x.n \in Nat /\ x.n <= clicks
  /\ HoldsReturned

LEMMA PostedIsCalls == \A c, p : Posted(c, p) = Cardinality(Calls(posts, c, p))
BY DEF Posted, Calls

LEMMA SessionType == Session \in PDUs \cup {None}
BY WithLoginAssumption DEF Session

LEMMA SessionKept == ASSUME UNCHANGED navVars PROVE Session' = Session
BY DEF navVars, sections, Session, Host, Row, OnSettings, FleetSplit, Neural

LEMMA PanelStep ==
  [DashNext]_dashVars =>
    \/ PanelFollows
    \/ PanelNext /\ UNCHANGED navVars
    \/ UNCHANGED <<navVars, panelVars>>
BY DEF DashNext, Navigates, Works, Configures, Reboots, Responds, dashVars

(* Nothing that is counted changes. *)
LEMMA HoldsSame ==
  ASSUME HoldsInv, UNCHANGED <<holds, strays, posts>>, Session' = Session,
         clicks' \in Nat, clicks <= clicks'
  PROVE  HoldsInv'
<1>1. \A p \in PDUs : Posted("hold", p)' = Posted("hold", p) /\ Posted("release", p)' = Posted("release", p)
  BY DEF Posted
<1>2. HoldsReturned'
  BY <1>1 DEF HoldsInv, HoldsReturned
<1>3. \A x \in posts' : x.of \in PDUs /\ x.n \in Nat /\ x.n <= clicks'
  BY DEF HoldsInv
<1> QED
  BY <1>2, <1>3 DEF HoldsInv

(* Another PDU: the one before is released, the new one is held. *)
LEMMA SessionChanged ==
  ASSUME HoldsInv, Session' # Session, clicks' = clicks + 1, posts' = posts \cup SessionCalls,
         UNCHANGED <<holds, strays>>
  PROVE  HoldsInv'
<1> DEFINE s == Session
           t == Session'
           m == clicks + 1
           U == CallTo("release", s, m)
           V == CallTo("hold", t, m)
<1>1. posts' = (posts \cup U) \cup V
  BY DEF SessionCalls, Call, CallTo
<1>2. s \in PDUs \cup {None} /\ t \in PDUs \cup {None} /\ s # t
  BY SessionType, WithLoginAssumption DEF Session
<1>3. IsFiniteSet(posts) /\ m \in Nat /\ \A x \in posts : x.of \in PDUs /\ x.n \in Nat /\ x.n < m
  BY DEF HoldsInv
<1> HIDE DEF s, t, m
<1>4. /\ \A x \in posts : x # [call |-> "release", of |-> s, n |-> m]
      /\ \A x \in posts \cup U : x # [call |-> "hold", of |-> t, n |-> m]
  BY <1>3 DEF CallTo
<1>5. \A p \in PDUs : p # None
  BY PDUsAssumption
<1>6. /\ IsFiniteSet(posts \cup U)
      /\ \A c : \A p \in PDUs : MoreTo(posts, posts \cup U, "release", s, c, p)
  <2>1. IsFiniteSet(posts) /\ \A x \in posts : x # [call |-> "release", of |-> s, n |-> m]
    BY <1>3, <1>4
  <2> QED
    BY <1>5, <2>1, CallsStayFinite, CallMade, Zenon
<1>7. /\ IsFiniteSet((posts \cup U) \cup V)
      /\ \A c : \A p \in PDUs : MoreTo(posts \cup U, (posts \cup U) \cup V, "hold", t, c, p)
  <2>1. \A x \in posts \cup U : x # [call |-> "hold", of |-> t, n |-> m]
    BY <1>4
  <2> QED
    BY <1>5, <1>6, <2>1, CallsStayFinite, CallMade, Zenon
<1>8. \A c, p : Posted(c, p) \in Nat
  BY <1>3, CallsFinite, PostedIsCalls
<1>9. ASSUME NEW p \in PDUs
      PROVE  /\ Posted("release", p)' = Posted("release", p) + (IF p = s THEN 1 ELSE 0)
             /\ Posted("hold", p)' = Posted("hold", p) + (IF p = t THEN 1 ELSE 0)
  <2> DEFINE old(c) == Cardinality(Calls(posts, c, p))
             mid(c) == Cardinality(Calls(posts \cup U, c, p))
             new(c) == Cardinality(Calls((posts \cup U) \cup V, c, p))
  <2>1. Posted("release", p)' = new("release") /\ Posted("hold", p)' = new("hold")
    BY <1>1 DEF Posted, Calls
  <2>2. Posted("release", p) = old("release") /\ Posted("hold", p) = old("hold")
    BY PostedIsCalls, Zenon
  <2>3. /\ s = p => mid("release") = old("release") + 1
        /\ s # p => mid("release") = old("release")
    BY <1>6, Zenon DEF MoreTo
  <2>4. mid("hold") = old("hold") /\ new("release") = mid("release")
    <3>1. "release" # "hold"
      OBVIOUS
    <3> QED
      BY <1>6, <1>7, <3>1, Zenon DEF MoreTo
  <2>5. /\ t = p => new("hold") = mid("hold") + 1
        /\ t # p => new("hold") = mid("hold")
    BY <1>7, Zenon DEF MoreTo
  <2> HIDE DEF old, mid, new
  <2> QED
    BY <1>8, <2>1, <2>2, <2>3, <2>4, <2>5
<1>10. HoldsReturned'
  <2> SUFFICES ASSUME NEW p \in PDUs
               PROVE  holds[p] + Posted("hold", p)'
                        <= (IF p = t THEN 1 ELSE 0) + Posted("release", p)' + strays[p]
    BY DEF HoldsReturned, t
  <2>1. holds[p] \in Nat /\ strays[p] \in Nat
    BY DEF HoldsInv
  <2>2. holds[p] + Posted("hold", p) <= (IF p = s THEN 1 ELSE 0) + Posted("release", p) + strays[p]
    BY DEF HoldsInv, HoldsReturned, s
  <2> QED
    BY <1>8, <1>9, <2>1, <2>2
<1>11. IsFiniteSet(posts')
  BY <1>1, <1>7
<1>12. \A x \in posts' : x.of \in PDUs /\ x.n \in Nat /\ x.n <= clicks'
  BY <1>1, <1>2, <1>3 DEF m, CallTo
<1> QED
  BY <1>3, <1>10, <1>11, <1>12 DEF HoldsInv, m

(* The actions of the panel but those of the server. *)
LEMMA PanelActions ==
  ASSUME PanelNext
  PROVE  \/ \E c \in posts, taken, answered \in BOOLEAN : HoldDone(c, taken, answered)
         \/ \E c \in posts, taken \in BOOLEAN : ReleaseDone(c, taken)
         \/ UNCHANGED sessionVars /\ (UNCHANGED clicks \/ Click)
BY DEF PanelNext, Read, OpenPage, Edit, Saved, Online, GaveUp, Refresh, PollTelemetry, SaveNetwork,
       RebootPdu, SaveSnmp, SaveTime, SaveAlarms, SaveSystem, SaveUsers, SendsAndForgets, SendsOnly,
       Sends, Click

(* A call arrives. *)
LEMMA Arrived ==
  ASSUME HoldsInv, NEW x \in posts, posts' = posts \ {x}
  PROVE  /\ IsFiniteSet(posts')
         /\ \A c : \A p \in PDUs :
              /\ Posted(c, p) \in Nat /\ Posted(c, p)' \in Nat
              /\ x.call = c /\ x.of = p => Posted(c, p) = Posted(c, p)' + 1
              /\ ~(x.call = c /\ x.of = p) => Posted(c, p) = Posted(c, p)'
<1>1. IsFiniteSet(posts)
  BY DEF HoldsInv
<1>2. IsFiniteSet(posts \ {x}) /\ \A c, p : More(posts \ {x}, posts, x, c, p)
  BY <1>1, CallGone, Zenon
<1>3. \A c, p : Posted(c, p)' = Cardinality(Calls(posts \ {x}, c, p))
  BY DEF Posted, Calls
<1>4. \A c, p : Posted(c, p) \in Nat /\ Posted(c, p)' \in Nat
  BY <1>1, <1>2, <1>3, CallsFinite, PostedIsCalls
<1>5. IsFiniteSet(posts')
  BY <1>2, Zenon
<1> QED
  BY <1>2, <1>3, <1>4, <1>5, PostedIsCalls, Zenon DEF More

LEMMA HoldKept ==
  ASSUME HoldsInv, NEW x \in posts, NEW taken, NEW answered, HoldDone(x, taken, answered),
         Session' = Session
  PROVE  HoldsInv'
<1>1. /\ x.call = "hold" /\ posts' = posts \ {x} /\ UNCHANGED <<strays, clicks>>
      /\ holds' = IF taken THEN [holds EXCEPT ![x.of] = @ + 1] ELSE holds
  BY DEF HoldDone
<1>2. x.of \in PDUs /\ holds \in [PDUs -> Nat] /\ strays \in [PDUs -> Nat]
  BY DEF HoldsInv
<1>3. holds' \in [PDUs -> Nat]
  BY <1>1, <1>2
<1>4. HoldsReturned'
  <2> SUFFICES ASSUME NEW p \in PDUs
               PROVE  holds'[p] + Posted("hold", p)'
                        <= (IF p = Session THEN 1 ELSE 0) + Posted("release", p)' + strays[p]
    BY <1>1 DEF HoldsReturned
  <2>1. holds[p] + Posted("hold", p) <= (IF p = Session THEN 1 ELSE 0) + Posted("release", p) + strays[p]
    BY DEF HoldsInv, HoldsReturned
  <2>2. Posted("release", p)' = Posted("release", p)
    BY <1>1, Arrived
  <2>3. CASE p = x.of
    <3>1. Posted("hold", p) = Posted("hold", p)' + 1 /\ Posted("hold", p)' \in Nat
      BY <1>1, <2>3, Arrived
    <3>2. holds[p] \in Nat /\ holds'[p] \in Nat /\ holds'[p] <= holds[p] + 1
      BY <1>1, <1>2, <1>3, <2>3
    <3>3. Posted("release", p) \in Nat /\ strays[p] \in Nat
      BY <1>1, <1>2, Arrived
    <3> QED
      BY <2>1, <2>2, <3>1, <3>2, <3>3
  <2>4. CASE p # x.of
    <3>1. Posted("hold", p)' = Posted("hold", p)
      BY <2>4, <1>1, Arrived
    <3>2. holds'[p] = holds[p]
      BY <1>1, <1>2, <2>4
    <3> QED
      BY <2>1, <2>2, <3>1, <3>2
  <2> QED
    BY <2>3, <2>4
<1>5. IsFiniteSet(posts') /\ \A y \in posts' : y.of \in PDUs /\ y.n \in Nat /\ y.n <= clicks'
  BY <1>1, Arrived DEF HoldsInv
<1> QED
  BY <1>1, <1>2, <1>3, <1>4, <1>5 DEF HoldsInv

LEMMA ReleaseKept ==
  ASSUME HoldsInv, NEW x \in posts, NEW taken, ReleaseDone(x, taken), Session' = Session
  PROVE  HoldsInv'
<1>1. x.call = "release" /\ posts' = posts \ {x} /\ UNCHANGED clicks
  BY DEF ReleaseDone
<1>2. x.of \in PDUs /\ holds \in [PDUs -> Nat] /\ strays \in [PDUs -> Nat]
  BY DEF HoldsInv
<1>3. \/ /\ holds[x.of] > 0 /\ holds' = [holds EXCEPT ![x.of] = @ - 1]
         /\ strays' = strays
      \/ holds' = holds /\ strays' = [strays EXCEPT ![x.of] = @ + 1]
  BY DEF ReleaseDone
<1>4. holds' \in [PDUs -> Nat] /\ strays' \in [PDUs -> Nat]
  BY <1>2, <1>3
<1>5. HoldsReturned'
  <2> SUFFICES ASSUME NEW p \in PDUs
               PROVE  holds'[p] + Posted("hold", p)'
                        <= (IF p = Session THEN 1 ELSE 0) + Posted("release", p)' + strays'[p]
    BY DEF HoldsReturned
  <2>1. holds[p] + Posted("hold", p) <= (IF p = Session THEN 1 ELSE 0) + Posted("release", p) + strays[p]
    BY DEF HoldsInv, HoldsReturned
  <2>2. Posted("hold", p)' = Posted("hold", p) /\ Posted("hold", p) \in Nat
    BY <1>1, Arrived
  <2>3. CASE p = x.of
    <3>1. Posted("release", p) = Posted("release", p)' + 1 /\ Posted("release", p)' \in Nat
      BY <1>1, <2>3, Arrived
    <3>2. /\ holds[p] \in Nat /\ strays[p] \in Nat /\ holds'[p] \in Nat /\ strays'[p] \in Nat
          /\ \/ holds'[p] = holds[p] - 1 /\ strays'[p] = strays[p]
             \/ holds'[p] = holds[p] /\ strays'[p] = strays[p] + 1
      BY <1>2, <1>3, <1>4, <2>3
    <3> QED
      BY <2>1, <2>2, <3>1, <3>2
  <2>4. CASE p # x.of
    <3>1. Posted("release", p)' = Posted("release", p)
      BY <2>4, <1>1, Arrived
    <3>2. holds'[p] = holds[p] /\ strays'[p] = strays[p]
      BY <1>2, <1>3, <2>4
    <3> QED
      BY <2>1, <2>2, <3>1, <3>2
  <2> QED
    BY <2>3, <2>4
<1>6. IsFiniteSet(posts') /\ \A y \in posts' : y.of \in PDUs /\ y.n \in Nat /\ y.n <= clicks'
  BY <1>1, Arrived DEF HoldsInv
<1> QED
  BY <1>1, <1>4, <1>5, <1>6 DEF HoldsInv

LEMMA HoldsInit == PanelInit => HoldsInv
<1> SUFFICES ASSUME PanelInit PROVE HoldsInv
  OBVIOUS
<1>1. posts = {} /\ clicks = 0 /\ holds = [p \in PDUs |-> 0] /\ strays = holds
  BY DEF PanelInit
<1>2. \A c, p : Posted(c, p) = 0
  <2>1. \A c, p : {x \in posts : x.call = c /\ x.of = p} = {}
    BY <1>1
  <2> QED
    BY <2>1, FS_EmptySet, Zenon DEF Posted
<1>3. IsFiniteSet(posts)
  BY <1>1, FS_EmptySet
<1> QED
  BY <1>1, <1>2, <1>3 DEF HoldsInv, HoldsReturned

LEMMA HoldsKept == HoldsInv /\ [DashNext]_dashVars => HoldsInv'
<1> SUFFICES ASSUME HoldsInv, [DashNext]_dashVars PROVE HoldsInv'
  OBVIOUS
<1>0. clicks \in Nat
  BY DEF HoldsInv
<1>1. CASE PanelFollows
  <2>1. CASE Session' # Session
    <3>1. <<Host, OnSettings>>' # <<Host, OnSettings>>
      BY <2>1 DEF Session
    <3>2. /\ clicks' = clicks + 1 /\ posts' = posts \cup SessionCalls
          /\ UNCHANGED <<holds, strays>>
      BY <1>1, <2>1, <3>1 DEF PanelFollows, Click
    <3> QED
      BY <2>1, <3>2, SessionChanged
  <2>2. CASE Session' = Session
    <3>1. UNCHANGED <<holds, strays, posts>> /\ clicks' \in {clicks, clicks + 1}
      BY <1>1, <2>2 DEF PanelFollows, Click
    <3> QED
      BY <1>0, <2>2, <3>1, HoldsSame
  <2> QED
    BY <2>1, <2>2
<1>2. CASE PanelNext /\ UNCHANGED navVars
  <2>1. Session' = Session
    BY <1>2, SessionKept
  <2>2. CASE \E c \in posts, taken, answered \in BOOLEAN : HoldDone(c, taken, answered)
    BY <2>1, <2>2, HoldKept
  <2>3. CASE \E c \in posts, taken \in BOOLEAN : ReleaseDone(c, taken)
    BY <2>1, <2>3, ReleaseKept
  <2>4. CASE UNCHANGED sessionVars /\ (UNCHANGED clicks \/ Click)
    <3>1. UNCHANGED <<holds, strays, posts>> /\ clicks' \in {clicks, clicks + 1}
      BY <2>4 DEF sessionVars, Click
    <3> QED
      BY <1>0, <2>1, <3>1, HoldsSame
  <2> QED
    BY <1>2, <2>2, <2>3, <2>4, PanelActions
<1>3. CASE UNCHANGED <<navVars, panelVars>>
  <2>1. Session' = Session
    BY <1>3, SessionKept
  <2>2. UNCHANGED <<holds, strays, posts, clicks>>
    BY <1>3 DEF panelVars, sessionVars
  <2> QED
    BY <1>0, <2>1, <2>2, HoldsSame
<1> QED
  BY <1>1, <1>2, <1>3, PanelStep

(* The server holds a PDU for the settings that are open and for no others,  *)
(* whatever calls overtake each other or are lost, but for releases that     *)
(* were lost or came before their hold.                                     *)
THEOREM HoldsAccounted == DashSpec => []HoldsReturned
<1>1. DashInit => HoldsInv
  BY HoldsInit DEF DashInit
<1>2. HoldsInv => HoldsReturned
  BY DEF HoldsInv
<1> QED
  BY <1>1, <1>2, HoldsKept, PTL DEF DashSpec
-----------------------------------------------------------------------------
(* The flags of the settings.                                               *)
Unseen(r) == r.what \in {"settings", "alarms"}

LoadingInv == loading \in BOOLEAN /\ (loading => \E r \in reads : Unseen(r))
SavingInv == saving = (saves # {}) /\ \A s, t \in saves : s = t
RebootInv == rebootStatus = "rebooting" => pings # {}
FlagsInv == LoadingInv /\ SavingInv /\ RebootInv

LEMMA ReadingLoads == ASSUME LoadingInv, NEW rs, Reading(rs) PROVE LoadingInv'
BY DEF LoadingInv, Reading, Unseen

LEMMA SendingSaves ==
  ASSUME SavingInv, ~saving, NEW s, saving' = TRUE, saves' = saves \cup {s} PROVE SavingInv'
BY DEF SavingInv

(* The buttons that send. *)
LEMMA ButtonsSend ==
  ASSUME \/ SaveNetwork \/ RebootPdu \/ SaveSnmp \/ SaveTime \/ SaveAlarms \/ SaveSystem \/ SaveUsers
  PROVE  ~saving /\ (\E w : Sends(w)) /\ (rebootStatus' = "none" \/ UNCHANGED rebootStatus)
BY DEF SaveNetwork, RebootPdu, SaveSnmp, SaveTime, SaveAlarms, SaveSystem, SaveUsers, NetworkForm,
       SnmpForm, TimeForm, AlarmsForm, DeviceForm, UsersForm, MayReboot, SendsAndForgets, SendsOnly

LEMMA FlagsKept == FlagsInv /\ [DashNext]_dashVars => FlagsInv'
<1> SUFFICES ASSUME FlagsInv, [DashNext]_dashVars PROVE FlagsInv'
  OBVIOUS
<1> USE DEF FlagsInv
<1>0. ASSUME UNCHANGED <<reads, loading>> PROVE LoadingInv'
  BY <1>0 DEF LoadingInv, Unseen
<1>1. CASE PanelFollows
  <2>1. CASE OnSettings'
    <3>1. /\ Reading(IF Host' # Host THEN ReadsOf(page, Host') ELSE {})
          /\ UNCHANGED <<saving, saves, rebootStatus, pings>>
      BY <1>1, <2>1 DEF PanelFollows, rebootVars
    <3> QED
      BY <3>1, ReadingLoads DEF SavingInv, RebootInv
  <2>2. CASE ~OnSettings'
    BY <1>1, <2>2 DEF PanelFollows, Closed, LoadingInv, SavingInv, RebootInv
  <2> QED
    BY <2>1, <2>2
<1>2. CASE PanelNext
  <2>1. ASSUME NEW c, NEW taken, NEW answered, HoldDone(c, taken, answered) PROVE FlagsInv'
    BY <2>1, ReadingLoads DEF HoldDone, rebootVars, SavingInv, RebootInv
  <2>2. ASSUME NEW c, NEW taken, ReleaseDone(c, taken) PROVE FlagsInv'
    BY <2>2, <1>0 DEF ReleaseDone, rebootVars, SavingInv, RebootInv
  <2>3. ASSUME NEW r \in reads, NEW ok \in BOOLEAN, Read(r, ok) PROVE FlagsInv'
    <3>1. /\ reads' = reads \ {r} /\ loading' = (loading /\ ~Unseen(r))
          /\ UNCHANGED <<saving, saves, rebootStatus, pings>>
      BY <2>3 DEF Read, rebootVars, Unseen
    <3>2. LoadingInv'
      BY <3>1 DEF LoadingInv, Unseen
    <3> QED
      BY <3>1, <3>2 DEF SavingInv, RebootInv
  <2>4. CASE Refresh \/ PollTelemetry \/ \E g \in PanelPages : OpenPage(g)
    <3>1. (\E rs : Reading(rs)) /\ UNCHANGED <<saving, saves, rebootStatus, pings>>
      BY <2>4 DEF Refresh, PollTelemetry, OpenPage, rebootVars
    <3> QED
      BY <3>1, ReadingLoads DEF SavingInv, RebootInv
  <2>5. ASSUME NEW k, Edit(k) PROVE FlagsInv'
    BY <2>5, <1>0 DEF Edit, rebootVars, SavingInv, RebootInv
  <2>6. ASSUME NEW s \in saves, NEW reboot \in BOOLEAN, Saved(s, reboot) PROVE FlagsInv'
    <3>1. saves' = saves \ {s} /\ saving' = FALSE /\ UNCHANGED <<reads, loading>>
      BY <2>6 DEF Saved
    <3>2. RebootInv'
      BY <2>6 DEF Saved, WaitForReboot, rebootVars, RebootInv
    <3> QED
      BY <3>1, <3>2, <1>0 DEF SavingInv
  <2>7. ASSUME NEW l \in pings, Online(l) PROVE FlagsInv'
    BY <2>7, ReadingLoads DEF Online, SavingInv, RebootInv
  <2>8. ASSUME NEW l \in pings, GaveUp(l) PROVE FlagsInv'
    BY <2>8, <1>0 DEF GaveUp, SavingInv, RebootInv
  <2>9. CASE \/ SaveNetwork \/ RebootPdu \/ SaveSnmp \/ SaveTime \/ SaveAlarms \/ SaveSystem
             \/ SaveUsers
    <3>1. ~saving /\ (rebootStatus' = "none" \/ UNCHANGED rebootStatus)
      BY <2>9, ButtonsSend
    <3>2. PICK w : Sends(w)
      BY <2>9, ButtonsSend
    <3>3. /\ saving' = TRUE /\ \E s : saves' = saves \cup {s}
          /\ UNCHANGED <<reads, loading, pings>>
      BY <3>2 DEF Sends
    <3> QED
      BY <3>1, <3>3, <1>0, SendingSaves DEF RebootInv
  <2> QED
    BY <1>2, <2>1, <2>2, <2>3, <2>4, <2>5, <2>6, <2>7, <2>8, <2>9 DEF PanelNext
<1>3. CASE UNCHANGED panelVars
  BY <1>0, <1>3 DEF panelVars, rebootVars, SavingInv, RebootInv
<1> QED
  BY <1>1, <1>2, <1>3, PanelStep

(* No flag of the settings outlives what set it, and nothing is saved while  *)
(* something is, on whichever page and PDU the operator is by then.         *)
THEOREM FlagsOfPanel == DashSpec => []FlagsHaveOwners
<1>1. DashInit => FlagsInv
  BY DEF DashInit, PanelInit, FlagsInv, LoadingInv, SavingInv, RebootInv
<1>2. FlagsInv => FlagsHaveOwners
  <2> SUFFICES ASSUME FlagsInv PROVE FlagsHaveOwners
    OBVIOUS
  <2>1. saves = {} \/ \E s : saves = {s}
    BY DEF FlagsInv, SavingInv
  <2>2. Cardinality(saves) <= 1
    <3>1. CASE saves = {}
      <4>1. Cardinality(saves) = 0
        BY <3>1, FS_EmptySet, Zenon
      <4> QED
        BY <4>1
    <3>2. ASSUME NEW s, saves = {s} PROVE Cardinality(saves) <= 1
      <4>1. Cardinality(saves) = 1
        BY <3>2, FS_Singleton, Zenon
      <4> QED
        BY <4>1
    <3> QED
      BY <2>1, <3>1, <3>2
  <2> QED
    BY <2>2 DEF FlagsInv, LoadingInv, SavingInv, RebootInv, Unseen, FlagsHaveOwners
<1> QED
  BY <1>1, <1>2, FlagsKept, PTL DEF DashSpec

-----------------------------------------------------------------------------
(* The dialog.  It has one request at most, as it sends from its question    *)
(* only; and when it is closed nothing is selected.                         *)
BulkInv ==
  /\ phase \in Phases
  /\ phase = "running" <=> reboots # {}
  /\ \A s, t \in reboots : s = t
  /\ selected \subseteq Rebootable(listed)
  /\ phase = "closed" => selected = {}

LEMMA BulkStep ==
  [DashNext]_dashVars => \/ BulkFollows
                         \/ BulkNext /\ UNCHANGED navVars
                         \/ UNCHANGED <<navVars, bulkVars>>
BY DEF DashNext, Navigates, Works, Configures, Reboots, Responds, dashVars

LEMMA BulkKept == BulkInv /\ [DashNext]_dashVars => BulkInv'
<1> SUFFICES ASSUME BulkInv, [DashNext]_dashVars PROVE BulkInv'
  OBVIOUS
<1> USE DEF BulkInv, Rebootable
<1>1. CASE BulkFollows
  BY <1>1 DEF BulkFollows, SelectsAgain
<1>2. CASE BulkNext /\ UNCHANGED navVars
  <2>1. listed' = listed
    BY <1>2 DEF navVars
  <2>2. CASE BulkOpen
    BY <2>1, <2>2 DEF BulkOpen, Phases
  <2>3. CASE Continue \/ Back
    BY <2>1, <2>3 DEF Continue, Back, Phases
  <2>4. CASE Close
    BY <2>1, <2>4 DEF Close, Shut, Phases
  <2>5. CASE RunReboot
    BY <2>1, <2>5 DEF RunReboot, Phases
  <2>6. ASSUME NEW ps, Select(ps) PROVE BulkInv'
    BY <2>1, <2>6 DEF Select
  <2>7. ASSUME NEW ps \in reboots, NEW ok \in BOOLEAN, Rebooted(ps, ok) PROVE BulkInv'
    BY <2>1, <2>7 DEF Rebooted, Phases
  <2> QED
    BY <1>2, <2>2, <2>3, <2>4, <2>5, <2>6, <2>7 DEF BulkNext
<1>3. CASE UNCHANGED <<navVars, bulkVars>>
  BY <1>3 DEF navVars, bulkVars
<1> QED
  BY <1>1, <1>2, <1>3, BulkStep

(* The dialog is locked only while its request is under way, and asks about  *)
(* PDUs only that are in the list and have a login.                         *)
THEOREM DialogSound == DashSpec => []BulkSound
<1>1. DashInit => BulkInv
  BY DEF DashInit, BulkInit, BulkInv, Phases
<1>2. BulkInv => BulkSound
  BY DEF BulkInv, BulkSound
<1> QED
  BY <1>1, <1>2, BulkKept, PTL DEF DashSpec

-----------------------------------------------------------------------------
(* The page of a technician.  Nobody takes back that an incident was         *)
(* acknowledged or resolved, so that an old answer never says more than the  *)
(* record; and each button has at most one request under way, as its flag is *)
(* set with the request and cleared with its answer only.                   *)
Record == [acked : BOOLEAN, resolved : BOOLEAN, closed : BOOLEAN]
Page == [open : BOOLEAN, prefix : BOOLEAN, data : Record \cup {NoData}, loading : BOOLEAN,
         error : BOOLEAN, acked : BOOLEAN, resolved : BOOLEAN, acking : BOOLEAN,
         resolving : BOOLEAN]
Requests == [what : {"ack", "resolve"}, tries : 1 .. Bases, ok : {"unserved", "yes", "no"}]

PageTypeOK ==
  /\ incident \in Record
  /\ ui \in Page
  /\ answers \subseteq Record
  /\ sent \subseteq Requests

(* What r says is so. *)
Says(r) == (r.acked => incident.acked) /\ (r.resolved => incident.resolved)

AnswersTrue == \A r \in answers : Says(r)
PageTrue == Says(ui) /\ (ui.data # NoData => Says(ui.data))
RequestTrue(p) ==
  /\ p.what = "resolve" => incident.acked
  /\ p.ok = "yes" => IF p.what = "ack" THEN incident.acked ELSE incident.resolved
RequestsTrue == \A p \in sent : RequestTrue(p)
OneEach == \A p, q \in sent : p.what = q.what => p = q

(* The flag of each button, for its request.                                *)
Flags ==
  /\ ui.acking = (\E p \in sent : p.what = "ack")
  /\ ui.resolving = (\E p \in sent : p.what = "resolve")

(* Before the page is opened nothing was asked. *)
NotSent == ~ui.open => sent = {}

PageInv == PageTypeOK /\ AnswersTrue /\ PageTrue /\ RequestsTrue /\ OneEach /\ Flags /\ NotSent

(* Nothing is taken back. *)
Grows == (incident.acked => incident'.acked) /\ (incident.resolved => incident'.resolved)

LEMMA InitPageInv == IncidentInit => PageInv
<1> SUFFICES ASSUME IncidentInit PROVE PageInv
  OBVIOUS
<1>1. incident \in Record /\ ~incident.acked /\ ~incident.resolved
  BY DEF IncidentInit, Record
<1>2. /\ ui \in Page /\ ~ui.acked /\ ~ui.resolved /\ ui.data = NoData
      /\ ui.acking = FALSE /\ ui.resolving = FALSE
  BY DEF IncidentInit, NoPage, Page
<1>3. answers = {} /\ sent = {}
  BY DEF IncidentInit
<1> QED
  <2>1. PageTypeOK
    BY <1>1, <1>2, <1>3 DEF PageTypeOK
  <2>2. AnswersTrue /\ PageTrue /\ RequestsTrue /\ OneEach /\ NotSent
    BY <1>1, <1>2, <1>3 DEF AnswersTrue, PageTrue, Says, RequestsTrue, OneEach, NotSent
  <2>3. Flags
    BY <1>2, <1>3 DEF Flags
  <2> QED  BY <2>1, <2>2, <2>3 DEF PageInv

LEMMA GrowsAnswers ==
  ASSUME PageInv, Grows, answers' \subseteq answers PROVE AnswersTrue'
BY DEF PageInv, AnswersTrue, Says, Grows

(* A read adds what the record is. *)
LEMMA ReadsAnswers ==
  ASSUME PageInv, UNCHANGED incident, Reads PROVE AnswersTrue' /\ answers' \subseteq Record
BY DEF PageInv, PageTypeOK, AnswersTrue, Says, Reads

LEMMA GrowsPage == ASSUME PageInv, Grows, UNCHANGED ui PROVE PageTrue'
BY DEF PageInv, PageTrue, Says, Grows

LEMMA GrowsRequest == ASSUME Grows, NEW p, RequestTrue(p) PROVE RequestTrue(p)'
BY DEF RequestTrue, Grows

(* What is sent does not change, or changes for one that asks the same.     *)
LEMMA SameSent == ASSUME PageInv, Grows, UNCHANGED sent PROVE RequestsTrue' /\ OneEach'
BY GrowsRequest DEF PageInv, RequestsTrue, OneEach

LEMMA Replaced ==
  ASSUME PageInv, Grows, NEW p \in sent, NEW q \in Requests, q.what = p.what,
         sent' = (sent \ {p}) \cup {q}, RequestTrue(q)', UNCHANGED ui
  PROVE  RequestsTrue' /\ OneEach' /\ Flags' /\ sent' \subseteq Requests
<1>1. RequestsTrue'
  BY GrowsRequest DEF PageInv, RequestsTrue
<1>2. OneEach'
  BY DEF PageInv, OneEach
<1>3. Flags'
  <2>1. \A w : (\E r \in sent' : r.what = w) = (\E r \in sent : r.what = w)
    OBVIOUS
  <2> QED  BY <2>1 DEF PageInv, Flags
<1> QED  BY <1>1, <1>2, <1>3 DEF PageInv, PageTypeOK

(* The answer of a button. *)
LEMMA Gone ==
  ASSUME PageInv, Grows, NEW p \in sent, sent' = sent \ {p},
         ui'.acking = IF p.what = "ack" THEN FALSE ELSE ui.acking,
         ui'.resolving = IF p.what = "ack" THEN ui.resolving ELSE FALSE
  PROVE  RequestsTrue' /\ OneEach' /\ Flags' /\ sent' \subseteq Requests
<1>1. RequestsTrue' /\ OneEach'
  BY GrowsRequest DEF PageInv, RequestsTrue, OneEach
<1>2. p.what \in {"ack", "resolve"}
  BY DEF PageInv, PageTypeOK, Requests
<1>3. ~ \E r \in sent' : r.what = p.what
  BY DEF PageInv, OneEach
<1>4. \A w : w # p.what => (\E r \in sent' : r.what = w) = (\E r \in sent : r.what = w)
  OBVIOUS
<1>5. Flags'
  <2>1. CASE p.what = "ack"
    BY <1>3, <1>4, <2>1 DEF PageInv, Flags
  <2>2. CASE p.what = "resolve"
    BY <1>3, <1>4, <2>2 DEF PageInv, Flags
  <2> QED  BY <1>2, <2>1, <2>2
<1> QED  BY <1>1, <1>5 DEF PageInv, PageTypeOK

LEMMA ElsewherePageInv == ASSUME PageInv, Elsewhere PROVE PageInv'
<1>1. incident' \in Record /\ Grows
  BY DEF Elsewhere, PageInv, PageTypeOK, Record, Grows
<1>2. UNCHANGED <<ui, answers, sent>>
  BY DEF Elsewhere
<1>3. AnswersTrue' /\ PageTrue' /\ RequestsTrue' /\ OneEach'
  BY <1>1, <1>2, GrowsAnswers, GrowsPage, SameSent
<1> QED  BY <1>1, <1>2, <1>3 DEF PageInv, PageTypeOK, Flags, NotSent

LEMMA ReadPageInv == ASSUME PageInv, ReadIncident PROVE PageInv'
<1>1. Grows /\ UNCHANGED <<incident, ui, sent>> /\ Reads
  BY DEF ReadIncident, Grows
<1>2. AnswersTrue' /\ answers' \subseteq Record /\ PageTrue' /\ RequestsTrue' /\ OneEach'
  BY <1>1, ReadsAnswers, GrowsPage, SameSent
<1> QED  BY <1>1, <1>2 DEF PageInv, PageTypeOK, Flags, NotSent

LEMMA OpenPageInv == ASSUME PageInv, OpenIncident PROVE PageInv'
<1>1. Grows /\ UNCHANGED <<incident, sent>> /\ Reads /\ sent = {}
  BY DEF OpenIncident, Grows, PageInv, NotSent
<1>2. NoPage \in Page
  BY DEF NoPage, Page
<1>3. /\ ui' \in Page /\ ui'.data = NoData
      /\ ~ui'.acked /\ ~ui'.resolved /\ ui'.acking = FALSE /\ ui'.resolving = FALSE
  BY <1>2 DEF OpenIncident, NoPage, Page
<1>4. AnswersTrue' /\ answers' \subseteq Record /\ RequestsTrue' /\ OneEach'
  BY <1>1, ReadsAnswers, SameSent
<1>5. PageTrue'
  BY <1>3 DEF PageTrue, Says
<1>6. Flags' /\ NotSent'
  BY <1>1, <1>3 DEF Flags, NotSent
<1> QED  BY <1>1, <1>3, <1>4, <1>5, <1>6 DEF PageInv, PageTypeOK

LEMMA ShowPageInv == ASSUME PageInv, NEW r, ShowAnswer(r) PROVE PageInv'
<1>1. r \in Record /\ Says(r) /\ Grows /\ answers' \subseteq answers
      /\ UNCHANGED <<incident, sent>>
  BY DEF ShowAnswer, Grows, PageInv, PageTypeOK, AnswersTrue
<1>2. /\ ui' \in Page /\ ui'.data = r /\ ui'.acked = r.acked /\ ui'.resolved = r.resolved
      /\ ui'.open = ui.open /\ ui'.acking = ui.acking /\ ui'.resolving = ui.resolving
  BY <1>1 DEF ShowAnswer, PageInv, PageTypeOK, Page, Record
<1>3. AnswersTrue' /\ RequestsTrue' /\ OneEach'
  BY <1>1, GrowsAnswers, SameSent
<1>4. PageTrue'
  BY <1>1, <1>2 DEF PageTrue, Says
<1>5. Flags' /\ NotSent'
  BY <1>1, <1>2 DEF PageInv, Flags, NotSent
<1> QED  BY <1>1, <1>2, <1>3, <1>4, <1>5 DEF PageInv, PageTypeOK

LEMMA ReadFailsPageInv ==
  ASSUME PageInv, NEW r, NEW refused \in BOOLEAN, ReadFails(r, refused) PROVE PageInv'
<1>1. Grows /\ answers' \subseteq answers /\ UNCHANGED <<incident, sent>>
  BY DEF ReadFails, Grows
<1>2. /\ ui' \in Page /\ ui'.data \in {ui.data, NoData}
      /\ ui'.acked = ui.acked /\ ui'.resolved = ui.resolved
      /\ ui'.open = ui.open /\ ui'.acking = ui.acking /\ ui'.resolving = ui.resolving
  BY DEF ReadFails, PageInv, PageTypeOK, Page
<1>3. AnswersTrue' /\ RequestsTrue' /\ OneEach'
  BY <1>1, GrowsAnswers, SameSent
<1>4. PageTrue'
  BY <1>1, <1>2 DEF PageInv, PageTrue, Says
<1>5. Flags' /\ NotSent'
  BY <1>1, <1>2 DEF PageInv, Flags, NotSent
<1> QED  BY <1>1, <1>2, <1>3, <1>4, <1>5 DEF PageInv, PageTypeOK

(* A button that can be pressed has no request under way.                   *)
LEMMA PressedPageInv ==
  ASSUME PageInv, NEW w \in {"ack", "resolve"}, IncidentShown,
         w = "ack" => ~ui.acking, w = "resolve" => ui.acked /\ ~ui.resolving,
         ui' = IF w = "ack" THEN [ui EXCEPT !.acking = TRUE] ELSE [ui EXCEPT !.resolving = TRUE],
         Send(w), UNCHANGED <<incident, answers>>
  PROVE  PageInv'
<1> DEFINE p == [what |-> w, tries |-> 1, ok |-> "unserved"]
<1>1. p \in Requests /\ p.what = w /\ p.ok = "unserved"
  BY DEF Requests, Bases
<1>2. sent' = sent \cup {p}
  BY DEF Send
<1> HIDE DEF p
<1>3. Grows
  BY DEF Grows
<1>4. ~ \E q \in sent : q.what = w
  BY DEF PageInv, Flags
<1>5. /\ ui' \in Page /\ ui'.data = ui.data
      /\ ui'.acked = ui.acked /\ ui'.resolved = ui.resolved /\ ui'.open = ui.open
  BY DEF PageInv, PageTypeOK, Page
<1>6. w = "ack" => ui'.acking = TRUE /\ ui'.resolving = ui.resolving
  BY DEF PageInv, PageTypeOK, Page
<1>7. w = "resolve" => ui'.acking = ui.acking /\ ui'.resolving = TRUE
  BY DEF PageInv, PageTypeOK, Page
<1>8. AnswersTrue'
  BY <1>3, GrowsAnswers
<1>9. PageTrue'
  BY <1>5 DEF PageInv, PageTrue, Says
<1>10. RequestTrue(p)'
  BY <1>1 DEF RequestTrue, PageInv, PageTrue, Says
<1>11. RequestsTrue'
  BY <1>2, <1>3, <1>10, GrowsRequest DEF PageInv, RequestsTrue
<1>12. OneEach'
  BY <1>1, <1>2, <1>4 DEF PageInv, OneEach
<1>13. Flags'
  <2>1. /\ \E q \in sent' : q.what = w
        /\ \A v : v # w => (\E q \in sent' : q.what = v) = (\E q \in sent : q.what = v)
    BY <1>1, <1>2
  <2>2. CASE w = "ack"
    BY <1>6, <2>1, <2>2 DEF PageInv, Flags
  <2>3. CASE w = "resolve"
    BY <1>7, <2>1, <2>3 DEF PageInv, Flags
  <2> QED  BY <2>2, <2>3
<1>14. NotSent'
  BY <1>5 DEF IncidentShown, Loaded, NotSent
<1> QED  BY <1>1, <1>2, <1>5, <1>8, <1>9, <1>11, <1>12, <1>13, <1>14 DEF PageInv, PageTypeOK

LEMMA ServePageInv == ASSUME PageInv, NEW p \in sent, Serve(p) PROVE PageInv'
<1> DEFINE ok == IF Accepts(p.what) THEN "yes" ELSE "no"
<1>0. PICK q : q = [p EXCEPT !.ok = ok]
  OBVIOUS
<1>1. p \in Requests /\ p.what \in {"ack", "resolve"}
  BY DEF PageInv, PageTypeOK, Requests
<1>2. q \in Requests /\ q.what = p.what /\ q.ok = ok
  BY <1>0, <1>1 DEF Requests
<1>3. sent' = (sent \ {p}) \cup {q} /\ UNCHANGED <<ui, answers>>
  BY <1>0 DEF Serve
<1>4. incident' = IF ~Accepts(p.what) THEN incident
                  ELSE IF p.what = "ack" THEN [incident EXCEPT !.acked = TRUE]
                  ELSE [incident EXCEPT !.resolved = TRUE, !.closed = TRUE]
  BY DEF Serve
<1>5. incident' \in Record /\ Grows
  BY <1>4 DEF PageInv, PageTypeOK, Record, Grows
<1>6. RequestTrue(q)'
  <2>1. p.what = "resolve" => incident.acked
    BY DEF PageInv, RequestsTrue, RequestTrue
  <2>2. ok = "yes" => Accepts(p.what)
    OBVIOUS
  <2>3. Accepts(p.what) /\ p.what = "ack" => incident'.acked
    BY <1>4 DEF PageInv, PageTypeOK, Record
  <2>4. Accepts(p.what) /\ p.what = "resolve" => incident'.resolved
    BY <1>4 DEF PageInv, PageTypeOK, Record
  <2>5. p.what = "resolve" => incident'.acked
    BY <1>5, <2>1 DEF Grows
  <2> QED  BY <1>1, <1>2, <2>2, <2>3, <2>4, <2>5 DEF RequestTrue
<1>7. RequestsTrue' /\ OneEach' /\ Flags' /\ sent' \subseteq Requests
  BY <1>2, <1>3, <1>5, <1>6, Replaced
<1>8. AnswersTrue' /\ PageTrue'
  BY <1>3, <1>5, GrowsAnswers, GrowsPage
<1>9. NotSent'
  BY <1>3 DEF PageInv, NotSent
<1> QED  BY <1>3, <1>5, <1>7, <1>8, <1>9 DEF PageInv, PageTypeOK

LEMMA NextBasePageInv == ASSUME PageInv, NEW p \in sent, NextBase(p) PROVE PageInv'
<1>1. p \in Requests
  BY DEF PageInv, PageTypeOK
<1> DEFINE n == p.tries + 1
           q == [p EXCEPT !.tries = n, !.ok = "unserved"]
<1>0. n \in 1 .. Bases
  BY <1>1 DEF Requests, NextBase, Bases
<1> HIDE DEF n
<1>2. q \in Requests /\ q.what = p.what /\ q.ok = "unserved"
  BY <1>1, <1>0 DEF Requests
<1>3. sent' = (sent \ {p}) \cup {q} /\ UNCHANGED <<incident, ui, answers>>
  BY <1>1 DEF NextBase, Requests, n
<1> HIDE DEF q
<1>4. Grows
  BY <1>3 DEF Grows
<1>5. RequestTrue(q)'
  BY <1>2, <1>3 DEF PageInv, RequestsTrue, RequestTrue
<1>6. RequestsTrue' /\ OneEach' /\ Flags' /\ sent' \subseteq Requests
  BY <1>2, <1>3, <1>4, <1>5, Replaced
<1>7. AnswersTrue' /\ PageTrue'
  BY <1>3, <1>4, GrowsAnswers, GrowsPage
<1>8. NotSent'
  BY <1>3 DEF PageInv, NotSent
<1> QED  BY <1>3, <1>6, <1>7, <1>8 DEF PageInv, PageTypeOK

LEMMA EndedFacts ==
  ASSUME PageInv, NEW w \in {"ack", "resolve"}
  PROVE  /\ Ended(w) \in Page /\ Ended(w).open = ui.open /\ Ended(w).data = ui.data
         /\ Ended(w).acked = ui.acked /\ Ended(w).resolved = ui.resolved
         /\ Ended(w).acking = IF w = "ack" THEN FALSE ELSE ui.acking
         /\ Ended(w).resolving = IF w = "ack" THEN ui.resolving ELSE FALSE
BY DEF Ended, PageInv, PageTypeOK, Page

LEMMA DonePageInv == ASSUME PageInv, NEW p \in sent, Done(p) PROVE PageInv'
<1> DEFINE e == Ended(p.what)
           d == IF e.data = NoData THEN NoData
                ELSE [e.data EXCEPT !.resolved = TRUE, !.closed = TRUE]
<1>1. p.what \in {"ack", "resolve"}
  BY DEF PageInv, PageTypeOK, Requests
<1>2. /\ e \in Page /\ e.open = ui.open /\ e.data = ui.data
      /\ e.acked = ui.acked /\ e.resolved = ui.resolved
      /\ e.acking = IF p.what = "ack" THEN FALSE ELSE ui.acking
      /\ e.resolving = IF p.what = "ack" THEN ui.resolving ELSE FALSE
  BY <1>1, EndedFacts
<1>3. IF p.what = "ack" THEN incident.acked ELSE incident.resolved
  BY DEF Done, Success, PageInv, RequestsTrue, RequestTrue
<1>4. ui' = IF p.what = "ack" THEN [e EXCEPT !.acked = TRUE]
            ELSE [e EXCEPT !.resolved = TRUE, !.data = d]
  BY <1>1, <1>2 DEF Done, Ended, Page
<1>5. sent' = sent \ {p} /\ Reads /\ UNCHANGED incident /\ Grows
  BY DEF Done, Grows
<1> HIDE DEF e
<1>6. d \in Record \cup {NoData} /\ (d # NoData => e.data # NoData /\ d.acked = e.data.acked)
  BY <1>2 DEF Page, Record
<1> HIDE DEF d
<1>7. ui' \in Page /\ ui'.open = ui.open /\ ui'.acking = e.acking /\ ui'.resolving = e.resolving
  BY <1>2, <1>4, <1>6 DEF Page
<1>8. PageTrue'
  <2>1. CASE p.what = "ack"
    <3>1. ui'.resolved = ui.resolved /\ ui'.data = ui.data
      BY <1>2, <1>4, <2>1 DEF Page
    <3> QED  BY <1>3, <1>5, <2>1, <3>1 DEF PageInv, PageTrue, Says
  <2>2. CASE p.what = "resolve"
    <3>1. ui'.acked = ui.acked /\ ui'.data = d
      BY <1>2, <1>4, <2>2 DEF Page
    <3>2. d # NoData => ui.data # NoData /\ d.acked = ui.data.acked
      BY <1>2, <1>6
    <3> QED  BY <1>3, <1>5, <2>2, <3>1, <3>2 DEF PageInv, PageTrue, Says
  <2> QED  BY <1>1, <2>1, <2>2
<1>9. AnswersTrue' /\ answers' \subseteq Record
  BY <1>5, ReadsAnswers
<1>10. RequestsTrue' /\ OneEach' /\ Flags' /\ sent' \subseteq Requests
  BY <1>2, <1>5, <1>7, Gone
<1>11. NotSent'
  BY <1>5, <1>7 DEF PageInv, NotSent
<1> QED  BY <1>5, <1>7, <1>8, <1>9, <1>10, <1>11 DEF PageInv, PageTypeOK

LEMMA RefusedPageInv == ASSUME PageInv, NEW p \in sent, Refused(p) PROVE PageInv'
<1>1. p.what \in {"ack", "resolve"}
  BY DEF PageInv, PageTypeOK, Requests
<1>2. /\ ui' = Ended(p.what) /\ sent' = sent \ {p} /\ UNCHANGED <<incident, answers>>
      /\ Grows
  BY DEF Refused, Grows
<1>3. /\ ui' \in Page /\ ui'.open = ui.open /\ ui'.data = ui.data
      /\ ui'.acked = ui.acked /\ ui'.resolved = ui.resolved
      /\ ui'.acking = IF p.what = "ack" THEN FALSE ELSE ui.acking
      /\ ui'.resolving = IF p.what = "ack" THEN ui.resolving ELSE FALSE
  BY <1>1, <1>2, EndedFacts
<1>4. AnswersTrue' /\ PageTrue'
  BY <1>2, <1>3, GrowsAnswers DEF PageInv, PageTrue, Says
<1>5. RequestsTrue' /\ OneEach' /\ Flags' /\ sent' \subseteq Requests
  BY <1>2, <1>3, Gone
<1>6. NotSent'
  BY <1>2, <1>3 DEF PageInv, NotSent
<1> QED  BY <1>2, <1>3, <1>4, <1>5, <1>6 DEF PageInv, PageTypeOK

LEMMA NextPageInv == PageInv /\ [IncidentNext]_incidentVars => PageInv'
<1> SUFFICES ASSUME PageInv, [IncidentNext]_incidentVars PROVE PageInv'
  OBVIOUS
<1>1. CASE Elsewhere \/ OpenIncident \/ ReadIncident
  BY <1>1, ElsewherePageInv, OpenPageInv, ReadPageInv
<1>2. CASE Ack
  BY <1>2, PressedPageInv DEF Ack, AckButton
<1>3. CASE MarkResolved
  BY <1>3, PressedPageInv DEF MarkResolved, ResolveButton
<1>4. CASE \E r \in answers : ShowAnswer(r) \/ \E b \in BOOLEAN : ReadFails(r, b)
  BY <1>4, ShowPageInv, ReadFailsPageInv
<1>5. CASE \E p \in sent : Serve(p) \/ NextBase(p) \/ Done(p) \/ Refused(p)
  BY <1>5, ServePageInv, NextBasePageInv, DonePageInv, RefusedPageInv
<1>6. CASE UNCHANGED incidentVars
  BY <1>6 DEF incidentVars, PageInv, PageTypeOK, AnswersTrue, PageTrue, Says, RequestsTrue,
              RequestTrue, OneEach, Flags, NotSent
<1> QED  BY <1>1, <1>2, <1>3, <1>4, <1>5, <1>6 DEF IncidentNext

(* The page never tells a technician that an incident is acknowledged or    *)
(* resolved that is not, and each button waits for its own request only,    *)
(* with any number of reads under way and requests sent twice.              *)
THEOREM PageAlwaysHonest == IncidentSpec => []PageHonest
<1>1. PageInv => PageHonest
  BY DEF PageInv, PageTrue, Says, RequestsTrue, RequestTrue, Flags, PageHonest
<1> QED  BY <1>1, InitPageInv, NextPageInv, PTL DEF IncidentSpec

(* The dashboard beside it changes nothing of the page: what is proved of    *)
(* the page alone holds of it there.                                        *)
THEOREM PageIsAlone == DashSpec => IncidentSpec
<1>1. DashInit => IncidentInit
  BY DEF DashInit
<1>2. [DashNext]_dashVars => [IncidentNext]_incidentVars
  BY DEF DashNext, Navigates, Works, Configures, Reboots, Responds, dashVars
<1> QED
  BY <1>1, <1>2, PTL DEF DashSpec, IncidentSpec
-----------------------------------------------------------------------------
(* The incidents.  An alarm is handled when a technician acknowledged and    *)
(* resolved one of its records, which is for good: a record is never removed *)
(* and keeps both marks.  What closes records holds an alarm that is.        *)
Handled(g, rs) == \E j \in DOMAIN rs : rs[j].alarm = g /\ rs[j].acked /\ rs[j].resolved

RecordOK(r, rs) ==
  /\ r.resolved => r.acked
  /\ r.closed => r.logged /\ Handled(r.alarm, rs)

RecordsOK(rs) ==
  /\ \A i \in DOMAIN rs : RecordOK(rs[i], rs)
  /\ \A i, j \in DOMAIN rs :
       ~rs[i].logged /\ ~rs[j].logged /\ rs[i].alarm = rs[j].alarm => i = j

DispatchPcs == {"collect", "suppressed", "active", "token", "check", "deliver", "find", "mark"}
ClosingPcs == {"finalize", "finalizeStale", "closeDuplicates"}

ThreadOK(t, rs) ==
  /\ t.todo \subseteq DOMAIN rs
  /\ t.pc \in DispatchPcs => t.alarm \in Alarms
  /\ t.pc = "mark" => Handled(t.alarm, rs)
  /\ t.pc \in ClosingPcs => \A i \in t.todo : Handled(rs[i].alarm, rs)

IncidentsInv ==
  /\ TypeOK
  /\ RecordsOK(incidents)
  /\ \A a \in Threads : ThreadOK(thread[a], incidents)
  /\ \A a \in Threads : copy[a] # Nil => thread[a].writes # <<>>

(* The records only grow, and never lose a mark. *)
Grew(rs, qs) ==
  /\ DOMAIN rs \subseteq DOMAIN qs
  /\ \A i \in DOMAIN rs :
       /\ qs[i].alarm = rs[i].alarm
       /\ rs[i].acked => qs[i].acked
       /\ rs[i].resolved => qs[i].resolved

LEMMA HandledKept ==
  ASSUME NEW rs, NEW qs, Grew(rs, qs), NEW g, Handled(g, rs) PROVE Handled(g, qs)
BY DEF Grew, Handled

LEMMA ThreadKept ==
  ASSUME NEW rs, NEW qs, Grew(rs, qs), NEW t, ThreadOK(t, rs) PROVE ThreadOK(t, qs)
<1>1. \A g : Handled(g, rs) => Handled(g, qs)
  BY HandledKept
<1> QED
  BY <1>1 DEF ThreadOK, Grew

-----------------------------------------------------------------------------
(* Minima, and the types of sequences. *)
LEMMA MinIn ==
  ASSUME NEW S \in SUBSET Nat, S # {} PROVE Min(S) \in S
<1> DEFINE R == {p \in Nat \X Nat : p[1] < p[2]}
<1>1. IsWellFoundedOn(R, Nat)
  BY NatLessThanWellFounded DEF OpToRel
<1>2. \A x, y \in Nat : y < x => <<y, x>> \in R
  OBVIOUS
<1> HIDE DEF R
<1>3. PICK x \in S : \A y \in S : <<y, x>> \notin R
  BY <1>1, WFMin, Zenon
<1>4. \A y \in S : x <= y
  <2> TAKE y \in S
  <2>1. x \in Nat /\ y \in Nat
    OBVIOUS
  <2>2. ~(y < x)
    BY <1>2, <1>3, <2>1, Zenon
  <2> QED
    BY <2>1, <2>2
<1> QED
  BY <1>3, <1>4 DEF Min

LEMMA WritesTyped ==
  ASSUME NEW S, NEW x \in S, NEW y \in S, NEW z \in S
  PROVE  /\ <<>> \in Seq(S) /\ <<x>> \in Seq(S)
         /\ <<x, y, z>> \in Seq(S) /\ <<x, y, z>> \o <<x>> \in Seq(S)
         /\ <<>> \o <<x>> \in Seq(S)
<1>1. <<>> \in Seq(S) /\ <<x>> \in Seq(S) /\ <<x, y, z>> \in Seq(S)
  OBVIOUS
<1> QED
  BY <1>1, ConcatProperties

LEMMA Retyped ==
  ASSUME NEW rs \in Seq(Incident), NEW qs,
         qs = [i \in DOMAIN rs |-> qs[i]], \A i \in DOMAIN rs : qs[i] \in Incident
  PROVE  qs \in Seq(Incident) /\ Len(qs) = Len(rs) /\ DOMAIN qs = DOMAIN rs
<1>1. Len(rs) \in Nat /\ DOMAIN rs = 1 .. Len(rs)
  BY LenProperties
<1>2. qs \in [1 .. Len(rs) -> Incident]
  BY <1>1
<1>3. qs \in Seq(Incident)
  BY <1>1, <1>2, SeqDef
<1> QED
  BY <1>1, <1>2, <1>3, LenProperties

LEMMA WriteTyped ==
  \A f \in Alarms :
    \A op \in {"activate", "remove", "unsuppress", "suppress", "note", "deactivate", "log"} :
      ToWrite(op, f) \in Write
BY DEF ToWrite, Write, IntegrationsWrites, IncidentsWrites

(* The alarms suppressed again, as the writes the board makes of them. *)
LEMMA ResolvedListed ==
  ASSUME NEW rs \in Seq(Incident), NEW S,
         S = {rs[i].alarm : i \in {i \in DOMAIN rs : rs[i].closed /\ rs[i].resolved}}
  PROVE  /\ Cardinality(S) \in Nat
         /\ \A k \in 1 .. Cardinality(S) : SetToSeq(S)[k] \in Alarms
<1> DEFINE I == {i \in DOMAIN rs : rs[i].closed /\ rs[i].resolved}
           h == [i \in I |-> rs[i].alarm]
<1>1. DOMAIN rs = 1 .. Len(rs) /\ Len(rs) \in Nat
  BY LenProperties
<1>2. \A i \in DOMAIN rs : rs[i] \in Incident
  BY <1>1, ElementOfSeq
<1>3. IsFiniteSet(I)
  <2>1. IsFiniteSet(1 .. Len(rs))
    BY <1>1, FS_Interval
  <2>2. I \subseteq 1 .. Len(rs)
    BY <1>1
  <2> HIDE DEF I
  <2> QED
    BY <2>1, <2>2, FS_Subset
<1>4. h \in Surjection(I, S)
  BY DEF Surjection
<1> HIDE DEF I, h
<1>5. IsFiniteSet(S)
  BY <1>3, <1>4, FS_Surjection
<1>6. S \subseteq Alarms
  BY <1>2 DEF Incident
<1>7. Cardinality(S) \in Nat /\ ExistsBijection(1 .. Cardinality(S), S)
  BY <1>5, FS_CardinalityType
<1>8. \E f \in [1 .. Cardinality(S) -> S] : IsInjective(f)
  BY <1>7, Zenon DEF ExistsBijection, Bijection, Injection
<1>9. SetToSeq(S) \in [1 .. Cardinality(S) -> S]
  BY <1>8, Zenon DEF SetToSeq
<1> QED
  BY <1>6, <1>7, <1>9

LEMMA Listed ==
  ASSUME NEW S, NEW n \in Nat, NEW q, q = [k \in 1 .. n |-> q[k]],
         \A k \in 1 .. n : q[k] \in S
  PROVE  q \in Seq(S)
<1>1. q \in [1 .. n -> S]
  OBVIOUS
<1> QED
  BY <1>1, SeqDef

-----------------------------------------------------------------------------
(* What a step of one thread may do: its own state, and growing records. *)
Recorded ==
  /\ incidents' \in Seq(Incident) /\ Len(incidents') <= MaxIncidents
  /\ Grew(incidents, incidents')
  /\ RecordsOK(incidents')

Moved(a, t) ==
  /\ thread' = [thread EXCEPT ![a] = t]
  /\ t \in Thread /\ ThreadOK(t, incidents')

LEMMA RecordsSame ==
  ASSUME IncidentsInv, UNCHANGED incidents PROVE Recorded
BY DEF IncidentsInv, TypeOK, Recorded, Grew

LEMMA Steps ==
  ASSUME IncidentsInv, Recorded, NEW a \in Threads, NEW t, Moved(a, t),
         thread[a].writes = <<>>,
         live' \subseteq Alarms, UNCHANGED <<config, copy, crashes>>
  PROVE  IncidentsInv'
<1> USE DEF IncidentsInv
<1>1. \A b \in Threads : thread'[b] = IF b = a THEN t ELSE thread[b]
  BY DEF Moved, TypeOK
<1>2. \A b \in Threads : ThreadOK(thread'[b], incidents')
  BY <1>1, ThreadKept DEF Moved, Recorded
<1>3. thread' \in [Threads -> Thread]
  BY DEF Moved, TypeOK
<1>4. \A b \in Threads : copy'[b] # Nil => thread'[b].writes # <<>>
  BY <1>1
<1>5. \A b \in Threads : thread'[b].todo \subseteq DOMAIN incidents'
  BY <1>2 DEF ThreadOK
<1>6. TypeOK'
  BY <1>3, <1>5 DEF TypeOK, Recorded
<1> QED
  BY <1>2, <1>4, <1>6 DEF Recorded

(* A thread that stops, and one that goes on with the alarm it has. *)
LEMMA Stops ==
  ASSUME NEW a \in Threads, NEW ws \in Seq(Write), Stop(a, ws)
  PROVE  \E t : Moved(a, t)
<1> DEFINE t == [Idle EXCEPT !.writes = ws]
<1>1. Idle \in Thread /\ Idle.pc = "idle" /\ Idle.todo = {}
  BY EmptySeq DEF Idle, Thread, Pcs
<1>2. t \in Thread /\ t.pc = "idle" /\ t.todo = {}
  BY <1>1 DEF Thread
<1> HIDE DEF t
<1>3. ThreadOK(t, incidents')
  BY <1>2 DEF ThreadOK, DispatchPcs, ClosingPcs
<1>4. thread' = [thread EXCEPT ![a] = t]
  BY DEF Stop, t
<1> QED
  BY <1>2, <1>3, <1>4 DEF Moved

LEMMA Goes ==
  ASSUME IncidentsInv, Recorded, NEW a \in Threads, NEW pc \in Pcs, NEW ws \in Seq(Write),
         To(a, pc, ws),
         pc \notin ClosingPcs,
         pc \in DispatchPcs => thread[a].alarm \in Alarms,
         pc = "mark" => Handled(thread[a].alarm, incidents)
  PROVE  \E t : Moved(a, t)
<1> DEFINE s == thread[a]
           t == [s EXCEPT !.pc = pc, !.writes = ws]
<1>1. s \in Thread /\ ThreadOK(s, incidents)
  BY DEF IncidentsInv, TypeOK
<1>2. thread' = [thread EXCEPT ![a] = t]
  BY DEF To
<1> HIDE DEF s
<1>3. /\ t \in Thread /\ t.pc = pc /\ t.alarm = s.alarm /\ t.todo = s.todo
  BY <1>1 DEF Thread
<1> HIDE DEF t
<1>4. ThreadOK(s, incidents')
  BY <1>1, ThreadKept DEF Recorded
<1>5. pc = "mark" => Handled(s.alarm, incidents')
  BY HandledKept DEF Recorded, s
<1>6. ThreadOK(t, incidents')
  BY <1>3, <1>4, <1>5 DEF ThreadOK, s
<1> QED
  BY <1>2, <1>3, <1>6 DEF Moved
(* The steps that change no thread but its writes. *)
LEMMA Quiet ==
  ASSUME IncidentsInv, live' \subseteq Alarms, config' \in Config,
         UNCHANGED <<incidents, thread, copy, crashes>>
  PROVE  IncidentsInv'
BY DEF IncidentsInv, TypeOK

LEMMA LapseKeeps ==
  ASSUME IncidentsInv, NEW f \in Alarms, Appear(f) \/ Clear(f) \/ Lapse(f)
  PROVE  IncidentsInv'
<1>1. live \subseteq Alarms /\ config \in Config
  BY DEF IncidentsInv, TypeOK
<1>2. CASE Appear(f) \/ Clear(f)
  BY <1>1, <1>2, Quiet DEF Appear, Clear
<1>3. CASE Lapse(f)
  <2>1. config' = [config EXCEPT !.suppressed = config.suppressed \ {f}]
    BY <1>3 DEF Lapse
  <2>2. config' \in Config
    BY <1>1, <2>1 DEF Config
  <2> QED
    BY <1>1, <1>3, <2>2, Quiet DEF Lapse
<1> QED
  BY <1>2, <1>3

LEMMA LoadKeeps ==
  ASSUME IncidentsInv, NEW a \in Threads, Load(a) PROVE IncidentsInv'
<1>1. config \in Config /\ Defaults \in Config /\ copy \in [Threads -> Config \cup {Nil}]
  BY DEF IncidentsInv, TypeOK, Config, Defaults
<1>2. \A lock : Loads(lock) \subseteq Config
  BY <1>1 DEF Loads
<1>3. PICK c \in Config : copy' = [copy EXCEPT ![a] = c]
  BY <1>2 DEF Load
<1>4. copy' \in [Threads -> Config \cup {Nil}]
      /\ \A b \in Threads \ {a} : copy'[b] = copy[b]
  BY <1>1, <1>3
<1>5. /\ UNCHANGED <<live, config, incidents, thread, crashes>>
      /\ thread[a].writes # <<>>
  BY DEF Load
<1>6. TypeOK'
  BY <1>4, <1>5 DEF IncidentsInv, TypeOK
<1>7. \A b \in Threads : /\ ThreadOK(thread'[b], incidents')
                         /\ copy'[b] # Nil => thread'[b].writes # <<>>
  BY <1>4, <1>5 DEF IncidentsInv
<1> QED
  BY <1>5, <1>6, <1>7 DEF IncidentsInv

LEMMA WrittenTyped ==
  ASSUME NEW c \in Config, NEW w \in Write PROVE Written(c, w) \in Config
<1>1. w.alarm \in Alarms /\ c.active \subseteq Alarms /\ c.suppressed \subseteq Alarms
      /\ c.enabled \in BOOLEAN
  BY DEF Config, Write
<1> QED
  BY <1>1 DEF Written, Config

LEMMA SaveKeeps ==
  ASSUME IncidentsInv, NEW a \in Threads, Save(a) PROVE IncidentsInv'
<1> DEFINE s == thread[a]
           t == [s EXCEPT !.writes = Tail(s.writes)]
<1>1. /\ s \in Thread /\ ThreadOK(s, incidents) /\ s.writes \in Seq(Write)
      /\ thread \in [Threads -> Thread] /\ copy \in [Threads -> Config \cup {Nil}]
      /\ config \in Config
      /\ copy[a] # Nil /\ s.writes # <<>>
      /\ UNCHANGED <<live, incidents, crashes>>
  BY DEF IncidentsInv, TypeOK, Save, Thread
<1>2. copy[a] \in Config /\ Head(s.writes) \in Write /\ Tail(s.writes) \in Seq(Write)
  BY <1>1, HeadTailProperties
<1>3. Written(copy[a], Head(s.writes)) \in Config
  BY <1>2, WrittenTyped
<1>4. config' \in Config
  BY <1>1, <1>3 DEF Save
<1>5. thread' = [thread EXCEPT ![a] = t] /\ copy' = [copy EXCEPT ![a] = Nil]
  BY DEF Save
<1> HIDE DEF s
<1>6. t \in Thread /\ t.pc = s.pc /\ t.alarm = s.alarm /\ t.todo = s.todo
  BY <1>1, <1>2 DEF Thread
<1> HIDE DEF t
<1>7. thread' \in [Threads -> Thread] /\ copy' \in [Threads -> Config \cup {Nil}]
  BY <1>1, <1>5, <1>6
<1>8. ThreadOK(t, incidents')
  BY <1>1, <1>6 DEF ThreadOK
<1>9. \A b \in Threads : IF b = a THEN thread'[b] = t /\ copy'[b] = Nil
                                  ELSE thread'[b] = thread[b] /\ copy'[b] = copy[b]
  BY <1>1, <1>5
<1>10. \A b \in Threads : /\ ThreadOK(thread'[b], incidents')
                          /\ copy'[b] # Nil => thread'[b].writes # <<>>
  BY <1>1, <1>8, <1>9 DEF IncidentsInv
<1>11. \A b \in Threads : thread'[b].todo \subseteq DOMAIN incidents'
  BY <1>10 DEF ThreadOK
<1>12. TypeOK'
  BY <1>1, <1>4, <1>7, <1>11 DEF IncidentsInv, TypeOK
<1> QED
  BY <1>1, <1>10, <1>12 DEF IncidentsInv

LEMMA IdleOK == \A rs : Idle \in Thread /\ ThreadOK(Idle, rs) /\ Idle.todo = {}
<1>1. Idle \in Thread /\ Idle.pc = "idle" /\ Idle.todo = {}
  BY EmptySeq DEF Idle, Thread, Pcs
<1> QED
  BY <1>1 DEF ThreadOK, DispatchPcs, ClosingPcs

LEMMA CrashKeeps ==
  ASSUME IncidentsInv, Crash PROVE IncidentsInv'
<1>1. /\ thread' = [a \in Threads |-> Idle] /\ copy' = [a \in Threads |-> Nil] /\ live' = {}
      /\ crashes' \in 0 .. MaxCrashes
      /\ UNCHANGED <<config, incidents>>
  BY BoundAssumption DEF Crash, IncidentsInv, TypeOK
<1>2. \A a \in Threads : thread'[a] = Idle /\ copy'[a] = Nil
  BY <1>1
<1>3. thread' \in [Threads -> Thread] /\ copy' \in [Threads -> Config \cup {Nil}]
  BY <1>1, IdleOK
<1>4. TypeOK'
  BY <1>1, <1>2, <1>3, IdleOK DEF TypeOK, IncidentsInv
<1> QED
  BY <1>1, <1>2, <1>4, IdleOK DEF IncidentsInv

LEMMA InitKeeps == Init => IncidentsInv
<1> SUFFICES ASSUME Init PROVE IncidentsInv
  OBVIOUS
<1>1. incidents \in Seq(Incident) /\ Len(incidents) = 0
  BY EmptySeq DEF Init
<1>2. DOMAIN incidents = {}
  BY <1>1, LenProperties
<1>3. \A a \in Threads : thread[a] = Idle /\ copy[a] = Nil
  BY DEF Init
<1>4. thread \in [Threads -> Thread] /\ copy \in [Threads -> Config \cup {Nil}]
  BY IdleOK DEF Init
<1>5. config \in Config
  BY DEF Init, Config
<1>6. TypeOK
  BY <1>1, <1>3, <1>4, <1>5, IdleOK, BoundAssumption DEF Init, TypeOK
<1> QED
  BY <1>2, <1>3, <1>6, IdleOK DEF IncidentsInv, RecordsOK
-----------------------------------------------------------------------------
(* The records.                                                             *)
LEMMA RecordTypes ==
  ASSUME IncidentsInv
  PROVE  /\ incidents \in Seq(Incident)
         /\ Len(incidents) \in Nat /\ Len(incidents) <= MaxIncidents
         /\ DOMAIN incidents = 1 .. Len(incidents)
         /\ \A i \in DOMAIN incidents : incidents[i] \in Incident /\ incidents[i].alarm \in Alarms
<1>1. incidents \in Seq(Incident) /\ Len(incidents) <= MaxIncidents
  BY DEF IncidentsInv, TypeOK
<1>2. Len(incidents) \in Nat /\ DOMAIN incidents = 1 .. Len(incidents)
  BY <1>1, LenProperties
<1>3. \A i \in DOMAIN incidents : incidents[i] \in Incident
  BY <1>1, <1>2, ElementOfSeq
<1> QED
  BY <1>1, <1>2, <1>3 DEF Incident

LEMMA FirstOf ==
  ASSUME IncidentsInv, NEW S \in SUBSET (DOMAIN incidents), S # {} PROVE Min(S) \in S
BY RecordTypes, MinIn

(* A record changed in place keeps its marks, and is not one that was never  *)
(* closed again. *)
Continues(q, r) ==
  /\ q \in Incident /\ q.alarm = r.alarm
  /\ r.acked => q.acked
  /\ r.resolved => q.resolved
  /\ r.logged => q.logged
  /\ RecordOK(q, incidents)

LEMMA Changed ==
  ASSUME IncidentsInv, incidents' = [i \in DOMAIN incidents |-> incidents'[i]],
         \A i \in DOMAIN incidents : Continues(incidents'[i], incidents[i])
  PROVE  Recorded /\ DOMAIN incidents' = DOMAIN incidents
<1>1. /\ incidents' \in Seq(Incident) /\ Len(incidents') <= MaxIncidents
      /\ DOMAIN incidents' = DOMAIN incidents
  BY RecordTypes, Retyped DEF Continues
<1>2. Grew(incidents, incidents')
  BY <1>1 DEF Grew, Continues
<1>3. \A g : Handled(g, incidents) => Handled(g, incidents')
  BY <1>2, HandledKept
<1>4. \A i, j \in DOMAIN incidents :
        /\ ~incidents[i].logged /\ ~incidents[j].logged
        /\ incidents[i].alarm = incidents[j].alarm
        => i = j
  BY DEF IncidentsInv, RecordsOK
<1>5. RecordsOK(incidents')
  <2>1. \A i \in DOMAIN incidents' : RecordOK(incidents'[i], incidents')
    BY <1>1, <1>3 DEF Continues, RecordOK
  <2>2. \A i, j \in DOMAIN incidents' :
          /\ ~incidents'[i].logged /\ ~incidents'[j].logged
          /\ incidents'[i].alarm = incidents'[j].alarm
          => i = j
    BY <1>1, <1>4 DEF Continues
  <2> QED
    BY <2>1, <2>2 DEF RecordsOK
<1> QED
  BY <1>1, <1>2, <1>5 DEF Recorded

LEMMA FinalizedKeeps ==
  ASSUME IncidentsInv, NEW is,
         \A i \in DOMAIN incidents : i \in is => Handled(incidents[i].alarm, incidents),
         incidents' = Finalized(is)
  PROVE  Recorded
<1> DEFINE Fin(i) == IF i \in is /\ ~incidents[i].closed
                     THEN [incidents[i] EXCEPT !.closed = TRUE, !.logged = TRUE]
                     ELSE incidents[i]
<1>1. incidents' = [i \in DOMAIN incidents |-> Fin(i)]
  BY DEF Finalized
<1>2. ASSUME NEW r \in Incident
      PROVE  LET q == [r EXCEPT !.closed = TRUE, !.logged = TRUE] IN
             q \in Incident /\ q.alarm = r.alarm /\ q.acked = r.acked
             /\ q.resolved = r.resolved
             /\ q.closed /\ q.logged
  BY DEF Incident
<1>3. ASSUME NEW i \in DOMAIN incidents
      PROVE  LET q == Fin(i) IN
             /\ q \in Incident /\ q.alarm = incidents[i].alarm
             /\ q.acked = incidents[i].acked /\ q.resolved = incidents[i].resolved
             /\ incidents[i].logged => q.logged
             /\ q.closed => incidents[i].closed \/ (i \in is /\ q.logged)
  BY <1>2, RecordTypes
<1>4. \A i \in DOMAIN incidents : incidents'[i] = Fin(i)
  BY <1>1
<1>5. incidents' = [i \in DOMAIN incidents |-> incidents'[i]]
  BY <1>1
<1> HIDE DEF Fin
<1>6. \A i \in DOMAIN incidents : RecordOK(incidents[i], incidents)
  BY DEF IncidentsInv, RecordsOK
<1>7. \A i \in DOMAIN incidents : Continues(incidents'[i], incidents[i])
  BY <1>3, <1>4, <1>6 DEF Continues, RecordOK
<1> QED
  BY <1>5, <1>7, Changed

LEMMA FinalizeTyped ==
  ASSUME IncidentsInv, NEW i \in DOMAIN incidents
  PROVE  /\ FinalizeWrites(i) \in Seq(Write)
         /\ FinalizeWrites(i) \o <<ToWrite("log", incidents[i].alarm)>> \in Seq(Write)
<1> DEFINE f == incidents[i].alarm
<1>1. f \in Alarms
  BY RecordTypes
<1> HIDE DEF f
<1>2. ToWrite("deactivate", f) \in Write /\ ToWrite("suppress", f) \in Write
      /\ ToWrite("log", f) \in Write
  BY <1>1, WriteTyped
<1>3. <<ToWrite("deactivate", f), ToWrite("suppress", f), ToWrite("log", f)>> \in Seq(Write)
      /\ <<ToWrite("log", f)>> \in Seq(Write) /\ <<>> \in Seq(Write)
  BY <1>2
<1>4. FinalizeWrites(i) \in Seq(Write)
  BY <1>3 DEF FinalizeWrites, f
<1> QED
  BY <1>3, <1>4, ConcatProperties DEF f
-----------------------------------------------------------------------------
(* The steps of a dispatcher.                                               *)
LEMMA ThreadTypes ==
  ASSUME IncidentsInv, NEW a \in Threads
  PROVE  /\ thread[a] \in Thread /\ ThreadOK(thread[a], incidents)
         /\ live \subseteq Alarms
         /\ thread[a].pc \in DispatchPcs => thread[a].alarm \in Alarms
         /\ thread[a] = Idle => thread[a].writes = <<>>
BY DEF IncidentsInv, TypeOK, ThreadOK, Idle

(* A step that changes no record: the thread stops, or goes on. *)
LEMMA Looks ==
  ASSUME IncidentsInv, NEW a \in Threads, thread[a].writes = <<>>,
         UNCHANGED <<live, config, incidents, copy, crashes>>,
         \/ \E ws \in Seq(Write) : Stop(a, ws)
         \/ \E pc \in Pcs \ ClosingPcs, ws \in Seq(Write) :
              /\ To(a, pc, ws)
              /\ pc \in DispatchPcs => thread[a].alarm \in Alarms
              /\ pc = "mark" => Handled(thread[a].alarm, incidents)
  PROVE  IncidentsInv'
<1>1. Recorded
  BY RecordsSame
<1>2. \E t : Moved(a, t)
  BY <1>1, Stops, Goes
<1>3. live' \subseteq Alarms
  BY ThreadTypes
<1> QED
  BY <1>1, <1>2, <1>3, Steps

LEMMA BeginKeeps ==
  ASSUME IncidentsInv, NEW d \in Threads, NEW f \in Alarms, Begin(d, f) \/ Detect(d, f)
  PROVE  IncidentsInv'
<1>1. thread[d].writes = <<>> /\ live' \subseteq Alarms
      /\ UNCHANGED <<config, incidents, copy, crashes>>
  BY ThreadTypes DEF Begin, BeginWith, Detect
<1>2. Recorded
  BY <1>1, RecordsSame
<1>3. Idle \in Thread /\ Idle.todo = {}
  BY IdleOK
<1>4. ASSUME NEW t, thread' = [thread EXCEPT ![d] = t], t \in Thread,
             t.pc \in {"collect", "suppressed"}, t.alarm = f, t.todo = {}
      PROVE  IncidentsInv'
  <2>1. ThreadOK(t, incidents')
    BY <1>4 DEF ThreadOK, DispatchPcs, ClosingPcs
  <2>2. Moved(d, t)
    BY <1>4, <2>1 DEF Moved
  <2> QED
    BY <1>1, <1>2, <2>2, Steps
<1>5. CASE Begin(d, f)
  <2>1. PICK c : BeginWith(d, f, c)
    BY <1>5 DEF Begin
  <2> DEFINE b == f \in c.active
             t == [Idle EXCEPT !.pc = "collect", !.alarm = f, !.seen = b]
  <2>2. thread' = [thread EXCEPT ![d] = t]
    BY <2>1 DEF BeginWith
  <2>3. b \in BOOLEAN
    OBVIOUS
  <2> HIDE DEF b
  <2>4. t \in Thread /\ t.pc = "collect" /\ t.alarm = f /\ t.todo = {}
    BY <1>3, <2>3 DEF Thread, Pcs
  <2> HIDE DEF t
  <2> QED
    BY <1>4, <2>2, <2>4
<1>6. CASE Detect(d, f)
  <2> DEFINE t == [Idle EXCEPT !.alarm = f, !.pc = "suppressed"]
  <2>1. thread' = [thread EXCEPT ![d] = t]
    BY <1>6 DEF Detect
  <2>2. t \in Thread /\ t.pc = "suppressed" /\ t.alarm = f /\ t.todo = {}
    BY <1>3 DEF Thread, Pcs
  <2> HIDE DEF t
  <2> QED
    BY <1>4, <2>1, <2>2
<1> QED
  BY <1>5, <1>6

LEMMA CollectKeeps ==
  ASSUME IncidentsInv, NEW d \in Threads, Collect(d) PROVE IncidentsInv'
<1> DEFINE f == thread[d].alarm
<1>1. /\ thread[d].writes = <<>> /\ f \in Alarms
      /\ UNCHANGED <<live, config, incidents, copy, crashes>>
  BY ThreadTypes DEF Collect, At, DispatchPcs
<1> HIDE DEF f
<1>2. ToWrite("unsuppress", f) \in Write
  BY <1>1, WriteTyped
<1>3. <<ToWrite("unsuppress", f)>> \in Seq(Write) /\ <<>> \in Seq(Write)
  BY <1>2
<1>4. "suppressed" \in Pcs \ ClosingPcs /\ "find" \in Pcs \ ClosingPcs
  BY DEF Pcs, ClosingPcs
<1>5. \/ To(d, "suppressed", <<>>) \/ To(d, "find", <<ToWrite("unsuppress", f)>>)
      \/ Stop(d, <<>>)
  BY DEF Collect, f
<1>6. CASE Stop(d, <<>>)
  BY <1>1, <1>3, <1>6, Looks
<1>7. CASE To(d, "suppressed", <<>>)
  BY <1>1, <1>3, <1>4, <1>7, Looks DEF f
<1>8. CASE To(d, "find", <<ToWrite("unsuppress", f)>>)
  BY <1>1, <1>3, <1>4, <1>8, Looks DEF f
<1> QED
  BY <1>5, <1>6, <1>7, <1>8

LEMMA CheckKeeps ==
  ASSUME IncidentsInv, NEW d \in Threads, CheckSuppressed(d) \/ CheckActive(d)
  PROVE  IncidentsInv'
<1>1. /\ thread[d].writes = <<>> /\ thread[d].alarm \in Alarms
      /\ UNCHANGED <<live, config, incidents, copy, crashes>>
  BY ThreadTypes DEF CheckSuppressed, CheckActive, At, DispatchPcs
<1>2. <<>> \in Seq(Write)
  BY EmptySeq
<1>3. "active" \in Pcs \ ClosingPcs /\ "token" \in Pcs \ ClosingPcs
  BY DEF Pcs, ClosingPcs
<1>4. Stop(d, <<>>) \/ To(d, "active", <<>>) \/ To(d, "token", <<>>)
  BY DEF CheckSuppressed, CheckActive
<1>5. CASE Stop(d, <<>>)
  BY <1>1, <1>2, <1>5, Looks
<1>6. CASE To(d, "active", <<>>) \/ To(d, "token", <<>>)
  BY <1>1, <1>2, <1>3, <1>6, Looks
<1> QED
  BY <1>4, <1>5, <1>6

LEMMA CheckDispatchedKeeps ==
  ASSUME IncidentsInv, NEW d \in Threads, CheckDispatched(d) \/ DeliverFails(d)
  PROVE  IncidentsInv'
<1> DEFINE f == thread[d].alarm
<1>1. /\ thread[d].writes = <<>> /\ f \in Alarms
      /\ UNCHANGED <<live, config, incidents, copy, crashes>>
  BY ThreadTypes DEF CheckDispatched, DeliverFails, At, DispatchPcs
<1>2. Stop(d, <<ToWrite("note", f)>>) \/ Stop(d, <<ToWrite("activate", f)>>)
      \/ To(d, "deliver", <<>>)
  BY DEF CheckDispatched, DeliverFails
<1> HIDE DEF f
<1>3. ToWrite("note", f) \in Write /\ ToWrite("activate", f) \in Write
  BY <1>1, WriteTyped
<1>4. <<ToWrite("note", f)>> \in Seq(Write) /\ <<ToWrite("activate", f)>> \in Seq(Write)
      /\ <<>> \in Seq(Write)
  BY <1>3
<1>5. "deliver" \in Pcs \ ClosingPcs
  BY DEF Pcs, ClosingPcs
<1>6. CASE To(d, "deliver", <<>>)
  BY <1>1, <1>4, <1>5, <1>6, Looks DEF f
<1>7. CASE Stop(d, <<ToWrite("note", f)>>) \/ Stop(d, <<ToWrite("activate", f)>>)
  BY <1>1, <1>4, <1>7, Looks
<1> QED
  BY <1>2, <1>6, <1>7

(* A dispatcher marks an alarm only when one of its records is handled. *)
LEMMA FindKeeps ==
  ASSUME IncidentsInv, NEW d \in Threads, Find(d) PROVE IncidentsInv'
<1> DEFINE f == thread[d].alarm
<1>1. /\ thread[d].writes = <<>> /\ f \in Alarms
      /\ UNCHANGED <<live, config, incidents, copy, crashes>>
  BY ThreadTypes DEF Find, At, DispatchPcs
<1>2. \/ Stop(d, <<ToWrite("remove", f)>>) \/ Stop(d, <<>>)
      \/ /\ To(d, "mark", <<>>) /\ Open(f) # {}
         /\ incidents[Min(Open(f))].acked /\ incidents[Min(Open(f))].resolved
  BY DEF Find
<1> HIDE DEF f
<1>3. <<>> \in Seq(Write) /\ <<ToWrite("remove", f)>> \in Seq(Write)
  <2>1. ToWrite("remove", f) \in Write
    BY <1>1, WriteTyped
  <2> QED
    BY <2>1
<1>4. CASE Stop(d, <<>>) \/ Stop(d, <<ToWrite("remove", f)>>)
  BY <1>1, <1>3, <1>4, Looks
<1>5. CASE /\ To(d, "mark", <<>>) /\ Open(f) # {}
           /\ incidents[Min(Open(f))].acked /\ incidents[Min(Open(f))].resolved
  <2>1. Open(f) \in SUBSET (DOMAIN incidents)
    BY DEF Open
  <2>2. Min(Open(f)) \in Open(f)
    BY <1>5, <2>1, FirstOf
  <2>3. Handled(f, incidents)
    BY <1>5, <2>2 DEF Handled, Open
  <2>4. "mark" \in Pcs \ ClosingPcs
    BY DEF Pcs, ClosingPcs
  <2> QED
    BY <1>1, <1>3, <1>5, <2>3, <2>4, Looks DEF f
<1> QED
  BY <1>2, <1>4, <1>5
(* A step that changes records and stops the thread, or gives it what to do. *)
LEMMA Closes ==
  ASSUME IncidentsInv, Recorded, NEW a \in Threads, thread[a].writes = <<>>,
         UNCHANGED <<live, config, copy, crashes>>,
         \E t : Moved(a, t)
  PROVE  IncidentsInv'
<1>1. live' \subseteq Alarms
  BY ThreadTypes
<1> QED
  BY <1>1, Steps

LEMMA DeliverKeeps ==
  ASSUME IncidentsInv, NEW d \in Threads, Deliver(d) PROVE IncidentsInv'
<1> DEFINE f == thread[d].alarm
<1>1. /\ thread[d].writes = <<>> /\ f \in Alarms
      /\ UNCHANGED <<live, config, copy, crashes>> /\ Stop(d, <<ToWrite("activate", f)>>)
  BY ThreadTypes DEF Deliver, At, DispatchPcs
<1> HIDE DEF f
<1>2. ToWrite("activate", f) \in Write
  BY <1>1, WriteTyped
<1>3. <<ToWrite("activate", f)>> \in Seq(Write)
  BY <1>2
<1>4. \E t : Moved(d, t)
  BY <1>1, <1>3, Stops
<1>5. CASE UNCHANGED incidents
  BY <1>1, <1>4, <1>5, Closes, RecordsSame
<1>6. CASE incidents' = [i \in DOMAIN incidents |->
                           [incidents[i] EXCEPT !.notified = @ \/ i \in thread[d].todo]]
  <2> DEFINE n(i) == incidents[i].notified \/ i \in thread[d].todo
  <2>1. \A i \in DOMAIN incidents : n(i) \in BOOLEAN
    OBVIOUS
  <2>2. incidents' = [i \in DOMAIN incidents |-> [incidents[i] EXCEPT !.notified = n(i)]]
    BY <1>6
  <2> HIDE DEF n
  <2>3. \A i \in DOMAIN incidents : incidents'[i] = [incidents[i] EXCEPT !.notified = n(i)]
    BY <2>2
  <2>4. incidents' = [i \in DOMAIN incidents |-> incidents'[i]]
    BY <2>2
  <2>5. \A i \in DOMAIN incidents :
          /\ incidents'[i] \in Incident
          /\ incidents'[i].alarm = incidents[i].alarm
          /\ incidents'[i].acked = incidents[i].acked
          /\ incidents'[i].resolved = incidents[i].resolved
          /\ incidents'[i].closed = incidents[i].closed
          /\ incidents'[i].logged = incidents[i].logged
    <3> TAKE i \in DOMAIN incidents
    <3>1. incidents[i] \in Incident
      BY RecordTypes
    <3>2. PICK b \in BOOLEAN : incidents'[i] = [incidents[i] EXCEPT !.notified = b]
      BY <2>1, <2>3
    <3> QED
      BY <3>1, <3>2 DEF Incident
  <2>6. \A i \in DOMAIN incidents : RecordOK(incidents[i], incidents)
    BY DEF IncidentsInv, RecordsOK
  <2>7. Recorded
    BY <2>4, <2>5, <2>6, Changed DEF Continues, RecordOK
  <2> QED
    BY <1>1, <1>4, <2>7, Closes
<1> QED
  BY <1>5, <1>6 DEF Deliver

LEMMA MarkKeeps ==
  ASSUME IncidentsInv, NEW d \in Threads, MarkCleared(d) PROVE IncidentsInv'
<1> DEFINE f == thread[d].alarm
           ws == <<ToWrite("deactivate", f), ToWrite("log", f), ToWrite("remove", f)>>
<1>1. /\ thread[d].writes = <<>> /\ f \in Alarms /\ Handled(f, incidents)
      /\ UNCHANGED <<live, config, copy, crashes>> /\ Stop(d, ws)
      /\ incidents' = Finalized(Open(f))
  BY ThreadTypes DEF MarkCleared, At, DispatchPcs, ThreadOK
<1> HIDE DEF f
<1>2. ToWrite("deactivate", f) \in Write /\ ToWrite("log", f) \in Write
      /\ ToWrite("remove", f) \in Write
  BY <1>1, WriteTyped
<1>3. ws \in Seq(Write)
  BY <1>2
<1> HIDE DEF ws
<1>4. Recorded
  BY <1>1, FinalizedKeeps DEF Open
<1> QED
  BY <1>1, <1>3, <1>4, Stops, Closes

(* The record an alarm has, or a new one: then the alarm has only closed     *)
(* records, which are all logged. *)
LEMMA TokenKeeps ==
  ASSUME IncidentsInv, NEW d \in Threads, GetOrCreateToken(d) PROVE IncidentsInv'
<1> DEFINE s == thread[d]
           f == s.alarm
<1>1. /\ s \in Thread /\ s.writes = <<>> /\ f \in Alarms
      /\ UNCHANGED <<live, config, copy, crashes>>
  BY ThreadTypes DEF GetOrCreateToken, At, DispatchPcs
<1>2. ASSUME Recorded, NEW i \in DOMAIN incidents',
             thread' = [thread EXCEPT ![d].pc = "check", ![d].todo = {i}]
      PROVE  IncidentsInv'
  <2> DEFINE t == [s EXCEPT !.pc = "check", !.todo = {i}]
  <2>1. thread' = [thread EXCEPT ![d] = t]
    BY <1>2
  <2>2. {i} \subseteq 1 .. MaxIncidents
    <3>1. DOMAIN incidents' = 1 .. Len(incidents') /\ Len(incidents') \in Nat
          /\ Len(incidents') <= MaxIncidents
      BY <1>2, LenProperties DEF Recorded
    <3> QED
      BY <3>1, BoundAssumption
  <2> HIDE DEF s
  <2>3. t \in Thread /\ t.pc = "check" /\ t.alarm = f /\ t.todo = {i}
    BY <1>1, <2>2 DEF Thread, Pcs
  <2> HIDE DEF t
  <2>4. ThreadOK(t, incidents')
    BY <1>1, <2>3 DEF ThreadOK, ClosingPcs
  <2>5. Moved(d, t)
    BY <2>1, <2>3, <2>4 DEF Moved
  <2> QED
    BY <1>1, <1>2, <2>5, Closes DEF s
<1>3. CASE /\ Open(f) # {} /\ UNCHANGED incidents
           /\ thread' = [thread EXCEPT ![d].pc = "check", ![d].todo = {Min(Open(f))}]
  <2>1. Open(f) \in SUBSET (DOMAIN incidents)
    BY DEF Open
  <2>2. Min(Open(f)) \in DOMAIN incidents'
    BY <1>3, <2>1, FirstOf
  <2> QED
    BY <1>2, <1>3, <2>2, RecordsSame
<1>4. CASE /\ Open(f) = {} /\ Len(incidents) < MaxIncidents
           /\ incidents' = Append(incidents, [alarm |-> f, notified |-> FALSE, acked |-> FALSE,
                                              resolved |-> FALSE, closed |-> FALSE, logged |-> FALSE])
           /\ thread' = [thread EXCEPT ![d].pc = "check", ![d].todo = {Len(incidents) + 1}]
  <2> DEFINE r == [alarm |-> f, notified |-> FALSE, acked |-> FALSE,
                   resolved |-> FALSE, closed |-> FALSE, logged |-> FALSE]
             n == Len(incidents)
  <2> HIDE DEF s
  <2>1. r \in Incident /\ r.alarm = f /\ ~r.acked /\ ~r.resolved /\ ~r.closed
    BY <1>1 DEF Incident
  <2>2. incidents' = Append(incidents, r) /\ n < MaxIncidents
    BY <1>4
  <2> HIDE DEF r
  <2>3. incidents \in Seq(Incident) /\ n \in Nat /\ DOMAIN incidents = 1 .. n
    BY RecordTypes
  <2>4. /\ incidents' \in Seq(Incident) /\ Len(incidents') = n + 1
        /\ \A i \in 1 .. n : incidents'[i] = incidents[i]
        /\ incidents'[n + 1] = r
    BY <2>1, <2>2, <2>3, AppendProperties
  <2>5. DOMAIN incidents' = 1 .. (n + 1)
    BY <2>4, LenProperties
  <2> HIDE DEF n
  <2>6. Grew(incidents, incidents') /\ n + 1 \in DOMAIN incidents' /\ n + 1 <= MaxIncidents
    BY <2>2, <2>3, <2>4, <2>5, BoundAssumption DEF Grew
  <2>7. \A g : Handled(g, incidents) => Handled(g, incidents')
    BY <2>6, HandledKept
  <2>8. \A i \in DOMAIN incidents : incidents[i].alarm = f => incidents[i].logged
    BY <1>4 DEF Open, IncidentsInv, RecordsOK, RecordOK
  <2>9. \A i \in DOMAIN incidents' : i \in DOMAIN incidents \/ i = n + 1
    BY <2>3, <2>5
  <2>10. \A i \in DOMAIN incidents' : RecordOK(incidents'[i], incidents')
    BY <2>1, <2>3, <2>4, <2>7, <2>9 DEF IncidentsInv, RecordsOK, RecordOK
  <2>11. \A i, j \in DOMAIN incidents' :
            /\ ~incidents'[i].logged /\ ~incidents'[j].logged
            /\ incidents'[i].alarm = incidents'[j].alarm
            => i = j
    <3> TAKE i, j \in DOMAIN incidents'
    <3>1. CASE i \in DOMAIN incidents /\ j \in DOMAIN incidents
      BY <2>3, <2>4, <3>1 DEF IncidentsInv, RecordsOK
    <3>2. CASE i = n + 1 /\ j \in DOMAIN incidents
      BY <2>1, <2>3, <2>4, <2>8, <3>2
    <3>3. CASE j = n + 1 /\ i \in DOMAIN incidents
      BY <2>1, <2>3, <2>4, <2>8, <3>3
    <3> QED
      BY <2>9, <3>1, <3>2, <3>3
  <2>12. Recorded
    BY <2>4, <2>6, <2>10, <2>11 DEF Recorded, RecordsOK, RecordOK
  <2> QED
    BY <1>2, <1>4, <2>6, <2>12 DEF n
<1> QED
  BY <1>3, <1>4 DEF GetOrCreateToken
-----------------------------------------------------------------------------
(* The steps of a request.  A mark is set, and none is taken away.          *)
LEMMA MarkSet ==
  ASSUME IncidentsInv, NEW i \in DOMAIN incidents, NEW q \in Incident,
         incidents' = [incidents EXCEPT ![i] = q],
         q.alarm = incidents[i].alarm, q.closed = incidents[i].closed,
         q.logged = incidents[i].logged,
         q.acked, incidents[i].resolved => q.resolved
  PROVE  Recorded /\ incidents'[i] = q /\ DOMAIN incidents' = DOMAIN incidents
<1>1. \A j \in DOMAIN incidents : incidents'[j] = IF j = i THEN q ELSE incidents[j]
  OBVIOUS
<1>2. incidents' = [j \in DOMAIN incidents |-> incidents'[j]]
  BY <1>1
<1>3. \A j \in DOMAIN incidents : RecordOK(incidents[j], incidents)
  BY DEF IncidentsInv, RecordsOK
<1>4. \A j \in DOMAIN incidents : Continues(incidents'[j], incidents[j])
  BY <1>1, <1>3, RecordTypes DEF Continues, RecordOK
<1> QED
  BY <1>1, <1>2, <1>4, Changed

LEMMA AcknowledgeKeeps ==
  ASSUME IncidentsInv, NEW u \in Threads, NEW i \in DOMAIN incidents, Acknowledge(u, i)
  PROVE  IncidentsInv'
<1> DEFINE q == [incidents[i] EXCEPT !.acked = TRUE]
           f == incidents[i].alarm
<1>1. thread[u].writes = <<>> /\ UNCHANGED <<live, config, copy, crashes>>
  BY ThreadTypes DEF Acknowledge
<1>2. Stop(u, <<ToWrite("log", f)>>) /\ incidents' = [incidents EXCEPT ![i] = q]
  BY DEF Acknowledge
<1>3. /\ q \in Incident /\ q.alarm = incidents[i].alarm /\ q.closed = incidents[i].closed
      /\ q.logged = incidents[i].logged /\ q.acked /\ q.resolved = incidents[i].resolved
  BY RecordTypes DEF Incident
<1> HIDE DEF q
<1>4. Recorded
  BY <1>2, <1>3, MarkSet
<1>5. f \in Alarms
  BY RecordTypes
<1> HIDE DEF f
<1>6. ToWrite("log", f) \in Write
  BY <1>5, WriteTyped
<1>7. <<ToWrite("log", f)>> \in Seq(Write)
  BY <1>6
<1> QED
  BY <1>1, <1>2, <1>4, <1>7, Stops, Closes

(* A request goes on with records to close, each of a handled alarm. *)
LEMMA GoesClosing ==
  ASSUME IncidentsInv, Recorded, NEW a \in Threads, NEW pc \in ClosingPcs, NEW is,
         is \subseteq DOMAIN incidents', \A i \in is : Handled(incidents'[i].alarm, incidents'),
         NEW ws \in Seq(Write), NEW t,
         t = [thread[a] EXCEPT !.pc = pc, !.todo = is, !.writes = ws],
         thread' = [thread EXCEPT ![a] = t]
  PROVE  Moved(a, t)
<1>1. is \subseteq 1 .. MaxIncidents
  <2>1. DOMAIN incidents' = 1 .. Len(incidents') /\ Len(incidents') \in Nat
        /\ Len(incidents') <= MaxIncidents
    BY LenProperties DEF Recorded
  <2> QED
    BY <2>1, BoundAssumption
<1> DEFINE s == thread[a]
<1>2. s \in Thread
  BY ThreadTypes
<1> HIDE DEF s
<1>3. t = [s EXCEPT !.pc = pc, !.todo = is, !.writes = ws]
  BY DEF s
<1>4. t \in Thread /\ t.pc = pc /\ t.todo = is
  BY <1>1, <1>2, <1>3 DEF Thread, ClosingPcs, Pcs
<1>5. ThreadOK(t, incidents')
  BY <1>4 DEF ThreadOK, ClosingPcs, DispatchPcs
<1> QED
  BY <1>4, <1>5 DEF Moved

LEMMA ResolveKeeps ==
  ASSUME IncidentsInv, NEW u \in Threads, NEW i \in DOMAIN incidents, Resolve(u, i)
  PROVE  IncidentsInv'
<1> DEFINE q == [incidents[i] EXCEPT !.resolved = TRUE]
           t == [thread[u] EXCEPT !.pc = "finalize", !.todo = {i}, !.writes = <<>>]
<1>1. thread[u].writes = <<>> /\ thread[u] \in Thread
      /\ UNCHANGED <<live, config, copy, crashes>>
  BY ThreadTypes DEF Resolve
<1>2. incidents' = [incidents EXCEPT ![i] = q] /\ incidents[i].acked
  BY DEF Resolve
<1>3. /\ q \in Incident /\ q.alarm = incidents[i].alarm /\ q.closed = incidents[i].closed
      /\ q.logged = incidents[i].logged /\ q.acked = incidents[i].acked /\ q.resolved
  BY RecordTypes DEF Incident
<1> HIDE DEF q
<1>4. Recorded /\ incidents'[i] = q /\ DOMAIN incidents' = DOMAIN incidents
  BY <1>2, <1>3, MarkSet
<1>5. \A k \in {i} : Handled(incidents'[k].alarm, incidents')
  BY <1>2, <1>3, <1>4 DEF Handled
<1>6. thread' = [thread EXCEPT ![u] = [thread[u] EXCEPT !.pc = "finalize", !.todo = {i}]]
  BY DEF Resolve
<1>7. [thread[u] EXCEPT !.pc = "finalize", !.todo = {i}] = t
  BY <1>1 DEF Thread
<1>8. "finalize" \in ClosingPcs /\ <<>> \in Seq(Write)
  BY EmptySeq DEF ClosingPcs
<1>9. thread' = [thread EXCEPT ![u] = t] /\ {i} \subseteq DOMAIN incidents'
  BY <1>4, <1>6, <1>7
<1>10. Moved(u, t)
  BY <1>4, <1>5, <1>8, <1>9, GoesClosing
<1> QED
  BY <1>1, <1>4, <1>10, Closes

LEMMA FinalizeKeeps ==
  ASSUME IncidentsInv, NEW u \in Threads, Finalize(u) PROVE IncidentsInv'
<1>1. thread[u].writes = <<>> /\ UNCHANGED <<live, config, copy, crashes>>
  BY DEF Finalize, At
<1>2. PICK i \in thread[u].todo :
        /\ incidents' = Finalized({i})
        /\ Stop(u, FinalizeWrites(i) \o <<ToWrite("log", incidents[i].alarm)>>)
  BY DEF Finalize
<1>3. i \in DOMAIN incidents /\ Handled(incidents[i].alarm, incidents)
  BY ThreadTypes DEF Finalize, At, ThreadOK, ClosingPcs
<1>4. Recorded
  BY <1>2, <1>3, FinalizedKeeps
<1>5. \E t : Moved(u, t)
  BY <1>2, <1>3, FinalizeTyped, Stops
<1> QED
  BY <1>1, <1>4, <1>5, Closes

LEMMA ReopenKeeps ==
  ASSUME IncidentsInv, NEW u \in Threads, ReopenPremature(u) PROVE IncidentsInv'
<1> DEFINE R(r) == IF r.closed /\ ~r.acked /\ ~r.resolved
                   THEN [r EXCEPT !.closed = FALSE] ELSE r
<1>1. thread[u].writes = <<>> /\ UNCHANGED <<live, config, copy, crashes>>
      /\ To(u, "stale", <<>>)
  BY ThreadTypes DEF ReopenPremature
<1>2. incidents' = [i \in DOMAIN incidents |-> R(incidents[i])]
  BY DEF ReopenPremature
<1>3. ASSUME NEW r \in Incident
      PROVE  /\ R(r) \in Incident /\ R(r).alarm = r.alarm /\ R(r).acked = r.acked
             /\ R(r).resolved = r.resolved /\ R(r).logged = r.logged /\ (R(r).closed => r.closed)
  BY DEF Incident
<1>4. \A i \in DOMAIN incidents : incidents'[i] = R(incidents[i])
  BY <1>2
<1>5. incidents' = [i \in DOMAIN incidents |-> incidents'[i]]
  BY <1>2
<1> HIDE DEF R
<1>6. \A i \in DOMAIN incidents : RecordOK(incidents[i], incidents)
  BY DEF IncidentsInv, RecordsOK
<1>7. \A i \in DOMAIN incidents : Continues(incidents'[i], incidents[i])
  BY <1>3, <1>4, <1>6, RecordTypes DEF Continues, RecordOK
<1>8. Recorded
  BY <1>5, <1>7, Changed
<1>9. "stale" \in Pcs /\ "stale" \notin ClosingPcs /\ "stale" \notin DispatchPcs
      /\ <<>> \in Seq(Write)
  BY EmptySeq DEF Pcs, ClosingPcs, DispatchPcs
<1>10. \E t : Moved(u, t)
  BY <1>1, <1>8, <1>9, Goes
<1> QED
  BY <1>1, <1>8, <1>10, Closes
(* The two searches of the board: a record resolved is handled, and so is    *)
(* the alarm of one that is closed. *)
LEMMA FindStaleKeeps ==
  ASSUME IncidentsInv, NEW u \in Threads, FindStale(u) \/ FindSuperseded(u)
  PROVE  IncidentsInv'
<1> DEFINE s == thread[u]
<1>1. s.writes = <<>> /\ s \in Thread
      /\ UNCHANGED <<live, config, incidents, copy, crashes>>
  BY ThreadTypes DEF FindStale, FindSuperseded, At
<1>2. Recorded
  BY <1>1, RecordsSame
<1>3. ASSUME NEW pc \in ClosingPcs, NEW is, is \subseteq DOMAIN incidents,
             \A i \in is : Handled(incidents[i].alarm, incidents),
             thread' = [thread EXCEPT ![u].pc = pc, ![u].todo = is]
      PROVE  IncidentsInv'
  <2> DEFINE t == [s EXCEPT !.pc = pc, !.todo = is, !.writes = <<>>]
  <2>1. [s EXCEPT !.pc = pc, !.todo = is] = t
    BY <1>1 DEF Thread
  <2>2. thread' = [thread EXCEPT ![u] = [s EXCEPT !.pc = pc, !.todo = is]]
    BY <1>3
  <2>3. thread' = [thread EXCEPT ![u] = t]
    BY <2>1, <2>2
  <2>4. is \subseteq DOMAIN incidents'
        /\ \A i \in is : Handled(incidents'[i].alarm, incidents')
    BY <1>1, <1>3
  <2>5. <<>> \in Seq(Write)
    BY EmptySeq
  <2>6. Moved(u, t)
    BY <1>2, <1>3, <2>3, <2>4, <2>5, GoesClosing
  <2> QED
    BY <1>1, <1>2, <2>6, Closes
<1>4. "finalizeStale" \in ClosingPcs /\ "closeDuplicates" \in ClosingPcs
  BY DEF ClosingPcs
<1>5. CASE FindStale(u)
  <2> DEFINE is == {i \in DOMAIN incidents : Stale(i)}
  <2>1. \A i \in is : Handled(incidents[i].alarm, incidents)
    BY DEF Stale, Handled, IncidentsInv, RecordsOK, RecordOK
  <2>2. thread' = [thread EXCEPT ![u].pc = "finalizeStale", ![u].todo = is]
        /\ is \subseteq DOMAIN incidents
    BY <1>5 DEF FindStale
  <2> HIDE DEF is
  <2> QED
    BY <1>3, <1>4, <2>1, <2>2
<1>6. CASE FindSuperseded(u)
  <2> DEFINE is == {i \in DOMAIN incidents :
                      /\ ~incidents[i].closed /\ incidents[i].alarm \in ClosedAlarms
                      /\ ~incidents[i].acked /\ ~incidents[i].resolved}
  <2>1. \A i \in is : Handled(incidents[i].alarm, incidents)
    <3> TAKE i \in is
    <3>1. PICK j \in DOMAIN incidents :
            incidents[j].closed /\ incidents[j].alarm = incidents[i].alarm
      BY DEF ClosedAlarms
    <3>2. Handled(incidents[j].alarm, incidents)
      BY <3>1 DEF IncidentsInv, RecordsOK, RecordOK
    <3> QED
      BY <3>1, <3>2
  <2>2. thread' = [thread EXCEPT ![u].pc = "closeDuplicates", ![u].todo = is]
        /\ is \subseteq DOMAIN incidents
    BY <1>6 DEF FindSuperseded
  <2> HIDE DEF is
  <2> QED
    BY <1>3, <1>4, <2>1, <2>2
<1> QED
  BY <1>5, <1>6

(* One record of those found is closed, if nobody else has. *)
LEMMA ClosesFirst ==
  ASSUME IncidentsInv, NEW u \in Threads, thread[u].writes = <<>>,
         thread[u].pc \in ClosingPcs, thread[u].todo # {},
         UNCHANGED <<live, config, copy, crashes>>,
         NEW m, m = Min(thread[u].todo), incidents' = Finalized({m}),
         NEW ws, m \in DOMAIN incidents => ws \in Seq(Write),
         thread' = [thread EXCEPT ![u].todo = thread[u].todo \ {m}, ![u].writes = ws]
  PROVE  IncidentsInv'
<1> DEFINE s == thread[u]
           is == s.todo \ {m}
           pc == s.pc
<1>1. s \in Thread /\ s.todo \in SUBSET (DOMAIN incidents)
      /\ \A i \in s.todo : Handled(incidents[i].alarm, incidents)
  BY ThreadTypes DEF ThreadOK
<1>2. m \in s.todo
  BY <1>1, FirstOf
<1>3. Recorded
  BY <1>1, <1>2, FinalizedKeeps
<1>4. is \subseteq DOMAIN incidents'
      /\ \A i \in is : Handled(incidents'[i].alarm, incidents')
  BY <1>1, <1>3, HandledKept DEF Recorded, Grew
<1>5. ws \in Seq(Write) /\ pc \in ClosingPcs
  BY <1>1, <1>2
<1>6. thread' = [thread EXCEPT ![u] = [s EXCEPT !.todo = is, !.writes = ws]]
  OBVIOUS
<1>7. [s EXCEPT !.todo = is, !.writes = ws] = [s EXCEPT !.pc = pc, !.todo = is, !.writes = ws]
  BY <1>1 DEF Thread
<1> DEFINE t == [s EXCEPT !.pc = pc, !.todo = is, !.writes = ws]
<1>8. thread' = [thread EXCEPT ![u] = t]
  BY <1>6, <1>7
<1> HIDE DEF is, pc
<1>9. Moved(u, t)
  BY <1>3, <1>4, <1>5, <1>8, GoesClosing
<1> QED
  BY <1>3, <1>9, Closes

LEMMA FinalizeStaleKeeps ==
  ASSUME IncidentsInv, NEW u \in Threads, FinalizeStale(u) PROVE IncidentsInv'
<1>1. thread[u].writes = <<>> /\ thread[u].pc = "finalizeStale"
      /\ UNCHANGED <<live, config, copy, crashes>>
  BY DEF FinalizeStale, At
<1>2. CASE thread[u].todo # {}
  <2> DEFINE m == Min(thread[u].todo)
             ws == FinalizeWrites(m)
  <2>1. incidents' = Finalized({m})
        /\ thread' = [thread EXCEPT ![u].todo = thread[u].todo \ {m}, ![u].writes = ws]
    BY <1>2 DEF FinalizeStale
  <2>2. m \in DOMAIN incidents => ws \in Seq(Write)
    BY FinalizeTyped
  <2>3. thread[u].pc \in ClosingPcs
    BY <1>1 DEF ClosingPcs
  <2> HIDE DEF ws
  <2> QED
    BY <1>1, <1>2, <2>1, <2>2, <2>3, ClosesFirst
<1>3. CASE thread[u].todo = {}
  <2>1. To(u, "superseded", <<>>) /\ UNCHANGED incidents
    BY <1>3 DEF FinalizeStale
  <2>2. "superseded" \in Pcs \ ClosingPcs /\ "superseded" \notin DispatchPcs
        /\ <<>> \in Seq(Write)
    BY EmptySeq DEF Pcs, ClosingPcs, DispatchPcs
  <2> QED
    BY <1>1, <2>1, <2>2, Looks
<1> QED
  BY <1>2, <1>3

LEMMA CloseSupersededKeeps ==
  ASSUME IncidentsInv, NEW u \in Threads, CloseSuperseded(u) PROVE IncidentsInv'
<1>1. thread[u].writes = <<>> /\ thread[u].pc = "closeDuplicates"
      /\ UNCHANGED <<live, config, copy, crashes>>
  BY DEF CloseSuperseded, At
<1>2. CASE thread[u].todo # {}
  <2> DEFINE m == Min(thread[u].todo)
             ws == IF incidents[m].closed THEN <<>> ELSE <<ToWrite("suppress", incidents[m].alarm)>>
  <2>1. incidents' = Finalized({m})
        /\ thread' = [thread EXCEPT ![u].todo = thread[u].todo \ {m}, ![u].writes = ws]
    BY <1>2 DEF CloseSuperseded
  <2>2. ASSUME m \in DOMAIN incidents PROVE ws \in Seq(Write)
    <3>1. incidents[m].alarm \in Alarms
      BY <2>2, RecordTypes
    <3>2. ToWrite("suppress", incidents[m].alarm) \in Write
      BY <3>1, WriteTyped
    <3>3. <<ToWrite("suppress", incidents[m].alarm)>> \in Seq(Write) /\ <<>> \in Seq(Write)
      BY <3>2
    <3> QED
      BY <3>3
  <2>3. thread[u].pc \in ClosingPcs
    BY <1>1 DEF ClosingPcs
  <2> HIDE DEF ws
  <2> QED
    BY <1>1, <1>2, <2>1, <2>2, <2>3, ClosesFirst
<1>3. CASE thread[u].todo = {}
  <2> DEFINE S == ResolvedAlarms
             n == Cardinality(S)
             w(k) == ToWrite("suppress", SetToSeq(S)[k])
             ws == [k \in 1 .. n |-> w(k)]
  <2>1. Stop(u, ws) /\ UNCHANGED incidents
    BY <1>3 DEF CloseSuperseded
  <2>2. n \in Nat /\ \A k \in 1 .. n : SetToSeq(S)[k] \in Alarms
    BY RecordTypes, ResolvedListed DEF ResolvedAlarms
  <2>3. \A k \in 1 .. n : w(k) \in Write
    BY <2>2, WriteTyped
  <2> HIDE DEF w, n, S
  <2>4. \A k \in 1 .. n : ws[k] \in Write
    BY <2>3
  <2>5. ws = [k \in 1 .. n |-> ws[k]]
    OBVIOUS
  <2> HIDE DEF ws
  <2>6. ws \in Seq(Write)
    BY <2>2, <2>4, <2>5, Listed
  <2> QED
    BY <1>1, <2>1, <2>6, Looks
<1> QED
  BY <1>2, <1>3

-----------------------------------------------------------------------------
LEMMA IncidentsStep == IncidentsInv /\ [Next]_vars => IncidentsInv'
<1> SUFFICES ASSUME IncidentsInv, [Next]_vars PROVE IncidentsInv'
  OBVIOUS
<1> USE DEF Threads
<1>1. ASSUME NEW a \in Threads, Proceed(a) PROVE IncidentsInv'
  <2>1. CASE Load(a) \/ Save(a)
    BY <2>1, LoadKeeps, SaveKeeps
  <2>2. CASE Dispatch(a)
    BY <2>2, CollectKeeps, CheckKeeps, TokenKeeps, CheckDispatchedKeeps, DeliverKeeps,
       FindKeeps, MarkKeeps
       DEF Dispatch
  <2>3. CASE Finalize(a) \/ Look(a)
    BY <2>3, FinalizeKeeps, ReopenKeeps, FindStaleKeeps, FinalizeStaleKeeps,
       CloseSupersededKeeps DEF Look
  <2> QED
    BY <1>1, <2>1, <2>2, <2>3 DEF Proceed
<1>2. ASSUME NEW d \in Dispatchers, NEW f \in Alarms, Begin(d, f) \/ Detect(d, f)
      PROVE  IncidentsInv'
  BY <1>2, BeginKeeps
<1>3. ASSUME NEW u \in Users, NEW i \in DOMAIN incidents, Acknowledge(u, i) \/ Resolve(u, i)
      PROVE  IncidentsInv'
  BY <1>3, AcknowledgeKeeps, ResolveKeeps
<1>4. ASSUME NEW f \in Alarms, Appear(f) \/ Clear(f) \/ Lapse(f) PROVE IncidentsInv'
  BY <1>4, LapseKeeps
<1>5. CASE UNCHANGED vars
  <2>1. UNCHANGED <<live, config, incidents, thread, copy, crashes>>
    BY <1>5 DEF vars
  <2>2. live' \subseteq Alarms /\ config' \in Config
    BY <2>1 DEF IncidentsInv, TypeOK
  <2> QED
    BY <2>1, <2>2, Quiet
<1> QED
  BY <1>1, <1>2, <1>3, <1>4, <1>5, CrashKeeps DEF Next

LEMMA IncidentsAlways == Spec => []IncidentsInv
BY InitKeeps, IncidentsStep, PTL DEF Spec

(* The variables keep their types: a request holds records there are, and    *)
(* the configuration is never more than alarms and a switch. *)
THEOREM IncidentTypes == Spec => []TypeOK
<1>1. IncidentsInv => TypeOK
  BY DEF IncidentsInv
<1> QED
  BY <1>1, IncidentsAlways, PTL

(* Whatever closes an incident, the technician, the poll that finds the      *)
(* alarm gone, or a repair of the board, in any order, across restarts and   *)
(* in spite of lost writes of the configuration: somebody has acknowledged   *)
(* and resolved one of its alarm (handle_alarm_telemetry_cleared). *)
THEOREM IncidentsClosedByTechnician == Spec => []ClosedByTechnician
<1>1. IncidentsInv => ClosedByTechnician
  BY DEF IncidentsInv, RecordsOK, RecordOK, Handled, ClosedByTechnician
<1> QED
  BY <1>1, IncidentsAlways, PTL

(* However many dispatchers find an alarm at once, and whatever the board    *)
(* reopens, at most one of its incidents was never closed                    *)
(* (get_or_create_token). *)
THEOREM OneIncidentPerAlarm == Spec => []OneFreshIncident
<1>1. IncidentsInv => OneFreshIncident
  <2> SUFFICES ASSUME IncidentsInv, NEW f \in Alarms
               PROVE  Cardinality({i \in DOMAIN incidents :
                                     incidents[i].alarm = f /\ ~incidents[i].logged}) <= 1
    BY DEF OneFreshIncident
  <2> DEFINE S == {i \in DOMAIN incidents : incidents[i].alarm = f /\ ~incidents[i].logged}
  <2>1. \A i, j \in S : i = j
    BY DEF IncidentsInv, RecordsOK
  <2> HIDE DEF S
  <2> SUFFICES Cardinality(S) <= 1
    BY DEF S
  <2>2. ASSUME S = {} PROVE Cardinality(S) <= 1
    <3>1. Cardinality(S) = 0
      BY <2>2, FS_EmptySet, Zenon
    <3> QED
      BY <3>1
  <2>3. ASSUME S # {} PROVE Cardinality(S) <= 1
    <3>1. PICK i : S = {i}
      BY <2>1, <2>3
    <3>2. Cardinality({i}) = 1
      BY FS_Singleton
    <3>3. Cardinality(S) = 1
      BY <3>1, <3>2, Zenon
    <3> QED
      BY <3>3
  <2> QED
    BY <2>2, <2>3
<1> QED
  BY <1>1, IncidentsAlways, PTL
=============================================================================
