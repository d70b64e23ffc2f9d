--------------------------- MODULE SettingsPanel ---------------------------
(***************************************************************************)
(* The settings of the PDU that is selected                                 *)
(* (src/frontend/src/components/PDUSettingsPanel.jsx), on a page of the      *)
(* dashboard.  While they are open the server holds the PDU: its background  *)
(* poller leaves it alone (src/backend/app.py).  Nothing of the panel is     *)
(* reset when another PDU is selected under it: its forms, its flags and its *)
(* loops of pings go on.                                                    *)
(***************************************************************************)
EXTENDS DashboardNav

CONSTANTS
  WithLogin,    \* the PDUs whose web login is in the database
  MaxClicks     \* a bound of the model: settings opened, pages, buttons

ASSUME WithLoginAssumption == WithLogin \subseteq PDUs

VARIABLES
  holds,      \* the server's _pdu_admin_holds
  strays,     \* history: releases that were lost or found nothing to release
  posts,      \* the calls to hold and to release that are under way
  opened,     \* the number of the session: its holdUrl is not cancelled
  page,       \* the panel's tab
  forms,      \* whose settings, alarms, logs and values it shows
  dirty,      \* of these, what the operator has edited
  reads,      \* the requests to read them; two alike are one
  loading, saving,
  saves,      \* the request to save or to reboot
  rebootStatus,
  pings,      \* the loops that wait for a PDU to come back
  clicks

sessionVars == <<holds, strays, posts, opened>>
formVars == <<page, forms, dirty>>
rebootVars == <<rebootStatus, pings>>
panelVars == <<sessionVars, formVars, reads, loading, saving, saves, rebootVars, clicks>>

PanelPages == {"network", "snmp", "time", "system", "alarms", "telemetry", "logs"}
Kinds == {"settings", "alarms", "logs", "telemetry"}
Nothing == [k \in Kinds |-> None]

Closed ==
  /\ page' = "network" /\ forms' = Nothing /\ dirty' = {} /\ reads' = {}
  /\ loading' = FALSE /\ saving' = FALSE /\ saves' = {}
  /\ rebootStatus' = "none" /\ pings' = {}

PanelInit ==
  /\ holds = [p \in PDUs |-> 0] /\ strays = holds /\ posts = {} /\ opened = 0
  /\ page = "network" /\ forms = Nothing /\ dirty = {} /\ reads = {}
  /\ loading = FALSE /\ saving = FALSE /\ saves = {}
  /\ rebootStatus = "none" /\ pings = {} /\ clicks = 0

(* The PDU whose settings the dashboard opens; None is the empty panel.     *)
OnSettings == tab = "pdu-settings" /\ (FleetSplit \/ ~Neural)
Row == IF FleetSplit /\ fleetSel # None THEN fleetSel ELSE expanded
Host == IF OnSettings /\ Row \in listed THEN Row ELSE None
Session == IF Host \in WithLogin THEN Host ELSE None

Click == clicks < MaxClicks /\ clicks' = clicks + 1

(* What an effect reads when the page is opened or the PDU changes under it. *)
ReadsOf(g, p) ==
  IF p # None /\ g \in {"alarms", "logs", "telemetry"} THEN {[what |-> g, of |-> p]} ELSE {}
Reading(rs) ==
  /\ reads' = reads \cup rs
  /\ loading' = (loading \/ \E r \in rs : r.what \in {"settings", "alarms"})

Call(c, p) == IF p = None THEN {} ELSE {[call |-> c, of |-> p, n |-> clicks']}

(* Mutant: the cleanup belongs to the panel, not to the PDU. *)
ReleasedAtEnd == Call("hold", Session') \cup IF OnSettings' THEN {} ELSE Call("release", Session)

(* The effect that holds the PDU, after the cleanup of the one before. *)
SessionCalls == Call("release", Session) \cup Call("hold", Session')

(* Selecting another PDU or page of the dashboard. *)
PanelFollows ==
  /\ IF <<Host, OnSettings>>' # <<Host, OnSettings>> THEN Click ELSE UNCHANGED clicks
  /\ IF Session' # Session
     THEN posts' = posts \cup SessionCalls /\ opened' = clicks'
     ELSE UNCHANGED <<posts, opened>>
  /\ IF OnSettings'
     THEN /\ Reading(IF Host' # Host THEN ReadsOf(page, Host') ELSE {})
          /\ UNCHANGED <<formVars, saving, saves, rebootVars>>
     ELSE Closed
  /\ UNCHANGED <<holds, strays>>

-----------------------------------------------------------------------------
(* The calls to the server, which arrive in any order or not at all; hold    *)
(* is followed by fetchSettings unless the effect was cleaned up, whatever   *)
(* the server said.                                                         *)
HoldDone(c, taken, answered) ==
  /\ c \in posts /\ c.call = "hold"
  /\ posts' = posts \ {c}
  /\ holds' = IF taken THEN [holds EXCEPT ![c.of] = @ + 1] ELSE holds
  /\ Reading(IF answered /\ c.n = opened /\ Session = c.of
             THEN {[what |-> "settings", of |-> c.of]} ELSE {})
  /\ UNCHANGED <<strays, opened, formVars, saving, saves, rebootVars, clicks>>

ReleaseDone(c, taken) ==
  /\ c \in posts /\ c.call = "release"
  /\ posts' = posts \ {c}
  /\ IF taken /\ holds[c.of] > 0
     THEN holds' = [holds EXCEPT ![c.of] = @ - 1] /\ UNCHANGED strays
     ELSE strays' = [strays EXCEPT ![c.of] = @ + 1] /\ UNCHANGED holds
  /\ UNCHANGED <<opened, formVars, reads, loading, saving, saves, rebootVars, clicks>>

(* fetchSettings, and what the effects of the pages read.  Whichever PDU is  *)
(* selected by then, the answer is shown.                                   *)
Read(r, ok) ==
  /\ r \in reads
  /\ reads' = reads \ {r}
  /\ forms' = IF ok THEN [forms EXCEPT ![r.what] = r.of] ELSE forms
  /\ dirty' = IF ok THEN dirty \ {r.what} ELSE dirty
  /\ loading' = (loading /\ r.what \notin {"settings", "alarms"})
  /\ UNCHANGED <<sessionVars, page, saving, saves, rebootVars, clicks>>

Refresh ==
  /\ Session # None /\ ~loading
  /\ Click
  /\ Reading({[what |-> "settings", of |-> Host]})
  /\ UNCHANGED <<sessionVars, formVars, saving, saves, rebootVars>>

(* Every 10 s *)
PollTelemetry ==
  /\ page = "telemetry" /\ Host # None
  /\ Reading(ReadsOf(page, Host))
  /\ UNCHANGED <<sessionVars, formVars, saving, saves, rebootVars, clicks>>

OpenPage(g) ==
  /\ Host # None /\ g # page
  /\ Click
  /\ page' = g
  /\ Reading(ReadsOf(g, Host))
  /\ UNCHANGED <<sessionVars, forms, dirty, saving, saves, rebootVars>>

-----------------------------------------------------------------------------
(* The forms and their buttons.                                             *)
OnPage(g) == Host # None /\ page = g /\ ~loading

(* A button that reboots the PDU waits for the reboot under way, one that   *)
(* only saves does not.                                                     *)
MayReboot == ~saving /\ rebootStatus # "rebooting" /\ Session # None
NetworkForm == OnPage("network") /\ MayReboot
SnmpForm == OnPage("snmp") /\ ~saving
TimeForm == OnPage("time") /\ ~saving
AlarmsForm == OnPage("alarms") /\ ~saving
DeviceForm == OnPage("system") /\ ~saving
UsersForm == OnPage("system") /\ ~saving

(* An edit of one of the fields, whether or not a button is disabled. *)
Edit(k) ==
  /\ CASE k = "settings" -> \E g \in {"network", "snmp", "time", "system"} : OnPage(g)
       [] k = "alarms" -> OnPage("alarms")
  /\ dirty' = dirty \cup {k}
  /\ UNCHANGED <<sessionVars, page, forms, reads, loading, saving, saves, rebootVars, clicks>>

Sends(w) ==
  /\ Click
  /\ saving' = TRUE
  /\ saves' = saves \cup {[what |-> w, to |-> Host, n |-> clicks']}
  /\ UNCHANGED <<sessionVars, formVars, reads, loading, pings>>
SendsAndForgets(w) == Sends(w) /\ rebootStatus' = "none"
SendsOnly(w) == Sends(w) /\ UNCHANGED rebootStatus

SaveNetwork == NetworkForm /\ SendsAndForgets("network")
RebootPdu == NetworkForm /\ SendsAndForgets("reboot")
SaveSnmp == SnmpForm /\ SendsAndForgets("snmp")
SaveTime == TimeForm /\ SendsOnly("time")
SaveAlarms == AlarmsForm /\ SendsOnly("alarms")
SaveSystem == DeviceForm /\ SendsOnly("system")
SaveUsers == UsersForm /\ SendsOnly("users")

(* Mutant: the status is set, the loop that ends it is not begun. *)
StatusOnly(s) == rebootStatus' = "rebooting" /\ UNCHANGED pings

(* waitForReboot *)
WaitForReboot(s) == rebootStatus' = "rebooting" /\ pings' = pings \cup {[of |-> s.to, n |-> s.n]}

Saved(s, reboots) ==
  /\ s \in saves /\ (reboots => s.what \in {"network", "reboot", "snmp"})
  /\ saves' = saves \ {s} /\ saving' = FALSE
  /\ IF reboots THEN WaitForReboot(s) ELSE UNCHANGED rebootVars
  /\ UNCHANGED <<sessionVars, formVars, reads, loading, clicks>>

(* A ping is answered: the settings are read again where they were saved.   *)
Online(l) ==
  /\ l \in pings
  /\ pings' = pings \ {l} /\ rebootStatus' = "online"
  /\ Reading({[what |-> "settings", of |-> l.of]})
  /\ UNCHANGED <<sessionVars, formVars, saving, saves, clicks>>

(* 90 s without an answer *)
GaveUp(l) ==
  /\ l \in pings
  /\ pings' = pings \ {l} /\ rebootStatus' = "failed"
  /\ UNCHANGED <<sessionVars, formVars, reads, loading, saving, saves, clicks>>

PanelNext ==
  \/ \E c \in posts, taken, answered \in BOOLEAN : HoldDone(c, taken, answered)
  \/ \E c \in posts, taken \in BOOLEAN : ReleaseDone(c, taken)
  \/ \E r \in reads, ok \in BOOLEAN : Read(r, ok)
  \/ \E g \in PanelPages : OpenPage(g)
  \/ \E k \in {"settings", "alarms"} : Edit(k)
  \/ \E s \in saves, reboots \in BOOLEAN : Saved(s, reboots)
  \/ \E l \in pings : Online(l) \/ GaveUp(l)
  \/ Refresh \/ PollTelemetry
  \/ SaveNetwork \/ RebootPdu \/ SaveSnmp \/ SaveTime \/ SaveAlarms \/ SaveSystem \/ SaveUsers
-----------------------------------------------------------------------------
Posted(c, p) == Cardinality({x \in posts : x.call = c /\ x.of = p})

(* "Pause background telemetry polling for this PDU while settings are       *)
(* open": a PDU is held for the settings that are open and for no others,    *)
(* but for a release that is under way, was lost or overtook its hold -      *)
(* which then is never taken back.                                          *)
HoldsReturned ==
  \A p \in PDUs :
    holds[p] + Posted("hold", p)
      <= (IF p = Session THEN 1 ELSE 0) + Posted("release", p) + strays[p]

(* No flag outlives what set it, on whichever page and PDU the operator is   *)
(* by then: the panel shows "Loading" only while something is read, disables *)
(* its buttons only while something is saved (and never saves two things at  *)
(* once), and says "rebooting" only while a loop waits for the PDU.          *)
FlagsHaveOwners ==
  /\ loading => \E r \in reads : r.what \in {"settings", "alarms"}
  /\ saving = (saves # {}) /\ Cardinality(saves) <= 1
  /\ rebootStatus = "rebooting" => pings # {}
=============================================================================
