----------------------------- MODULE Dashboard -----------------------------
(***************************************************************************)
(* The dashboard (src/frontend/src/components/Dashboard2.jsx): its pages,     *)
(* the outlet card on one of them, the settings of the PDU on another, the  *)
(* dialog that reboots the PDUs of the hall, and the page of a technician    *)
(* that its live board links to.                                            *)
(***************************************************************************)
EXTENDS OutletCard, SettingsPanel, BulkReboot, IncidentPage

dashVars == <<navVars, cardVars, panelVars, bulkVars, incidentVars>>

DashInit == NavInit /\ CardInit /\ PanelInit /\ BulkInit /\ IncidentInit

(* The dialog covers the page: under it the list is read again, no more.     *)
ListRead == HallFailed \/ \E ps \in SUBSET PDUs, silent \in BOOLEAN : HallLoaded(ps, silent)

Navigates ==
  /\ IF phase = "closed" THEN NavNext ELSE ListRead
  /\ Follows /\ PanelFollows /\ BulkFollows
  /\ UNCHANGED <<acts, incidentVars>>
Works == CardNext /\ UNCHANGED <<navVars, panelVars, bulkVars, incidentVars>>
Configures == PanelNext /\ UNCHANGED <<navVars, cardVars, bulkVars, incidentVars>>
Reboots == BulkNext /\ UNCHANGED <<navVars, cardVars, panelVars, incidentVars>>
Responds == IncidentNext /\ UNCHANGED <<navVars, cardVars, panelVars, bulkVars>>

DashNext == Navigates \/ Works \/ Configures \/ Reboots \/ Responds

(* All parts at once, in any order. *)
DashSpec == DashInit /\ [][DashNext]_dashVars

(* The operator comes to an end, the timers and the answers do not: requests *)
(* are answered or fail, and of those that ask for the PDU that is selected  *)
(* not all fail.                                                            *)
DashFairness ==
  /\ WF_dashVars(Poll /\ UNCHANGED <<navVars, panelVars, bulkVars, incidentVars>>)
  /\ WF_dashVars(Expire /\ UNCHANGED <<navVars, panelVars, bulkVars, incidentVars>>)
  /\ WF_dashVars(AnyCommand /\ UNCHANGED <<navVars, panelVars, bulkVars, incidentVars>>)
  /\ \A g \in Gets : WF_dashVars(AnyGet(g) /\ UNCHANGED <<navVars, panelVars, bulkVars, incidentVars>>)
  /\ SF_dashVars(sel # None /\ AnswersOf(Get(sel)) /\ UNCHANGED <<navVars, panelVars, bulkVars, incidentVars>>)
=============================================================================
