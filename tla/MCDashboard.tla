---------------------------- MODULE MCDashboard ----------------------------
(* The operator first finds the fleet, then works with its outlets or opens *)
(* the settings of a PDU: from there on he changes the PDU and the page      *)
(* MaxActs or MaxClicks times at most, clicks included.  Or he opens the     *)
(* dialog of the plain shell, under which the list is read again.  The       *)
(* technician's page is beside the page the dashboard begins with.          *)
EXTENDS Dashboard

Idle == data = None /\ gets = {} /\ acts = 0 /\ puts = {} /\ clicks = 0 /\ phase = "closed"

Walk == Idle /\ NavNext /\ UNCHANGED <<cardVars, panelVars, bulkVars, incidentVars>>
AtWork == FleetSplit /\ stencil = "designer" /\ alarms = "dispatch" /\ keptStencil = "designer"
          /\ ~asked /\ listed = PDUs /\ sel # None /\ expanded = None
Change ==
  /\ ~Idle /\ clicks = 0 /\ Act
  /\ \/ \E t \in {"telemetry", "outlets"} : FleetTab(t)
     \/ \E p \in PDUs : FleetSelect(p)
  /\ Follows
  /\ UNCHANGED <<panelVars, bulkVars, incidentVars>>

Open ==
  /\ Idle /\ AtWork /\ tab = "telemetry" /\ sel = 1 /\ fleetSel = 1
  /\ FleetTab("pdu-settings") /\ PanelFollows
  /\ UNCHANGED <<cardVars, bulkVars, incidentVars>>
Reselect ==
  /\ clicks > 0
  /\ \/ \E t \in {"telemetry", "pdu-settings"} : FleetTab(t)
     \/ \E p \in PDUs : FleetSelect(p)
     \/ HallLoaded({1}, TRUE)
  /\ PanelFollows
  /\ UNCHANGED <<cardVars, bulkVars, incidentVars>>

Dialog ==
  /\ Idle => tab = "datahall" /\ listed = PDUs /\ stencil = "designer" /\ ~asked /\ sel = None
  /\ Reboots
ListAgain ==
  /\ phase # "closed"
  /\ HallFailed \/ \E ps \in SUBSET PDUs : HallLoaded(ps, TRUE)
  /\ BulkFollows
  /\ UNCHANGED <<cardVars, panelVars, incidentVars>>

MCNext ==
  \/ /\ IncidentInit
     /\ \/ Walk \/ Change \/ Open \/ Reselect \/ ListAgain
        \/ AtWork /\ clicks = 0 /\ phase = "closed" /\ Works
        \/ clicks > 0 /\ Configures
        \/ (phase # "closed" \/ Idle) /\ Dialog
  \/ NavInit /\ shell = "plain" /\ ~ops /\ keptStencil = "designer" /\ keptBoard = "overview" /\ Idle
     /\ Responds
MCInit == DashInit /\ relay = [p \in PDUs |-> TRUE]
MCSpec == MCInit /\ [][MCNext]_dashVars /\ DashFairness
=============================================================================
