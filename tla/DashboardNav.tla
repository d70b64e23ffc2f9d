---------------------------- MODULE DashboardNav ----------------------------
(***************************************************************************)
(* The navigation of the dashboard (src/frontend/src/components/           *)
(* Dashboard2.jsx, demo/DemoNavSidebar.jsx, demo/DemoFleetPanel.jsx): which  *)
(* section its rail shows, which page is open and which PDU is selected.    *)
(* The three are separate pieces of state that each handler has to keep     *)
(* together.                                                                *)
(***************************************************************************)
EXTENDS Naturals, FiniteSets, FiniteSetsExt

CONSTANTS
  PDUs,       \* numbers, in the order of the list
  None

ASSUME PDUsAssumption == PDUs \subseteq Nat /\ None \notin PDUs

VARIABLES
  shell,      \* "plain" or "neural": isDemoMode || opsMode
  asked,      \* the mode of the server is still asked for
  ops,        \* neuralOpsMode, and the same in localStorage
  tab,        \* activeTab
  stencil, board, alarms,      \* the sections
  keptStencil, keptBoard,      \* the first two in localStorage
  listed,     \* hallPDUs
  sel,        \* selectedPdu
  fleetSel,   \* fleetSelectedPduId
  expanded,   \* expandedPdu
  astray      \* how the page was opened that is not the section's: "no"; for a
              \* PDU that the filter hides; by coming back to the assignment

sections == <<stencil, board, alarms, keptStencil, keptBoard>>
navVars == <<shell, asked, ops, tab, sections, listed, sel, fleetSel, expanded, astray>>

StencilSections == {"designer", "assign", "commission", "teams", "integrations"}
BoardSections == {"overview", "alarms", "fleet"}
AlarmSections == {"dispatch", "reports", "analytics"}
PduTabs == {"telemetry", "warnings", "outlets", "pdu-settings"}

(* The page of a section when the rail opens it. *)
StencilPage(s) == IF s = "designer" THEN "datahall" ELSE s
BoardPage(s) ==
  CASE s = "overview" -> "datahall" [] s = "alarms" -> "ledger" [] s = "fleet" -> "telemetry"

(* localStorage is what an earlier visit left there. *)
NavInit ==
  /\ shell \in {"plain", "neural"} /\ ops \in BOOLEAN
  /\ asked = TRUE /\ tab = "datahall"
  /\ stencil = "designer" /\ board = "overview" /\ alarms = "dispatch"
  /\ keptStencil \in StencilSections /\ keptBoard \in BoardSections
  /\ listed = {} /\ sel = None /\ fleetSel = None /\ expanded = None
  /\ astray = "no"

Neural == shell = "neural"
FleetSplit == Neural /\ ops /\ board = "fleet"
NeuralLayout == Neural /\ ops /\ tab = "datahall" /\ board = "overview"

(* The fleet selects a first PDU when none was selected: the effect after    *)
(* every change.                                                            *)
Selects(f, s) ==
  IF FleetSplit' /\ f = None /\ listed' # {}
  THEN fleetSel' = Min(listed') /\ sel' = Min(listed')
  ELSE fleetSel' = f /\ sel' = s

Opens(t) == tab' = t /\ astray' = "no"
-----------------------------------------------------------------------------
(* initNeuralShell *)
InitNeuralShell ==
  /\ shell' = "neural"
  /\ stencil' = "designer" /\ keptStencil' = "designer"
  /\ board' = "overview" /\ keptBoard' = "overview"
  /\ alarms' \in AlarmSections
  /\ Opens("datahall")

(* The answer about the mode; without one the shell of the last visit stays. *)
Detected(answer) ==
  /\ asked /\ asked' = FALSE
  /\ CASE answer = "neural" -> InitNeuralShell
       [] answer = "plain" -> shell' = "plain" /\ UNCHANGED <<tab, sections, astray>>
       [] answer = "failed" -> UNCHANGED <<shell, tab, sections, astray>>
  /\ UNCHANGED <<ops, listed, expanded>>
  /\ Selects(fleetSel, sel)

(* handleDemoPrimaryModeChange: back to the section that was kept, and to its *)
(* page; but the assignment is highlighted over the page of the hall.       *)
Primary(on) ==
  /\ Neural
  /\ ops' = on
  /\ IF on
     THEN board' = keptBoard /\ Opens(BoardPage(keptBoard)) /\ UNCHANGED stencil
     ELSE /\ stencil' = keptStencil /\ UNCHANGED board
          /\ IF keptStencil = "assign"
             THEN tab' = "datahall" /\ astray' = "back"
             ELSE Opens(StencilPage(keptStencil))
  /\ UNCHANGED <<shell, asked, alarms, keptStencil, keptBoard, listed, expanded>>
  /\ Selects(fleetSel, sel)

(* handleDemoStencilSectionChange, by the rail or when the wizard closes. *)
StencilSection(s) ==
  /\ Neural /\ ~ops
  /\ stencil' = s /\ keptStencil' = s
  /\ Opens(StencilPage(s))
  /\ UNCHANGED <<shell, asked, ops, board, alarms, keptBoard, listed, sel, fleetSel, expanded>>

(* Mutant: the section is shown on the page that is open. *)
BoardOpened(s) == UNCHANGED <<tab, astray>>

OpensBoard(s) == Opens(BoardPage(s))

(* handleDemoSwitchboardSectionChange *)
ToBoard(s) ==
  /\ board' = s /\ keptBoard' = s
  /\ OpensBoard(s)
  /\ alarms' = IF s = "alarms" THEN "dispatch" ELSE alarms
BoardSection(s) ==
  /\ Neural /\ ops
  /\ ToBoard(s)
  /\ UNCHANGED <<shell, asked, ops, stencil, keptStencil, listed, expanded>>
  /\ Selects(fleetSel, sel)

(* handleDemoAlarmsSectionChange *)
AlarmsSection(s) ==
  /\ Neural /\ tab = "ledger"
  /\ alarms' = s
  /\ UNCHANGED <<shell, asked, ops, tab, stencil, board, keptStencil, keptBoard, listed, sel,
                 fleetSel, expanded, astray>>

(* The devices of the assignment page: toggleNeuralOps, then the fleet. *)
OpenDevices ==
  /\ tab = "assign"
  /\ ops' = TRUE
  /\ ToBoard("fleet")
  /\ UNCHANGED <<shell, asked, stencil, keptStencil, listed, expanded>>
  /\ Selects(fleetSel, sel)

-----------------------------------------------------------------------------
(* PDUs that are selected in the neural shell.                              *)
ToFleet(p, t) ==
  /\ board' = "fleet" /\ keptBoard' = "fleet"
  /\ fleetSel' = p /\ sel' = p
  /\ Opens(t)

(* handleDemoSidebarPduSelect, from the devices beside the page. *)
SidebarShown == Neural /\ ~FleetSplit /\ tab # "assign"
SelectsFromSidebar(p) == ops' = TRUE /\ ToFleet(p, "telemetry")
SidebarSelect(p) ==
  /\ SidebarShown /\ p \in listed
  /\ SelectsFromSidebar(p)
  /\ UNCHANGED <<shell, asked, stencil, alarms, keptStencil, listed, expanded>>

(* handleNeuralSelectAlert and handleNeuralSelectPdu, from the panel of the  *)
(* overview.                                                                *)
PanelSelect(p, t) ==
  /\ NeuralLayout /\ p \in listed /\ t \in {"warnings", "telemetry"}
  /\ ToFleet(p, t)
  /\ UNCHANGED <<shell, asked, ops, stencil, alarms, keptStencil, listed, expanded>>

(* handleFleetSelectPdu *)
FleetSelect(p) ==
  /\ FleetSplit /\ p \in listed
  /\ fleetSel' = p /\ sel' = p
  /\ UNCHANGED <<shell, asked, ops, tab, sections, listed, expanded, astray>>

(* The tabs of the PDU that is selected. *)
FleetTab(t) ==
  /\ FleetSplit /\ fleetSel \in listed
  /\ Opens(t)
  /\ UNCHANGED <<shell, asked, ops, sections, listed, sel, fleetSel, expanded>>

(* onNavigateToPdu: a PDU of the hall view.  One that the filter of the list *)
(* hides is not found there.                                                *)
Navigate(p, hidden) ==
  /\ tab = "datahall"
  /\ IF Neural /\ ~hidden
     THEN /\ SelectsFromSidebar(p)
          /\ UNCHANGED <<stencil, alarms, keptStencil, expanded>>
     ELSE /\ expanded' = IF hidden THEN expanded ELSE p
          /\ sel' = IF NeuralLayout THEN p ELSE sel
          /\ tab' = IF NeuralLayout THEN "warnings" ELSE "telemetry"
          /\ astray' = IF Neural THEN "hidden" ELSE "no"
          /\ UNCHANGED <<ops, sections, fleetSel>>
  /\ UNCHANGED <<shell, asked, listed>>

-----------------------------------------------------------------------------
(* The plain shell: tiles and a tree.                                       *)
Tile(t) ==
  /\ ~Neural
  /\ Opens(t) /\ expanded' = None
  /\ UNCHANGED <<shell, asked, ops, sections, listed, sel, fleetSel>>

TreeClick(p) ==
  /\ ~Neural /\ p \in listed
  /\ IF expanded = p
     THEN expanded' = None /\ UNCHANGED <<sel, tab, astray>>
     ELSE expanded' = p /\ sel' = p /\ Opens("telemetry")
  /\ UNCHANGED <<shell, asked, ops, sections, listed, fleetSel>>

SubTab(t) ==
  /\ ~Neural /\ expanded \in listed
  /\ Opens(t)
  /\ UNCHANGED <<shell, asked, ops, sections, listed, sel, fleetSel, expanded>>

-----------------------------------------------------------------------------
(* fetchHallState.  Aloud, for a hall that was chosen or a PDU that was      *)
(* commissioned, it selects the first PDU, whichever was; silent, after a    *)
(* PDU was renamed, deleted or assigned, only an empty hall deselects.      *)
HallLoaded(ps, silent) ==
  /\ listed' = ps
  /\ expanded' = IF ps # {} /\ ~silent THEN Min(ps) ELSE expanded
  /\ UNCHANGED <<shell, asked, ops, tab, sections, astray>>
  /\ Selects(fleetSel, IF ps = {} THEN None ELSE IF silent THEN sel ELSE Min(ps))

HallFailed ==
  /\ listed' = {}
  /\ UNCHANGED <<shell, asked, ops, tab, sections, sel, fleetSel, expanded, astray>>

(* deletePdu closes its row before the hall is read again. *)
DeletePdu ==
  /\ ~Neural /\ expanded \in listed
  /\ expanded' = None
  /\ UNCHANGED <<shell, asked, ops, tab, sections, listed, sel, fleetSel, astray>>

NavNext ==
  \/ \E a \in {"neural", "plain", "failed"} : Detected(a)
  \/ \E on \in BOOLEAN : Primary(on)
  \/ \E s \in StencilSections : StencilSection(s)
  \/ \E s \in BoardSections : BoardSection(s)
  \/ \E s \in AlarmSections : AlarmsSection(s)
  \/ OpenDevices \/ HallFailed \/ DeletePdu
  \/ \E p \in PDUs :
       \/ SidebarSelect(p) \/ FleetSelect(p) \/ TreeClick(p)
       \/ \E t \in PduTabs : PanelSelect(p, t)
       \/ \E hidden \in BOOLEAN : Navigate(p, hidden)
  \/ \E t \in PduTabs : FleetTab(t) \/ SubTab(t)
  \/ \E t \in {"datahall", "assign", "ledger"} : Tile(t)
  \/ \E ps \in SUBSET PDUs, silent \in BOOLEAN : HallLoaded(ps, silent)
-----------------------------------------------------------------------------
(* The pages of each section: the fleet has a tab for each view of a PDU.   *)
Highlighted == IF ops THEN board ELSE stencil
Pages(s) ==
  CASE s = "fleet" -> PduTabs
    [] s \in BoardSections \ {"fleet"} -> {BoardPage(s)}
    [] OTHER -> {StencilPage(s)}

(* The page belongs to the section that the rail of the neural shell shows,  *)
(* by whatever way the operator came there, but for two cases in which the   *)
(* code leaves them apart: it was opened for a PDU of the hall view that the *)
(* filter of the list hides, or the operator came back to the assignment,    *)
(* which stays highlighted over the page of the hall.                       *)
BackAtAssign == astray = "back" /\ Highlighted = "assign" /\ tab = "datahall"
NavShown == Neural /\ astray # "hidden" => tab \in Pages(Highlighted) \/ BackAtAssign
=============================================================================
