------------------------------- MODULE Wizard -------------------------------
(***************************************************************************)
(* The commissioning wizard                                                 *)
(* (src/frontend/src/components/CommissioningWizard.jsx) as a whole: its    *)
(* tabs share the step and loading, and their requests go on when the tab   *)
(* is left.                                                                 *)
(***************************************************************************)
EXTENDS PduSetup, BatchSetup, GuidedInventory, RepairPanel, SnmpDoctor

wizardVars == <<shellVars, setupVars, batchVars, invVars, repairVars, doctorVars>>

(* The demo account starts with the batch. *)
StartModes == {"factory", "batch"}

WizardInit ==
  /\ step = 0 /\ mode \in StartModes /\ loading = FALSE
  /\ SetupInit /\ BatchInit /\ InventoryInit /\ RepairInit /\ DoctorInit

(* The wizard is closed and opened again.  Closing it with a request of the *)
(* setup or the batch under way is left out.                                *)
Reopen ==
  /\ task = NoTask /\ batchTask = NoBatchTask /\ job = None /\ repairReqs = {}
  /\ step' = 0 /\ mode' \in StartModes /\ loading' = FALSE
  /\ ReopenInventory /\ EntersDoctor
  /\ UNCHANGED <<setupVars, batchVars, repairVars>>

WizardUser ==
  \/ SetupUser /\ EntersRepair /\ EntersDoctor /\ UNCHANGED <<batchVars, invVars>>
  \/ BatchUser /\ UNCHANGED <<setupVars, invVars, repairVars, doctorVars>>
  \/ InventoryUser /\ UNCHANGED <<setupVars, batchVars, repairVars, doctorVars>>
  \/ RepairUser /\ UNCHANGED <<setupVars, batchVars, invVars, doctorVars>>
  \/ Reopen

(* Answers to the wizard's requests: each arrives or fails. *)
SetupStep == SetupAnswer /\ UNCHANGED <<batchVars, invVars, repairVars, doctorVars>>
BatchStep == BatchAnswer /\ UNCHANGED <<setupVars, invVars, repairVars, doctorVars>>
InventoryStep == InventoryAnswer /\ UNCHANGED <<setupVars, batchVars, repairVars, doctorVars>>
RepairStep == RepairAnswer /\ UNCHANGED <<setupVars, batchVars, invVars, doctorVars>>

(* The timers: of a PDU that reboots, and of the job of the batch.          *)
PingStep == (\E s \in {"online", "failed"} : PingEnds(s)) /\ UNCHANGED <<batchVars, invVars, repairVars, doctorVars>>
ServerStep == BatchServer /\ UNCHANGED <<setupVars, invVars, repairVars, doctorVars>>

(* The SNMP doctor, its operator included. *)
DoctorStep == DoctorNext /\ UNCHANGED <<setupVars, batchVars, invVars, repairVars>>

WizardNext ==
  \/ WizardUser
  \/ SetupStep \/ BatchStep \/ InventoryStep \/ RepairStep \/ PingStep \/ ServerStep
  \/ DoctorStep

WizardSpec == WizardInit /\ [][WizardNext]_wizardVars
-----------------------------------------------------------------------------
(* The buttons of a part are disabled only while something is under way      *)
(* that will enable them again, its failure included: a request, or a job of *)
(* the batch that runs.  Not those of a batch whose job died or was lost,    *)
(* which is asked for ever, nor that of the SNMP doctor.                     *)
BatchStuck == job \in {"dead", "lost"}
FlagsOwned ==
  /\ loading => \/ task # NoTask \/ batchTask # NoBatchTask
                \/ job \in {"running", "completed"} \/ BatchStuck
  /\ busy => \E r \in reqs : r.live
  /\ repairing => repairReqs # {}
=============================================================================
