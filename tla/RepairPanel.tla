---------------------------- MODULE RepairPanel ----------------------------
(***************************************************************************)
(* The repair tab of the wizard                                             *)
(* (src/frontend/src/components/CommissioningWizard.jsx), which stores the  *)
(* login that works on each PDU of the hall.                                *)
(***************************************************************************)
EXTENDS WizardShell, FiniteSets

CONSTANT Units   \* the PDUs of the hall

VARIABLES
  units,      \* repairPdus
  marked,     \* repairSelected
  repairing,  \* repairLoading
  repairReqs, \* the requests under way
  repaired    \* the PDUs that repairResults shows as repaired

repairVars == <<units, marked, repairing, repairReqs, repaired>>

RepairInit ==
  units = {} /\ marked = {} /\ repairing = FALSE /\ repairReqs = {} /\ repaired = {}

(* The tab: the login to be stored, the rows, and the button for the marked. *)
OnRepair == OnTab("repair")
RepairForm == OnRepair /\ ~repairing
UnitRow(u) == OnRepair /\ u \in units
RunButton == RepairForm /\ marked # {}

Ask(r) == repairing' = TRUE /\ repairReqs' = repairReqs \cup {r}
Told(r) == r \in repairReqs /\ repairing' = FALSE /\ repairReqs' = repairReqs \ {r}

(* fetchRepairPdus, on request and by the effect that runs when the tab is   *)
(* entered.                                                                 *)
FetchUnits ==
  /\ RepairForm
  /\ Ask([kind |-> "list", keep |-> FALSE])
  /\ UNCHANGED <<step, mode, loading, units, marked, repaired>>
EntersRepair ==
  /\ IF OnRepair' /\ ~OnRepair
     THEN Ask([kind |-> "list", keep |-> FALSE])
     ELSE UNCHANGED <<repairing, repairReqs>>
  /\ UNCHANGED <<units, marked, repaired>>

UnitsListed(r) ==
  /\ r.kind = "list" /\ Told(r)
  /\ units' = Units
  /\ marked' = IF r.keep THEN marked ELSE Units
  /\ UNCHANGED <<step, mode, loading, repaired>>

(* toggleRepairPdu, and the button for all of them *)
Mark(ms) ==
  /\ OnRepair /\ units # {}
  /\ \/ \E u \in units : ms = (marked \ {u}) \cup ({u} \ marked)
     \/ ms = IF marked = units THEN {} ELSE units
  /\ marked' = ms
  /\ UNCHANGED <<step, mode, loading, units, repairing, repairReqs, repaired>>

(* testProbeLogin: the row says what came of it. *)
Probe(u) ==
  /\ UnitRow(u) /\ ~repairing
  /\ Ask([kind |-> "probe", of |-> {u}])
  /\ UNCHANGED <<step, mode, loading, units, marked, repaired>>

(* runRepairWebAccess, for one row or for those marked *)
Repair(us) ==
  /\ \/ RunButton /\ us = marked
     \/ \E u \in Units : UnitRow(u) /\ ~repairing /\ us = {u}
  /\ Ask([kind |-> "repair", of |-> us])
  /\ UNCHANGED <<step, mode, loading, units, marked, repaired>>

(* The results are shown and the list is read again, the marks are kept. *)
UnitsRepaired(r, ok) ==
  /\ r.kind = "repair" /\ ok \subseteq r.of
  /\ r \in repairReqs
  /\ repairReqs' = (repairReqs \ {r}) \cup {[kind |-> "list", keep |-> TRUE]}
  /\ repaired' = ok /\ repairing' = TRUE
  /\ UNCHANGED <<step, mode, loading, units, marked>>

RepairFailed(r) ==
  /\ Told(r)
  /\ UNCHANGED <<step, mode, loading, units, marked, repaired>>

RepairAnswer ==
  \E r \in repairReqs :
    UnitsListed(r) \/ RepairFailed(r) \/ \E ok \in SUBSET Units : UnitsRepaired(r, ok)

RepairUser ==
  \/ FetchUnits
  \/ \E u \in Units : Probe(u)
  \/ \E us \in SUBSET Units : Mark(us) \/ Repair(us)
=============================================================================
