------------------------------ MODULE MCWizard ------------------------------
(* The operator stays with one kind of work, but for the inventory, which   *)
(* the wizard is closed on and comes back to: the parts share the step and  *)
(* loading, but are not interleaved with each other; nor are the inventory   *)
(* and the SNMP doctor beside it.                                           *)
EXTENDS Wizard

(* Ascending and Only are what sort and filter of the code return.          *)
ASSUME ListsAssumption ==
  \A S \in SUBSET (1 .. 4) :
    /\ Ascending(S) = SetToSortSeq(S, <)
    /\ \A list \in UNION {[1 .. n -> 1 .. 4] : n \in 0 .. 3} :
         Only(list, S) = SelectSeq(list, LAMBDA d : d \in S)

Family(m) == IF m \in SetupTabs THEN "setup" ELSE m
Untouched == mode = "factory" /\ step = 0 /\ SetupInit /\ ~loading

(* What leaves the list alone is asked when nothing else is, only the PDU of  *)
(* the first target does not restart, a device found at a typed address,    *)
(* like one at the factory address, ends there, and of the three answers     *)
(* about a job two are late at once, of a job that is stuck one.            *)
Asks == \E r \in reqs : r.kind \in {"detect", "test"}
Bounds ==
  /\ (Asks => Cardinality(reqs) = 1) /\ given[2] # "written"
  /\ (mode = "manual" => step = 0)
  /\ Cardinality(polls) <= IF BatchStuck THEN 1 ELSE 2

MCNext ==
  /\ WizardNext
  /\ Bounds'
  /\ (DoctorInit \/ (InventoryInit /\ SetupInit /\ RepairInit /\ mode \in {"inventory", "factory"}))'
  /\ \/ Family(mode') = Family(mode) /\ (mode = "inventory" \/ InventoryInit)
     \/ mode = "inventory" /\ mode' = "factory"
     \/ Untouched /\ (InventoryInit \/ mode' = "inventory")
MCSpec == WizardInit /\ [][MCNext]_wizardVars
=============================================================================
