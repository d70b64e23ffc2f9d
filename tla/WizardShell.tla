---------------------------- MODULE WizardShell ----------------------------
(***************************************************************************)
(* What the parts of the commissioning wizard share                        *)
(* (src/frontend/src/components/CommissioningWizard.jsx): the step, the tab *)
(* of the first step, and the one flag that disables the buttons of a      *)
(* request under way.  PduSetup, BatchSetup, GuidedInventory and RepairPanel*)
(* are its parts, Wizard is the whole.                                     *)
(***************************************************************************)
EXTENDS Naturals

CONSTANT None

ASSUME NoneAssumption == None \notin {"running", "completed", "dead", "lost"}

VARIABLES
  step,     \* of STEPS, from 0
  mode,     \* scanMode
  loading

shellVars == <<step, mode, loading>>

SetupTabs == {"factory", "manual", "subnet", "remote"}
Modes == SetupTabs \cup {"inventory", "repair", "batch"}

(* The types of what the parts share. *)
ShellTypeOK == step \in 0 .. 3 /\ mode \in Modes /\ loading \in BOOLEAN

(* The body of the first step shows the tab; the batch has no footer, so    *)
(* that its steps are its own.                                              *)
OnTab(m) == step = 0 /\ mode = m
HasFooter == mode # "batch"
=============================================================================
