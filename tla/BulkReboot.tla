----------------------------- MODULE BulkReboot -----------------------------
(***************************************************************************)
(* The dialog that reboots PDUs of the hall one after the other             *)
(* (src/frontend/src/components/PduBulkRebootModal.jsx), over the list of    *)
(* the plain shell of the dashboard.  When the list is read again under it,  *)
(* all PDUs that can be rebooted are selected again, in whichever phase.    *)
(***************************************************************************)
EXTENDS SettingsPanel

VARIABLES
  phase,      \* "closed" or the phase
  selected,
  reboots     \* requests under way

bulkVars == <<phase, selected, reboots>>

Phases == {"closed", "select", "confirm", "running", "done"}

BulkInit == phase = "closed" /\ selected = {} /\ reboots = {}

(* hasWebCredentials *)
Rebootable(ps) == ps \cap WithLogin

Shut == phase' = "closed" /\ selected' = {}

BulkOpen ==
  /\ ~Neural /\ phase = "closed" /\ listed # {}
  /\ phase' = "select" /\ selected' = Rebootable(listed)
  /\ UNCHANGED reboots

(* togglePdu, selectAll and deselectAll *)
Select(ps) ==
  /\ phase = "select"
  /\ \/ \E p \in Rebootable(listed) : ps = (selected \ {p}) \cup ({p} \ selected)
     \/ ps \in {Rebootable(listed), {}}
  /\ selected' = ps
  /\ UNCHANGED <<phase, reboots>>

Continue ==
  /\ phase = "select" /\ selected # {}
  /\ phase' = "confirm"
  /\ UNCHANGED <<selected, reboots>>
Back ==
  /\ phase = "confirm"
  /\ phase' = "select"
  /\ UNCHANGED <<selected, reboots>>
Close ==
  /\ phase \in {"select", "confirm", "done"}
  /\ Shut
  /\ UNCHANGED reboots

(* runReboot: the server takes what is selected by then. *)
RunReboot ==
  /\ phase = "confirm"
  /\ phase' = "running"
  /\ reboots' = reboots \cup {selected}
  /\ UNCHANGED selected

(* The answer: the list is read again.  A failure goes back to the question, *)
(* whether or not the PDUs were rebooted.                                   *)
Rebooted(ps, ok) ==
  /\ ps \in reboots /\ (ok => ps # {})
  /\ reboots' = reboots \ {ps}
  /\ phase' = IF ok THEN "done" ELSE "confirm"
  /\ UNCHANGED selected

(* Mutant: the selection is made once, when the dialog is opened. *)
SelectionKept == UNCHANGED selected

SelectsAgain == selected' = IF phase = "closed" THEN selected ELSE Rebootable(listed')

BulkNext ==
  \/ BulkOpen \/ Continue \/ Back \/ Close \/ RunReboot
  \/ \E ps \in SUBSET PDUs : Select(ps)
  \/ \E ps \in reboots, ok \in BOOLEAN : Rebooted(ps, ok)

(* The list is read again under the dialog. *)
BulkFollows == SelectsAgain /\ UNCHANGED <<phase, reboots>>
-----------------------------------------------------------------------------
(* While the dialog says that it reboots, and cannot be closed, a request    *)
(* is under way; and it asks about PDUs only that it can still reboot: of    *)
(* the list as it is now and with a login.                                  *)
BulkSound ==
  /\ (phase = "running") = (reboots # {})
  /\ selected \subseteq Rebootable(listed)
=============================================================================
