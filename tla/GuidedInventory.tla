-------------------------- MODULE GuidedInventory --------------------------
(***************************************************************************)
(* The inventory tab of the wizard                                          *)
(* (src/frontend/src/components/CommissioningWizard.jsx): the PDUs of a     *)
(* list are plugged in one after the other and each is given an address of  *)
(* the list.  The list and its progress are kept in localStorage.           *)
(*                                                                          *)
(* A handler writes the list that it saw when it began, with its own entry  *)
(* changed, and not every button waits for the request under way.           *)
(***************************************************************************)
EXTENDS WizardShell, FiniteSets, FiniteSetsExt

CONSTANTS
  Targets,    \* the addresses of the list, in its order
  Lists,      \* the lists that are uploaded: sets of targets
  MaxReqs     \* a bound of the model: requests under way

ASSUME TargetsAssumption == Targets \subseteq Nat /\ \A l \in Lists : l \subseteq Targets

VARIABLES
  inv,        \* invTargets: the status of each, "none" when not in the list
  stored,     \* the same in localStorage
  busy,       \* invBusy
  unit,       \* invDetected: a factory PDU was found
  picked,     \* invSelectedIp
  reqs,       \* the requests under way
  given       \* what became of each address: "taken" by a PDU that restarted,
              \* "written" to one with a console that did not restart, or "none"

invVars == <<inv, stored, busy, unit, picked, reqs, given>>

Status == {"none", "pending", "done", "failed", "skipped"}
NoList == [t \in Targets |-> "none"]

InventoryInit ==
  /\ inv = NoList /\ stored = NoList
  /\ busy = FALSE /\ unit = FALSE /\ picked = None /\ reqs = {}
  /\ given = [t \in Targets |-> "none"]

(* invActive: the target picked, or the next of the list. *)
Waiting == {t \in Targets : inv[t] = "pending"}
Active == IF picked \in Waiting THEN picked ELSE IF Waiting = {} THEN None ELSE Min(Waiting)

(* The tab, with the card of the active target, whose buttons wait for the   *)
(* request under way, and the rows, of which only one waits.                *)
OnInventory == OnTab("inventory")
ActionCard == OnInventory /\ ~busy /\ Active # None
ListRow(t) == OnInventory /\ inv[t] # "none"
ConsoleReady == OnInventory /\ ~busy

(* updateInvTargets and persistInventory; a wizard that was closed has only *)
(* the second left.                                                         *)
Write(list, live) ==
  /\ stored' = list
  /\ inv' = IF live THEN list ELSE inv

(* setTargetStatus of a handler that saw this list. *)
With(list, t, status) == IF list[t] = "none" THEN list ELSE [list EXCEPT ![t] = status]

Request(r) ==
  /\ Cardinality(reqs) < MaxReqs
  /\ r \notin reqs
  /\ reqs' = reqs \cup {r}
  /\ busy' = TRUE
Answered(r) ==
  /\ reqs' = reqs \ {r}
  /\ busy' = IF r.live THEN FALSE ELSE busy
-----------------------------------------------------------------------------
(* The list: it can be replaced, cleared, picked from and redone at any     *)
(* time.                                                                    *)
Upload ==
  /\ OnInventory
  /\ Request([kind |-> "parse", live |-> TRUE])
  /\ UNCHANGED <<step, mode, loading, inv, stored, unit, picked, given>>

Parsed(r, ts) ==
  /\ r.kind = "parse"
  /\ Answered(r)
  /\ Write([t \in Targets |-> IF t \in ts THEN "pending" ELSE "none"], r.live)
  /\ UNCHANGED <<step, mode, loading, unit, picked, given>>

ClearList ==
  /\ OnInventory /\ inv # NoList
  /\ Write(NoList, TRUE)
  /\ unit' = FALSE
  /\ UNCHANGED <<step, mode, loading, busy, picked, reqs, given>>

Pick(t) ==
  /\ OnInventory /\ t \in Waiting
  /\ picked' = IF picked = t THEN None ELSE t
  /\ UNCHANGED <<step, mode, loading, inv, stored, busy, unit, reqs, given>>

Redo(t) ==
  /\ ListRow(t) /\ inv[t] # "pending"
  /\ Write(With(inv, t, "pending"), TRUE)
  /\ UNCHANGED <<step, mode, loading, busy, unit, picked, reqs, given>>

Skip ==
  /\ ActionCard
  /\ Write(With(inv, Active, "skipped"), TRUE)
  /\ picked' = None
  /\ UNCHANGED <<step, mode, loading, busy, unit, reqs, given>>

-----------------------------------------------------------------------------
(* detectFactoryPdu, testGuidedLogin: a PDU answers at the factory address. *)
Detect ==
  /\ ActionCard
  /\ Request([kind |-> "detect", live |-> TRUE])
  /\ unit' = FALSE
  /\ UNCHANGED <<step, mode, loading, inv, stored, picked, given>>
TestLogin ==
  /\ ActionCard
  /\ Request([kind |-> "test", live |-> TRUE])
  /\ UNCHANGED <<step, mode, loading, inv, stored, unit, picked, given>>

Detected(r) ==
  /\ r.kind = "detect"
  /\ Answered(r)
  /\ unit' = (unit \/ r.live)
  /\ UNCHANGED <<step, mode, loading, inv, stored, picked, given>>

(* A request without an effect on the list: a test, or one that failed.     *)
NothingCame(r) ==
  /\ r.kind \in {"parse", "detect", "test", "web"}
  /\ Answered(r)
  /\ UNCHANGED <<step, mode, loading, inv, stored, unit, picked, given>>

-----------------------------------------------------------------------------
(* applyGuidedTarget and guided-apply: the address of the target is written  *)
(* to the PDU, which takes it when it restarts; both may have been done when *)
(* the answer is a failure or does not arrive.                              *)
ApplyTarget ==
  /\ ActionCard /\ unit
  /\ Request([kind |-> "apply", of |-> Active, saw |-> inv, live |-> TRUE])
  /\ UNCHANGED <<step, mode, loading, inv, stored, unit, picked, given>>

(* Mutant: what was sent was done. *)
OutcomeSent(ok) == "done"

Outcome(ok) == IF ok THEN "done" ELSE "failed"

(* A PDU with a console has to accept the address, an NPDU to restart with   *)
(* it as well: what a success says.                                         *)
Suffices(npdu, written, restarted) == written /\ (npdu => restarted)

TargetAnswered(r, ok, npdu, written, restarted) ==
  /\ r.kind = "apply"
  /\ restarted => written
  /\ ok => Suffices(npdu, written, restarted)
  /\ Answered(r)
  /\ given' = [given EXCEPT ![r.of] =
                 IF restarted THEN "taken"
                 ELSE IF written /\ ~npdu /\ given[r.of] = "none" THEN "written"
                 ELSE given[r.of]]
  /\ Write(With(r.saw, r.of, Outcome(ok)), r.live)
  /\ IF ok /\ r.live THEN unit' = FALSE /\ picked' = None ELSE UNCHANGED <<unit, picked>>
  /\ UNCHANGED <<step, mode, loading>>

(* applyGuidedWeb: the console user of a PDU that has its address; the row  *)
(* keeps the status it had.                                                 *)
ApplyWeb(t) ==
  /\ ConsoleReady /\ ListRow(t)
  /\ Request([kind |-> "web", saw |-> inv, live |-> TRUE])
  /\ UNCHANGED <<step, mode, loading, inv, stored, unit, picked, given>>

WebApplied(r) ==
  /\ r.kind = "web"
  /\ Answered(r)
  /\ Write(r.saw, r.live)
  /\ UNCHANGED <<step, mode, loading, unit, picked, given>>

-----------------------------------------------------------------------------
(* The wizard is closed and opened again: what was under way and writes the *)
(* list goes on, the list is read from localStorage.                        *)
ReopenInventory ==
  /\ inv' = stored
  /\ busy' = FALSE /\ unit' = FALSE /\ picked' = None
  /\ reqs' = {[r EXCEPT !.live = FALSE] : r \in {q \in reqs : q.kind \notin {"detect", "test"}}}
  /\ UNCHANGED <<stored, given>>

InventoryAnswer ==
  \E r \in reqs :
    \/ \E ts \in Lists : Parsed(r, ts)
    \/ Detected(r) \/ NothingCame(r) \/ WebApplied(r)
    \/ \E ok, npdu, written, restarted \in BOOLEAN :
         TargetAnswered(r, ok, npdu, written, restarted)

InventoryUser ==
  \/ Upload \/ ClearList \/ Skip \/ Detect \/ TestLogin \/ ApplyTarget
  \/ \E t \in Targets : Pick(t) \/ Redo(t) \/ ApplyWeb(t)
-----------------------------------------------------------------------------
(* The types of the list's variables. *)
InventoryTypeOK ==
  /\ {inv, stored} \subseteq [Targets -> Status]
  /\ {busy, unit} \subseteq BOOLEAN
  /\ picked \in Targets \cup {None}
  /\ given \in [Targets -> {"none", "written", "taken"}]

(* A target that the list, or the one in localStorage, shows as done was      *)
(* taken by a PDU that restarted with it: lists overwrite each other, are     *)
(* replaced while a request is under way and read again, but none makes that *)
(* up.  The exception is a PDU with a console that accepted the address and  *)
(* failed to restart, which the server reports as a success, and as a        *)
(* failure of an NPDU.                                                      *)
DoneApplied ==
  \A t \in Targets : "done" \in {inv[t], stored[t]} => given[t] \in {"taken", "written"}
=============================================================================
