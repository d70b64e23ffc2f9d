----------------------------- MODULE BatchSetup -----------------------------
(***************************************************************************)
(* The batch tab of the wizard                                              *)
(* (src/frontend/src/components/CommissioningWizard.jsx): a scan, the       *)
(* template, the plan that is confirmed, the job with its progress, its     *)
(* report, and the racks the PDUs go to.  The job itself is the server's,   *)
(* see BatchCommission.                                                     *)
(*                                                                          *)
(* PDUs are numbers in the order of their addresses.                        *)
(***************************************************************************)
EXTENDS WizardShell, Sequences, SequencesExt

CONSTANTS
  PDUs,
  Slots       \* positions of the racks

ASSUME PDUsAssumption == PDUs \subseteq Nat /\ IsFiniteSet(PDUs)

VARIABLES
  batchStep,  \* "scan", "template", "deploy", "report" or "racks"
  devices,    \* batchDevices, as the scan returned them
  selected,   \* batchSelected
  byIp,       \* batchSortByIp
  order,      \* batchOrder
  preview,    \* batchPreviewOpen
  batchTask,  \* the request under way
  job,        \* the server's job that is polled: None, "running", "completed",
              \* "dead" when its thread is, "lost" when the server has it no more
  polls,      \* what the polls under way will bring; several may bring the same
  progress,   \* batchProgress is not null
  rackMap,    \* batchRackMap: the slot of each PDU that has one
  dragged     \* dragPdu

batchVars == <<batchStep, devices, selected, byIp, order, preview, batchTask, job, polls,
               progress, rackMap, dragged>>

NoBatchTask == [kind |-> "none"]
NoSlot == [p \in {} |-> None]

BatchInit ==
  /\ batchStep = "scan" /\ devices = <<>> /\ selected = {} /\ byIp = TRUE /\ order = <<>>
  /\ preview = FALSE /\ batchTask = NoBatchTask /\ job = None /\ polls = {}
  /\ progress = FALSE /\ rackMap = NoSlot /\ dragged = None

OnStep(s) == OnTab("batch") /\ batchStep = s /\ ~preview

(* One request at a time: a second one, begun after a late poll has enabled  *)
(* the buttons, is left out.                                                *)
BatchBegin(t) == ~loading /\ batchTask = NoBatchTask /\ loading' = TRUE /\ batchTask' = t
BatchEnd == loading' = FALSE /\ batchTask' = NoBatchTask
-----------------------------------------------------------------------------
(* The scan.                                                                *)
ScanForm == OnStep("scan") /\ ~loading
FoundDevices == OnStep("scan") /\ devices # <<>>

BatchScan ==
  /\ ScanForm
  /\ BatchBegin([kind |-> "scan"])
  /\ devices' = <<>> /\ selected' = {}
  /\ UNCHANGED <<step, mode, batchStep, byIp, order, preview, job, polls, progress, rackMap,
                 dragged>>

(* The devices come back with what their consoles told, in any order, and   *)
(* all are selected.                                                        *)
BatchFound(ds) ==
  /\ batchTask.kind = "scan"
  /\ devices' = ds /\ selected' = Range(ds)
  /\ BatchEnd
  /\ UNCHANGED <<step, mode, batchStep, byIp, order, preview, job, polls, progress, rackMap,
                 dragged>>

(* toggleBatchDevice, and the button for all. *)
Choose(ds) ==
  /\ FoundDevices
  /\ \/ \E d \in Range(devices) : ds = (selected \ {d}) \cup ({d} \ selected)
     \/ ds = IF selected = Range(devices) THEN {} ELSE Range(devices)
  /\ selected' = ds
  /\ UNCHANGED <<step, mode, loading, batchStep, devices, byIp, order, preview, batchTask,
                 job, polls, progress, rackMap, dragged>>

ToTemplate ==
  /\ FoundDevices /\ selected # {}
  /\ batchStep' = "template"
  /\ UNCHANGED <<step, mode, loading, devices, selected, byIp, order, preview, batchTask, job,
                 polls, progress, rackMap, dragged>>
(* The template, whose fields have no say in which PDUs are in the plan.     *)
TemplateForm == OnStep("template")
TemplateNamed == TemplateForm /\ selected # {}
TemplateReady == TemplateNamed /\ ~loading

ToScan ==
  /\ TemplateForm
  /\ batchStep' = "scan"
  /\ UNCHANGED <<step, mode, loading, devices, selected, byIp, order, preview, batchTask, job,
                 polls, progress, rackMap, dragged>>

-----------------------------------------------------------------------------
(* The plan: the numbers of a set in ascending order, and the entries of a   *)
(* list that are in a set, in the order of the list.                        *)
Ascending(S) ==
  [k \in 1 .. Cardinality(S) |-> CHOOSE n \in S : Cardinality({m \in S : m <= n}) = k]

Only(list, S) ==
  LET places == Ascending({i \in DOMAIN list : list[i] \in S})
  IN  [k \in DOMAIN places |-> list[places[k]]]

InOrderOfScan == Only(devices, selected)
InOrderOfIp == Ascending(selected)
Kept == Only(order, selected)

(* Mutant: an order that was set once is the order. *)
OrderedKept ==
  IF order # <<>> THEN Kept ELSE IF byIp THEN InOrderOfIp ELSE InOrderOfScan

(* getOrderedBatchPdus: an order once set counts for the PDUs that are in   *)
(* it, the others follow.                                                   *)
Ordered ==
  IF order # <<>> THEN Kept \o Only(devices, selected \ Range(order))
  ELSE IF byIp THEN InOrderOfIp ELSE InOrderOfScan

OpenPreview ==
  /\ TemplateReady
  /\ order' = Ordered
  /\ preview' = TRUE
  /\ UNCHANGED <<step, mode, loading, batchStep, devices, selected, byIp, batchTask, job,
                 polls, progress, rackMap, dragged>>
PreviewRows == preview /\ order # <<>>

ClosePreview ==
  /\ preview
  /\ preview' = FALSE
  /\ UNCHANGED <<step, mode, loading, batchStep, devices, selected, byIp, order, batchTask,
                 job, polls, progress, rackMap, dragged>>

(* The box that sorts sorts at once when it is set; without it the order     *)
(* stays, and the reset begins with what the scan returned.                 *)
SortByIp ==
  /\ preview
  /\ byIp' = ~byIp
  /\ order' = IF byIp' THEN Ascending(Range(Ordered)) ELSE order
  /\ UNCHANGED <<step, mode, loading, batchStep, devices, selected, preview, batchTask, job,
                 polls, progress, rackMap, dragged>>

ResetOrder ==
  /\ preview
  /\ byIp' = TRUE
  /\ order' = Ascending(Range(InOrderOfScan))
  /\ UNCHANGED <<step, mode, loading, batchStep, devices, selected, preview, batchTask, job,
                 polls, progress, rackMap, dragged>>

(* moveBatchRow: the row is taken out and put in again, one up or down. *)
MoveRow(i, j) ==
  /\ PreviewRows
  /\ order' = InsertAt(RemoveAt(order, i), j, order[i])
  /\ UNCHANGED <<step, mode, loading, batchStep, devices, selected, byIp, preview, batchTask,
                 job, polls, progress, rackMap, dragged>>

(* batchDeploy *)
DeployButton == preview /\ ~loading /\ selected # {}
Deploy ==
  /\ DeployButton
  /\ BatchBegin([kind |-> "deploy", plan |-> Ordered, of |-> selected])
  /\ preview' = FALSE
  /\ UNCHANGED <<step, mode, batchStep, devices, selected, byIp, order, job, polls, progress,
                 rackMap, dragged>>
-----------------------------------------------------------------------------
(* The job.  The wizard waits for it with loading set.                      *)
Started ==
  /\ batchTask.kind = "deploy"
  /\ batchTask' = NoBatchTask
  /\ job' = "running" /\ batchStep' = "deploy"
  /\ UNCHANGED <<step, mode, loading, devices, selected, byIp, order, preview, polls, progress,
                 rackMap, dragged>>

JobBecomes(status) ==
  /\ job' = status
  /\ UNCHANGED <<step, mode, loading, batchStep, devices, selected, byIp, order, preview,
                 batchTask, polls, progress, rackMap, dragged>>

(* _run_batch_commission ends, or an exception ends its thread: the job is   *)
(* then running for ever.  The jobs are in the memory of the server, which   *)
(* restarts.                                                                *)
JobCompletes == job = "running" /\ JobBecomes("completed")
JobDies == job = "running" /\ JobBecomes("dead")
JobLost == job \notin {None, "lost"} /\ JobBecomes("lost")

(* batch_commission_status, every 3 s; the interval goes on while the polls   *)
(* before it are under way.                                                 *)
JobStatus == IF job = "dead" THEN "running" ELSE job
Poll ==
  /\ job # None
  /\ polls' = polls \cup {JobStatus}
  /\ UNCHANGED <<step, mode, loading, batchStep, devices, selected, byIp, order, preview,
                 batchTask, job, progress, rackMap, dragged>>
PollLost(status) ==
  /\ status \in polls
  /\ polls' = polls \ {status}
  /\ UNCHANGED <<step, mode, loading, batchStep, devices, selected, byIp, order, preview,
                 batchTask, job, progress, rackMap, dragged>>

(* Mutant: the report is shown, the buttons stay disabled. *)
ShownOnly == batchStep' = "report" /\ UNCHANGED loading

(* The answer with the end of the job ends its polling; other polls under   *)
(* way then may still show an older progress, or report the end again, even *)
(* of a job before the one that runs by then.  No other answer ends it, not  *)
(* that the job is not found; of a lost one it may be known that it ended.   *)
Reported == batchStep' = "report" /\ loading' = FALSE

PollAnswered(status) ==
  /\ status \in polls
  /\ polls' \in {polls, polls \ {status}}
  /\ progress' = TRUE
  /\ IF status = "completed"
     THEN Reported /\ job' \in IF job = "completed" THEN {None}
                               ELSE IF job = "lost" THEN {None, job} ELSE {job}
     ELSE UNCHANGED <<loading, batchStep, job>>
  /\ UNCHANGED <<step, mode, devices, selected, byIp, order, preview, batchTask, rackMap,
                 dragged>>

-----------------------------------------------------------------------------
(* The report and the racks.                                                *)
ReportShown == OnStep("report") /\ progress
RacksShown == OnStep("racks") /\ progress
Cleared == batchStep' = "scan" /\ devices' = <<>> /\ selected' = {} /\ progress' = FALSE

(* "New Batch" keeps the racks that were chosen, "Skip" does not. *)
NewBatch ==
  /\ ReportShown
  /\ Cleared
  /\ UNCHANGED <<step, mode, loading, byIp, order, preview, batchTask, job, polls, rackMap,
                 dragged>>
SkipRacks ==
  /\ RacksShown
  /\ Cleared /\ rackMap' = NoSlot /\ dragged' = None
  /\ UNCHANGED <<step, mode, loading, byIp, order, preview, batchTask, job, polls>>

ToRacks ==
  /\ ReportShown
  /\ batchStep' = "racks"
  /\ UNCHANGED <<step, mode, loading, devices, selected, byIp, order, preview, batchTask, job,
                 polls, progress, rackMap, dragged>>
ToReport ==
  /\ RacksShown
  /\ batchStep' = "report"
  /\ UNCHANGED <<step, mode, loading, devices, selected, byIp, order, preview, batchTask, job,
                 polls, progress, rackMap, dragged>>

(* The PDUs of the job, which the list of the left shows. *)
PduList == RacksShown /\ selected # {}
Drag(d) ==
  /\ PduList /\ d \in selected
  /\ dragged' = IF dragged = d THEN None ELSE d
  /\ UNCHANGED <<step, mode, loading, batchStep, devices, selected, byIp, order, preview,
                 batchTask, job, polls, progress, rackMap>>

(* A slot that another PDU of the batch has offers to take it out only. *)
FreeSlot(s) == \A d \in DOMAIN rackMap : rackMap[d] # s

PutInSlot(s) ==
  /\ RacksShown
  /\ dragged # None /\ dragged \notin DOMAIN rackMap /\ FreeSlot(s)
  /\ rackMap' = rackMap @@ (dragged :> s)
  /\ dragged' = None
  /\ UNCHANGED <<step, mode, loading, batchStep, devices, selected, byIp, order, preview,
                 batchTask, job, polls, progress>>
TakeOut(d) ==
  /\ RacksShown /\ d \in DOMAIN rackMap
  /\ rackMap' = [e \in DOMAIN rackMap \ {d} |-> rackMap[e]]
  /\ UNCHANGED <<step, mode, loading, batchStep, devices, selected, byIp, order, preview,
                 batchTask, job, polls, progress, dragged>>

(* saveBatchRackAssignments *)
SaveButton == RacksShown /\ ~loading /\ rackMap # NoSlot
SaveRacks ==
  /\ SaveButton
  /\ BatchBegin([kind |-> "racks", slots |-> rackMap])
  /\ UNCHANGED <<step, mode, batchStep, devices, selected, byIp, order, preview, job, polls,
                 progress, rackMap, dragged>>
RacksSaved ==
  /\ batchTask.kind = "racks"
  /\ BatchEnd
  /\ Cleared /\ rackMap' = NoSlot
  /\ UNCHANGED <<step, mode, byIp, order, preview, job, polls, dragged>>

(* resetDemoForCommissioning, a button of the scan in the demo; the order    *)
(* that was set stays.                                                      *)
DemoReset ==
  /\ ScanForm
  /\ BatchBegin([kind |-> "reset"])
  /\ UNCHANGED <<step, mode, batchStep, devices, selected, byIp, order, preview, job, polls,
                 progress, rackMap, dragged>>
DemoWasReset ==
  /\ batchTask.kind = "reset"
  /\ BatchEnd
  /\ Cleared /\ rackMap' = NoSlot
  /\ UNCHANGED <<step, mode, byIp, order, preview, job, polls, dragged>>

BatchFailed ==
  /\ batchTask.kind \in {"scan", "deploy", "racks", "reset"}
  /\ BatchEnd
  /\ UNCHANGED <<step, mode, batchStep, devices, selected, byIp, order, preview, job, polls,
                 progress, rackMap, dragged>>
-----------------------------------------------------------------------------
Scans == {ds \in UNION {[1 .. n -> PDUs] : n \in 1 .. Cardinality(PDUs)} : IsInjective(ds)}

BatchAnswer ==
  \/ \E ds \in Scans : BatchFound(ds)
  \/ Started \/ RacksSaved \/ DemoWasReset \/ BatchFailed

BatchServer ==
  \/ JobCompletes \/ JobDies \/ JobLost \/ Poll
  \/ \E s \in polls : PollLost(s) \/ PollAnswered(s)

BatchUser ==
  \/ BatchScan \/ ToTemplate \/ ToScan \/ OpenPreview \/ ClosePreview \/ Deploy
  \/ SortByIp \/ ResetOrder
  \/ DemoReset \/ NewBatch \/ SkipRacks \/ ToRacks \/ ToReport \/ SaveRacks
  \/ \E ds \in SUBSET PDUs : Choose(ds)
  \/ \E i, j \in DOMAIN order : j \in {i - 1, i + 1} /\ MoveRow(i, j)
  \/ \E d \in PDUs : Drag(d) \/ TakeOut(d)
  \/ \E s \in Slots : PutInSlot(s)
-----------------------------------------------------------------------------
(* What is deployed is every PDU that is selected, once, whatever orders    *)
(* earlier scans left behind: the plan pairs PDUs and addresses by place.   *)
PlanComplete ==
  batchTask.kind = "deploy" =>
    Range(batchTask.plan) = batchTask.of /\ IsInjective(batchTask.plan)

=============================================================================
