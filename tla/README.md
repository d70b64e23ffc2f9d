# PDUMind in TLA+

Specifications of the parts of PDUMind where threads, devices, files, requests and
renders meet: the two pollers and what they leave in memory and in the database,
batch commissioning, the way from an alarm to a closed incident, and the pages of
the front end - dashboard, commissioning wizard, hall designer - with the requests
whose answers are late, lost or overtaken. TLC checks small instances, TLAPS proves
the theorems of section 5 for every value of the constants. `src/` is the
repository; line numbers are those of this revision.

## 1. The system

PDUMind is one Flask process (`backend/app.py`) with background threads, an SQLite
database, some JSON files and a React front end.

| Component | State | Operations | Talks to | What is hard |
|---|---|---|---|---|
| SNMP poll scheduler `polling/scheduler.py` | heap of jobs, `_active_polls`, worker pool | tick, dispatch, done-callback, add, trigger, stop, start | device state, adaptive poller | two locks, callbacks in worker threads, the gap between a future's end and its callback |
| Adaptive poller `polling/adaptive_poller.py` and routes of `app.py` | live results; PDU rows | add, delete, trigger a PDU; store telemetry | scheduler, database | rows and poller change in separate steps |
| Device state `polling/device_state.py` | state, failures, backoff, alarm per device; a row of each in SQLite | success, failure, restart | scheduler | saves that fail, restarts, three timers |
| Background HTTP poller and telemetry cache `app.py`, `telemetry_freshness.py` | `MULTI_PDU_RESULTS`, `_ERRORS`, `_SAMPLE`, poll schedule | poll, commit, patch outlets, force refresh, fan out to slaves | web clients, outlet monitor, database, live board | a commit reads a record other threads write; dictionaries are shared |
| Batch commissioning `app.py` `_run_batch_commission` | job, results, `master_apply_cache` | per PDU: connect, store login, write template, reboot, verify, store | devices, database, poller | partial failure, devices that change address and login under way |
| Incidents `demo/incidents.py` | `incidents.json` | create, acknowledge, resolve, finalize, three repairs | notifier, live board | steps under a lock, sequences that are not |
| Notifier and integrations `demo/integrations.py` | `integrations.json` | collect, dispatch, clear, suppress, escalate | cache, incidents, Telegram | one file under two locks, messages that fail |
| Dashboard shells `Dashboard2.jsx` | which page, section, PDU and tab | every control that navigates; the list of the hall | routes | several states that must tell one story |
| Outlet cards `Dashboard2.jsx` | optimistic switch, override | toggle, poll, expire | outlet routes | commands and reads of two PDUs that interleave |
| PDU settings `PDUSettingsPanel.jsx`, bulk reboot `PduBulkRebootModal.jsx` | forms, flags, the hold on the server | hold, release, read, save, reboot, ping | session routes | loops that go on while the PDU changes under the panel |
| Technician page `MobileIncidentPage.jsx`, `publicApi.js` | one incident | read, acknowledge, resolve | incidents, over two bases | a call repeated on a second base |
| Rack evidence `Dashboard2.jsx`, `utils/rackStatus.js`, `rackPower.js` | what is known of each PDU of the hall | live sweep, probe sweep, merge | live and probe routes | sweeps that overlap, PDUs that stay out |
| Commissioning wizard `CommissioningWizard.jsx` and its panels | tab, step, forms, plan, job, list | scan, connect, apply, ping, save; deploy, poll; inventory; repair | commissioning routes | partial failure, late answers, forms of another PDU |
| SNMP doctor `SnmpDoctorPanel.jsx` | job, one interval | start, poll, retry | doctor routes | two jobs at once, answers after the panel is closed |
| Hall designer `DataHallDesigner.jsx` | layout, current hall, guards, two timers | load, switch, edit, autosave, create, delete | hall and rack routes, the dashboard around it | effects, timers and answers in any order |
| 3D models `3d/ModelCache.js`; 3D toolkit `InstanceFactory.js`, `dispose.js`, debug overlay | cached prototypes, slots, reference counts | get, acquire, release, clear; add, remove, dispose | hall designer | a release while a load is in flight; counts kept in two places |

`PROJECT.json` lists the components that are not modelled as well; section 6 says why.

What should make each of them correct - sections 3 and 7 say how far the code keeps
it: *scheduler* - polls of a device do not overlap, a known device is never lost, one
job per device; *device state* - state, counter and
backoff agree, in memory and in the database; *cache* - a value shown is as old as
the payload says and a read is stored once; *batch* - what is reported as done can
be polled with the stored login, every PDU is accounted for; *incidents* - a live
alarm reaches somebody, an incident is closed by a technician and stays a single
one; *pages* - what is shown is true of the PDU, hall or incident it is shown of,
nothing is saved to another one, no button is disabled for ever; *3D* - what is
drawn is what was added, what is shared lives as long as it is used. The hazards
behind these are in `PROJECT.json`, each at its line, with the properties that cover
it or the reason none does.

## 2. Modules

| Module | Models | Built on |
|---|---|---|
| `PollScheduler` | the scheduler, one action per lock section | - |
| `AdaptivePoller` | PDU rows, routes and telemetry callback beside the scheduler | EXTENDS `PollScheduler` |
| `DeviceState` | one device's state machine and its saved row | - |
| `TelemetryCache` | one PDU's cache, sample record, polls and patches | - |
| `BatchCommission` | one job over a set of PDUs | - |
| `Incidents` | alarms, configuration, records, dispatchers, requests | - |
| `DashboardNav` | pages, sections, selections and the list of the hall | - |
| `OutletCard`, `SettingsPanel`, `BulkReboot` | the card, the settings and the dialog on these pages | EXTEND `DashboardNav` |
| `IncidentPage` | the technician's page | - |
| `Dashboard` | the five together | EXTENDS the four above |
| `PduEvidence` | background polls, both sweeps, what a rack shows | - |
| `WizardShell` | the tab, the step and `loading`, which the tabs share | - |
| `PduSetup`, `BatchSetup`, `GuidedInventory`, `RepairPanel` | the tabs of the wizard | EXTEND `WizardShell` |
| `SnmpDoctor` | the panel beside them, and its jobs | EXTENDS `WizardShell` |
| `Wizard` | the six together | EXTENDS the five above |
| `LatestRequest` | abstract: the page follows the latest request | - |
| `HallDesigner` | the designer | INSTANCE `LatestRequest` |
| `ModelCache` | the cache, as operators on a store | - |
| `RackModels` | hall model, racks and their effects over one store | EXTENDS `ModelCache` |
| `InstanceFactory`, `SharedResources`, `DebugPanel` | the parts of the 3D toolkit | - |
| `Scene3D` | the three behind one scene | EXTENDS them |
| `..._proofs` | theorems | the module named; `Wizard_proofs` also `BatchCommission`, `Scene3D_proofs` also `RackModels`, `Dashboard_proofs` also `Incidents` |
| `MC...` | instances for TLC | the module named |

An operator whose comment begins with "Mutant" is a plausible mistake in the
definition that follows it; nothing uses it. It shows which slip in the code the
property named in `PROJECT.json` would notice.

### Server

**PollScheduler.** `queue` is the heap, a set of jobs that are due or not; `older`
remembers in which order due jobs are popped. `poll` holds the futures and where
their callbacks are: a future is *finished* before `CallbackPop` takes its entry out
of `_active_polls`, `Record` calls the state manager, and `Reschedule` puts the
device back. A tick is `TickBegin`, `Collect` for each job under the queue lock,
`CollectEnd`, and for each job `Submit`, `Register`, `AddCallback`, because the code
holds no lock over these. `SubmitRaises` is a submit to an executor that `stop` has
shut down. `RequestAdd`, `RequestTrigger` and `RequestSchedule` are calls of other
threads. `start` begins the scheduler thread and then schedules every known device
beside it (`starting`, `ScheduleAll`), those with a job or a running poll once more:
so does `Init`, the first start, and `Start`, a later one.

**AdaptivePoller.** `AddPdu` writes the row and `AddPduDevice` tells the scheduler, or
fails to; `CreateRow` is any other route that makes a row and tells it nothing.
`DeletePdu`, `TriggerPdu` and `StoreTelemetry` are the other routes and the callback;
all else is the scheduler with `pdus` unchanged.

**DeviceState.** `Success` and `Failure` are `record_poll_success` and
`record_poll_failure` with the save at their end, which may fail; `Restart` reads
the row back; `Minute` lets the timers run.

**TelemetryCache.** A poll goes through `Begin`, `Skip` or `Unreachable`, attempts
with each login (`AttemptFails`, `ReadTelemetry`), perhaps `Repair`, `NoteFull` or
`GiveUp` (the sample record), `Commit` and `Finish` (the schedule and the stored
row). `Raise` and `TimeOut` are the two ways a poll is dropped. `FanOut...` is the
poll of a master that writes this PDU as its slave. Values are the number of the
read they come from. `res` and `shared` tell whether a poll holds a dictionary of
its own or the one in the cache, which patches change. `access` is how the PDU is read:
over the web, over SNMP, or by its master. A read may have collected nothing
(`Collected`): an empty answer of the console, or an SNMP read of which every object
failed, still makes a full sample.

**BatchCommission.** One action per step of `_run_batch_commission`, whose `pc` is
the step; `Error` is an exception in any of them. Slaves (`ConnectMaster`,
`ApplyViaMaster`, `StoreSlave`) use what the master's turn left in
`master_apply_cache`, or the master itself. `EndTwice` is a PDU whose sessions cannot
be released after it was counted, which the handler counts again; `Die` is an entry
that cannot be read, outside the `try` of each PDU, which ends the thread with the job
still running.

**Incidents.** Every change of `integrations.json` is a `Load` and a `Save` of the
thread whose list `writes` names it, because incidents.py and integrations.py guard
the file with different locks; changes of `incidents.json` are atomic, all under one
lock. A dispatcher begins (`Begin`) with the alarms notified, collects the live ones,
and either clears (`Find`, `MarkCleared`) or dispatches (`CheckSuppressed` ...
`Deliver`). A request acknowledges, resolves (`Resolve`, `Finalize`) or looks at the
live board (`ReopenPremature` ... `CloseSuperseded`).

### Front end

An action is an event handler together with the renders and effects it leads to,
as React runs them before the next event; where an effect awaits something, the rest
of it is an action of its own. A request is a record in a set (`gets`, `posts`,
`acts`, `reads`, `reqs`, `sweeps`) that carries what the closure captured: its
answer, its loss and what the server does with it are separate actions, so that
answers overtake each other. A definition `X` with the name of a control
(`RebootBanner`, `HallSelector`) is where the page renders that control, hence when
it can be used.

**DashboardNav, OutletCard, SettingsPanel, BulkReboot, IncidentPage, Dashboard.**
Every control that navigates is an action of `DashboardNav`; `HallLoaded` is the
answer of the hall's list. What another component does on such a step is a
definition that `Dashboard` conjoins to it: `Follows` (the card is mounted or shows
another PDU), `PanelFollows` (the session effect of the panel calls hold and
release), `BulkFollows` (the selection of the dialog is made again). `OutletCard`
has the relay of the device, the override of 35 s and the reads of two PDUs;
`SettingsPanel` the server's hold counters, the six saves and the ping loops;
`IncidentPage` both bases a call is tried on and whether the server had done it.

**PduEvidence.** `PollOk` and `PollFails` are the background poller, `Switch` the
device. A sample has a power state, which `RackStatus` reads, and the state its watts
were drawn in (`load`), of which `RackTotal` reads whether there are any; a poll may
lack either. A sweep asks each PDU (`LiveAnswered`, `ProbeAnswered`), some stay out, and
is applied (`ApplyLive`, `ApplyProbe`) unless the list it was begun for is gone.
`Merge` is `mergeDeviceEvidence`; `RackStatus` and `RackTotal` are what a rack shows,
its colour by the power states and its total by the readings.

**WizardShell ... Wizard.** `mode` is the tab, `step` the step and `loading` the flag
that `PduSetup` and `BatchSetup` share. A request under way is `task`, `batchTask`,
or a member of `reqs` and `repairReqs` where several may be; each is answered, is
refused, or fails, the device having done the thing or not. In the inventory `given`
is what a PDU did with its address: took it, or accepted it and failed to restart,
which is a failure of an NPDU and a success of a PDU with a console (`Suffices`). The
job of a batch runs on the server while `Poll`s of it overlap; it completes, dies
(`JobDies`) or is lost with the server (`JobLost`). Its plan is `Ordered`, the
code's `getOrderedBatchPdus`, which the preview shows (`OpenPreview`), changes
(`SortByIp`, `ResetOrder`, `MoveRow`) and the deployment takes. Sort and filter are
`Ascending` and `Only`, written without recursion so that theorems can be proved of
them; `MCWizard` has TLC compare them with `SetToSortSeq` and `SelectSeq`
(`ListsAssumption`).

**SnmpDoctor.** Each panel that was open has its interval (`timers`) and its `ref`;
answers come after the panel was closed as well (`DoctorStarted`, `JobSeen`).

**HallDesigner.** State of the page and refs of the same name; `posts` and `gets` are
requests; `Flush` is `flushSave`, `guard` stops the autosave while a load is under way
and is let go by a timer after the answer (`ReleaseGuard`). Four ways of saving exist:
the autosave, the flush of a switch, the flush of the parent's selection and the
cleanup. `Latest` instantiates `LatestRequest` with the hall asked for last and the
hall shown.

**ModelCache, RackModels.** `Start`, `Acquire`, `Release`, `LoadOk` and `LoadFails`
map a store to a store. `Commit` is a render of the hall that mounts, unmounts or
changes the model of racks; cleanups run before effects, and effects await loads.

**InstanceFactory, SharedResources, DebugPanel, Scene3D.** A slot is drawn with a
matrix or hidden; an upload copies the matrices to the GPU. Counts are taken by a
traversal of a clone at its creation and given back by another at its disposal; the
first disposal takes the textures off the materials, which all clones share
(`textured`).

## 3. Runs

| Run | Shows |
|---|---|
| `adaptive_quiet` | devices nobody adds or triggers: once the additions of `start` are over and one turn of a device is left, it stays one, and polls of it do not overlap (`QuietNoOverlap`); each is polled again and again (`QuietPolledAgain`) |
| `adaptive_pdus` | with routes, stop and start: one job per device (`AtMostOneJob`), live entries only (`ActiveEntryLive`), and, until the executor is shut down, no known device without a pending poll (`KnownDevicePending`) |
| `state` | state, failures, backoff and alarm agree through failing saves and restarts (`StatusSound`); alarm mode lasts (`StaysInAlarm`) |
| `cache` | until two polls of the PDU overlap: values shown as fresh are as old as the payload says (`LiveHonest`), a read is stored at most once and nothing but a read (`NoPromotion`), telemetry gives way to a newer read only (`LastValuesKept`) |
| `batch` | what is done is accepted by the device (`DoneAccepted`), stored logins work when stored (`OnlyWorkingLoginStored`), the job's thread ends, leaves no PDU half reported and no outcome uncounted, and counts only errors twice (`JobReported`) |
| `incidents` | closed means resolved by a technician (`ClosedByTechnician`), one fresh incident per alarm (`OneFreshIncident`); a live alarm is dispatched (`AlarmDispatched`), a resolved incident closed, but for a duplicate the repair skips after a restart (`ResolvedCloses`), through lost and torn updates, failed messages and a restart |
| `rack_models` | what the cache hands out is usable (`CacheUsable`), a late load does not replace the current model (`ShownIsCurrent`), no rack waits for ever (`Settles`) |
| `scene` | ids, slots, matrices and GPU agree up to a full factory (`FactorySound`); geometries and materials are counted once per use, textures until the first clone is disposed of (`CountsExact`) |
| `hall` | no save gives a hall the layout of another (`OwnConfig`), no autosave while a load is under way (`QuietWhileLoading`), a switch loses no edit (`SwitchSaves`), the page follows the latest request (`ShowsLatest`, the refinement) |
| `evidence` | the colour of a rack was true within the time of freshness (`ConfirmedIsRecent`), where a total is shown, every PDU of the rack has watts in it that it drew within that time (`TotalIsRecent`), nothing of another hall (`EvidenceOfHall`) |
| `dashboard` | the rail shows the section of the page, but in two cases named in the property (`NavShown`); holds are given back (`HoldsReturned`); flags end with what set them (`FlagsHaveOwners`, `BulkSound`); the technician is told the truth (`PageHonest`); a card comes to show the outlet, unless the answer kept for empty ones is older (`CardSettles`) |
| `wizard` | in remote mode an address is saved after the PDU took it (`SavedAfterApplied`), a batch covers its selection (`PlanComplete`), "done" was taken, or accepted by a console PDU that failed to restart (`DoneApplied`), flags have owners unless the batch is stuck (`FlagsOwned`), one interval of each panel of the doctor (`OnePoller`) |

## 4. Bounds and fairness

*Scheduler:* two devices where they compete for workers, one where requests, stop and
start interleave; two futures, the fewest that can overlap. In `adaptive_quiet` the
only calls of other threads are the additions of `start`: that calls for *other*
devices do not make a quiet one overlap is shown by the theorem alone, and that they
do not keep its turn from it is not shown; nor are saves that fail, which the runs of
the scheduler leave out (`SaveMayFail`). The batch size is one, so a tick may leave a
due job behind. *Device state:* the thresholds of the code, a backoff of two
doublings, a reading below and above each threshold. *Cache:* the background poll, one
forced poll and one patch, two reads of one PDU - a second read is needed for a stale
commit; PDUs share nothing. *Batch:* a master and two slaves, all sixteen templates,
every order, any entry unreadable; the order and the dependence of slaves on their
master are the interaction there is. *Incidents:* one alarm (records of different
alarms share only the file, whose torn and lost updates come from the other thread),
one dispatcher and one request, two records (an original and a duplicate), one
restart. Two dispatchers at once, which could deliver a message twice, are outside
this instance.

*Rack models:* two addresses, two racks and three loads: the model of now, the one
before and one that starts again after a release. *Scene:* a factory of two slots, two
transforms, two clones of two meshes that share a material and a texture; a full
factory and a resource with two users are the cases. *Hall:* two halls, one edit, two
requests in flight, halls symmetric; two loads that overtake each other beside a save
need no more. *Evidence:* two instances in one run. Deep: one polled PDU and one that
is not, in two halls, with sweeps of both kinds that overlap. Wide: a rack of two
polled PDUs, one live sweep at a time, one of the PDUs switched or read in part - the
case of a total with a PDU missing. Freshness of one unit and a clock of four, so that
a sample grows old and is renewed within the run. *Dashboard:* two PDUs; the operator
first navigates freely, then has four commands or changes of PDU at the outlets, or
three clicks in the settings, or the dialog; the page of a technician is beside the
first page, with which it shares nothing. Commands of the outlets and saves of the
settings do not interleave: they share no state but the selection. `DashSpec`, of the
theorems, has all of it at once. *Wizard:* the operator stays with one kind of work,
the inventory apart, which he leaves and comes back to; two addresses, two PDUs, two
targets, two requests, three jobs or panels of the doctor, of which two meet and one
comes late; two late polls of a batch, one of a batch that is stuck; only the PDU of
the first target accepts an address and fails to restart. Detecting and testing a
login change no list and are asked when nothing else is; the tab for a typed address
ends where it joins that for the factory address, at the device found. The parts of
the wizard share `mode`, `step` and `loading`; one that meets a request of another
still under way is possible in `Wizard` and left out of the instance. In the model
itself each part has one request at a time: a second batch or set-up, begun after a
late poll freed the buttons, is left out.

*Fairness.* Scheduler: its thread and the workers keep running, an SNMP poll ends by
its timeout; a job becomes due because time passes; a thread that waits for the
queue lock, held for one collection only, gets it. Batch: the job's thread goes on.
Incidents: threads go on with what they began; the notifier's loop runs every 12 s
and finds the configuration whole again and again; the live board is polled by the
page; a message tried again and again arrives. The last is an assumption about
Telegram, without which nothing could be promised. Rack models: React runs effects
and cleanups, a load ends or fails (the loader has its callbacks for both).
Dashboard: intervals and timeouts fire while the page is open; a request is answered
or fails; of the reads of the selected PDU not all fail - without it a card could
only show that it does not know. Safety runs state none.

`CHECK_DEADLOCK FALSE` is in the configurations of `batch`, where the job ends, and
`rack_models`, where the loads are used up.

## 5. Theorems

All are proved without assuming anything beyond the constants' ASSUMEs. Every
invariant and every action property of the runs has its theorem.

* `AdaptivePoller_proofs`, of the scheduler: `TypeCorrect`, `OneJobPerDevice`,
  `ActiveTableLive`, `NoDeviceForgotten`. The invariant is `SafeInv`: the type with
  the fields that go together (a future in use has a device, the tick has the future
  of its step), and the three properties, which need each other: an entry is live
  because its future still has its callback to come, and a device is pending because
  every way out of one place (heap, tick, future, call under way) leads into another.
  `QuietDevicesNeverOverlap` strengthens this by `OneTurn`: once a device outside
  `Requested` is in exactly one of those places, and `start` has no addition of it
  left, no step of any thread puts it in a second one. A trigger, or a start, does
  (section 7). Of the poller: `ImplementsScheduler`. Each step of the poller with its
  routes is a step or a stutter of the scheduler, so the scheduler's theorems carry
  over. Nothing is proved of rows: most routes that make one do not tell the poller.
* `DeviceState_proofs`: `TypeCorrect`, `StatusAlwaysSound`, `AlarmKept`. `IInv` says of
  the state in memory *and* of the saved row that they agree with themselves, the
  alarm state and its flag included, because a restart makes the row the state.
* `TelemetryCache_proofs`: `CacheTypeCorrect`, `LiveTelemetryHonest`,
  `NoCachedReadStored`, `TelemetryNeverOlder`, for any number of threads that poll and
  patch, until two polls of the PDU have overlapped (`crossed`); section 7 says what
  happens then. `ApartInv` says that up to that point one poll at most is under way and
  of it (`PollInv`) that a read it holds is newer than the cache and not stored, that
  the sample record at the commit is its own, that at the end its results are in the
  cache, and that the record is honest; none of the three is inductive without it.
* `HallDesigner_proofs`: `OwnConfiguration`, `AutosaveQuiet`, `SwitchNeverLoses`,
  `ImplementsLatest`. `HallInv` has one part for the page, the server, the saves and
  the loads each, and `LoadOK`: at most one load is the current one, it is of the hall
  asked for last, and the guard of the autosave is up until it is answered. The
  refinement of `LatestRequest` follows step by step, with an outdated answer a
  stutter.
* `Scene3D_proofs`: `InstancesDrawn`, `ResourcesCounted`, `TimerStops`. Each part has
  its invariant, kept by its own actions, and the scene their conjunction. That the
  counts are exact rests on lemmas about the number of uses: it changes by those of
  the one clone that is made or disposed of. Of textures it says so until the first
  disposal only.
  Of the racks, for any number of racks, addresses and loads: `RackTypes`,
  `CacheAlwaysUsable`, `RackShowsCurrent`. `CacheInv` says of the store
  that what it has for an address is an entry of that address which is usable;
  `RacksInv` adds that a rack whose effects have run waits for a load of the address
  the hall has now, or shows one, or has failed (`RackOK`), and that a rack cleaned up
  without being unmounted has its effect still to run - without that, a load given up
  would leave a rack that waits for nothing and shows nothing.
* `PduEvidence_proofs`: `EvidenceTypes`, `OnlyOfHall`, `ConfirmedAlways`,
  `TotalIsFresh`, for any number of sweeps and PDUs. `IInv` says that every sample -
  in the cache, in the answer of a sweep, in the evidence - was true of its PDU when
  it was taken or since, its watts as well as its power state, and that a sweep not
  cancelled is of the PDUs listed now. The total and the colour are proved each of its
  own values: that they agree is not claimed (section 7).
* `Dashboard_proofs`, of the dashboard with all its parts at once in any order:
  `PageOfSection`, `HoldsAccounted`, `FlagsOfPanel`, `DialogSound`. `NavInv` needs of
  the kept sections their type only, and of `astray` which of the two exceptions of
  `NavShown` the operator is in. `HoldsInv` numbers the calls to hold and to
  release by the click that made them, so that a new one is never one under way and
  each changes the counts by one; lemmas count them. `BulkInv` has one request and
  nothing selected in a closed dialog. And of the technician's page
  `PageAlwaysHonest`, which holds in the dashboard by `PageIsAlone`: `PageInv` says
  that the server takes nothing back, so that every answer under way, however old, is
  still true if it says that something was done, and that each button has at most one
  request.
* `Dashboard_proofs` has the incidents as well, for any alarms, records and threads:
  `IncidentTypes`, `IncidentsClosedByTechnician`, `OneIncidentPerAlarm`.
  An alarm is `Handled` once a technician acknowledged and resolved one of its records,
  which is for good. `IncidentsInv` says that every closed record is of a handled alarm
  and that two records of an alarm are never both unlogged (`RecordsOK`), and of each
  thread between its steps that what it is about to close or to clear is of a handled
  alarm (`ThreadOK`): between the step that looked and the step that closes, other
  threads run. The record found for an alarm exists because a set of numbers has a
  least one, proved by well-foundedness of `<`.
* `Wizard_proofs`: `AddressTakenFirst`, `DoneWasApplied`, `OneInterval`,
  `ButtonsOwned`, `PlanCoversSelection`, for requests of several parts under way at
  once, which the run leaves out. `SetupInv`: a save after a new address follows its
  acceptance, and while the last step is under way the PDU is neither saved nor
  commissioned. `InventoryInv`: every list shows done only what was given, those a
  handler under way will write included - lists overwrite each other, so nothing less
  is inductive. `DoctorInv` says that whatever belongs to a panel has its number, and
  that a number is not given again. `FlagInv` names the owner of each flag; `loading`
  has one in the set-up or in the batch. `PlanInv` says that neither the list of the
  scan nor the order that was set has a PDU twice, and that what is selected was found
  (`ListsOK`). It rests on lemmas about lists: `AscendingLists` (counting the numbers
  below each of a finite set is one-to-one onto 1, 2, ..., so sorting loses and
  repeats nothing), `OnlyLists`, `JoinedLists`, `RowMoved`.
* `Wizard_proofs` has the server's job of a batch too, for any number of PDUs, logins
  and addresses: `BatchTypeCorrect`, `DoneCanBePolled`, `OutcomesCounted`,
  `StoresWorkingLogins`. `BatchInv` says which PDU is worked on and that none is
  worked on twice (`JobInv`), what the settings of a device allow (`DeviceInv`), what
  is known of the host in work at each step - the connection it was reached with until
  the template changes it, the new one after - (`HostInv`), and of the cache a slave's
  turn reads that it tells the truth about its master. `OutcomesCounted` is the safety
  of `JobReported`: no outcome is uncounted, only errors count twice, and when the
  thread has ended no PDU is left at work and either all were taken or an entry that
  cannot be read stopped it.

Assumptions on constants that proofs need beside the types: sets of PDUs, hosts,
devices and addresses found are finite; `Nil`, the code's `None`, is no PDU and no
login (`NilAssumption`).

Only model-checked is liveness: `QuietPolledAgain`, that the thread of `JobReported`
ends, `AlarmDispatched`, `ResolvedCloses`, `Settles`, `CardSettles`. Its proof needs
ENABLED, which the prover cannot handle. The `TypeOK`s of modules without a theorem
about it were checked by TLC in the instances of the runs; they are not listed as
properties there.

## 6. Not modelled

* What an exchange with a device says (SNMP, CGI pages, MIBs), the layout of pages
  and reports, SQL: a call succeeds, fails or raises.
* *Outlet load monitor:* arithmetic on thresholds and debounce times. *Daisy-chain
  topology:* pure functions over a scan. *Web sessions:* the client table and the set
  of busy addresses of a batch (its effect, a connection that fails, is in
  `BatchCommission`); the hold counters are in `SettingsPanel`. *Guided
  commissioning, repair, doctor on the server:* one blocking sequence of device calls
  per request, which the pages see answered, refused or lost.
* *Simulator, replay, demo seed, hub, authentication, maintenance agent, hall report,
  installation:* no concurrency of their own worth a model. *Other pages of the front
  end:* fetch once and render.
* Within modelled parts: escalation of alarms, expiry of records after 72 h and the
  cut at 500; a process killed within the write of a JSON file; alarms derived from
  outlet readings; poll intervals and policies; charts, history and the assignment
  panel of the dashboard; the alarms of the evidence; closing the browser's tab with
  settings open; the rack step of a single PDU and the list of deploy progress in the
  wizard; gateways and learned policies of the SNMP doctor; a change of port or login of
  a PDU under its open settings; camera, cables and the geometry of objects in the
  designer; colours and statistics of the instance factory; models shared without
  counting (`CustomRackModel`).

## 7. Observed while modelling

None of this contradicts a property above; most is why a property is stated as it is,
with the exceptions it names.

*Server.* Two polls of one device can overlap when it is triggered between a future's
end and its callback (`scheduler.py` 273; the promise is at line 7), or when `start`
adds it a second time (`adaptive_poller.py` 142-150) while a tick or a poll has it. A
trigger during a poll is replaced by the job of the poll's end. PDUs whose rows
commissioning or an import makes are not polled over SNMP before the next start, and a
row stays when `add_device` raises after it (`app.py` 7621). `delete_pdu` calls
`remove_device`, which the poller does not have (`app.py` 7568): a deleted PDU is
polled for ever. `stop` waits 5 s for a loop that may take longer, and a `start` then
makes a second. With a forced refresh beside the background poll a cached result can
be stored as a new sample (`app.py` 652), hence `crossed`. An SNMP read of which every
object failed still has the alarm flags (`app.py` 1525), so that it counts as a full
sample, takes the last telemetry away and is stored, against what
`telemetry_freshness.py` says of failed reads. A poll that read before a toggle takes
its patch back (661). The error backoff of the HTTP poller never applies, as both
times are equal (1612). Outlet patches read without the client's lock after 8 s (1707)
and send messages while holding the cache lock (1733). A batch that fails after the
users section leaves a row with a login the device has given up (6402). A PDU is
counted twice when the release of its sessions raises after it was counted (6339,
6510, then 6618), and an exception outside the `try` of each PDU (6115-6128) leaves
the job running for ever. For a PDU with a console `guided-apply` answers success when
the restart failed (5238-5264), for an NPDU failure (5126). An alarm is freed before
it is suppressed when an incident is resolved, and a dispatch in between opens
another. A duplicate that was closed, reopened by the repair of the board, then
resolved, with a restart before it is finalized, is never closed: its entry in the
ledger makes `repair_stale_resolved_incidents` skip it (`incidents.py` 545).

*Hall designer.* `flushSave` ignores `readOnly`; a failed load of the parent's hall is
tried again at once, without end; a new hall is not told to the parent, whose effect
loads the old one again; the save of an unmount can be overtaken by the load of the
next mount; a failed `GET /api/halls` makes another default hall; a failed save is
not tried again; a model uploaded during a switch lands in the other hall; racks of
the hall before may stand under the displayed one until theirs arrive.

*3D toolkit.* `acquireResources` counts the textures of each clone, but disposing of
the first one takes them off the material the others share (`dispose.js` 217-226), so
that the others lose them and what they counted is never given back.
`CustomRackModel` shares the resources of its model without counting.

*Dashboard.* A list that is not silent selects the first PDU while the fleet page
keeps its own (418): the heading names one, the switches go to another. A PDU hidden
by the filter opens a blank page. Coming back from the switchboard, "Assign" stays
highlighted over the page of the hall (`Dashboard2.jsx` 312-317), where 321-329 opens
its own. Answers with nothing but zeros are shown but not kept for empty ones (793):
when the two alternate, a switch shows now the one, now the older state that was kept.
A rack may show a verified total beside the colour for unknown: `rackPower.js` reads
the power, `rackStatus.js` a state or a voltage. The status of a reboot in the settings
may be set by the loop of another. A release can overtake its hold, be lost, or never
be sent when the browser's tab is closed, and leaves the PDU held
(`PDUSettingsPanel.jsx` 138). Forms of one PDU stay under another until that is read.
The list read again selects every PDU in the reboot dialog, on its confirm page too.
On the technician's page an older answer shows the incident as not yet acknowledged.
A live alarm never reaches the evidence of a rack (`alarm` where `alarms` is read).

*Wizard.* A second scan in one tab leaves address, login and settings of the PDU
before, which the commission step may write to the new one (480). After the network
step moved a PDU, the commission step still asks the old address. A late poll puts an
older report over a newer one, and can report the end of a batch again: it goes back
to the report and enables buttons another request has disabled. The map of racks and
the order of the preview outlive a batch: after one preview the order is never empty
again, so that a later batch is planned in the order its scan ended in although "Sort
by IP" is ticked (696), and the PDUs get their names and addresses in that order
unless the operator resets it. The branch that keeps the order of the scan (705) is
never reached: the box can be cleared only in the preview, after the order was set. A
PDU whose console was found without a login to it (468-491) is saved under its new
address although nothing told the PDU, while the last page says that it will be
(3302-3306). A batch job that died, or that a restarted server no longer knows, is
asked for every 3 s for ever, and the buttons of the wizard stay disabled (767-771).

*SNMP doctor.* The button is enabled while its job is being started; the end of one of
two jobs clears the interval of the other, and so does a failed request, after which
the panel shows a job as running that it no longer asks for: the button stays disabled
until the panel is closed. An answer that comes after the panel was closed begins an
interval (`SnmpDoctorPanel.jsx` 115-116), which goes on until its job ends or a
request fails.
