--------------------------- MODULE PollScheduler ---------------------------
(***************************************************************************)
(* The SNMP poll scheduler of the backend (src/backend/polling/            *)
(* scheduler.py): a queue of poll jobs ordered by the time they are due,   *)
(* one scheduler thread that moves due jobs to a thread pool, the futures  *)
(* of the running polls, and the done-callback of every future, which      *)
(* records the outcome and puts the device back into the queue.            *)
(*                                                                         *)
(* Time is abstracted to what the scheduler reads of it: whether a job is  *)
(* due, and which of two due jobs became due first (the heap pops the      *)
(* earliest).  While the scheduler thread holds the queue lock no other    *)
(* thread takes a step that needs it; statements outside a common lock     *)
(* are separate actions.                                                   *)
(***************************************************************************)
EXTENDS Naturals, FiniteSets

CONSTANTS
  Devices,        \* the IP addresses the poller may be told about
  Polls,          \* identities of futures; bounds the polls outstanding at once
  None,           \* "no future" and "no device"
  MaxWorkers,     \* size of the thread pool
  BatchSize,      \* jobs one tick may collect
  Requested,      \* the devices other threads may add or trigger while it runs
  MayStop,        \* may the poller be stopped and started again
  SaveMayFail     \* may sqlite raise while the state of a device is saved

ASSUME NoneAssumption == None \notin Polls /\ None \notin Devices
ASSUME PoolAssumption == MaxWorkers \in Nat \ {0} /\ BatchSize \in Nat \ {0}
ASSUME RequestedAssumption == Requested \subseteq Devices
ASSUME SwitchAssumption == MayStop \in BOOLEAN /\ SaveMayFail \in BOOLEAN

VARIABLES
  known,    \* devices the state manager holds a status for
  queue,    \* PollScheduler._queue, as the set of its jobs
  older,    \* older[d]: the devices whose due job the heap holds before d's
  active,   \* PollScheduler._active_polls
  poll,     \* the futures of the pool and the progress of their callbacks
  tick,     \* the scheduler thread: where it is, and jobs_to_dispatch
  request,  \* devices other threads are about to call schedule_device for
  starting, \* devices that schedule_all_devices of start() has yet to add
  running,  \* PollScheduler._running
  shut      \* the executor was shut down

vars == <<known, queue, older, active, poll, tick, request, starting, running, shut>>

-----------------------------------------------------------------------------
(* A job: its OID groups, priority and delay are left out (only whether it  *)
(* is due is read here), so add_device, the trigger, start() and the end of *)
(* a poll queue the same job.                                               *)
Job == [ip : Devices, due : BOOLEAN]
NewJob(d) == [ip |-> d, due |-> FALSE]

(* A future is unused, waits in the pool, executes, or has finished; its    *)
(* callback has then popped the active entry, met an exception, or recorded *)
(* the outcome and is about to call schedule_device.  The outcome is a      *)
(* result, good or not, or an exception; cb: the callback has been added to *)
(* the future.                                                              *)
BeforeCallback == {"submitted", "running", "finished"}
InCallback == {"popped", "erred", "recorded"}
Outcomes == {"none", "result", "raise"}
Poll == [ip : Devices \cup {None}, stage : {"none"} \cup BeforeCallback \cup InCallback,
         outcome : Outcomes, cb : BOOLEAN]
FreePoll == [ip |-> None, stage |-> "none", outcome |-> "none", cb |-> FALSE]

TickPcs == {"sleep", "collect", "submit", "register", "addcb", "callback"}

(* The types of the variables. *)
TypeOK ==
  /\ known \in SUBSET Devices
  /\ queue \in SUBSET Job
  /\ older \in [Devices -> SUBSET Devices]
  /\ active \in [Devices -> Polls \cup {None}]
  /\ poll \in [Polls -> Poll]
  /\ tick \in [pc : TickPcs, jobs : SUBSET Devices, fut : Polls \cup {None}]
  /\ request \in SUBSET Devices
  /\ starting \in SUBSET Devices
  /\ running \in BOOLEAN
  /\ shut \in BOOLEAN

Outstanding(p) == poll[p].stage # "none"
Unfinished(p) == poll[p].stage \in {"submitted", "running"}
PolledBy(d) == {p \in Polls : Outstanding(p) /\ poll[p].ip = d}
Queued(d) == \E j \in queue : j.ip = d
QueueFree == tick.pc # "collect"

(* A worker is busy from the start of a poll to the end of its callback,    *)
(* unless the scheduler thread itself runs the callback.                    *)
BusyWorkers ==
  {p \in Polls : \/ poll[p].stage = "running"
                 \/ poll[p].stage \in {"finished"} \cup InCallback
                    /\ poll[p].cb /\ p # tick.fut}

-----------------------------------------------------------------------------
(* _ensure_adaptive_polling has added the PDUs that have a row, and the     *)
(* scheduler thread of start() has begun; start() goes on to add every      *)
(* device of the status table, those with a job once more.                  *)
Init ==
  /\ known \in SUBSET Devices
  /\ \E added \in SUBSET known :
       queue = {NewJob(d) : d \in added}
  /\ starting = known
  /\ older = [d \in Devices |-> {}]
  /\ active = [d \in Devices |-> None]
  /\ poll = [p \in Polls |-> FreePoll]
  /\ tick = [pc |-> "sleep", jobs |-> {}, fut |-> None]
  /\ request = {}
  /\ running = TRUE
  /\ shut = FALSE

(* The job of d leaves the heap's due jobs.                                 *)
Forget(d) == [x \in Devices |-> IF x = d THEN {} ELSE older[x] \ {d}]

(* Mutant: schedule_device pushes without dropping the old job.             *)
ScheduleDeviceNoDedup(d) ==
  /\ QueueFree
  /\ queue' = queue \cup {NewJob(d)}
  /\ older' = Forget(d)

(* schedule_device: drop the job the device may have, push the new one.     *)
ScheduleDevice(d) ==
  /\ QueueFree
  /\ queue' = {j \in queue : j.ip # d} \cup {NewJob(d)}
  /\ older' = Forget(d)

(* The delay of a job runs out.  A tick compares all jobs with the time at  *)
(* which it began, so no job becomes due while it collects.                 *)
BecomeDue(j) ==
  /\ QueueFree
  /\ j \in queue /\ ~j.due
  /\ queue' = (queue \ {j}) \cup {[j EXCEPT !.due = TRUE]}
  /\ older' = [older EXCEPT ![j.ip] = {k.ip : k \in {i \in queue : i.due}} \ {j.ip}]
  /\ UNCHANGED <<known, active, poll, tick, request, starting, running, shut>>

-----------------------------------------------------------------------------
(* Calls of other threads.                                                  *)

(* add_device: create the status, then schedule.  The status of a new       *)
(* device is in memory before it is saved, so a failing save leaves it      *)
(* there and raises.                                                        *)
RequestAdd(d) ==
  /\ d \in Requested
  /\ d \notin request
  /\ known' = known \cup {d}
  /\ \/ request' = request \cup {d}
     \/ SaveMayFail /\ d \notin known /\ UNCHANGED request
  /\ UNCHANGED <<queue, older, active, poll, tick, starting, running, shut>>

(* trigger_immediate_poll returns when a poll of the device is under way.   *)
RequestTrigger(d) ==
  /\ d \in Requested
  /\ d \notin request
  /\ ~(active[d] # None /\ Unfinished(active[d]))
  /\ request' = request \cup {d}
  /\ UNCHANGED <<known, queue, older, active, poll, tick, starting, running, shut>>

(* The call goes on to schedule_device.                                     *)
RequestSchedule(d) ==
  /\ d \in request
  /\ ScheduleDevice(d)
  /\ request' = request \ {d}
  /\ UNCHANGED <<known, active, poll, tick, starting, running, shut>>

Stop ==
  /\ MayStop
  /\ running' = FALSE
  /\ UNCHANGED <<known, queue, older, active, poll, tick, request, starting, shut>>

(* stop waits for the scheduler thread, at most five seconds, and shuts the *)
(* pool down for good.                                                      *)
Shutdown ==
  /\ ~running
  /\ shut' = TRUE
  /\ UNCHANGED <<known, queue, older, active, poll, tick, request, starting, running>>

(* start makes a new thread, the pool is not made again; then it schedules  *)
(* all known devices.                                                       *)
Start ==
  /\ ~running /\ tick.pc = "sleep"
  /\ running' = TRUE
  /\ starting' = known
  /\ UNCHANGED <<known, queue, older, active, poll, tick, request, shut>>

(* schedule_all_devices, beside the scheduler thread and the workers: one   *)
(* device after the other, whether or not it is being polled, at once or,   *)
(* offline, after the rest of its backoff.                                  *)
ScheduleAll(d) ==
  /\ d \in starting
  /\ ScheduleDevice(d)
  /\ starting' = starting \ {d}
  /\ UNCHANGED <<known, active, poll, tick, request, running, shut>>

-----------------------------------------------------------------------------
(* The scheduler thread: _tick and _dispatch_poll.                          *)
TickBegin ==
  /\ tick.pc = "sleep" /\ running
  /\ tick' = [tick EXCEPT !.pc = "collect"]
  /\ UNCHANGED <<known, queue, older, active, poll, request, starting, running, shut>>

(* Mutant: the tick looks at the earliest job and does not pop it.          *)
CollectKeepsJob(j) ==
  /\ tick.pc = "collect"
  /\ Cardinality(tick.jobs) < BatchSize
  /\ j \in queue /\ j.due /\ older[j.ip] = {}
  /\ ~(active[j.ip] # None /\ Unfinished(active[j.ip]))
  /\ tick' = [tick EXCEPT !.jobs = @ \cup {j.ip}]
  /\ UNCHANGED <<known, queue, older, active, poll, request, starting, running, shut>>

(* Pop the earliest due job; push it back, a second later, when a poll of   *)
(* its device has not finished.                                             *)
Collect(j) ==
  /\ tick.pc = "collect"
  /\ Cardinality(tick.jobs) < BatchSize
  /\ j \in queue /\ j.due /\ older[j.ip] = {}
  /\ older' = Forget(j.ip)
  /\ \/ /\ active[j.ip] # None /\ Unfinished(active[j.ip])
        /\ queue' = (queue \ {j}) \cup {[j EXCEPT !.due = FALSE]}
        /\ UNCHANGED tick
     \/ /\ ~(active[j.ip] # None /\ Unfinished(active[j.ip]))
        /\ queue' = queue \ {j}
        /\ tick' = [tick EXCEPT !.jobs = @ \cup {j.ip}]
  /\ UNCHANGED <<known, active, poll, request, starting, running, shut>>

NextJobPc(jobs) == IF jobs = {} THEN "sleep" ELSE "submit"

CollectEnd ==
  /\ tick.pc = "collect"
  /\ Cardinality(tick.jobs) >= BatchSize \/ \A j \in queue : ~j.due
  /\ tick' = [tick EXCEPT !.pc = NextJobPc(tick.jobs)]
  /\ UNCHANGED <<known, queue, older, active, poll, request, starting, running, shut>>

Submit(d, p) ==
  /\ tick.pc = "submit" /\ d \in tick.jobs
  /\ ~shut
  /\ ~Outstanding(p)
  /\ poll' = [poll EXCEPT ![p] = [FreePoll EXCEPT !.ip = d, !.stage = "submitted"]]
  /\ tick' = [pc |-> "register", jobs |-> tick.jobs \ {d}, fut |-> p]
  /\ UNCHANGED <<known, queue, older, active, request, starting, running, shut>>

(* submit raises after a shutdown: the rest of jobs_to_dispatch is lost.    *)
SubmitRaises ==
  /\ tick.pc = "submit" /\ shut
  /\ tick' = [pc |-> "sleep", jobs |-> {}, fut |-> None]
  /\ UNCHANGED <<known, queue, older, active, poll, request, starting, running, shut>>

Register ==
  /\ tick.pc = "register"
  /\ active' = [active EXCEPT ![poll[tick.fut].ip] = tick.fut]
  /\ tick' = [tick EXCEPT !.pc = "addcb"]
  /\ UNCHANGED <<known, queue, older, poll, request, starting, running, shut>>

(* add_done_callback; of a finished future it runs the callback right here. *)
AddCallback ==
  /\ tick.pc = "addcb"
  /\ poll' = [poll EXCEPT ![tick.fut].cb = TRUE]
  /\ tick' = IF poll[tick.fut].stage = "finished"
             THEN [tick EXCEPT !.pc = "callback"]
             ELSE [tick EXCEPT !.pc = NextJobPc(tick.jobs), !.fut = None]
  /\ UNCHANGED <<known, queue, older, active, request, starting, running, shut>>

CallbackReturns ==
  /\ tick.pc = "callback" /\ ~Outstanding(tick.fut)
  /\ tick' = [tick EXCEPT !.pc = NextJobPc(tick.jobs), !.fut = None]
  /\ UNCHANGED <<known, queue, older, active, poll, request, starting, running, shut>>

-----------------------------------------------------------------------------
(* The pool: _execute_poll, then _on_poll_done.                             *)
StartPoll(p) ==
  /\ poll[p].stage = "submitted"
  /\ Cardinality(BusyWorkers) < MaxWorkers
  /\ poll' = [poll EXCEPT ![p].stage = "running"]
  /\ known' = known \cup {poll[p].ip}
  /\ UNCHANGED <<queue, older, active, tick, request, starting, running, shut>>

FinishPoll(p) ==
  /\ poll[p].stage = "running"
  /\ \E o \in Outcomes \ {"none"} :
       poll' = [poll EXCEPT ![p].stage = "finished", ![p].outcome = o]
  /\ UNCHANGED <<known, queue, older, active, tick, request, starting, running, shut>>

(* Mutant: the callback leaves the entry of the poll that is over.          *)
CallbackKeepsEntry(p) ==
  /\ poll[p].stage = "finished" /\ poll[p].cb
  /\ poll' = [poll EXCEPT ![p].stage = "popped"]
  /\ UNCHANGED <<known, queue, older, active, tick, request, starting, running, shut>>

(* The callback removes the device's entry, whichever future it names.      *)
CallbackPop(p) ==
  /\ poll[p].stage = "finished" /\ poll[p].cb
  /\ active' = [active EXCEPT ![poll[p].ip] = None]
  /\ poll' = [poll EXCEPT ![p].stage = "popped"]
  /\ UNCHANGED <<known, queue, older, tick, request, starting, running, shut>>

(* future.result(), record_poll_success or record_poll_failure, and the     *)
(* complete or error callback; an exception goes to the handler.            *)
Record(p) ==
  /\ poll[p].stage = "popped"
  /\ \/ /\ poll[p].outcome # "raise"
        /\ poll' = [poll EXCEPT ![p].stage = "recorded"]
     \/ /\ poll[p].outcome = "raise" \/ SaveMayFail
        /\ poll' = [poll EXCEPT ![p].stage = "erred", ![p].outcome = "raise"]
  /\ UNCHANGED <<known, queue, older, active, tick, request, starting, running, shut>>

(* Mutant: the handler only logs the exception.                             *)
RecordErrorLogs(p) ==
  /\ poll[p].stage = "erred"
  /\ poll' = [poll EXCEPT ![p] = FreePoll]
  /\ UNCHANGED <<known, queue, older, active, tick, request, starting, running, shut>>

(* The handler records a failure; when that raises too, the exception       *)
(* leaves the callback and the device is not scheduled again.               *)
RecordError(p) ==
  /\ poll[p].stage = "erred"
  /\ \/ poll' = [poll EXCEPT ![p].stage = "recorded"]
     \/ SaveMayFail /\ poll' = [poll EXCEPT ![p] = FreePoll]
  /\ UNCHANGED <<known, queue, older, active, tick, request, starting, running, shut>>

Reschedule(p) ==
  /\ poll[p].stage = "recorded"
  /\ ScheduleDevice(poll[p].ip)
  /\ poll' = [poll EXCEPT ![p] = FreePoll]
  /\ UNCHANGED <<known, active, tick, request, starting, running, shut>>

-----------------------------------------------------------------------------
SchedulerThread ==
  \/ TickBegin \/ CollectEnd \/ SubmitRaises \/ Register \/ AddCallback \/ CallbackReturns
  \/ \E j \in queue : Collect(j)
  \/ \E d \in Devices, p \in Polls : Submit(d, p)

Worker(p) ==
  StartPoll(p) \/ FinishPoll(p) \/ CallbackPop(p) \/ Record(p) \/ RecordError(p) \/ Reschedule(p)

Caller == \/ Stop \/ Shutdown \/ Start
          \/ \E d \in Devices : \/ RequestAdd(d) \/ RequestTrigger(d) \/ RequestSchedule(d)
                               \/ ScheduleAll(d)

Next ==
  \/ SchedulerThread
  \/ Caller
  \/ \E p \in Polls : Worker(p)
  \/ \E j \in queue : BecomeDue(j)

Spec == Init /\ [][Next]_vars

-----------------------------------------------------------------------------
(* The heap never holds two jobs of one device (schedule_device removes the *)
(* old one; the tick pushes back only what it popped).                      *)
AtMostOneJob == \A j, k \in queue : j.ip = k.ip => j = k

(* An entry of _active_polls names a future of that device whose callback   *)
(* has not yet run: a stale entry of a poll that is over would make the     *)
(* tick push the device's jobs back, or trigger_immediate_poll return,      *)
(* for no reason.                                                           *)
ActiveEntryLive ==
  \A d \in Devices : active[d] # None =>
    poll[active[d]].ip = d /\ poll[active[d]].stage \in BeforeCallback

(* No device is forgotten: a device the state manager knows has a job, is   *)
(* about to be dispatched or scheduled, or has a poll whose callback will   *)
(* schedule it, until the executor is shut down.  Stated for a database     *)
(* whose saves succeed.                                                     *)
KnownDevicePending ==
  ~shut /\ ~SaveMayFail =>
    \A d \in known : \/ Queued(d) \/ d \in tick.jobs \cup starting \cup request
                     \/ PolledBy(d) # {}

(* Two polls of a device do not execute at the same time.                   *)
OverlapFree(d) ==
  \A p, q \in Polls :
    /\ poll[p].stage = "running" /\ poll[q].stage = "running"
    /\ poll[p].ip = d /\ poll[q].ip = d
    => p = q

(* The turn of a device is in one place: a job, jobs_to_dispatch, a poll.   *)
OneTurn(d) ==
  /\ Queued(d) => d \notin tick.jobs
  /\ \A p \in Polls : Outstanding(p) /\ poll[p].ip = d =>
       /\ ~Queued(d) /\ d \notin tick.jobs
       /\ \A q \in Polls : Outstanding(q) /\ poll[q].ip = d => p = q

(* "Non-overlapping polls per device", as far as the code keeps it.  A      *)
(* device that is added or triggered while it is polled may be polled twice *)
(* at once, and start() adds every device a second time while the scheduler *)
(* runs.  Once that is over and the turn of a device nobody asks for is in  *)
(* one place, it stays in one, until the poller is started again: neither   *)
(* the tick, nor the pool, nor the callback, nor a call for another device  *)
(* makes two turns, and with them two polls at once, of one.                *)
QuietNoOverlap ==
  [][\A d \in Devices \ Requested :
       d \notin starting /\ OneTurn(d) => OneTurn(d)' /\ OverlapFree(d)']_vars

(* Such a device is polled again and again while the scheduler runs: the    *)
(* other devices, whose jobs the tick may take first and whose polls may    *)
(* hold the workers, do not keep its turn from it.                          *)
QuietPolledAgain ==
  \A d \in Devices \ Requested :
    [](d \in known => <>(~running \/ shut
                         \/ \E p \in Polls : poll[p].ip = d /\ poll[p].stage = "running"))
=============================================================================
