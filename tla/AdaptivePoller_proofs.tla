----------------------- MODULE AdaptivePoller_proofs -----------------------
(***************************************************************************)
(* Proofs about PollScheduler, for every set of devices, size of the pool  *)
(* and batch, and about AdaptivePoller: the rows and the poller together   *)
(* are a scheduler, so what is shown of every scheduler holds there.       *)
(***************************************************************************)
EXTENDS AdaptivePoller, TLAPS

(* Where the scheduler thread is says what it knows of the future it has    *)
(* just submitted.                                                          *)
TickFuture ==
  /\ tick.pc \in {"register", "addcb", "callback"} => tick.fut \in Polls
  /\ tick.pc \in {"register", "addcb"} =>
       ~poll[tick.fut].cb /\ poll[tick.fut].stage \in BeforeCallback

OutstandingHasDevice == \A p \in Polls : Outstanding(p) => poll[p].ip \in Devices

TypeInv == TypeOK /\ TickFuture /\ OutstandingHasDevice

USE NoneAssumption, RequestedAssumption, SwitchAssumption

(* A job whose due flag changes is a job; a future that advances is one.    *)
LEMMA JobDue ==
  ASSUME NEW j \in Job, NEW b \in BOOLEAN
  PROVE  [j EXCEPT !.due = b] \in Job /\ j.ip \in Devices
BY DEF Job

LEMMA PollStage ==
  ASSUME NEW f \in Poll, NEW s \in {"none"} \cup BeforeCallback \cup InCallback
  PROVE  [f EXCEPT !.stage = s] \in Poll
BY DEF Poll

LEMMA PollOutcome ==
  ASSUME NEW f \in Poll, NEW o \in Outcomes
  PROVE  [f EXCEPT !.outcome = o] \in Poll
BY DEF Poll

LEMMA PollCallback ==
  ASSUME NEW f \in Poll
  PROVE  [f EXCEPT !.cb = TRUE] \in Poll
BY DEF Poll

(* What add_done_callback, the end of a poll, and its recording do to the   *)
(* futures.                                                                 *)
LEMMA AddCallbackUpdate ==
  ASSUME poll \in [Polls -> Poll], NEW p \in Polls, poll' = [poll EXCEPT ![p].cb = TRUE]
  PROVE  /\ poll' \in [Polls -> Poll]
         /\ \A q \in Polls : poll'[q].stage = poll[q].stage /\ poll'[q].ip = poll[q].ip
<1>1. poll' = [q \in Polls |-> IF q = p THEN [poll[p] EXCEPT !.cb = TRUE] ELSE poll[q]]
  OBVIOUS
<1>2. [poll[p] EXCEPT !.cb = TRUE] \in Poll
  BY PollCallback
<1>3. poll' \in [Polls -> Poll]
  BY <1>1, <1>2
<1>4. [poll[p] EXCEPT !.cb = TRUE].stage = poll[p].stage /\ [poll[p] EXCEPT !.cb = TRUE].ip = poll[p].ip
  BY DEF Poll
<1> QED
  BY <1>1, <1>3, <1>4

LEMMA FinishUpdate ==
  ASSUME poll \in [Polls -> Poll], NEW p \in Polls, NEW o \in Outcomes,
         poll' = [poll EXCEPT ![p].stage = "finished", ![p].outcome = o]
  PROVE  /\ poll' \in [Polls -> Poll]
         /\ \A q \in Polls : /\ poll'[q].ip = poll[q].ip /\ poll'[q].cb = poll[q].cb
                             /\ poll'[q].stage = IF q = p THEN "finished" ELSE poll[q].stage
<1> DEFINE f == [poll[p] EXCEPT !.stage = "finished"]
           g == [f EXCEPT !.outcome = o]
<1>1. poll' = [q \in Polls |-> IF q = p THEN g ELSE poll[q]]
  OBVIOUS
<1>2. f \in Poll
  BY PollStage DEF BeforeCallback
<1>3. g \in Poll
  BY <1>2, PollOutcome
<1>4. g.ip = poll[p].ip /\ g.cb = poll[p].cb /\ g.stage = "finished"
  BY DEF Poll
<1> HIDE DEF g
<1> QED
  BY <1>1, <1>3, <1>4

(* Record moves the future on, to the handler or to the rescheduling.       *)
LEMMA RecordUpdate ==
  ASSUME poll \in [Polls -> Poll], NEW p \in Polls, Record(p)
  PROVE  /\ poll' \in [Polls -> Poll]
         /\ \A q \in Polls : /\ poll'[q].ip = poll[q].ip /\ poll'[q].cb = poll[q].cb
                             /\ q # p => poll'[q].stage = poll[q].stage
         /\ poll[p].stage = "popped" /\ poll'[p].stage \in {"recorded", "erred"}
<1>1. CASE poll' = [poll EXCEPT ![p].stage = "recorded"]
  <2> DEFINE f == [poll[p] EXCEPT !.stage = "recorded"]
  <2>1. poll' = [q \in Polls |-> IF q = p THEN f ELSE poll[q]]
    BY <1>1
  <2>2. f \in Poll
    BY PollStage DEF InCallback
  <2>3. f.ip = poll[p].ip /\ f.cb = poll[p].cb /\ f.stage = "recorded"
    BY DEF Poll
  <2> HIDE DEF f
  <2> QED
    BY <2>1, <2>2, <2>3 DEF Record
<1>2. CASE poll' = [poll EXCEPT ![p].stage = "erred", ![p].outcome = "raise"]
  <2> DEFINE f == [poll[p] EXCEPT !.stage = "erred"]
             g == [f EXCEPT !.outcome = "raise"]
  <2>1. poll' = [q \in Polls |-> IF q = p THEN g ELSE poll[q]]
    BY <1>2
  <2>2. f \in Poll
    BY PollStage DEF InCallback
  <2>3. g \in Poll
    BY <2>2, PollOutcome DEF Outcomes
  <2>4. g.ip = poll[p].ip /\ g.cb = poll[p].cb /\ g.stage = "erred"
    BY DEF Poll
  <2> HIDE DEF g
  <2> QED
    BY <2>1, <2>3, <2>4 DEF Record
<1> QED
  BY <1>1, <1>2 DEF Record

(* schedule_device keeps the queue a set of jobs.                          *)
LEMMA ScheduleDeviceType ==
  ASSUME queue \in SUBSET Job, older \in [Devices -> SUBSET Devices],
         NEW d \in Devices, ScheduleDevice(d)
  PROVE  queue' \in SUBSET Job /\ older' \in [Devices -> SUBSET Devices]
<1>1. NewJob(d) \in Job
  BY DEF Job, NewJob
<1>2. queue' \in SUBSET Job
  BY <1>1 DEF ScheduleDevice
<1>3. older' \in [Devices -> SUBSET Devices]
  BY DEF ScheduleDevice, Forget
<1> QED
  BY <1>2, <1>3

LEMMA TypeInvInit == Init => TypeInv
<1> SUFFICES ASSUME Init PROVE TypeInv
  OBVIOUS
<1>1. queue \in SUBSET Job
  <2>1. \A d \in known : NewJob(d) \in Job
    BY DEF Init, Job, NewJob
  <2> QED
    BY <2>1 DEF Init
<1>2. FreePoll \in Poll
  BY DEF FreePoll, Poll, Outcomes
<1>3. poll \in [Polls -> Poll]
  BY <1>2 DEF Init
<1>4. TypeOK
  BY <1>1, <1>3 DEF Init, TypeOK, TickPcs
<1> QED
  BY <1>4 DEF Init, TypeInv, TickFuture, OutstandingHasDevice, Outstanding, FreePoll

LEMMA TypeInvStep == TypeInv /\ [Next]_vars => TypeInv'
<1> SUFFICES ASSUME TypeInv, [Next]_vars PROVE TypeInv'
  OBVIOUS
<1> USE DEF TypeInv, TypeOK, TickFuture, OutstandingHasDevice, Outstanding, Job, NewJob,
       Poll, FreePoll, Outcomes, TickPcs, BeforeCallback, InCallback
<1>1. ASSUME NEW j \in queue, BecomeDue(j) PROVE TypeInv'
  <2>1. [j EXCEPT !.due = TRUE] \in Job /\ j.ip \in Devices
    BY JobDue
  <2>2. queue' \in SUBSET Job
    BY <1>1, <2>1 DEF BecomeDue
  <2>3. {k.ip : k \in {i \in queue : i.due}} \ {j.ip} \subseteq Devices
    OBVIOUS
  <2>4. older' \in [Devices -> SUBSET Devices]
    BY <1>1, <2>1, <2>3 DEF BecomeDue
  <2> QED
    BY <1>1, <2>2, <2>4 DEF BecomeDue
<1>2. ASSUME NEW d \in Devices, RequestAdd(d) PROVE TypeInv'
  BY <1>2 DEF RequestAdd
<1>3. ASSUME NEW d \in Devices, RequestTrigger(d) PROVE TypeInv'
  BY <1>3 DEF RequestTrigger
<1>4. ASSUME NEW d \in Devices, RequestSchedule(d) PROVE TypeInv'
  <2>1. queue' \in SUBSET Job /\ older' \in [Devices -> SUBSET Devices]
    BY <1>4, ScheduleDeviceType DEF RequestSchedule
  <2> QED
    BY <1>4, <2>1 DEF RequestSchedule
<1>5. CASE Stop
  BY <1>5 DEF Stop
<1>6. CASE Shutdown
  BY <1>6 DEF Shutdown
<1>7. CASE Start
  BY <1>7 DEF Start
<1>8. CASE TickBegin
  BY <1>8 DEF TickBegin
<1>9. ASSUME NEW j \in queue, Collect(j) PROVE TypeInv'
  <2>1. [j EXCEPT !.due = FALSE] \in Job /\ j.ip \in Devices
    BY JobDue
  <2>2. queue' \in SUBSET Job
    <3>1. CASE queue' = (queue \ {j}) \cup {[j EXCEPT !.due = FALSE]}
      BY <2>1, <3>1
    <3>2. CASE queue' = queue \ {j}
      BY <3>2
    <3> QED
      BY <1>9, <3>1, <3>2 DEF Collect
  <2>3. older' \in [Devices -> SUBSET Devices]
    BY <1>9, <2>1 DEF Collect, Forget
  <2>4. tick' \in [pc : TickPcs, jobs : SUBSET Devices, fut : Polls \cup {None}]
        /\ tick'.pc = "collect"
    BY <1>9, <2>1 DEF Collect
  <2> QED
    BY <1>9, <2>2, <2>3, <2>4 DEF Collect
<1>10. CASE CollectEnd
  BY <1>10 DEF CollectEnd, NextJobPc
<1>11. ASSUME NEW d \in Devices, NEW p \in Polls, Submit(d, p) PROVE TypeInv'
  BY <1>11 DEF Submit
<1>12. CASE SubmitRaises
  BY <1>12 DEF SubmitRaises
<1>13. CASE Register
  BY <1>13 DEF Register
<1>14. CASE AddCallback
  <2>1. tick.fut \in Polls
    BY <1>14 DEF AddCallback
  <2>2. poll' = [poll EXCEPT ![tick.fut].cb = TRUE]
    BY <1>14 DEF AddCallback
  <2>3. /\ poll' \in [Polls -> Poll]
        /\ \A p \in Polls : poll'[p].stage = poll[p].stage /\ poll'[p].ip = poll[p].ip
    BY <2>1, <2>2, AddCallbackUpdate
  <2>4. CASE poll[tick.fut].stage = "finished"
    BY <1>14, <2>1, <2>3, <2>4 DEF AddCallback
  <2>5. CASE poll[tick.fut].stage # "finished"
    BY <1>14, <2>1, <2>3, <2>5 DEF AddCallback, NextJobPc
  <2> QED
    BY <2>4, <2>5
<1>15. CASE CallbackReturns
  BY <1>15 DEF CallbackReturns, NextJobPc
<1>16. ASSUME NEW p \in Polls, StartPoll(p) PROVE TypeInv'
  BY <1>16 DEF StartPoll
<1>17. ASSUME NEW p \in Polls, FinishPoll(p) PROVE TypeInv'
  <2>1. PICK o \in Outcomes \ {"none"} :
          poll' = [poll EXCEPT ![p].stage = "finished", ![p].outcome = o]
    BY <1>17 DEF FinishPoll
  <2>2. /\ poll' \in [Polls -> Poll]
        /\ \A q \in Polls : /\ poll'[q].ip = poll[q].ip /\ poll'[q].cb = poll[q].cb
                            /\ poll'[q].stage = IF q = p THEN "finished" ELSE poll[q].stage
    BY <2>1, FinishUpdate
  <2> QED
    BY <1>17, <2>2 DEF FinishPoll
<1>18. ASSUME NEW p \in Polls, CallbackPop(p) PROVE TypeInv'
  BY <1>18 DEF CallbackPop
<1>19. ASSUME NEW p \in Polls, Record(p) PROVE TypeInv'
  <2>1. /\ poll' \in [Polls -> Poll]
        /\ \A q \in Polls : /\ poll'[q].ip = poll[q].ip /\ poll'[q].cb = poll[q].cb
                            /\ q # p => poll'[q].stage = poll[q].stage
        /\ poll[p].stage = "popped"
    BY <1>19, RecordUpdate
  <2>2. UNCHANGED <<known, queue, older, active, tick, request, starting, running, shut>>
    BY <1>19 DEF Record
  <2> QED
    BY <2>1, <2>2
<1>20. ASSUME NEW p \in Polls, RecordError(p) PROVE TypeInv'
  <2>0. poll[p].stage = "erred" /\ UNCHANGED <<known, queue, older, active, tick, request, starting, running, shut>>
    BY <1>20 DEF RecordError
  <2>1. CASE poll' = [poll EXCEPT ![p].stage = "recorded"]
    <3> DEFINE f == [poll[p] EXCEPT !.stage = "recorded"]
    <3>1. f \in Poll /\ f.ip = poll[p].ip /\ f.cb = poll[p].cb
      OBVIOUS
    <3>2. poll' = [q \in Polls |-> IF q = p THEN f ELSE poll[q]]
      BY <2>1
    <3> HIDE DEF f
    <3>3. poll' \in [Polls -> Poll]
      BY <3>1, <3>2
    <3> QED
      BY <2>0, <3>1, <3>2, <3>3
  <2>2. CASE poll' = [poll EXCEPT ![p] = FreePoll]
    BY <2>0, <2>2
  <2> QED
    BY <1>20, <2>1, <2>2 DEF RecordError
<1>21. ASSUME NEW p \in Polls, Reschedule(p) PROVE TypeInv'
  <2>1. queue' \in SUBSET Job /\ older' \in [Devices -> SUBSET Devices]
    BY <1>21, ScheduleDeviceType DEF Reschedule
  <2> QED
    BY <1>21, <2>1 DEF Reschedule
<1>22. ASSUME NEW d \in Devices, ScheduleAll(d) PROVE TypeInv'
  <2>1. queue' \in SUBSET Job /\ older' \in [Devices -> SUBSET Devices]
    BY <1>22, ScheduleDeviceType DEF ScheduleAll
  <2> QED
    BY <1>22, <2>1 DEF ScheduleAll
<1>23. CASE UNCHANGED vars
  BY <1>23 DEF vars
<1> QED
  BY <1>1, <1>2, <1>3, <1>4, <1>5, <1>6, <1>7, <1>8, <1>9, <1>10, <1>11, <1>12, <1>13, <1>14,
     <1>15, <1>16, <1>17, <1>18, <1>19, <1>20, <1>21, <1>22, <1>23
     DEF Next, SchedulerThread, Caller, Worker

(* Every reachable state of the scheduler has its type, and the scheduler   *)
(* thread never touches a future that is not its own.                       *)
THEOREM TypeCorrect == Spec => []TypeOK
<1>1. Spec => []TypeInv
  BY TypeInvInit, TypeInvStep, PTL DEF Spec
<1>2. TypeInv => TypeOK
  BY DEF TypeInv
<1> QED
  BY <1>1, <1>2, PTL

-----------------------------------------------------------------------------
(* The safety of the queue and of the active table, from the types.         *)

LEMMA ScheduleDeviceQueue ==
  ASSUME AtMostOneJob, NEW d, ScheduleDevice(d)
  PROVE  /\ AtMostOneJob'
         /\ \A x : Queued(x)' <=> Queued(x) \/ x = d
<1>1. \A j \in queue' : \/ j \in queue /\ j.ip # d
                       \/ j = NewJob(d)
  BY DEF ScheduleDevice
<1>2. AtMostOneJob'
  <2> SUFFICES ASSUME NEW j \in queue', NEW k \in queue', j.ip = k.ip PROVE j = k
    BY DEF AtMostOneJob
  <2>1. CASE j.ip = d
    BY <1>1, <2>1
  <2>2. CASE j.ip # d
    BY <1>1, <2>2 DEF AtMostOneJob, NewJob
  <2> QED
    BY <2>1, <2>2
<1>3. NewJob(d) \in queue' /\ NewJob(d).ip = d
  BY DEF ScheduleDevice, NewJob
<1>4. \A j \in queue : j.ip # d => j \in queue'
  BY DEF ScheduleDevice
<1>5. \A x : Queued(x)' <=> Queued(x) \/ x = d
  BY <1>1, <1>3, <1>4 DEF Queued
<1> QED
  BY <1>2, <1>5

(* The due flag of a job says nothing about which devices have one.         *)
LEMMA DueChangeQueue ==
  ASSUME AtMostOneJob, queue \in SUBSET Job, NEW j \in queue, NEW b \in BOOLEAN,
         queue' = (queue \ {j}) \cup {[j EXCEPT !.due = b]}
  PROVE  AtMostOneJob' /\ \A x : Queued(x)' <=> Queued(x)
<1> DEFINE k == [j EXCEPT !.due = b]
<1>1. k.ip = j.ip
  BY DEF Job
<1>2. \A i \in queue' : i = k \/ (i \in queue /\ i # j)
  BY Zenon
<1>3. k \in queue' /\ \A i \in queue : i # j => i \in queue'
  BY Zenon
<1> HIDE DEF k
<1>4. AtMostOneJob'
  BY <1>1, <1>2 DEF AtMostOneJob
<1>5. \A x : Queued(x)' <=> Queued(x)
  BY <1>1, <1>2, <1>3 DEF Queued
<1> QED
  BY <1>4, <1>5

SafeInv == TypeInv /\ AtMostOneJob /\ ActiveEntryLive /\ KnownDevicePending

LEMMA SafeInvInit == Init => SafeInv
<1> SUFFICES ASSUME Init PROVE SafeInv
  OBVIOUS
<1>1. TypeInv
  BY TypeInvInit
<1>2. AtMostOneJob
  <2>1. \A j \in queue : j = NewJob(j.ip)
    BY DEF Init, NewJob
  <2> QED
    BY <2>1 DEF AtMostOneJob
<1>3. ActiveEntryLive
  BY DEF Init, ActiveEntryLive
<1>4. KnownDevicePending
  BY DEF Init, KnownDevicePending
<1> QED
  BY <1>1, <1>2, <1>3, <1>4 DEF SafeInv

LEMMA SafeInvStep == SafeInv /\ [Next]_vars => SafeInv'
<1> SUFFICES ASSUME SafeInv, [Next]_vars PROVE SafeInv'
  OBVIOUS
<1>0. TypeInv /\ TypeInv'
  BY TypeInvStep DEF SafeInv
<1> SUFFICES (AtMostOneJob /\ ActiveEntryLive /\ KnownDevicePending)'
  BY <1>0 DEF SafeInv
<1> USE <1>0 DEF SafeInv, TypeInv, TypeOK, OutstandingHasDevice, TickFuture
<1> USE DEF Outstanding, PolledBy, Unfinished, ActiveEntryLive, KnownDevicePending
<1> DEFINE Goal == (AtMostOneJob /\ ActiveEntryLive /\ KnownDevicePending)'
<1>1. ASSUME NEW j \in queue, BecomeDue(j) PROVE Goal
  <2>1. AtMostOneJob' /\ \A x : Queued(x)' <=> Queued(x)
    BY <1>1, DueChangeQueue DEF BecomeDue
  <2> QED
    BY <1>1, <2>1 DEF BecomeDue
<1>2. ASSUME NEW d \in Devices, RequestAdd(d) PROVE Goal
  BY <1>2 DEF RequestAdd, AtMostOneJob, Queued
<1>3. ASSUME NEW d \in Devices, RequestTrigger(d) PROVE Goal
  BY <1>3 DEF RequestTrigger, AtMostOneJob, Queued
<1>4. ASSUME NEW d \in Devices, RequestSchedule(d) PROVE Goal
  <2>1. AtMostOneJob' /\ \A x : Queued(x)' <=> Queued(x) \/ x = d
    BY <1>4, ScheduleDeviceQueue DEF RequestSchedule
  <2> QED
    BY <1>4, <2>1 DEF RequestSchedule
<1>5. CASE Stop
  BY <1>5 DEF Stop, AtMostOneJob, Queued
<1>6. CASE Shutdown
  BY <1>6 DEF Shutdown, AtMostOneJob, Queued
<1>7. CASE Start
  BY <1>7 DEF Start, AtMostOneJob, Queued
<1>8. CASE TickBegin
  BY <1>8 DEF TickBegin, AtMostOneJob, Queued
<1>9. ASSUME NEW j \in queue, Collect(j) PROVE Goal
  <2>1. CASE /\ queue' = (queue \ {j}) \cup {[j EXCEPT !.due = FALSE]}
             /\ UNCHANGED tick
    <3>1. AtMostOneJob' /\ \A x : Queued(x)' <=> Queued(x)
      BY <2>1, DueChangeQueue
    <3> QED
      BY <1>9, <2>1, <3>1 DEF Collect
  <2>2. CASE queue' = queue \ {j} /\ tick' = [tick EXCEPT !.jobs = @ \cup {j.ip}]
    <3>1. AtMostOneJob'
      BY <2>2 DEF AtMostOneJob
    <3>2. \A x : Queued(x) => Queued(x)' \/ x = j.ip
      BY <2>2 DEF Queued
    <3>3. tick'.jobs = tick.jobs \cup {j.ip}
      BY <2>2
    <3> QED
      BY <1>9, <3>1, <3>2, <3>3 DEF Collect
  <2> QED
    BY <1>9, <2>1, <2>2 DEF Collect
<1>10. CASE CollectEnd
  BY <1>10 DEF CollectEnd, AtMostOneJob, Queued
<1>11. ASSUME NEW d \in Devices, NEW p \in Polls, Submit(d, p) PROVE Goal
  <2>1. AtMostOneJob' /\ \A x : Queued(x)' <=> Queued(x)
    BY <1>11 DEF Submit, AtMostOneJob, Queued
  <2>2. /\ poll'[p].ip = d /\ poll'[p].stage = "submitted"
        /\ \A q \in Polls \ {p} : poll'[q] = poll[q]
    BY <1>11 DEF Submit, FreePoll, Poll
  <2>3. ~Outstanding(p) /\ ~shut /\ tick'.jobs = tick.jobs \ {d}
        /\ UNCHANGED <<known, active, request, starting>>
    BY <1>11 DEF Submit
  <2>4. ActiveEntryLive'
    <3> SUFFICES ASSUME NEW x \in Devices, active[x] # None
                 PROVE  poll'[active[x]].ip = x /\ poll'[active[x]].stage \in BeforeCallback
      BY <2>3
    <3>1. poll[active[x]].ip = x /\ poll[active[x]].stage \in BeforeCallback
      OBVIOUS
    <3>2. active[x] \in Polls \ {p}
      BY <2>3, <3>1 DEF BeforeCallback
    <3> QED
      BY <2>2, <3>1, <3>2
  <2>5. \A x : PolledBy(x) \subseteq PolledBy(x)'
    BY <2>2, <2>3
  <2>6. p \in PolledBy(d)'
    BY <2>2
  <2>7. KnownDevicePending'
    <3> SUFFICES ASSUME ~shut', ~SaveMayFail, NEW x \in known'
                 PROVE  (Queued(x) \/ x \in tick.jobs \cup starting \cup request \/ PolledBy(x) # {})'
      BY DEF KnownDevicePending
    <3>1. Queued(x) \/ x \in tick.jobs \cup starting \cup request \/ PolledBy(x) # {}
      BY <2>3
    <3>2. CASE x = d
      BY <2>6, <3>2
    <3>3. CASE x # d
      BY <2>1, <2>3, <2>5, <3>1, <3>3
    <3> QED
      BY <3>2, <3>3
  <2> QED
    BY <2>1, <2>4, <2>7
<1>12. CASE SubmitRaises
  BY <1>12 DEF SubmitRaises, AtMostOneJob, Queued
<1>13. CASE Register
  BY <1>13 DEF Register, AtMostOneJob, Queued, BeforeCallback
<1>14. CASE AddCallback
  <2>1. \A p \in Polls : poll'[p].stage = poll[p].stage /\ poll'[p].ip = poll[p].ip
    BY <1>14, AddCallbackUpdate DEF AddCallback
  <2>2. tick'.jobs = tick.jobs
    BY <1>14 DEF AddCallback
  <2> QED
    BY <1>14, <2>1, <2>2 DEF AddCallback, AtMostOneJob, Queued
<1>15. CASE CallbackReturns
  BY <1>15 DEF CallbackReturns, AtMostOneJob, Queued
<1>16. ASSUME NEW p \in Polls, StartPoll(p) PROVE Goal
  <2>1. \A q \in Polls : /\ poll'[q].ip = poll[q].ip
                         /\ poll'[q].stage = IF q = p THEN "running" ELSE poll[q].stage
    BY <1>16 DEF StartPoll, Poll
  <2>2. poll[p].stage = "submitted" /\ UNCHANGED <<queue, active, tick, request, starting, shut>>
    BY <1>16 DEF StartPoll
  <2>3. \A x : PolledBy(x)' = PolledBy(x)
    BY <2>1, <2>2
  <2>4. ActiveEntryLive'
    BY <2>1, <2>2 DEF BeforeCallback
  <2>5. known' = known \cup {poll[p].ip} /\ p \in PolledBy(poll[p].ip)
    BY <1>16, <2>2 DEF StartPoll
  <2>6. KnownDevicePending'
    <3> SUFFICES ASSUME ~SaveMayFail, ~shut, NEW d \in known'
                 PROVE  (Queued(d) \/ d \in tick.jobs \cup starting \cup request \/ PolledBy(d) # {})'
      BY <2>2
    <3> HIDE DEF PolledBy
    <3>1. Queued(d)' <=> Queued(d)
      BY <2>2 DEF Queued
    <3>2. PolledBy(d)' = PolledBy(d)
      BY <2>3
    <3>3. d \in known \/ PolledBy(d) # {}
      BY <2>5
    <3> QED
      BY <2>2, <3>1, <3>2, <3>3
  <2> QED
    BY <2>2, <2>4, <2>6 DEF AtMostOneJob
<1>17. ASSUME NEW p \in Polls, FinishPoll(p) PROVE Goal
  <2>1. PICK o \in Outcomes \ {"none"} :
          poll' = [poll EXCEPT ![p].stage = "finished", ![p].outcome = o]
    BY <1>17 DEF FinishPoll
  <2>0. poll \in [Polls -> Poll]
    OBVIOUS
  <2>2. \A q \in Polls : /\ poll'[q].ip = poll[q].ip
                         /\ poll'[q].stage = IF q = p THEN "finished" ELSE poll[q].stage
    <3> HIDE DEF TypeOK, SafeInv, TypeInv, ActiveEntryLive, KnownDevicePending, TickFuture, OutstandingHasDevice
    <3> QED
      BY <2>0, <2>1, FinishUpdate
  <2> QED
    BY <1>17, <2>2 DEF FinishPoll, AtMostOneJob, Queued, BeforeCallback
<1>18. ASSUME NEW p \in Polls, CallbackPop(p) PROVE Goal
  <2>1. \A q \in Polls : /\ poll'[q].ip = poll[q].ip
                         /\ poll'[q].stage = IF q = p THEN "popped" ELSE poll[q].stage
    BY <1>18 DEF CallbackPop, Poll
  <2>2. active' = [active EXCEPT ![poll[p].ip] = None]
    BY <1>18 DEF CallbackPop
  <2>3. ActiveEntryLive'
    <3> SUFFICES ASSUME NEW d \in Devices, active'[d] # None
                 PROVE poll'[active'[d]].ip = d /\ poll'[active'[d]].stage \in BeforeCallback
      OBVIOUS
    <3>1. d # poll[p].ip /\ active'[d] = active[d]
      BY <2>2
    <3>2. active[d] \in Polls /\ active[d] # p
      BY <3>1
    <3> QED
      BY <2>1, <3>1, <3>2
  <2>4. \A x : PolledBy(x)' = PolledBy(x)
    BY <1>18, <2>1 DEF CallbackPop
  <2> QED
    BY <1>18, <2>3, <2>4 DEF CallbackPop, AtMostOneJob, Queued
<1>19. ASSUME NEW p \in Polls, Record(p) PROVE Goal
  <2>1. \A q \in Polls : /\ poll'[q].ip = poll[q].ip
                         /\ poll'[q].stage # "none" <=> poll[q].stage # "none"
                         /\ q # p => poll'[q].stage = poll[q].stage
    <3>1. CASE poll' = [poll EXCEPT ![p].stage = "recorded"]
      BY <1>19, <3>1 DEF Record, Poll
    <3>2. CASE poll' = [poll EXCEPT ![p].stage = "erred", ![p].outcome = "raise"]
      BY <1>19, <3>2 DEF Record, Poll
    <3> QED
      BY <1>19, <3>1, <3>2 DEF Record
  <2>2. poll[p].stage \notin BeforeCallback
    BY <1>19 DEF Record, BeforeCallback
  <2>3. \A x : PolledBy(x)' = PolledBy(x)
    BY <1>19, <2>1 DEF Record
  <2> QED
    BY <1>19, <2>1, <2>2, <2>3 DEF Record, AtMostOneJob, Queued
<1>20. ASSUME NEW p \in Polls, RecordError(p) PROVE Goal
  <2>1. \A q \in Polls : q # p => poll'[q] = poll[q]
    BY <1>20 DEF RecordError
  <2>2. poll[p].stage \notin BeforeCallback
    BY <1>20 DEF RecordError, BeforeCallback
  <2>3. ~SaveMayFail => poll'[p].ip = poll[p].ip /\ poll'[p].stage = "recorded"
    BY <1>20 DEF RecordError, Poll
  <2>4. ~SaveMayFail => \A x : PolledBy(x)' = PolledBy(x)
    BY <1>20, <2>1, <2>3 DEF RecordError
  <2>5. UNCHANGED <<known, queue, active, tick, request, starting, shut>>
    BY <1>20 DEF RecordError
  <2>6. ActiveEntryLive'
    BY <2>1, <2>2, <2>5
  <2>7. KnownDevicePending'
    <3> SUFFICES ASSUME ~SaveMayFail, ~shut, NEW d \in known
                 PROVE  (Queued(d) \/ d \in tick.jobs \cup starting \cup request \/ PolledBy(d) # {})'
      BY <2>5
    <3> HIDE DEF PolledBy
    <3>1. Queued(d)' <=> Queued(d)
      BY <2>5 DEF Queued
    <3>2. PolledBy(d)' = PolledBy(d)
      BY <2>4
    <3>3. Queued(d) \/ d \in tick.jobs \cup starting \cup request \/ PolledBy(d) # {}
      OBVIOUS
    <3> QED
      BY <2>5, <3>1, <3>2, <3>3
  <2> QED
    BY <2>5, <2>6, <2>7 DEF AtMostOneJob
<1>21. ASSUME NEW p \in Polls, Reschedule(p) PROVE Goal
  <2>1. AtMostOneJob' /\ \A x : Queued(x)' <=> Queued(x) \/ x = poll[p].ip
    BY <1>21, ScheduleDeviceQueue DEF Reschedule
  <2> QED
    BY <1>21, <2>1 DEF Reschedule, BeforeCallback, Poll, FreePoll
<1>22. ASSUME NEW d \in Devices, ScheduleAll(d) PROVE Goal
  <2>1. AtMostOneJob' /\ \A x : Queued(x)' <=> Queued(x) \/ x = d
    BY <1>22, ScheduleDeviceQueue DEF ScheduleAll
  <2> QED
    BY <1>22, <2>1 DEF ScheduleAll
<1>23. CASE UNCHANGED vars
  BY <1>23 DEF vars, AtMostOneJob, Queued
<1> QED
  BY <1>1, <1>2, <1>3, <1>4, <1>5, <1>6, <1>7, <1>8, <1>9, <1>10, <1>11, <1>12, <1>13, <1>14,
     <1>15, <1>16, <1>17, <1>18, <1>19, <1>20, <1>21, <1>22, <1>23
     DEF Next, SchedulerThread, Caller, Worker

LEMMA SafeInvAlways == Spec => []SafeInv
BY SafeInvInit, SafeInvStep, PTL DEF Spec

(* A device has at most one job in the heap, for any interleaving of the    *)
(* tick, the callbacks and the callers.                                     *)
THEOREM OneJobPerDevice == Spec => []AtMostOneJob
<1>1. SafeInv => AtMostOneJob
  BY DEF SafeInv
<1> QED
  BY <1>1, SafeInvAlways, PTL

(* The active table never keeps the entry of a poll that is over, although  *)
(* overlapping polls remove each other's entries.                           *)
THEOREM ActiveTableLive == Spec => []ActiveEntryLive
<1>1. SafeInv => ActiveEntryLive
  BY DEF SafeInv
<1> QED
  BY <1>1, SafeInvAlways, PTL

(* No known device drops out of polling while the executor is up and saves  *)
(* succeed.                                                                 *)
THEOREM NoDeviceForgotten == Spec => []KnownDevicePending
<1>1. SafeInv => KnownDevicePending
  BY DEF SafeInv
<1> QED
  BY <1>1, SafeInvAlways, PTL

-----------------------------------------------------------------------------
(* A quiet device, one nobody adds or triggers and start() has added: a     *)
(* turn that is in one place, a job, a place in jobs_to_dispatch, or one    *)
(* poll, stays in one, whichever step is taken.                             *)
InPool(d, p) == Outstanding(p) /\ poll[p].ip = d

Single(d) ==
  /\ Queued(d) => d \notin tick.jobs
  /\ \A p \in Polls : InPool(d, p) => ~Queued(d) /\ d \notin tick.jobs
  /\ \A p, q \in Polls : InPool(d, p) /\ InPool(d, q) => p = q

LEMMA SingleIsOneTurn == \A d : OneTurn(d) <=> Single(d)
BY DEF OneTurn, Single, InPool

LEMMA QuietStep ==
  ASSUME TypeInv, AtMostOneJob, [Next]_vars,
         NEW x \in Devices \ Requested, x \notin request, x \notin starting, Single(x)
  PROVE  Single(x)'
<1> USE DEF Single, TypeInv, TypeOK, OutstandingHasDevice, InPool, Outstanding
<1>1. ASSUME NEW j \in queue, BecomeDue(j) PROVE Single(x)'
  <2>1. \A y : Queued(y)' <=> Queued(y)
    BY <1>1, DueChangeQueue DEF BecomeDue
  <2> QED
    BY <1>1, <2>1 DEF BecomeDue
<1>2. ASSUME NEW d \in Devices,
             RequestAdd(d) \/ RequestTrigger(d) \/ RequestSchedule(d) \/ ScheduleAll(d)
      PROVE  Single(x)'
  <2>1. d # x
    BY <1>2 DEF RequestAdd, RequestTrigger, RequestSchedule, ScheduleAll
  <2>2. Queued(x)' <=> Queued(x)
    <3>1. CASE RequestSchedule(d) \/ ScheduleAll(d)
      BY <2>1, <3>1, ScheduleDeviceQueue DEF RequestSchedule, ScheduleAll
    <3>2. CASE RequestAdd(d) \/ RequestTrigger(d)
      BY <3>2 DEF RequestAdd, RequestTrigger, Queued
    <3> QED
      BY <1>2, <3>1, <3>2
  <2>3. UNCHANGED <<tick, poll>>
    BY <1>2 DEF RequestAdd, RequestTrigger, RequestSchedule, ScheduleAll
  <2> QED
    BY <2>2, <2>3
<1>3. CASE Stop \/ Shutdown \/ Start
  BY <1>3 DEF Stop, Shutdown, Start, Queued
<1>4. CASE TickBegin \/ SubmitRaises
  BY <1>4 DEF TickBegin, SubmitRaises, Queued
<1>5. ASSUME NEW j \in queue, Collect(j) PROVE Single(x)'
  <2>1. CASE /\ queue' = (queue \ {j}) \cup {[j EXCEPT !.due = FALSE]}
             /\ UNCHANGED tick
    <3>1. \A y : Queued(y)' <=> Queued(y)
      BY <2>1, DueChangeQueue
    <3> QED
      BY <1>5, <2>1, <3>1 DEF Collect
  <2>2. CASE queue' = queue \ {j} /\ tick' = [tick EXCEPT !.jobs = @ \cup {j.ip}]
    <3>1. \A y : Queued(y)' <=> Queued(y) /\ y # j.ip
      BY <2>2 DEF Queued, AtMostOneJob
    <3>2. tick'.jobs = tick.jobs \cup {j.ip} /\ Queued(j.ip)
      BY <2>2 DEF Queued
    <3>3. poll' = poll
      BY <1>5 DEF Collect
    <3> QED
      BY <3>1, <3>2, <3>3
  <2> QED
    BY <1>5, <2>1, <2>2 DEF Collect
<1>6. CASE CollectEnd \/ Register \/ CallbackReturns
  <2>1. tick'.jobs = tick.jobs
    BY <1>6 DEF CollectEnd, Register, CallbackReturns
  <2>2. UNCHANGED <<queue, poll>>
    BY <1>6 DEF CollectEnd, Register, CallbackReturns
  <2> QED
    BY <2>1, <2>2 DEF Queued
<1>7. ASSUME NEW d \in Devices, NEW p \in Polls, Submit(d, p) PROVE Single(x)'
  <2>1. \A y \in Devices, q \in Polls :
          InPool(y, q)' <=> (q = p /\ y = d) \/ (q # p /\ InPool(y, q))
    BY <1>7 DEF Submit, FreePoll
  <2>2. \A y : Queued(y)' <=> Queued(y)
    BY <1>7 DEF Submit, Queued
  <2>3. tick'.jobs = tick.jobs \ {d} /\ d \in tick.jobs /\ ~Outstanding(p)
    BY <1>7 DEF Submit
  <2> HIDE DEF InPool
  <2> QED
    BY <2>1, <2>2, <2>3 DEF InPool
<1>8. CASE AddCallback
  <2>1. \A p \in Polls : poll'[p].stage = poll[p].stage /\ poll'[p].ip = poll[p].ip
    BY <1>8, AddCallbackUpdate DEF AddCallback, TickFuture
  <2>2. tick'.jobs = tick.jobs
    BY <1>8 DEF AddCallback
  <2> QED
    BY <1>8, <2>1, <2>2 DEF AddCallback, Queued
<1>9. ASSUME NEW p \in Polls, StartPoll(p) \/ FinishPoll(p) \/ CallbackPop(p) \/ Record(p)
      PROVE  Single(x)'
  <2>1. \A q \in Polls : /\ poll'[q].ip = poll[q].ip
                         /\ poll'[q].stage # "none" <=> poll[q].stage # "none"
    <3>1. CASE StartPoll(p) \/ CallbackPop(p)
      BY <3>1 DEF StartPoll, CallbackPop, Poll
    <3>2. CASE FinishPoll(p)
      <4>1. PICK o \in Outcomes \ {"none"} :
              poll' = [poll EXCEPT ![p].stage = "finished", ![p].outcome = o]
        BY <3>2 DEF FinishPoll
      <4>2. \A q \in Polls : /\ poll'[q].ip = poll[q].ip
                             /\ poll'[q].stage = IF q = p THEN "finished" ELSE poll[q].stage
        BY <4>1, FinishUpdate
      <4> QED
        BY <3>2, <4>2 DEF FinishPoll
    <3>3. CASE Record(p)
      BY <3>3, RecordUpdate
    <3> QED
      BY <1>9, <3>1, <3>2, <3>3
  <2>2. UNCHANGED <<queue, tick>>
    BY <1>9 DEF StartPoll, FinishPoll, CallbackPop, Record
  <2> QED
    BY <2>1, <2>2 DEF Queued
<1>10. ASSUME NEW p \in Polls, RecordError(p) PROVE Single(x)'
  <2>1. \A y \in Devices, q \in Polls : InPool(y, q)' => InPool(y, q)
    <3>1. CASE poll' = [poll EXCEPT ![p].stage = "recorded"]
      BY <1>10, <3>1 DEF RecordError, Poll
    <3>2. CASE poll' = [poll EXCEPT ![p] = FreePoll]
      BY <1>10, <3>2 DEF RecordError, FreePoll
    <3> QED
      BY <1>10, <3>1, <3>2 DEF RecordError
  <2>2. UNCHANGED <<queue, tick>>
    BY <1>10 DEF RecordError
  <2> HIDE DEF InPool
  <2> QED
    BY <2>1, <2>2 DEF Queued
<1>11. ASSUME NEW p \in Polls, Reschedule(p) PROVE Single(x)'
  <2>1. \A y : Queued(y)' <=> Queued(y) \/ y = poll[p].ip
    BY <1>11, ScheduleDeviceQueue DEF Reschedule
  <2>2. \A y \in Devices, q \in Polls : InPool(y, q)' <=> InPool(y, q) /\ q # p
    BY <1>11 DEF Reschedule, FreePoll
  <2>3. poll[p].ip \in Devices /\ InPool(poll[p].ip, p)
    BY <1>11 DEF Reschedule
  <2>4. UNCHANGED tick
    BY <1>11 DEF Reschedule
  <2> HIDE DEF InPool
  <2> QED
    BY <2>1, <2>2, <2>3, <2>4
<1>12. CASE UNCHANGED vars
  BY <1>12 DEF vars, Queued
<1> QED
  BY <1>1, <1>2, <1>3, <1>4, <1>5, <1>6, <1>7, <1>8, <1>9, <1>10, <1>11, <1>12
     DEF Next, SchedulerThread, Caller, Worker

(* No call is under way for a quiet device.                                 *)
NoCall == request \subseteq Requested

LEMMA NoCallStep == NoCall /\ [Next]_vars => NoCall'
<1> SUFFICES ASSUME NoCall, [Next]_vars PROVE NoCall'
  OBVIOUS
<1>1. CASE UNCHANGED request
  BY <1>1 DEF NoCall
<1>2. ASSUME NEW d \in Devices, RequestAdd(d) \/ RequestTrigger(d) \/ RequestSchedule(d)
      PROVE  NoCall'
  BY <1>2 DEF RequestAdd, RequestTrigger, RequestSchedule, NoCall
<1>3. CASE SchedulerThread
  BY <1>1, <1>3 DEF SchedulerThread, TickBegin, CollectEnd, SubmitRaises, Register, AddCallback,
              CallbackReturns, Collect, Submit
<1>4. ASSUME NEW p \in Polls, Worker(p) PROVE UNCHANGED request
  BY <1>4 DEF Worker, StartPoll, FinishPoll, CallbackPop, Record, RecordError, Reschedule
<1>5. ASSUME NEW j \in queue, BecomeDue(j) PROVE UNCHANGED request
  BY <1>5 DEF BecomeDue
<1>6. ASSUME NEW d \in Devices, ScheduleAll(d) PROVE UNCHANGED request
  BY <1>6 DEF ScheduleAll
<1>7. CASE Stop \/ Shutdown \/ Start \/ UNCHANGED vars
  BY <1>1, <1>7 DEF Stop, Shutdown, Start, vars
<1> QED
  BY <1>1, <1>2, <1>3, <1>4, <1>5, <1>6, <1>7 DEF Next, Caller

(* Neither the tick nor the callback makes two polls of one turn: a device  *)
(* nobody adds or triggers, once start() has added it and its turn is in    *)
(* one place, has one poll at a time until the poller is started again.     *)
THEOREM QuietDevicesNeverOverlap == Spec => QuietNoOverlap
<1> DEFINE Apart == \A d \in Devices \ Requested :
                      d \notin starting /\ OneTurn(d) => OneTurn(d)' /\ OverlapFree(d)'
<1>1. Init => NoCall
  BY DEF Init, NoCall
<1>2. SafeInv /\ NoCall /\ [Next]_vars => Apart
  <2> SUFFICES ASSUME SafeInv, NoCall, [Next]_vars, NEW d \in Devices \ Requested,
                      d \notin starting, OneTurn(d)
               PROVE  OneTurn(d)' /\ OverlapFree(d)'
    OBVIOUS
  <2>1. TypeInv /\ AtMostOneJob /\ d \notin request
    BY DEF SafeInv, NoCall
  <2>2. Single(d)
    BY SingleIsOneTurn
  <2>3. Single(d)'
    BY <2>1, <2>2, QuietStep
  <2>4. OneTurn(d)'
    BY <2>3 DEF OneTurn, Single, InPool, Outstanding, Queued
  <2>5. OverlapFree(d)'
    BY <2>3 DEF OverlapFree, Single, InPool, Outstanding
  <2> QED
    BY <2>4, <2>5
<1>3. Spec => []NoCall
  BY <1>1, NoCallStep, PTL DEF Spec
<1>4. Spec => []SafeInv
  BY SafeInvAlways
<1>5. Spec => [][Apart]_vars
  BY <1>2, <1>3, <1>4, PTL DEF Spec
<1> QED
  BY <1>5 DEF QuietNoOverlap

-----------------------------------------------------------------------------
LEMMA APStepIsStep == [APNext]_apVars => [Next]_vars
<1> SUFFICES ASSUME [APNext]_apVars PROVE [Next]_vars
  OBVIOUS
<1>1. ASSUME NEW d \in Devices, \/ AddPdu(d) \/ AddPduDevice(d) \/ CreateRow(d) \/ DeletePdu(d)
                               \/ TriggerPdu(d)
      PROVE  [Next]_vars
  BY <1>1 DEF AddPdu, AddPduDevice, CreateRow, DeletePdu, TriggerPdu, Next, Caller
<1>2. ASSUME NEW p \in Polls, StoreTelemetry(p) PROVE [Next]_vars
  BY <1>2 DEF StoreTelemetry, Next, Worker
<1>3. CASE \/ SchedulerThread \/ Stop \/ Shutdown \/ Start
           \/ \E p \in Polls : Worker(p)
           \/ \E j \in queue : BecomeDue(j)
           \/ \E d \in Devices : RequestSchedule(d) \/ ScheduleAll(d)
  BY <1>3 DEF Next, Caller
<1>4. CASE UNCHANGED apVars
  BY <1>4 DEF apVars
<1> QED
  BY <1>1, <1>2, <1>3, <1>4 DEF APNext

(* The rows beside the poller never make it do what the scheduler alone     *)
(* could not do: the composition implements PollScheduler.                  *)
THEOREM ImplementsScheduler == APSpec => Spec
<1>1. APInit => Init
  BY DEF APInit
<1> QED
  BY <1>1, APStepIsStep, PTL DEF APSpec, Spec
=============================================================================
