----------------------------- MODULE SnmpDoctor -----------------------------
(***************************************************************************)
(* The panel of the inventory tab that has the server test and fix the PDUs *)
(* of the hall (src/frontend/src/components/SnmpDoctorPanel.jsx), and the    *)
(* jobs that do (src/backend/app.py).  Its button waits for the job that is  *)
(* shown, not for the request that starts one.                              *)
(***************************************************************************)
EXTENDS WizardShell, FiniteSets, Sequences

CONSTANT MaxJobs    \* a bound of the model: jobs, and panels that start one

VARIABLES
  doctors,    \* the jobs of the server: which are done
  panel,      \* the panel that is open; 0 before it started anything
  starts,     \* requests to start a job, of which panel
  watched,    \* job: the job that is shown and whether it is done
  timers,     \* the intervals: of which panel, for which job, made when it was closed
  ref,        \* pollRef of each panel
  asks        \* requests of the intervals under way, with what the server read

doctorVars == <<doctors, panel, starts, watched, timers, ref, asks>>

NoneShown == [job |-> None, done |-> TRUE]

DoctorInit ==
  /\ doctors = <<>> /\ panel = 0 /\ starts = {} /\ watched = NoneShown
  /\ timers = {} /\ ref = <<>> /\ asks = {}

(* clearInterval(pollRef.current): no other interval of the panel ends.      *)
Stopped(p) == {t \in timers : t.panel = p => t.job # ref[p]}

(* The panel is part of the inventory tab.  An effect of its end clears its  *)
(* interval; the requests under way go on, and their answers still reach     *)
(* what the panel kept in pollRef.                                          *)
EntersDoctor ==
  IF OnTab("inventory") /\ ~OnTab("inventory")'
  THEN /\ watched' = NoneShown /\ panel' = 0
       /\ timers' = IF panel = 0 THEN timers ELSE Stopped(panel)
       /\ UNCHANGED <<doctors, starts, ref, asks>>
  ELSE UNCHANGED doctorVars

(* The button for all PDUs, and in the table of the job one for each that    *)
(* did not pass.                                                            *)
StartButton == OnTab("inventory") /\ watched.done
RetryRow == OnTab("inventory") /\ watched.job # None /\ watched.done

(* start; a panel has a number from its first one on. *)
StartDoctor ==
  /\ StartButton \/ RetryRow
  /\ Len(doctors) + Cardinality(starts) < MaxJobs /\ (panel = 0 => Len(ref) < MaxJobs)
  /\ ref' = IF panel = 0 THEN Append(ref, None) ELSE ref
  /\ panel' = IF panel = 0 THEN Len(ref) + 1 ELSE panel
  /\ \E n \in (1 .. MaxJobs) \ {s.n : s \in starts} :
       starts' = starts \cup {[n |-> n, panel |-> panel']}
  /\ UNCHANGED <<step, mode, loading, doctors, watched, timers, asks>>

(* The answer is an error, or is lost, whether or not the job began.        *)
StartFailed(s, began) ==
  /\ s \in starts
  /\ starts' = starts \ {s}
  /\ doctors' = IF began THEN Append(doctors, FALSE) ELSE doctors
  /\ UNCHANGED <<step, mode, loading, panel, watched, timers, ref, asks>>

(* Mutant: the interval of the job before is not cleared. *)
Beside(p, t) == timers \cup {t}

Instead(p, t) == Stopped(p) \cup {t}

(* commission_snmp_doctor_start, and its answer: the interval begins even     *)
(* when the panel is closed by then, and nothing is shown of it.            *)
DoctorStarted(s) ==
  /\ s \in starts
  /\ starts' = starts \ {s}
  /\ doctors' = Append(doctors, FALSE)
  /\ LET j == Len(doctors') IN
     /\ watched' = IF s.panel = panel THEN [job |-> j, done |-> FALSE] ELSE watched
     /\ timers' = Instead(s.panel, [panel |-> s.panel, job |-> j, late |-> s.panel # panel])
     /\ ref' = [ref EXCEPT ![s.panel] = j]
  /\ UNCHANGED <<step, mode, loading, panel, asks>>

(* Every 1.5 s, whether or not the last one is answered. *)
PollDoctor(t) ==
  /\ t \in timers
  /\ asks' = asks \cup {[panel |-> t.panel, job |-> t.job, done |-> doctors[t.job]]}
  /\ UNCHANGED <<step, mode, loading, doctors, panel, starts, watched, timers, ref>>

(* The answer of any job is shown; the end of any job stops the interval     *)
(* that its panel has by then.                                              *)
JobSeen(a) ==
  /\ a \in asks
  /\ asks' = asks \ {a}
  /\ watched' = IF a.panel = panel THEN [job |-> a.job, done |-> a.done] ELSE watched
  /\ timers' = IF a.done THEN Stopped(a.panel) ELSE timers
  /\ UNCHANGED <<step, mode, loading, doctors, panel, starts, ref>>

(* A failure stops it too; the job is still shown as it was, and the button   *)
(* waits for its end.                                                       *)
PollDoctorFailed(a) ==
  /\ a \in asks
  /\ asks' = asks \ {a}
  /\ timers' = Stopped(a.panel)
  /\ UNCHANGED <<step, mode, loading, doctors, panel, starts, watched, ref>>

(* The thread of the job. *)
DoctorDone(j) ==
  /\ j \in DOMAIN doctors /\ ~doctors[j]
  /\ doctors' = [doctors EXCEPT ![j] = TRUE]
  /\ UNCHANGED <<step, mode, loading, panel, starts, watched, timers, ref, asks>>

DoctorNext ==
  \/ StartDoctor
  \/ \E s \in starts : DoctorStarted(s) \/ \E b \in BOOLEAN : StartFailed(s, b)
  \/ \E t \in timers : PollDoctor(t)
  \/ \E j \in DOMAIN doctors : DoctorDone(j)
  \/ \E a \in asks : JobSeen(a) \/ PollDoctorFailed(a)
-----------------------------------------------------------------------------
(* However often the button is pressed before the first answer, and in       *)
(* whatever order the answers come, a panel has one interval: the one that   *)
(* its pollRef holds, which the end of a job or a failed request clears.     *)
(* None goes on for a panel that was closed, but for one that began after    *)
(* it was: the job was still being started, and nobody is shown it.         *)
OnePoller ==
  \A t \in timers : t.job = ref[t.panel] /\ (t.panel = panel \/ t.late)
=============================================================================
