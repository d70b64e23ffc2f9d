---------------------------- MODULE DeviceState ----------------------------
(***************************************************************************)
(* The per-device state machine behind the SNMP poller (src/backend/       *)
(* polling/device_state.py): what record_poll_success and                  *)
(* record_poll_failure make of a device's state, failure count, backoff    *)
(* and alarm, the copy of it in sqlite, and a restart from that copy.      *)
(* Devices do not share state, so the module follows one of them.          *)
(*                                                                         *)
(* Clocks are kept as ages, in minutes, and stop counting at the age from  *)
(* which on the code does not tell them apart.                             *)
(***************************************************************************)
EXTENDS Integers

CONSTANTS
  OfflineAfterFails,   \* consecutive failures that make a device offline
  DefaultBackoff,      \* backoff_sec of a new status
  BackoffInitial, BackoffMax, BackoffMultiplier,
  ActiveLoad, LoadDelta,            \* watts
  AlarmDuration,       \* minutes in alarm mode
  ActiveWindow,        \* minutes an outlet seen active keeps the device active
  Loads,               \* readings of the total load, in watts
  SaveMayFail,         \* may sqlite raise in _save_device
  MayRestart           \* may the backend be restarted

ASSUME FailsAssumption == OfflineAfterFails \in Nat \ {0}
ASSUME BackoffAssumption ==
  /\ {DefaultBackoff, BackoffInitial, BackoffMax, BackoffMultiplier} \subseteq Nat \ {0}
  /\ DefaultBackoff <= BackoffMax /\ BackoffInitial <= BackoffMax
ASSUME LoadAssumption == Loads \subseteq Nat /\ {ActiveLoad, LoadDelta} \subseteq Nat
ASSUME ClockAssumption == AlarmDuration \in Nat \ {0} /\ ActiveWindow \in Nat \ {0}
ASSUME SwitchAssumption == SaveMayFail \in BOOLEAN /\ MayRestart \in BOOLEAN

VARIABLES
  dev,        \* the DeviceStatus in memory
  alarmAge,   \* minutes since alarm mode was entered
  startKnown, \* alarm_start_at is that of the alarm mode, not 0
  activeAge,  \* minutes since last_active_at
  saved       \* the device's row in device_poll_state

vars == <<dev, alarmAge, startKnown, activeAge, saved>>

States == {"offline", "online_idle", "online_active", "alarm"}

(* consecutive_fails counts on; the model stops at the threshold, beyond    *)
(* which the code does not tell counts apart.  seenOk is                    *)
(* successful_polls > 0.                                                    *)
Persistent == [state : States, fails : 0 .. OfflineAfterFails, backoff : Nat, load : Nat,
               alarm : BOOLEAN, outlets : BOOLEAN, seenOk : BOOLEAN]

(* The types of the variables; every age ends at the limit it is compared   *)
(* with.                                                                    *)
TypeOK ==
  /\ dev \in [status : Persistent, delta : Nat]
  /\ alarmAge \in 0 .. AlarmDuration
  /\ startKnown \in BOOLEAN
  /\ activeAge \in 0 .. ActiveWindow
  /\ saved \in Persistent

NewStatus == [state |-> "offline", fails |-> 0, backoff |-> DefaultBackoff, load |-> 0,
              alarm |-> FALSE, outlets |-> FALSE, seenOk |-> FALSE]

Init ==
  /\ dev = [status |-> NewStatus, delta |-> 0]
  /\ alarmAge = AlarmDuration /\ startKnown = FALSE
  /\ activeAge = ActiveWindow
  /\ saved = NewStatus

Least(a, b) == IF a < b THEN a ELSE b
Distance(a, b) == IF a < b THEN b - a ELSE a - b

-----------------------------------------------------------------------------
(* _determine_state without the alarm: any load, jump of the load, or       *)
(* outlet seen active lately makes the device active.                       *)
LoadState(load, delta, outletSeen) ==
  IF load > ActiveLoad \/ delta > LoadDelta \/ outletSeen
  THEN "online_active" ELSE "online_idle"

(* _save_device: the row follows memory unless sqlite raises.               *)
Save(status) == saved' = status \/ (SaveMayFail /\ UNCHANGED saved)

(* Alarm mode after a good poll that starts it or not; the alarm flag is    *)
(* cleared when the mode is over.  It is not prolonged by a further alarm.  *)
(* Mutant: the mode ends as soon as no alarm is reported.                   *)
InAlarmReported(starts, alarm) == alarm
InAlarm(starts, alarm) ==
  starts \/ (dev.status.alarm /\ startKnown /\ alarmAge < AlarmDuration)
AlarmFlag(starts, alarm) == InAlarm(starts, alarm)

(* record_poll_success of results with load l (when hasLoad), an active     *)
(* outlet or not, and an alarm value or not.                                *)
RecordSuccess(hasLoad, l, outlet, alarm) ==
  LET s == dev.status
      load == IF hasLoad THEN l ELSE s.load
      delta == IF hasLoad THEN Distance(l, s.load) ELSE dev.delta
      starts == alarm /\ ~s.alarm
      outletSeen == outlet \/ (s.outlets /\ activeAge < ActiveWindow)
      status == [state |-> IF InAlarm(starts, alarm) THEN "alarm" ELSE LoadState(load, delta, outletSeen),
                 fails |-> 0, backoff |-> BackoffInitial, load |-> load,
                 alarm |-> AlarmFlag(starts, alarm), outlets |-> s.outlets \/ outlet, seenOk |-> TRUE]
  IN /\ dev' = [status |-> status, delta |-> delta]
     /\ alarmAge' = IF starts THEN 0 ELSE alarmAge
     /\ startKnown' = (starts \/ startKnown)
     /\ activeAge' = IF outlet THEN 0 ELSE activeAge
     /\ Save(status)

Success == \E hasLoad, outlet, alarm \in BOOLEAN : \E l \in Loads :
             RecordSuccess(hasLoad, l, outlet, alarm)

(* Mutant: the backoff has no maximum.                                      *)
NextBackoffUncapped(b) == b * BackoffMultiplier

(* The backoff doubles up to its maximum.                                   *)
NextBackoff(b) == Least(b * BackoffMultiplier, BackoffMax)

(* record_poll_failure.                                                     *)
Failure ==
  LET s == dev.status
      fails == Least(s.fails + 1, OfflineAfterFails)
      offline == fails >= OfflineAfterFails
      status == [s EXCEPT !.fails = fails,
                          !.state = IF offline THEN "offline" ELSE @,
                          !.backoff = IF offline THEN NextBackoff(@) ELSE @]
  IN /\ dev' = [dev EXCEPT !.status = status]
     /\ Save(status)
     /\ UNCHANGED <<alarmAge, startKnown, activeAge>>

(* Time passes.                                                             *)
Minute ==
  /\ alarmAge' = Least(alarmAge + 1, AlarmDuration)
  /\ activeAge' = Least(activeAge + 1, ActiveWindow)
  /\ <<alarmAge, activeAge>> # <<alarmAge', activeAge'>>
  /\ UNCHANGED <<dev, startKnown, saved>>

(* The backend restarts: _load_from_db.  alarm_start_at, last_active_at and *)
(* last_load_delta are not in the table and are 0 again.                    *)
Restart ==
  /\ MayRestart
  /\ dev' = [status |-> saved, delta |-> 0]
  /\ startKnown' = FALSE
  /\ activeAge' = ActiveWindow
  /\ UNCHANGED <<alarmAge, saved>>

Next == Success \/ Failure \/ Minute \/ Restart

Spec == Init /\ [][Next]_vars

-----------------------------------------------------------------------------
(* A device is offline exactly when it failed often enough in a row, or was *)
(* never reached; this survives restarts from stale rows.                   *)
OfflineMeansFailing(s) ==
  /\ s.fails >= OfflineAfterFails => s.state = "offline"
  /\ s.state = "offline" => s.fails >= OfflineAfterFails \/ ~s.seenOk

(* Only an offline device waits longer than the initial backoff, and none   *)
(* longer than the maximum.                                                 *)
BackoffBounded(s) ==
  /\ s.backoff <= BackoffMax
  /\ s.seenOk /\ s.state # "offline" => s.backoff = BackoffInitial

StatusSound == \A s \in {dev.status, saved} : OfflineMeansFailing(s) /\ BackoffBounded(s)

(* "Stay in alarm mode for 2 minutes": alarm mode is left after its         *)
(* duration or by going offline, not sooner, unless the process restarted   *)
(* since: the start of the mode is not saved.                               *)
StaysInAlarm ==
  [][dev.status.state = "alarm" /\ dev'.status.state # "alarm" =>
       alarmAge >= AlarmDuration \/ dev'.status.state = "offline" \/ ~startKnown
       \/ dev'.status = saved]_vars

=============================================================================
