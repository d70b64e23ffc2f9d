------------------------ MODULE DeviceState_proofs ------------------------
(***************************************************************************)
(* Theorems on the state machine of one device (DeviceState), for every    *)
(* threshold, backoff and duration, every set of loads, with rows that are *)
(* lost and restarts from those that were not.                             *)
(***************************************************************************)
EXTENDS DeviceState, TLAPS

(* What a status is in memory and in its row, which a restart makes the     *)
(* status again; the last conjunct is needed for StaysInAlarm.              *)
Sound(s) ==
  /\ s \in Persistent
  /\ OfflineMeansFailing(s)
  /\ BackoffBounded(s)
  /\ s.state = "alarm" => s.alarm

IInv ==
  /\ dev \in [status : Persistent, delta : Nat]
  /\ alarmAge \in 0 .. AlarmDuration
  /\ startKnown \in BOOLEAN
  /\ activeAge \in 0 .. ActiveWindow
  /\ Sound(dev.status)
  /\ Sound(saved)

(* The numbers stay in their ranges. *)
LEMMA LeastIn == ASSUME NEW n \in Nat, NEW a \in 0 .. n PROVE Least(a + 1, n) \in 0 .. n
BY DEF Least

LEMMA DistanceNat == ASSUME NEW a \in Nat, NEW b \in Nat PROVE Distance(a, b) \in Nat
BY DEF Distance

LEMMA NextBackoffIn ==
  ASSUME NEW b \in Nat PROVE NextBackoff(b) \in Nat /\ NextBackoff(b) <= BackoffMax
<1>1. b * BackoffMultiplier \in Nat
  BY BackoffAssumption
<1>2. BackoffMax \in Nat
  BY BackoffAssumption
<1> QED  BY <1>1, <1>2 DEF NextBackoff, Least

LEMMA NewStatusSound == Sound(NewStatus)
<1>1. NewStatus \in Persistent
  BY FailsAssumption, BackoffAssumption DEF NewStatus, Persistent, States
<1>2. OfflineMeansFailing(NewStatus)
  BY FailsAssumption DEF NewStatus, OfflineMeansFailing
<1>3. BackoffBounded(NewStatus)
  BY BackoffAssumption DEF NewStatus, BackoffBounded
<1> QED  BY <1>1, <1>2, <1>3 DEF Sound, NewStatus

(* Whatever a good poll reads, it makes a sound status: the state is        *)
(* "alarm" just when the flag is set.                                       *)
LEMMA GoodStatus ==
  ASSUME NEW load \in Nat, NEW delta, NEW seen, NEW alarm \in BOOLEAN, NEW outlets \in BOOLEAN
  PROVE  Sound([state |-> IF alarm THEN "alarm" ELSE LoadState(load, delta, seen),
                fails |-> 0, backoff |-> BackoffInitial, load |-> load,
                alarm |-> alarm, outlets |-> outlets, seenOk |-> TRUE])
<1> DEFINE state == IF alarm THEN "alarm" ELSE LoadState(load, delta, seen)
           s == [state |-> state, fails |-> 0, backoff |-> BackoffInitial, load |-> load,
                 alarm |-> alarm, outlets |-> outlets, seenOk |-> TRUE]
<1>1. state \in {"alarm", "online_active", "online_idle"} /\ (state = "alarm" => alarm)
  BY DEF LoadState
<1> HIDE DEF state
<1>2. s \in Persistent
  BY <1>1, FailsAssumption, BackoffAssumption DEF Persistent, States
<1>3. OfflineMeansFailing(s)
  BY <1>1, FailsAssumption DEF OfflineMeansFailing
<1>4. BackoffBounded(s)
  BY BackoffAssumption DEF BackoffBounded
<1>5. s.state = "alarm" => s.alarm
  BY <1>1
<1>6. Sound(s)
  BY <1>2, <1>3, <1>4, <1>5 DEF Sound
<1> QED  BY <1>6 DEF state

LEMMA SavedSound ==
  ASSUME NEW status, Sound(status), Sound(saved), Save(status) PROVE Sound(saved')
BY DEF Save

LEMMA InitIInv == Init => IInv
<1> SUFFICES ASSUME Init PROVE IInv
  OBVIOUS
<1>1. NewStatus \in Persistent /\ Sound(NewStatus)
  BY NewStatusSound DEF Sound
<1>2. dev.status = NewStatus /\ dev \in [status : Persistent, delta : Nat] /\ saved = NewStatus
  BY <1>1 DEF Init
<1>3. alarmAge \in 0 .. AlarmDuration /\ activeAge \in 0 .. ActiveWindow
  <2>1. alarmAge = AlarmDuration /\ activeAge = ActiveWindow
    BY DEF Init
  <2> QED  BY <2>1, ClockAssumption
<1>4. startKnown \in BOOLEAN
  BY DEF Init
<1> QED  BY <1>1, <1>2, <1>3, <1>4 DEF IInv

LEMMA SuccessIInv ==
  ASSUME IInv, NEW hasLoad \in BOOLEAN, NEW outlet \in BOOLEAN, NEW alarm \in BOOLEAN,
         NEW l \in Loads, RecordSuccess(hasLoad, l, outlet, alarm)
  PROVE  IInv'
<1> DEFINE s == dev.status
           load == IF hasLoad THEN l ELSE s.load
           delta == IF hasLoad THEN Distance(l, s.load) ELSE dev.delta
           starts == alarm /\ ~s.alarm
           seen == outlet \/ (s.outlets /\ activeAge < ActiveWindow)
           flag == InAlarm(starts, alarm)
           outlets == s.outlets \/ outlet
           status == [state |-> IF flag THEN "alarm" ELSE LoadState(load, delta, seen),
                      fails |-> 0, backoff |-> BackoffInitial, load |-> load,
                      alarm |-> flag, outlets |-> outlets, seenOk |-> TRUE]
<1>1. s.load \in Nat /\ s.alarm \in BOOLEAN /\ s.outlets \in BOOLEAN /\ dev.delta \in Nat
  BY DEF IInv, Persistent
<1>2. load \in Nat /\ l \in Nat
  BY <1>1, LoadAssumption
<1>3. delta \in Nat
  BY <1>1, <1>2, DistanceNat
<1>4. flag \in BOOLEAN /\ outlets \in BOOLEAN
  BY DEF InAlarm
<1>5. Sound(status)
  <2> HIDE DEF load, delta, seen, flag, outlets
  <2> QED  BY <1>2, <1>3, <1>4, GoodStatus
<1>6. /\ dev' = [status |-> status, delta |-> delta]
      /\ alarmAge' = IF starts THEN 0 ELSE alarmAge
      /\ startKnown' = (starts \/ startKnown)
      /\ activeAge' = IF outlet THEN 0 ELSE activeAge
      /\ Save(status)
  BY DEF RecordSuccess, AlarmFlag
<1>7. Sound(saved')
  BY <1>5, <1>6, SavedSound DEF IInv
<1>8. alarmAge' \in 0 .. AlarmDuration /\ activeAge' \in 0 .. ActiveWindow /\ startKnown' \in BOOLEAN
  BY <1>6, ClockAssumption DEF IInv
<1> HIDE DEF status, delta
<1>9. dev'.status = status /\ dev' \in [status : Persistent, delta : Nat]
  BY <1>3, <1>5, <1>6 DEF Sound
<1> QED  BY <1>5, <1>7, <1>8, <1>9 DEF IInv

LEMMA FailureIInv == ASSUME IInv, Failure PROVE IInv'
<1> DEFINE s == dev.status
           fails == Least(s.fails + 1, OfflineAfterFails)
           offline == fails >= OfflineAfterFails
           state == IF offline THEN "offline" ELSE s.state
           backoff == IF offline THEN NextBackoff(s.backoff) ELSE s.backoff
           status == [s EXCEPT !.fails = fails, !.state = state, !.backoff = backoff]
<1>1. s \in Persistent /\ Sound(s)
  BY DEF IInv
<1>2. fails \in 0 .. OfflineAfterFails
  BY <1>1, FailsAssumption, LeastIn DEF Persistent
<1>3. state \in States
  BY <1>1 DEF Persistent, States
<1>4. backoff \in Nat /\ backoff <= BackoffMax
  BY <1>1, NextBackoffIn DEF Persistent, Sound, BackoffBounded
<1>5. dev' = [dev EXCEPT !.status = status] /\ Save(status)
      /\ UNCHANGED <<alarmAge, startKnown, activeAge>>
  BY DEF Failure
<1>6. /\ offline => state = "offline"
      /\ ~offline => state = s.state /\ backoff = s.backoff
  OBVIOUS
<1>7. offline = (fails >= OfflineAfterFails) /\ (~offline => s.fails < OfflineAfterFails)
  BY <1>1, FailsAssumption DEF Least, Persistent
<1> HIDE DEF fails, offline, state, backoff
<1>8. /\ status \in Persistent
      /\ status.fails = fails /\ status.state = state /\ status.backoff = backoff
      /\ status.seenOk = s.seenOk /\ status.alarm = s.alarm
  BY <1>1, <1>2, <1>3, <1>4 DEF Persistent
<1> HIDE DEF status
<1>9. OfflineMeansFailing(status)
  <2>1. CASE offline
    BY <1>6, <1>7, <1>8, <2>1 DEF OfflineMeansFailing
  <2>2. CASE ~offline
    <3>1. ~(fails >= OfflineAfterFails) /\ s.fails < OfflineAfterFails /\ state = s.state
      BY <1>6, <1>7, <2>2
    <3>2. state = "offline" => s.fails >= OfflineAfterFails \/ ~s.seenOk
      BY <1>1, <3>1 DEF Sound, OfflineMeansFailing
    <3>3. s.fails \in Nat
      BY <1>1, FailsAssumption DEF Persistent
    <3> QED  BY <1>8, <3>1, <3>2, <3>3, FailsAssumption DEF OfflineMeansFailing
  <2> QED  BY <2>1, <2>2
<1>10. BackoffBounded(status)
  BY <1>1, <1>4, <1>6, <1>8 DEF Sound, BackoffBounded
<1>11. Sound(status)
  BY <1>1, <1>6, <1>8, <1>9, <1>10 DEF Sound
<1>12. Sound(saved')
  BY <1>5, <1>11, SavedSound DEF IInv
<1>13. dev'.status = status /\ dev' \in [status : Persistent, delta : Nat]
  BY <1>5, <1>8 DEF IInv
<1> QED  BY <1>5, <1>11, <1>12, <1>13 DEF IInv

LEMMA NextIInv == IInv /\ [Next]_vars => IInv'
<1> SUFFICES ASSUME IInv, [Next]_vars PROVE IInv'
  OBVIOUS
<1>1. CASE Success
  BY <1>1, SuccessIInv DEF Success
<1>2. CASE Failure
  BY <1>2, FailureIInv
<1>3. CASE Minute
  <2>1. alarmAge' \in 0 .. AlarmDuration /\ activeAge' \in 0 .. ActiveWindow
    BY <1>3, LeastIn, ClockAssumption DEF Minute, IInv
  <2> QED  BY <1>3, <2>1 DEF Minute, IInv, Sound
<1>4. CASE Restart
  <2>1. dev'.status = saved /\ dev' \in [status : Persistent, delta : Nat]
    BY <1>4 DEF Restart, IInv, Sound
  <2>2. alarmAge' = alarmAge /\ activeAge' = ActiveWindow /\ saved' = saved
    BY <1>4 DEF Restart
  <2>3. startKnown' \in BOOLEAN
    BY <1>4 DEF Restart
  <2>4. activeAge' \in 0 .. ActiveWindow
    BY <2>2, ClockAssumption
  <2> QED  BY <2>1, <2>2, <2>3, <2>4 DEF IInv
<1>5. CASE UNCHANGED vars
  BY <1>5 DEF vars, IInv, Sound
<1> QED  BY <1>1, <1>2, <1>3, <1>4, <1>5 DEF Next

LEMMA IInvAlways == Spec => []IInv
BY InitIInv, NextIInv, PTL DEF Spec

(* A device has exactly the variables record_poll_success,                  *)
(* record_poll_failure and _load_from_db give it, in their ranges.          *)
THEOREM TypeCorrect == Spec => []TypeOK
<1>1. IInv => TypeOK
  BY DEF IInv, TypeOK, Sound
<1> QED  BY <1>1, IInvAlways, PTL

(* A device is offline exactly when it failed often enough in a row or was  *)
(* never reached, and only such a device waits longer than the initial      *)
(* backoff, in memory and in its row, which a restart reads back however    *)
(* many writes of it were lost.                                             *)
THEOREM StatusAlwaysSound == Spec => []StatusSound
<1>1. IInv => StatusSound
  BY DEF IInv, Sound, StatusSound
<1> QED  BY <1>1, IInvAlways, PTL

(* Alarm mode is left after its duration, by going offline or by a restart, *)
(* not because the next polls report no alarm.                              *)
THEOREM AlarmKept == Spec => StaysInAlarm
<1>1. IInv /\ [Next]_vars =>
      [dev.status.state = "alarm" /\ dev'.status.state # "alarm" =>
         alarmAge >= AlarmDuration \/ dev'.status.state = "offline" \/ ~startKnown
         \/ dev'.status = saved]_vars
  <2> SUFFICES ASSUME IInv, [Next]_vars, dev.status.state = "alarm", dev'.status.state # "alarm"
               PROVE  \/ alarmAge >= AlarmDuration \/ dev'.status.state = "offline"
                      \/ ~startKnown \/ dev'.status = saved
    OBVIOUS
  <2>1. dev.status.alarm /\ alarmAge \in 0 .. AlarmDuration
    BY DEF IInv, Sound
  <2>2. CASE Success
    <3>1. PICK hasLoad \in BOOLEAN, outlet \in BOOLEAN, alarm \in BOOLEAN, l \in Loads :
            RecordSuccess(hasLoad, l, outlet, alarm)
      BY <2>2 DEF Success
    <3>2. InAlarm(alarm /\ ~dev.status.alarm, alarm) => dev'.status.state = "alarm"
      BY <3>1 DEF RecordSuccess
    <3>3. ~(startKnown /\ alarmAge < AlarmDuration)
      BY <2>1, <3>2 DEF InAlarm
    <3> QED  BY <2>1, <3>3, ClockAssumption
  <2>3. CASE Failure
    <3> DEFINE s == dev.status
               fails == Least(s.fails + 1, OfflineAfterFails)
               offline == fails >= OfflineAfterFails
               status == [s EXCEPT !.fails = fails,
                                   !.state = IF offline THEN "offline" ELSE @,
                                   !.backoff = IF offline THEN NextBackoff(@) ELSE @]
    <3>1. dev' = [dev EXCEPT !.status = status]
      BY <2>3 DEF Failure
    <3> HIDE DEF fails, offline
    <3>2. status.state = IF offline THEN "offline" ELSE s.state
      BY DEF IInv, Persistent
    <3>3. dev'.status = status
      BY <3>1 DEF IInv
    <3> QED  BY <3>2, <3>3
  <2>4. CASE Minute
    BY <2>4 DEF Minute
  <2>5. CASE Restart
    BY <2>5 DEF Restart
  <2>6. CASE UNCHANGED vars
    BY <2>6 DEF vars
  <2> QED  BY <2>2, <2>3, <2>4, <2>5, <2>6 DEF Next
<1> QED  BY <1>1, IInvAlways, PTL DEF Spec, StaysInAlarm
=============================================================================
