--------------------------- MODULE AdaptivePoller ---------------------------
(***************************************************************************)
(* The PDU rows of the database beside the SNMP poller that polls them     *)
(* (src/backend/app.py, adaptive_poller.py): startup, the endpoints that   *)
(* add, delete and poll a PDU, and the telemetry callback, which makes the *)
(* row of a PDU that has none.  The devices are local PDUs; those with a   *)
(* web_admin_port are read over HTTP by another poller (TelemetryCache).   *)
(***************************************************************************)
EXTENDS PollScheduler

VARIABLES
  pdus,     \* the devices that have a PDU row
  adding    \* calls of add_pdu_to_hall that have written the row

apVars == <<vars, pdus, adding>>

(* _ensure_adaptive_polling adds the local PDUs that have a row; the status *)
(* table may hold more devices.                                             *)
APInit ==
  /\ Init
  /\ pdus = {j.ip : j \in queue}
  /\ adding = {}

(* add_pdu_to_hall: upsert the row ...                                      *)
AddPdu(d) ==
  /\ d \in Requested /\ d \notin adding
  /\ pdus' = pdus \cup {d} /\ adding' = adding \cup {d}
  /\ UNCHANGED vars

(* ... and then add_device, which answers the request with an error when it *)
(* raises: the row stays.                                                   *)
AddPduDevice(d) ==
  /\ d \in adding
  /\ RequestAdd(d)
  /\ adding' = adding \ {d}
  /\ UNCHANGED pdus

(* Commissioning, imports and the tables of the pages upsert rows too, and  *)
(* none of them tells the poller: it learns of such a row at the next start.*)
CreateRow(d) ==
  /\ d \in Requested
  /\ pdus' = pdus \cup {d}
  /\ UNCHANGED <<vars, adding>>

(* delete_pdu: the poller has no remove_device, the AttributeError is       *)
(* swallowed, and the row is deleted.                                       *)
DeletePdu(d) ==
  /\ d \in Requested /\ d \in pdus
  /\ pdus' = pdus \ {d}
  /\ UNCHANGED <<vars, adding>>

(* trigger_device_poll; the pages offer it for the PDUs they list.          *)
TriggerPdu(d) ==
  /\ d \in pdus
  /\ RequestTrigger(d)
  /\ UNCHANGED <<pdus, adding>>

(* store_telemetry, when the result is a good poll: store_poll_snapshot     *)
(* creates the row of a PDU it does not find, unless it wrote for this      *)
(* address within a minute.                                                 *)
StoreTelemetry(p) ==
  /\ Record(p)
  /\ poll'[p].stage = "recorded"
  /\ pdus' = pdus \cup {poll[p].ip}
  /\ UNCHANGED adding

APNext ==
  \/ \E d \in Devices : \/ AddPdu(d) \/ AddPduDevice(d) \/ CreateRow(d) \/ DeletePdu(d)
                       \/ TriggerPdu(d)
  \/ \E p \in Polls : StoreTelemetry(p)
  \/ /\ UNCHANGED <<pdus, adding>>
     /\ \/ SchedulerThread
        \/ \E p \in Polls : Worker(p)
        \/ \E j \in queue : BecomeDue(j)
        \/ \E d \in Devices : RequestSchedule(d) \/ ScheduleAll(d)
        \/ Stop \/ Shutdown \/ Start

APSpec == APInit /\ [][APNext]_apVars

(* The scheduler thread and the workers keep running (an SNMP poll ends by  *)
(* its timeout), and start() goes through its devices; time passes and the  *)
(* queue lock is held for one collection only, so whoever waits for either  *)
(* gets it.                                                                 *)
Quietly(A) == A /\ UNCHANGED <<pdus, adding>>

APFairness ==
  /\ WF_apVars(Quietly(SchedulerThread))
  /\ \A p \in Polls :
       /\ SF_apVars(Quietly(Reschedule(p)))
       /\ WF_apVars(Quietly(StartPoll(p) \/ FinishPoll(p) \/ CallbackPop(p) \/ Record(p) \/ RecordError(p)))
  /\ \A d \in Requested : SF_apVars(Quietly(RequestSchedule(d)))
  /\ SF_apVars(Quietly(\E d \in Devices : ScheduleAll(d)))
  /\ \A d \in Devices : SF_apVars(Quietly(\E j \in queue : j.ip = d /\ BecomeDue(j)))

APFairSpec == APSpec /\ APFairness

=============================================================================
