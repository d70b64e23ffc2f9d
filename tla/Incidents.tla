------------------------------ MODULE Incidents ------------------------------
(***************************************************************************)
(* From an alarm to a closed incident (src/backend/demo/incidents.py and   *)
(* integrations.py).  Dispatchers are the notifier loop and the polling    *)
(* threads, which dispatch an unplugged outlet in their own poll; beside   *)
(* them technicians acknowledge and resolve incidents, and whoever looks   *)
(* at the live board runs three repairs.                                   *)
(*                                                                         *)
(* Two JSON files hold the state: the incident records, always written     *)
(* under the lock of incidents.py, and the configuration with the alarms   *)
(* notified and suppressed, which integrations.py writes under its own     *)
(* lock and incidents.py under the other one.  A write of it is therefore  *)
(* two steps here, the load and the save, and a load beside a save may     *)
(* find the file truncated and fall back on the defaults.                  *)
(*                                                                         *)
(* A dispatcher takes one alarm at a time.  Escalation, the teams behind a *)
(* message, the three days after which a record expires and a crash within *)
(* a save are left out.                                                    *)
(***************************************************************************)
EXTENDS Naturals, Sequences, SequencesExt, FiniteSetsExt

CONSTANTS
  Alarms,        \* fingerprints: a PDU, an outlet or sensor, and a state
  Dispatchers,   \* the notifier loop, the polling threads, the route that synchronises
  Users,         \* the requests being served: of technicians, and of the live board
  MaxIncidents,  \* bound: records ever created
  MaxCrashes,    \* bound: restarts of the process
  Nil

Threads == Dispatchers \cup Users

ASSUME ThreadAssumption == Users \cap Dispatchers = {}
ASSUME BoundAssumption == MaxIncidents \in Nat \ {0} /\ MaxCrashes \in Nat

VARIABLES
  live,       \* the alarms in the poller's cache
  config,     \* integrations.json
  incidents,  \* incidents.json, in order of creation
  thread,     \* where each thread is, with its alarm, its records and its writes to come
  copy,       \* the configuration a thread has loaded and will save
  crashes

vars == <<live, config, incidents, thread, copy, crashes>>

-----------------------------------------------------------------------------
Config == [active : SUBSET Alarms, suppressed : SUBSET Alarms, enabled : BOOLEAN]
Defaults == [active |-> {}, suppressed |-> {}, enabled |-> FALSE]

(* "logged": the ledger has an INCIDENT_CLOSED.  The ledger has ACK_DISPATCH *)
(* and RESOLVED_CLAIMED exactly when the record is acked and resolved.       *)
Incident == [alarm : Alarms, notified : BOOLEAN, acked : BOOLEAN, resolved : BOOLEAN,
             closed : BOOLEAN, logged : BOOLEAN]

IntegrationsWrites == {"activate", "remove", "unsuppress", "suppress", "note"}
IncidentsWrites == {"deactivate", "log"}
Write == [op : IntegrationsWrites \cup IncidentsWrites, alarm : Alarms]

Pcs == {"idle", "collect", "suppressed", "active", "token", "check", "deliver", "find", "mark",
        "finalize", "stale", "finalizeStale", "superseded", "closeDuplicates"}
Thread == [pc : Pcs, alarm : Alarms \cup {Nil}, seen : BOOLEAN,
           todo : SUBSET (1 .. MaxIncidents), writes : Seq(Write)]
Idle == [pc |-> "idle", alarm |-> Nil, seen |-> FALSE, todo |-> {}, writes |-> <<>>]

(* The types of the variables. *)
TypeOK ==
  /\ live \subseteq Alarms
  /\ config \in Config
  /\ incidents \in Seq(Incident) /\ Len(incidents) <= MaxIncidents
  /\ thread \in [Threads -> Thread]
  /\ \A a \in Threads : thread[a].todo \subseteq DOMAIN incidents
  /\ copy \in [Threads -> Config \cup {Nil}]
  /\ crashes \in 0 .. MaxCrashes

Init ==
  /\ live = {}
  /\ config = [active |-> {}, suppressed |-> {}, enabled |-> TRUE]
  /\ incidents = <<>>
  /\ thread = [a \in Threads |-> Idle]
  /\ copy = [a \in Threads |-> Nil]
  /\ crashes = 0

-----------------------------------------------------------------------------
(* Reading and writing the configuration.                                   *)
ToWrite(op, f) == [op |-> op, alarm |-> f]
Op(a) == Head(thread[a].writes).op
Holds(a, lock) == copy[a] # Nil /\ Op(a) \in lock

LockOf(op) == IF op \in IntegrationsWrites THEN IntegrationsWrites ELSE IncidentsWrites

Written(c, w) ==
  [active |-> IF w.op = "activate" THEN c.active \cup {w.alarm}
              ELSE IF w.op \in {"deactivate", "remove"} THEN c.active \ {w.alarm} ELSE c.active,
   suppressed |-> IF w.op = "suppress" THEN c.suppressed \cup {w.alarm}
                  ELSE IF w.op = "unsuppress" THEN c.suppressed \ {w.alarm} ELSE c.suppressed,
   enabled |-> c.enabled]

(* A removal that finds nothing to remove does not save.                    *)
Saves(c, w) == w.op \in {"deactivate", "remove", "unsuppress"} => Written(c, w) # c

(* What a load under a lock may find, beside a save under the other lock.   *)
Loads(lock) ==
  {config} \cup
  IF \E b \in Threads : copy[b] # Nil /\ Op(b) \notin lock /\ Saves(copy[b], Head(thread[b].writes))
  THEN {Defaults} ELSE {}

Load(a) ==
  /\ thread[a].writes # <<>> /\ copy[a] = Nil
  /\ \A b \in Threads : ~Holds(b, LockOf(Op(a)))
  /\ \E c \in Loads(LockOf(Op(a))) : copy' = [copy EXCEPT ![a] = c]
  /\ UNCHANGED <<live, config, incidents, thread, crashes>>

Save(a) ==
  /\ copy[a] # Nil
  /\ LET w == Head(thread[a].writes) IN
       config' = IF Saves(copy[a], w) THEN Written(copy[a], w) ELSE config
  /\ thread' = [thread EXCEPT ![a].writes = Tail(@)]
  /\ copy' = [copy EXCEPT ![a] = Nil]
  /\ UNCHANGED <<live, incidents, crashes>>

(* A day after a technician resolved it, an alarm may be dispatched again.  *)
Lapse(f) ==
  /\ f \in config.suppressed
  /\ config' = [config EXCEPT !.suppressed = @ \ {f}]
  /\ UNCHANGED <<live, incidents, thread, copy, crashes>>

-----------------------------------------------------------------------------
(* The steps of a thread begin when its writes are done.                    *)
At(a, pc) == thread[a].pc = pc /\ thread[a].writes = <<>>
To(a, pc, writes) == thread' = [thread EXCEPT ![a].pc = pc, ![a].writes = writes]
Stop(a, writes) == thread' = [thread EXCEPT ![a] = [Idle EXCEPT !.writes = writes]]

(* Mutant: an acknowledged incident does not count as open.                 *)
OpenUnacked(f) == {i \in DOMAIN incidents : incidents[i].alarm = f /\ ~incidents[i].closed /\ ~incidents[i].acked}

Open(f) == {i \in DOMAIN incidents : incidents[i].alarm = f /\ ~incidents[i].closed}

(* The configuration as a read of a dispatcher finds it.                    *)
ConfigsRead == Loads(IntegrationsWrites)
CanRead == \A b \in Threads : ~Holds(b, IntegrationsWrites)

(* The poll that finds an outlet unplugged, or a synchronisation: a patch   *)
(* has it in the cache at once, a full poll only when it commits.  What     *)
(* follows is a check of all alarms, which an idle thread begins any time.  *)
Detect(d, f) ==
  /\ thread[d] = Idle /\ CanRead
  /\ live' \in {live, live \cup {f}}
  /\ \E c \in ConfigsRead : c.enabled
  /\ thread' = [thread EXCEPT ![d] = [Idle EXCEPT !.alarm = f, !.pc = "suppressed"]]
  /\ UNCHANGED <<config, incidents, copy, crashes>>

Appear(f) == f \notin live /\ live' = live \cup {f} /\ UNCHANGED <<config, incidents, thread, copy, crashes>>
Clear(f) == f \in live /\ live' = live \ {f} /\ UNCHANGED <<config, incidents, thread, copy, crashes>>

(* check_and_notify_alarms: the alarms notified are read, then the alarms   *)
(* there are.                                                               *)
BeginWith(d, f, c) ==
  /\ thread[d] = Idle /\ CanRead /\ c \in ConfigsRead /\ c.enabled
  /\ thread' = [thread EXCEPT ![d] = [Idle EXCEPT !.pc = "collect", !.alarm = f, !.seen = f \in c.active]]
  /\ UNCHANGED <<live, config, incidents, copy, crashes>>
Begin(d, f) == \E c \in ConfigsRead : BeginWith(d, f, c)

Collect(d) ==
  /\ At(d, "collect")
  /\ LET f == thread[d].alarm IN
     \/ f \in live /\ To(d, "suppressed", <<>>)
     \/ f \notin live /\ thread[d].seen /\ To(d, "find", <<ToWrite("unsuppress", f)>>)
     \/ f \notin live /\ ~thread[d].seen /\ Stop(d, <<>>)
  /\ UNCHANGED <<live, config, incidents, copy, crashes>>

CheckSuppressed(d) ==
  /\ At(d, "suppressed") /\ CanRead
  /\ \E c \in ConfigsRead :
       IF thread[d].alarm \in c.suppressed THEN Stop(d, <<>>) ELSE To(d, "active", <<>>)
  /\ UNCHANGED <<live, config, incidents, copy, crashes>>

(* Mutant: an alarm with an open incident counts as notified.               *)
CheckOpen(d) ==
  /\ At(d, "active") /\ CanRead
  /\ IF Open(thread[d].alarm) # {} THEN Stop(d, <<>>) ELSE To(d, "token", <<>>)
  /\ UNCHANGED <<live, config, incidents, copy, crashes>>

CheckActive(d) ==
  /\ At(d, "active") /\ CanRead
  /\ \E c \in ConfigsRead :
       IF thread[d].alarm \in c.active THEN Stop(d, <<>>) ELSE To(d, "token", <<>>)
  /\ UNCHANGED <<live, config, incidents, copy, crashes>>

-----------------------------------------------------------------------------

(* get_or_create_token: the open record of the alarm, or a new one.         *)
GetOrCreateToken(d) ==
  /\ At(d, "token")
  /\ LET f == thread[d].alarm IN
     \/ /\ Open(f) # {}
        /\ thread' = [thread EXCEPT ![d].pc = "check", ![d].todo = {Min(Open(f))}]
        /\ UNCHANGED incidents
     \/ /\ Open(f) = {} /\ Len(incidents) < MaxIncidents
        /\ incidents' = Append(incidents, [alarm |-> f, notified |-> FALSE, acked |-> FALSE,
                                           resolved |-> FALSE, closed |-> FALSE, logged |-> FALSE])
        /\ thread' = [thread EXCEPT ![d].pc = "check", ![d].todo = {Len(incidents) + 1}]
  /\ UNCHANGED <<live, config, copy, crashes>>

(* _dispatch_new_alarm                                                      *)
CheckDispatched(d) ==
  /\ At(d, "check")
  /\ \E i \in thread[d].todo :
     \/ (incidents[i].closed \/ incidents[i].resolved) /\ Stop(d, <<ToWrite("note", thread[d].alarm)>>)
     \/ /\ ~incidents[i].closed /\ ~incidents[i].resolved /\ incidents[i].notified
        /\ Stop(d, <<ToWrite("activate", thread[d].alarm)>>)
     \/ /\ ~incidents[i].closed /\ ~incidents[i].resolved /\ ~incidents[i].notified
        /\ To(d, "deliver", <<>>)
  /\ UNCHANGED <<live, config, incidents, copy, crashes>>

(* A member of the hall's team is reached; or the legacy chat, of which the *)
(* record's dispatch says nothing; or nobody.                               *)
Deliver(d) ==
  /\ At(d, "deliver")
  /\ \/ /\ incidents' = [i \in DOMAIN incidents |->
                           [incidents[i] EXCEPT !.notified = @ \/ i \in thread[d].todo]]
        /\ Stop(d, <<ToWrite("activate", thread[d].alarm)>>)
     \/ UNCHANGED incidents /\ Stop(d, <<ToWrite("activate", thread[d].alarm)>>)
  /\ UNCHANGED <<live, config, copy, crashes>>
DeliverFails(d) ==
  /\ At(d, "deliver") /\ Stop(d, <<ToWrite("note", thread[d].alarm)>>)
  /\ UNCHANGED <<live, config, incidents, copy, crashes>>

(* Mutant: the technician need not have resolved it.                        *)
FindAny(d) ==
  /\ At(d, "find")
  /\ LET f == thread[d].alarm IN
     IF Open(f) = {} THEN Stop(d, <<ToWrite("remove", f)>>) ELSE To(d, "mark", <<>>)
  /\ UNCHANGED <<live, config, incidents, copy, crashes>>

(* handle_alarm_telemetry_cleared: the alarm stays notified until the       *)
(* technician has resolved it.                                              *)
Find(d) ==
  /\ At(d, "find")
  /\ LET f == thread[d].alarm IN
     \/ Open(f) = {} /\ Stop(d, <<ToWrite("remove", f)>>)
     \/ /\ Open(f) # {}
        /\ IF incidents[Min(Open(f))].acked /\ incidents[Min(Open(f))].resolved
           THEN To(d, "mark", <<>>) ELSE Stop(d, <<>>)
  /\ UNCHANGED <<live, config, incidents, copy, crashes>>

(* _finalize_incident_record                                                *)
Finalized(is) ==
  [i \in DOMAIN incidents |->
     IF i \in is /\ ~incidents[i].closed THEN [incidents[i] EXCEPT !.closed = TRUE, !.logged = TRUE]
     ELSE incidents[i]]

(* mark_incident_cleared: every open record of the alarm.                   *)
MarkCleared(d) ==
  /\ At(d, "mark")
  /\ LET f == thread[d].alarm IN
       /\ incidents' = Finalized(Open(f))
       /\ Stop(d, <<ToWrite("deactivate", f), ToWrite("log", f), ToWrite("remove", f)>>)
  /\ UNCHANGED <<live, config, copy, crashes>>

-----------------------------------------------------------------------------
Acknowledge(u, i) ==
  /\ thread[u] = Idle /\ ~incidents[i].closed
  /\ incidents' = [incidents EXCEPT ![i].acked = TRUE]
  /\ Stop(u, <<ToWrite("log", incidents[i].alarm)>>)
  /\ UNCHANGED <<live, config, copy, crashes>>

Resolve(u, i) ==
  /\ thread[u] = Idle /\ ~incidents[i].closed /\ incidents[i].acked
  /\ incidents' = [incidents EXCEPT ![i].resolved = TRUE]
  /\ thread' = [thread EXCEPT ![u].pc = "finalize", ![u].todo = {i}]
  /\ UNCHANGED <<live, config, copy, crashes>>

(* finalize_incident_after_resolve closes, frees the alarm and then         *)
(* suppresses it.                                                           *)
FinalizeWrites(i) ==
  LET f == incidents[i].alarm IN
  IF incidents[i].closed THEN <<>>
  ELSE <<ToWrite("deactivate", f), ToWrite("suppress", f), ToWrite("log", f)>>

Finalize(u) ==
  /\ At(u, "finalize")
  /\ \E i \in thread[u].todo :
       /\ incidents' = Finalized({i})
       /\ Stop(u, FinalizeWrites(i) \o <<ToWrite("log", incidents[i].alarm)>>)
  /\ UNCHANGED <<live, config, copy, crashes>>

-----------------------------------------------------------------------------
(* get_live_dispatch: three repairs, then the board.                        *)
ReopenPremature(u) ==
  /\ thread[u] = Idle
  /\ incidents' = [i \in DOMAIN incidents |->
       LET r == incidents[i] IN
       IF r.closed /\ ~r.acked /\ ~r.resolved THEN [r EXCEPT !.closed = FALSE] ELSE r]
  /\ To(u, "stale", <<>>)
  /\ UNCHANGED <<live, config, copy, crashes>>

(* Mutant: the repair takes the incidents nobody acknowledged.              *)
StaleUnacked(i) == incidents[i].resolved /\ ~incidents[i].closed /\ ~incidents[i].acked
Stale(i) == incidents[i].resolved /\ ~incidents[i].closed /\ ~incidents[i].logged

FindStale(u) ==
  /\ At(u, "stale")
  /\ thread' = [thread EXCEPT ![u].pc = "finalizeStale",
                              ![u].todo = {i \in DOMAIN incidents : Stale(i)}]
  /\ UNCHANGED <<live, config, incidents, copy, crashes>>

FinalizeStale(u) ==
  /\ At(u, "finalizeStale")
  /\ LET todo == thread[u].todo IN
     \/ /\ todo # {}
        /\ incidents' = Finalized({Min(todo)})
        /\ thread' = [thread EXCEPT ![u].todo = todo \ {Min(todo)},
                                    ![u].writes = FinalizeWrites(Min(todo))]
     \/ todo = {} /\ To(u, "superseded", <<>>) /\ UNCHANGED incidents
  /\ UNCHANGED <<live, config, copy, crashes>>

ClosedAlarms == {incidents[i].alarm : i \in {i \in DOMAIN incidents : incidents[i].closed}}

FindSuperseded(u) ==
  /\ At(u, "superseded")
  /\ thread' = [thread EXCEPT ![u].pc = "closeDuplicates",
                              ![u].todo = {i \in DOMAIN incidents :
                                 /\ ~incidents[i].closed /\ incidents[i].alarm \in ClosedAlarms
                                 /\ ~incidents[i].acked /\ ~incidents[i].resolved}]
  /\ UNCHANGED <<live, config, incidents, copy, crashes>>

(* At the end every alarm a technician ever resolved is suppressed again.   *)
ResolvedAlarms ==
  {incidents[i].alarm : i \in {i \in DOMAIN incidents : incidents[i].closed /\ incidents[i].resolved}}

CloseSuperseded(u) ==
  /\ At(u, "closeDuplicates")
  /\ LET todo == thread[u].todo IN
     \/ /\ todo # {}
        /\ incidents' = Finalized({Min(todo)})
        /\ thread' = [thread EXCEPT ![u].todo = todo \ {Min(todo)},
             ![u].writes = IF incidents[Min(todo)].closed THEN <<>>
                                ELSE <<ToWrite("suppress", incidents[Min(todo)].alarm)>>]
     \/ /\ todo = {} /\ UNCHANGED incidents
        /\ Stop(u, [k \in 1 .. Cardinality(ResolvedAlarms) |->
                           ToWrite("suppress", SetToSeq(ResolvedAlarms)[k])])
  /\ UNCHANGED <<live, config, copy, crashes>>

(* The process starts again: both files are kept, the cache is empty.       *)
Crash ==
  /\ crashes < MaxCrashes /\ crashes' = crashes + 1
  /\ thread' = [a \in Threads |-> Idle] /\ copy' = [a \in Threads |-> Nil]
  /\ live' = {}
  /\ UNCHANGED <<config, incidents>>

-----------------------------------------------------------------------------
Dispatch(d) ==
  \/ Collect(d) \/ CheckSuppressed(d) \/ CheckActive(d) \/ GetOrCreateToken(d)
  \/ CheckDispatched(d) \/ Deliver(d) \/ DeliverFails(d) \/ Find(d) \/ MarkCleared(d)

Look(u) == ReopenPremature(u) \/ FindStale(u) \/ FinalizeStale(u) \/ FindSuperseded(u) \/ CloseSuperseded(u)

(* A thread goes on with what it has begun.                                 *)
Proceed(a) ==
  \/ Load(a) \/ Save(a)
  \/ a \in Dispatchers /\ Dispatch(a)
  \/ a \in Users /\ (Finalize(a) \/ Look(a))

Next ==
  \/ \E a \in Threads : Proceed(a)
  \/ \E d \in Dispatchers, f \in Alarms : Begin(d, f) \/ Detect(d, f)
  \/ \E u \in Users : \E i \in DOMAIN incidents : Acknowledge(u, i) \/ Resolve(u, i)
  \/ \E f \in Alarms : Appear(f) \/ Clear(f) \/ Lapse(f)
  \/ Crash

Spec == Init /\ [][Next]_vars

(* Threads go on; the notifier runs every 12 s and the board is looked at   *)
(* again and again; a message tried again and again arrives, and a          *)
(* configuration read again and again is not always found truncated.        *)
Fairness ==
  /\ \A a \in Threads : WF_vars(Proceed(a))
  /\ \A d \in Dispatchers : SF_vars(Deliver(d)) /\ \A f \in Alarms : SF_vars(BeginWith(d, f, config))
  /\ \A u \in Users : SF_vars(Look(u))

FairSpec == Spec /\ Fairness

-----------------------------------------------------------------------------
(* Incidents stay open until a technician has acknowledged and resolved     *)
(* them: a closed incident's alarm has one, itself or the one it duplicates *)
(* (handle_alarm_telemetry_cleared).                                        *)
ClosedByTechnician ==
  \A i \in DOMAIN incidents : incidents[i].closed =>
    \E j \in DOMAIN incidents : incidents[j].alarm = incidents[i].alarm
                              /\ incidents[j].acked /\ incidents[j].resolved

(* An alarm has at most one incident that was never closed, whoever         *)
(* dispatches it (get_or_create_token).                                     *)
OneFreshIncident ==
  \A f \in Alarms : Cardinality({i \in DOMAIN incidents : incidents[i].alarm = f /\ ~incidents[i].logged}) <= 1

(* An alarm that stays is, again and again, notified or suppressed, in      *)
(* spite of lost updates of the configuration, failed messages and a        *)
(* restart, until a torn configuration has disabled the notifications       *)
(* (check_and_notify_alarms).                                               *)
AlarmDispatched ==
  \A f \in Alarms :
    []<>(\/ f \notin live \/ f \in config.active \cup config.suppressed
         \/ ~config.enabled \/ Len(incidents) = MaxIncidents)

(* An incident a technician has resolved is closed again and again, by the *)
(* request itself or, after a restart between the two, by the repair of the *)
(* live board (repair_stale_resolved_incidents).  One case is excepted,     *)
(* and only after a restart: a duplicate closed and reopened before has its *)
(* INCIDENT_CLOSED in the ledger already, and the repair skips it for ever. *)
SkippedByRepair(i) == incidents[i].logged /\ crashes > 0
ResolvedCloses ==
  []<>(\A i \in DOMAIN incidents : incidents[i].resolved => incidents[i].closed \/ SkippedByRepair(i))
=============================================================================
