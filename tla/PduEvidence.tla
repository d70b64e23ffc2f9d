---------------------------- MODULE PduEvidence ----------------------------
(***************************************************************************)
(* What the dashboard knows of the PDUs of the hall it lists, and what it  *)
(* shows of them: the polling effect of                                    *)
(* src/frontend/src/components/Dashboard2.jsx and the rules of             *)
(* rackStatus.js and rackPower.js in src/frontend/src/utils.  A sweep asks *)
(* the server for all PDUs in parallel and applies the answers together;   *)
(* sweeps overlap, as the intervals start the next one whether the last    *)
(* has ended or not.                                                       *)
(*                                                                         *)
(* Time is counted in steps of the designer's clock, statusNow, which is   *)
(* set every 5 s and so never more than one step behind (Clock).  The      *)
(* server keeps the outcome of its last poll of a PDU (the background      *)
(* poller of app.py, TelemetryCache).  A sample carries the number of the  *)
(* attempt instead of last_attempt_at.  A rack's colour and its total are  *)
(* read from different values of a sample, either of which a poll may lack. *)
(***************************************************************************)
EXTENDS Naturals, FiniteSets

CONSTANTS
  PDUs,
  Polled,     \* those the server polls, it knows nothing of the others
  None,
  Fresh,      \* STATUS_FRESH_MS
  MaxNow,     \* bounds of the model: time,
  MaxPolls,   \* polls and probes of a PDU,
  MaxSweeps   \* and sweeps under way

ASSUME PolledAssumption == Polled \subseteq PDUs
ASSUME FreshAssumption == Fresh \in Nat \ {0}
ASSUME BoundsAssumption == MaxNow \in Nat \ {0} /\ {MaxPolls, MaxSweeps} \subseteq Nat

VARIABLES
  now,
  power,      \* the power state of each PDU
  last,       \* and when it last was on, and off
  cache,      \* the server's last sample of each PDU
  polls,      \* attempts the server made on each PDU
  probes,     \* and connection probes, each of which answers one request
  listed,     \* hallPDUs
  sweeps,
  evidence    \* evidenceRef of each PDU, None without an entry

evVars == <<now, power, last, cache, polls, probes, listed, sweeps, evidence>>

Time == 0 .. MaxNow

(* state: what the sample says of the power, by a state or a voltage.       *)
(* load: the power state in which the watts of the sample were drawn, none  *)
(* when no total can be read.  at: measured_at, 0 for none.  attempt: 0     *)
(* when the server knows nothing.                                           *)
Sample == [state : {"on", "off", "unknown"}, load : {"on", "off", "none"}, at : Time,
           attempt : 0 .. MaxPolls, stale : BOOLEAN]
Pending == [state |-> "unknown", load |-> "none", at |-> 0, attempt |-> 0, stale |-> FALSE]

Comm == [state : {"none", "online", "offline", "unknown"}, probe : 0 .. MaxPolls]
NoComm == [state |-> "none", probe |-> 0]
Evidence == [telemetry : Sample \cup {None}, unavailable : BOOLEAN,
             comm : Comm]
NoEvidence == [telemetry |-> None, unavailable |-> FALSE, comm |-> NoComm]

(* A sweep of these PDUs has a row for each that has answered: for a probe  *)
(* one of Comm, for a live sweep a record as fetchPduLiveAlarms builds it,  *)
(* None for a failure.  The model knows a sweep from its first answer on;   *)
(* nothing depends on one that has none yet.                                *)
Sweep(kind, ps) == [kind |-> kind, of |-> ps, current |-> TRUE, row |-> [p \in {} |-> None]]
Done(s) == DOMAIN s.row = s.of

EvInit ==
  /\ now = 1
  /\ power \in [Polled -> {"on", "off"}]
  /\ last = [p \in Polled |-> [s \in {"on", "off"} |-> IF s = power[p] THEN 1 ELSE 0]]
  /\ cache = [p \in PDUs |-> Pending]
  /\ polls = [p \in PDUs |-> 0]
  /\ probes = [p \in PDUs |-> 0]
  /\ listed = {}
  /\ sweeps = {}
  /\ evidence = [p \in PDUs |-> None]
-----------------------------------------------------------------------------
(* The world: time, the PDUs, and the polls of the server.                  *)
Tick ==
  /\ now < MaxNow
  /\ now' = now + 1
  /\ last' = [p \in Polled |-> [last[p] EXCEPT ![power[p]] = now + 1]]
  /\ UNCHANGED <<power, cache, polls, probes, listed, sweeps, evidence>>

(* A PDU is switched once, a bound of the model. *)
Switch(p) ==
  LET s == IF power[p] = "on" THEN "off" ELSE "on"
  IN /\ last[p][s] = 0
     /\ power' = [power EXCEPT ![p] = s]
     /\ last' = [last EXCEPT ![p] = [@ EXCEPT ![s] = now]]
     /\ UNCHANGED <<now, cache, polls, probes, listed, sweeps, evidence>>

Attempted(p, sample) ==
  /\ polls[p] < MaxPolls
  /\ polls' = [polls EXCEPT ![p] = @ + 1]
  /\ cache' = [cache EXCEPT ![p] = [sample EXCEPT !.attempt = polls[p] + 1]]
  /\ UNCHANGED <<now, power, last, probes, listed, sweeps, evidence>>

(* A full read has the state, the watts, both or, with every value failed,  *)
(* none of them.                                                            *)
PollOk(p) ==
  \E state \in {power[p], "unknown"}, load \in {power[p], "none"} :
    Attempted(p, [Pending EXCEPT !.state = state, !.load = load, !.at = now])

(* A failed attempt leaves the last values and marks them.                  *)
PollFails(p) == Attempted(p, [cache[p] EXCEPT !.stale = TRUE])

-----------------------------------------------------------------------------
(* mergeCommunicationEvidence *)
MergeComm(old, row) ==
  IF row = None
  THEN [old EXCEPT !.state = IF @ = "offline" THEN "offline" ELSE "unknown"]
  ELSE IF row.probe < old.probe THEN old ELSE row

(* mergeDeviceEvidence: an older attempt changes nothing; a newer one with  *)
(* an older sample keeps the sample but takes the outcome.                  *)
OlderAttempt(old, new) ==
  old # None /\ old.attempt # 0 /\ new.attempt # 0 /\ new.attempt < old.attempt
OlderSample(old, new) ==
  old # None /\ old.at # 0 /\ new.at # 0 /\ new.at < old.at

Merge(old, row) ==
  IF row = None THEN [old EXCEPT !.unavailable = TRUE]
  ELSE IF OlderAttempt(old.telemetry, row.telemetry) THEN old
  ELSE IF OlderSample(old.telemetry, row.telemetry)
  THEN [old EXCEPT !.unavailable = FALSE,
                   !.telemetry = [@ EXCEPT !.stale = row.telemetry.stale,
                                           !.attempt = row.telemetry.attempt]]
  ELSE [old EXCEPT !.unavailable = FALSE,
                   !.telemetry = row.telemetry]

(* retainHallEvidence *)
Retain(ev, ps) == [p \in PDUs |-> IF p \in ps THEN ev[p] ELSE None]
EntryOf(ev, p) == IF ev[p] = None THEN NoEvidence ELSE ev[p]

(* The effect of a new hallPDUs array: the sweeps of the old one are        *)
(* cancelled (what they bring does not matter any more) and, unless the     *)
(* array is empty, the evidence of other PDUs is dropped and a sweep of     *)
(* each kind starts.                                                        *)
Cancelled ==
  {[s EXCEPT !.current = FALSE, !.row = [p \in s.of |-> None]] : s \in sweeps}
List(ps) ==
  /\ listed' = ps
  /\ evidence' = IF ps = {} THEN evidence ELSE Retain(evidence, ps)
  /\ sweeps' = Cancelled
  /\ UNCHANGED <<now, power, last, cache, polls, probes>>

(* The answer of p, to a sweep under way or as the first one to a sweep     *)
(* that an interval has started.                                            *)
Answer(kind, p, row) ==
  \E s \in sweeps \cup {Sweep(kind, listed)} :
    LET rows == [q \in DOMAIN s.row \cup {p} |-> IF q = p THEN row ELSE s.row[q]] IN
    /\ s.kind = kind
    /\ p \in s.of \ DOMAIN s.row
    /\ s \in sweeps \/ Cardinality(sweeps) < MaxSweeps
    /\ sweeps' = (sweeps \ {s}) \cup {[s EXCEPT !.row = rows]}

(* What fetchPduLiveAlarms makes of the server's answer. *)
LiveRow(p) == [telemetry |-> cache[p]]

LiveAnswered(p) ==
  /\ \E row \in {LiveRow(p), None} : Answer("live", p, row)
  /\ UNCHANGED <<now, power, last, cache, polls, probes, listed, evidence>>

(* The server probes the PDU for each request, and says when it did. *)
ProbeAnswered(p) ==
  /\ \/ /\ p \in Polled
        /\ probes[p] < MaxPolls
        /\ probes' = [probes EXCEPT ![p] = @ + 1]
        /\ \E st \in {"online", "offline"} :
             Answer("probe", p, [state |-> st, probe |-> probes[p] + 1])
     \/ Answer("probe", p, None) /\ UNCHANGED probes
  /\ UNCHANGED <<now, power, last, cache, polls, listed, evidence>>

(* Mutant: the sweep of an earlier list is applied to its own PDUs. *)
CurrentAny(s) == TRUE

(* cancelled *)
Current(s) == s.current

(* applyLivePollResults and publishEvidence *)
ApplyLive(s) ==
  /\ s.kind = "live" /\ Done(s)
  /\ sweeps' = sweeps \ {s}
  /\ evidence' = IF ~Current(s) THEN evidence
                 ELSE [p \in PDUs |-> IF p \in s.of
                                      THEN Merge(EntryOf(evidence, p), s.row[p]) ELSE None]
  /\ UNCHANGED <<now, power, last, cache, polls, probes, listed>>

(* The first phase of fetchLiveStatus ends; its second one is a live sweep. *)
ApplyProbe(s) ==
  LET comm(p) == MergeComm(EntryOf(evidence, p).comm, s.row[p])
  IN /\ s.kind = "probe" /\ Done(s)
     /\ sweeps' = sweeps \ {s}
     /\ evidence' = IF ~Current(s) THEN evidence
                    ELSE [p \in PDUs |-> IF p \in s.of
                                         THEN [EntryOf(evidence, p) EXCEPT !.comm = comm(p)]
                                         ELSE None]
     /\ UNCHANGED <<now, power, last, cache, polls, probes, listed>>

EvNext ==
  \/ Tick
  \/ \E p \in Polled : Switch(p) \/ PollFails(p) \/ PollOk(p)
  \/ \E p \in PDUs : LiveAnswered(p) \/ ProbeAnswered(p)
  \/ \E s \in sweeps : ApplyLive(s) \/ ApplyProbe(s)

(* The list of the designer changes at any time. *)
EvSpec == EvInit /\ [][EvNext \/ \E ps \in SUBSET PDUs : List(ps)]_evVars
-----------------------------------------------------------------------------
(* isFresh; a sample may be a step younger than the clock it is judged by.  *)
Clock == {now - 1, now}
IsFresh(at, t) == at # 0 /\ at <= t + 1 /\ t <= at + Fresh

(* Mutant: the poll is as good as a measurement. *)
MeasuredAny(p, t) ==
  LET e == EntryOf(evidence, p)
  IN /\ e.telemetry # None
     /\ e.telemetry.state # "unknown"
     /\ ~e.unavailable
     /\ e.comm.state # "offline"

(* The sample of a PDU can be shown: neither a failed attempt nor a lost    *)
(* connection came after it, and it is fresh.                               *)
Measured(p, t) ==
  LET e == EntryOf(evidence, p)
  IN /\ e.telemetry # None
     /\ ~e.unavailable
     /\ ~e.telemetry.stale
     /\ e.comm.state # "offline"
     /\ IsFresh(e.telemetry.at, t)

(* deviceStatus: the power state of a PDU, "unknown" unless measured. *)
Power(p, t) == IF Measured(p, t) THEN evidence[p].telemetry.state ELSE "unknown"

(* aggregateRackStatus, for a rack with these PDUs.  It says "warning" for  *)
(* a measured PDU with an alarm in its entry, which never comes to be: the  *)
(* rows have the alarm of the sample as alarm, merge reads alarms.          *)
RackStatus(ps, t) ==
  LET states == {Power(p, t) : p \in ps}
  IN IF ps = {} THEN "no_pdu"
     ELSE IF "unknown" \in states THEN "unknown"
     ELSE IF states = {"on"} THEN "on"
     ELSE IF states = {"off"} THEN "off"
     ELSE "partial"

(* devicePowerReport, which reads the entry on its own: the sample has a    *)
(* reading of the power that can be shown.                                  *)
Reported(p, t) ==
  LET e == EntryOf(evidence, p)
  IN /\ e.telemetry # None
     /\ e.telemetry.load # "none"
     /\ ~e.telemetry.stale
     /\ IsFresh(e.telemetry.at, t)
     /\ e.comm.state # "offline"
     /\ ~e.unavailable

(* Mutant: the total is that of the PDUs that have one. *)
RackTotalOfSome(ps, t) == \E p \in ps : Reported(p, t)

(* aggregateRackPower: whether a total is shown for the rack.               *)
RackTotal(ps, t) == ps # {} /\ \A p \in ps : Reported(p, t)
-----------------------------------------------------------------------------
(* The entries have the fields of rackStatus.js, and the PDUs are listed ones. *)
EvTypeOK ==
  /\ now \in Time
  /\ power \in [Polled -> {"on", "off"}]
  /\ last \in [Polled -> [{"on", "off"} -> Time]]
  /\ cache \in [PDUs -> Sample]
  /\ polls \in [PDUs -> 0 .. MaxPolls]
  /\ probes \in [PDUs -> 0 .. MaxPolls]
  /\ listed \subseteq PDUs
  /\ evidence \in [PDUs -> Evidence \cup {None}]

(* A PDU was in state s not longer ago than a confirmation lasts, with the  *)
(* step that the clock of the designer may be behind.                       *)
Recently(p, s) == p \in Polled /\ last[p][s] # 0 /\ now <= last[p][s] + Fresh + 1

(* What the watts of a PDU are a reading of. *)
LoadOf(p) ==
  LET e == EntryOf(evidence, p)
  IN IF e.telemetry = None THEN "none" ELSE e.telemetry.load

(* "Every assigned PDU is confirmed on / off": whatever polls fail, sweeps  *)
(* overtake each other or stay out, the state shown of a rack is one its    *)
(* PDUs were in within the time of freshness.                               *)
ConfirmedIsRecent ==
  \A ps \in SUBSET listed, t \in Clock :
    LET shown == RackStatus(ps, t)
    IN /\ shown \in {"on", "off"} => \A p \in ps : Recently(p, shown)
       /\ shown = "partial" => \A s \in {"on", "off"} : \E p \in ps : Recently(p, s)

(* "Verified rack total: one fresh device total per assigned PDU ...        *)
(* Missing, stale or partial coverage is not a total": where the plaque of  *)
(* a rack shows a total, every PDU of the rack has watts in it that it drew *)
(* within the time of freshness; one that stayed out of a sweep, or whose   *)
(* poll failed, takes the total away and does not count as nothing.         *)
TotalIsRecent ==
  \A ps \in SUBSET listed, t \in Clock :
    RackTotal(ps, t) => \A p \in ps : \E s \in {"on", "off"} : LoadOf(p) = s /\ Recently(p, s)

(* Nothing is shown of a PDU that is not in the hall on display: a sweep of *)
(* the hall before may end at any time.                                     *)
EvidenceOfHall == listed # {} => \A p \in PDUs \ listed : evidence[p] = None
=============================================================================
