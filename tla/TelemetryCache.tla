--------------------------- MODULE TelemetryCache ---------------------------
(***************************************************************************)
(* The telemetry cache of one PDU read by multi_pdu_poller                 *)
(* (src/backend/app.py, telemetry_freshness.py): the background poll, the  *)
(* forced polls of requests, the outlet patches, and for a daisy-chain     *)
(* slave the fan-out of its master's poll.  All of them share the results, *)
(* the errors and the sample record of the address; a poll notes its       *)
(* outcome in the sample record and, later, commits its results by what    *)
(* that record then says.                                                  *)
(*                                                                         *)
(* A value is abstracted to the read that collected it, reads being        *)
(* numbered in the order they happen; the clock is the number of the last  *)
(* read.  A read may collect nothing: its results still hold the alarm     *)
(* flags that are computed of it.  The schedule (last poll, last error,    *)
(* failures in a row) only decides when the next poll begins, which here   *)
(* is at any time.  The outlet-load alarms derived from the readings are   *)
(* left out.                                                               *)
(***************************************************************************)
EXTENDS Naturals

CONSTANTS
  Pollers,     \* threads that poll the PDU
  Background,  \* the one among them that is multi_pdu_poller
  Patchers,    \* threads that patch the outlets
  MaxReads     \* bound of the model: reads of the PDU

ASSUME PollersAssumption == Background \in Pollers
ASSUME BoundAssumption == MaxReads \in Nat \ {0}

VARIABLES
  access,  \* how the PDU is read: web console, SNMP, or its chain master
  now,     \* the last read
  cache,   \* MULTI_PDU_RESULTS[ip]: the reads its telemetry and outlets are from
  errs,    \* is MULTI_PDU_ERRORS[ip] not empty
  sample,  \* MULTI_PDU_SAMPLE[ip]
  poll,    \* the polls under way
  patch,   \* the outlets each patch has read and not yet written
  stored,  \* how many telemetry rows hold the values of each read
  lost,    \* history: the results of the last full sample were dropped
  crossed  \* history: two polls of the PDU were under way at once

vars == <<access, now, cache, errs, sample, poll, patch, stored, lost, crossed>>

-----------------------------------------------------------------------------
Reads == 0 .. MaxReads    \* 0: no value

(* read: the read that made the dictionary; tele and outlets: the reads its *)
(* telemetry and its outlets are from.                                      *)
Results == [read : Reads, tele : Reads, outlets : Reads]
Empty == [read |-> 0, tele |-> 0, outlets |-> 0]
Collected(n, values) == [read |-> n, tele |-> IF values THEN n ELSE 0,
                         outlets |-> IF values THEN n ELSE 0]

Kinds == {"none", "full", "skipped", "unreachable", "auth_failed", "error"}
Sample == [kind : Kinds, measured : Reads, stale : {"unset", "yes", "no"},
           authentication : {"unknown", "ok", "failed"},
           reachability : {"unknown", "online", "offline"}]
NoSample == [kind |-> "none", measured |-> 0, stale |-> "unset",
             authentication |-> "unknown", reachability |-> "unknown"]

(* A poll holds a results dictionary: one of its own (res), or the very     *)
(* dictionary that is in the cache (shared), which outlet patches change.   *)
(* kind: what the commit returned.                                          *)
Pcs == {"idle", "begin", "login", "read", "commit", "finish", "fanout"}
Poll == [pc : Pcs, res : Results, shared : BOOLEAN, errs : BOOLEAN,
         repaired : BOOLEAN, kind : Kinds]
NoPoll == [pc |-> "idle", res |-> Empty, shared |-> FALSE, errs |-> FALSE,
           repaired |-> FALSE, kind |-> "none"]

Accesses == {"web", "snmp", "slave"}

(* The types of the variables. *)
TypeOK ==
  /\ access \in Accesses
  /\ errs \in BOOLEAN /\ lost \in BOOLEAN /\ crossed \in BOOLEAN
  /\ now \in Reads
  /\ cache \in Results
  /\ sample \in Sample
  /\ poll \in [Pollers -> Poll]
  /\ patch \in [Patchers -> Reads]
  /\ stored \in [Reads -> 0 .. 2]

Init ==
  /\ access \in Accesses
  /\ now = 0 /\ cache = Empty /\ errs = FALSE /\ sample = NoSample
  /\ poll = [p \in Pollers |-> NoPoll]
  /\ patch = [q \in Patchers |-> 0]
  /\ stored = [r \in Reads |-> 0]
  /\ lost = FALSE /\ crossed = FALSE

Held(p) == IF poll[p].shared THEN cache ELSE poll[p].res

(* p takes hold of the dictionary in the cache; a missing one is a new {}.  *)
TakeCache(f) == [f EXCEPT !.res = Empty, !.shared = (cache # Empty)]

(* The cache gets the dictionary of p; whoever held the old one keeps it.   *)
PutInCache(p) ==
  /\ cache' = Held(p)
  /\ poll' = [q \in Pollers |->
       IF q = p THEN [poll[p] EXCEPT !.shared = TRUE, !.kind = "full", !.pc = "finish"]
       ELSE IF poll[q].shared /\ ~poll[p].shared
       THEN [poll[q] EXCEPT !.res = cache, !.shared = FALSE] ELSE poll[q]]

-----------------------------------------------------------------------------
(* A poll of a PDU that is read on its own address: _poll_remote_pdu, and   *)
(* poll_single_pdu over SNMP, which has no login, and which only the        *)
(* background poller makes.                                                 *)
Another(p) == \E q \in Pollers \ {p} : poll[q].pc # "idle"

Begin(p) ==
  /\ poll[p].pc = "idle"
  /\ access = "web" \/ (access = "snmp" /\ p = Background)
  /\ poll' = [poll EXCEPT ![p] = [NoPoll EXCEPT !.pc = "begin"]]
  /\ crossed' = (crossed \/ Another(p))
  /\ UNCHANGED <<access, now, cache, errs, sample, patch, stored, lost>>

(* Mutant: a skipped cycle counts as a measurement.                         *)
SkipRenews(p) ==
  /\ poll[p].pc \in {"begin", "login"} /\ access = "web"
  /\ sample' = [sample EXCEPT !.kind = "skipped", !.measured = now]
  /\ poll' = [poll EXCEPT ![p] = [TakeCache(@) EXCEPT !.pc = "commit", !.errs = FALSE]]
  /\ UNCHANGED <<access, now, cache, errs, patch, stored, lost, crossed>>

(* Settings session or batch commissioning active, or the client busy.      *)
Skip(p) ==
  /\ poll[p].pc \in {"begin", "login"} /\ access = "web"
  /\ sample' = [sample EXCEPT !.kind = "skipped"]
  /\ poll' = [poll EXCEPT ![p] = [TakeCache(@) EXCEPT !.pc = "commit", !.errs = FALSE]]
  /\ UNCHANGED <<access, now, cache, errs, patch, stored, lost, crossed>>

(* No web port is open.  Over SNMP no answer at all ends as a read.         *)
Unreachable(p) ==
  /\ poll[p].pc = "begin" /\ access = "web"
  /\ sample' = [sample EXCEPT !.kind = "unreachable", !.reachability = "offline", !.stale = "yes"]
  /\ poll' = [poll EXCEPT ![p].pc = "commit", ![p].errs = TRUE]
  /\ UNCHANGED <<access, now, cache, errs, patch, stored, lost, crossed>>

(* One combination of endpoint and credentials fails; others may follow.    *)
AttemptFails(p) ==
  /\ poll[p].pc \in {"begin", "login"} /\ access = "web"
  /\ poll' = [poll EXCEPT ![p] = [TakeCache(@) EXCEPT !.pc = "login", !.errs = TRUE]]
  /\ UNCHANGED <<access, now, cache, errs, sample, patch, stored, lost, crossed>>

(* The credentials are repaired and the poll begins again, once.            *)
Repair(p) ==
  /\ poll[p].pc = "login" /\ ~poll[p].repaired
  /\ poll' = [poll EXCEPT ![p] = [NoPoll EXCEPT !.pc = "begin", !.repaired = TRUE]]
  /\ UNCHANGED <<access, now, cache, errs, sample, patch, stored, lost, crossed>>

GiveUp(p) ==
  /\ poll[p].pc = "login"
  /\ sample' = [sample EXCEPT !.kind = "auth_failed", !.authentication = "failed",
                              !.reachability = "online", !.stale = "yes"]
  /\ poll' = [poll EXCEPT ![p].pc = "commit"]
  /\ UNCHANGED <<access, now, cache, errs, patch, stored, lost, crossed>>

(* An attempt succeeds; the errors of earlier ones stay, and SNMP may leave *)
(* some objects out.  An empty answer of the web console is a success, and  *)
(* so is an SNMP read of which every object failed: the alarm flags are     *)
(* always among the results, so the test for empty results never fails.     *)
ReadTelemetry(p) ==
  /\ poll[p].pc \in {"begin", "login"}
  /\ now < MaxReads /\ now' = now + 1
  /\ \E partial, values \in BOOLEAN :
       poll' = [poll EXCEPT ![p].pc = "read", ![p].shared = FALSE,
                            ![p].res = Collected(now', values),
                            ![p].errs = @ \/ partial]
  /\ UNCHANGED <<access, cache, errs, sample, patch, stored, lost, crossed>>

FullSample(r) == [kind |-> "full", measured |-> r, stale |-> "no",
                  authentication |-> "ok", reachability |-> "online"]

NoteFull(p) ==
  /\ poll[p].pc = "read"
  /\ sample' = FullSample(poll[p].res.read)
  /\ poll' = [poll EXCEPT ![p].pc = "commit"]
  /\ UNCHANGED <<access, now, cache, errs, patch, stored, lost, crossed>>

(* Mutants of the commit: every outcome but a skipped one brings its        *)
(* results; a cached read is a new sample, too.                             *)
NewResultsAny(kind) == kind \notin {"none", "skipped"}
NewResultsSkipped(kind) == kind \in {"full", "skipped"}

(* commit_poll takes the results of a full sample only.                     *)
NewResults(kind) == kind = "full"

(* _commit_poll_cache: the sample record decides, whoever wrote it last.    *)
Commit(p) ==
  /\ poll[p].pc = "commit"
  /\ IF NewResults(sample.kind)
     THEN PutInCache(p)
     ELSE /\ poll' = [poll EXCEPT ![p] = [TakeCache(@) EXCEPT !.kind = sample.kind, !.pc = "finish"]]
          /\ UNCHANGED cache
  /\ errs' = IF sample.kind = "skipped" THEN errs ELSE poll[p].errs
  /\ lost' = (lost /\ ~NewResults(sample.kind))
  /\ UNCHANGED <<access, now, sample, patch, stored, crossed>>

(* _finish_poll_schedule stores a row after a full poll, unless one was     *)
(* stored within a minute or storing fails.                                 *)
Finish(p) ==
  /\ poll[p].pc = "finish"
  /\ \/ /\ poll[p].kind = "full"
        /\ stored' = [stored EXCEPT ![Held(p).read] = IF @ = 2 THEN 2 ELSE @ + 1]
     \/ UNCHANGED stored
  /\ poll' = [poll EXCEPT ![p] = NoPoll]
  /\ UNCHANGED <<access, now, cache, errs, sample, patch, lost, crossed>>

(* poll_single_pdu raises: policy, database.  The background poller notes   *)
(* it; a forced refresh only returns.                                       *)
Raise(p) ==
  /\ poll[p].pc \in {"begin", "login", "read"}
  /\ sample' = IF p = Background THEN [sample EXCEPT !.kind = "error", !.stale = "yes"] ELSE sample
  /\ poll' = [poll EXCEPT ![p] = NoPoll]
  /\ UNCHANGED <<access, now, cache, errs, patch, stored, lost, crossed>>

(* as_completed times out: the executor waits for the polls of the cycle,   *)
(* but nobody reads their futures, so results are not committed, and of a   *)
(* poll that raises nothing is noted.                                       *)
TimeOut ==
  /\ poll[Background].pc \in {"begin", "login", "read", "commit"}
  /\ lost' = (lost \/ (poll[Background].pc = "commit" /\ NewResults(sample.kind)))
  /\ poll' = [poll EXCEPT ![Background] = NoPoll]
  /\ UNCHANGED <<access, now, cache, errs, sample, patch, stored, crossed>>

-----------------------------------------------------------------------------
(* A slave's part of the poll of its master: _poll_chain_slaves.            *)
FanOutRead(p) ==
  /\ poll[p].pc = "idle" /\ access = "slave"
  /\ now < MaxReads /\ now' = now + 1
  /\ \E values \in BOOLEAN :
       poll' = [poll EXCEPT ![p] = [NoPoll EXCEPT !.pc = "fanout", !.res = Collected(now', values)]]
  /\ crossed' = (crossed \/ Another(p))
  /\ UNCHANGED <<access, cache, errs, sample, patch, stored, lost>>

FanOutWrite(p) ==
  /\ poll[p].pc = "fanout"
  /\ PutInCache(p)
  /\ errs' = FALSE
  /\ sample' = FullSample(poll[p].res.read)
  /\ UNCHANGED <<access, now, patch, stored, lost, crossed>>

FanOutFails(p) ==
  /\ poll[p].pc \in {"idle", "fanout"} /\ access = "slave"
  /\ sample' = [sample EXCEPT !.kind = "error", !.stale = "yes"]
  /\ poll' = [poll EXCEPT ![p] = NoPoll]
  /\ crossed' = (crossed \/ Another(p))
  /\ UNCHANGED <<access, now, cache, errs, patch, stored, lost>>

-----------------------------------------------------------------------------
(* patch_outlet_cache and patch_snmp_outlet_cache.                          *)
PatchRead(q) ==
  /\ patch[q] = 0
  /\ now < MaxReads /\ now' = now + 1
  /\ patch' = [patch EXCEPT ![q] = now']
  /\ UNCHANGED <<access, cache, errs, sample, poll, stored, lost, crossed>>

PatchWrite(q) ==
  /\ patch[q] # 0
  /\ cache' = [cache EXCEPT !.outlets = patch[q]]
  /\ errs' \in {errs, TRUE}
  /\ patch' = [patch EXCEPT ![q] = 0]
  /\ UNCHANGED <<access, now, sample, poll, stored, lost, crossed>>

Next ==
  \/ \E p \in Pollers :
       \/ Begin(p) \/ Skip(p) \/ Unreachable(p) \/ AttemptFails(p) \/ Repair(p) \/ GiveUp(p)
       \/ ReadTelemetry(p) \/ NoteFull(p) \/ Commit(p) \/ Finish(p) \/ Raise(p)
       \/ FanOutRead(p) \/ FanOutWrite(p) \/ FanOutFails(p)
  \/ TimeOut
  \/ \E q \in Patchers : PatchRead(q) \/ PatchWrite(q)

Spec == Init /\ [][Next]_vars

-----------------------------------------------------------------------------
(* live_payload.                                                            *)
Stale ==
  \/ sample.stale = "yes" \/ sample.authentication = "failed" \/ sample.reachability = "offline"
  \/ ~(sample.measured # 0 /\ sample.stale = "no") /\ cache # Empty

(* "A cache read, a skipped cycle, and an outlet-only patch must not renew  *)
(* the measurement time of the other values": values shown as fresh were    *)
(* measured when the live payload says.  It does not hold between the two   *)
(* steps in which a poll notes its sample and commits its results, nor      *)
(* after a cycle timed out between the two, until the next full poll, nor   *)
(* once two polls of the PDU, which share one sample record, were under way *)
(* together.                                                                *)
LiveHonest ==
  /\ ~Stale /\ cache # Empty
  /\ ~lost /\ ~crossed /\ \A p \in Pollers : poll[p].pc # "commit"
  => cache.tele \in {0, sample.measured}

(* "Without promoting a cached or failed read to a new sample", as far as   *)
(* the code keeps it: the results of a read are stored as a telemetry row   *)
(* at most once, and nothing but a read is stored, while polls of the PDU   *)
(* do not overlap.  A read that collected nothing counts as a sample.       *)
NoPromotion == ~crossed => stored[0] = 0 /\ \A r \in Reads : stored[r] <= 1

(* "Login failure and loss of reachability keep the last values": while     *)
(* polls do not overlap, telemetry in the cache never gets older, and it is *)
(* lost only to a newer read, one that was taken for full although it       *)
(* collected nothing.                                                       *)
LastValuesKept ==
  [][~crossed' => \/ cache'.tele >= cache.tele
                  \/ cache'.tele = 0 /\ cache'.read > cache.read]_vars

=============================================================================
