----------------------- MODULE TelemetryCache_proofs -----------------------
(* Proofs about the telemetry cache.  Its type holds for any pollers; that *)
(* its values are what it says they are holds for any pollers too, as long *)
(* as no two polls of the PDU were under way at once.                      *)
EXTENDS TelemetryCache, TLAPS

USE DEF Reads

-----------------------------------------------------------------------------
(* What holds while polls do not overlap.  A read that is on its way to the *)
(* cache is newer than the cache and not stored yet; while its results are  *)
(* being committed, the sample record speaks of that read.                  *)
OnlyBusy(p) == \A q \in Pollers \ {p} : poll[q].pc = "idle"

Fresh(res) == /\ res.read # 0 /\ res.read <= now /\ stored[res.read] = 0 /\ cache.read < res.read
              /\ res.tele \in {0, res.read}

Committing(p) == poll[p].pc = "commit" /\ sample.kind = "full"

ReadIsFresh(p) ==
  \/ poll[p].pc \in {"read", "fanout"}
  \/ Committing(p)
  => ~poll[p].shared /\ Fresh(poll[p].res)

CommitsItsSample(p) == Committing(p) => sample = FullSample(poll[p].res.read)

FinishesInCache(p) ==
  poll[p].pc = "finish" /\ poll[p].kind = "full" =>
    poll[p].shared /\ cache.read # 0 /\ stored[cache.read] = 0

PastOnly == cache.read <= now /\ \A r \in Reads : r > now => stored[r] = 0

OwnTelemetry == cache.tele \in {0, cache.read}

StoredOnce == stored[0] = 0 /\ \A r \in Reads : stored[r] <= 1

(* The sample record, unless it marks the values stale, says when they were *)
(* measured.                                                                *)
RecordHonest(p) ==
  /\ ~Committing(p) /\ ~lost
  /\ sample.stale = "no" /\ sample.measured # 0
  => cache.read = sample.measured

PollInv(p) ==
  /\ ReadIsFresh(p) /\ CommitsItsSample(p) /\ FinishesInCache(p) /\ RecordHonest(p)
  /\ PastOnly /\ OwnTelemetry /\ StoredOnce

OneAtATime == \E p \in Pollers : OnlyBusy(p) /\ PollInv(p)

ApartInv == ~crossed => OneAtATime

-----------------------------------------------------------------------------

LEMMA NoPollType == NoPoll \in Poll /\ Empty \in Results
  BY BoundAssumption DEF NoPoll, Poll, Pcs, Kinds, Results, Empty

LEMMA CollectedType ==
  ASSUME NEW n \in Reads, NEW v \in BOOLEAN
  PROVE  Collected(n, v) \in Results /\ Collected(n, v).read = n /\ Collected(n, v).tele \in {0, n}
  BY BoundAssumption DEF Collected, Results

LEMMA TypeInit == Init => TypeOK
<1> SUFFICES ASSUME Init PROVE TypeOK
  OBVIOUS
<1>1. NoSample \in Sample
  BY BoundAssumption DEF NoSample, Sample, Kinds
<1>2. /\ errs \in BOOLEAN /\ lost \in BOOLEAN /\ crossed \in BOOLEAN /\ access \in Accesses
  BY DEF Init
<1>3. now \in Reads /\ patch \in [Patchers -> Reads] /\ stored \in [Reads -> 0 .. 2]
  BY BoundAssumption DEF Init
<1>4. cache \in Results /\ sample \in Sample /\ poll \in [Pollers -> Poll]
  BY <1>1, NoPollType DEF Init
<1>5. QED
  BY <1>2, <1>3, <1>4 DEF TypeOK

(* Whatever a poll holds are results.                                      *)
LEMMA HeldType == ASSUME TypeOK, NEW p \in Pollers PROVE Held(p) \in Results
  BY DEF TypeOK, Held, Poll, Results

(* A poll that takes hold of the cache is a poll.                         *)
LEMMA TakeType ==
  ASSUME NEW f \in Poll
  PROVE TakeCache(f) \in Poll
<1> DEFINE b == cache # Empty
<1>1. TakeCache(f) = [f EXCEPT !.res = Empty, !.shared = b]
  BY DEF TakeCache
<1>2. b \in BOOLEAN
  OBVIOUS
<1> HIDE DEF b
<1>3. QED
  BY <1>1, <1>2, NoPollType DEF Poll

(* ... and its record with the fields of the next step changed.            *)
LEMMA TakenType ==
  ASSUME NEW f \in Poll, NEW k \in Kinds
  PROVE /\ [TakeCache(f) EXCEPT !.pc = "commit", !.errs = FALSE] \in Poll
        /\ [TakeCache(f) EXCEPT !.pc = "login", !.errs = TRUE] \in Poll
        /\ [TakeCache(f) EXCEPT !.kind = k, !.pc = "finish"] \in Poll
<1> DEFINE g == TakeCache(f)
<1>1. g \in Poll
  BY TakeType
<1> HIDE DEF g
<1>2. /\ [g EXCEPT !.pc = "commit", !.errs = FALSE] \in Poll
      /\ [g EXCEPT !.pc = "login", !.errs = TRUE] \in Poll
      /\ [g EXCEPT !.kind = k, !.pc = "finish"] \in Poll
  BY <1>1 DEF Poll, Pcs
<1>3. QED
  BY <1>2 DEF g

(* Putting results in the cache keeps the types.                           *)
LEMMA PutType ==
  ASSUME TypeOK, NEW p \in Pollers, PutInCache(p)
  PROVE cache' \in Results /\ poll' \in [Pollers -> Poll]
<1>1. cache' \in Results
  BY HeldType DEF PutInCache
<1>2. ASSUME NEW q \in Pollers
      PROVE /\ [poll[p] EXCEPT !.shared = TRUE, !.kind = "full", !.pc = "finish"] \in Poll
            /\ [poll[q] EXCEPT !.res = cache, !.shared = FALSE] \in Poll
            /\ poll[q] \in Poll
  BY DEF TypeOK, Poll, Pcs, Kinds
<1>3. QED
  BY <1>1, <1>2 DEF PutInCache

(* The type invariant is inductive.                                        *)
LEMMA TypeStep == TypeOK /\ [Next]_vars => TypeOK'
<1> SUFFICES ASSUME TypeOK, [Next]_vars PROVE TypeOK'
  OBVIOUS
<1> USE BoundAssumption, PollersAssumption
<1>1. ASSUME NEW p \in Pollers, Begin(p) PROVE TypeOK'
  BY <1>1, NoPollType DEF Begin, TypeOK, Poll, Pcs, Another
<1>2. ASSUME NEW p \in Pollers, Skip(p) PROVE TypeOK'
  <2>1. sample' \in Sample
    BY <1>2 DEF Skip, TypeOK, Sample, Kinds
  <2>2. [TakeCache(poll[p]) EXCEPT !.pc = "commit", !.errs = FALSE] \in Poll
    BY TakenType DEF TypeOK, Kinds
  <2>3. QED
    BY <1>2, <2>1, <2>2 DEF Skip, TypeOK
<1>3. ASSUME NEW p \in Pollers, Unreachable(p) PROVE TypeOK'
  <2>1. sample' \in Sample
    BY <1>3 DEF Unreachable, TypeOK, Sample, Kinds
  <2>2. [poll[p] EXCEPT !.pc = "commit", !.errs = TRUE] \in Poll
    BY DEF TypeOK, Poll, Pcs
  <2>3. poll' = [poll EXCEPT ![p] = [poll[p] EXCEPT !.pc = "commit", !.errs = TRUE]]
    BY <1>3 DEF Unreachable, TypeOK, Poll
  <2>4. QED
    BY <1>3, <2>1, <2>2, <2>3 DEF Unreachable, TypeOK
<1>4. ASSUME NEW p \in Pollers, AttemptFails(p) PROVE TypeOK'
  <2>1. [TakeCache(poll[p]) EXCEPT !.pc = "login", !.errs = TRUE] \in Poll
    BY TakenType DEF TypeOK, Kinds
  <2>2. QED
    BY <1>4, <2>1 DEF AttemptFails, TypeOK
<1>5. ASSUME NEW p \in Pollers, Repair(p) PROVE TypeOK'
  <2>1. [NoPoll EXCEPT !.pc = "begin", !.repaired = TRUE] \in Poll
    BY NoPollType DEF Poll, Pcs
  <2>2. QED
    BY <1>5, <2>1 DEF Repair, TypeOK
<1>6. ASSUME NEW p \in Pollers, GiveUp(p) PROVE TypeOK'
  <2>1. sample' \in Sample
    BY <1>6 DEF GiveUp, TypeOK, Sample, Kinds
  <2>2. poll' \in [Pollers -> Poll]
    BY <1>6 DEF GiveUp, TypeOK, Poll, Pcs
  <2>3. QED
    BY <1>6, <2>1, <2>2 DEF GiveUp, TypeOK
<1>7. ASSUME NEW p \in Pollers, ReadTelemetry(p) PROVE TypeOK'
  <2>1. PICK partial \in BOOLEAN, values \in BOOLEAN :
          poll' = [poll EXCEPT ![p].pc = "read", ![p].shared = FALSE,
                               ![p].res = Collected(now', values),
                               ![p].errs = @ \/ partial]
    BY <1>7 DEF ReadTelemetry
  <2>2. now' \in Reads
    BY <1>7 DEF ReadTelemetry, TypeOK
  <2>3. Collected(now', values) \in Results
    BY <2>2, CollectedType
  <2>4. (poll[p].errs \/ partial) \in BOOLEAN
    OBVIOUS
  <2>5. poll' \in [Pollers -> Poll]
    <3> DEFINE e == poll[p].errs \/ partial
               t == Collected(now', values)
               f == [poll[p] EXCEPT !.pc = "read", !.shared = FALSE, !.res = t, !.errs = e]
    <3>1. poll' = [poll EXCEPT ![p] = f]
      BY <2>1 DEF TypeOK, Poll
    <3>2. e \in BOOLEAN /\ t \in Results
      BY <2>3, <2>4
    <3>3. f \in Poll
      <4> HIDE DEF e, t
      <4>1. QED
        BY <3>2 DEF TypeOK, Poll, Pcs
    <3> HIDE DEF f
    <3>4. QED
      BY <3>1, <3>3 DEF TypeOK
  <2>6. QED
    BY <1>7, <2>2, <2>5 DEF ReadTelemetry, TypeOK
<1>8. ASSUME NEW p \in Pollers, NoteFull(p) PROVE TypeOK'
  <2>1. FullSample(poll[p].res.read) \in Sample
    BY DEF TypeOK, Poll, Results, FullSample, Sample, Kinds
  <2>2. QED
    BY <1>8, <2>1 DEF NoteFull, TypeOK, Poll, Pcs
<1>9. ASSUME NEW p \in Pollers, Commit(p) PROVE TypeOK'
  <2>1. errs' \in BOOLEAN /\ lost' \in BOOLEAN
    BY <1>9 DEF Commit, TypeOK, Poll
  <2>2. cache' \in Results /\ poll' \in [Pollers -> Poll]
    <3>1. CASE NewResults(sample.kind)
      BY <1>9, <3>1, PutType DEF Commit
    <3>2. CASE ~NewResults(sample.kind)
      <4>1. [TakeCache(poll[p]) EXCEPT !.kind = sample.kind, !.pc = "finish"] \in Poll
        BY TakenType DEF TypeOK, Sample
      <4>2. QED
        BY <1>9, <3>2, <4>1 DEF Commit, TypeOK
    <3>3. QED
      BY <3>1, <3>2
  <2>3. QED
    BY <1>9, <2>1, <2>2 DEF Commit, TypeOK
<1>10. ASSUME NEW p \in Pollers, Finish(p) PROVE TypeOK'
  <2>1. stored' \in [Reads -> 0 .. 2]
    <3>1. Held(p).read \in Reads
      BY HeldType DEF Results
    <3>2. CASE stored' = stored
      BY <3>2 DEF TypeOK
    <3>3. CASE stored' = [stored EXCEPT ![Held(p).read] = IF @ = 2 THEN 2 ELSE @ + 1]
      <4> DEFINE h == Held(p).read
      <4>1. (IF stored[h] = 2 THEN 2 ELSE stored[h] + 1) \in 0 .. 2
        BY <3>1 DEF TypeOK
      <4> HIDE DEF h
      <4>2. QED
        BY <3>3, <4>1 DEF TypeOK, h
    <3>4. QED
      BY <1>10, <3>2, <3>3 DEF Finish
  <2>2. QED
    BY <1>10, <2>1, NoPollType DEF Finish, TypeOK
<1>11. ASSUME NEW p \in Pollers, Raise(p) PROVE TypeOK'
  BY <1>11, NoPollType DEF Raise, TypeOK, Sample, Kinds
<1>12. ASSUME TimeOut PROVE TypeOK'
  BY <1>12, NoPollType DEF TimeOut, TypeOK
<1>13. ASSUME NEW p \in Pollers, FanOutRead(p) PROVE TypeOK'
  <2>1. now' \in Reads
    BY <1>13 DEF FanOutRead, TypeOK
  <2>2. PICK values \in BOOLEAN :
          poll' = [poll EXCEPT ![p] = [NoPoll EXCEPT !.pc = "fanout", !.res = Collected(now', values)]]
    BY <1>13 DEF FanOutRead
  <2> DEFINE t == Collected(now', values)
             f == [NoPoll EXCEPT !.pc = "fanout", !.res = t]
  <2>3. t \in Results
    BY <2>1, CollectedType
  <2>4. f \in Poll
    <3> HIDE DEF t
    <3> QED
      BY <2>3, NoPollType DEF Poll, Pcs
  <2>5. poll' \in [Pollers -> Poll]
    <3> HIDE DEF f
    <3> QED
      BY <2>2, <2>4 DEF TypeOK, f
  <2>6. crossed' \in BOOLEAN
    BY <1>13 DEF FanOutRead, TypeOK
  <2> HIDE DEF f, t
  <2> QED
    BY <1>13, <2>1, <2>5, <2>6 DEF FanOutRead, TypeOK
<1>14. ASSUME NEW p \in Pollers, FanOutWrite(p) PROVE TypeOK'
  <2>1. FullSample(poll[p].res.read) \in Sample
    BY DEF TypeOK, Poll, Results, FullSample, Sample, Kinds
  <2>2. QED
    BY <1>14, <2>1, PutType DEF FanOutWrite, TypeOK
<1>15. ASSUME NEW p \in Pollers, FanOutFails(p) PROVE TypeOK'
  BY <1>15, NoPollType DEF FanOutFails, TypeOK, Sample, Kinds
<1>16. ASSUME NEW q \in Patchers, PatchRead(q) PROVE TypeOK'
  BY <1>16 DEF PatchRead, TypeOK
<1>17. ASSUME NEW q \in Patchers, PatchWrite(q) PROVE TypeOK'
  <2>1. errs' \in BOOLEAN
    BY <1>17, Zenon DEF PatchWrite, TypeOK
  <2>2. cache' \in Results
    BY <1>17 DEF PatchWrite, TypeOK, Results
  <2>3. patch' \in [Patchers -> Reads]
    BY <1>17 DEF PatchWrite, TypeOK
  <2>4. QED
    BY <1>17, <2>1, <2>2, <2>3 DEF PatchWrite, TypeOK
<1>18. CASE UNCHANGED vars
  BY <1>18 DEF vars, TypeOK
<1>19. QED
  BY <1>1, <1>2, <1>3, <1>4, <1>5, <1>6, <1>7, <1>8, <1>9, <1>10, <1>11, <1>12,
     <1>13, <1>14, <1>15, <1>16, <1>17, <1>18 DEF Next

(* The state of the cache, of the sample record and of every poll keeps    *)
(* its type, whoever polls and patches.                                    *)
THEOREM CacheTypeCorrect == Spec => []TypeOK
  BY TypeInit, TypeStep, PTL DEF Spec

-----------------------------------------------------------------------------
(* Telemetry in the cache never gets older, except that a newer read may   *)
(* have collected none.                                                    *)
Newer == \/ cache'.tele >= cache.tele
         \/ cache'.tele = 0 /\ cache'.read > cache.read

LEMMA ApartInit == Init => ApartInv
<1> SUFFICES ASSUME Init PROVE OnlyBusy(Background) /\ PollInv(Background)
  BY PollersAssumption DEF ApartInv, OneAtATime
<1>1. OnlyBusy(Background)
  BY DEF OnlyBusy, Init, NoPoll
<1>2. PollInv(Background)
  BY PollersAssumption, BoundAssumption
  DEF Init, PollInv, ReadIsFresh, Committing, CommitsItsSample, FinishesInCache,
      PastOnly, OwnTelemetry, StoredOnce, RecordHonest, Empty, NoSample, NoPoll
<1>3. QED
  BY <1>1, <1>2

(* The poll that is under way, and one that begins when no other is, is    *)
(* the one the invariant speaks of.                                        *)
LEMMA TheBusyOne ==
  ASSUME ApartInv, ~crossed, NEW b \in Pollers, poll[b].pc # "idle" \/ ~Another(b)
  PROVE  OnlyBusy(b) /\ PollInv(b)
<1>1. PICK p \in Pollers : OnlyBusy(p) /\ PollInv(p)
  BY DEF ApartInv, OneAtATime
<1>2. CASE p = b
  BY <1>1, <1>2
<1>3. CASE p # b
  <2>1. poll[b].pc = "idle" /\ ~Another(b)
    BY <1>1, <1>3 DEF OnlyBusy
  <2>2. OnlyBusy(b) /\ poll[p].pc = "idle"
    BY <1>3, <2>1 DEF Another, OnlyBusy
  <2>3. PollInv(b)
    BY <1>1, <2>1, <2>2
    DEF PollInv, ReadIsFresh, Committing, CommitsItsSample, FinishesInCache, RecordHonest
  <2>4. QED
    BY <2>2, <2>3
<1>4. QED
  BY <1>2, <1>3

(* A step that moves the poll where it holds nothing, and leaves the cache *)
(* and the rows alone, keeps the invariant if it keeps the record honest.  *)
LEMMA HarmlessStep ==
  ASSUME TypeOK, NEW b \in Pollers, PollInv(b),
         poll'[b].pc \notin {"read", "fanout"},
         ~(poll'[b].pc = "finish" /\ poll'[b].kind = "full"),
         ~Committing(b)', RecordHonest(b)',
         UNCHANGED <<now, cache, stored>>
  PROVE PollInv(b)' /\ Newer
<1>1. cache.tele \in Nat
  BY BoundAssumption DEF TypeOK, Results
<1>2. ReadIsFresh(b)' /\ CommitsItsSample(b)' /\ FinishesInCache(b)' /\ PastOnly' /\ OwnTelemetry' /\ StoredOnce'
  BY DEF ReadIsFresh, CommitsItsSample, FinishesInCache, PastOnly, OwnTelemetry, StoredOnce, PollInv
<1>3. QED
  BY <1>1, <1>2 DEF PollInv, Newer

(* Committing fresh results, which from then on are the cache's.           *)
LEMMA PutStep ==
  ASSUME TypeOK, NEW b \in Pollers, PollInv(b), PutInCache(b),
         ~poll[b].shared, Fresh(poll[b].res),
         sample'.measured = poll[b].res.read,
         UNCHANGED <<now, stored>>
  PROVE PollInv(b)' /\ Newer
<1> DEFINE t == poll[b].res.read
<1>1. cache' = poll[b].res
  BY DEF PutInCache, Held
<1>2. /\ poll'[b].pc = "finish"
      /\ poll'[b].shared
  BY PollersAssumption DEF PutInCache, TypeOK, Poll
<1>3. /\ t \in Nat /\ cache.read \in Nat /\ now \in Nat /\ cache.tele \in {0, cache.read}
      /\ cache'.tele \in {0, t}
      /\ t # 0 /\ t <= now /\ stored[t] = 0 /\ cache.read < t /\ cache'.read = t
  BY <1>1, PollersAssumption, BoundAssumption DEF Fresh, TypeOK, Poll, Results, OwnTelemetry, PollInv
<1>4. ReadIsFresh(b)' /\ CommitsItsSample(b)' /\ RecordHonest(b)'
  BY <1>2, <1>3 DEF ReadIsFresh, CommitsItsSample, RecordHonest, Committing
<1>5. FinishesInCache(b)'
  BY <1>2, <1>3 DEF FinishesInCache
<1>6. PastOnly' /\ OwnTelemetry' /\ StoredOnce'
  BY <1>3 DEF PastOnly, OwnTelemetry, StoredOnce, PollInv
<1>7. QED
  BY <1>3, <1>4, <1>5, <1>6 DEF PollInv, Newer

(* A new read begins its way to the cache.                                 *)
LEMMA ReadStep ==
  ASSUME TypeOK, NEW b \in Pollers, PollInv(b), ~Committing(b),
         now' = now + 1, now < MaxReads,
         poll'[b].pc \in {"read", "fanout"},
         ~poll'[b].shared, poll'[b].res.read = now', poll'[b].res.tele \in {0, now'},
         UNCHANGED <<cache, sample, stored, lost>>
  PROVE PollInv(b)' /\ Newer
<1>1. /\ now \in Nat /\ now' \in Nat /\ now' \in Reads /\ now' > now
      /\ cache.read \in Nat /\ cache.tele \in Nat /\ cache.read <= now
  BY BoundAssumption DEF TypeOK, Results, PastOnly, OwnTelemetry, PollInv
<1>2. stored[now'] = 0
  BY <1>1 DEF PastOnly, OwnTelemetry, PollInv
<1>3. Fresh(poll[b].res)'
  BY <1>1, <1>2 DEF Fresh
<1>4. ReadIsFresh(b)' /\ CommitsItsSample(b)' /\ FinishesInCache(b)' /\ RecordHonest(b)'
  BY <1>3 DEF ReadIsFresh, CommitsItsSample, FinishesInCache, Committing, RecordHonest, PollInv
<1>5. PastOnly' /\ OwnTelemetry'
  <2>1. \A r \in Reads : r > now' => r > now
    BY <1>1, BoundAssumption
  <2>2. QED
    BY <2>1, <1>1 DEF PastOnly, OwnTelemetry, PollInv
<1>6. StoredOnce'
  BY DEF StoredOnce, PollInv
<1>7. QED
  BY <1>1, <1>4, <1>5, <1>6 DEF PollInv, Newer

(* Every step of one poll.                                                 *)
Step(b) ==
  \/ Begin(b) \/ Skip(b) \/ Unreachable(b) \/ AttemptFails(b) \/ Repair(b) \/ GiveUp(b)
  \/ ReadTelemetry(b) \/ NoteFull(b) \/ Commit(b) \/ Finish(b) \/ Raise(b)
  \/ FanOutRead(b) \/ FanOutWrite(b) \/ FanOutFails(b)
  \/ b = Background /\ TimeOut

(* A step of the only poll under way keeps its invariant.                  *)
LEMMA PollStep ==
  ASSUME TypeOK, NEW b \in Pollers, PollInv(b), Step(b)
  PROVE  PollInv(b)' /\ Newer
<1> USE PollersAssumption, BoundAssumption
<1>0. poll[b] \in Poll /\ sample \in Sample /\ cache \in Results
  BY DEF TypeOK
<1>1. CASE Begin(b)
  <2>1. poll'[b].pc = "begin"
    BY <1>1 DEF Begin, TypeOK, NoPoll
  <2>2. RecordHonest(b)'
    BY <1>1, <2>1 DEF Begin, RecordHonest, Committing, PollInv
  <2>3. QED
    BY <1>1, <2>1, <2>2, HarmlessStep DEF Begin, Committing
<1>2. CASE Skip(b)
  <2>1. poll'[b].pc = "commit"
    BY <1>2 DEF Skip, TypeOK, Poll, TakeCache
  <2>2. sample'.kind = "skipped" /\ sample'.stale = sample.stale /\ sample'.measured = sample.measured
    BY <1>2, <1>0 DEF Skip, Sample
  <2>3. RecordHonest(b)'
    BY <1>2, <2>2 DEF Skip, RecordHonest, Committing, PollInv
  <2>4. QED
    BY <1>2, <2>1, <2>2, <2>3, HarmlessStep DEF Skip, Committing
<1>3. CASE Unreachable(b)
  <2>1. poll'[b].pc = "commit"
    BY <1>3 DEF Unreachable, TypeOK, Poll
  <2>2. sample'.kind = "unreachable" /\ sample'.stale = "yes"
    BY <1>3, <1>0 DEF Unreachable, Sample
  <2>3. QED
    BY <1>3, <2>1, <2>2, HarmlessStep DEF Unreachable, Committing, RecordHonest
<1>4. CASE AttemptFails(b)
  <2>1. poll'[b].pc = "login"
    BY <1>4 DEF AttemptFails, TypeOK, Poll, TakeCache
  <2>2. RecordHonest(b)'
    BY <1>4, <2>1 DEF AttemptFails, RecordHonest, Committing, PollInv
  <2>3. QED
    BY <1>4, <2>1, <2>2, HarmlessStep DEF AttemptFails, Committing
<1>5. CASE Repair(b)
  <2>1. poll'[b].pc = "begin"
    BY <1>5 DEF Repair, TypeOK, NoPoll
  <2>2. RecordHonest(b)'
    BY <1>5, <2>1 DEF Repair, RecordHonest, Committing, PollInv
  <2>3. QED
    BY <1>5, <2>1, <2>2, HarmlessStep DEF Repair, Committing
<1>6. CASE GiveUp(b)
  <2>1. poll'[b].pc = "commit"
    BY <1>6 DEF GiveUp, TypeOK, Poll
  <2>2. sample'.kind = "auth_failed" /\ sample'.stale = "yes"
    BY <1>6, <1>0 DEF GiveUp, Sample
  <2>3. QED
    BY <1>6, <2>1, <2>2, HarmlessStep DEF GiveUp, Committing, RecordHonest
<1>7. CASE ReadTelemetry(b)
  <2>1. PICK partial \in BOOLEAN, values \in BOOLEAN :
          poll' = [poll EXCEPT ![b].pc = "read", ![b].shared = FALSE,
                               ![b].res = Collected(now', values),
                               ![b].errs = @ \/ partial]
    BY <1>7 DEF ReadTelemetry
  <2>2. poll'[b].pc = "read" /\ ~poll'[b].shared /\ poll'[b].res = Collected(now', values)
    BY <2>1 DEF TypeOK, Poll
  <2>3. poll'[b].res.read = now' /\ poll'[b].res.tele \in {0, now'}
    BY <2>2 DEF Collected
  <2>4. QED
    BY <1>7, <2>2, <2>3, ReadStep DEF ReadTelemetry, Committing
<1>8. CASE NoteFull(b)
  <2>1. /\ poll'[b].pc = "commit" /\ poll'[b].shared = poll[b].shared
        /\ poll'[b].res = poll[b].res
    BY <1>8, <1>0 DEF NoteFull, TypeOK, Poll
  <2>2. sample' = FullSample(poll[b].res.read)
    BY <1>8 DEF NoteFull
  <2>3. ~poll[b].shared /\ Fresh(poll[b].res)
    BY <1>8 DEF NoteFull, ReadIsFresh, PollInv
  <2>4. Fresh(poll[b].res)'
    BY <1>8, <2>1, <2>3 DEF NoteFull, Fresh
  <2>5. ReadIsFresh(b)' /\ CommitsItsSample(b)' /\ FinishesInCache(b)'
    BY <2>1, <2>2, <2>3, <2>4 DEF ReadIsFresh, CommitsItsSample, FinishesInCache
  <2>6. Committing(b)'
    BY <2>1, <2>2 DEF Committing, FullSample
  <2>7. PastOnly' /\ OwnTelemetry' /\ StoredOnce' /\ RecordHonest(b)' /\ Newer
    BY <1>8, <1>0, <2>6 DEF NoteFull, PastOnly, OwnTelemetry, StoredOnce, RecordHonest, PollInv, Newer, Results
  <2>8. QED
    BY <2>5, <2>7 DEF PollInv
<1>9. CASE Commit(b)
  <2>1. CASE NewResults(sample.kind)
    <3>1. Committing(b)
      BY <1>9, <2>1 DEF Commit, NewResults, Committing
    <3>2. /\ ~poll[b].shared /\ Fresh(poll[b].res)
          /\ sample = FullSample(poll[b].res.read)
      BY <3>1 DEF ReadIsFresh, CommitsItsSample, PollInv
    <3>4. sample' = sample /\ sample'.measured = poll[b].res.read
      BY <1>9, <3>2 DEF Commit, FullSample
    <3>5. PutInCache(b) /\ UNCHANGED <<now, stored>>
      BY <1>9, <2>1 DEF Commit
    <3>3. QED
      BY <3>2, <3>4, <3>5, PutStep
  <2>2. CASE ~NewResults(sample.kind)
    <3>1. poll'[b].pc = "finish" /\ poll'[b].kind = sample.kind
      <4>1. poll' = [poll EXCEPT ![b] = [TakeCache(poll[b]) EXCEPT !.kind = sample.kind, !.pc = "finish"]]
        BY <1>9, <2>2 DEF Commit
      <4>2. TakeCache(poll[b]) \in Poll
        BY <1>0, TakeType
      <4> DEFINE g == TakeCache(poll[b])
      <4> HIDE DEF g
      <4>3. poll' = [poll EXCEPT ![b] = [g EXCEPT !.kind = sample.kind, !.pc = "finish"]] /\ g \in Poll
        BY <4>1, <4>2 DEF g
      <4>4. QED
        BY <4>3 DEF TypeOK, Poll
    <3>2. RecordHonest(b)'
      BY <1>9, <2>2 DEF Commit, NewResults, RecordHonest, Committing, PollInv
    <3>3. QED
      BY <1>9, <2>2, <3>1, <3>2, HarmlessStep DEF Commit, NewResults, Committing
  <2>3. QED
    BY <2>1, <2>2
<1>10. CASE Finish(b)
  <2>1. poll'[b].pc = "idle"
    BY <1>10 DEF Finish, TypeOK, NoPoll
  <2>2. RecordHonest(b)'
    BY <1>10, <2>1 DEF Finish, RecordHonest, Committing, PollInv
  <2>3. CASE stored' = stored
    BY <1>10, <2>1, <2>2, <2>3, HarmlessStep DEF Finish, Committing
  <2>4. CASE /\ poll[b].kind = "full"
             /\ stored' = [stored EXCEPT ![Held(b).read] = IF @ = 2 THEN 2 ELSE @ + 1]
    <3>1. /\ Held(b) = cache /\ cache.read # 0 /\ stored[cache.read] = 0
          /\ cache.read \in Reads /\ cache.read <= now
      BY <1>10, <1>0, <2>4 DEF Finish, Held, FinishesInCache, PastOnly, OwnTelemetry, PollInv, Results
    <3>2. stored' = [stored EXCEPT ![cache.read] = 1]
      BY <2>4, <3>1 DEF TypeOK
    <3>3. ReadIsFresh(b)' /\ CommitsItsSample(b)' /\ FinishesInCache(b)'
      BY <2>1 DEF ReadIsFresh, CommitsItsSample, FinishesInCache, Committing
    <3>4. PastOnly' /\ OwnTelemetry'
      <4>1. ASSUME NEW r \in Reads, r > now PROVE r # cache.read /\ stored'[r] = 0
        BY <4>1, <3>1, <3>2 DEF PastOnly, OwnTelemetry, PollInv, TypeOK
      <4>2. QED
        BY <1>10, <3>1, <4>1 DEF Finish, PastOnly, OwnTelemetry, PollInv
    <3>5. StoredOnce'
      BY <3>1, <3>2 DEF StoredOnce, PollInv, TypeOK
    <3>6. Newer
      BY <1>10, <1>0 DEF Finish, Newer, Results
    <3>7. QED
      BY <2>2, <3>3, <3>4, <3>5, <3>6 DEF PollInv
  <2>5. QED
    BY <1>10, <2>3, <2>4 DEF Finish
<1>11. CASE Raise(b)
  <2>1. poll'[b].pc = "idle"
    BY <1>11 DEF Raise, TypeOK, NoPoll
  <2>2. sample'.stale = "yes" \/ sample' = sample
    BY <1>11, <1>0 DEF Raise, Sample
  <2>3. RecordHonest(b)'
    BY <1>11, <2>1, <2>2 DEF Raise, RecordHonest, Committing, PollInv
  <2>4. QED
    BY <1>11, <2>1, <2>3, HarmlessStep DEF Raise, Committing
<1>12. CASE b = Background /\ TimeOut
  <2>1. poll'[b].pc = "idle"
    BY <1>12 DEF TimeOut, TypeOK, NoPoll
  <2>2. RecordHonest(b)'
    BY <1>12 DEF TimeOut, RecordHonest, Committing, NewResults, PollInv
  <2>3. QED
    BY <1>12, <2>1, <2>2, HarmlessStep DEF TimeOut, Committing
<1>13. CASE FanOutRead(b)
  <2>1. PICK values \in BOOLEAN :
          poll' = [poll EXCEPT ![b] = [NoPoll EXCEPT !.pc = "fanout", !.res = Collected(now', values)]]
    BY <1>13 DEF FanOutRead
  <2>2. poll'[b].pc = "fanout" /\ ~poll'[b].shared /\ poll'[b].res = Collected(now', values)
    BY <2>1 DEF TypeOK, NoPoll
  <2>3. poll'[b].res.read = now' /\ poll'[b].res.tele \in {0, now'}
    BY <2>2 DEF Collected
  <2>4. QED
    BY <1>13, <2>2, <2>3, ReadStep DEF FanOutRead, Committing
<1>14. CASE FanOutWrite(b)
  <2>1. ~poll[b].shared /\ Fresh(poll[b].res)
    BY <1>14 DEF FanOutWrite, ReadIsFresh, PollInv
  <2>2. QED
    BY <1>14, <2>1, PutStep DEF FanOutWrite, FullSample
<1>15. CASE FanOutFails(b)
  <2>1. poll'[b].pc = "idle"
    BY <1>15 DEF FanOutFails, TypeOK, NoPoll
  <2>2. sample'.stale = "yes"
    BY <1>15, <1>0 DEF FanOutFails, Sample
  <2>3. QED
    BY <1>15, <2>1, <2>2, HarmlessStep DEF FanOutFails, Committing, RecordHonest
<1>16. QED
  BY <1>1, <1>2, <1>3, <1>4, <1>5, <1>6, <1>7, <1>8, <1>9, <1>10, <1>11, <1>12,
     <1>13, <1>14, <1>15 DEF Step

(* The patches of the outlets keep it too.                                 *)
LEMMA PatchStep ==
  ASSUME TypeOK, NEW b \in Pollers, PollInv(b),
         \/ \E q \in Patchers : PatchRead(q) \/ PatchWrite(q)
         \/ UNCHANGED vars
  PROVE  PollInv(b)' /\ Newer
<1> USE PollersAssumption, BoundAssumption
<1>0. poll[b] \in Poll /\ sample \in Sample /\ cache \in Results
  BY DEF TypeOK
<1>1. ASSUME NEW q \in Patchers, PatchRead(q) PROVE PollInv(b)' /\ Newer
  <2>1. /\ now \in Nat /\ now' = now + 1 /\ cache.read \in Nat /\ cache.tele \in Nat /\ cache' = cache
        /\ poll' = poll /\ sample' = sample /\ stored' = stored /\ lost' = lost
    BY <1>1, <1>0 DEF PatchRead, TypeOK, Results
  <2>2. poll[b].res.read \in Nat
    BY <1>0 DEF Poll, Results
  <2>3. Fresh(poll[b].res) => Fresh(poll[b].res)'
    BY <2>1, <2>2 DEF Fresh
  <2>4. ReadIsFresh(b)' /\ CommitsItsSample(b)' /\ FinishesInCache(b)' /\ StoredOnce' /\ RecordHonest(b)'
    BY <2>1, <2>3 DEF ReadIsFresh, CommitsItsSample, FinishesInCache, StoredOnce, RecordHonest,
       Committing, PollInv
  <2>5. PastOnly' /\ OwnTelemetry'
    <3>1. \A r \in Reads : r > now' => r > now
      BY <2>1
    <3>2. QED
      BY <2>1, <3>1 DEF PastOnly, OwnTelemetry, PollInv
  <2>6. QED
    BY <2>1, <2>4, <2>5 DEF PollInv, Newer
<1>2. ASSUME NEW q \in Patchers, PatchWrite(q) PROVE PollInv(b)' /\ Newer
  <2>1. /\ cache'.read = cache.read /\ cache.read \in Nat
        /\ cache'.tele = cache.tele /\ cache.tele \in Nat
        /\ now' = now /\ poll' = poll /\ sample' = sample /\ stored' = stored /\ lost' = lost
    BY <1>2, <1>0 DEF PatchWrite, Results
  <2>2. Fresh(poll[b].res) => Fresh(poll[b].res)'
    BY <2>1 DEF Fresh
  <2>3. ReadIsFresh(b)' /\ CommitsItsSample(b)' /\ FinishesInCache(b)' /\ StoredOnce' /\ RecordHonest(b)' /\ PastOnly' /\ OwnTelemetry'
    BY <2>1, <2>2 DEF ReadIsFresh, CommitsItsSample, FinishesInCache, StoredOnce, RecordHonest,
       Committing, PastOnly, OwnTelemetry, PollInv
  <2>4. QED
    BY <2>1, <2>3 DEF PollInv, Newer
<1>3. CASE UNCHANGED vars
  <2>1. PollInv(b)'
    BY <1>3 DEF vars, PollInv, ReadIsFresh, CommitsItsSample, FinishesInCache, StoredOnce,
       RecordHonest, Committing, PastOnly, OwnTelemetry, Fresh
  <2>2. Newer
    BY <1>3, <1>0 DEF vars, Newer, Results
  <2>3. QED
    BY <2>1, <2>2
<1>4. QED
  BY <1>1, <1>2, <1>3

(* While one poll moves the others stay where they are.                    *)
LEMMA OthersStay ==
  ASSUME TypeOK, NEW b \in Pollers, OnlyBusy(b),
         \/ Step(b)
         \/ \E q \in Patchers : PatchRead(q) \/ PatchWrite(q)
         \/ UNCHANGED vars
  PROVE  OnlyBusy(b)'
<1> SUFFICES ASSUME NEW q \in Pollers \ {b} PROVE poll'[q].pc = poll[q].pc
  BY DEF OnlyBusy
<1>1. CASE PutInCache(b)
  <2>1. [poll[q] EXCEPT !.res = cache, !.shared = FALSE].pc = poll[q].pc
    BY DEF TypeOK, Poll
  <2>2. QED
    BY <1>1, <2>1 DEF PutInCache
<1>2. CASE ~PutInCache(b)
  <2>1. poll'[q] = poll[q]
    BY <1>2 DEF TypeOK, Step, Begin, Skip, Unreachable, AttemptFails, Repair, GiveUp, ReadTelemetry,
       NoteFull, Commit, Finish, Raise, FanOutRead, FanOutWrite, FanOutFails, TimeOut,
       PatchRead, PatchWrite, vars
  <2>2. QED
    BY <2>1
<1>3. QED
  BY <1>1, <1>2

(* Polls that do not overlap keep the invariant, whichever thread polls.   *)
LEMMA ApartStep ==
  ASSUME TypeOK, ApartInv, [Next]_vars, ~crossed'
  PROVE  OneAtATime' /\ Newer
<1>1. ASSUME NEW b \in Pollers, Step(b) PROVE OneAtATime' /\ Newer
  <2>1. ~crossed /\ (poll[b].pc # "idle" \/ ~Another(b))
    <3>1. CASE Begin(b)
      BY <3>1 DEF Begin
    <3>2. CASE FanOutRead(b)
      BY <3>2 DEF FanOutRead
    <3>3. CASE FanOutFails(b)
      BY <3>3 DEF FanOutFails
    <3>4. CASE ReadTelemetry(b) \/ NoteFull(b) \/ Finish(b) \/ Raise(b)
      <4>1. poll[b].pc # "idle"
        BY <3>4 DEF ReadTelemetry, NoteFull, Finish, Raise
      <4>2. crossed' = crossed
        BY <3>4 DEF ReadTelemetry, NoteFull, Finish, Raise
      <4>3. QED
        BY <4>1, <4>2
    <3>7. CASE Commit(b)
      BY <3>7 DEF Commit
    <3>5. CASE \/ Skip(b) \/ Unreachable(b) \/ AttemptFails(b) \/ Repair(b) \/ GiveUp(b)
               \/ FanOutWrite(b) \/ (b = Background /\ TimeOut)
      BY <3>5 DEF Skip, Unreachable, AttemptFails, Repair, GiveUp, FanOutWrite, TimeOut
    <3>6. QED
      BY <1>1, <3>1, <3>2, <3>3, <3>4, <3>5, <3>7 DEF Step
  <2>2. OnlyBusy(b) /\ PollInv(b)
    BY <2>1, TheBusyOne
  <2>3. PollInv(b)' /\ Newer
    BY <1>1, <2>2, PollStep
  <2>4. OnlyBusy(b)'
    BY <1>1, <2>2, OthersStay
  <2>5. QED
    BY <2>3, <2>4 DEF OneAtATime
<1>2. ASSUME (\E q \in Patchers : PatchRead(q) \/ PatchWrite(q)) \/ UNCHANGED vars
      PROVE OneAtATime' /\ Newer
  <2>1. ~crossed
    BY <1>2 DEF PatchRead, PatchWrite, vars
  <2>2. PICK b \in Pollers : OnlyBusy(b) /\ PollInv(b)
    BY <2>1 DEF ApartInv, OneAtATime
  <2>3. PollInv(b)' /\ Newer
    BY <1>2, <2>2, PatchStep
  <2>4. OnlyBusy(b)'
    BY <1>2, <2>2, OthersStay
  <2>5. QED
    BY <2>3, <2>4 DEF OneAtATime
<1>3. QED
  BY <1>1, <1>2, PollersAssumption DEF Next, Step

LEMMA ApartInductive == TypeOK /\ ApartInv /\ [Next]_vars => ApartInv' /\ (~crossed' => Newer)
  BY ApartStep DEF ApartInv

(* The invariant gives the property of the live payload.                   *)
LEMMA HonestPayload == TypeOK /\ ApartInv => LiveHonest
<1> SUFFICES ASSUME TypeOK, ApartInv, ~Stale, cache # Empty, ~lost, ~crossed,
                    \A p \in Pollers : poll[p].pc # "commit"
             PROVE  cache.tele \in {0, sample.measured}
  BY DEF LiveHonest
<1>1. PICK p \in Pollers : PollInv(p)
  BY DEF ApartInv, OneAtATime
<1>2. cache.read = sample.measured
  BY <1>1 DEF Stale, PollInv, RecordHonest, Committing
<1>3. QED
  BY <1>1, <1>2 DEF PollInv, OwnTelemetry

(* However many threads poll the PDU and patch its outlets: as long as no  *)
(* two polls were under way at once, what the live payload shows as fresh  *)
(* was measured when it says.                                              *)
THEOREM LiveTelemetryHonest == Spec => []LiveHonest
<1>1. Init => ApartInv
  BY ApartInit
<1>2. TypeOK /\ ApartInv /\ [Next]_vars => ApartInv'
  BY ApartInductive
<1>3. TypeOK /\ ApartInv => LiveHonest
  BY HonestPayload
<1>4. QED
  BY <1>1, <1>2, <1>3, CacheTypeCorrect, PTL DEF Spec

(* As long as no two polls were under way at once, the results of a read   *)
(* are stored as a telemetry row at most once, and nothing but a read is.  *)
THEOREM NoCachedReadStored == Spec => []NoPromotion
<1>1. Init => ApartInv
  BY ApartInit
<1>2. TypeOK /\ ApartInv /\ [Next]_vars => ApartInv'
  BY ApartInductive
<1>3. ApartInv => NoPromotion
  BY DEF ApartInv, OneAtATime, PollInv, StoredOnce, NoPromotion
<1>4. QED
  BY <1>1, <1>2, <1>3, CacheTypeCorrect, PTL DEF Spec

(* As long as no two polls were under way at once, no failure, skipped     *)
(* cycle or patch takes telemetry out of the cache or puts older telemetry *)
(* back; a read that collected nothing does take it out.                   *)
THEOREM TelemetryNeverOlder == Spec => LastValuesKept
<1>1. Init => ApartInv
  BY ApartInit
<1>2. TypeOK /\ ApartInv /\ [Next]_vars => ApartInv'
  BY ApartInductive
<1>3. TypeOK /\ ApartInv /\ [Next]_vars =>
        [~crossed' => \/ cache'.tele >= cache.tele
                      \/ cache'.tele = 0 /\ cache'.read > cache.read]_vars
  BY ApartInductive DEF Newer
<1>4. QED
  BY <1>1, <1>2, <1>3, CacheTypeCorrect, PTL DEF Spec, LastValuesKept
=============================================================================
