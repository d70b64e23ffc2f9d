------------------------ MODULE PduEvidence_proofs ------------------------
(***************************************************************************)
(* Theorems on what the dashboard shows of the PDUs of a hall              *)
(* (PduEvidence): for any PDUs and halls, any number of sweeps that        *)
(* overlap, and any time of freshness.                                     *)
(*                                                                         *)
(* The argument: a sample is true of its PDU when the PDU was in its state *)
(* at the time it was taken or later.  The server makes true samples only, *)
(* time keeps them true, and they are copied as they are: into the answers *)
(* to the sweeps and from there into the entries, where a merge never puts *)
(* the time of one sample to the state of another.                         *)
(***************************************************************************)
EXTENDS PduEvidence, TLAPS

OnOff == {"on", "off"}

WorldOK ==
  /\ now \in Time
  /\ power \in [Polled -> OnOff]
  /\ last \in [Polled -> [OnOff -> Time]]
  /\ cache \in [PDUs -> Sample]
  /\ polls \in [PDUs -> 0 .. MaxPolls]
  /\ probes \in [PDUs -> 0 .. MaxPolls]
  /\ listed \subseteq PDUs

(* A PDU is, now, in the state it is in. *)
LastIsNow == \A p \in Polled : last[p][power[p]] = now

(* The PDU was in the state of the sample when it was taken, or since, and  *)
(* in the state its watts are a reading of.                                 *)
Said(sample) == {sample.state, sample.load} \cap OnOff
TrueOf(p, sample) == \A s \in Said(sample) : p \in Polled /\ sample.at <= last[p][s]

CacheOK == \A p \in PDUs : TrueOf(p, cache[p])

(* What a sweep of either kind has of a PDU. *)
RowOK(kind, p, row) ==
  row # None => IF kind = "live" THEN row \in [telemetry : Sample] /\ TrueOf(p, row.telemetry)
                ELSE row \in Comm

(* A sweep that is not cancelled is one of the PDUs that are listed. *)
SweepOK(s) ==
  /\ DOMAIN s = {"kind", "of", "current", "row"}
  /\ s.kind \in {"live", "probe"}
  /\ DOMAIN s.row \subseteq s.of
  /\ s.current => s.of = listed /\ \A p \in DOMAIN s.row : RowOK(s.kind, p, s.row[p])

SweepsOK == \A s \in sweeps : SweepOK(s)

EntryOK(p, e) == e \in Evidence /\ (e.telemetry # None => TrueOf(p, e.telemetry))

EvidenceOK ==
  /\ evidence \in [PDUs -> Evidence \cup {None}]
  /\ \A p \in PDUs : evidence[p] # None => EntryOK(p, evidence[p])

IInv == WorldOK /\ LastIsNow /\ CacheOK /\ SweepsOK /\ EvidenceOK /\ EvidenceOfHall

EvStep == EvNext \/ \E ps \in SUBSET PDUs : List(ps)

(* Later is no less true. *)
LastGrows == \A p \in Polled : \A s \in OnOff : last[p][s] <= last'[p][s]

LEMMA StillTrue ==
  ASSUME WorldOK, WorldOK', LastGrows, NEW p, NEW x \in Sample, TrueOf(p, x) PROVE TrueOf(p, x)'
<1> SUFFICES ASSUME NEW s \in Said(x) PROVE p \in Polled /\ x.at <= last'[p][s]
  BY DEF TrueOf
<1>1. s \in OnOff /\ x.at \in Nat
  BY BoundsAssumption DEF Sample, Said, Time
<1>2. p \in Polled /\ x.at <= last[p][s]
  BY DEF TrueOf
<1>3. last[p][s] \in Nat /\ last'[p][s] \in Nat /\ last[p][s] <= last'[p][s]
  BY <1>1, <1>2, BoundsAssumption DEF WorldOK, Time, LastGrows
<1> QED  BY <1>1, <1>2, <1>3

LEMMA StillRow ==
  ASSUME WorldOK, WorldOK', LastGrows, NEW kind, NEW p, NEW r, RowOK(kind, p, r)
  PROVE  RowOK(kind, p, r)'
<1>1. CASE r # None /\ kind = "live"
  <2>1. r \in [telemetry : Sample] /\ TrueOf(p, r.telemetry)
    BY <1>1 DEF RowOK
  <2>2. TrueOf(p, r.telemetry)'
    BY <2>1, StillTrue
  <2> QED  BY <1>1, <2>1, <2>2 DEF RowOK
<1>2. CASE r = None \/ kind # "live"
  BY <1>2 DEF RowOK
<1> QED  BY <1>1, <1>2

LEMMA StillSweep ==
  ASSUME WorldOK, WorldOK', LastGrows, UNCHANGED listed, NEW s, SweepOK(s) PROVE SweepOK(s)'
<1>1. s.current => \A p \in DOMAIN s.row : RowOK(s.kind, p, s.row[p])'
  BY StillRow DEF SweepOK
<1> QED  BY <1>1 DEF SweepOK

LEMMA StillEntry ==
  ASSUME WorldOK, WorldOK', LastGrows, NEW p, NEW e, EntryOK(p, e) PROVE EntryOK(p, e)'
<1>1. CASE e.telemetry = None
  BY <1>1 DEF EntryOK
<1>2. CASE e.telemetry # None
  <2>1. e.telemetry \in Sample /\ TrueOf(p, e.telemetry)
    BY <1>2 DEF EntryOK, Evidence
  <2>2. TrueOf(p, e.telemetry)'
    BY <2>1, StillTrue
  <2> QED  BY <2>2 DEF EntryOK
<1> QED  BY <1>1, <1>2

LEMMA StillSweeps ==
  ASSUME IInv, WorldOK', LastGrows, UNCHANGED <<listed, sweeps>> PROVE SweepsOK'
BY StillSweep DEF IInv, SweepsOK

LEMMA StillEvidence ==
  ASSUME IInv, WorldOK', LastGrows, UNCHANGED evidence PROVE EvidenceOK'
BY StillEntry DEF IInv, EvidenceOK

LEMMA StillCache ==
  ASSUME IInv, WorldOK', LastGrows, UNCHANGED cache PROVE CacheOK'
<1> SUFFICES ASSUME NEW p \in PDUs PROVE TrueOf(p, cache[p])'
  BY DEF CacheOK
<1>1. cache[p] \in Sample /\ TrueOf(p, cache[p])
  BY DEF IInv, WorldOK, CacheOK
<1> QED  BY <1>1, StillTrue DEF IInv, TrueOf

LEMMA LastSame == ASSUME WorldOK, UNCHANGED last PROVE LastGrows
BY BoundsAssumption DEF WorldOK, LastGrows, Time

LEMMA TimeFacts == 0 \in Time /\ 1 \in Time /\ Time \subseteq Nat
BY BoundsAssumption DEF Time

LEMMA PendingSample == Pending \in Sample
<1>1. 0 \in Time /\ 0 \in 0 .. MaxPolls
  BY TimeFacts, BoundsAssumption
<1> QED  BY <1>1 DEF Pending, Sample

LEMMA PutTime ==
  ASSUME NEW f \in [OnOff -> Time], NEW s \in OnOff, NEW n \in Time, NEW g, g = [f EXCEPT ![s] = n]
  PROVE  g \in [OnOff -> Time] /\ g[s] = n /\ \A z \in OnOff : z # s => g[z] = f[z]
OBVIOUS

LEMMA SameSaid ==
  ASSUME NEW p, NEW x, NEW y, TrueOf(p, x), y.state = x.state, y.load = x.load, y.at = x.at
  PROVE  TrueOf(p, y)
BY DEF TrueOf, Said

LEMMA InitIInv == EvInit => IInv
<1> SUFFICES ASSUME EvInit PROVE IInv
  OBVIOUS
<1>1. WorldOK
  <2>1. now \in Time /\ power \in [Polled -> OnOff] /\ listed \subseteq PDUs
    BY TimeFacts DEF EvInit, OnOff
  <2>2. last \in [Polled -> [OnOff -> Time]]
    BY TimeFacts DEF EvInit, OnOff
  <2>3. cache \in [PDUs -> Sample]
    BY PendingSample DEF EvInit
  <2>4. polls \in [PDUs -> 0 .. MaxPolls] /\ probes \in [PDUs -> 0 .. MaxPolls]
    BY BoundsAssumption DEF EvInit
  <2> QED  BY <2>1, <2>2, <2>3, <2>4 DEF WorldOK
<1>2. LastIsNow
  BY DEF EvInit, LastIsNow
<1>3. CacheOK
  BY DEF EvInit, CacheOK, Pending, TrueOf, Said, OnOff
<1>4. SweepsOK /\ EvidenceOK /\ EvidenceOfHall
  BY DEF EvInit, SweepsOK, EvidenceOK, EvidenceOfHall
<1> QED  BY <1>1, <1>2, <1>3, <1>4 DEF IInv

-----------------------------------------------------------------------------
(* The world.                                                               *)
LEMMA TickIInv == ASSUME IInv, Tick PROVE IInv'
<1>1. now \in Nat /\ now' = now + 1 /\ now' \in Time
  BY BoundsAssumption DEF Tick, IInv, WorldOK, Time
<1>2. \A p \in Polled : /\ last[p] \in [OnOff -> Time] /\ power[p] \in OnOff
                       /\ last'[p] = [last[p] EXCEPT ![power[p]] = now']
  BY <1>1 DEF Tick, IInv, WorldOK
<1>3. last' \in [Polled -> [OnOff -> Time]]
  <2>1. ASSUME NEW p \in Polled PROVE last'[p] \in [OnOff -> Time]
    <3>1. /\ last[p] \in [OnOff -> Time] /\ power[p] \in OnOff
          /\ last'[p] = [last[p] EXCEPT ![power[p]] = now']
      BY <1>2
    <3> QED  BY <1>1, <3>1, PutTime
  <2> QED  BY <2>1 DEF Tick
<1>4. WorldOK'
  BY <1>1, <1>3 DEF Tick, IInv, WorldOK
<1>5. LastIsNow'
  BY <1>1, <1>2, PutTime DEF Tick, LastIsNow
<1>6. LastGrows
  <2> SUFFICES ASSUME NEW p \in Polled, NEW s \in OnOff PROVE last[p][s] <= last'[p][s]
    BY DEF LastGrows
  <2>1. last[p][s] \in Nat /\ last[p][power[p]] = now
    <3>1. last[p][s] \in Time
      BY <1>2
    <3> QED  BY <3>1, TimeFacts DEF IInv, LastIsNow
  <2>2. /\ last'[p][power[p]] = now'
        /\ s # power[p] => last'[p][s] = last[p][s]
    <3>1. /\ last[p] \in [OnOff -> Time] /\ power[p] \in OnOff
          /\ last'[p] = [last[p] EXCEPT ![power[p]] = now']
      BY <1>2
    <3> QED  BY <1>1, <3>1, PutTime
  <2> QED  BY <1>1, <2>1, <2>2
<1>7. CacheOK' /\ SweepsOK' /\ EvidenceOK'
  BY <1>4, <1>6, StillCache, StillSweeps, StillEvidence DEF Tick
<1> QED  BY <1>4, <1>5, <1>7 DEF Tick, IInv, EvidenceOfHall

LEMMA SwitchIInv == ASSUME IInv, NEW p \in Polled, Switch(p) PROVE IInv'
<1> DEFINE s == IF power[p] = "on" THEN "off" ELSE "on"
<1>1. s \in OnOff /\ last[p] \in [OnOff -> Time] /\ now \in Time /\ last[p][s] = 0
      /\ power' = [power EXCEPT ![p] = s]
  BY DEF Switch, IInv, WorldOK, OnOff
<1>2. last' = [last EXCEPT ![p] = [last[p] EXCEPT ![s] = now]]
  BY DEF Switch
<1> HIDE DEF s
<1>3. [last[p] EXCEPT ![s] = now] \in [OnOff -> Time]
  BY <1>1
<1>4. last' \in [Polled -> [OnOff -> Time]] /\ power' \in [Polled -> OnOff]
  BY <1>1, <1>2, <1>3 DEF IInv, WorldOK
<1>5. WorldOK'
  BY <1>4 DEF Switch, IInv, WorldOK
<1>6. LastIsNow'
  <2> SUFFICES ASSUME NEW q \in Polled PROVE last'[q][power'[q]] = now'
    BY DEF LastIsNow
  <2>1. now' = now
    BY DEF Switch
  <2>2. CASE q = p
    <3>1. power'[q] = s /\ last'[q] = [last[p] EXCEPT ![s] = now]
      BY <1>1, <1>2, <2>2 DEF IInv, WorldOK
    <3> QED  BY <1>1, <2>1, <3>1
  <2>3. CASE q # p
    BY <1>1, <1>2, <2>1, <2>3 DEF IInv, WorldOK, LastIsNow
  <2> QED  BY <2>2, <2>3
<1>7. LastGrows
  <2> SUFFICES ASSUME NEW q \in Polled, NEW z \in OnOff PROVE last[q][z] <= last'[q][z]
    BY DEF LastGrows
  <2>1. last[q][z] \in Nat /\ now \in Nat
    BY TimeFacts DEF IInv, WorldOK
  <2>2. CASE q = p /\ z = s
    <3>1. last'[q] = [last[p] EXCEPT ![s] = now]
      BY <1>2, <2>2 DEF IInv, WorldOK
    <3> QED  BY <1>1, <2>1, <2>2, <3>1
  <2>3. CASE q = p /\ z # s
    <3>1. last'[q] = [last[p] EXCEPT ![s] = now]
      BY <1>2, <2>3 DEF IInv, WorldOK
    <3> QED  BY <1>1, <2>1, <2>3, <3>1
  <2>4. CASE q # p
    BY <1>2, <2>1, <2>4 DEF IInv, WorldOK
  <2> QED  BY <2>2, <2>3, <2>4
<1>8. CacheOK' /\ SweepsOK' /\ EvidenceOK'
  BY <1>5, <1>7, StillCache, StillSweeps, StillEvidence DEF Switch
<1> QED  BY <1>5, <1>6, <1>8 DEF Switch, IInv, EvidenceOfHall

(* A poll makes a true sample, or marks the last one.                       *)
LEMMA AttemptedIInv ==
  ASSUME IInv, NEW p \in PDUs, NEW x \in Sample, TrueOf(p, x), Attempted(p, x) PROVE IInv'
<1> DEFINE n == polls[p] + 1
           y == [x EXCEPT !.attempt = n]
<1>1. n \in 0 .. MaxPolls
  BY BoundsAssumption DEF Attempted, IInv, WorldOK
<1>2. y \in Sample /\ y.state = x.state /\ y.load = x.load /\ y.at = x.at
  BY <1>1 DEF Sample
<1>3. cache' = [cache EXCEPT ![p] = y] /\ polls' = [polls EXCEPT ![p] = n]
      /\ UNCHANGED <<now, power, last, probes, listed, sweeps, evidence>>
  BY DEF Attempted, IInv, WorldOK
<1> HIDE DEF n, y
<1>4. TrueOf(p, y)
  BY <1>2, SameSaid
<1>5. WorldOK'
  BY <1>1, <1>2, <1>3 DEF IInv, WorldOK
<1>6. LastGrows
  BY <1>3, LastSame DEF IInv
<1>7. CacheOK'
  BY <1>3, <1>4 DEF IInv, WorldOK, CacheOK, TrueOf
<1>8. SweepsOK' /\ EvidenceOK'
  BY <1>3, <1>5, <1>6, StillSweeps, StillEvidence
<1> QED  BY <1>3, <1>5, <1>7, <1>8 DEF IInv, LastIsNow, EvidenceOfHall

LEMMA PollIInv == ASSUME IInv, NEW p \in Polled, PollOk(p) \/ PollFails(p) PROVE IInv'
<1>1. p \in PDUs
  BY PolledAssumption
<1>2. CASE PollOk(p)
  <2>1. PICK st \in {power[p], "unknown"}, ld \in {power[p], "none"} :
          Attempted(p, [Pending EXCEPT !.state = st, !.load = ld, !.at = now])
    BY <1>2 DEF PollOk
  <2> DEFINE x == [Pending EXCEPT !.state = st, !.load = ld, !.at = now]
  <2>2. power[p] \in OnOff /\ now \in Time
    BY DEF IInv, WorldOK
  <2>3. x \in Sample /\ x.state = st /\ x.load = ld /\ x.at = now
    BY <2>2, PendingSample DEF Sample, OnOff
  <2> HIDE DEF x
  <2>4. TrueOf(p, x)
    <3>1. last[p][power[p]] = now /\ now \in Nat
      BY TimeFacts DEF IInv, WorldOK, LastIsNow
    <3>2. \A s \in Said(x) : s = power[p]
      BY <2>3 DEF Said, OnOff
    <3> QED  BY <2>3, <3>1, <3>2 DEF TrueOf
  <2>5. Attempted(p, x)
    BY <2>1 DEF x
  <2> QED  BY <1>1, <2>3, <2>4, <2>5, AttemptedIInv
<1>3. CASE PollFails(p)
  <2> DEFINE x == [cache[p] EXCEPT !.stale = TRUE]
  <2>1. /\ x \in Sample /\ x.state = cache[p].state /\ x.load = cache[p].load
        /\ x.at = cache[p].at
    BY <1>1 DEF IInv, WorldOK, Sample
  <2>3. Attempted(p, x)
    BY <1>3 DEF PollFails
  <2> HIDE DEF x
  <2>2. TrueOf(p, x)
    BY <1>1, <2>1, SameSaid DEF IInv, CacheOK
  <2> QED  BY <1>1, <2>1, <2>2, <2>3, AttemptedIInv
<1> QED  BY <1>2, <1>3

-----------------------------------------------------------------------------
(* The answers.                                                             *)
LEMMA SweepNew == ASSUME NEW kind \in {"live", "probe"} PROVE SweepOK(Sweep(kind, listed))
BY DEF SweepOK, Sweep

LEMMA AnswerSweeps ==
  ASSUME IInv, NEW kind \in {"live", "probe"}, NEW p \in PDUs, NEW row, RowOK(kind, p, row),
         Answer(kind, p, row), WorldOK', UNCHANGED <<last, listed>>
  PROVE  SweepsOK'
<1> DEFINE With(s) == [q \in DOMAIN s.row \cup {p} |-> IF q = p THEN row ELSE s.row[q]]
<1>1. PICK s \in sweeps \cup {Sweep(kind, listed)} :
        /\ s.kind = kind
        /\ p \in s.of \ DOMAIN s.row
        /\ sweeps' = (sweeps \ {s}) \cup {[s EXCEPT !.row = With(s)]}
  BY DEF Answer
<1> DEFINE rows == With(s)
           z == [s EXCEPT !.row = rows]
<1>2. SweepOK(s)
  BY <1>1, SweepNew DEF IInv, SweepsOK
<1>3. /\ DOMAIN z = DOMAIN s /\ z.kind = s.kind /\ z.of = s.of /\ z.current = s.current
      /\ z.row = rows
      /\ sweeps' = (sweeps \ {s}) \cup {z}
  BY <1>1, <1>2 DEF SweepOK
<1>4. /\ DOMAIN rows = DOMAIN s.row \cup {p}
      /\ \A q \in DOMAIN s.row : rows[q] = s.row[q]
      /\ rows[p] = row
  BY <1>1
<1> HIDE DEF With, rows, z
<1>5. SweepOK(z)
  BY <1>1, <1>2, <1>3, <1>4 DEF SweepOK
<1>6. \A x \in sweeps' : SweepOK(x)
  BY <1>2, <1>3, <1>5 DEF IInv, SweepsOK
<1>7. LastGrows
  BY LastSame DEF IInv
<1> QED  BY <1>6, <1>7, StillSweep DEF IInv, SweepsOK

LEMMA LiveAnsweredIInv == ASSUME IInv, NEW p \in PDUs, LiveAnswered(p) PROVE IInv'
<1>1. PICK row \in {LiveRow(p), None} : Answer("live", p, row)
  BY DEF LiveAnswered
<1>2. UNCHANGED <<now, power, last, cache, polls, probes, listed, evidence>>
  BY DEF LiveAnswered
<1>3. RowOK("live", p, row)
  BY <1>1 DEF LiveRow, RowOK, IInv, WorldOK, CacheOK
<1>4. WorldOK' /\ LastIsNow'
  BY <1>2 DEF IInv, WorldOK, LastIsNow
<1>5. SweepsOK'
  BY <1>1, <1>2, <1>3, <1>4, AnswerSweeps
<1>6. CacheOK' /\ EvidenceOK'
  BY <1>2, <1>4, LastSame, StillCache, StillEvidence DEF IInv
<1> QED  BY <1>2, <1>4, <1>5, <1>6 DEF IInv, EvidenceOfHall

LEMMA ProbeAnsweredIInv == ASSUME IInv, NEW p \in PDUs, ProbeAnswered(p) PROVE IInv'
<1>1. UNCHANGED <<now, power, last, cache, polls, listed, evidence>>
  BY DEF ProbeAnswered
<1>2. PICK row : Answer("probe", p, row) /\ RowOK("probe", p, row)
                 /\ probes' \in [PDUs -> 0 .. MaxPolls]
  <2>1. CASE Answer("probe", p, None) /\ UNCHANGED probes
    BY <2>1 DEF RowOK, IInv, WorldOK
  <2>2. CASE /\ probes[p] < MaxPolls
             /\ probes' = [probes EXCEPT ![p] = @ + 1]
             /\ \E st \in {"online", "offline"} :
                  Answer("probe", p, [state |-> st, probe |-> probes[p] + 1])
    <3>1. PICK st \in {"online", "offline"} :
            Answer("probe", p, [state |-> st, probe |-> probes[p] + 1])
      BY <2>2
    <3>2. probes[p] + 1 \in 0 .. MaxPolls
      BY <2>2, BoundsAssumption DEF IInv, WorldOK
    <3>3. [state |-> st, probe |-> probes[p] + 1] \in Comm
      BY <3>2 DEF Comm
    <3>4. probes' \in [PDUs -> 0 .. MaxPolls]
      BY <2>2, <3>2 DEF IInv, WorldOK
    <3> QED  BY <3>1, <3>3, <3>4 DEF RowOK
  <2> QED  BY <2>1, <2>2 DEF ProbeAnswered
<1>3. WorldOK' /\ LastIsNow'
  BY <1>1, <1>2 DEF IInv, WorldOK, LastIsNow
<1>4. SweepsOK'
  BY <1>1, <1>2, <1>3, AnswerSweeps
<1>5. CacheOK' /\ EvidenceOK'
  BY <1>1, <1>3, LastSame, StillCache, StillEvidence DEF IInv
<1> QED  BY <1>1, <1>3, <1>4, <1>5 DEF IInv, EvidenceOfHall

-----------------------------------------------------------------------------
(* The sweeps that end.                                                     *)
LEMMA EntryOfOK == ASSUME IInv, NEW p \in PDUs PROVE EntryOK(p, EntryOf(evidence, p))
<1>1. CASE evidence[p] = None
  <2>1. NoComm \in Comm
    BY BoundsAssumption DEF NoComm, Comm
  <2>2. NoEvidence \in Evidence /\ NoEvidence.telemetry = None
    BY <2>1 DEF NoEvidence, Evidence
  <2> QED  BY <1>1, <2>2 DEF EntryOf, EntryOK
<1>2. CASE evidence[p] # None
  BY <1>2 DEF EntryOf, IInv, EvidenceOK
<1> QED  BY <1>1, <1>2

(* No merge puts the time of one sample to the state of another.            *)
LEMMA MergeOK ==
  ASSUME NEW p, NEW old, EntryOK(p, old), NEW row, RowOK("live", p, row)
  PROVE  EntryOK(p, Merge(old, row))
<1>1. CASE row = None
  <2> DEFINE e == [old EXCEPT !.unavailable = TRUE]
  <2>1. e \in Evidence /\ e.telemetry = old.telemetry
    BY DEF EntryOK, Evidence
  <2> QED  BY <1>1, <2>1 DEF Merge, EntryOK
<1>2. CASE row # None
  <2>1. row.telemetry \in Sample /\ TrueOf(p, row.telemetry)
    BY <1>2 DEF RowOK
  <2> DEFINE x == row.telemetry
  <2>2. CASE OlderAttempt(old.telemetry, x)
    BY <1>2, <2>2 DEF Merge
  <2>3. CASE ~OlderAttempt(old.telemetry, x) /\ OlderSample(old.telemetry, x)
    <3> DEFINE y == [old.telemetry EXCEPT !.stale = x.stale, !.attempt = x.attempt]
               e == [old EXCEPT !.unavailable = FALSE, !.telemetry = y]
    <3>1. old.telemetry \in Sample /\ TrueOf(p, old.telemetry)
      BY <2>3 DEF OlderSample, EntryOK, Evidence
    <3>2. /\ y \in Sample /\ y.state = old.telemetry.state
          /\ y.load = old.telemetry.load /\ y.at = old.telemetry.at
      BY <2>1, <3>1 DEF Sample
    <3>3. TrueOf(p, y)
      BY <3>1, <3>2, SameSaid
    <3>4. Merge(old, row) = e
      BY <1>2, <2>3 DEF Merge, EntryOK, Evidence
    <3> HIDE DEF y
    <3>5. e \in Evidence /\ e.telemetry = y
      BY <3>2 DEF EntryOK, Evidence
    <3> HIDE DEF e
    <3> QED  BY <3>3, <3>4, <3>5 DEF EntryOK
  <2>4. CASE ~OlderAttempt(old.telemetry, x) /\ ~OlderSample(old.telemetry, x)
    <3> DEFINE e == [old EXCEPT !.unavailable = FALSE, !.telemetry = x]
    <3>1. e \in Evidence /\ e.telemetry = x
      BY <2>1 DEF EntryOK, Evidence
    <3>2. Merge(old, row) = e
      BY <1>2, <2>4 DEF Merge
    <3> HIDE DEF e
    <3> QED  BY <2>1, <3>1, <3>2 DEF EntryOK
  <2> QED  BY <2>2, <2>3, <2>4
<1> QED  BY <1>1, <1>2

LEMMA MergeCommOK ==
  ASSUME NEW p, NEW e, EntryOK(p, e), NEW row, RowOK("probe", p, row)
  PROVE  EntryOK(p, [e EXCEPT !.comm = MergeComm(e.comm, row)])
<1> DEFINE c == MergeComm(e.comm, row)
           z == [e EXCEPT !.comm = c]
<1>1. e.comm \in Comm /\ (row # None => row \in Comm)
  BY DEF EntryOK, Evidence, RowOK
<1>2. c \in Comm
  BY <1>1 DEF MergeComm, Comm
<1> HIDE DEF c
<1>3. z \in Evidence /\ z.telemetry = e.telemetry
  BY <1>2 DEF EntryOK, Evidence
<1> HIDE DEF z
<1>4. EntryOK(p, z)
  BY <1>3 DEF EntryOK
<1> QED  BY <1>4 DEF z, c

(* What a sweep leaves in the entries, of the PDUs that it was for.         *)
LEMMA AppliedIInv ==
  ASSUME IInv, NEW s \in sweeps, Done(s), sweeps' = sweeps \ {s},
         UNCHANGED <<now, power, last, cache, polls, probes, listed>>,
         NEW new, \A p \in s.of : s.current => EntryOK(p, new[p]),
         evidence' = IF ~s.current THEN evidence
                     ELSE [p \in PDUs |-> IF p \in s.of THEN new[p] ELSE None]
  PROVE  IInv'
<1>1. WorldOK' /\ LastIsNow' /\ LastGrows
  BY LastSame DEF IInv, WorldOK, LastIsNow
<1>2. CacheOK'
  BY <1>1, StillCache
<1>3. SweepsOK'
  BY <1>1, StillSweep DEF IInv, SweepsOK
<1>4. s.current => s.of = listed
  BY DEF IInv, SweepsOK, SweepOK
<1>5. EvidenceOK' /\ EvidenceOfHall'
  <2>1. CASE ~s.current
    BY <1>1, <2>1, StillEvidence DEF IInv, EvidenceOfHall
  <2>2. CASE s.current
    <3>1. ASSUME NEW p \in PDUs
          PROVE  /\ evidence'[p] \in Evidence \cup {None}
                 /\ evidence'[p] # None => EntryOK(p, evidence'[p])
      <4>1. evidence'[p] = IF p \in s.of THEN new[p] ELSE None
        BY <2>2
      <4> QED  BY <2>2, <4>1 DEF EntryOK
    <3>2. evidence' \in [PDUs -> Evidence \cup {None}]
      BY <2>2, <3>1
    <3>3. \A p \in PDUs : evidence'[p] # None => EntryOK(p, evidence[p])'
      BY <1>1, <3>1, StillEntry DEF IInv
    <3>4. EvidenceOfHall'
      BY <1>4, <2>2 DEF EvidenceOfHall
    <3> QED  BY <3>2, <3>3, <3>4 DEF EvidenceOK
  <2> QED  BY <2>1, <2>2
<1> QED  BY <1>1, <1>2, <1>3, <1>5 DEF IInv

LEMMA ApplyLiveIInv == ASSUME IInv, NEW s \in sweeps, ApplyLive(s) PROVE IInv'
<1> DEFINE new == [p \in s.of |-> Merge(EntryOf(evidence, p), s.row[p])]
<1>1. SweepOK(s) /\ s.kind = "live" /\ Done(s)
  BY DEF ApplyLive, IInv, SweepsOK
<1>2. ASSUME NEW p \in s.of, s.current PROVE EntryOK(p, new[p])
  <2>1. p \in PDUs /\ RowOK("live", p, s.row[p])
    BY <1>1, <1>2 DEF SweepOK, Done, IInv, WorldOK
  <2> QED  BY <2>1, EntryOfOK, MergeOK
<1>3. evidence' = IF ~s.current THEN evidence
                  ELSE [p \in PDUs |-> IF p \in s.of THEN new[p] ELSE None]
  BY DEF ApplyLive, Current
<1>4. /\ sweeps' = sweeps \ {s}
      /\ UNCHANGED <<now, power, last, cache, polls, probes, listed>>
  BY DEF ApplyLive
<1> HIDE DEF new
<1> QED  BY <1>1, <1>2, <1>3, <1>4, AppliedIInv

LEMMA ApplyProbeIInv == ASSUME IInv, NEW s \in sweeps, ApplyProbe(s) PROVE IInv'
<1> DEFINE new == [p \in s.of |-> [EntryOf(evidence, p) EXCEPT !.comm =
                                   MergeComm(EntryOf(evidence, p).comm, s.row[p])]]
<1>1. SweepOK(s) /\ s.kind = "probe" /\ Done(s)
  BY DEF ApplyProbe, IInv, SweepsOK
<1>2. ASSUME NEW p \in s.of, s.current PROVE EntryOK(p, new[p])
  <2>1. p \in PDUs /\ RowOK("probe", p, s.row[p])
    BY <1>1, <1>2 DEF SweepOK, Done, IInv, WorldOK
  <2> QED  BY <2>1, EntryOfOK, MergeCommOK
<1>3. evidence' = IF ~s.current THEN evidence
                  ELSE [p \in PDUs |-> IF p \in s.of THEN new[p] ELSE None]
  BY DEF ApplyProbe, Current
<1>4. /\ sweeps' = sweeps \ {s}
      /\ UNCHANGED <<now, power, last, cache, polls, probes, listed>>
  BY DEF ApplyProbe
<1> HIDE DEF new
<1> QED  BY <1>1, <1>2, <1>3, <1>4, AppliedIInv

LEMMA ListIInv == ASSUME IInv, NEW ps \in SUBSET PDUs, List(ps) PROVE IInv'
<1>1. /\ listed' = ps /\ UNCHANGED <<now, power, last, cache, polls, probes>>
      /\ sweeps' = Cancelled
      /\ evidence' = IF ps = {} THEN evidence ELSE Retain(evidence, ps)
  BY DEF List
<1>2. WorldOK' /\ LastIsNow' /\ LastGrows
  BY <1>1, LastSame DEF IInv, WorldOK, LastIsNow
<1>3. CacheOK'
  BY <1>1, <1>2, StillCache
<1>4. SweepsOK'
  <2> SUFFICES ASSUME NEW s \in sweeps
               PROVE  SweepOK([s EXCEPT !.current = FALSE, !.row = [p \in s.of |-> None]])'
    BY <1>1 DEF Cancelled, SweepsOK
  <2> DEFINE rows == [p \in s.of |-> None]
             z == [s EXCEPT !.current = FALSE, !.row = rows]
  <2>1. SweepOK(s)
    BY DEF IInv, SweepsOK
  <2>2. DOMAIN rows = s.of
    OBVIOUS
  <2> HIDE DEF rows
  <2>3. DOMAIN z = DOMAIN s /\ z.kind = s.kind /\ z.of = s.of /\ z.row = rows
    BY <2>1 DEF SweepOK
  <2>4. ~z.current
    BY <2>1 DEF SweepOK
  <2> HIDE DEF z
  <2>5. SweepOK(z)'
    BY <2>1, <2>2, <2>3, <2>4 DEF SweepOK
  <2> QED  BY <2>5 DEF z, rows
<1>5. EvidenceOK' /\ EvidenceOfHall'
  <2>1. CASE ps = {}
    <3>1. evidence' = evidence
      BY <1>1, <2>1
    <3> QED  BY <1>1, <1>2, <2>1, <3>1, StillEvidence DEF EvidenceOfHall
  <2>2. CASE ps # {}
    <3>1. evidence' = [p \in PDUs |-> IF p \in ps THEN evidence[p] ELSE None]
      BY <1>1, <2>2 DEF Retain
    <3>2. evidence' \in [PDUs -> Evidence \cup {None}]
      BY <3>1 DEF IInv, EvidenceOK
    <3>3. \A p \in PDUs : evidence'[p] # None => EntryOK(p, evidence[p])'
      BY <1>2, <3>1, StillEntry DEF IInv, EvidenceOK
    <3> QED  BY <1>1, <3>1, <3>2, <3>3 DEF EvidenceOK, EvidenceOfHall
  <2> QED  BY <2>1, <2>2
<1> QED  BY <1>2, <1>3, <1>4, <1>5 DEF IInv

LEMMA NextIInv == IInv /\ [EvStep]_evVars => IInv'
<1> SUFFICES ASSUME IInv, [EvStep]_evVars PROVE IInv'
  OBVIOUS
<1>1. CASE Tick
  BY <1>1, TickIInv
<1>2. CASE \E p \in Polled : Switch(p) \/ PollFails(p) \/ PollOk(p)
  BY <1>2, SwitchIInv, PollIInv
<1>3. CASE \E p \in PDUs : LiveAnswered(p) \/ ProbeAnswered(p)
  BY <1>3, LiveAnsweredIInv, ProbeAnsweredIInv
<1>4. CASE \E s \in sweeps : ApplyLive(s) \/ ApplyProbe(s)
  BY <1>4, ApplyLiveIInv, ApplyProbeIInv
<1>5. CASE \E ps \in SUBSET PDUs : List(ps)
  BY <1>5, ListIInv
<1>6. CASE UNCHANGED evVars
  <2>1. WorldOK' /\ LastIsNow' /\ LastGrows
    BY <1>6, LastSame DEF evVars, IInv, WorldOK, LastIsNow
  <2> QED  BY <1>6, <2>1, StillCache, StillSweeps, StillEvidence DEF evVars, IInv, EvidenceOfHall
<1> QED  BY <1>1, <1>2, <1>3, <1>4, <1>5, <1>6 DEF EvStep, EvNext

LEMMA IInvAlways == EvSpec => []IInv
BY InitIInv, NextIInv, PTL DEF EvSpec, EvStep

-----------------------------------------------------------------------------
(* The entries of the page have the fields that rackStatus.js reads, and    *)
(* hallPDUs only PDUs.                                                      *)
THEOREM EvidenceTypes == EvSpec => []EvTypeOK
<1>1. IInv => EvTypeOK
  BY DEF IInv, WorldOK, EvidenceOK, EvTypeOK, OnOff
<1> QED  BY <1>1, IInvAlways, PTL

(* A sweep of the hall before, whenever it ends, leaves nothing in the      *)
(* entries of the hall on display.                                          *)
THEOREM OnlyOfHall == EvSpec => []EvidenceOfHall
<1>1. IInv => EvidenceOfHall
  BY DEF IInv
<1> QED  BY <1>1, IInvAlways, PTL

(* What a fresh sample says of a PDU was so within the time of freshness.   *)
LEMMA SaidIsRecent ==
  ASSUME IInv, NEW p \in PDUs, NEW t \in Clock, evidence[p] # None, evidence[p].telemetry # None,
         IsFresh(evidence[p].telemetry.at, t), NEW s \in Said(evidence[p].telemetry)
  PROVE  s \in OnOff /\ Recently(p, s)
<1> DEFINE x == evidence[p].telemetry
<1>1. x \in Sample /\ TrueOf(p, x) /\ IsFresh(x.at, t) /\ s \in Said(x)
  BY DEF IInv, EvidenceOK, EntryOK, Evidence
<1> HIDE DEF x
<1>2. s \in OnOff /\ x.at \in Nat
  BY <1>1, TimeFacts DEF Sample, Said
<1>3. p \in Polled /\ x.at <= last[p][s]
  BY <1>1 DEF TrueOf
<1>4. last[p][s] \in Nat /\ now \in Nat
  BY <1>2, <1>3, TimeFacts DEF IInv, WorldOK
<1>5. x.at # 0 /\ now <= x.at + Fresh + 1
  BY <1>1, <1>2, <1>4, FreshAssumption DEF IsFresh, Clock
<1>6. last[p][s] # 0 /\ now <= last[p][s] + Fresh + 1
  BY <1>2, <1>3, <1>4, <1>5, FreshAssumption
<1> QED  BY <1>2, <1>3, <1>6 DEF Recently

(* A PDU whose state is shown was in it within the time of freshness.       *)
LEMMA ShownIsRecent ==
  ASSUME IInv, NEW p \in PDUs, NEW t \in Clock, Power(p, t) # "unknown"
  PROVE  Power(p, t) \in OnOff /\ Recently(p, Power(p, t))
<1>1. Measured(p, t) /\ Power(p, t) = evidence[p].telemetry.state
  BY DEF Power
<1>2. evidence[p] # None
  BY <1>1 DEF Measured, EntryOf, NoEvidence
<1>3. evidence[p].telemetry # None /\ IsFresh(evidence[p].telemetry.at, t)
  BY <1>1, <1>2 DEF Measured, EntryOf
<1>4. evidence[p].telemetry \in Sample
  BY <1>2, <1>3 DEF IInv, EvidenceOK, EntryOK, Evidence
<1>5. Power(p, t) \in Said(evidence[p].telemetry)
  BY <1>1, <1>4 DEF Sample, Said, OnOff
<1> QED  BY <1>2, <1>3, <1>5, SaidIsRecent

(* What the colour of a rack confirms, "on", "off" or some of each, its     *)
(* PDUs were within the time of freshness, whatever polls failed, answers   *)
(* were lost and sweeps overtook each other.                                *)
THEOREM ConfirmedAlways == EvSpec => []ConfirmedIsRecent
<1>1. IInv => ConfirmedIsRecent
  <2> SUFFICES ASSUME IInv, NEW ps \in SUBSET listed, NEW t \in Clock
               PROVE  /\ RackStatus(ps, t) \in {"on", "off"} =>
                            \A p \in ps : Recently(p, RackStatus(ps, t))
                      /\ RackStatus(ps, t) = "partial" =>
                            \A s \in {"on", "off"} : \E p \in ps : Recently(p, s)
    BY DEF ConfirmedIsRecent
  <2> DEFINE states == {Power(p, t) : p \in ps}
  <2>1. ASSUME NEW p \in ps, "unknown" \notin states
        PROVE  Power(p, t) \in OnOff /\ Recently(p, Power(p, t))
    <3>1. p \in PDUs /\ Power(p, t) # "unknown"
      BY <2>1 DEF IInv, WorldOK
    <3> QED  BY <3>1, ShownIsRecent
  <2>2. CASE RackStatus(ps, t) \in {"on", "off"}
    <3>1. states = {RackStatus(ps, t)} /\ "unknown" \notin states
      BY <2>2 DEF RackStatus
    <3>2. \A p \in ps : Recently(p, RackStatus(ps, t))
      BY <2>1, <3>1
    <3> QED  BY <2>2, <3>2
  <2>3. CASE RackStatus(ps, t) = "partial"
    <3>1. ps # {} /\ "unknown" \notin states /\ states # {"on"} /\ states # {"off"}
      BY <2>3 DEF RackStatus
    <3>2. states \subseteq {"on", "off"} /\ states # {}
      BY <2>1, <3>1 DEF OnOff
    <3>3. "on" \in states /\ "off" \in states
      BY <3>1, <3>2
    <3>4. ASSUME NEW s \in {"on", "off"} PROVE \E p \in ps : Recently(p, s)
      <4>1. PICK p \in ps : Power(p, t) = s
        BY <3>3
      <4>2. Recently(p, s)
        BY <2>1, <3>1, <4>1
      <4> QED  BY <4>2
    <3> QED  BY <2>3, <3>4
  <2>4. CASE RackStatus(ps, t) \notin {"on", "off", "partial"}
    BY <2>4
  <2> QED  BY <2>2, <2>3, <2>4
<1> QED  BY <1>1, IInvAlways, PTL

(* A rack whose plaque shows a total has, of every one of its PDUs, watts   *)
(* that the PDU drew within the time of freshness.                          *)
THEOREM TotalIsFresh == EvSpec => []TotalIsRecent
<1>1. IInv => TotalIsRecent
  <2> SUFFICES ASSUME IInv, NEW ps \in SUBSET listed, NEW t \in Clock, RackTotal(ps, t),
                      NEW p \in ps
               PROVE  \E s \in {"on", "off"} : LoadOf(p) = s /\ Recently(p, s)
    BY DEF TotalIsRecent
  <2>1. Reported(p, t) /\ p \in PDUs
    BY DEF RackTotal, IInv, WorldOK
  <2>2. evidence[p] # None
    BY <2>1 DEF Reported, EntryOf, NoEvidence
  <2>3. /\ evidence[p].telemetry # None /\ IsFresh(evidence[p].telemetry.at, t)
        /\ evidence[p].telemetry.load # "none"
    BY <2>1, <2>2 DEF Reported, EntryOf
  <2>4. evidence[p].telemetry \in Sample
    BY <2>1, <2>2, <2>3 DEF IInv, EvidenceOK, EntryOK, Evidence
  <2>5. LoadOf(p) = evidence[p].telemetry.load
    BY <2>2, <2>3 DEF LoadOf, EntryOf
  <2>6. LoadOf(p) \in Said(evidence[p].telemetry)
    BY <2>3, <2>4, <2>5 DEF Sample, Said, OnOff
  <2>7. LoadOf(p) \in OnOff /\ Recently(p, LoadOf(p))
    BY <2>1, <2>2, <2>3, <2>6, SaidIsRecent
  <2> QED  BY <2>7 DEF OnOff
<1> QED  BY <1>1, IInvAlways, PTL
=============================================================================
