--------------------------- MODULE MCPduEvidence ---------------------------
(* Two instances in one, each with bounds of its own. Deep: the dashboard   *)
(* lists a PDU that is polled, or one of another hall that is not; sweeps   *)
(* of both kinds overlap, every read has all values. Wide: a rack of two    *)
(* polled PDUs, one live sweep at a time, one of the PDUs switched or read  *)
(* in part. On and off are treated alike, so that one of the initial states *)
(* is enough.                                                               *)
EXTENDS PduEvidence, TLC

CONSTANT OtherHall  \* the PDU that is not polled in the deep instance

VARIABLE wide

MCNext ==
  /\ \/ EvNext
     \/ \E p \in PDUs : ~wide /\ List({p})
     \/ wide /\ listed = {} /\ List(PDUs)
  /\ UNCHANGED wide
MCInit == EvInit /\ wide \in BOOLEAN /\ \A p \in Polled : power[p] = "on"
MCSpec == MCInit /\ [][MCNext]_<<evVars, wide>>

Deep ==
  /\ polls[OtherHall] = 0 /\ probes[OtherHall] = 0 /\ power[OtherHall] = "on"
  /\ \A p \in PDUs :
       /\ polls[p] + probes[p] <= 3
       /\ cache[p].at # 0 => cache[p].state # "unknown" /\ cache[p].load # "none"
Wide ==
  /\ Cardinality(sweeps) <= 1 /\ \A s \in sweeps : s.kind = "live"
  /\ \A p \in PDUs : polls[p] <= 1 /\ polls[OtherHall] <= polls[p]
  /\ polls[OtherHall] = 0 => power[OtherHall] = "on"
  /\ \A p \in PDUs \ {OtherHall} :
       power[p] = "on" /\ (cache[p].at # 0 => cache[p].state # "unknown" /\ cache[p].load # "none")
Small == IF wide THEN Wide ELSE Deep
=============================================================================
