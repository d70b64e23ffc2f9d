---------------------------- MODULE LatestRequest ----------------------------
(***************************************************************************)
(* What a view that loads one of several items promises: it shows nothing, *)
(* or keeps what it shows, until the answer to the request made last; an   *)
(* answer to an earlier request changes nothing.                           *)
(***************************************************************************)
CONSTANTS
  Items,
  None

VARIABLES
  requested,  \* the item asked for last
  shown       \* the item on display

vars == <<requested, shown>>

Init ==
  /\ requested = None
  /\ shown = None

Request(i) ==
  /\ requested' = i
  /\ UNCHANGED shown

Answer ==
  /\ shown' = requested
  /\ UNCHANGED requested

(* The view is closed, or there is nothing left to show. *)
Close ==
  /\ requested' \in {requested, None}
  /\ shown' = None

Next == (\E i \in Items : Request(i)) \/ Answer \/ Close

Spec == Init /\ [][Next]_vars
=============================================================================
