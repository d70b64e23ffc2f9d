----------------------------- MODULE OutletCard -----------------------------
(***************************************************************************)
(* An outlet of the PDU that is selected, as the outlets page of the        *)
(* dashboard shows and switches it (OutletCard and refreshData of           *)
(* src/frontend/src/components/Dashboard2.jsx).  The card shows what was    *)
(* clicked before the PDU reports it.  The card is not told which PDU its   *)
(* data come from, and answers arrive in any order.                         *)
(***************************************************************************)
EXTENDS DashboardNav

CONSTANT MaxActs    \* a bound of the model: clicks and other switchings

VARIABLES
  relay,      \* external: the outlet of each PDU
  data,       \* data: the state it reports, None before the first answer
  good,       \* lastGoodDataRef
  gets,       \* requests under way, with the state the server read
  pending,    \* pendingState
  busy,       \* loading
  puts,       \* commands under way, and whether their card is still there
  acts

cardVars == <<relay, data, good, gets, pending, busy, puts, acts>>

CardInit ==
  /\ relay \in [PDUs -> BOOLEAN]
  /\ data = None /\ good = None /\ gets = {}
  /\ pending = None /\ busy = FALSE /\ puts = {} /\ acts = 0

OnOutlets == tab = "outlets" /\ (FleetSplit \/ ~Neural)
Get(p) == [of |-> p, on |-> relay[p]]

(* The override is dropped when the PDU has caught up with it: an effect of  *)
(* the data as well as of the click.                                        *)
Override(p, d) == IF p = d THEN None ELSE p
Shown == IF pending # None THEN pending ELSE data

Act == acts < MaxActs /\ acts' = acts + 1

(* A page without the card forgets it.  Another PDU is asked for at once,    *)
(* the card and the data of the one before stay.                            *)
Follows ==
  /\ IF sel' # sel
     THEN good' = None /\ gets' = IF sel' = None THEN gets ELSE gets \cup {Get(sel')}
     ELSE UNCHANGED <<good, gets>>
  /\ IF OnOutlets'
     THEN UNCHANGED <<pending, busy, puts>>
     ELSE /\ pending' = None /\ busy' = FALSE
          /\ puts' = {[c EXCEPT !.live = FALSE] : c \in puts}
  /\ UNCHANGED <<relay, data>>

(* handleToggle *)
Toggle ==
  /\ OnOutlets /\ sel # None /\ data # None /\ ~busy
  /\ Act
  /\ pending' = Override(~Shown, data)
  /\ busy' = TRUE
  /\ puts' = puts \cup {[of |-> sel, to |-> ~Shown, live |-> TRUE]}
  /\ UNCHANGED <<relay, data, good, gets>>

(* The server switches the outlet and says so, or fails before or after it. *)
(* A success is followed by a refresh of the PDU that was switched.         *)
Commanded(c, ok, done) ==
  /\ c \in puts /\ (ok => done)
  /\ puts' = puts \ {c}
  /\ relay' = IF done THEN [relay EXCEPT ![c.of] = c.to] ELSE relay
  /\ gets' = IF ok THEN gets \cup {[of |-> c.of, on |-> c.to]} ELSE gets
  /\ pending' = IF c.live /\ ~ok THEN None ELSE pending
  /\ busy' = IF c.live THEN FALSE ELSE busy
  /\ UNCHANGED <<data, good, acts>>

(* Mutant: the override has no time limit. *)
NoExpire == FALSE /\ UNCHANGED cardVars

(* "never lie forever": 35 s after the click. *)
Expire ==
  /\ pending # None
  /\ pending' = None
  /\ UNCHANGED <<relay, data, good, gets, busy, puts, acts>>

(* refreshData: every second, or every ten. *)
Poll ==
  /\ sel # None
  /\ gets' = gets \cup {Get(sel)}
  /\ UNCHANGED <<relay, data, good, pending, busy, puts, acts>>

Shows(d, g) == data' = d /\ pending' = Override(pending, d) /\ good' = g

(* An answer is shown; it is kept for later only if a value of it that is    *)
(* not of an outlet is other than zero (hasRealValues).                     *)
Answered(g, real) ==
  /\ g \in gets
  /\ gets' = gets \ {g}
  /\ Shows(g.on, IF real THEN g.on ELSE good)
  /\ UNCHANGED <<relay, busy, puts, acts>>

(* An empty answer shows the one that was kept; an error is not shown.       *)
AnsweredEmpty(g) ==
  /\ g \in gets
  /\ gets' = gets \ {g}
  /\ IF good # None THEN Shows(good, good) ELSE UNCHANGED <<data, pending, good>>
  /\ UNCHANGED <<relay, busy, puts, acts>>
GetFailed(g) ==
  /\ g \in gets
  /\ gets' = gets \ {g}
  /\ UNCHANGED <<relay, data, pending, good, busy, puts, acts>>

(* External: someone else switches the outlet. *)
Switched(p) ==
  /\ Act
  /\ relay' = [relay EXCEPT ![p] = ~relay[p]]
  /\ UNCHANGED <<data, good, gets, pending, busy, puts>>

AnyCommand == \E c \in puts, ok, done \in BOOLEAN : Commanded(c, ok, done)
AnswersOf(g) == \E real \in BOOLEAN : Answered(g, real)
AnyGet(g) == AnswersOf(g) \/ AnsweredEmpty(g) \/ GetFailed(g)
Gets == [of : PDUs, on : BOOLEAN]

CardNext ==
  \/ Toggle \/ Expire \/ Poll \/ AnyCommand
  \/ \E p \in PDUs : Switched(p)
  \/ \E g \in gets : AnyGet(g)
-----------------------------------------------------------------------------
(* "never lie forever": after the last click the card comes to show the      *)
(* state of the outlet of the PDU that is selected, whatever was lost, late  *)
(* or overtaken, and whichever PDU was selected before.  Not while the       *)
(* answer that is kept for empty ones is itself of another state: answers    *)
(* with nothing but zeros do not replace it, and an empty one shows it again. *)
KeptIsOld == good \notin {None, relay[sel]}
CardSettles ==
  <>[](OnOutlets /\ sel # None /\ data # None => Shown = relay[sel] \/ KeptIsOld)
=============================================================================
