---------------------------- MODULE IncidentPage ----------------------------
(***************************************************************************)
(* The page of one incident that a technician opens on a phone              *)
(* (src/frontend/src/components/MobileIncidentPage.jsx).  It reads the       *)
(* incident every 10 s, whether or not the last answer came, and takes over  *)
(* what an answer says, however old it is.  A request that fails on one      *)
(* address of the server is sent again to the next                          *)
(* (src/frontend/src/publicApi.js), whether or not it was served.           *)
(*                                                                          *)
(* The record itself is the server's, see Incidents.                        *)
(***************************************************************************)
EXTENDS Naturals, FiniteSets

CONSTANTS
  NoData,     \* the page has none
  MaxReads    \* a bound of the model: answers of the server under way

VARIABLES
  incident,   \* the record of the server
  ui,         \* the state of the page
  answers,    \* answers to reads that are under way
  sent        \* the requests of the two buttons

incidentVars == <<incident, ui, answers, sent>>

NoPage == [open |-> FALSE, prefix |-> FALSE, data |-> NoData, loading |-> TRUE, error |-> FALSE,
           acked |-> FALSE, resolved |-> FALSE, acking |-> FALSE, resolving |-> FALSE]

IncidentInit ==
  /\ incident = [acked |-> FALSE, resolved |-> FALSE, closed |-> FALSE]
  /\ ui = NoPage /\ answers = {} /\ sent = {}

Bases == 2

(* What others do with the record: another technician acknowledges it, a     *)
(* repair closes it as a duplicate and another opens it again.              *)
Elsewhere ==
  /\ \/ ~incident.closed /\ incident' = [incident EXCEPT !.acked = TRUE]
     \/ ~incident.acked /\ incident' = [incident EXCEPT !.closed = ~@]
  /\ UNCHANGED <<ui, answers, sent>>

(* fetchIncident: the effect that starts with the page, and once more when   *)
(* the layer of the token is known, and its interval.                       *)
Reads == Cardinality(answers) < MaxReads /\ answers' = answers \cup {incident}
OpenIncident ==
  /\ ~ui.open
  /\ ui' = [NoPage EXCEPT !.open = TRUE]
  /\ Reads
  /\ UNCHANGED <<incident, sent>>
ReadIncident ==
  /\ ui.open
  /\ Reads
  /\ UNCHANGED <<incident, ui, sent>>

ShowAnswer(r) ==
  /\ r \in answers
  /\ answers' = answers \ {r}
  /\ ui' = [ui EXCEPT !.prefix = TRUE, !.data = r, !.acked = r.acked, !.resolved = r.resolved,
                      !.error = FALSE, !.loading = FALSE]
  /\ UNCHANGED <<incident, sent>>

(* The server refuses, and what was shown is gone once the layer is known;   *)
(* or it is not reached.                                                    *)
ReadFails(r, refused) ==
  /\ r \in answers
  /\ answers' = answers \ {r}
  /\ ui' = [ui EXCEPT !.data = IF refused /\ ui.prefix THEN NoData ELSE @,
                      !.error = TRUE, !.loading = FALSE]
  /\ UNCHANGED <<incident, sent>>

(* The pages: loading, the link is invalid, the incident with its bar.      *)
Loaded == ui.open /\ ~ui.loading
IncidentShown == Loaded /\ ~ui.error /\ ui.data # NoData
AckButton == IncidentShown /\ ~ui.data.closed /\ ~ui.acked /\ ~ui.acking
ResolveButton == IncidentShown /\ ~ui.data.closed /\ ui.acked /\ ~ui.resolved /\ ~ui.resolving

Send(w) == sent' = sent \cup {[what |-> w, tries |-> 1, ok |-> "unserved"]}

(* handleAck, handleResolve *)
Ack ==
  /\ AckButton
  /\ ui' = [ui EXCEPT !.acking = TRUE]
  /\ Send("ack")
  /\ UNCHANGED <<incident, answers>>
MarkResolved ==
  /\ ResolveButton
  /\ ui' = [ui EXCEPT !.resolving = TRUE]
  /\ Send("resolve")
  /\ UNCHANGED <<incident, answers>>

(* acknowledge_incident; resolve_incident, which closes it as well           *)
Accepts(w) == ~incident.closed /\ (w = "resolve" => incident.acked)
Serve(p) ==
  /\ p \in sent /\ p.ok = "unserved"
  /\ incident' = IF ~Accepts(p.what) THEN incident
                 ELSE IF p.what = "ack" THEN [incident EXCEPT !.acked = TRUE]
                 ELSE [incident EXCEPT !.resolved = TRUE, !.closed = TRUE]
  /\ sent' = (sent \ {p}) \cup {[p EXCEPT !.ok = IF Accepts(p.what) THEN "yes" ELSE "no"]}
  /\ UNCHANGED <<ui, answers>>

(* publicApiFetch: no answer from this base *)
NextBase(p) ==
  /\ p \in sent /\ p.tries < Bases
  /\ sent' = (sent \ {p}) \cup {[p EXCEPT !.tries = @ + 1, !.ok = "unserved"]}
  /\ UNCHANGED <<incident, ui, answers>>

Ended(w) == IF w = "ack" THEN [ui EXCEPT !.acking = FALSE] ELSE [ui EXCEPT !.resolving = FALSE]

(* Mutant: a refusal counts as an answer. *)
AnyOutcome(p) == TRUE

Success(p) == p.ok = "yes"

(* The button's answer changes what is shown and the incident is read again. *)
Done(p) ==
  /\ p \in sent /\ p.ok # "unserved" /\ Success(p)
  /\ sent' = sent \ {p}
  /\ ui' = IF p.what = "ack" THEN [Ended("ack") EXCEPT !.acked = TRUE]
           ELSE [Ended("resolve") EXCEPT !.resolved = TRUE,
                   !.data = IF @ = NoData THEN NoData ELSE [@ EXCEPT !.resolved = TRUE, !.closed = TRUE]]
  /\ Reads
  /\ UNCHANGED incident
Refused(p) ==
  /\ p \in sent /\ (p.ok = "no" \/ p.tries = Bases)
  /\ sent' = sent \ {p}
  /\ ui' = Ended(p.what)
  /\ UNCHANGED <<incident, answers>>

IncidentNext ==
  \/ Elsewhere \/ OpenIncident \/ ReadIncident \/ Ack \/ MarkResolved
  \/ \E r \in answers : ShowAnswer(r) \/ \E b \in BOOLEAN : ReadFails(r, b)
  \/ \E p \in sent : Serve(p) \/ NextBase(p) \/ Done(p) \/ Refused(p)

IncidentSpec == IncidentInit /\ [][IncidentNext]_incidentVars
-----------------------------------------------------------------------------
(* However old the answers are that are shown and however often a request    *)
(* is sent, the page never tells a technician that an incident is            *)
(* acknowledged or resolved that is not, asks to resolve only what is        *)
(* acknowledged, and has each button disabled only while its request is      *)
(* under way.                                                               *)
PageHonest ==
  /\ ui.acked => incident.acked
  /\ ui.resolved \/ (ui.data # NoData /\ ui.data.resolved) => incident.resolved
  /\ \A p \in sent : p.what = "resolve" => incident.acked
  /\ ui.acking = (\E p \in sent : p.what = "ack")
  /\ ui.resolving = (\E p \in sent : p.what = "resolve")
=============================================================================
