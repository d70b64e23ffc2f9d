---------------------------- MODULE MCIncidents ----------------------------
(* Model-checking instance of Incidents.                                    *)
EXTENDS Incidents
=============================================================================
