----------------------------- MODULE DebugPanel -----------------------------
(***************************************************************************)
(* The overlay with memory and frame statistics                            *)
(* (src/frontend/src/3d/debugPanel.js): an element of the page, a flag and *)
(* an interval timer, changed by show, hide, toggle and dispose in any     *)
(* order.  The numbers shown are left out, their history is not.           *)
(***************************************************************************)
EXTENDS Naturals

CONSTANT MaxHistory  \* maxHistoryLength

VARIABLES
  element,  \* container: it is part of the page
  shown,    \* isVisible
  timer,    \* updateTimer is running
  history   \* lengths of the histories of the frame rate and of the memory

panelVars == <<element, shown, timer, history>>

PanelInit ==
  /\ element = TRUE
  /\ shown = FALSE
  /\ timer = FALSE
  /\ history = [fps |-> 0, memory |-> 0]

(* show sets the flag first; without the element it fails then. *)
Show ==
  /\ ~shown
  /\ shown' = TRUE
  /\ timer' = (timer \/ element)
  /\ UNCHANGED <<element, history>>

Hide ==
  /\ shown
  /\ shown' = FALSE
  /\ timer' = (timer /\ ~element)
  /\ UNCHANGED <<element, history>>

(* push, and shift when the history is longer than its limit. *)
Pushed(n) == IF n = MaxHistory THEN n ELSE n + 1

(* update, at a frame that completes a second. *)
Frame ==
  /\ history' = [history EXCEPT !.fps = Pushed(@)]
  /\ UNCHANGED <<element, shown, timer>>

(* _updateStats, from the timer; a panel without a renderer has no memory. *)
Tick ==
  /\ timer /\ shown
  /\ history' = [history EXCEPT !.memory = Pushed(@)]
  /\ UNCHANGED <<element, shown, timer>>

(* Mutant: dispose leaves the timer to hide. *)
DisposeTimer ==
  /\ element
  /\ element' = FALSE
  /\ UNCHANGED <<shown, timer, history>>

DisposePanel ==
  /\ element' = FALSE
  /\ timer' = FALSE
  /\ UNCHANGED <<shown, history>>

PanelNext == Show \/ Hide \/ Frame \/ Tick \/ DisposePanel
PanelSpec == PanelInit /\ [][PanelNext]_panelVars
-----------------------------------------------------------------------------
(* The types of the panel's variables. *)
PanelTypeOK ==
  /\ element \in BOOLEAN
  /\ shown \in BOOLEAN
  /\ timer \in BOOLEAN
  /\ history \in [fps : 0 .. MaxHistory, memory : 0 .. MaxHistory]

(* The timer runs exactly while there is a panel to see: not after dispose, *)
(* whatever show, hide and toggle did before or do after it.                *)
TimerIsVisible == timer = (element /\ shown)
=============================================================================
