--------------------------- MODULE Wizard_proofs ---------------------------
(***************************************************************************)
(* Theorems on the commissioning wizard as a whole (Wizard): its parts     *)
(* share the step and loading, each has an invariant of its own variables  *)
(* besides, and none disturbs that of another.  The plan of the batch rests *)
(* on lemmas about lists without doubles.  Then theorems on the job         *)
(* of the server that its batch starts (BatchCommission), for any number   *)
(* of PDUs, logins and host addresses.                                     *)
(***************************************************************************)
EXTENDS Wizard, BatchCommission, FiniteSetTheorems, SequenceTheorems, TLAPS

(* No two parts write the same variables but those of the shell: what a     *)
(* step of the wizard is for each of them.                                  *)
SetupMoves == SetupUser \/ SetupAnswer \/ \E s \in {"online", "failed"} : PingEnds(s)
BatchMoves == BatchUser \/ BatchAnswer \/ BatchServer
InventoryMoves == InventoryUser \/ InventoryAnswer \/ ReopenInventory
RepairMoves == RepairUser \/ RepairAnswer \/ EntersRepair
DoctorMoves == DoctorNext \/ EntersDoctor

LEMMA InventoryKeepsLoading == InventoryUser \/ InventoryAnswer => UNCHANGED loading
BY DEF InventoryUser, Upload, ClearList, Skip, Detect, TestLogin, ApplyTarget, Pick, Redo, ApplyWeb,
       InventoryAnswer, Parsed, Detected, NothingCame, WebApplied, TargetAnswered

LEMMA RepairKeepsLoading == RepairUser \/ RepairAnswer => UNCHANGED loading
BY DEF RepairUser, FetchUnits, Probe, Mark, Repair, RepairAnswer, UnitsListed, RepairFailed,
       UnitsRepaired

LEMMA DoctorKeepsLoading == DoctorNext => UNCHANGED loading
BY DEF DoctorNext, StartDoctor, DoctorStarted, StartFailed, PollDoctor, DoctorDone, JobSeen,
       PollDoctorFailed

LEMMA PartsMove ==
  ASSUME [WizardNext]_wizardVars
  PROVE  /\ SetupMoves \/ UNCHANGED setupVars
         /\ InventoryMoves \/ UNCHANGED invVars
         /\ RepairMoves \/ UNCHANGED repairVars
         /\ DoctorMoves \/ UNCHANGED doctorVars
         /\ \/ SetupMoves /\ UNCHANGED batchVars
            \/ BatchMoves /\ UNCHANGED setupVars
            \/ UNCHANGED <<setupVars, batchVars>> /\ (UNCHANGED loading \/ ~loading')
<1>1. CASE WizardUser
  <2>1. CASE SetupUser /\ EntersRepair /\ EntersDoctor /\ UNCHANGED <<batchVars, invVars>>
    BY <2>1 DEF SetupMoves, RepairMoves, DoctorMoves
  <2>2. CASE BatchUser /\ UNCHANGED <<setupVars, invVars, repairVars, doctorVars>>
    BY <2>2 DEF BatchMoves
  <2>3. CASE InventoryUser /\ UNCHANGED <<setupVars, batchVars, repairVars, doctorVars>>
    BY <2>3, InventoryKeepsLoading DEF InventoryMoves
  <2>4. CASE RepairUser /\ UNCHANGED <<setupVars, batchVars, invVars, doctorVars>>
    BY <2>4, RepairKeepsLoading DEF RepairMoves
  <2>5. CASE Reopen
    BY <2>5 DEF Reopen, InventoryMoves, DoctorMoves
  <2> QED
    BY <1>1, <2>1, <2>2, <2>3, <2>4, <2>5 DEF WizardUser
<1>2. CASE SetupStep \/ PingStep
  BY <1>2 DEF SetupStep, PingStep, SetupMoves
<1>3. CASE BatchStep \/ ServerStep
  BY <1>3 DEF BatchStep, ServerStep, BatchMoves
<1>4. CASE InventoryStep
  BY <1>4, InventoryKeepsLoading DEF InventoryStep, InventoryMoves
<1>5. CASE RepairStep
  BY <1>5, RepairKeepsLoading DEF RepairStep, RepairMoves
<1>6. CASE DoctorStep
  BY <1>6, DoctorKeepsLoading DEF DoctorStep, DoctorMoves
<1>7. CASE UNCHANGED wizardVars
  BY <1>7 DEF wizardVars, shellVars
<1> QED
  BY <1>1, <1>2, <1>3, <1>4, <1>5, <1>6, <1>7 DEF WizardNext

-----------------------------------------------------------------------------
(* The setup.  While its last step is under way it is not commissioned and  *)
(* nothing is saved, and a save that follows a new address follows an       *)
(* address that was taken.                                                  *)
LastStep == task.kind \in {"static", "save"}
LastStepOK ==
  LastStep =>
    /\ task = [kind |-> task.kind, remote |-> task.remote, live |-> task.live,
               final |-> task.final]
    /\ ~commissioned /\ row = None
SaveOK ==
  task.kind = "save" /\ task.remote /\ task.final # task.live => told = <<task.live, task.final>>

SetupInv == LastStepOK /\ SaveOK /\ SavedAfterApplied

LEMMA SetupBegins == SetupInit => SetupInv
BY DEF SetupInit, NoTask, SetupInv, LastStep, LastStepOK, SaveOK, SavedAfterApplied

LEMMA SetupUserKeeps == ASSUME SetupInv, SetupUser PROVE SetupInv'
<1> USE DEF SetupInv, LastStep, LastStepOK, SaveOK, SavedAfterApplied
<1>1. ASSUME NEW m \in Modes, Tab(m) PROVE SetupInv'
  BY <1>1 DEF Tab
<1>2. CASE ScanSubnet
  BY <1>2 DEF ScanSubnet, Begin
<1>3. CASE GoNext \/ GoBack
  BY <1>3 DEF GoNext, GoBack, GoTo
<1>4. CASE Another
  BY <1>4 DEF Another
<1>5. CASE ApplyNetwork \/ ApplyWebAccess
  BY <1>5 DEF ApplyNetwork, ApplyWebAccess, Begin
<1>6. ASSUME NEW k \in {"snmp", "time"}, ApplySettings(k) PROVE SetupInv'
  BY <1>6 DEF ApplySettings, Begin
<1>7. CASE Commission
  BY <1>7 DEF Commission, Begin, ConfirmStep
<1>8. ASSUME NEW a \in Addr, ScanFactory(a) \/ ScanManual(a) \/ Connect(a) PROVE SetupInv'
  BY <1>8 DEF ScanFactory, ScanManual, Connect, Begin
<1>9. ASSUME NEW a \in Addr, Select(a) \/ EditAddress(a) \/ ChooseAddress(a) PROVE SetupInv'
  BY <1>9 DEF Select, EditAddress, ChooseAddress
<1> QED
  BY <1>1, <1>2, <1>3, <1>4, <1>5, <1>6, <1>7, <1>8, <1>9 DEF SetupUser

LEMMA SetupAnswerKeeps == ASSUME SetupInv, SetupAnswer PROVE SetupInv'
<1> USE DEF SetupInv, LastStep, LastStepOK, SaveOK, SavedAfterApplied
<1>1. CASE ScanFound
  BY <1>1 DEF ScanFound, End, NoTask
<1>2. CASE LoggedIn \/ Connected
  BY <1>2 DEF LoggedIn, Connected, End, NoTask
<1>3. ASSUME NEW as, SubnetFound(as) PROVE SetupInv'
  BY <1>3 DEF SubnetFound, End, NoTask
<1>4. ASSUME NEW b, Applied(b) PROVE SetupInv'
  BY <1>4 DEF Applied, End, NoTask
<1>5. ASSUME NEW b \in BOOLEAN, Saved(b) PROVE SetupInv'
  BY <1>5 DEF Saved, End, NoTask
<1>6. ASSUME NEW t \in BOOLEAN, NEW b \in BOOLEAN, StaticAnswered(t, b) PROVE SetupInv'
  <2>1. CASE Accepted(t, b)
    BY <1>6, <2>1 DEF StaticAnswered, Accepted
  <2>2. CASE ~Accepted(t, b)
    BY <1>6, <2>2 DEF StaticAnswered, End, NoTask
  <2> QED
    BY <2>1, <2>2
<1>7. ASSUME NEW kinds, Failed(kinds) PROVE SetupInv'
  BY <1>7 DEF Failed, End, NoTask
<1> QED
  BY <1>1, <1>2, <1>3, <1>4, <1>5, <1>6, <1>7 DEF SetupAnswer

LEMMA SetupKeeps == SetupInv /\ [WizardNext]_wizardVars => SetupInv'
<1> SUFFICES ASSUME SetupInv, [WizardNext]_wizardVars PROVE SetupInv'
  OBVIOUS
<1>1. ASSUME NEW s, PingEnds(s) PROVE SetupInv'
  BY <1>1 DEF PingEnds, SetupInv, LastStep, LastStepOK, SaveOK, SavedAfterApplied
<1>2. CASE UNCHANGED setupVars
  BY <1>2 DEF setupVars, SetupInv, LastStep, LastStepOK, SaveOK, SavedAfterApplied
<1> QED
  BY <1>1, <1>2, PartsMove, SetupUserKeeps, SetupAnswerKeeps DEF SetupMoves

(* In remote mode a PDU gets into the hall under a new address only after    *)
(* the PDU reached took that address and began to reboot: handleCommission,  *)
(* whatever else of the wizard is used before, meanwhile and after.         *)
THEOREM AddressTakenFirst == WizardSpec => []SavedAfterApplied
<1>1. WizardInit => SetupInv
  BY SetupBegins DEF WizardInit
<1>2. SetupInv => SavedAfterApplied
  BY DEF SetupInv
<1> QED
  BY <1>1, <1>2, SetupKeeps, PTL DEF WizardSpec

-----------------------------------------------------------------------------
(* The inventory.  Every list, the ones that handlers under way will write  *)
(* back included, shows as done only what a PDU took or accepted.           *)
OnPdu == {"taken", "written"}
TrueList(list, applied) ==
  list \in [Targets -> Status] /\ \A t \in Targets : list[t] = "done" => applied[t] \in OnPdu

RequestOK(r) ==
  /\ "kind" \in DOMAIN r
  /\ r.kind \in {"apply", "web"} => "saw" \in DOMAIN r /\ TrueList(r.saw, given)

InventoryInv ==
  /\ given \in [Targets -> {"none", "written", "taken"}]
  /\ TrueList(inv, given) /\ TrueList(stored, given)
  /\ \A r \in reqs : RequestOK(r)

(* A target may be set to anything but done, and to done when it was given. *)
LEMMA WithTrue ==
  ASSUME NEW list, TrueList(list, given), NEW t, NEW st \in Status,
         \A u \in Targets : given[u] \in OnPdu => given'[u] \in OnPdu,
         st = "done" /\ t \in Targets => given'[t] \in OnPdu
  PROVE  TrueList(With(list, t, st), given')
BY DEF TrueList, With

LEMMA InventoryBegins == InventoryInit => InventoryInv
BY DEF InventoryInit, NoList, Status, InventoryInv, RequestOK, TrueList

LEMMA InventoryUserKeeps == ASSUME InventoryInv, InventoryUser PROVE InventoryInv'
<1>1. CASE Upload \/ Detect \/ TestLogin
  BY <1>1 DEF Upload, Detect, TestLogin, Request, InventoryInv, RequestOK, TrueList
<1>2. CASE ClearList
  BY <1>2 DEF ClearList, Write, NoList, Status, InventoryInv, RequestOK, TrueList
<1>3. CASE Skip
  <2>1. TrueList(With(inv, Active, "skipped"), given')
    BY <1>3, WithTrue DEF Skip, InventoryInv, Status
  <2> QED
    BY <1>3, <2>1 DEF Skip, Write, InventoryInv, RequestOK, TrueList
<1>4. CASE ApplyTarget
  BY <1>4 DEF ApplyTarget, Request, InventoryInv, RequestOK, TrueList
<1>5. ASSUME NEW t \in Targets, Pick(t) PROVE InventoryInv'
  BY <1>5 DEF Pick, InventoryInv, RequestOK, TrueList
<1>6. ASSUME NEW t \in Targets, Redo(t) PROVE InventoryInv'
  <2>1. TrueList(With(inv, t, "pending"), given')
    BY <1>6, WithTrue DEF Redo, InventoryInv, Status
  <2> QED
    BY <1>6, <2>1 DEF Redo, Write, InventoryInv, RequestOK, TrueList
<1>7. ASSUME NEW t \in Targets, ApplyWeb(t) PROVE InventoryInv'
  BY <1>7 DEF ApplyWeb, Request, InventoryInv, RequestOK, TrueList
<1> QED
  BY <1>1, <1>2, <1>3, <1>4, <1>5, <1>6, <1>7 DEF InventoryUser

LEMMA InventoryAnswerKeeps == ASSUME InventoryInv, InventoryAnswer PROVE InventoryInv'
<1>1. PICK r \in reqs : \/ \E ts \in Lists : Parsed(r, ts)
                        \/ Detected(r) \/ NothingCame(r) \/ WebApplied(r)
                        \/ \E ok, npdu, written, restarted \in BOOLEAN :
                             TargetAnswered(r, ok, npdu, written, restarted)
  BY DEF InventoryAnswer
<1>2. ASSUME NEW ts \in Lists, Parsed(r, ts) PROVE InventoryInv'
  BY <1>2 DEF Parsed, Answered, Write, Status, InventoryInv, RequestOK, TrueList
<1>3. CASE Detected(r) \/ NothingCame(r)
  BY <1>3 DEF Detected, NothingCame, Answered, InventoryInv, RequestOK, TrueList
<1>4. CASE WebApplied(r)
  BY <1>4 DEF WebApplied, Answered, Write, InventoryInv, RequestOK, TrueList
<1>5. ASSUME NEW ok \in BOOLEAN, NEW npdu \in BOOLEAN, NEW written \in BOOLEAN,
             NEW restarted \in BOOLEAN, TargetAnswered(r, ok, npdu, written, restarted)
      PROVE  InventoryInv'
  <2>1. /\ given' \in [Targets -> {"none", "written", "taken"}]
        /\ \A u \in Targets : given[u] \in OnPdu => given'[u] \in OnPdu
        /\ ok /\ r.of \in Targets => given'[r.of] \in OnPdu
    BY <1>5 DEF TargetAnswered, Suffices, InventoryInv, OnPdu
  <2>2. TrueList(With(r.saw, r.of, Outcome(ok)), given')
    BY <1>5, <2>1, WithTrue DEF TargetAnswered, Outcome, Status, InventoryInv, RequestOK
  <2> QED
    BY <1>5, <2>1, <2>2 DEF TargetAnswered, Answered, Write, InventoryInv, RequestOK, TrueList
<1> QED
  BY <1>1, <1>2, <1>3, <1>4, <1>5

LEMMA InventoryKeeps == InventoryInv /\ [WizardNext]_wizardVars => InventoryInv'
<1> SUFFICES ASSUME InventoryInv, [WizardNext]_wizardVars PROVE InventoryInv'
  OBVIOUS
<1>1. CASE ReopenInventory
  <2>1. ASSUME NEW r \in reqs, NEW s, s = [r EXCEPT !.live = FALSE] PROVE RequestOK(s)
    BY <2>1 DEF InventoryInv, RequestOK
  <2>2. UNCHANGED given /\ \A s \in reqs' : \E r \in reqs : s = [r EXCEPT !.live = FALSE]
    BY <1>1 DEF ReopenInventory
  <2> QED
    BY <1>1, <2>1, <2>2 DEF ReopenInventory, InventoryInv, RequestOK, TrueList
<1>2. CASE UNCHANGED invVars
  BY <1>2 DEF invVars, InventoryInv, RequestOK, TrueList
<1> QED
  BY <1>1, <1>2, PartsMove, InventoryUserKeeps, InventoryAnswerKeeps DEF InventoryMoves

(* What the inventory, or its copy in localStorage, shows as done was taken  *)
(* by a PDU, or accepted by one with a console that did not restart:         *)
(* updateInvTargets with lists of any age.                                  *)
THEOREM DoneWasApplied == WizardSpec => []DoneApplied
<1>1. WizardInit => InventoryInv
  BY InventoryBegins DEF WizardInit
<1>2. InventoryInv => DoneApplied
  BY DEF InventoryInv, TrueList, DoneApplied, OnPdu
<1> QED
  BY <1>1, <1>2, InventoryKeeps, PTL DEF WizardSpec

-----------------------------------------------------------------------------
(* The doctor.  A request, an interval and what is open belong to a panel    *)
(* that has its number, and a number is not given again.                    *)
DoctorInv ==
  /\ doctors \in Seq(BOOLEAN) /\ ref \in Seq(Nat \cup {None}) /\ panel \in 0 .. Len(ref)
  /\ \A s \in starts : s.panel \in 1 .. Len(ref)
  /\ \A t \in timers : t.panel \in 1 .. Len(ref)
  /\ OnePoller

(* Clearing the interval of a panel leaves none of it. *)
LEMMA StoppedAll ==
  ASSUME DoctorInv, NEW p PROVE \A t \in Stopped(p) : t \in timers /\ t.panel # p
BY DEF DoctorInv, OnePoller, Stopped

(* Fewer intervals do no harm. *)
LEMMA FewerTimers ==
  ASSUME DoctorInv, timers' \subseteq timers, starts' \subseteq starts, doctors' \in Seq(BOOLEAN),
         UNCHANGED <<panel, ref>>
  PROVE  DoctorInv'
BY DEF DoctorInv, OnePoller

LEMMA StartKeeps == ASSUME DoctorInv, StartDoctor PROVE DoctorInv'
<1>1. /\ doctors \in Seq(BOOLEAN) /\ ref \in Seq(Nat \cup {None}) /\ panel \in 0 .. Len(ref)
      /\ Len(ref) \in Nat /\ UNCHANGED <<doctors, timers>>
  BY LenProperties DEF DoctorInv, StartDoctor
<1>2. \A s \in starts' : s \in starts \/ s.panel = panel'
  BY DEF StartDoctor
<1>3. CASE panel = 0
  <2>1. ref' = Append(ref, None) /\ panel' = Len(ref) + 1
    BY <1>3 DEF StartDoctor
  <2>2. /\ ref' \in Seq(Nat \cup {None}) /\ Len(ref') = Len(ref) + 1
        /\ \A p \in 1 .. Len(ref) : ref'[p] = ref[p]
    BY <1>1, <2>1, AppendProperties
  <2>3. OnePoller'
    BY <1>1, <1>3, <2>2 DEF DoctorInv, OnePoller
  <2> QED
    BY <1>1, <1>2, <2>1, <2>2, <2>3 DEF DoctorInv
<1>4. CASE panel # 0
  BY <1>1, <1>2, <1>4 DEF StartDoctor, DoctorInv, OnePoller
<1> QED
  BY <1>3, <1>4

LEMMA StartedKeeps == ASSUME DoctorInv, NEW s, DoctorStarted(s) PROVE DoctorInv'
<1> DEFINE j == Len(doctors')
           t == [panel |-> s.panel, job |-> j, late |-> s.panel # panel]
<1>1. /\ doctors' \in Seq(BOOLEAN) /\ j \in Nat
      /\ ref \in Seq(Nat \cup {None}) /\ s.panel \in 1 .. Len(ref)
  BY AppendProperties, LenProperties DEF DoctorInv, DoctorStarted
<1>2. /\ ref' = [ref EXCEPT ![s.panel] = j] /\ UNCHANGED panel /\ starts' \subseteq starts
      /\ timers' = Stopped(s.panel) \cup {t}
  BY DEF DoctorStarted, Instead
<1>3. ref' \in Seq(Nat \cup {None}) /\ Len(ref') = Len(ref)
  BY <1>1, <1>2, ExceptSeq, LenProperties
<1>4. /\ ref'[s.panel] = j
      /\ \A p \in 1 .. Len(ref) : p # s.panel => ref'[p] = ref[p]
  BY <1>1, <1>2, LenProperties
<1>5. t.panel = s.panel /\ t.job = j /\ t.late = (s.panel # panel)
  OBVIOUS
<1> HIDE DEF j, t
<1>6. \A u \in timers' : u = t \/ (u \in timers /\ u.panel # s.panel)
  BY <1>2, StoppedAll
<1>7. OnePoller'
  BY <1>2, <1>4, <1>5, <1>6 DEF DoctorInv, OnePoller
<1> QED
  BY <1>1, <1>2, <1>3, <1>5, <1>6, <1>7 DEF DoctorInv

LEMMA DoctorKeeps == DoctorInv /\ [WizardNext]_wizardVars => DoctorInv'
<1> SUFFICES ASSUME DoctorInv, [WizardNext]_wizardVars PROVE DoctorInv'
  OBVIOUS
<1> USE DEF Stopped
<1>1. doctors \in Seq(BOOLEAN)
  BY DEF DoctorInv
<1>2. ASSUME NEW s, NEW b, StartFailed(s, b) PROVE DoctorInv'
  BY <1>1, <1>2, FewerTimers, AppendProperties DEF StartFailed
<1>3. ASSUME NEW t, PollDoctor(t) PROVE DoctorInv'
  BY <1>1, <1>3, FewerTimers DEF PollDoctor
<1>4. ASSUME NEW j, DoctorDone(j) PROVE DoctorInv'
  <2>1. doctors' \in Seq(BOOLEAN)
    BY <1>1, <1>4, ExceptSeq, LenProperties DEF DoctorDone
  <2> QED
    BY <1>4, <2>1, FewerTimers DEF DoctorDone
<1>5. ASSUME NEW a, JobSeen(a) \/ PollDoctorFailed(a) PROVE DoctorInv'
  BY <1>1, <1>5, FewerTimers DEF JobSeen, PollDoctorFailed
<1>6. CASE UNCHANGED doctorVars
  BY <1>1, <1>6, FewerTimers DEF doctorVars
<1>7. CASE EntersDoctor
  <2>1. CASE UNCHANGED doctorVars
    BY <2>1, <1>6
  <2>2. CASE /\ panel' = 0 /\ timers' = IF panel = 0 THEN timers ELSE Stopped(panel)
             /\ UNCHANGED <<doctors, starts, ref, asks>>
    <3>1. \A t \in timers' : t \in timers /\ t.panel # panel
      BY <2>2, StoppedAll DEF DoctorInv
    <3>2. Len(ref) \in Nat
      BY LenProperties DEF DoctorInv
    <3> QED
      BY <2>2, <3>1, <3>2 DEF DoctorInv, OnePoller
  <2> QED
    BY <1>7, <2>1, <2>2 DEF EntersDoctor
<1> QED
  BY <1>2, <1>3, <1>4, <1>5, <1>6, <1>7, StartKeeps, StartedKeeps, PartsMove
     DEF DoctorMoves, DoctorNext

(* A panel of the SNMP doctor never has an interval that it has lost, and a   *)
(* closed one has none but of a job whose start was answered after.         *)
THEOREM OneInterval == WizardSpec => []OnePoller
<1>1. WizardInit => DoctorInv
  BY EmptySeq DEF WizardInit, DoctorInit, DoctorInv, OnePoller
<1>2. DoctorInv => OnePoller
  BY DEF DoctorInv
<1> QED
  BY <1>1, <1>2, DoctorKeeps, PTL DEF WizardSpec

-----------------------------------------------------------------------------
(* The flags.  loading has an owner in the setup or in the batch: what ends *)
(* without another to take over frees the buttons.                          *)
JobStates == {"running", "completed", "dead", "lost"}
LoadingOwned ==
  /\ job \in JobStates \cup {None}
  /\ loading => task.kind # "none" \/ batchTask.kind # "none" \/ job # None
BusyOwned == busy => \E r \in reqs : r.live
RepairOwned == repairing => repairReqs # {}

FlagInv == SetupInv /\ LoadingOwned /\ BusyOwned /\ RepairOwned

LEMMA SetupKeepsOwner ==
  ASSUME SetupInv, LoadingOwned, SetupMoves, UNCHANGED batchVars PROVE LoadingOwned'
<1> USE DEF LoadingOwned, batchVars
<1>1. CASE SetupUser
  <2>1. ASSUME NEW m \in Modes, Tab(m) PROVE LoadingOwned'
    BY <2>1 DEF Tab
  <2>2. CASE ScanSubnet \/ ApplyNetwork \/ ApplyWebAccess
    BY <2>2 DEF ScanSubnet, ApplyNetwork, ApplyWebAccess, Begin
  <2>3. CASE GoNext \/ GoBack \/ Another
    BY <2>3 DEF GoNext, GoBack, GoTo, Another
  <2>4. ASSUME NEW k \in {"snmp", "time"}, ApplySettings(k) PROVE LoadingOwned'
    BY <2>4 DEF ApplySettings, Begin
  <2>5. CASE Commission
    <3>1. task'.kind \in {"static", "save"}
      BY <2>5 DEF Commission, Begin
    <3> QED
      BY <3>1
  <2>6. ASSUME NEW a \in Addr, ScanFactory(a) \/ ScanManual(a) \/ Connect(a)
        PROVE  LoadingOwned'
    BY <2>6 DEF ScanFactory, ScanManual, Connect, Begin
  <2>7. ASSUME NEW a \in Addr, Select(a) \/ EditAddress(a) \/ ChooseAddress(a)
        PROVE  LoadingOwned'
    BY <2>7 DEF Select, EditAddress, ChooseAddress
  <2> QED
    BY <1>1, <2>1, <2>2, <2>3, <2>4, <2>5, <2>6, <2>7 DEF SetupUser
<1>2. CASE SetupAnswer
  <2>1. CASE ScanFound
    <3>1. CASE task' = [kind |-> "login", at |-> task.at]
      <4>1. task'.kind = "login"
        BY <3>1
      <4> QED
        BY <4>1
    <3>2. CASE End
      BY <3>2 DEF End
    <3> QED
      BY <2>1, <3>1, <3>2 DEF ScanFound
  <2>2. CASE LoggedIn \/ Connected
    BY <2>2 DEF LoggedIn, Connected, End
  <2>3. ASSUME NEW as, SubnetFound(as) PROVE LoadingOwned'
    BY <2>3 DEF SubnetFound, End
  <2>4. ASSUME NEW b, Applied(b) \/ Saved(b) PROVE LoadingOwned'
    BY <2>4 DEF Applied, Saved, End
  <2>5. ASSUME NEW t, NEW b, StaticAnswered(t, b) PROVE LoadingOwned'
    <3>1. CASE task' = [task EXCEPT !.kind = "save"]
      <4>1. task'.kind = "save"
        BY <2>5, <3>1 DEF StaticAnswered, SetupInv, LastStepOK, LastStep
      <4> QED
        BY <4>1
    <3>2. CASE End
      BY <3>2 DEF End
    <3> QED
      BY <2>5, <3>1, <3>2 DEF StaticAnswered
  <2>6. ASSUME NEW kinds, Failed(kinds) PROVE LoadingOwned'
    BY <2>6 DEF Failed, End
  <2> QED
    BY <1>2, <2>1, <2>2, <2>3, <2>4, <2>5, <2>6 DEF SetupAnswer
<1>3. ASSUME NEW s, PingEnds(s) PROVE LoadingOwned'
  BY <1>3 DEF PingEnds
<1> QED
  BY <1>1, <1>2, <1>3 DEF SetupMoves

LEMMA BatchKeepsOwner ==
  ASSUME LoadingOwned, BatchMoves, UNCHANGED setupVars PROVE LoadingOwned'
<1> USE DEF LoadingOwned, setupVars
<1>1. CASE BatchUser
  <2>1. CASE BatchScan \/ Deploy \/ DemoReset \/ SaveRacks
    BY <2>1 DEF BatchScan, Deploy, DemoReset, SaveRacks, BatchBegin
  <2>2. CASE ToTemplate \/ ToScan \/ OpenPreview \/ ClosePreview \/ SortByIp \/ ResetOrder
    BY <2>2 DEF ToTemplate, ToScan, OpenPreview, ClosePreview, SortByIp, ResetOrder
  <2>3. CASE NewBatch \/ SkipRacks \/ ToRacks \/ ToReport
    BY <2>3 DEF NewBatch, SkipRacks, ToRacks, ToReport
  <2>4. ASSUME NEW x, NEW y, Choose(x) \/ MoveRow(x, y) PROVE LoadingOwned'
    BY <2>4 DEF Choose, MoveRow
  <2>5. ASSUME NEW x, Drag(x) \/ TakeOut(x) \/ PutInSlot(x) PROVE LoadingOwned'
    BY <2>5 DEF Drag, TakeOut, PutInSlot
  <2> QED
    BY <1>1, <2>1, <2>2, <2>3, <2>4, <2>5 DEF BatchUser
<1>2. CASE BatchAnswer
  <2>1. ASSUME NEW ds, BatchFound(ds) PROVE LoadingOwned'
    BY <2>1 DEF BatchFound, BatchEnd
  <2>2. CASE RacksSaved \/ DemoWasReset \/ BatchFailed
    BY <2>2 DEF RacksSaved, DemoWasReset, BatchFailed, BatchEnd
  <2>3. CASE Started
    BY <2>3, NoneAssumption DEF Started, JobStates
  <2> QED
    BY <1>2, <2>1, <2>2, <2>3 DEF BatchAnswer
<1>3. CASE BatchServer
  <2>1. CASE JobCompletes \/ JobDies \/ JobLost
    BY <2>1, NoneAssumption DEF JobCompletes, JobDies, JobLost, JobBecomes, JobStates
  <2>2. CASE Poll
    BY <2>2 DEF Poll
  <2>3. ASSUME NEW s, PollLost(s) PROVE LoadingOwned'
    BY <2>3 DEF PollLost
  <2>4. ASSUME NEW s, PollAnswered(s) PROVE LoadingOwned'
    <3>1. job' \in JobStates \cup {None}
      BY <2>4 DEF PollAnswered
    <3>2. ~loading' \/ UNCHANGED <<loading, job>>
      BY <2>4 DEF PollAnswered, Reported
    <3> QED
      BY <2>4, <3>1, <3>2 DEF PollAnswered
  <2> QED
    BY <1>3, <2>1, <2>2, <2>3, <2>4 DEF BatchServer
<1> QED
  BY <1>1, <1>2, <1>3 DEF BatchMoves

LEMMA InventoryKeepsBusy == ASSUME BusyOwned, InventoryMoves PROVE BusyOwned'
<1> USE DEF BusyOwned
<1>1. CASE InventoryUser
  <2>1. CASE Upload \/ Detect \/ TestLogin \/ ApplyTarget
    BY <2>1 DEF Upload, Detect, TestLogin, ApplyTarget, Request
  <2>2. CASE ClearList \/ Skip
    BY <2>2 DEF ClearList, Skip
  <2>3. ASSUME NEW t, Pick(t) \/ Redo(t) PROVE BusyOwned'
    BY <2>3 DEF Pick, Redo
  <2>4. ASSUME NEW t, ApplyWeb(t) PROVE BusyOwned'
    BY <2>4 DEF ApplyWeb, Request
  <2> QED
    BY <1>1, <2>1, <2>2, <2>3, <2>4 DEF InventoryUser
<1>2. CASE InventoryAnswer
  <2>1. ASSUME NEW r \in reqs, Answered(r) PROVE BusyOwned'
    BY <2>1 DEF Answered
  <2> QED
    BY <1>2, <2>1 DEF InventoryAnswer, Parsed, Detected, NothingCame, WebApplied, TargetAnswered
<1>3. CASE ReopenInventory
  BY <1>3 DEF ReopenInventory
<1> QED
  BY <1>1, <1>2, <1>3 DEF InventoryMoves

LEMMA RepairKeepsFlag == ASSUME RepairOwned, RepairMoves PROVE RepairOwned'
<1> USE DEF RepairOwned
<1>1. CASE RepairUser
  BY <1>1 DEF RepairUser, FetchUnits, Probe, Mark, Repair, Ask
<1>2. CASE RepairAnswer
  BY <1>2 DEF RepairAnswer, UnitsListed, RepairFailed, UnitsRepaired, Told
<1>3. CASE EntersRepair
  BY <1>3 DEF EntersRepair, Ask
<1> QED
  BY <1>1, <1>2, <1>3 DEF RepairMoves

LEMMA FlagsKeep == FlagInv /\ [WizardNext]_wizardVars => FlagInv'
<1> SUFFICES ASSUME FlagInv, [WizardNext]_wizardVars PROVE FlagInv'
  OBVIOUS
<1>1. SetupInv'
  BY SetupKeeps DEF FlagInv
<1>2. LoadingOwned'
  <2>1. CASE UNCHANGED <<setupVars, batchVars>> /\ (UNCHANGED loading \/ ~loading')
    BY <2>1 DEF FlagInv, LoadingOwned, setupVars, batchVars
  <2> QED
    BY <2>1, PartsMove, SetupKeepsOwner, BatchKeepsOwner DEF FlagInv
<1>3. BusyOwned'
  BY PartsMove, InventoryKeepsBusy DEF FlagInv, BusyOwned, invVars
<1>4. RepairOwned'
  BY PartsMove, RepairKeepsFlag DEF FlagInv, RepairOwned, repairVars
<1> QED
  BY <1>1, <1>2, <1>3, <1>4 DEF FlagInv

(* The buttons of the wizard wait for a request or for the job of the batch, *)
(* which may have died or be lost, though its tabs share one flag, can be    *)
(* left while a request is under way, and the polls of a batch end in any    *)
(* order.                                                                   *)
THEOREM ButtonsOwned == WizardSpec => []FlagsOwned
<1>1. WizardInit => FlagInv
  <2>1. WizardInit => SetupInv
    BY SetupBegins DEF WizardInit
  <2> QED
    BY <2>1 DEF WizardInit, BatchInit, InventoryInit, RepairInit, FlagInv, LoadingOwned,
                BusyOwned, RepairOwned
<1>2. FlagInv => FlagsOwned
  BY DEF FlagInv, LoadingOwned, JobStates, BusyOwned, RepairOwned, FlagsOwned, BatchStuck,
         NoTask, NoBatchTask
<1> QED
  BY <1>1, <1>2, FlagsKeep, PTL DEF WizardSpec

-----------------------------------------------------------------------------
(* The numbers of a set up to one of them are more, the greater that is.     *)
LEMMA MoreBelow ==
  ASSUME NEW I \in SUBSET Nat, IsFiniteSet(I), NEW i \in I, NEW j \in I, i < j
  PROVE  Cardinality({m \in I : m <= i}) # Cardinality({m \in I : m <= j})
<1> DEFINE A == {m \in I : m <= i}
           B == {m \in I : m <= j}
<1>1. IsFiniteSet(B)
  BY FS_Subset, B \in SUBSET I
<1>2. A \in SUBSET B
  <2>1. \A m \in I : m <= i => m <= j
    OBVIOUS
  <2> QED
    BY <2>1
<1>3. j \in B /\ j \notin A
  OBVIOUS
<1>4. B # A
  BY <1>3, Zenon
<1> HIDE DEF A, B
<1>5. Cardinality(B) # Cardinality(A)
  BY <1>1, <1>2, <1>4, FS_Subset
<1> QED
  BY <1>5 DEF A, B

(* Ascending lists every number of a finite set once.                       *)
LEMMA AscendingLists ==
  ASSUME NEW I \in SUBSET Nat, IsFiniteSet(I)
  PROVE  /\ Cardinality(I) \in Nat
         /\ Ascending(I) \in [1 .. Cardinality(I) -> I]
         /\ IsInjective(Ascending(I))
         /\ Range(Ascending(I)) = I
<1> DEFINE n == Cardinality(I)
           rank == [i \in I |-> Cardinality({m \in I : m <= i})]
<1>1. n \in Nat
  BY FS_CardinalityType
<1>2. \A i \in I : rank[i] \in 1 .. n
  <2> TAKE i \in I
  <2> DEFINE A == {m \in I : m <= i}
  <2>1. A \in SUBSET I
    OBVIOUS
  <2>2. i \in A
    OBVIOUS
  <2>3. A # {}
    BY <2>2, Zenon
  <2> HIDE DEF A
  <2>4. IsFiniteSet(A) /\ Cardinality(A) <= n
    BY <2>1, FS_Subset
  <2>5. Cardinality(A) \in Nat /\ Cardinality(A) # 0
    BY <2>3, <2>4, FS_CardinalityType, FS_EmptySet
  <2>6. rank[i] = Cardinality(A)
    BY DEF A
  <2> HIDE DEF rank, n
  <2> QED
    BY <1>1, <2>4, <2>5, <2>6
<1>3. \A i, j \in I : rank[i] = rank[j] => i = j
  <2> SUFFICES ASSUME NEW i \in I, NEW j \in I, i # j PROVE rank[i] # rank[j]
    OBVIOUS
  <2>1. CASE i < j
    BY <2>1, MoreBelow
  <2>2. CASE j < i
    BY <2>2, MoreBelow
  <2> QED
    BY <2>1, <2>2
<1>4. rank \in Injection(I, 1 .. n)
  <2>1. rank \in [I -> 1 .. n] /\ DOMAIN rank = I
    BY <1>2
  <2> HIDE DEF rank, n
  <2> QED
    BY <1>3, <2>1 DEF Injection, IsInjective
<1>5. IsFiniteSet(1 .. n) /\ Cardinality(1 .. n) = n
  <2> HIDE DEF n
  <2> QED
    BY <1>1, FS_Interval
<1>6. rank \in Surjection(I, 1 .. n)
  <2> HIDE DEF rank
  <2> QED
    BY <1>4, <1>5, FS_Injection
<1>7. \A k \in 1 .. n : \E i \in I : rank[i] = k
  <2> HIDE DEF rank, n
  <2> QED
    BY <1>6 DEF Surjection
<1>8. \A k \in 1 .. n : Ascending(I)[k] \in I /\ rank[Ascending(I)[k]] = k
  <2> TAKE k \in 1 .. n
  <2>1. Ascending(I)[k] = CHOOSE i \in I : Cardinality({m \in I : m <= i}) = k
    BY DEF Ascending
  <2>2. \E i \in I : Cardinality({m \in I : m <= i}) = k
    BY <1>7
  <2>3. /\ Ascending(I)[k] \in I
        /\ Cardinality({m \in I : m <= Ascending(I)[k]}) = k
    BY <2>1, <2>2
  <2> QED
    BY <2>3
<1>9. DOMAIN Ascending(I) = 1 .. n /\ Ascending(I) = [k \in 1 .. n |-> Ascending(I)[k]]
  <2> DEFINE at(k) == CHOOSE i \in I : Cardinality({m \in I : m <= i}) = k
  <2>1. Ascending(I) = [k \in 1 .. n |-> at(k)]
    BY DEF Ascending
  <2> HIDE DEF at, n
  <2> QED
    BY <2>1
<1> HIDE DEF rank, n
<1>10. Ascending(I) \in [1 .. n -> I]
  BY <1>8, <1>9
<1>11. IsInjective(Ascending(I))
  BY <1>8, <1>9 DEF IsInjective
<1>12. \A i \in I : i = Ascending(I)[rank[i]]
  BY <1>2, <1>3, <1>8
<1>13. Range(Ascending(I)) = I
  BY <1>2, <1>8, <1>9, <1>12 DEF Range
<1> QED
  BY <1>1, <1>10, <1>11, <1>13 DEF n

(* Only lists the entries of a list that are in a set, each once if the list *)
(* has each once.                                                           *)
LEMMA OnlyLists ==
  ASSUME NEW D, NEW list \in Seq(D), IsInjective(list), NEW S
  PROVE  /\ Only(list, S) \in Seq(D)
         /\ IsInjective(Only(list, S))
         /\ Range(Only(list, S)) = Range(list) \cap S
<1> DEFINE I == {i \in DOMAIN list : list[i] \in S}
           n == Cardinality(I)
           places == Ascending(I)
<1>1. Len(list) \in Nat /\ DOMAIN list = 1 .. Len(list) /\ \A i \in DOMAIN list : list[i] \in D
  BY LenProperties
<1>2. I \in SUBSET Nat /\ I \in SUBSET (1 .. Len(list))
  BY <1>1
<1>3. IsFiniteSet(I)
  <2>1. IsFiniteSet(1 .. Len(list))
    BY <1>1, FS_Interval
  <2> HIDE DEF I
  <2> QED
    BY <1>2, <2>1, FS_Subset
<1>4. Only(list, S) = [k \in DOMAIN places |-> list[places[k]]]
  BY DEF Only
<1>5. \A i : i \in I <=> i \in DOMAIN list /\ list[i] \in S
  OBVIOUS
<1> HIDE DEF I
<1>6. n \in Nat /\ places \in [1 .. n -> I] /\ IsInjective(places) /\ Range(places) = I
  BY <1>2, <1>3, AscendingLists
<1> HIDE DEF n, places
<1>7. DOMAIN places = 1 .. n /\ \A k \in 1 .. n : places[k] \in I
  BY <1>6
<1>8. \A i \in I : \E k \in 1 .. n : i = places[k]
  BY <1>6, <1>7 DEF Range
<1>9. /\ DOMAIN Only(list, S) = 1 .. n
      /\ \A k \in 1 .. n : Only(list, S)[k] = list[places[k]]
  BY <1>4, <1>7
<1>10. Only(list, S) \in [1 .. n -> D]
  BY <1>1, <1>4, <1>5, <1>7
<1>11. Only(list, S) \in Seq(D)
  BY <1>6, <1>10, SeqDef
<1>12. IsInjective(Only(list, S))
  BY <1>5, <1>6, <1>7, <1>9 DEF IsInjective
<1>13. Range(Only(list, S)) = Range(list) \cap S
  BY <1>5, <1>7, <1>8, <1>9 DEF Range
<1> QED
  BY <1>11, <1>12, <1>13

(* Two lists without an entry in common, after each other.                  *)
LEMMA JoinedLists ==
  ASSUME NEW D, NEW s \in Seq(D), NEW t \in Seq(D), IsInjective(s), IsInjective(t),
         Range(s) \cap Range(t) = {}
  PROVE  /\ s \o t \in Seq(D)
         /\ IsInjective(s \o t)
         /\ Range(s \o t) = Range(s) \cup Range(t)
<1> DEFINE r == s \o t
           m == Len(s)
           n == Len(t)
<1>1. /\ m \in Nat /\ DOMAIN s = 1 .. m
      /\ n \in Nat /\ DOMAIN t = 1 .. n
  BY LenProperties
<1>2. r \in Seq(D) /\ Len(r) = m + n
  BY ConcatProperties
<1>3. \A i \in 1 .. m + n : r[i] = IF i <= m THEN s[i] ELSE t[i - m]
  BY ConcatProperties
<1>4. DOMAIN r = 1 .. m + n
  BY <1>2, LenProperties
<1> HIDE DEF r, m, n
<1>5. \A i \in 1 .. m : r[i] = s[i] /\ i \in 1 .. m + n
  BY <1>1, <1>3
<1>6. \A i \in 1 .. n : r[m + i] = t[i] /\ m + i \in 1 .. m + n
  BY <1>1, <1>3
<1>7. \A i \in 1 .. m + n : i \in 1 .. m \/ (i - m \in 1 .. n /\ i = m + (i - m))
  BY <1>1
<1>8. \A i \in 1 .. m, j \in 1 .. n : s[i] # t[j]
  BY <1>1 DEF Range
<1>9. \A i, j \in 1 .. m + n : r[i] = r[j] => i = j
  <2> SUFFICES ASSUME NEW i \in 1 .. m + n, NEW j \in 1 .. m + n, r[i] = r[j] PROVE i = j
    OBVIOUS
  <2>1. CASE i \in 1 .. m /\ j \in 1 .. m
    BY <1>1, <1>5, <2>1 DEF IsInjective
  <2>2. CASE i \in 1 .. m /\ j \notin 1 .. m
    BY <1>5, <1>6, <1>7, <1>8, <2>2
  <2>3. CASE i \notin 1 .. m /\ j \in 1 .. m
    BY <1>5, <1>6, <1>7, <1>8, <2>3
  <2>4. CASE i \notin 1 .. m /\ j \notin 1 .. m
    <3>1. i - m \in 1 .. n /\ j - m \in 1 .. n /\ t[i - m] = t[j - m]
      BY <1>6, <1>7, <2>4
    <3>2. i - m = j - m
      BY <1>1, <3>1 DEF IsInjective
    <3> QED
      BY <1>1, <3>2
  <2> QED
    BY <2>1, <2>2, <2>3, <2>4
<1>10. IsInjective(r)
  BY <1>4, <1>9 DEF IsInjective
<1>11. \A v \in Range(r) : v \in Range(s) \/ v \in Range(t)
  <2> SUFFICES ASSUME NEW i \in 1 .. m + n PROVE r[i] \in Range(s) \/ r[i] \in Range(t)
    BY <1>4 DEF Range
  <2>1. CASE i \in 1 .. m
    BY <1>1, <1>5, <2>1 DEF Range
  <2>2. CASE i - m \in 1 .. n /\ i = m + (i - m)
    <3>1. r[i] = t[i - m]
      BY <1>6, <2>2
    <3> QED
      BY <1>1, <2>2, <3>1 DEF Range
  <2> QED
    BY <1>7, <2>1, <2>2
<1>12. \A v \in Range(s) : v \in Range(r)
  <2> SUFFICES ASSUME NEW i \in 1 .. m PROVE s[i] \in Range(r)
    BY <1>1 DEF Range
  <2> QED
    BY <1>4, <1>5 DEF Range
<1>13. \A v \in Range(t) : v \in Range(r)
  <2> SUFFICES ASSUME NEW i \in 1 .. n PROVE t[i] \in Range(r)
    BY <1>1 DEF Range
  <2> QED
    BY <1>4, <1>6 DEF Range
<1>14. Range(r) = Range(s) \cup Range(t)
  BY <1>11, <1>12, <1>13
<1> QED
  BY <1>2, <1>10, <1>14 DEF r

(* A part of a list without doubles.                                        *)
LEMMA PartOfList ==
  ASSUME NEW D, NEW s \in Seq(D), IsInjective(s), NEW m \in Int, NEW n \in Int,
         1 <= m, n <= Len(s)
  PROVE  /\ SubSeq(s, m, n) \in Seq(D)
         /\ IsInjective(SubSeq(s, m, n))
         /\ \A v \in Range(SubSeq(s, m, n)) : \E k \in m .. n : v = s[k]
<1> DEFINE a == SubSeq(s, m, n)
           l == Len(a)
<1>1. Len(s) \in Nat /\ DOMAIN s = 1 .. Len(s) /\ \A k \in 1 .. Len(s) : s[k] \in D
  BY LenProperties, ElementOfSeq
<1>2. \A k \in m .. n : k \in 1 .. Len(s) /\ s[k] \in D
  BY <1>1
<1>3. /\ a \in Seq(D)
      /\ l = IF m <= n THEN n - m + 1 ELSE 0
      /\ \A k \in 1 .. n - m + 1 : a[k] = s[m + k - 1]
  BY <1>2, SubSeqProperties
<1>4. DOMAIN a = 1 .. l
  BY <1>3, LenProperties
<1> HIDE DEF a, l
<1>5. \A k \in 1 .. l : m + k - 1 \in m .. n /\ a[k] = s[m + k - 1]
  BY <1>3
<1>6. IsInjective(a)
  <2> SUFFICES ASSUME NEW k1 \in 1 .. l, NEW k2 \in 1 .. l, a[k1] = a[k2] PROVE k1 = k2
    BY <1>4 DEF IsInjective
  <2>1. m + k1 - 1 \in DOMAIN s /\ m + k2 - 1 \in DOMAIN s /\ s[m + k1 - 1] = s[m + k2 - 1]
    BY <1>1, <1>2, <1>5
  <2>2. m + k1 - 1 = m + k2 - 1
    BY <2>1 DEF IsInjective
  <2> QED
    BY <1>3, <2>2
<1>7. \A v \in Range(a) : \E k \in m .. n : v = s[k]
  BY <1>4, <1>5 DEF Range
<1> QED
  BY <1>3, <1>6, <1>7 DEF a

(* A row that is taken out of a list, or put into it, leaves it one without *)
(* doubles.                                                                 *)
LEMMA RowTakenOut ==
  ASSUME NEW D, NEW s \in Seq(D), IsInjective(s), NEW i \in DOMAIN s
  PROVE  /\ RemoveAt(s, i) \in Seq(D)
         /\ Len(RemoveAt(s, i)) = Len(s) - 1
         /\ IsInjective(RemoveAt(s, i))
         /\ s[i] \notin Range(RemoveAt(s, i))
<1> DEFINE n == Len(s)
           a == SubSeq(s, 1, i - 1)
           b == SubSeq(s, i + 1, n)
<1>1. n \in Nat /\ DOMAIN s = 1 .. n
  BY LenProperties
<1>2. /\ i \in 1 .. n
      /\ 1 \in Int /\ i - 1 \in Int /\ i + 1 \in Int /\ n \in Int
      /\ 1 <= 1 /\ i - 1 <= n /\ 1 <= i + 1 /\ n <= n
  BY <1>1
<1>3. /\ a \in Seq(D) /\ IsInjective(a)
      /\ \A v \in Range(a) : \E k \in 1 .. i - 1 : v = s[k]
  BY <1>2, PartOfList
<1>4. /\ b \in Seq(D) /\ IsInjective(b)
      /\ \A v \in Range(b) : \E k \in i + 1 .. n : v = s[k]
  BY <1>2, PartOfList
<1>5. Len(a) = i - 1 /\ Len(b) = n - i
  <2>1. (\A k \in 1 .. i - 1 : s[k] \in D) /\ (\A k \in i + 1 .. n : s[k] \in D)
    BY <1>1, <1>2, ElementOfSeq
  <2>2. Len(a) = IF 1 <= i - 1 THEN (i - 1) - 1 + 1 ELSE 0
    BY <1>2, <2>1, SubSeqProperties
  <2>3. Len(b) = IF i + 1 <= n THEN n - (i + 1) + 1 ELSE 0
    BY <1>2, <2>1, SubSeqProperties
  <2> HIDE DEF a, b
  <2> QED
    BY <1>1, <1>2, <2>2, <2>3
<1>6. RemoveAt(s, i) = a \o b
  BY DEF RemoveAt
<1> HIDE DEF a, b, n
<1>7. Range(a) \cap Range(b) = {}
  <2> SUFFICES ASSUME NEW v \in Range(a), v \in Range(b) PROVE FALSE
    OBVIOUS
  <2>1. PICK k1 \in 1 .. i - 1 : v = s[k1]
    BY <1>3
  <2>2. PICK k2 \in i + 1 .. n : v = s[k2]
    BY <1>4
  <2>3. k1 \in DOMAIN s /\ k2 \in DOMAIN s /\ k1 # k2
    BY <1>1, <1>2
  <2> QED
    BY <2>1, <2>2, <2>3 DEF IsInjective
<1>8. s[i] \notin Range(a) /\ s[i] \notin Range(b)
  <2>1. \A k \in 1 .. i - 1 : s[k] # s[i]
    BY <1>1, <1>2 DEF IsInjective
  <2>2. \A k \in i + 1 .. n : s[k] # s[i]
    BY <1>1, <1>2 DEF IsInjective
  <2> QED
    BY <1>3, <1>4, <2>1, <2>2
<1>9. a \o b \in Seq(D) /\ IsInjective(a \o b) /\ Range(a \o b) = Range(a) \cup Range(b)
  BY <1>3, <1>4, <1>7, JoinedLists
<1>10. Len(a \o b) = n - 1
  <2>1. Len(a \o b) = Len(a) + Len(b)
    BY <1>3, <1>4, ConcatProperties
  <2> QED
    BY <1>1, <1>2, <1>5, <2>1
<1> QED
  BY <1>6, <1>8, <1>9, <1>10 DEF n

LEMMA RowPutIn ==
  ASSUME NEW D, NEW s \in Seq(D), IsInjective(s), NEW j \in 1 .. Len(s) + 1,
         NEW e \in D, e \notin Range(s)
  PROVE  /\ InsertAt(s, j, e) \in Seq(D)
         /\ IsInjective(InsertAt(s, j, e))
<1> DEFINE n == Len(s)
           a == SubSeq(s, 1, j - 1)
           b == SubSeq(s, j, n)
           o == <<e>>
           c == a \o o
<1>1. n \in Nat /\ DOMAIN s = 1 .. n
  BY LenProperties
<1>2. /\ 1 \in Int /\ j - 1 \in Int /\ j \in Int /\ n \in Int
      /\ 1 <= 1 /\ j - 1 <= n /\ 1 <= j /\ n <= n
  BY <1>1
<1>3. /\ a \in Seq(D) /\ IsInjective(a)
      /\ \A v \in Range(a) : \E k \in 1 .. j - 1 : v = s[k]
  BY <1>2, PartOfList
<1>4. /\ b \in Seq(D) /\ IsInjective(b)
      /\ \A v \in Range(b) : \E k \in j .. n : v = s[k]
  BY <1>2, PartOfList
<1>5. InsertAt(s, j, e) = c \o b
  BY DEF InsertAt
<1> HIDE DEF a, b, n
<1>6. \A k \in 1 .. n : s[k] # e
  BY <1>1 DEF Range
<1>7. \A v \in Range(a) : v # e
  BY <1>1, <1>2, <1>3, <1>6
<1>8. \A v \in Range(b) : v # e
  BY <1>1, <1>2, <1>4, <1>6
<1>9. Range(a) \cap Range(b) = {}
  <2> SUFFICES ASSUME NEW v \in Range(a), v \in Range(b) PROVE FALSE
    OBVIOUS
  <2>1. PICK k1 \in 1 .. j - 1 : v = s[k1]
    BY <1>3
  <2>2. PICK k2 \in j .. n : v = s[k2]
    BY <1>4
  <2>3. k1 \in DOMAIN s /\ k2 \in DOMAIN s /\ k1 # k2
    BY <1>1, <1>2
  <2> QED
    BY <2>1, <2>2, <2>3 DEF IsInjective
<1>10. o \in Seq(D) /\ IsInjective(o) /\ Range(o) = {e}
  <2>1. o \in Seq(D) /\ DOMAIN o = {1} /\ o[1] = e
    OBVIOUS
  <2> QED
    BY <2>1 DEF IsInjective, Range
<1> HIDE DEF o
<1>11. c \in Seq(D) /\ IsInjective(c) /\ Range(c) = Range(a) \cup {e}
  <2>1. Range(a) \cap Range(o) = {}
    BY <1>7, <1>10
  <2>2. c \in Seq(D) /\ IsInjective(c) /\ Range(c) = Range(a) \cup Range(o)
    BY <1>3, <1>10, <2>1, JoinedLists
  <2> HIDE DEF c
  <2> QED
    BY <1>10, <2>2
<1> HIDE DEF c
<1>12. Range(c) \cap Range(b) = {}
  BY <1>8, <1>9, <1>11
<1> QED
  BY <1>4, <1>5, <1>11, <1>12, JoinedLists

(* A row that is moved leaves the list one without doubles.                 *)
LEMMA RowMoved ==
  ASSUME NEW D, NEW s \in Seq(D), IsInjective(s), NEW i \in DOMAIN s, NEW j \in DOMAIN s
  PROVE  /\ InsertAt(RemoveAt(s, i), j, s[i]) \in Seq(D)
         /\ IsInjective(InsertAt(RemoveAt(s, i), j, s[i]))
<1> DEFINE n == Len(s)
           t == RemoveAt(s, i)
           e == s[i]
<1>1. n \in Nat /\ j \in 1 .. n /\ e \in D
  BY LenProperties, ElementOfSeq
<1>2. t \in Seq(D) /\ Len(t) = n - 1 /\ IsInjective(t) /\ e \notin Range(t)
  BY RowTakenOut
<1> HIDE DEF t, e, n
<1>3. j \in 1 .. Len(t) + 1
  BY <1>1, <1>2
<1>4. InsertAt(t, j, e) \in Seq(D) /\ IsInjective(InsertAt(t, j, e))
  BY <1>1, <1>2, <1>3, RowPutIn
<1> QED
  BY <1>4 DEF t, e

-----------------------------------------------------------------------------
(* The plan of the batch: the list of the scan and the order that was set   *)
(* have no PDU twice, whatever was selected, moved or scanned since, and    *)
(* what is selected was found.                                              *)
ListsOK ==
  /\ devices \in Seq(PDUs) /\ IsInjective(devices)
  /\ selected \subseteq Range(devices)
  /\ order \in Seq(PDUs) /\ IsInjective(order)

LEMMA NothingListed ==
  <<>> \in Seq(PDUs) /\ IsInjective(<<>>) /\ Range(<<>>) = {}
<1>1. DOMAIN <<>> = {}
  OBVIOUS
<1> QED
  BY <1>1 DEF IsInjective, Range

LEMMA SelectedFinite ==
  ASSUME ListsOK
  PROVE  selected \in SUBSET PDUs /\ selected \in SUBSET Nat /\ IsFiniteSet(selected)
<1>1. Range(devices) \in SUBSET PDUs
  BY LenProperties DEF ListsOK, Range
<1>2. selected \in SUBSET PDUs
  BY <1>1 DEF ListsOK
<1>3. IsFiniteSet(PDUs) /\ PDUs \subseteq Nat
  BY PDUsAssumption
<1> QED
  BY <1>2, <1>3, FS_Subset

LEMMA SelectedListed ==
  ASSUME ListsOK
  PROVE  /\ Ascending(selected) \in Seq(PDUs)
         /\ IsInjective(Ascending(selected))
         /\ Range(Ascending(selected)) = selected
<1> DEFINE n == Cardinality(selected)
           up == Ascending(selected)
<1>1. n \in Nat /\ up \in [1 .. n -> selected] /\ IsInjective(up) /\ Range(up) = selected
  BY SelectedFinite, AscendingLists
<1> HIDE DEF n, up
<1>2. up \in [1 .. n -> PDUs]
  BY <1>1, SelectedFinite
<1>3. up \in Seq(PDUs)
  BY <1>1, <1>2, SeqDef
<1> QED
  BY <1>1, <1>3 DEF up

(* getOrderedBatchPdus lists what is selected, each PDU once.                *)
LEMMA OrderedLists ==
  ASSUME ListsOK
  PROVE  /\ Ordered \in Seq(PDUs)
         /\ IsInjective(Ordered)
         /\ Range(Ordered) = selected
<1>1. CASE order # <<>>
  <2> DEFINE rest == selected \ Range(order)
             late == Only(devices, rest)
  <2>1. Kept \in Seq(PDUs) /\ IsInjective(Kept) /\ Range(Kept) = Range(order) \cap selected
    BY OnlyLists DEF ListsOK, Kept
  <2>2. late \in Seq(PDUs) /\ IsInjective(late) /\ Range(late) = Range(devices) \cap rest
    BY OnlyLists DEF ListsOK
  <2> HIDE DEF late
  <2>3. Range(Kept) \cap Range(late) = {} /\ Range(Kept) \cup Range(late) = selected
    BY <2>1, <2>2 DEF ListsOK
  <2>4. Ordered = Kept \o late
    BY <1>1 DEF Ordered, late
  <2> HIDE DEF rest
  <2>5. /\ Kept \o late \in Seq(PDUs)
        /\ IsInjective(Kept \o late)
        /\ Range(Kept \o late) = Range(Kept) \cup Range(late)
    BY <2>1, <2>2, <2>3, JoinedLists
  <2> QED
    BY <2>3, <2>4, <2>5
<1>2. CASE order = <<>> /\ byIp
  BY <1>2, SelectedListed DEF Ordered, InOrderOfIp
<1>3. CASE order = <<>> /\ ~byIp
  <2>1. Ordered = Only(devices, selected)
    BY <1>3 DEF Ordered, InOrderOfScan
  <2>2. /\ Only(devices, selected) \in Seq(PDUs)
        /\ IsInjective(Only(devices, selected))
        /\ Range(Only(devices, selected)) = Range(devices) \cap selected
    BY OnlyLists DEF ListsOK
  <2>3. Range(devices) \cap selected = selected
    BY DEF ListsOK
  <2> QED
    BY <2>1, <2>2, <2>3
<1> QED
  BY <1>1, <1>2, <1>3

PlanInv == ListsOK /\ PlanComplete

LEMMA PlanBegins == BatchInit => PlanInv
<1> SUFFICES ASSUME BatchInit PROVE PlanInv
  OBVIOUS
<1>1. devices = <<>> /\ order = <<>> /\ selected = {}
  BY DEF BatchInit
<1>2. ListsOK
  BY <1>1, NothingListed DEF ListsOK
<1>3. PlanComplete
  BY DEF BatchInit, NoBatchTask, PlanComplete
<1> QED
  BY <1>2, <1>3 DEF PlanInv

(* Most steps leave the lists alone, and begin no deployment.               *)
ListsStay == UNCHANGED <<devices, selected, order>>
NoneDeployed == batchTask' = batchTask \/ batchTask'.kind # "deploy"

LEMMA NoneDeployedKeeps ==
  ASSUME PlanComplete, NoneDeployed PROVE PlanComplete'
BY DEF PlanComplete, NoneDeployed

LEMMA ListsStayKeeps ==
  ASSUME ListsOK, ListsStay PROVE ListsOK'
BY DEF ListsOK, ListsStay

(* What was scanned or selected before goes.                                *)
LEMMA ClearedKeeps ==
  ASSUME ListsOK, devices' = <<>>, selected' = {}, order' = order PROVE ListsOK'
BY NothingListed DEF ListsOK

LEMMA ScansLists == \A ds \in Scans : ds \in Seq(PDUs) /\ IsInjective(ds)
<1> SUFFICES ASSUME NEW ds \in Scans PROVE ds \in Seq(PDUs) /\ IsInjective(ds)
  OBVIOUS
<1>1. PICK n \in 1 .. Cardinality(PDUs) : ds \in [1 .. n -> PDUs]
  BY DEF Scans
<1>2. Cardinality(PDUs) \in Nat
  BY PDUsAssumption, FS_CardinalityType
<1>3. n \in Nat
  BY <1>2
<1> QED
  BY <1>1, <1>3, SeqDef DEF Scans

LEMMA PlanUserKeeps == ASSUME PlanInv, BatchUser PROVE PlanInv'
<1> USE DEF PlanInv
<1>1. CASE BatchScan
  <2>1. ListsOK'
    BY <1>1, ClearedKeeps DEF BatchScan
  <2>2. NoneDeployed
    BY <1>1 DEF BatchScan, BatchBegin, NoneDeployed
  <2> QED
    BY <2>1, <2>2, NoneDeployedKeeps
<1>2. CASE ToTemplate \/ ToScan \/ ClosePreview \/ DemoReset \/ ToRacks \/ ToReport \/ SaveRacks
  <2>1. ListsStay
    BY <1>2 DEF ToTemplate, ToScan, ClosePreview, DemoReset, ToRacks, ToReport, SaveRacks, ListsStay
  <2>2. NoneDeployed
    BY <1>2 DEF ToTemplate, ToScan, ClosePreview, DemoReset, ToRacks, ToReport, SaveRacks,
                BatchBegin, NoneDeployed
  <2> QED
    BY <2>1, <2>2, ListsStayKeeps, NoneDeployedKeeps
<1>3. CASE OpenPreview
  <2>1. order' = Ordered /\ UNCHANGED <<devices, selected, batchTask>>
    BY <1>3 DEF OpenPreview
  <2>2. ListsOK'
    BY <2>1, OrderedLists DEF ListsOK
  <2> QED
    BY <2>1, <2>2, NoneDeployedKeeps DEF NoneDeployed
<1>4. CASE Deploy
  <2>1. ListsStay
    BY <1>4 DEF Deploy, ListsStay
  <2>2. batchTask' = [kind |-> "deploy", plan |-> Ordered, of |-> selected]
    BY <1>4 DEF Deploy, DeployButton, BatchBegin
  <2>3. batchTask'.plan = Ordered /\ batchTask'.of = selected
    BY <2>2
  <2>4. PlanComplete'
    BY <2>3, OrderedLists DEF PlanComplete
  <2> QED
    BY <2>1, <2>4, ListsStayKeeps
<1>5. CASE NewBatch \/ SkipRacks
  <2>1. ListsOK'
    BY <1>5, ClearedKeeps DEF NewBatch, SkipRacks, Cleared
  <2>2. NoneDeployed
    BY <1>5 DEF NewBatch, SkipRacks, NoneDeployed
  <2> QED
    BY <2>1, <2>2, NoneDeployedKeeps
<1>6. ASSUME NEW ds \in SUBSET PDUs, Choose(ds) PROVE PlanInv'
  <2>1. selected' = ds /\ UNCHANGED <<devices, order, batchTask>>
    BY <1>6 DEF Choose
  <2>2. ds \subseteq Range(devices)
    BY <1>6 DEF Choose, ListsOK
  <2>3. ListsOK'
    BY <2>1, <2>2 DEF ListsOK
  <2> QED
    BY <2>1, <2>3, NoneDeployedKeeps DEF NoneDeployed
<1>7. CASE SortByIp \/ ResetOrder
  <2>1. \/ order' = order
        \/ order' = Ascending(Range(Ordered))
        \/ order' = Ascending(Range(Only(devices, selected)))
    BY <1>7 DEF SortByIp, ResetOrder, InOrderOfScan
  <2>2. UNCHANGED <<devices, selected, batchTask>>
    BY <1>7 DEF SortByIp, ResetOrder
  <2>3. Range(Ordered) = selected /\ Range(Only(devices, selected)) = selected
    <3>1. Range(Only(devices, selected)) = Range(devices) \cap selected
      BY OnlyLists DEF ListsOK
    <3>2. Range(devices) \cap selected = selected
      BY DEF ListsOK
    <3> QED
      BY <3>1, <3>2, OrderedLists, Zenon
  <2>4. order' = order \/ order' = Ascending(selected)
    BY <2>1, <2>3, Zenon
  <2>5. order' \in Seq(PDUs) /\ IsInjective(order')
    BY <2>4, SelectedListed DEF ListsOK
  <2>6. ListsOK'
    BY <2>2, <2>5 DEF ListsOK
  <2> QED
    BY <2>2, <2>6, NoneDeployedKeeps DEF NoneDeployed
<1>8. ASSUME NEW i \in DOMAIN order, NEW j \in DOMAIN order, MoveRow(i, j) PROVE PlanInv'
  <2>1. /\ order' = InsertAt(RemoveAt(order, i), j, order[i])
        /\ UNCHANGED <<devices, selected, batchTask>>
    BY <1>8 DEF MoveRow
  <2>2. order' \in Seq(PDUs) /\ IsInjective(order')
    BY <2>1, RowMoved DEF ListsOK
  <2>3. ListsOK'
    BY <2>1, <2>2 DEF ListsOK
  <2> QED
    BY <2>1, <2>3, NoneDeployedKeeps DEF NoneDeployed
<1>9. ASSUME NEW d \in PDUs, Drag(d) \/ TakeOut(d) PROVE PlanInv'
  BY <1>9, ListsStayKeeps, NoneDeployedKeeps DEF Drag, TakeOut, ListsStay, NoneDeployed
<1>10. ASSUME NEW s \in Slots, PutInSlot(s) PROVE PlanInv'
  BY <1>10, ListsStayKeeps, NoneDeployedKeeps DEF PutInSlot, ListsStay, NoneDeployed
<1> QED
  BY <1>1, <1>2, <1>3, <1>4, <1>5, <1>6, <1>7, <1>8, <1>9, <1>10 DEF BatchUser

LEMMA PlanAnswerKeeps == ASSUME PlanInv, BatchAnswer PROVE PlanInv'
<1> USE DEF PlanInv
<1>1. ASSUME NEW ds \in Scans, BatchFound(ds) PROVE PlanInv'
  <2>1. devices' = ds /\ selected' = Range(ds) /\ order' = order
    BY <1>1 DEF BatchFound
  <2>2. ListsOK'
    BY <1>1, <2>1, ScansLists DEF ListsOK
  <2>3. NoneDeployed
    BY <1>1 DEF BatchFound, BatchEnd, NoBatchTask, NoneDeployed
  <2> QED
    BY <2>2, <2>3, NoneDeployedKeeps
<1>2. CASE Started \/ BatchFailed
  <2>1. ListsStay
    BY <1>2 DEF Started, BatchFailed, ListsStay
  <2>2. NoneDeployed
    BY <1>2 DEF Started, BatchFailed, BatchEnd, NoBatchTask, NoneDeployed
  <2> QED
    BY <2>1, <2>2, ListsStayKeeps, NoneDeployedKeeps
<1>3. CASE RacksSaved \/ DemoWasReset
  <2>1. ListsOK'
    BY <1>3, ClearedKeeps DEF RacksSaved, DemoWasReset, Cleared
  <2>2. NoneDeployed
    BY <1>3 DEF RacksSaved, DemoWasReset, BatchEnd, NoBatchTask, NoneDeployed
  <2> QED
    BY <2>1, <2>2, NoneDeployedKeeps
<1> QED
  BY <1>1, <1>2, <1>3 DEF BatchAnswer

LEMMA PlanServerKeeps == ASSUME PlanInv, BatchServer PROVE PlanInv'
<1>1. ListsStay /\ UNCHANGED batchTask
  BY DEF BatchServer, JobCompletes, JobDies, JobLost, JobBecomes, Poll, PollLost, PollAnswered, ListsStay
<1> QED
  BY <1>1, ListsStayKeeps, NoneDeployedKeeps DEF PlanInv, NoneDeployed

LEMMA PlanKeeps == PlanInv /\ [WizardNext]_wizardVars => PlanInv'
<1> SUFFICES ASSUME PlanInv, [WizardNext]_wizardVars PROVE PlanInv'
  OBVIOUS
<1>1. BatchMoves \/ UNCHANGED batchVars
  BY PartsMove
<1>2. CASE BatchMoves
  BY <1>2, PlanUserKeeps, PlanAnswerKeeps, PlanServerKeeps DEF BatchMoves
<1>3. CASE UNCHANGED batchVars
  <2>1. ListsStay /\ NoneDeployed
    BY <1>3 DEF batchVars, ListsStay, NoneDeployed
  <2> QED
    BY <2>1, ListsStayKeeps, NoneDeployedKeeps DEF PlanInv
<1> QED
  BY <1>1, <1>2, <1>3

(* What a batch deploys is every PDU that is selected, once, whatever        *)
(* orders earlier scans, sorts and moves left behind (getOrderedBatchPdus). *)
THEOREM PlanCoversSelection == WizardSpec => []PlanComplete
<1>1. WizardInit => PlanInv
  BY PlanBegins DEF WizardInit
<1>2. PlanInv => PlanComplete
  BY DEF PlanInv
<1> QED
  BY <1>1, <1>2, PlanKeeps, PTL DEF WizardSpec
-----------------------------------------------------------------------------
Busy == {"connect", "apply", "reboot", "verify", "store"}
Counted ==
  /\ completed \in Nat /\ Cardinality(EndedPdus) <= completed
  /\ completed <= Cardinality(EndedPdus) + Cardinality(Erred)
ConnFits(h) == ~template.users => current.conn.login = device[h].login
Settled(h) ==
  template.snmp => device[h].nextHttps = device[h].https /\ device[h].nextPlace = device[h].place

(* One PDU is worked on at a time, and none twice; every outcome is counted, *)
(* and an error at most twice.                                               *)
JobInv ==
  /\ current.pc \in Busy <=> current.pdu # Nil
  /\ \A p \in Pdus : status[p] = "working" <=> current.pdu = p
  /\ \A p \in todo : status[p] = "none"
  /\ current.pc \in {"apply", "reboot", "verify"} => current.conn \in Access
  /\ current.pc \in {"reboot", "verify"} => current.pdu \in Hosts
  /\ current.pc = "completed" => todo = {}
  /\ current.pc = "died" => todo \cap unreadable # {}
  /\ Counted

(* HTTPS is never given up, and only the network section moves a device.    *)
DeviceInv ==
  \A h \in Hosts :
    /\ device[h].https => device[h].nextHttps
    /\ ~template.net => device[h].place = "present" /\ device[h].nextPlace = "present"

(* What is known of the host being worked on, step by step.                 *)
HostInv ==
  \A h \in Hosts : current.pdu = h =>
    /\ current.pc = "apply" => current.conn = AccessOf(h) /\ device[h].place = "present"
    /\ current.pc = "reboot" => ConnFits(h)
    /\ current.pc = "verify" => ConnFits(h) /\ Settled(h)
    /\ current.pc = "store" =>
         /\ current.conn \in Access /\ ConnFits(h) /\ Settled(h)
         /\ device[h].place = Target /\ device[h].https = FinalAccess.https

SlaveInv ==
  \A s \in Slaves : current.pdu = s =>
    /\ current.pc = "apply" => ConnFits(MasterOf[s])
    /\ current.pc = "store" => cache[MasterOf[s]] # Nil

CacheInv ==
  \A h \in Hosts :
    cache[h] # Nil /\ ~template.users => cache[h].access.login = device[h].login

DoneInv ==
  /\ \A h \in Hosts : status[h] = "done" =>
       /\ rows[h][device[h].place] = AccessOf(h)
       /\ template.users => device[h].login = "new"
       /\ Settled(h)
  /\ \A s \in Slaves : status[s] = "done" /\ ~template.users =>
       rows[s]["present"].login = device[MasterOf[s]].login

BatchInv == TypeOK /\ JobInv /\ DeviceInv /\ HostInv /\ SlaveInv /\ CacheInv /\ DoneInv

-----------------------------------------------------------------------------
LEMMA PdusFinite == IsFiniteSet(Pdus) /\ Cardinality(Pdus) \in Nat
  BY ChainAssumption, FS_Union, FS_CardinalityType DEF Pdus

LEMMA HostOf == \A p \in Pdus : Host(p) \in Hosts
  BY ChainAssumption DEF Pdus, Host

LEMMA AccessOfType == ASSUME TypeOK, NEW h \in Hosts PROVE AccessOf(h) \in Access
  BY DEF TypeOK, AccessOf, Access, Device

LEMMA FinalAccessType == ASSUME TypeOK, current.conn \in Access PROVE FinalAccess \in Access
  BY DEF TypeOK, FinalAccess, Access, Template, Logins

LEMMA JobBegins == ASSUME Init PROVE BatchInv
<1>1. EndedPdus = {} /\ Erred = {} /\ Cardinality({}) = 0 /\ 0 \in 0 .. 2 * Cardinality(Pdus)
  BY PdusFinite, FS_EmptySet DEF Init, EndedPdus, Erred, Ended, Failures
<1>2. Counted
  BY <1>1 DEF Init, Counted
<1>3. /\ template \in Template /\ todo \subseteq Pdus /\ unreadable \subseteq Pdus
      /\ cache \in [Hosts -> Cached \cup {Nil}]
      /\ status \in [Pdus -> {"none", "working"} \cup Ended]
      /\ current \in [pc : Pcs, pdu : Pdus \cup {Nil}, conn : Access \cup {Nil}]
  BY DEF Init, Pcs
<1>4. device \in [Hosts -> FirstDevices] /\ rows \in [Pdus -> FirstRows]
  BY DEF Init
<1>5. FirstDevices \subseteq Device /\ FirstRows \subseteq [Places -> Access \cup {Nil}]
  <2>1. [login : {"old", "other"}, https : {FALSE}] \subseteq Access
    BY DEF Access, Logins
  <2> QED
    BY <2>1 DEF FirstDevices, FirstRows
<1>6. TypeOK
  BY <1>1, <1>3, <1>4, <1>5 DEF TypeOK, Init
<1>7. JobInv
  BY <1>2, NilAssumption DEF Init, JobInv, Busy
<1>8. DeviceInv
  BY <1>4 DEF FirstDevices, DeviceInv
<1>9. HostInv /\ SlaveInv /\ CacheInv /\ DoneInv
  BY ChainAssumption, NilAssumption DEF Init, HostInv, SlaveInv, CacheInv, DoneInv, Pdus
<1> QED
  BY <1>6, <1>7, <1>8, <1>9 DEF BatchInv

-----------------------------------------------------------------------------
(* The counts are finite.                                                   *)
LEMMA CountsFinite ==
  /\ IsFiniteSet(EndedPdus) /\ Cardinality(EndedPdus) \in Nat
  /\ IsFiniteSet(Erred) /\ Cardinality(Erred) \in Nat
  /\ Cardinality(EndedPdus) <= Cardinality(Pdus) /\ Cardinality(Erred) <= Cardinality(Pdus)
<1>1. EndedPdus \subseteq Pdus /\ Erred \subseteq Pdus
  BY DEF EndedPdus, Erred
<1> QED
  BY <1>1, PdusFinite, FS_Subset, FS_CardinalityType

(* What a PDU's outcome does to the report.                                 *)
LEMMA OutcomeCounted ==
  ASSUME BatchInv, NEW p \in Pdus, NEW how \in Ended, current.pdu = p, EndHeld(p, how)
  PROVE  /\ Counted'
         /\ completed' \in 0 .. 2 * Cardinality(Pdus)
<1>1. status[p] = "working" /\ status \in [Pdus -> {"none", "working"} \cup Ended]
  BY DEF BatchInv, JobInv, TypeOK
<1>2. p \notin EndedPdus /\ p \notin Erred
  BY <1>1 DEF EndedPdus, Erred, Ended, Failures
<1>3. EndedPdus' = EndedPdus \cup {p}
  <2>1. PICK end \in Ended : status' = [status EXCEPT ![p] = end]
    BY DEF EndHeld, EndPdu, EndTwice, Ended, Failures
  <2> QED
    BY <1>1, <2>1 DEF EndedPdus
<1>4. Cardinality(EndedPdus \cup {p}) = Cardinality(EndedPdus) + 1
      /\ Cardinality(Erred \cup {p}) = Cardinality(Erred) + 1
  BY <1>2, CountsFinite, FS_AddElement
<1>5. Cardinality(EndedPdus') = Cardinality(EndedPdus) + 1
  BY <1>3, <1>4, Zenon
<1>6. /\ Cardinality(EndedPdus') <= Cardinality(Pdus)
      /\ Cardinality(Erred') <= Cardinality(Pdus)
  <2>1. EndedPdus' \subseteq Pdus /\ Erred' \subseteq Pdus
    BY DEF EndedPdus, Erred
  <2> QED
    BY <2>1, PdusFinite, FS_Subset
<1>7. Counted
  BY DEF BatchInv, JobInv
<1>8. CASE EndPdu(p, how)
  <2>1. Erred' = Erred \/ Erred' = Erred \cup {p}
    BY <1>1, <1>8 DEF EndPdu, Erred
  <2>2. Cardinality(Erred') >= Cardinality(Erred)
    <3>1. CASE Erred' = Erred
      <4>1. Cardinality(Erred') = Cardinality(Erred)
        BY <3>1, Zenon
      <4> QED
        BY <4>1, CountsFinite
    <3>2. CASE Erred' = Erred \cup {p}
      <4>1. Cardinality(Erred') = Cardinality(Erred) + 1
        BY <1>4, <3>2, Zenon
      <4> QED
        BY <4>1, CountsFinite
    <3> QED
      BY <2>1, <3>1, <3>2
  <2>3. completed' = completed + 1 /\ Cardinality(Erred') \in Nat
    BY <1>8, PdusFinite, CountsFinite, FS_Subset, FS_CardinalityType DEF EndPdu, Erred
  <2> QED
    BY <1>5, <1>6, <1>7, <2>2, <2>3, CountsFinite, PdusFinite DEF Counted
<1>9. CASE EndTwice(p)
  <2>1. Erred' = Erred \cup {p}
    BY <1>1, <1>9 DEF EndTwice, Erred
  <2>2. Cardinality(Erred') = Cardinality(Erred) + 1
    BY <1>4, <2>1, Zenon
  <2>3. completed' = completed + 2
    BY <1>9 DEF EndTwice
  <2> QED
    BY <1>5, <1>6, <1>7, <2>2, <2>3, CountsFinite, PdusFinite DEF Counted
<1> QED
  BY <1>8, <1>9 DEF EndHeld

LEMMA JobReports ==
  ASSUME BatchInv, NEW p \in Pdus, NEW how \in Ended, current.pdu = p, EndHeld(p, how),
         UNCHANGED <<template, todo, unreadable>>, device' \in [Hosts -> Device],
         rows' \in [Pdus -> [Places -> Access \cup {Nil}]],
         cache' \in [Hosts -> Cached \cup {Nil}]
  PROVE  TypeOK' /\ JobInv' /\ HostInv' /\ SlaveInv'
<1>1. PICK end \in Ended : status' = [status EXCEPT ![p] = end]
  BY DEF EndHeld, EndPdu, EndTwice, Ended, Failures
<1>2. TypeOK /\ JobInv /\ current' = [pc |-> "idle", pdu |-> Nil, conn |-> Nil]
  BY DEF BatchInv, EndHeld, EndPdu, EndTwice
<1>3. TypeOK'
  BY <1>1, <1>2, OutcomeCounted DEF TypeOK, Pcs
<1>4. Counted'
  BY OutcomeCounted
<1>5. JobInv'
  BY <1>1, <1>2, <1>4, NilAssumption DEF TypeOK, JobInv, Busy, Ended, Failures
<1>6. HostInv' /\ SlaveInv'
  BY <1>2, NilAssumption DEF HostInv, SlaveInv, Pdus
<1> QED
  BY <1>3, <1>5, <1>6

(* A step of the work on a PDU that reports nothing.                        *)
LEMMA Unreported ==
  ASSUME BatchInv, Stay, UNCHANGED <<template, todo, unreadable>>, current.pc \in Busy,
         NEW pc \in Busy, NEW conn \in Access \cup {Nil},
         current' = [pc |-> pc, pdu |-> current.pdu, conn |-> conn],
         pc \in {"apply", "reboot", "verify"} => conn \in Access,
         pc \in {"reboot", "verify"} => current.pdu \in Hosts,
         device' \in [Hosts -> Device],
         rows' \in [Pdus -> [Places -> Access \cup {Nil}]],
         cache' \in [Hosts -> Cached \cup {Nil}]
  PROVE  TypeOK' /\ JobInv'
<1>1. TypeOK /\ JobInv
  BY DEF BatchInv
<1>2. TypeOK'
  <2>1. current.pdu \in Pdus \cup {Nil} /\ pc \in Pcs
    BY <1>1 DEF TypeOK, Pcs, Busy
  <2>2. current' \in [pc : Pcs, pdu : Pdus \cup {Nil}, conn : Access \cup {Nil}]
    BY <2>1
  <2> QED
    BY <1>1, <2>2 DEF TypeOK, Stay
<1>3. EndedPdus' = EndedPdus /\ Erred' = Erred
  BY DEF Stay, EndedPdus, Erred
<1>4. Counted'
  BY <1>1, <1>3, Zenon DEF JobInv, Stay, Counted
<1>5. JobInv'
  BY <1>1, <1>4 DEF JobInv, Stay, Busy
<1> QED
  BY <1>2, <1>5
-----------------------------------------------------------------------------
(* Each step keeps the invariant.                                           *)
LEMMA TakeKeeps == ASSUME BatchInv, NEW p \in Pdus, Take(p) PROVE BatchInv'
<1>1. TypeOK /\ JobInv
  BY DEF BatchInv
<1>2. current' = [pc |-> "connect", pdu |-> p, conn |-> Nil]
      /\ status' = [status EXCEPT ![p] = "working"] /\ todo' = todo \ {p}
      /\ UNCHANGED <<template, device, rows, cache, unreadable, completed>>
      /\ current.pc = "idle" /\ p \in todo
  BY DEF Take
<1>3. TypeOK'
  BY <1>1, <1>2 DEF TypeOK, Pcs
<1>4. status[p] = "none" /\ current.pdu = Nil
  BY <1>1, <1>2 DEF JobInv, Busy
<1>5. EndedPdus' = EndedPdus /\ Erred' = Erred
  BY <1>1, <1>2, <1>4 DEF EndedPdus, Erred, TypeOK, Ended, Failures
<1>6. Counted'
  BY <1>1, <1>2, <1>5, Zenon DEF JobInv, Counted
<1>7. JobInv'
  BY <1>1, <1>2, <1>4, <1>6, NilAssumption DEF JobInv, TypeOK, Busy
<1>8. DeviceInv' /\ CacheInv'
  BY <1>2 DEF BatchInv, DeviceInv, CacheInv
<1>9. HostInv' /\ SlaveInv'
  BY <1>2 DEF HostInv, SlaveInv
<1>10. DoneInv'
  BY <1>1, <1>2 DEF BatchInv, DoneInv, TypeOK, AccessOf, Settled, Pdus
<1> QED
  BY <1>3, <1>7, <1>8, <1>9, <1>10 DEF BatchInv

LEMMA CompleteKeeps == ASSUME BatchInv, Complete PROVE BatchInv'
<1>1. TypeOK /\ JobInv
  BY DEF BatchInv
<1>2. current' = [current EXCEPT !.pc = "completed"] /\ current.pc = "idle" /\ todo = {}
      /\ UNCHANGED <<template, device, rows, todo, unreadable, cache, status, completed>>
  BY DEF Complete, Go
<1>3. TypeOK'
  BY <1>1, <1>2 DEF TypeOK, Pcs
<1>4. EndedPdus' = EndedPdus /\ Erred' = Erred
  BY <1>2 DEF EndedPdus, Erred
<1>5. Counted'
  BY <1>1, <1>2, <1>4, Zenon DEF JobInv, Counted
<1>6. JobInv'
  BY <1>1, <1>2, <1>5 DEF JobInv, TypeOK, Busy
<1>7. HostInv' /\ SlaveInv'
  BY <1>1, <1>2 DEF TypeOK, HostInv, SlaveInv
<1>8. DeviceInv' /\ CacheInv' /\ DoneInv'
  BY <1>2 DEF BatchInv, DeviceInv, CacheInv, DoneInv, AccessOf, Settled
<1> QED
  BY <1>3, <1>6, <1>7, <1>8 DEF BatchInv

LEMMA DieKeeps == ASSUME BatchInv, NEW p \in Pdus, Die(p) PROVE BatchInv'
<1>1. TypeOK /\ JobInv
  BY DEF BatchInv
<1>2. current' = [current EXCEPT !.pc = "died"] /\ current.pc = "idle" /\ p \in todo \cap unreadable
      /\ UNCHANGED <<template, device, rows, todo, unreadable, cache, status, completed>>
  BY DEF Die, Go, Stay
<1>3. TypeOK'
  BY <1>1, <1>2 DEF TypeOK, Pcs
<1>4. EndedPdus' = EndedPdus /\ Erred' = Erred
  BY <1>2 DEF EndedPdus, Erred
<1>5. Counted'
  BY <1>1, <1>2, <1>4, Zenon DEF JobInv, Counted
<1>6. JobInv'
  <2>1. current'.pc = "died" /\ current'.pdu = current.pdu /\ current'.conn = current.conn
    BY <1>1, <1>2 DEF TypeOK
  <2>2. todo' \cap unreadable' # {}
    BY <1>2
  <2> QED
    BY <1>1, <1>2, <1>5, <2>1, <2>2 DEF JobInv, Busy
<1>7. HostInv' /\ SlaveInv'
  BY <1>1, <1>2 DEF TypeOK, HostInv, SlaveInv
<1>8. DeviceInv' /\ CacheInv' /\ DoneInv'
  BY <1>2 DEF BatchInv, DeviceInv, CacheInv, DoneInv, AccessOf, Settled
<1> QED
  BY <1>3, <1>6, <1>7, <1>8 DEF BatchInv

LEMMA ConnectHostKeeps == ASSUME BatchInv, NEW p \in Pdus, ConnectHost(p) PROVE BatchInv'
<1>1. TypeOK /\ JobInv /\ p \in Hosts /\ AccessOf(p) \in Access
  BY AccessOfType DEF BatchInv, ConnectHost
<1>2. current' = [pc |-> "apply", pdu |-> current.pdu, conn |-> AccessOf(p)]
      /\ rows' = [rows EXCEPT ![p]["present"] = AccessOf(p)]
      /\ UNCHANGED <<template, device, todo, unreadable, cache>> /\ Stay
      /\ current.pc = "connect" /\ current.pdu = p /\ device[p].place = "present"
  BY <1>1 DEF ConnectHost, At, CanConnect, TypeOK
<1>3. rows' \in [Pdus -> [Places -> Access \cup {Nil}]]
  BY <1>1, <1>2 DEF TypeOK
<1>4. TypeOK' /\ JobInv'
  BY <1>1, <1>2, <1>3, Unreported DEF Busy, TypeOK
<1>5. DeviceInv' /\ CacheInv'
  BY <1>2 DEF BatchInv, DeviceInv, CacheInv
<1>6. HostInv' /\ SlaveInv'
  BY <1>1, <1>2, ChainAssumption DEF HostInv, SlaveInv, AccessOf
<1>7. status[p] = "working" /\ status' = status
  BY <1>1, <1>2 DEF JobInv, Stay
<1>8. \A q \in Pdus : status[q] = "done" => rows'[q] = rows[q]
  BY <1>1, <1>2, <1>7 DEF TypeOK
<1>9. DoneInv'
  BY <1>2, <1>7, <1>8 DEF BatchInv, DoneInv, AccessOf, Settled, Pdus
<1> QED
  BY <1>4, <1>5, <1>6, <1>9 DEF BatchInv

LEMMA ConnectMasterKeeps == ASSUME BatchInv, NEW p \in Pdus, ConnectMaster(p) PROVE BatchInv'
<1>1. TypeOK /\ JobInv /\ p \in Slaves /\ Host(p) = MasterOf[p] /\ Host(p) \in Hosts
      /\ AccessOf(Host(p)) \in Access
  BY AccessOfType, HostOf DEF BatchInv, ConnectMaster, Host
<1>2. /\ UNCHANGED <<template, device, rows, todo, unreadable, cache>> /\ Stay
      /\ current.pc = "connect" /\ current.pdu = p
      /\ \/ /\ cache[Host(p)] # Nil
            /\ current' = [pc |-> "store", pdu |-> current.pdu, conn |-> current.conn]
         \/ current' = [pc |-> "apply", pdu |-> current.pdu, conn |-> AccessOf(Host(p))]
  BY <1>1 DEF ConnectMaster, At, Go, TypeOK
<1>3. TypeOK' /\ JobInv'
  BY <1>1, <1>2, Unreported DEF Busy, TypeOK
<1>4. DeviceInv' /\ CacheInv' /\ DoneInv'
  BY <1>2 DEF BatchInv, DeviceInv, CacheInv, DoneInv, AccessOf, Settled, Stay
<1>5. HostInv'
  BY <1>1, <1>2, ChainAssumption DEF HostInv
<1>6. SlaveInv'
  BY <1>1, <1>2 DEF SlaveInv, ConnFits, AccessOf
<1> QED
  BY <1>3, <1>4, <1>5, <1>6 DEF BatchInv

LEMMA ErrorKeeps == ASSUME BatchInv, NEW p \in Pdus, Error(p) PROVE BatchInv'
<1>1. TypeOK /\ JobInv
  BY DEF BatchInv
<1>2. EndPdu(p, "error") /\ UNCHANGED <<template, device, rows, todo, unreadable, cache>>
      /\ current.pdu = p /\ "error" \in Ended
  BY DEF Error, Ended, Failures
<1>3. TypeOK' /\ JobInv' /\ HostInv' /\ SlaveInv'
  BY <1>1, <1>2, JobReports DEF TypeOK, EndHeld
<1>4. DeviceInv' /\ CacheInv'
  BY <1>2 DEF BatchInv, DeviceInv, CacheInv
<1>5. status' = [status EXCEPT ![p] = "error"]
  BY <1>2 DEF EndPdu
<1>6. DoneInv'
  BY <1>1, <1>2, <1>5 DEF BatchInv, DoneInv, AccessOf, Settled, TypeOK, Pdus
<1> QED
  BY <1>3, <1>4, <1>6 DEF BatchInv
-----------------------------------------------------------------------------
(* What a section writes keeps what is known of devices.                    *)
LEMMA ApplyKeeps == ASSUME BatchInv, NEW p \in Pdus, Apply(p) PROVE BatchInv'
<1>1. TypeOK /\ JobInv /\ DeviceInv /\ p \in Hosts /\ current.pc = "apply" /\ current.pdu = p
      /\ template \in Template
  BY DEF BatchInv, Apply, At, TypeOK
<1>2. current.conn = AccessOf(p) /\ device[p].place = "present" /\ current.conn \in Access
      /\ status[p] = "working"
  BY <1>1 DEF BatchInv, HostInv, JobInv
<1>3. PICK users \in BOOLEAN, web \in BOOLEAN, net \in BOOLEAN :
        /\ users => template.users
        /\ web => template.web /\ ~device[p].https
        /\ net => template.net
        /\ device' = [device EXCEPT ![p].login = IF users THEN "new" ELSE @,
                                    ![p].nextHttps = @ \/ web,
                                    ![p].nextPlace = IF net THEN "new" ELSE @]
  BY DEF Apply, WriteSections
<1>4. /\ cache' = [cache EXCEPT ![p] = [access |-> current.conn, rebooted |-> FALSE]]
      /\ UNCHANGED <<template, rows, todo, unreadable>>
      /\ \/ EndHeld(p, "snmp_failed") \/ EndHeld(p, "users_failed")
         \/ Go(IF NeedsReboot THEN "reboot" ELSE "store") /\ Stay
  BY DEF Apply, Remember
<1>5. device' \in [Hosts -> Device]
  <2>1. device[p] \in Device /\ device \in [Hosts -> Device]
    BY <1>1 DEF TypeOK
  <2>2. [device[p] EXCEPT !.login = IF users THEN "new" ELSE @, !.nextHttps = @ \/ web,
                          !.nextPlace = IF net THEN "new" ELSE @] \in Device
    BY <2>1 DEF Device, Logins, Places
  <2> QED
    BY <1>1, <1>3, <2>1, <2>2
<1>6. cache' \in [Hosts -> Cached \cup {Nil}] /\ cache'[p].access = current.conn
      /\ \A h \in Hosts \ {p} : cache'[h] = cache[h]
  BY <1>1, <1>2, <1>4 DEF TypeOK, Cached
<1>7. /\ ~template.users => device'[p].login = device[p].login
      /\ device'[p].https = device[p].https /\ device'[p].place = device[p].place
      /\ ~template.net => device'[p].nextPlace = device[p].nextPlace
      /\ device[p].nextHttps => device'[p].nextHttps
      /\ ~template.web \/ device[p].https => device'[p].nextHttps = device[p].nextHttps
      /\ \A h \in Hosts \ {p} : device'[h] = device[h]
  BY <1>1, <1>3 DEF TypeOK, Device
<1>8. DeviceInv'
  BY <1>1, <1>4, <1>7 DEF DeviceInv
<1>9. CacheInv'
  BY <1>1, <1>2, <1>4, <1>6, <1>7 DEF BatchInv, CacheInv, AccessOf
<1>10. CASE EndHeld(p, "snmp_failed") \/ EndHeld(p, "users_failed")
  <2>1. PICK how \in {"snmp_failed", "users_failed"} : EndHeld(p, how)
    BY <1>10
  <2>2. how \in Ended /\ how # "done"
    BY DEF Ended, Failures
  <2>3. rows' \in [Pdus -> [Places -> Access \cup {Nil}]]
    BY <1>1, <1>4 DEF TypeOK
  <2>4. TypeOK' /\ JobInv' /\ HostInv' /\ SlaveInv'
    BY <1>1, <1>4, <1>5, <1>6, <2>1, <2>2, <2>3, JobReports
  <2>5. \A q \in Pdus : status'[q] = "done" => q # p /\ status[q] = "done"
    BY <1>1, <2>1, <2>2 DEF EndHeld, EndPdu, EndTwice, TypeOK
  <2>6. DoneInv'
    BY <1>1, <1>4, <1>7, <2>5, ChainAssumption DEF BatchInv, DoneInv, AccessOf, Settled, Pdus
  <2> QED
    BY <1>8, <1>9, <2>4, <2>6 DEF BatchInv
<1>11. CASE Go(IF NeedsReboot THEN "reboot" ELSE "store") /\ Stay
  <2> DEFINE pc == IF NeedsReboot THEN "reboot" ELSE "store"
  <2>1. current' = [pc |-> pc, pdu |-> current.pdu, conn |-> current.conn] /\ pc \in Busy
    BY <1>1, <1>11 DEF TypeOK, Go, Busy
  <2>2. rows' \in [Pdus -> [Places -> Access \cup {Nil}]]
    BY <1>1, <1>4 DEF TypeOK
  <2>3. TypeOK' /\ JobInv'
    BY <1>1, <1>2, <1>4, <1>5, <1>6, <1>11, <2>1, <2>2, Unreported DEF Busy
  <2>4. SlaveInv'
    BY <1>1, <2>1, ChainAssumption DEF SlaveInv
  <2>5. DoneInv'
    BY <1>1, <1>2, <1>4, <1>7, <1>11, ChainAssumption
       DEF BatchInv, DoneInv, AccessOf, Settled, Pdus, Stay
  <2>6. current'.conn.login = device[p].login /\ current'.conn.https = device[p].https
    BY <1>2, <2>1 DEF AccessOf
  <2>7. ConnFits(p)'
    BY <1>4, <1>7, <2>6 DEF ConnFits
  <2>8. CASE NeedsReboot
    <3>1. HostInv'
      BY <1>1, <2>1, <2>7, <2>8 DEF HostInv, ConnFits
    <3> QED
      BY <1>8, <1>9, <2>3, <2>4, <2>5, <3>1 DEF BatchInv
  <2>9. CASE ~NeedsReboot
    <3>1. ~template.net /\ (template.web => device[p].https)
          /\ (template.snmp => template.web /\ device[p].https)
      BY <1>1, <1>2, <2>9 DEF NeedsReboot, AccessOf, Template
    <3>2. device'[p].place = "present" /\ device'[p].nextPlace = "present"
      BY <1>1, <1>2, <1>7, <3>1 DEF DeviceInv
    <3>3. device'[p].nextHttps = device[p].nextHttps /\ (device[p].https => device[p].nextHttps)
      BY <1>1, <1>7, <3>1 DEF DeviceInv
    <3>4. device[p].https \in BOOLEAN /\ device[p].nextHttps \in BOOLEAN /\ template.web \in BOOLEAN
          /\ template.snmp \in BOOLEAN
      BY <1>1 DEF TypeOK, Device, Template
    <3>5. Settled(p)'
      BY <1>4, <1>7, <3>1, <3>2, <3>3, <3>4 DEF Settled
    <3>6. device'[p].place = Target'
      BY <1>4, <3>1, <3>2 DEF Target
    <3>7. FinalAccess'.https = (current'.conn.https \/ template.web)
      BY <1>4 DEF FinalAccess
    <3>8. device'[p].https = FinalAccess'.https
      BY <1>7, <2>6, <3>1, <3>4, <3>7
    <3>9. HostInv'
      BY <1>1, <1>2, <2>1, <2>7, <2>9, <3>5, <3>6, <3>8 DEF HostInv
    <3> QED
      BY <1>8, <1>9, <2>3, <2>4, <2>5, <3>9 DEF BatchInv
  <2> QED
    BY <1>8, <1>9, <2>3, <2>4, <2>5, <2>8, <2>9 DEF BatchInv
<1> QED
  BY <1>4, <1>10, <1>11
LEMMA ApplyViaMasterKeeps ==
  ASSUME BatchInv, NEW p \in Pdus, ApplyViaMaster(p) PROVE BatchInv'
<1> DEFINE h == Host(p)
<1>1. TypeOK /\ JobInv /\ DeviceInv /\ p \in Slaves /\ current.pc = "apply" /\ current.pdu = p
      /\ template \in Template /\ h = MasterOf[p] /\ h \in Hosts
  BY HostOf DEF BatchInv, ApplyViaMaster, At, TypeOK, Host
<1>2. ConnFits(h) /\ current.conn \in Access /\ status[p] = "working"
  BY <1>1 DEF BatchInv, SlaveInv, JobInv
<1>3. /\ UNCHANGED <<template, rows, todo, unreadable>>
      /\ \/ template.users /\ device' = [device EXCEPT ![h].login = "new"]
         \/ device' = device
      /\ \/ EndHeld(p, "snmp_failed") /\ UNCHANGED cache
         \/ /\ cache' = [cache EXCEPT ![h] = [access |-> current.conn, rebooted |-> FALSE]]
            /\ Go("store") /\ Stay
  BY DEF ApplyViaMaster, Remember, WriteLogin
<1>4. device' \in [Hosts -> Device]
  BY <1>1, <1>3 DEF TypeOK, Device, Logins
<1>5. [access |-> current.conn, rebooted |-> FALSE] \in Cached
  BY <1>2 DEF Cached
<1>6. /\ cache' \in [Hosts -> Cached \cup {Nil}]
      /\ cache'[h] = cache[h] \/ cache'[h].access = current.conn
      /\ \A g \in Hosts \ {h} : cache'[g] = cache[g]
  BY <1>1, <1>3, <1>5 DEF TypeOK
<1>7. \A g \in Hosts :
        /\ ~template.users => device'[g].login = device[g].login
        /\ device[g].login = "new" => device'[g].login = "new"
        /\ device'[g].https = device[g].https /\ device'[g].place = device[g].place
        /\ device'[g].nextHttps = device[g].nextHttps /\ device'[g].nextPlace = device[g].nextPlace
  <2>1. CASE template.users /\ device' = [device EXCEPT ![h].login = "new"]
    <3>1. device \in [Hosts -> Device] /\ device[h] \in Device
      BY <1>1 DEF TypeOK
    <3>2. device'[h] = [device[h] EXCEPT !.login = "new"] /\ \A g \in Hosts \ {h} : device'[g] = device[g]
      BY <1>1, <2>1, <3>1
    <3> QED
      BY <1>1, <2>1, <3>1, <3>2 DEF Device
  <2>2. CASE device' = device
    BY <2>2
  <2> QED
    BY <1>3, <2>1, <2>2
<1>8. DeviceInv'
  BY <1>1, <1>3, <1>7 DEF DeviceInv
<1>9. CacheInv'
  <2> SUFFICES ASSUME NEW g \in Hosts, cache'[g] # Nil, ~template.users
               PROVE  cache'[g].access.login = device'[g].login
    BY <1>3 DEF CacheInv
  <2>1. CASE cache'[g] = cache[g]
    BY <1>7, <2>1 DEF BatchInv, CacheInv
  <2>2. CASE g = h /\ cache'[h].access = current.conn
    BY <1>1, <1>2, <1>7, <2>2 DEF ConnFits
  <2> QED
    BY <1>6, <2>1, <2>2
<1>10. \A q \in Pdus : status'[q] = "done" => status[q] = "done"
  BY <1>1, <1>3 DEF EndHeld, EndPdu, EndTwice, Stay, TypeOK
<1>11. DoneInv'
  <2>1. ASSUME NEW g \in Hosts, status'[g] = "done"
        PROVE  /\ rows'[g][device'[g].place] = AccessOf(g)'
               /\ template'.users => device'[g].login = "new"
               /\ Settled(g)'
    <3>1. /\ rows[g][device[g].place] = AccessOf(g)
          /\ template.users => device[g].login = "new"
          /\ Settled(g)
      BY <1>10, <2>1 DEF BatchInv, DoneInv, Pdus
    <3>2. device'[g].login = device[g].login
      BY <1>1, <1>7, <3>1 DEF Template
    <3> QED
      BY <1>3, <1>7, <3>1, <3>2 DEF AccessOf, Settled
  <2>2. ASSUME NEW s \in Slaves, status'[s] = "done", ~template'.users
        PROVE  rows'[s]["present"].login = device'[MasterOf[s]].login
    BY <1>3, <1>7, <1>10, <2>2, ChainAssumption DEF BatchInv, DoneInv, Pdus
  <2> QED
    BY <2>1, <2>2 DEF DoneInv
<1>12. rows' \in [Pdus -> [Places -> Access \cup {Nil}]]
  BY <1>1, <1>3 DEF TypeOK
<1>13. CASE EndHeld(p, "snmp_failed")
  <2>1. "snmp_failed" \in Ended
    BY DEF Ended, Failures
  <2>2. TypeOK' /\ JobInv' /\ HostInv' /\ SlaveInv'
    BY <1>1, <1>3, <1>4, <1>6, <1>12, <1>13, <2>1, JobReports
  <2> QED
    BY <1>8, <1>9, <1>11, <2>2 DEF BatchInv
<1>14. CASE /\ cache' = [cache EXCEPT ![h] = [access |-> current.conn, rebooted |-> FALSE]]
            /\ Go("store") /\ Stay
  <2>1. current' = [pc |-> "store", pdu |-> current.pdu, conn |-> current.conn]
    BY <1>1, <1>14 DEF TypeOK, Go
  <2>2. TypeOK' /\ JobInv'
    BY <1>1, <1>2, <1>3, <1>4, <1>6, <1>12, <1>14, <2>1, Unreported DEF Busy
  <2>3. HostInv'
    BY <1>1, <2>1, ChainAssumption DEF HostInv
  <2>4. cache'[h] # Nil
    BY <1>1, <1>5, <1>14, NilAssumption DEF TypeOK
  <2>5. SlaveInv'
    BY <1>1, <2>1, <2>4 DEF SlaveInv
  <2> QED
    BY <1>8, <1>9, <1>11, <2>2, <2>3, <2>5 DEF BatchInv
<1> QED
  BY <1>3, <1>13, <1>14

-----------------------------------------------------------------------------
(* A reboot makes of a device what was written to it.                       *)
LEMMA RebootedDevice ==
  ASSUME TypeOK, DeviceInv, NEW h \in Hosts, Rebooted(h)
  PROVE  /\ device' \in [Hosts -> Device]
         /\ device'[h].https = device[h].nextHttps /\ device'[h].place = device[h].nextPlace
         /\ device'[h].nextHttps = device[h].nextHttps
         /\ device'[h].nextPlace = device[h].nextPlace
         /\ device'[h].login = device[h].login
         /\ \A g \in Hosts \ {h} : device'[g] = device[g]
         /\ template' = template => DeviceInv'
<1>1. device \in [Hosts -> Device] /\ device[h] \in Device
  BY DEF TypeOK
<1>2. [device[h] EXCEPT !.https = device[h].nextHttps, !.place = device[h].nextPlace] \in Device
  BY <1>1 DEF Device
<1>3. device' \in [Hosts -> Device] /\ \A g \in Hosts \ {h} : device'[g] = device[g]
  BY <1>1, <1>2 DEF Rebooted
<1>4. /\ device'[h].https = device[h].nextHttps /\ device'[h].place = device[h].nextPlace
      /\ device'[h].nextHttps = device[h].nextHttps
      /\ device'[h].nextPlace = device[h].nextPlace
      /\ device'[h].login = device[h].login
  BY <1>1 DEF Rebooted, Device
<1>5. template' = template => DeviceInv'
  BY <1>3, <1>4 DEF DeviceInv
<1> QED
  BY <1>3, <1>4, <1>5

LEMMA RebootKeeps == ASSUME BatchInv, NEW p \in Pdus, Reboot(p) PROVE BatchInv'
<1>1. TypeOK /\ JobInv /\ DeviceInv /\ current.pc = "reboot" /\ current.pdu = p
  BY DEF BatchInv, Reboot, At
<1>2. p \in Hosts /\ ConnFits(p) /\ current.conn \in Access /\ status[p] = "working"
  BY <1>1 DEF BatchInv, JobInv, HostInv
<1>3. /\ UNCHANGED <<template, rows, todo, unreadable, cache>>
      /\ \/ Rebooted(p) /\ Go("verify") /\ Stay
         \/ (Rebooted(p) \/ UNCHANGED device) /\ EndHeld(p, "reboot_failed")
  BY DEF Reboot
<1>4. /\ device' \in [Hosts -> Device] /\ DeviceInv'
      /\ device'[p].login = device[p].login /\ \A g \in Hosts \ {p} : device'[g] = device[g]
  BY <1>1, <1>2, <1>3, RebootedDevice DEF TypeOK, DeviceInv
<1>5. \A g \in Hosts : device'[g].login = device[g].login
  BY <1>4
<1>6. CacheInv'
  BY <1>3, <1>5 DEF BatchInv, CacheInv
<1>7. \A q \in Pdus : status'[q] = "done" => status[q] = "done" /\ q # p
  BY <1>1, <1>2, <1>3 DEF EndHeld, EndPdu, EndTwice, Stay, TypeOK
<1>8. DoneInv'
  BY <1>3, <1>4, <1>5, <1>7, ChainAssumption DEF BatchInv, DoneInv, AccessOf, Settled, Pdus
<1>9. rows' \in [Pdus -> [Places -> Access \cup {Nil}]] /\ cache' \in [Hosts -> Cached \cup {Nil}]
  BY <1>1, <1>3 DEF TypeOK
<1>10. CASE EndHeld(p, "reboot_failed")
  <2>1. "reboot_failed" \in Ended
    BY DEF Ended, Failures
  <2>2. TypeOK' /\ JobInv' /\ HostInv' /\ SlaveInv'
    BY <1>1, <1>3, <1>4, <1>9, <1>10, <2>1, JobReports
  <2> QED
    BY <1>4, <1>6, <1>8, <2>2 DEF BatchInv
<1>11. CASE Rebooted(p) /\ Go("verify") /\ Stay
  <2>1. current' = [pc |-> "verify", pdu |-> current.pdu, conn |-> current.conn]
    BY <1>1, <1>11 DEF TypeOK, Go
  <2>2. TypeOK' /\ JobInv'
    BY <1>1, <1>2, <1>3, <1>4, <1>9, <1>11, <2>1, Unreported DEF Busy
  <2>3. Settled(p)' /\ ConnFits(p)'
    BY <1>1, <1>2, <1>3, <1>4, <1>11, <2>1, RebootedDevice DEF Settled, ConnFits
  <2>4. HostInv'
    BY <1>1, <2>1, <2>3 DEF HostInv, ConnFits, Settled
  <2>5. SlaveInv'
    BY <1>1, <1>2, <2>1, ChainAssumption DEF SlaveInv
  <2> QED
    BY <1>4, <1>6, <1>8, <2>2, <2>4, <2>5 DEF BatchInv
<1> QED
  BY <1>3, <1>10, <1>11
(* The two ways of waiting for the device agree with what is stored.        *)
LEMMA VerifyStep ==
  ASSUME BatchInv, NEW p \in Pdus, At("verify", p), UNCHANGED <<template, device, rows, todo, unreadable, cache>>,
         \/ /\ device[p].place = Target /\ device[p].https = FinalAccess.https
            /\ Go("store") /\ Stay
         \/ \E how \in Ended \ {"done"} : EndHeld(p, how)
  PROVE  BatchInv'
<1>1. TypeOK /\ JobInv /\ current.pc = "verify" /\ current.pdu = p
  BY DEF BatchInv, At
<1>2. p \in Hosts /\ ConnFits(p) /\ Settled(p) /\ current.conn \in Access /\ status[p] = "working"
  BY <1>1 DEF BatchInv, JobInv, HostInv
<1>3. DeviceInv' /\ CacheInv'
  BY DEF BatchInv, DeviceInv, CacheInv
<1>4. \A q \in Pdus : status'[q] = "done" => status[q] = "done"
  BY <1>1 DEF EndHeld, EndPdu, EndTwice, Stay, TypeOK
<1>5. DoneInv'
  BY <1>4 DEF BatchInv, DoneInv, AccessOf, Settled, Pdus
<1>6. CASE \E how \in Ended \ {"done"} : EndHeld(p, how)
  <2>1. TypeOK' /\ JobInv' /\ HostInv' /\ SlaveInv'
    BY <1>1, <1>6, JobReports DEF TypeOK
  <2> QED
    BY <1>3, <1>5, <2>1 DEF BatchInv
<1>7. CASE device[p].place = Target /\ device[p].https = FinalAccess.https /\ Go("store") /\ Stay
  <2>1. current' = [pc |-> "store", pdu |-> current.pdu, conn |-> current.conn]
    BY <1>1, <1>7 DEF TypeOK, Go
  <2>2. TypeOK' /\ JobInv'
    BY <1>1, <1>2, <1>7, <2>1, Unreported DEF Busy, TypeOK
  <2>3. SlaveInv'
    BY <1>1, <1>2, <2>1, ChainAssumption DEF SlaveInv
  <2>4. Target' = Target /\ FinalAccess' = FinalAccess
    BY <2>1 DEF Target, FinalAccess
  <2>5. HostInv'
    BY <1>1, <1>2, <1>7, <2>1, <2>4 DEF HostInv, ConnFits, Settled
  <2> QED
    BY <1>3, <1>5, <2>2, <2>3, <2>5 DEF BatchInv
<1> QED
  BY <1>6, <1>7

LEMMA VerifyKeeps == ASSUME BatchInv, NEW p \in Pdus, Verify(p) PROVE BatchInv'
<1>1. At("verify", p) /\ UNCHANGED <<template, device, rows, todo, unreadable, cache>> /\ VerifyWeb
  BY DEF Verify
<1>2. "verify_https_failed" \in Ended \ {"done"}
  BY DEF Ended, Failures
<1>3. CASE EndHeld(p, "verify_https_failed")
  BY <1>1, <1>2, <1>3, VerifyStep
<1>4. CASE device[p].place = Target /\ device[p].https /\ Go("store") /\ Stay
  <2>1. device[p].https \in BOOLEAN /\ template.web \in BOOLEAN /\ current.conn \in Access
    BY <1>1 DEF BatchInv, TypeOK, JobInv, HostInv, Device, Template, At, Access
  <2>2. FinalAccess.https = TRUE
    BY <1>1, <2>1 DEF FinalAccess, VerifyWeb
  <2>3. device[p].https = FinalAccess.https
    BY <1>4, <2>1, <2>2
  <2> QED
    BY <1>1, <1>4, <2>3, VerifyStep
<1> QED
  BY <1>3, <1>4 DEF Verify

LEMMA VerifyPortKeeps == ASSUME BatchInv, NEW p \in Pdus, VerifyPort(p) PROVE BatchInv'
<1>1. At("verify", p) /\ UNCHANGED <<template, device, rows, todo, unreadable, cache>> /\ ~VerifyWeb
  BY DEF VerifyPort
<1>2. "reboot_timeout" \in Ended \ {"done"}
  BY DEF Ended, Failures
<1>3. CASE EndHeld(p, "reboot_timeout")
  BY <1>1, <1>2, <1>3, VerifyStep
<1>4. CASE device[p].place = Target /\ device[p].https = current.conn.https /\ Go("store") /\ Stay
  <2>1. template.web \in BOOLEAN /\ current.conn.https \in BOOLEAN
    BY <1>1 DEF BatchInv, TypeOK, JobInv, Template, At, Access
  <2>2. FinalAccess.https = current.conn.https
    BY <1>1, <2>1 DEF FinalAccess, VerifyWeb
  <2> QED
    BY <1>1, <1>4, <2>2, VerifyStep
<1> QED
  BY <1>3, <1>4 DEF VerifyPort

-----------------------------------------------------------------------------
(* What is stored for a host is what the device takes.                      *)
LEMMA StoredAccepted ==
  ASSUME BatchInv, NEW p \in Hosts, At("store", p), template.users => Accepts(p)
  PROVE  /\ device[p].place = Target /\ AccessOf(p) = FinalAccess
         /\ template.users => device[p].login = "new"
<1>1. TypeOK /\ ConnFits(p) /\ device[p].place = Target /\ device[p].https = FinalAccess.https
  BY DEF BatchInv, HostInv, At
<1>2. template.users \in BOOLEAN
  BY <1>1 DEF TypeOK, Template
<1>3. CASE template.users
  <2>1. AccessOf(p) = FinalAccess
    BY <1>3 DEF Accepts
  <2>2. FinalAccess.login = "new" /\ AccessOf(p).login = device[p].login
    BY <1>3 DEF FinalAccess, AccessOf
  <2> QED
    BY <1>1, <2>1, <2>2
<1>4. CASE ~template.users
  <2>1. FinalAccess = [login |-> current.conn.login, https |-> FinalAccess.https]
    BY <1>4 DEF FinalAccess
  <2>2. AccessOf(p) = FinalAccess
    BY <1>1, <1>4, <2>1 DEF AccessOf, ConnFits
  <2> QED
    BY <1>1, <1>4, <2>2
<1> QED
  BY <1>2, <1>3, <1>4

LEMMA StoreKeeps == ASSUME BatchInv, NEW p \in Pdus, Store(p) PROVE BatchInv'
<1>1. TypeOK /\ JobInv /\ p \in Hosts /\ At("store", p) /\ current.pc = "store" /\ current.pdu = p
      /\ UNCHANGED <<template, device, todo, unreadable, cache>>
  BY DEF BatchInv, Store, At
<1>2. Settled(p) /\ ConnFits(p) /\ current.conn \in Access /\ status[p] = "working"
  BY <1>1 DEF BatchInv, JobInv, HostInv
<1>3. DeviceInv' /\ CacheInv'
  BY <1>1 DEF BatchInv, DeviceInv, CacheInv
<1>4. CASE template.users /\ UNCHANGED rows /\ EndPdu(p, "credentials_verify_failed")
  <2>1. "credentials_verify_failed" \in Ended \ {"done"}
    BY DEF Ended, Failures
  <2>2. TypeOK' /\ JobInv' /\ HostInv' /\ SlaveInv'
    BY <1>1, <1>4, <2>1, JobReports DEF TypeOK, EndHeld
  <2>3. \A q \in Pdus : status'[q] = "done" => status[q] = "done"
    BY <1>1, <1>4 DEF EndHeld, EndPdu, EndTwice, TypeOK
  <2>4. DoneInv'
    BY <1>1, <1>4, <2>3 DEF BatchInv, DoneInv, AccessOf, Settled, Pdus
  <2> QED
    BY <1>3, <2>2, <2>4 DEF BatchInv
<1>5. ASSUME template.users => Accepts(p), NEW how \in {"done", "error"}, EndPdu(p, how),
             NEW slaves \in SUBSET ChainRows(p), rows' = SyncedRows(p, slaves)
      PROVE  BatchInv'
  <2>1. FinalAccess \in Access /\ Target \in Places /\ how \in Ended /\ EndHeld(p, how)
    BY <1>1, <1>2, <1>5, FinalAccessType DEF Target, Places, Ended, Failures, EndHeld
  <2>2. slaves \subseteq Slaves /\ \A s \in slaves : MasterOf[s] = p
    BY <1>5 DEF ChainRows
  <2>3. /\ rows'[p] = [rows[p] EXCEPT ![Target] = FinalAccess]
        /\ \A q \in Pdus \ {p} :
             rows'[q] = IF q \in slaves THEN [rows[q] EXCEPT !["present"] = FinalAccess] ELSE rows[q]
    BY <1>5 DEF SyncedRows
  <2>4. rows' = [q \in Pdus |-> rows'[q]]
    BY <1>5 DEF SyncedRows
  <2>5. \A q \in Pdus : rows[q] \in [Places -> Access \cup {Nil}]
    BY <1>1 DEF TypeOK
  <2>6. rows' \in [Pdus -> [Places -> Access \cup {Nil}]]
    BY <2>1, <2>3, <2>4, <2>5 DEF Places
  <2>7. TypeOK' /\ JobInv' /\ HostInv' /\ SlaveInv'
    BY <1>1, <1>5, <2>1, <2>6, JobReports DEF TypeOK
  <2>8. device[p].place = Target /\ AccessOf(p) = FinalAccess
        /\ (template.users => device[p].login = "new")
    BY <1>1, <1>5, StoredAccepted
  <2>9. \A q \in Pdus \ {p} : status'[q] = "done" => status[q] = "done"
    BY <1>1, <1>5 DEF EndHeld, EndPdu, EndTwice, TypeOK
  <2>10. rows'[p][Target] = FinalAccess
    BY <2>1, <2>3, <2>5
  <2>11. ASSUME NEW h \in Hosts, status'[h] = "done"
         PROVE  /\ rows'[h][device'[h].place] = AccessOf(h)'
                /\ template'.users => device'[h].login = "new"
                /\ Settled(h)'
    <3>1. CASE h = p
      BY <1>1, <1>2, <2>8, <2>10, <3>1 DEF AccessOf, Settled
    <3>2. CASE h # p
      <4>1. rows'[h] = rows[h]
        BY <2>2, <2>3, <3>2, ChainAssumption DEF Pdus
      <4> QED
        BY <1>1, <2>9, <2>11, <3>2, <4>1 DEF BatchInv, DoneInv, AccessOf, Settled, Pdus
    <3> QED
      BY <3>1, <3>2
  <2>12. ASSUME NEW s \in Slaves, status'[s] = "done", ~template'.users
         PROVE  rows'[s]["present"].login = device'[MasterOf[s]].login
    <3>1. s # p /\ s \in Pdus
      BY <1>1, ChainAssumption DEF Pdus
    <3>2. CASE s \in slaves
      <4>1. rows'[s]["present"] = FinalAccess
        BY <2>3, <2>5, <3>1, <3>2 DEF Places
      <4>2. FinalAccess.login = device[p].login
        BY <2>8 DEF AccessOf
      <4> QED
        BY <1>1, <2>2, <3>2, <4>1, <4>2
    <3>3. CASE s \notin slaves
      BY <1>1, <2>3, <2>9, <2>12, <3>1, <3>3 DEF BatchInv, DoneInv
    <3> QED
      BY <3>2, <3>3
  <2>13. DoneInv'
    BY <2>11, <2>12 DEF DoneInv
  <2> QED
    BY <1>3, <2>7, <2>13 DEF BatchInv
<1> QED
  BY <1>4, <1>5 DEF Store

LEMMA StoreSlaveKeeps == ASSUME BatchInv, NEW p \in Pdus, StoreSlave(p) PROVE BatchInv'
<1> DEFINE h == Host(p)
<1>1. TypeOK /\ JobInv /\ DeviceInv /\ p \in Slaves /\ current.pc = "store" /\ current.pdu = p
      /\ UNCHANGED <<template, todo, unreadable>> /\ h = MasterOf[p] /\ h \in Hosts
      /\ rows' = [rows EXCEPT ![p]["present"] = cache[h].access]
  BY HostOf DEF BatchInv, StoreSlave, At, Host
<1>2. cache[h] # Nil /\ cache[h] \in Cached /\ cache[h].access \in Access
  BY <1>1 DEF BatchInv, SlaveInv, TypeOK, Cached
<1>3. \/ /\ template.snmp /\ Rebooted(h)
         /\ \E ok \in BOOLEAN : cache' = [cache EXCEPT ![h].rebooted = ok]
      \/ UNCHANGED <<device, cache>>
  BY DEF StoreSlave
<1>4. /\ device' \in [Hosts -> Device] /\ DeviceInv'
      /\ device'[h].login = device[h].login /\ \A g \in Hosts \ {h} : device'[g] = device[g]
  BY <1>1, <1>3, RebootedDevice DEF TypeOK, DeviceInv
<1>5. /\ cache' \in [Hosts -> Cached \cup {Nil}]
      /\ cache'[h] \in Cached /\ cache'[h].access = cache[h].access
      /\ \A g \in Hosts \ {h} : cache'[g] = cache[g]
  <2>1. CASE UNCHANGED cache
    BY <1>1, <1>2, <2>1 DEF TypeOK
  <2>2. ASSUME NEW ok \in BOOLEAN, cache' = [cache EXCEPT ![h].rebooted = ok]
        PROVE  /\ cache' \in [Hosts -> Cached \cup {Nil}]
               /\ cache'[h] \in Cached /\ cache'[h].access = cache[h].access
               /\ \A g \in Hosts \ {h} : cache'[g] = cache[g]
    <3>1. [cache[h] EXCEPT !.rebooted = ok] \in Cached
          /\ [cache[h] EXCEPT !.rebooted = ok].access = cache[h].access
      BY <1>2 DEF Cached
    <3> QED
      BY <1>1, <2>2, <3>1 DEF TypeOK
  <2> QED
    BY <1>3, <2>1, <2>2
<1>6. rows' \in [Pdus -> [Places -> Access \cup {Nil}]]
      /\ rows'[p]["present"] = cache[h].access /\ \A q \in Pdus \ {p} : rows'[q] = rows[q]
  BY <1>1, <1>2 DEF TypeOK, Places
<1>7. PICK how \in {"done", "error"} : EndPdu(p, how)
  BY DEF StoreSlave
<1>8. TypeOK' /\ JobInv' /\ HostInv' /\ SlaveInv'
  <2>1. how \in Ended /\ EndHeld(p, how)
    BY <1>7 DEF Ended, Failures, EndHeld
  <2> QED
    BY <1>1, <1>4, <1>5, <1>6, <2>1, JobReports
<1>9. \A g \in Hosts : device'[g].login = device[g].login
  BY <1>4
<1>10. CacheInv'
  BY <1>1, <1>2, <1>5, <1>9 DEF BatchInv, CacheInv
<1>11. \A q \in Pdus \ {p} : status'[q] = "done" => status[q] = "done"
  BY <1>1, <1>7 DEF EndPdu, TypeOK
<1>12. ASSUME NEW g \in Hosts, status'[g] = "done"
       PROVE  /\ rows'[g][device'[g].place] = AccessOf(g)'
              /\ template'.users => device'[g].login = "new"
              /\ Settled(g)'
  <2>1. g # p /\ g \in Pdus
    BY <1>1, ChainAssumption DEF Pdus
  <2>2. /\ rows[g][device[g].place] = AccessOf(g)
        /\ template.users => device[g].login = "new"
        /\ Settled(g)
    BY <1>11, <1>12, <2>1 DEF BatchInv, DoneInv
  <2>3. device'[g].https = device[g].https /\ device'[g].place = device[g].place
        /\ (template.snmp => /\ device'[g].nextHttps = device'[g].https
                             /\ device'[g].nextPlace = device'[g].place)
    BY <1>1, <1>3, <1>4, <2>2, RebootedDevice DEF Settled
  <2> QED
    BY <1>1, <1>6, <1>9, <2>1, <2>2, <2>3 DEF AccessOf, Settled
<1>13. ASSUME NEW s \in Slaves, status'[s] = "done", ~template'.users
       PROVE  rows'[s]["present"].login = device'[MasterOf[s]].login
  <2>1. CASE s = p
    BY <1>1, <1>2, <1>6, <1>9, <1>13, <2>1 DEF BatchInv, CacheInv
  <2>2. CASE s # p
    BY <1>1, <1>6, <1>9, <1>11, <1>13, <2>2, ChainAssumption DEF BatchInv, DoneInv, Pdus
  <2> QED
    BY <2>1, <2>2
<1>14. DoneInv'
  BY <1>12, <1>13 DEF DoneInv
<1> QED
  BY <1>4, <1>8, <1>10, <1>14 DEF BatchInv

-----------------------------------------------------------------------------
LEMMA StutterKeeps == ASSUME BatchInv, UNCHANGED vars PROVE BatchInv'
<1>1. UNCHANGED <<template, device, rows, todo, unreadable, current, cache, status, completed>>
  BY DEF vars
<1>2. EndedPdus' = EndedPdus /\ Erred' = Erred
  BY <1>1 DEF EndedPdus, Erred
<1>3. Counted'
  BY <1>1, <1>2, Zenon DEF BatchInv, JobInv, Counted
<1>4. TypeOK' /\ JobInv' /\ DeviceInv'
  BY <1>1, <1>3 DEF BatchInv, TypeOK, JobInv, DeviceInv
<1>5. HostInv' /\ SlaveInv' /\ CacheInv' /\ DoneInv'
  BY <1>1 DEF BatchInv, HostInv, SlaveInv, CacheInv, DoneInv, ConnFits, Settled, AccessOf,
              Target, FinalAccess
<1> QED
  BY <1>4, <1>5 DEF BatchInv

LEMMA BatchNext == ASSUME BatchInv, [Next]_vars PROVE BatchInv'
<1>1. ASSUME NEW p \in Pdus, Step(p) PROVE BatchInv'
  BY <1>1, TakeKeeps, DieKeeps, ConnectHostKeeps, ConnectMasterKeeps, ErrorKeeps, ApplyKeeps,
     ApplyViaMasterKeeps, RebootKeeps, VerifyKeeps, VerifyPortKeeps, StoreKeeps, StoreSlaveKeeps
     DEF Step
<1> QED
  BY <1>1, CompleteKeeps, StutterKeeps DEF Next

LEMMA BatchInvAlways == Spec => []BatchInv
<1>1. Init => BatchInv
  BY JobBegins
<1>2. BatchInv /\ [Next]_vars => BatchInv'
  BY BatchNext
<1> QED
  BY <1>1, <1>2, PTL DEF Spec

(* The types of the variables of a batch job.                               *)
THEOREM BatchTypeCorrect == Spec => []TypeOK
<1>1. BatchInv => TypeOK
  BY DEF BatchInv
<1> QED
  BY <1>1, BatchInvAlways, PTL

(* What a batch reports as done can be polled with what it stored           *)
(* (_run_batch_commission, which tries a new login before it stores it).    *)
THEOREM DoneCanBePolled == Spec => []DoneAccepted
<1>1. BatchInv => DoneAccepted
  <2> SUFFICES ASSUME BatchInv, NEW p \in Pdus, status[p] = "done"
               PROVE  \/ p \in Hosts /\ rows[p][device[Host(p)].place] = AccessOf(Host(p))
                      \/ p \in Slaves /\ (template.users
                                       \/ rows[p]["present"].login = device[Host(p)].login)
    BY DEF DoneAccepted
  <2>1. CASE p \in Hosts
    BY <2>1, ChainAssumption DEF BatchInv, DoneInv, Host
  <2>2. CASE p \in Slaves
    BY <2>2 DEF BatchInv, DoneInv, Host
  <2> QED
    BY <2>1, <2>2 DEF Pdus
<1> QED
  BY <1>1, BatchInvAlways, PTL

(* Whatever step of a batch fails, every outcome is counted, only a PDU     *)
(* reported with an error may count twice, and when the thread has ended    *)
(* no PDU is left at work: it has been through all of them, or was stopped  *)
(* by an entry it cannot read.                                              *)
ReportSound ==
  /\ Cardinality(EndedPdus) <= completed
  /\ completed <= Cardinality(EndedPdus) + Cardinality(Erred)
  /\ current.pc \in {"completed", "died"} =>
       /\ todo = {} \/ (current.pc = "died" /\ todo \cap unreadable # {})
       /\ \A p \in Pdus : status[p] # "working"

THEOREM OutcomesCounted == Spec => []ReportSound
<1>1. BatchInv => ReportSound
  <2> SUFFICES ASSUME BatchInv PROVE ReportSound
    OBVIOUS
  <2>1. Counted
    BY DEF BatchInv, JobInv
  <2>2. ASSUME current.pc \in {"completed", "died"}, NEW p \in Pdus PROVE status[p] # "working"
    BY <2>2, NilAssumption DEF BatchInv, JobInv, Busy
  <2>3. /\ current.pc = "completed" => todo = {}
        /\ current.pc = "died" => todo \cap unreadable # {}
    BY DEF BatchInv, JobInv
  <2>4. current.pc \in {"completed", "died"} =>
          todo = {} \/ (current.pc = "died" /\ todo \cap unreadable # {})
    BY <2>3, Zenon
  <2> QED
    BY <2>1, <2>2, <2>4 DEF ReportSound, Counted
<1> QED
  BY <1>1, BatchInvAlways, PTL

(* No write of a batch puts a login into a host's row that the device does  *)
(* not take at that moment.                                                 *)
THEOREM StoresWorkingLogins == Spec => OnlyWorkingLoginStored
<1> DEFINE A == \A p \in Hosts, w \in Places :
                  rows'[p][w] # rows[p][w] => rows'[p][w].login = device[p].login
<1>1. ASSUME BatchInv, [Next]_vars PROVE [A]_vars
  <2> SUFFICES ASSUME Next, NEW h \in Hosts, NEW w \in Places, rows'[h][w] # rows[h][w]
               PROVE  rows'[h][w].login = device[h].login
    BY <1>1
  <2>1. rows \in [Pdus -> [Places -> Access \cup {Nil}]] /\ h \in Pdus
    BY <1>1 DEF BatchInv, TypeOK, Pdus
  <2>2. PICK p \in Pdus : Step(p)
    BY DEF Next, Complete
  <2>3. \/ ConnectHost(p) \/ Store(p) \/ StoreSlave(p)
    BY <2>2 DEF Step, Take, Die, ConnectMaster, Error, Apply, ApplyViaMaster, Reboot, Verify, VerifyPort
  <2>4. CASE ConnectHost(p)
    BY <2>1, <2>4 DEF ConnectHost, AccessOf
  <2>5. CASE Store(p)
    <3>1. PICK slaves \in SUBSET ChainRows(p) : rows' = SyncedRows(p, slaves)
      BY <2>5 DEF Store
    <3>2. p \in Hosts /\ At("store", p) /\ (template.users => Accepts(p))
      BY <2>5 DEF Store
    <3>3. h = p
      BY <2>1, <3>1, ChainAssumption DEF SyncedRows, ChainRows
    <3>4. rows'[p] = [rows[p] EXCEPT ![Target] = FinalAccess]
      BY <3>1 DEF SyncedRows
    <3>5. rows'[h][w] = FinalAccess
      BY <2>1, <3>3, <3>4
    <3>6. AccessOf(p) = FinalAccess
      BY <1>1, <3>2, StoredAccepted
    <3> QED
      BY <3>3, <3>5, <3>6 DEF AccessOf
  <2>6. CASE StoreSlave(p)
    BY <2>1, <2>6, ChainAssumption DEF StoreSlave
  <2> QED
    BY <2>3, <2>4, <2>5, <2>6
<1> QED
  BY <1>1, BatchInvAlways, PTL DEF Spec, OnlyWorkingLoginStored
=============================================================================
