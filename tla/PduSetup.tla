------------------------------ MODULE PduSetup ------------------------------
(***************************************************************************)
(* One PDU is found, configured and commissioned with the wizard           *)
(* (src/frontend/src/components/CommissioningWizard.jsx): the tabs that     *)
(* look for it, the settings that are written to it, and the final step     *)
(* that moves it to its address, reboots it and saves it to the hall.       *)
(*                                                                          *)
(* A handler runs until its first request and goes on with the answer, with *)
(* the values it read when it began: they are the fields of task.  The      *)
(* PDUs and the server are what src/ uses of them.                          *)
(***************************************************************************)
EXTENDS WizardShell

CONSTANTS
  Addr,       \* addresses
  WebAdmin,   \* those where a PDU with a web console answers
  Found       \* what a scan of the subnet may find

ASSUME AddrAssumption == WebAdmin \subseteq Addr /\ \A as \in Found : as \subseteq Addr

VARIABLES
  detected,   \* detectedDevice: its address, or Blank for one without
  found,      \* subnetDevices
  remote,     \* isRemoteMode
  host,       \* remoteHost
  settings,   \* remoteSettings: the address they were read at
  edit,       \* editNetwork.ip
  chosen,     \* the production address without a console: suggested or custom
  reboot,     \* rebootStatus
  pings,      \* the loops of pings under way, which nothing cancels
  task,       \* the request under way
  commissioned,
  told,       \* the final step made the PDU at the first address take the second
  row         \* what the final step saved to the hall

setupVars == <<detected, found, remote, host, settings, edit, chosen, reboot, pings, task,
               commissioned, told, row>>

Blank == "blank"
MaxPings == 1    \* a bound of the model

NoTask == [kind |-> "none"]
Row == [remote : BOOLEAN, live : Addr, final : Addr]

SetupInit ==
  /\ detected = None /\ found = {} /\ remote = FALSE
  /\ host = None /\ settings = None /\ edit = None /\ chosen = None
  /\ reboot = "none" /\ pings = 0 /\ task = NoTask
  /\ commissioned = FALSE /\ told = None /\ row = None

-----------------------------------------------------------------------------
(* Step 1, the device.                                                      *)

(* The tabs: what an earlier one found is forgotten, the request it has     *)
(* under way is not.                                                        *)
Tab(m) ==
  /\ step = 0
  /\ mode' = m
  /\ detected' = None /\ found' = {} /\ remote' = FALSE /\ settings' = None
  /\ UNCHANGED <<step, loading, host, edit, chosen, reboot, pings, task, commissioned,
                 told, row>>

(* One request at a time: a second one, begun after a late poll of a batch   *)
(* has enabled the buttons, is left out.                                    *)
Begin(t) == ~loading /\ task = NoTask /\ loading' = TRUE /\ task' = t
End == loading' = FALSE /\ task' = NoTask

(* The forms of the two tabs that look at one address. *)
FactoryForm == OnTab("factory") /\ ~loading
ManualForm == OnTab("manual") /\ ~loading

(* scanFactory, scanManual *)
ScanFactory(a) ==
  /\ FactoryForm
  /\ Begin([kind |-> "scan", at |-> a])
  /\ detected' = None
  /\ UNCHANGED <<step, mode, found, remote, host, settings, edit, chosen, reboot, pings,
                 commissioned, told, row>>
ScanManual(a) ==
  /\ ManualForm
  /\ Begin([kind |-> "scan", at |-> a])
  /\ detected' = None
  /\ UNCHANGED <<step, mode, found, remote, host, settings, edit, chosen, reboot, pings,
                 commissioned, told, row>>

(* A device answers; if it has a console the wizard logs in to it, otherwise *)
(* the scan is over.  The console of an earlier scan stays.                 *)
ScanFound ==
  /\ task.kind = "scan"
  /\ detected' = task.at
  /\ IF task.at \in WebAdmin
     THEN task' = [kind |-> "login", at |-> task.at] /\ UNCHANGED loading
     ELSE End
  /\ UNCHANGED <<step, mode, found, remote, host, settings, edit, chosen, reboot, pings,
                 commissioned, told, row>>

(* The device is rebuilt from the one shown, of which a tab may have left    *)
(* nothing.                                                                 *)
LoggedIn ==
  /\ task.kind = "login"
  /\ remote' = TRUE /\ host' = task.at /\ settings' = task.at
  /\ detected' = IF detected = None THEN Blank ELSE detected
  /\ End
  /\ edit' = IF step = 1 THEN task.at ELSE edit
  /\ UNCHANGED <<step, mode, found, chosen, reboot, pings, commissioned, told, row>>

(* A request fails, or its answer is lost, and nothing is shown of it. *)
Failed(kinds) ==
  /\ task.kind \in kinds
  /\ End
  /\ UNCHANGED <<step, mode, detected, found, remote, host, settings, edit, chosen, reboot,
                 pings, commissioned, told, row>>

SubnetForm == OnTab("subnet") /\ ~loading

(* scanSubnet *)
ScanSubnet ==
  /\ SubnetForm
  /\ Begin([kind |-> "subnet"])
  /\ found' = {}
  /\ UNCHANGED <<step, mode, detected, remote, host, settings, edit, chosen, reboot, pings,
                 commissioned, told, row>>
SubnetFound(as) ==
  /\ task.kind = "subnet"
  /\ found' = as
  /\ End
  /\ UNCHANGED <<step, mode, detected, remote, host, settings, edit, chosen, reboot, pings,
                 commissioned, told, row>>

(* The list is shown on every tab. *)
FoundList == step = 0 /\ found # {}

(* selectSubnetDevice *)
Select(a) ==
  /\ FoundList /\ a \in found
  /\ detected' = a /\ found' = {}
  /\ UNCHANGED <<step, mode, loading, remote, host, settings, edit, chosen, reboot, pings,
                 task, commissioned, told, row>>

RemoteForm == OnTab("remote") /\ ~loading

(* connectRemotePdu *)
Connect(a) ==
  /\ RemoteForm
  /\ Begin([kind |-> "connect", at |-> a])
  /\ host' = a /\ detected' = None /\ settings' = None
  /\ UNCHANGED <<step, mode, found, remote, edit, chosen, reboot, pings, commissioned, told,
                 row>>
Connected ==
  /\ task.kind = "connect" /\ task.at \in WebAdmin
  /\ remote' = TRUE /\ settings' = task.at /\ detected' = task.at
  /\ End
  /\ edit' = IF step = 1 THEN task.at ELSE edit
  /\ UNCHANGED <<step, mode, found, host, chosen, reboot, pings, commissioned, told, row>>

-----------------------------------------------------------------------------
(* The card of the device, which has to be there to go on; the rack step     *)
(* asks for nothing.  Entering step 2 of 4 fills in the settings that were read.  *)
DeviceCard == step = 0 /\ detected # None
NextEnabled == step < 3 /\ ~commissioned /\ (step = 0 => DeviceCard)
Prefilled(s) == IF s = 1 /\ remote /\ settings # None THEN settings ELSE edit

GoTo(s) ==
  /\ step' = s
  /\ edit' = Prefilled(s)
  /\ UNCHANGED <<mode, loading, detected, found, remote, host, settings, chosen, reboot,
                 pings, task, commissioned, told, row>>
GoNext == HasFooter /\ NextEnabled /\ GoTo(step + 1)
GoBack == HasFooter /\ step > 0 /\ ~commissioned /\ GoTo(step - 1)

(* "Commission Another" *)
Another ==
  /\ commissioned
  /\ step' = 0 /\ detected' = None /\ found' = {} /\ commissioned' = FALSE
  /\ chosen' = None /\ remote' = FALSE /\ settings' = None /\ edit' = None
  /\ reboot' = "none" /\ told' = None /\ row' = None
  /\ UNCHANGED <<mode, loading, host, pings, task>>

-----------------------------------------------------------------------------
(* Step 2, the settings.                                                    *)

(* With a console the address of the PDU is edited, typed or suggested;     *)
(* without, one is chosen for the hall.                                     *)
NetworkForm == step = 1 /\ remote
RebootBanner == NetworkForm /\ reboot = "rebooting"
SettingsForms == NetworkForm /\ ~loading
AddressForm == step = 1 /\ ~remote

EditAddress(a) ==
  /\ NetworkForm
  /\ edit' = a
  /\ UNCHANGED <<step, mode, loading, detected, found, remote, host, settings, chosen, reboot,
                 pings, task, commissioned, told, row>>
ChooseAddress(a) ==
  /\ AddressForm
  /\ chosen' = a
  /\ UNCHANGED <<step, mode, loading, detected, found, remote, host, settings, edit, reboot,
                 pings, task, commissioned, told, row>>

(* applyNetworkSettings, applyWebAccessSettings: the PDU reboots. *)
ApplyNetwork ==
  /\ NetworkForm /\ ~RebootBanner
  /\ Begin([kind |-> "network"])
  /\ reboot' = "none"
  /\ UNCHANGED <<step, mode, detected, found, remote, host, settings, edit, chosen, pings,
                 commissioned, told, row>>
ApplyWebAccess ==
  /\ SettingsForms
  /\ Begin([kind |-> "webaccess"])
  /\ reboot' = "none"
  /\ UNCHANGED <<step, mode, detected, found, remote, host, settings, edit, chosen, pings,
                 commissioned, told, row>>

(* applySnmpSettings, applyTimeSettings *)
ApplySettings(kind) ==
  /\ SettingsForms
  /\ Begin([kind |-> kind])
  /\ UNCHANGED <<step, mode, detected, found, remote, host, settings, edit, chosen, reboot,
                 pings, commissioned, told, row>>

(* The settings were written, and a loop waits for the PDU if it reboots.   *)
Applied(rebooting) ==
  /\ task.kind \in {"network", "webaccess"}
  /\ pings < MaxPings
  /\ End
  /\ reboot' = IF rebooting THEN "rebooting" ELSE reboot
  /\ pings' = IF rebooting THEN pings + 1 ELSE pings
  /\ UNCHANGED <<step, mode, detected, found, remote, host, settings, edit, chosen,
                 commissioned, told, row>>

(* poll: the loop ends, whatever the wizard shows by then. *)
PingEnds(status) ==
  /\ pings > 0
  /\ pings' = pings - 1
  /\ reboot' = status
  /\ UNCHANGED <<step, mode, loading, detected, found, remote, host, settings, edit, chosen,
                 task, commissioned, told, row>>

-----------------------------------------------------------------------------
(* Step 4, handleCommission.  Without a rack the PDU is saved all the same, *)
(* so that step 3 leaves nothing to go wrong.                               *)
LiveIp == IF detected \in {None, Blank} THEN host ELSE detected
FinalIp == IF remote THEN IF edit = None THEN host ELSE edit ELSE chosen

ConfirmStep == step = 3 /\ ~commissioned /\ ~loading

Commission ==
  /\ ConfirmStep
  /\ LiveIp # None /\ FinalIp # None
  /\ told' = None /\ row' = None
  /\ Begin([kind |-> IF remote /\ FinalIp # LiveIp THEN "static" ELSE "save",
            remote |-> remote, live |-> LiveIp, final |-> FinalIp])
  /\ UNCHANGED <<step, mode, detected, found, remote, host, settings, edit, chosen, reboot,
                 pings, commissioned>>

(* Mutant: written is good enough, the reboot may come later. *)
AcceptedAsWritten(taken, rebooting) == taken

(* The static address is written, and the reboot that makes it live began.  *)
Accepted(taken, rebooting) == taken /\ rebooting

StaticAnswered(taken, rebooting) ==
  /\ task.kind = "static"
  /\ told' = IF taken /\ rebooting THEN <<task.live, task.final>> ELSE None
  /\ IF Accepted(taken, rebooting)
     THEN task' = [task EXCEPT !.kind = "save"] /\ UNCHANGED loading
     ELSE End
  /\ UNCHANGED <<step, mode, detected, found, remote, host, settings, edit, chosen, reboot,
                 pings, commissioned, row>>

(* The server has the row whether its answer arrives or not. *)
Saved(arrives) ==
  /\ task.kind = "save"
  /\ row' = [remote |-> task.remote, live |-> task.live, final |-> task.final]
  /\ commissioned' = (commissioned \/ arrives)
  /\ End
  /\ UNCHANGED <<step, mode, detected, found, remote, host, settings, edit, chosen, reboot,
                 pings, told>>

SetupAnswer ==
  \/ ScanFound \/ LoggedIn \/ Connected
  \/ \E as \in Found : SubnetFound(as)
  \/ \E b \in BOOLEAN : Applied(b) \/ Saved(b) \/ \E t \in BOOLEAN : StaticAnswered(t, b)
  \/ Failed({"scan", "login", "subnet", "connect", "network", "webaccess", "snmp", "time",
             "static", "save"})

SetupUser ==
  \/ \E m \in Modes : Tab(m)
  \/ ScanSubnet \/ GoNext \/ GoBack \/ Another \/ ApplyNetwork \/ ApplyWebAccess \/ Commission
  \/ \E k \in {"snmp", "time"} : ApplySettings(k)
  \/ \E a \in Addr : \/ ScanFactory(a) \/ ScanManual(a) \/ Select(a) \/ Connect(a)
                     \/ EditAddress(a) \/ ChooseAddress(a)
-----------------------------------------------------------------------------
(* The types of the variables of the setup. *)
SetupTypeOK ==
  /\ detected \in Addr \cup {None, Blank}
  /\ found \subseteq Addr /\ remote \in BOOLEAN
  /\ {host, settings, edit, chosen} \subseteq Addr \cup {None}
  /\ reboot \in {"none", "rebooting", "online", "failed"} /\ pings \in 0 .. MaxPings
  /\ commissioned \in BOOLEAN
  /\ told \in (Addr \X Addr) \cup {None} /\ row \in Row \cup {None}

(* "push static IP + reboot on the live box, THEN save the hall row": in     *)
(* remote mode, which a login to a console began, a PDU is in the hall under *)
(* another address than it was reached at only after the PDU there took that *)
(* address and began to reboot, whatever was looked for since.  A PDU whose  *)
(* console was found without a login to it is saved untold.                 *)
SavedAfterApplied ==
  row # None /\ row.remote /\ row.final # row.live => told = <<row.live, row.final>>
=============================================================================
