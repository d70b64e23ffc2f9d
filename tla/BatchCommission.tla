-------------------------- MODULE BatchCommission --------------------------
(***************************************************************************)
(* A batch commissioning job (src/backend/app.py, _run_batch_commission):  *)
(* it takes its PDUs one after the other, logs in, stores the working      *)
(* login, writes the template to the device, reboots it, verifies it, and  *)
(* writes the row the poller will use.  The slaves of a daisy chain have   *)
(* no address of their own and are commissioned through their master.      *)
(*                                                                         *)
(* A device is abstracted to what decides who can log in to it: its login, *)
(* its protocol and its address, the latter two as running and as written  *)
(* for the next reboot.  Ports follow the protocol.  Any exchange with a   *)
(* device and any access to the database may fail.  The sequence numbers   *)
(* of names and addresses, the sections without an effect on access, and   *)
(* what the holds keep away are left out.                                  *)
(***************************************************************************)
EXTENDS Naturals, FiniteSets

CONSTANTS
  Hosts,     \* standalone PDUs and masters
  Slaves,
  MasterOf,  \* the master of each slave
  Nil

ASSUME ChainAssumption ==
  /\ Hosts \cap Slaves = {} /\ MasterOf \in [Slaves -> Hosts]
  /\ IsFiniteSet(Hosts) /\ IsFiniteSet(Slaves)

Pdus == Hosts \cup Slaves

VARIABLES
  template,   \* the sections the job applies
  device,     \* the devices
  rows,       \* the PDU rows, by PDU and its present or new address
  todo,       \* the PDUs of the job not yet taken
  unreadable, \* those whose entry in the request the job cannot read
  current,    \* what is being done, to which PDU, and over which connection
  cache,      \* master_apply_cache
  status,     \* the step the job reports of each PDU
  completed   \* how many PDUs the job reports as handled

vars == <<template, device, rows, todo, unreadable, current, cache, status, completed>>

-----------------------------------------------------------------------------
(* "old" is the login the template says the devices have, "new" the one it  *)
(* gives them.                                                              *)
Logins == {"old", "new", "other"}
Places == {"present", "new"}
Access == [login : Logins, https : BOOLEAN]
Cached == [access : Access, rebooted : BOOLEAN]
Template == [users : BOOLEAN, snmp : BOOLEAN, web : BOOLEAN, net : BOOLEAN]
Device == [login : Logins, https : BOOLEAN, place : Places, nextHttps : BOOLEAN, nextPlace : Places]
Pcs == {"idle", "connect", "apply", "reboot", "verify", "store", "completed", "died"}

Failures == {"error", "snmp_failed", "users_failed", "reboot_failed", "verify_https_failed",
             "reboot_timeout", "credentials_verify_failed"}
Ended == Failures \cup {"done"}

ASSUME NilAssumption == Nil \notin Pdus \cup Access \cup Cached

(* The types of the variables. *)
TypeOK ==
  /\ template \in Template
  /\ device \in [Hosts -> Device]
  /\ rows \in [Pdus -> [Places -> Access \cup {Nil}]]
  /\ todo \subseteq Pdus /\ unreadable \subseteq Pdus
  /\ current \in [pc : Pcs, pdu : Pdus \cup {Nil}, conn : Access \cup {Nil}]
  /\ cache \in [Hosts -> Cached \cup {Nil}]
  /\ status \in [Pdus -> {"none", "working"} \cup Ended]
  /\ completed \in 0 .. 2 * Cardinality(Pdus)

(* A protocol may wait for a reboot from an earlier job; rows come from     *)
(* earlier jobs and from forms.  The job never reads what a slave's holds.  *)
FirstDevices ==
  {d \in Device : /\ d.login # "new" /\ d.place = "present" /\ d.nextPlace = "present"
                  /\ d.https => d.nextHttps}
FirstRows ==
  {r \in [Places -> {Nil} \cup [login : {"old", "other"}, https : {FALSE}]] : r["new"] = Nil}

Init ==
  /\ template \in Template
  /\ device \in [Hosts -> FirstDevices]
  /\ rows \in [Pdus -> FirstRows]
  /\ \A s \in Slaves : rows[s]["present"] # Nil => rows[s]["present"].login = "old"
  /\ todo \in SUBSET Pdus /\ todo # {} /\ unreadable \in SUBSET todo
  /\ current = [pc |-> "idle", pdu |-> Nil, conn |-> Nil]
  /\ cache = [h \in Hosts |-> Nil]
  /\ status = [p \in Pdus |-> "none"]
  /\ completed = 0

Host(p) == IF p \in Slaves THEN MasterOf[p] ELSE p
Target == IF template.net THEN "new" ELSE "present"
AccessOf(h) == [login |-> device[h].login, https |-> device[h].https]

(* The login and protocol the row of a host gets in the end, and the device *)
(* must accept; web_access turns to HTTPS what was not.                     *)
FinalAccess == [login |-> IF template.users THEN "new" ELSE current.conn.login,
                https |-> current.conn.https \/ template.web]

-----------------------------------------------------------------------------
At(pc, p) == current.pc = pc /\ current.pdu = p
Go(pc) == current' = [current EXCEPT !.pc = pc]

(* Mutant: a PDU whose reboot failed is not counted.                        *)
EndUncounted(p, step) ==
  /\ status' = [status EXCEPT ![p] = step]
  /\ current' = [pc |-> "idle", pdu |-> Nil, conn |-> Nil]
  /\ completed' = IF step = "reboot_failed" THEN completed ELSE completed + 1

(* The job reports how it ended with a PDU and goes on to the next one.     *)
EndPdu(p, step) ==
  /\ status' = [status EXCEPT ![p] = step]
  /\ current' = [pc |-> "idle", pdu |-> Nil, conn |-> Nil]
  /\ completed' = completed + 1

(* An end while the sessions of the PDU are held.  It is counted before     *)
(* they are released; the release reads the row of the PDU, and when that   *)
(* raises, the handler of the PDU reports an error and counts it again.     *)
EndTwice(p) ==
  /\ status' = [status EXCEPT ![p] = "error"]
  /\ current' = [pc |-> "idle", pdu |-> Nil, conn |-> Nil]
  /\ completed' = completed + 2

EndHeld(p, step) == EndPdu(p, step) \/ EndTwice(p)

Stay == UNCHANGED <<status, completed>>

Take(p) ==
  /\ current.pc = "idle" /\ p \in todo \ unreadable
  /\ todo' = todo \ {p}
  /\ current' = [pc |-> "connect", pdu |-> p, conn |-> Nil]
  /\ status' = [status EXCEPT ![p] = "working"]
  /\ UNCHANGED <<template, device, rows, cache, unreadable, completed>>

(* The port of an entry is no number, say: what is read before the PDU's    *)
(* own handler ends the thread, and the job stays "running".                *)
Die(p) ==
  /\ current.pc = "idle" /\ p \in todo \cap unreadable
  /\ Go("died")
  /\ UNCHANGED <<template, device, rows, todo, unreadable, cache>> /\ Stay

(* _batch_credential_candidates: the template's login, then the row's.      *)
Candidates(h) ==
  {"old"} \cup {r.login : r \in {rows[h]["present"]} \ {Nil}}

CanConnect(h) == device[h].place = "present" /\ device[h].login \in Candidates(h)

(* Mutant: the login of the template is stored, whichever one worked.       *)
ConnectStoresTemplate(p) ==
  /\ At("connect", p) /\ p \in Hosts /\ CanConnect(p)
  /\ current' = [current EXCEPT !.pc = "apply", !.conn = AccessOf(p)]
  /\ rows' = [rows EXCEPT ![p]["present"] = [login |-> "old", https |-> device[p].https]]
  /\ UNCHANGED <<template, device, todo, unreadable, cache>> /\ Stay

(* A host: log in, and store at once what worked.                           *)
ConnectHost(p) ==
  /\ At("connect", p) /\ p \in Hosts /\ CanConnect(p)
  /\ current' = [current EXCEPT !.pc = "apply", !.conn = AccessOf(p)]
  /\ rows' = [rows EXCEPT ![p]["present"] = AccessOf(p)]
  /\ UNCHANGED <<template, device, todo, unreadable, cache>> /\ Stay

(* A slave: its master is not asked twice in one job.                       *)
ConnectMaster(p) ==
  /\ At("connect", p) /\ p \in Slaves
  /\ \/ cache[Host(p)] # Nil /\ Go("store")
     \/ /\ cache[Host(p)] = Nil /\ CanConnect(Host(p))
        /\ current' = [current EXCEPT !.pc = "apply", !.conn = AccessOf(Host(p))]
  /\ UNCHANGED <<template, device, rows, todo, unreadable, cache>> /\ Stay

(* No login works, or an exception reaches the handler of the PDU.          *)
Error(p) ==
  /\ current.pc \in {"connect", "apply", "reboot", "verify", "store"} /\ current.pdu = p
  /\ EndPdu(p, "error")
  /\ UNCHANGED <<template, device, rows, todo, unreadable, cache>>

-----------------------------------------------------------------------------
(* apply_batch_template: every section is written, each may fail, and what  *)
(* a section reports need not be what the device did.                       *)
WriteLogin(h) ==
  \/ template.users /\ device' = [device EXCEPT ![h].login = "new"]
  \/ UNCHANGED device

WriteSections(h) ==
  \E users, web, net \in BOOLEAN :
    /\ users => template.users
    /\ web => template.web /\ ~device[h].https
    /\ net => template.net
    /\ device' = [device EXCEPT ![h].login = IF users THEN "new" ELSE @,
                                ![h].nextHttps = @ \/ web,
                                ![h].nextPlace = IF net THEN "new" ELSE @]

(* The template needs a reboot; over HTTPS only the network section does    *)
(* when web_access is in it.                                                *)
NeedsReboot ==
  template.net \/ (~(template.web /\ current.conn.https) /\ (template.web \/ template.snmp))

Remember(h) == cache' = [cache EXCEPT ![h] = [access |-> current.conn, rebooted |-> FALSE]]

Apply(p) ==
  /\ At("apply", p) /\ p \in Hosts
  /\ WriteSections(p)
  /\ Remember(p)
  /\ \/ template.snmp /\ EndHeld(p, "snmp_failed")
     \/ template.users /\ EndHeld(p, "users_failed")
     \/ Go(IF NeedsReboot THEN "reboot" ELSE "store") /\ Stay
  /\ UNCHANGED <<template, rows, todo, unreadable>>

(* Through the master go SNMP and users; only SNMP is looked at.            *)
ApplyViaMaster(p) ==
  /\ At("apply", p) /\ p \in Slaves
  /\ WriteLogin(Host(p))
  /\ \/ template.snmp /\ EndHeld(p, "snmp_failed") /\ UNCHANGED cache
     \/ Remember(Host(p)) /\ Go("store") /\ Stay
  /\ UNCHANGED <<template, rows, todo, unreadable>>

-----------------------------------------------------------------------------
(* A reboot makes the written settings the running ones.                    *)
Rebooted(h) ==
  device' = [device EXCEPT ![h].https = device[h].nextHttps, ![h].place = device[h].nextPlace]

Reboot(p) ==
  /\ At("reboot", p)
  /\ \/ Rebooted(p) /\ Go("verify") /\ Stay
     \/ (Rebooted(p) \/ UNCHANGED device) /\ EndHeld(p, "reboot_failed")
  /\ UNCHANGED <<template, rows, todo, unreadable, cache>>

(* Wait for the device where it should now be: by logging in when HTTPS was *)
(* asked for, otherwise by connecting to the port.                          *)
VerifyWeb == template.web /\ ~current.conn.https

Verify(p) ==
  /\ At("verify", p) /\ VerifyWeb
  /\ \/ /\ device[p].place = Target /\ device[p].https /\ device[p].login = FinalAccess.login
        /\ Go("store") /\ Stay
     \/ EndHeld(p, "verify_https_failed")
  /\ UNCHANGED <<template, device, rows, todo, unreadable, cache>>

VerifyPort(p) ==
  /\ At("verify", p) /\ ~VerifyWeb
  /\ \/ device[p].place = Target /\ device[p].https = current.conn.https /\ Go("store") /\ Stay
     \/ EndHeld(p, "reboot_timeout")
  /\ UNCHANGED <<template, device, rows, todo, unreadable, cache>>

-----------------------------------------------------------------------------
(* _sync_chain_slave_snmp: the rows of the slaves it finds by their names.  *)
SyncedRows(p, slaves) ==
  [q \in Pdus |->
     IF q = p THEN [rows[p] EXCEPT ![Target] = FinalAccess]
     ELSE IF q \in slaves THEN [rows[q] EXCEPT !["present"] = FinalAccess]
     ELSE rows[q]]

ChainRows(p) == {s \in Slaves : MasterOf[s] = p /\ rows[s]["present"] # Nil}

(* Mutant: a new login is stored without trying it.                         *)
AcceptsUntried(p) == TRUE
Accepts(p) == device[p].place = Target /\ AccessOf(p) = FinalAccess

(* A new login is tried before it is stored.  What is written after the row *)
(* may fail.                                                                *)
Store(p) ==
  /\ At("store", p) /\ p \in Hosts
  /\ \/ /\ template.users => Accepts(p)
        /\ \E slaves \in SUBSET ChainRows(p) :
             /\ slaves # {} => template.snmp
             /\ rows' = SyncedRows(p, slaves)
        /\ EndPdu(p, "done") \/ EndPdu(p, "error")
     \/ template.users /\ UNCHANGED rows /\ EndPdu(p, "credentials_verify_failed")
  /\ UNCHANGED <<template, device, todo, unreadable, cache>>

(* A slave's row gets the login its master was reached with; SNMP makes the *)
(* slave reboot the master, unless a slave already did, if the master still *)
(* answers there.  What follows the row, the release of the sessions        *)
(* included, may fail before the PDU is counted.                            *)
StoreSlave(p) ==
  /\ At("store", p) /\ p \in Slaves
  /\ rows' = [rows EXCEPT ![p]["present"] = cache[Host(p)].access]
  /\ \/ /\ template.snmp /\ ~cache[Host(p)].rebooted
        /\ device[Host(p)].place = "present" /\ device[Host(p)].https = cache[Host(p)].access.https
        /\ Rebooted(Host(p))
        /\ \E ok \in BOOLEAN : cache' = [cache EXCEPT ![Host(p)].rebooted = ok]
     \/ UNCHANGED <<device, cache>>
  /\ EndPdu(p, "done") \/ EndPdu(p, "error")
  /\ UNCHANGED <<template, todo, unreadable>>

Complete ==
  /\ current.pc = "idle" /\ todo = {}
  /\ Go("completed")
  /\ UNCHANGED <<template, device, rows, todo, unreadable, cache, status, completed>>

Step(p) ==
  \/ Take(p) \/ Die(p) \/ ConnectHost(p) \/ ConnectMaster(p) \/ Error(p) \/ Apply(p) \/ ApplyViaMaster(p)
  \/ Reboot(p) \/ Verify(p) \/ VerifyPort(p) \/ Store(p) \/ StoreSlave(p)

Next == Complete \/ \E p \in Pdus : Step(p)

(* The job's thread keeps running, and every exchange with a device ends by *)
(* its timeout.                                                             *)
Spec == Init /\ [][Next]_vars
FairSpec == Spec /\ WF_vars(Next)

-----------------------------------------------------------------------------
(* A host the job reports as done can be polled: its row at the address it  *)
(* now has holds a login and protocol it accepts.  The same of a slave,     *)
(* whose row goes to its master, when the job gives no new login.           *)
DoneAccepted ==
  \A p \in Pdus : status[p] = "done" =>
    LET h == Host(p) IN
    \/ p \in Hosts /\ rows[p][device[h].place] = AccessOf(h)
    \/ p \in Slaves /\ (template.users \/ rows[p]["present"].login = device[h].login)

(* "Avoids storing a username the device rejects": no write of the job puts *)
(* a login into a host's row that the device does not accept then.          *)
OnlyWorkingLoginStored ==
  [][\A p \in Hosts, w \in Places :
       rows'[p][w] # rows[p][w] => rows'[p][w].login = device[p].login]_vars

EndedPdus == {p \in Pdus : status[p] \in Ended}
Erred == {p \in Pdus : status[p] = "error"}

(* The job's thread ends, whichever step fails, and leaves no PDU half      *)
(* reported: it has been through all of its PDUs, or was stopped by one     *)
(* whose entry it cannot read; no outcome is uncounted, and only a PDU      *)
(* reported with an error may count twice.                                  *)
JobReported ==
  <>[](/\ \/ current.pc = "completed" /\ todo = {}
          \/ current.pc = "died" /\ todo \cap unreadable # {}
       /\ \A p \in Pdus : status[p] # "working"
       /\ Cardinality(EndedPdus) <= completed
       /\ completed <= Cardinality(EndedPdus) + Cardinality(Erred))

=============================================================================
