---------------------------- MODULE FactoryRestore ----------------------------
(***************************************************************************)
(* The life of the device between power-on and power-off: counting quick   *)
(* reboots and restoring the factory settings (factory_restore.c), keeping *)
(* the Wi-Fi network (conn_mgr.c), and reporting the reset to the cloud    *)
(* (awss_dev_reset.c).  What the three share is the key-value store in     *)
(* flash, which outlives a power failure between any two of its writes.    *)
(***************************************************************************)
EXTENDS Naturals

CONSTANTS
  MaxTimes,      \* FACTORY_QUICK_REBOOT_MAX_TIMES
  Ssids,         \* the Wi-Fi networks around
  Password,      \* the password of each, None of an open one
  None,
  MaxPowerCuts,  \* bound: how often the power fails
  MaxSwitches,   \* bound: how often the cloud asks for another access point
  MaxLosses      \* bound: reports and replies that go astray, and disconnections

ASSUME RestoreAssumption ==
  /\ MaxTimes \in Nat \ {0} /\ MaxPowerCuts \in Nat /\ MaxSwitches \in Nat /\ MaxLosses \in Nat
  /\ None \notin Ssids
  /\ DOMAIN Password = Ssids

VARIABLES
  kv,            \* flash: "q_rt", the stored SSID and password, "awss.rst"
  pc,            \* how far the boot and the connection have come
  clear_timer,   \* the timer "factory_clear" is running
  wifi,          \* the station configuration in RAM
  rebooting,     \* a switch to another access point ends in HAL_Reboot
  report_timer,  \* report_reset_timer
  suc,           \* awss_report_reset_suc
  report, reply, \* a reset report, or its reply, is on its way
  cuts, switches, losses,
  streak,        \* history: boots in a row that did not outlive their clear_timer
  owed           \* history: the network was erased and the cloud does not know

vars == <<kv, pc, clear_timer, wifi, rebooting, report_timer, suc, report, reply, cuts,
          switches, losses,
          streak, owed>>

NoWifi == [ssid |-> None, password |-> None]
Passwords == {Password[s] : s \in Ssids} \cup {None}
KvStore == [q_rt : Nat, ssid : Ssids \cup {None}, password : Passwords, rst : BOOLEAN]

Init ==
  /\ kv = [q_rt |-> 0, ssid |-> None, password |-> None, rst |-> FALSE]
  /\ pc = "off" /\ clear_timer = FALSE
  /\ wifi = NoWifi /\ rebooting = FALSE
  /\ report_timer = "none" /\ suc = FALSE
  /\ report = FALSE /\ reply = FALSE
  /\ cuts = 0 /\ switches = 0 /\ losses = 0
  /\ streak = 0 /\ owed = FALSE

-----------------------------------------------------------------------------
(* Power                                                                   *)

\* factory_restore_init: the timer runs before the boot is counted.
PowerOn ==
  /\ pc = "off"
  /\ pc' = "count" /\ clear_timer' = TRUE
  /\ streak' = streak + 1
  /\ UNCHANGED <<kv, wifi, rebooting, report_timer, suc, report, reply, cuts, switches,
                 losses, owed>>

\* RAM is lost, and the MQTT connection with what is on its way.
GoesDown ==
  /\ pc # "off" /\ pc' = "off"
  /\ clear_timer' = FALSE /\ wifi' = NoWifi /\ rebooting' = FALSE
  /\ report_timer' = "none" /\ suc' = FALSE
  /\ report' = FALSE /\ reply' = FALSE
  /\ UNCHANGED <<kv, switches, losses, streak, owed>>

PowerCut == GoesDown /\ cuts < MaxPowerCuts /\ cuts' = cuts + 1
\* awss_reboot_system: a second after the switch, whether or not it worked.
Reboot == GoesDown /\ rebooting /\ UNCHANGED cuts

-----------------------------------------------------------------------------
(* factory_restore_handle: every step is one write to flash.               *)

Booting == {"count", "flag", "forget", "erase_ssid", "erase_password"}
BootStep(from, to) ==
  /\ pc = from /\ pc' = to
  /\ UNCHANGED <<clear_timer, wifi, rebooting, report_timer, suc, report, reply, cuts,
                 switches, losses, streak>>

CountBoot ==
  /\ kv' = [kv EXCEPT !.q_rt = @ + 1]
  /\ BootStep("count", IF kv'.q_rt >= MaxTimes THEN "flag" ELSE "start")
  /\ UNCHANGED owed

\* Fault: the flag is not written.
SetResetFlagSkipped == BootStep("flag", "forget") /\ UNCHANGED <<kv, owed>>
SetResetFlag ==
  /\ BootStep("flag", "forget")
  /\ kv' = [kv EXCEPT !.rst = TRUE]
  /\ UNCHANGED owed

ForgetCount ==
  /\ BootStep("forget", "erase_ssid")
  /\ kv' = [kv EXCEPT !.q_rt = 0]
  /\ UNCHANGED owed

\* conn_mgr_reset_wifi_config
EraseSsid ==
  /\ BootStep("erase_ssid", "erase_password")
  /\ kv' = [kv EXCEPT !.ssid = None]
  /\ owed' = (owed \/ kv.ssid # None)
ErasePassword ==
  /\ BootStep("erase_password", "start")
  /\ kv' = [kv EXCEPT !.password = None]
  /\ UNCHANGED owed

\* Fault: the record of quick reboots stays.
ClearTimerKeepsCount ==
  /\ clear_timer /\ pc \notin Booting
  /\ clear_timer' = FALSE
  /\ streak' = 0
  /\ UNCHANGED <<kv, pc, wifi, rebooting, report_timer, suc, report, reply, cuts, switches,
                 losses, owed>>
\* factory_restore_timer_handler; its seconds are longer than the boot.
ClearTimer ==
  /\ clear_timer /\ pc \notin Booting
  /\ clear_timer' = FALSE
  /\ kv' = [kv EXCEPT !.q_rt = 0]
  /\ streak' = 0
  /\ UNCHANGED <<pc, wifi, rebooting, report_timer, suc, report, reply, cuts, switches,
                 losses, owed>>

-----------------------------------------------------------------------------
(* The connection manager                                                  *)

WifiStep(from, to) ==
  /\ pc = from /\ pc' = to
  /\ UNCHANGED <<clear_timer, report_timer, suc, report, reply, cuts, losses, streak, owed>>

\* conn_mgr_start: a stored SSID is joined, without one provisioning starts.
ConnMgrStart ==
  /\ WifiStep("start", IF kv.ssid = None THEN "awss" ELSE "connecting")
  /\ wifi' = IF kv.ssid = None THEN NoWifi ELSE [ssid |-> kv.ssid, password |-> kv.password]
  /\ UNCHANGED <<kv, rebooting, switches>>

\* HAL_Awss_Connect_Ap with what the provisioning received.
Provision(s) ==
  /\ WifiStep("awss", "connecting")
  /\ wifi' = [ssid |-> s, password |-> Password[s]]
  /\ UNCHANGED <<kv, rebooting, switches>>

\* An open network may take a station that has a password, or not.
GotIp ==
  /\ WifiStep("connecting", "save_ssid")
  /\ Password[wifi.ssid] \in {wifi.password, None}
  /\ UNCHANGED <<kv, wifi, rebooting, switches>>

\* conn_mgr_save_wifi_config: two writes, the second only if there is a password.
SaveSsid ==
  /\ WifiStep("save_ssid", "save_password")
  /\ kv' = [kv EXCEPT !.ssid = wifi.ssid]
  /\ UNCHANGED <<wifi, rebooting, switches>>
\* Fault: the SSID is stored under the key of the password.
SavePasswordSwapped ==
  /\ WifiStep("save_password", "joined")
  /\ kv' = IF wifi.password = None THEN kv ELSE [kv EXCEPT !.password = wifi.ssid]
  /\ UNCHANGED <<wifi, rebooting, switches>>
SavePassword ==
  /\ WifiStep("save_password", "joined")
  /\ kv' = IF wifi.password = None THEN kv ELSE [kv EXCEPT !.password = wifi.password]
  /\ UNCHANGED <<wifi, rebooting, switches>>

\* awss_switch_ap_online, asked for by the cloud.
SwitchAp(s) ==
  /\ WifiStep("online", "connecting")
  /\ s # wifi.ssid
  /\ switches < MaxSwitches /\ switches' = switches + 1
  /\ wifi' = [ssid |-> s, password |-> Password[s]]
  /\ rebooting' = TRUE
  /\ UNCHANGED kv

-----------------------------------------------------------------------------
(* Reporting the reset                                                     *)

\* Fault: the timer is armed only for a report that was sent.
AttemptOnce ==
  \/ report_timer' = "armed" /\ report' = TRUE /\ UNCHANGED losses
  \/ losses < MaxLosses /\ losses' = losses + 1 /\ report_timer' = "none" /\ UNCHANGED report
\* awss_report_reset_to_cloud arms the timer first; then the subscription or the
\* publication may fail.
Attempt ==
  /\ report_timer' = "armed"
  /\ \/ report' = TRUE /\ UNCHANGED losses
     \/ losses < MaxLosses /\ losses' = losses + 1 /\ UNCHANGED report

\* awss_check_reset, at each connection to the cloud.
CloudConnected ==
  /\ pc = "joined" /\ pc' = "online"
  /\ IF kv.rst THEN suc' = FALSE /\ Attempt ELSE UNCHANGED <<suc, report_timer, report, losses>>
  /\ UNCHANGED <<kv, clear_timer, wifi, rebooting, reply, cuts, switches, streak, owed>>

CloudDisconnected ==
  /\ pc = "online" /\ pc' = "joined"
  /\ losses < MaxLosses /\ losses' = losses + 1
  /\ report' = FALSE /\ reply' = FALSE
  /\ UNCHANGED <<kv, clear_timer, wifi, rebooting, report_timer, suc, cuts, switches, streak,
                 owed>>

ReportTimer ==
  /\ pc = "online" /\ report_timer = "armed"
  /\ IF suc THEN report_timer' = "expired" /\ UNCHANGED <<report, losses>> ELSE Attempt
  /\ UNCHANGED <<kv, pc, clear_timer, wifi, rebooting, suc, reply, cuts, switches, streak,
                 owed>>

CloudHears ==
  /\ report
  /\ report' = FALSE /\ owed' = FALSE
  /\ \/ reply' = TRUE /\ UNCHANGED losses
     \/ losses < MaxLosses /\ losses' = losses + 1 /\ UNCHANGED reply
  /\ UNCHANGED <<kv, pc, clear_timer, wifi, rebooting, report_timer, suc, cuts, switches,
                 streak>>

ReportLost ==
  /\ report /\ report' = FALSE
  /\ losses < MaxLosses /\ losses' = losses + 1
  /\ UNCHANGED <<kv, pc, clear_timer, wifi, rebooting, report_timer, suc, reply, cuts,
                 switches, streak,
                 owed>>

\* awss_report_reset_reply
ReadReply ==
  /\ pc = "online" /\ reply /\ reply' = FALSE
  /\ suc' = TRUE
  /\ kv' = [kv EXCEPT !.rst = FALSE]
  /\ report_timer' = "none"
  /\ UNCHANGED <<pc, clear_timer, wifi, rebooting, report, cuts, switches, losses, streak,
                 owed>>

-----------------------------------------------------------------------------
Restore == CountBoot \/ SetResetFlag \/ ForgetCount \/ EraseSsid \/ ErasePassword \/ ClearTimer
ConnMgr ==
  \/ ConnMgrStart \/ GotIp \/ SaveSsid \/ SavePassword
  \/ \E s \in Ssids : Provision(s) \/ SwitchAp(s)
ResetReport == CloudConnected \/ ReportTimer \/ ReadReply
Cloud == CloudDisconnected \/ CloudHears \/ ReportLost

Next == PowerOn \/ PowerCut \/ Reboot \/ Restore \/ ConnMgr \/ ResetReport \/ Cloud

\* The device runs, and so do its timers and the cloud.
Fairness ==
  /\ WF_vars(PowerOn) /\ WF_vars(Reboot)
  /\ WF_vars(CloudConnected) /\ WF_vars(ReportTimer) /\ WF_vars(ReadReply)
  /\ WF_vars(CloudHears)
Spec == Init /\ [][Next]_vars
FairSpec == Spec /\ Fairness

-----------------------------------------------------------------------------
(* Properties.                                                             *)

TypeOK ==
  /\ kv \in KvStore
  /\ pc \in Booting \cup {"off", "start", "awss", "connecting", "save_ssid", "save_password",
                        "joined", "online"}
  /\ clear_timer \in BOOLEAN /\ rebooting \in BOOLEAN /\ suc \in BOOLEAN
  /\ wifi \in [ssid : Ssids \cup {None}, password : Passwords]
  /\ report_timer \in {"none", "armed", "expired"}
  /\ report \in BOOLEAN /\ reply \in BOOLEAN
  /\ cuts \in Nat /\ switches \in Nat /\ losses \in Nat /\ streak \in Nat
  /\ owed \in BOOLEAN

\* A network erased by a factory restore is known to the cloud, or the flag that will
\* make the device report it is in flash, whenever the power failed and whichever
\* reports and replies went astray.
ErasedIsReported == owed => kv.rst

\* The network is erased only after MaxTimes boots in a row that did not outlive the
\* timer: a boot that did takes its predecessors off the record.
EraseNeedsQuickReboots == pc \in {"flag", "forget"} => streak >= MaxTimes

\* A device that is online with the flag set keeps reporting until the cloud has
\* answered, unless it goes down first.
ResetIsReported == (pc = "online" /\ kv.rst) ~> (~kv.rst \/ pc # "online")
=============================================================================
