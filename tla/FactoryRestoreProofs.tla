------------------------- MODULE FactoryRestoreProofs -------------------------
(* Proofs about FactoryRestore, for every number of quick reboots, every   *)
(* set of networks and any number of power failures.                       *)
EXTENDS FactoryRestore, TLAPS

\* Next, one action at a time.
LEMMA NextSteps ==
  ASSUME Next
  PROVE  \/ PowerOn \/ PowerCut \/ Reboot
         \/ CountBoot \/ SetResetFlag \/ ForgetCount \/ EraseSsid \/ ErasePassword \/ ClearTimer
         \/ ConnMgrStart \/ GotIp \/ SaveSsid \/ SavePassword
         \/ \E s \in Ssids : Provision(s) \/ SwitchAp(s)
         \/ CloudConnected \/ ReportTimer \/ ReadReply \/ CloudHears \/ ReportLost \/ CloudDisconnected
BY DEF Next, Restore, ConnMgr, ResetReport, Cloud

-----------------------------------------------------------------------------
\* The flags and the rest of TypeOK, which take different provers.
FlagsOK ==
  /\ clear_timer \in BOOLEAN /\ rebooting \in BOOLEAN /\ suc \in BOOLEAN
  /\ report \in BOOLEAN /\ reply \in BOOLEAN
  /\ owed \in BOOLEAN
DataOK ==
  /\ kv \in KvStore
  /\ pc \in Booting \cup {"off", "start", "awss", "connecting", "save_ssid", "save_password",
                        "joined", "online"}
  /\ wifi \in [ssid : Ssids \cup {None}, password : Passwords]
  /\ report_timer \in {"none", "armed", "expired"}
  /\ cuts \in Nat /\ switches \in Nat /\ losses \in Nat /\ streak \in Nat

LEMMA TypeInit == Init => FlagsOK /\ DataOK
<1> SUFFICES ASSUME Init PROVE FlagsOK /\ DataOK
  OBVIOUS
<1>1. FlagsOK BY Zenon DEF Init, FlagsOK
<1>2. DataOK BY RestoreAssumption DEF Init, DataOK, KvStore, Passwords, Booting, NoWifi
<1> QED BY <1>1, <1>2

LEMMA FlagsStep == FlagsOK /\ [Next]_vars => FlagsOK'
<1> SUFFICES ASSUME FlagsOK, [Next]_vars PROVE FlagsOK'
  OBVIOUS
<1> USE DEF FlagsOK
<1>1. CASE PowerOn BY <1>1, Zenon DEF PowerOn
<1>2. CASE PowerCut \/ Reboot BY <1>2, Zenon DEF PowerCut, Reboot, GoesDown
<1>3. CASE CountBoot BY <1>3, Zenon DEF CountBoot, BootStep
<1>4. CASE SetResetFlag BY <1>4, Zenon DEF SetResetFlag, BootStep
<1>5. CASE ForgetCount BY <1>5, Zenon DEF ForgetCount, BootStep
<1>6. CASE EraseSsid BY <1>6, Zenon DEF EraseSsid, BootStep
<1>7. CASE ErasePassword BY <1>7, Zenon DEF ErasePassword, BootStep
<1>8. CASE ClearTimer BY <1>8, Zenon DEF ClearTimer
<1>9. CASE ConnMgrStart BY <1>9, Zenon DEF ConnMgrStart, WifiStep
<1>10. CASE GotIp BY <1>10, Zenon DEF GotIp, WifiStep
<1>11. CASE SaveSsid BY <1>11, Zenon DEF SaveSsid, WifiStep
<1>12. CASE SavePassword BY <1>12, Zenon DEF SavePassword, WifiStep
<1>13. CASE \E s \in Ssids : Provision(s) \/ SwitchAp(s)
  BY <1>13, Zenon DEF Provision, SwitchAp, WifiStep
<1>14. CASE CloudConnected BY <1>14, Zenon DEF CloudConnected, Attempt
<1>15. CASE ReportTimer BY <1>15, Zenon DEF ReportTimer, Attempt
<1>16. CASE ReadReply BY <1>16, Zenon DEF ReadReply
<1>17. CASE CloudHears BY <1>17, Zenon DEF CloudHears
<1>18. CASE ReportLost BY <1>18, Zenon DEF ReportLost
<1>19. CASE CloudDisconnected BY <1>19, Zenon DEF CloudDisconnected
<1>20. CASE UNCHANGED vars BY <1>20, Zenon DEF vars
<1> QED BY <1>1, <1>2, <1>3, <1>4, <1>5, <1>6, <1>7, <1>8, <1>9, <1>10, <1>11,
           <1>12, <1>13, <1>14, <1>15, <1>16, <1>17, <1>18, <1>19, <1>20, NextSteps

LEMMA DataStep == DataOK /\ [Next]_vars => DataOK'
<1> SUFFICES ASSUME DataOK, [Next]_vars PROVE DataOK'
  OBVIOUS
<1> USE RestoreAssumption DEF DataOK, KvStore, Booting, Passwords, NoWifi
<1>1. CASE PowerOn BY <1>1 DEF PowerOn
<1>2. CASE PowerCut \/ Reboot BY <1>2 DEF PowerCut, Reboot, GoesDown
<1>3. CASE CountBoot BY <1>3 DEF CountBoot, BootStep
<1>4. CASE SetResetFlag BY <1>4 DEF SetResetFlag, BootStep
<1>5. CASE ForgetCount BY <1>5 DEF ForgetCount, BootStep
<1>6. CASE EraseSsid BY <1>6 DEF EraseSsid, BootStep
<1>7. CASE ErasePassword BY <1>7 DEF ErasePassword, BootStep
<1>8. CASE ClearTimer BY <1>8 DEF ClearTimer
<1>9. CASE ConnMgrStart BY <1>9 DEF ConnMgrStart, WifiStep
<1>10. CASE GotIp BY <1>10 DEF GotIp, WifiStep
<1>11. CASE SaveSsid BY <1>11 DEF SaveSsid, WifiStep
<1>12. CASE SavePassword BY <1>12 DEF SavePassword, WifiStep
<1>13. CASE \E s \in Ssids : Provision(s) \/ SwitchAp(s)
  BY <1>13 DEF Provision, SwitchAp, WifiStep
<1>14. CASE CloudConnected BY <1>14 DEF CloudConnected, Attempt
<1>15. CASE ReportTimer BY <1>15 DEF ReportTimer, Attempt
<1>16. CASE ReadReply BY <1>16 DEF ReadReply
<1>17. CASE CloudHears BY <1>17 DEF CloudHears
<1>18. CASE ReportLost BY <1>18 DEF ReportLost
<1>19. CASE CloudDisconnected BY <1>19 DEF CloudDisconnected
<1>20. CASE UNCHANGED vars BY <1>20 DEF vars
<1> QED BY <1>1, <1>2, <1>3, <1>4, <1>5, <1>6, <1>7, <1>8, <1>9, <1>10, <1>11,
           <1>12, <1>13, <1>14, <1>15, <1>16, <1>17, <1>18, <1>19, <1>20, NextSteps

\* Every variable keeps to its type.
THEOREM TypeCorrect == Spec => []TypeOK
<1>1. FlagsOK /\ DataOK => TypeOK
  BY DEF FlagsOK, DataOK, TypeOK
<1> QED BY <1>1, TypeInit, FlagsStep, DataStep, PTL DEF Spec

-----------------------------------------------------------------------------
(***************************************************************************)
(* What the cloud must hear of is in flash.  A reply on its way answers a  *)
(* report the cloud has heard, and nothing is on its way while the device  *)
(* boots, which is when it erases; by then the flag has been written.      *)
(***************************************************************************)
ReportInv ==
  /\ owed => kv.rst
  /\ reply => ~owed
  /\ pc \in Booting \cup {"off"} => ~report /\ ~reply
  /\ pc \in {"forget", "erase_ssid"} => kv.rst

LEMMA ReportInit == Init => ReportInv
BY DEF Init, ReportInv, Booting

LEMMA ReportStep == TypeOK /\ ReportInv /\ [Next]_vars => ReportInv'
<1> SUFFICES ASSUME TypeOK, ReportInv, [Next]_vars PROVE ReportInv'
  OBVIOUS
<1> USE RestoreAssumption DEF ReportInv, TypeOK, KvStore, Booting
<1>1. CASE PowerOn BY <1>1 DEF PowerOn
<1>2. CASE PowerCut \/ Reboot BY <1>2 DEF PowerCut, Reboot, GoesDown
<1>3. CASE CountBoot BY <1>3 DEF CountBoot, BootStep
<1>4. CASE SetResetFlag BY <1>4 DEF SetResetFlag, BootStep
<1>5. CASE ForgetCount BY <1>5 DEF ForgetCount, BootStep
<1>6. CASE EraseSsid BY <1>6 DEF EraseSsid, BootStep
<1>7. CASE ErasePassword BY <1>7 DEF ErasePassword, BootStep
<1>8. CASE ClearTimer BY <1>8 DEF ClearTimer
<1>9. CASE ConnMgrStart BY <1>9 DEF ConnMgrStart, WifiStep
<1>10. CASE GotIp BY <1>10 DEF GotIp, WifiStep
<1>11. CASE SaveSsid BY <1>11 DEF SaveSsid, WifiStep
<1>12. CASE SavePassword BY <1>12 DEF SavePassword, WifiStep
<1>13. CASE \E s \in Ssids : Provision(s) \/ SwitchAp(s)
  BY <1>13 DEF Provision, SwitchAp, WifiStep
<1>14. CASE CloudConnected BY <1>14 DEF CloudConnected, Attempt
<1>15. CASE ReportTimer BY <1>15 DEF ReportTimer, Attempt
<1>16. CASE ReadReply BY <1>16 DEF ReadReply
<1>17. CASE CloudHears BY <1>17 DEF CloudHears
<1>18. CASE ReportLost BY <1>18 DEF ReportLost
<1>19. CASE CloudDisconnected BY <1>19 DEF CloudDisconnected
<1>20. CASE UNCHANGED vars BY <1>20 DEF vars
<1> QED BY <1>1, <1>2, <1>3, <1>4, <1>5, <1>6, <1>7, <1>8, <1>9, <1>10, <1>11,
           <1>12, <1>13, <1>14, <1>15, <1>16, <1>17, <1>18, <1>19, <1>20, NextSteps

\* A device whose network was erased by a factory restore keeps the order to report it
\* until the cloud knows, through any power failure.
THEOREM RestoreIsReported == Spec => []ErasedIsReported
<1>1. ReportInv => ErasedIsReported
  BY DEF ReportInv, ErasedIsReported
<1> QED BY <1>1, ReportInit, ReportStep, TypeCorrect, PTL DEF Spec

-----------------------------------------------------------------------------
(***************************************************************************)
(* The count in flash never runs ahead of the boots: the boot that is      *)
(* about to be counted is one more than it.                                *)
(***************************************************************************)
CountInv ==
  /\ kv.q_rt <= streak
  /\ pc = "count" => kv.q_rt < streak
  /\ pc \in {"flag", "forget"} => kv.q_rt >= MaxTimes

LEMMA CountInit == Init => CountInv
BY DEF Init, CountInv

LEMMA CountStep == TypeOK /\ CountInv /\ [Next]_vars => CountInv'
<1> SUFFICES ASSUME TypeOK, CountInv, [Next]_vars PROVE CountInv'
  OBVIOUS
<1> USE RestoreAssumption DEF CountInv, TypeOK, KvStore, Booting
<1>1. CASE PowerOn BY <1>1 DEF PowerOn
<1>2. CASE PowerCut \/ Reboot BY <1>2 DEF PowerCut, Reboot, GoesDown
<1>3. CASE CountBoot BY <1>3 DEF CountBoot, BootStep
<1>4. CASE SetResetFlag BY <1>4 DEF SetResetFlag, BootStep
<1>5. CASE ForgetCount BY <1>5 DEF ForgetCount, BootStep
<1>6. CASE EraseSsid BY <1>6 DEF EraseSsid, BootStep
<1>7. CASE ErasePassword BY <1>7 DEF ErasePassword, BootStep
<1>8. CASE ClearTimer BY <1>8 DEF ClearTimer
<1>9. CASE ConnMgrStart BY <1>9 DEF ConnMgrStart, WifiStep
<1>10. CASE GotIp BY <1>10 DEF GotIp, WifiStep
<1>11. CASE SaveSsid BY <1>11 DEF SaveSsid, WifiStep
<1>12. CASE SavePassword BY <1>12 DEF SavePassword, WifiStep
<1>13. CASE \E s \in Ssids : Provision(s) \/ SwitchAp(s)
  BY <1>13 DEF Provision, SwitchAp, WifiStep
<1>14. CASE CloudConnected BY <1>14 DEF CloudConnected, Attempt
<1>15. CASE ReportTimer BY <1>15 DEF ReportTimer, Attempt
<1>16. CASE ReadReply BY <1>16 DEF ReadReply
<1>17. CASE CloudHears BY <1>17 DEF CloudHears
<1>18. CASE ReportLost BY <1>18 DEF ReportLost
<1>19. CASE CloudDisconnected BY <1>19 DEF CloudDisconnected
<1>20. CASE UNCHANGED vars BY <1>20 DEF vars
<1> QED BY <1>1, <1>2, <1>3, <1>4, <1>5, <1>6, <1>7, <1>8, <1>9, <1>10, <1>11,
           <1>12, <1>13, <1>14, <1>15, <1>16, <1>17, <1>18, <1>19, <1>20, NextSteps

\* No network is erased unless MaxTimes boots in a row were quick, whatever the power
\* failures hit.
THEOREM RestoreNeedsQuickReboots == Spec => []EraseNeedsQuickReboots
<1>1. TypeOK /\ CountInv => EraseNeedsQuickReboots
  BY RestoreAssumption DEF TypeOK, KvStore, CountInv, EraseNeedsQuickReboots
<1> QED BY <1>1, CountInit, CountStep, TypeCorrect, PTL DEF Spec
=============================================================================
