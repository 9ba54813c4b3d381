--------------------------- MODULE OtaUpgradeProofs ---------------------------
(* Proofs about OtaUpgrade, for files of any size, any images and           *)
(* configurations, any queue and any number of pushes and restarts.         *)
EXTENDS OtaUpgrade, TLAPS

\* Next, one action at a time.
LEMMA NextSteps ==
  ASSUME Next
  PROVE  \/ \E f \in Images : PushFirmware(f)
         \/ \E f \in Configs : PushConfig(f)
         \/ OtherEvent \/ StatusCheck \/ DispatchEnds \/ DispatchOther \/ StartDownload
         \/ FetchFails \/ FetchBlock \/ WriteBlock \/ IsFetchFinish \/ Check \/ Stop
         \/ Restart
BY DEF Next, Dispatch, Download

-----------------------------------------------------------------------------
(* Types: TypeOK and what it needs of the sequences.                        *)

Files == Firmware \cup Configs \cup {None}
Block == Files \X (1..Size)

TypeInv ==
  /\ TypeOK
  /\ queue \in Seq(Kinds \cup {"other"})
  /\ md5 \in Seq(Block \cup {"end"}) /\ got \in Seq(Block)
  /\ flash \in [Parts -> Seq(Block)] /\ block \in Block \cup {None}
  /\ pc = "write" => block \in Block
  /\ pushes \in Nat /\ others \in Nat /\ boots \in Nat
  /\ pc \in {"fetch", "write", "finish", "check", "accepted", "rejected", "stop"} => kind \in Kinds

LEMMA SpareIsOther ==
  ASSUME NEW p \in Parts
  PROVE  Spare(p) \in Parts /\ Spare(p) # p /\ Spare(Spare(p)) = p
BY DEF Spare, Parts

LEMMA BlocksType ==
  ASSUME NEW f \in Firmware \cup Configs
  PROVE  Blocks(f) \in Seq(Block) /\ Len(Blocks(f)) = Size
BY OtaAssumption DEF Blocks, Block, Files

LEMMA FlashType ==
  ASSUME NEW F \in [Parts -> Seq(Block)], NEW p \in Parts, NEW s \in Seq(Block)
  PROVE  [F EXCEPT ![p] = s] \in [Parts -> Seq(Block)]
OBVIOUS

LEMMA AppendType ==
  ASSUME NEW S, NEW s \in Seq(S), NEW e \in S
  PROVE  /\ Append(s, e) \in Seq(S) /\ Len(Append(s, e)) = Len(s) + 1
         /\ \A i \in 1..Len(s) : Append(s, e)[i] = s[i]
         /\ Append(s, e)[Len(s) + 1] = e
OBVIOUS

LEMMA SeqEqual ==
  ASSUME NEW S, NEW s \in Seq(S), NEW T, NEW t \in Seq(T), Len(s) = Len(t),
         \A i \in 1..Len(s) : s[i] = t[i]
  PROVE  s = t
OBVIOUS

LEMMA TypeInit == Init => TypeInv
<1> SUFFICES ASSUME Init PROVE TypeInv
  OBVIOUS
<1>1. flash \in [Parts -> Seq(Block)]
  BY BlocksType DEF Init, Firmware
<1>2. TypeOK
  BY OtaAssumption, <1>1 DEF Init, Ram, TypeOK, Kinds, Parts
<1> QED BY <1>1, <1>2 DEF Init, TypeInv

LEMMA TypeStep == TypeInv /\ [Next]_vars => TypeInv'
<1> SUFFICES ASSUME TypeInv, [Next]_vars PROVE TypeInv'
  OBVIOUS
<1> USE OtaAssumption DEF TypeInv, TypeOK, Kinds
<1>1. ASSUME NEW f \in Images, PushFirmware(f) PROVE TypeInv'
  BY <1>1 DEF PushFirmware, Pushed, Firmware, threadVars, flashVars
<1>2. ASSUME NEW f \in Configs, PushConfig(f) PROVE TypeInv'
  BY <1>2 DEF PushConfig, Pushed, threadVars, flashVars
<1>3. CASE OtherEvent BY <1>3 DEF OtherEvent, otaVars, threadVars, flashVars
<1>4. CASE StatusCheck
  <2>1. is_report' \in [Kinds -> BOOLEAN] BY <1>4 DEF StatusCheck
  <2>2. queue' \in Seq(Kinds \cup {"other"}) /\ Len(queue') <= QueueMax
    <3>1. CASE UNCHANGED queue BY <3>1
    <3>2. CASE queue' = Append(queue, type) /\ state = "fetching" /\ Len(queue) < QueueMax
      BY <3>2
    <3> QED BY <1>4, <3>1, <3>2 DEF StatusCheck
  <2>3. pc' = "dispatch" /\ left' = QueueMax BY <1>4 DEF StatusCheck
  <2> QED BY <1>4, <2>1, <2>2, <2>3 DEF StatusCheck, otaVars, flashVars, bounds
<1>5. CASE DispatchEnds BY <1>5 DEF DispatchEnds, otaVars, flashVars, bounds
<1>6. CASE DispatchOther BY <1>6 DEF DispatchOther, NextEvent, otaVars, flashVars, bounds
<1>7. CASE StartDownload
  <2>1. NextPartition \in Parts BY SpareIsOther DEF NextPartition
  <2>2. flash' \in [Parts -> Seq(Block)] /\ hal' \in {"none", "ok", "error"}
    <3> HIDE DEF TypeInv, TypeOK
    <3>1. flash \in [Parts -> Seq(Block)] /\ hal \in {"none", "ok", "error"}
      BY DEF TypeInv, TypeOK
    <3>2. [flash EXCEPT ![NextPartition] = <<>>] \in [Parts -> Seq(Block)]
      BY <2>1, <3>1, FlashType
    <3> QED BY <1>7, <3>1, <3>2 DEF StartDownload
  <2>3. type \in Kinds BY <1>7 DEF StartDownload, NextEvent
  <2>4. queue' \in Seq(Kinds \cup {"other"}) /\ Len(queue') <= QueueMax /\ left' \in 0..QueueMax
    BY <1>7 DEF StartDownload, NextEvent
  <2>5. /\ pc' = "fetch" /\ kind' = type /\ got' = <<>> /\ size_fetched' = 0
        /\ UNCHANGED <<state, type, expected, ch_fetch, md5, is_report, block, boot, running, bounds>>
    BY <1>7 DEF StartDownload
  <2> QED BY <2>2, <2>3, <2>4, <2>5 DEF bounds
<1>8. CASE FetchFails BY <1>8 DEF FetchFails, flashVars, bounds
<1>9. CASE FetchBlock
  <2>1. block' \in Block BY <1>9 DEF FetchBlock, Block, Files
  <2>2. md5' \in Seq(Block \cup {"end"}) /\ got' \in Seq(Block) BY <1>9, <2>1 DEF FetchBlock
  <2>3. ch_fetch' \in [file : Firmware \cup Configs \cup {None}, next : 1..(Size + 1)]
    <3> HIDE DEF TypeInv, TypeOK
    <3>1. ch_fetch \in [file : Firmware \cup Configs \cup {None}, next : 1..(Size + 1)]
      BY DEF TypeInv, TypeOK
    <3>2. ch_fetch.next <= Size /\ ch_fetch' = [ch_fetch EXCEPT !.next = @ + 1]
      BY <1>9 DEF FetchBlock
    <3>3. ch_fetch.next + 1 \in 1..(Size + 1) BY <3>1, <3>2
    <3> QED BY <3>1, <3>2, <3>3
  <2>4. /\ state' \in {"fetching", "fetched"} /\ type' \in Kinds \cup {"none"}
        /\ (type' # "none" <=> state' = "fetching")
        /\ size_fetched' \in Nat
    <3> HIDE DEF TypeInv, TypeOK
    <3>1. size_fetched \in Nat /\ type \in Kinds \cup {"none"}
          /\ (type # "none" <=> state = "fetching")
      BY DEF TypeInv, TypeOK
    <3>2. /\ state = "fetching" /\ size_fetched' = size_fetched + 1
          /\ \/ state' = "fetched" /\ type' = "none"
             \/ UNCHANGED <<state, type>>
      BY <1>9 DEF FetchBlock
    <3> QED BY <3>1, <3>2
  <2>5. /\ pc = "fetch" /\ pc' = "write"
        /\ UNCHANGED <<expected, is_report, queue, kind, left, flashVars, bounds>>
    BY <1>9 DEF FetchBlock
  <2> QED BY <2>1, <2>2, <2>3, <2>4, <2>5 DEF flashVars, bounds
<1>10. CASE WriteBlock
  <2>1. NextPartition \in Parts BY SpareIsOther DEF NextPartition
  <2>2. flash' \in [Parts -> Seq(Block)] /\ hal' \in {"none", "ok", "error"}
    <3> HIDE DEF TypeInv, TypeOK
    <3>1. flash \in [Parts -> Seq(Block)] /\ block \in Block
      BY <1>10 DEF TypeInv, WriteBlock
    <3>2. Append(flash[NextPartition], block) \in Seq(Block) BY <2>1, <3>1, AppendType
    <3>3. [flash EXCEPT ![NextPartition] = Append(@, block)] \in [Parts -> Seq(Block)]
      BY <2>1, <3>1, <3>2, FlashType
    <3>4. hal' \in {"none", "ok", "error"} BY <1>10 DEF WriteBlock
    <3>5. flash' = flash \/ flash' = [flash EXCEPT ![NextPartition] = Append(@, block)]
      BY <1>10 DEF WriteBlock
    <3> QED BY <3>1, <3>3, <3>4, <3>5
  <2>3. /\ pc = "write" /\ pc' = "finish" /\ block' = None
        /\ UNCHANGED <<otaVars, is_report, queue, kind, left, got, boot, running, bounds>>
    BY <1>10 DEF WriteBlock
  <2> QED BY <2>2, <2>3 DEF otaVars, bounds
<1>11. CASE IsFetchFinish BY <1>11 DEF IsFetchFinish, otaVars, flashVars, bounds
<1>12. CASE Check
  <2>1. md5' \in Seq(Block \cup {"end"}) /\ pc' \in {"accepted", "rejected"}
    <3> HIDE DEF TypeInv, TypeOK
    <3>1. Append(md5, "end") \in Seq(Block \cup {"end"}) BY AppendType DEF TypeInv
    <3>2. md5 \in Seq(Block \cup {"end"}) BY DEF TypeInv
    <3> QED BY <1>12, <3>1, <3>2 DEF Check
  <2>2. /\ pc = "check"
        /\ UNCHANGED <<state, type, expected, ch_fetch, size_fetched, is_report, queue,
                       kind, left, block, got, flashVars, bounds>>
    BY <1>12 DEF Check
  <2> QED BY <2>1, <2>2 DEF flashVars, bounds
<1>13. CASE Stop
  <2>1. boot' \in Parts BY <1>13, SpareIsOther DEF Stop, NextPartition
  <2> QED BY <1>13, <2>1 DEF Stop, otaVars, bounds
<1>14. CASE Restart
  <2>1. running' \in Parts BY <1>14, SpareIsOther DEF Restart
  <2> QED BY <1>14, <2>1 DEF Restart, Ram
<1>15. CASE UNCHANGED vars BY <1>15 DEF vars, otaVars, threadVars, flashVars, bounds
<1> QED BY <1>1, <1>2, <1>3, <1>4, <1>5, <1>6, <1>7, <1>8, <1>9, <1>10, <1>11, <1>12,
           <1>13, <1>14, <1>15, NextSteps

\* Every state of an upgrade has the type TypeOK gives it.
THEOREM TypeCorrect == Spec => []TypeOK
<1>1. TypeInv => TypeOK BY DEF TypeInv
<1> QED BY <1>1, TypeInit, TypeStep, PTL DEF Spec

-----------------------------------------------------------------------------
(* Only the spare partition is written, and the boot loader falls back.     *)

LEMMA IntactInit == Init => RunningIsIntact
<1> SUFFICES ASSUME Init PROVE RunningIsIntact
  OBVIOUS
<1>1. flash[running] = Blocks(Factory) BY DEF Init, Parts
<1>2. IsPrefix(Blocks(Factory), Blocks(Factory))
  BY BlocksType, OtaAssumption DEF IsPrefix, Firmware
<1> QED BY <1>1, <1>2 DEF RunningIsIntact, Bootable, Firmware

LEMMA IntactStep == TypeInv /\ RunningIsIntact /\ [Next]_vars => RunningIsIntact'
<1> SUFFICES ASSUME TypeInv, RunningIsIntact, [Next]_vars PROVE RunningIsIntact'
  OBVIOUS
<1>1. running \in Parts /\ boot \in Parts /\ flash \in [Parts -> Seq(Block)]
  BY DEF TypeInv, TypeOK
<1>2. NextPartition # running BY <1>1, SpareIsOther DEF NextPartition
<1>3. CASE StartDownload \/ WriteBlock
  <2>1. running' = running /\ flash'[running] = flash[running]
    BY <1>1, <1>2, <1>3 DEF StartDownload, WriteBlock
  <2> QED BY <2>1 DEF RunningIsIntact, Bootable
<1>4. CASE Restart
  <2>1. CASE Bootable(flash[boot])
    BY <1>4, <2>1 DEF Restart, RunningIsIntact, Bootable
  <2>2. CASE ~Bootable(flash[boot])
    <3>1. boot = Spare(running) BY <1>1, <2>2 DEF RunningIsIntact, Spare, Parts
    <3>2. running' = running BY <1>1, <1>4, <2>2, <3>1, SpareIsOther DEF Restart
    <3> QED BY <1>4, <3>2 DEF Restart, RunningIsIntact, Bootable
  <2> QED BY <2>1, <2>2
<1>5. CASE UNCHANGED <<flash, running>>
  BY <1>5 DEF RunningIsIntact, Bootable
<1>6. StartDownload \/ WriteBlock \/ Restart \/ UNCHANGED <<flash, running>>
  <2>1. CASE UNCHANGED vars BY <2>1 DEF vars, flashVars
  <2>2. CASE Next
    BY <2>2, NextSteps DEF PushFirmware, PushConfig, Pushed, OtherEvent, StatusCheck,
         DispatchEnds, DispatchOther, FetchFails, FetchBlock, IsFetchFinish, Check, Stop, flashVars
  <2> QED BY <2>1, <2>2
<1> QED BY <1>3, <1>4, <1>5, <1>6

\* The device never runs from a partition without a complete image.
THEOREM RunningStaysIntact == Spec => []RunningIsIntact
<1>1. Init => TypeInv /\ RunningIsIntact BY TypeInit, IntactInit
<1>2. TypeInv /\ RunningIsIntact /\ [Next]_vars => (TypeInv /\ RunningIsIntact)'
  BY TypeStep, IntactStep
<1> QED BY <1>1, <1>2, PTL DEF Spec

-----------------------------------------------------------------------------
(* The digest against the download: what the check compares is what this    *)
(* download fetched, or begins with a configuration's block, or is longer.  *)

Busy == {"fetch", "write", "finish"}

DigestEndsWithGot ==
  /\ Len(got) <= Len(md5)
  /\ \A i \in 1..Len(got) : md5[Len(md5) - Len(got) + i] = got[i]
DigestOfConfig ==
  \/ md5 = <<>> /\ state = "fetching" /\ ch_fetch.file \in Configs
  \/ md5 # <<>> /\ md5[1] \in Configs \X (1..Size)

StartsOver ==
  /\ state = "fetching" /\ (pc \notin Busy \/ (pc = "fetch" /\ got = <<>>)) => ch_fetch.next = 1
  /\ got # <<>> => got[1][2] = 1
Fetched == pc \in {"write", "finish", "check"} => got # <<>>
DigestInv ==
  pc \in Busy \cup {"check"} /\ got # <<>> => DigestEndsWithGot \/ DigestOfConfig
ImageExpected == expected["fota"] \in Images \cup {None}

DownloadInv == StartsOver /\ Fetched /\ DigestInv /\ ImageExpected

LEMMA DownloadInit == Init => DownloadInv
BY DEF Init, Ram, DownloadInv, StartsOver, Fetched, DigestInv, ImageExpected, Kinds, Busy

\* The only step that adds to the digest.
LEMMA DigestGrows ==
  ASSUME TypeInv, DownloadInv, FetchBlock
  PROVE  DownloadInv'
<1>1. /\ md5 \in Seq(Block \cup {"end"}) /\ got \in Seq(Block)
      /\ ch_fetch \in [file : Firmware \cup Configs \cup {None}, next : 1..(Size + 1)]
  BY DEF TypeInv, TypeOK
<1>2. /\ pc = "fetch" /\ pc' = "write" /\ state = "fetching" /\ ch_fetch.next <= Size
      /\ block' = <<ch_fetch.file, ch_fetch.next>>
      /\ md5' = Append(md5, block') /\ got' = Append(got, block')
      /\ UNCHANGED expected
  BY DEF FetchBlock
<1>3. ch_fetch.next \in 1..Size BY <1>1, <1>2, OtaAssumption
<1>4. block' \in Block BY <1>1, <1>2, <1>3 DEF Block, Files
<1>5. /\ Len(md5') = Len(md5) + 1 /\ Len(got') = Len(got) + 1
      /\ \A i \in 1..Len(md5) : md5'[i] = md5[i]
      /\ \A i \in 1..Len(got) : got'[i] = got[i]
      /\ md5'[Len(md5) + 1] = block' /\ got'[Len(got) + 1] = block'
  BY <1>1, <1>2, <1>4, AppendType
<1>6. Len(md5) \in Nat /\ Len(got) \in Nat BY <1>1
<1>7. got' # <<>> /\ md5' # <<>> BY <1>1, <1>2
<1>8. got'[1][2] = 1
  <2>1. CASE got = <<>>
    BY <2>1, <1>2, <1>5 DEF DownloadInv, StartsOver
  <2>2. CASE got # <<>>
    <3>1. got'[1] = got[1] BY <2>2, <1>1, <1>5, <1>6
    <3> QED BY <2>2, <3>1 DEF DownloadInv, StartsOver
  <2> QED BY <2>1, <2>2
<1>9. DigestEndsWithGot' \/ DigestOfConfig'
  <2>1. CASE got = <<>>
    BY <2>1, <1>5, <1>6 DEF DigestEndsWithGot
  <2>2. CASE got # <<>> /\ DigestEndsWithGot
    <3> DEFINE n == Len(md5) - Len(got)
    <3>1. n \in Nat /\ n + Len(got) = Len(md5) /\ \A i \in 1..Len(got) : md5[n + i] = got[i]
      BY <2>2, <1>6 DEF DigestEndsWithGot
    <3>2. Len(md5') - Len(got') = n /\ Len(got') <= Len(md5') BY <3>1, <1>5, <1>6
    <3> HIDE DEF n
    <3>3. ASSUME NEW i \in 1..Len(got') PROVE md5'[n + i] = got'[i]
      <4>1. CASE i \in 1..Len(got)
        <5>1. n + i \in 1..Len(md5) BY <4>1, <3>1, <1>6
        <5> QED BY <5>1, <4>1, <3>1, <1>5
      <4>2. CASE i = Len(got) + 1
        BY <4>2, <3>1, <1>5
      <4> QED BY <4>1, <4>2, <1>5, <1>6
    <3> QED BY <3>2, <3>3 DEF DigestEndsWithGot
  <2>3. CASE md5 = <<>> /\ ch_fetch.file \in Configs
    BY <2>3, <1>2, <1>3, <1>5, <1>7 DEF DigestOfConfig
  <2>4. CASE md5 # <<>> /\ md5[1] \in Configs \X (1..Size)
    <3>1. md5'[1] = md5[1] BY <2>4, <1>1, <1>5, <1>6
    <3> QED BY <2>4, <3>1, <1>7 DEF DigestOfConfig
  <2> QED BY <2>1, <2>2, <2>3, <2>4, <1>2 DEF DownloadInv, DigestInv, DigestOfConfig, Busy
<1>10. StartsOver' BY <1>2, <1>7, <1>8 DEF StartsOver, Busy
<1>11. Fetched' BY <1>7 DEF Fetched
<1>12. DigestInv' BY <1>9 DEF DigestInv
<1>13. ImageExpected' BY <1>2 DEF ImageExpected, DownloadInv
<1> QED BY <1>10, <1>11, <1>12, <1>13 DEF DownloadInv

LEMMA DownloadStep == TypeInv /\ DownloadInv /\ [Next]_vars => DownloadInv'
<1> SUFFICES ASSUME TypeInv, DownloadInv, [Next]_vars PROVE DownloadInv'
  OBVIOUS
<1> DEFINE Unchanged == UNCHANGED <<state, ch_fetch, md5, got, expected>>
<1>1. ASSUME NEW f \in Images, PushFirmware(f) PROVE DownloadInv'
  <2>1. /\ state # "fetching" /\ state' = "fetching" /\ ch_fetch' = [file |-> f, next |-> 1]
        /\ expected' = [expected EXCEPT !["fota"] = f]
        /\ UNCHANGED <<pc, got, md5>>
    BY <1>1 DEF PushFirmware, Pushed, threadVars
  <2>2. expected'["fota"] = f BY <2>1 DEF TypeInv, TypeOK, Kinds
  <2> QED BY <2>1, <2>2 DEF DownloadInv, StartsOver, Fetched, DigestInv, DigestEndsWithGot,
             DigestOfConfig, ImageExpected
<1>2. ASSUME NEW f \in Configs, PushConfig(f) PROVE DownloadInv'
  <2>1. /\ state' = "fetching" /\ ch_fetch' = [file |-> f, next |-> 1] /\ md5' = <<>>
        /\ expected' = [expected EXCEPT !["cota"] = f]
        /\ UNCHANGED <<pc, got>>
    BY <1>2 DEF PushConfig, Pushed, threadVars
  <2>2. expected'["fota"] = expected["fota"] BY <2>1 DEF TypeInv, TypeOK, Kinds
  <2> QED BY <2>1, <2>2 DEF DownloadInv, StartsOver, Fetched, DigestInv, DigestOfConfig, ImageExpected
<1>3. CASE StartDownload
  <2>1. state = "fetching" /\ pc = "dispatch"
    <3>1. pc = "dispatch" /\ queue # <<>> /\ Head(queue) = type
      BY <1>3 DEF StartDownload, NextEvent
    <3>2. queue \in Seq(Kinds \cup {"other"}) /\ (type # "none" <=> state = "fetching")
      BY DEF TypeInv, TypeOK
    <3>3. Head(queue) \in Kinds \cup {"other"} BY <3>1, <3>2
    <3> QED BY <3>1, <3>2, <3>3 DEF Kinds
  <2>2. pc' = "fetch" /\ got' = <<>> /\ UNCHANGED <<state, expected, ch_fetch, md5>>
    BY <1>3 DEF StartDownload
  <2> QED BY <2>1, <2>2 DEF DownloadInv, StartsOver, Fetched, DigestInv, ImageExpected, Busy
<1>4. CASE FetchFails
  <2>1. state' # "fetching" /\ pc' = "stop" /\ UNCHANGED <<expected, got>>
    BY <1>4 DEF FetchFails
  <2> QED BY <2>1 DEF DownloadInv, StartsOver, Fetched, DigestInv, ImageExpected, Busy
<1>5. CASE FetchBlock BY <1>5, DigestGrows
<1>6. CASE WriteBlock
  <2>1. pc = "write" /\ pc' = "finish" /\ Unchanged BY <1>6 DEF WriteBlock, otaVars
  <2> QED BY <2>1 DEF DownloadInv, StartsOver, Fetched, DigestInv, DigestEndsWithGot,
             DigestOfConfig, ImageExpected, Busy
<1>7. CASE IsFetchFinish
  <2>1. /\ pc = "finish" /\ pc' = (IF state = "fetched" THEN "check" ELSE "fetch") /\ Unchanged
    BY <1>7 DEF IsFetchFinish, otaVars
  <2> QED BY <2>1 DEF DownloadInv, StartsOver, Fetched, DigestInv, DigestEndsWithGot,
             DigestOfConfig, ImageExpected, Busy
<1>8. CASE Check
  <2>1. /\ pc = "check" /\ pc' \in {"accepted", "rejected"}
        /\ UNCHANGED <<state, ch_fetch, got, expected>>
    BY <1>8 DEF Check
  <2> QED BY <2>1 DEF DownloadInv, StartsOver, Fetched, DigestInv, ImageExpected, Busy
<1>9. CASE Stop
  <2>1. /\ pc \in {"stop", "accepted", "rejected"} /\ pc' = "dispatch" /\ got' = <<>>
        /\ UNCHANGED <<state, ch_fetch, expected>>
    BY <1>9 DEF Stop, otaVars
  <2> QED BY <2>1 DEF DownloadInv, StartsOver, Fetched, DigestInv, ImageExpected, Busy
<1>10. CASE Restart
  BY <1>10 DEF Restart, Ram, DownloadInv, StartsOver, Fetched, DigestInv, ImageExpected, Busy, Kinds
<1>11. CASE UNCHANGED <<state, ch_fetch, md5, got, expected, pc>>
  BY <1>11 DEF DownloadInv, StartsOver, Fetched, DigestInv, DigestEndsWithGot, DigestOfConfig,
       ImageExpected
<1>12. CASE StatusCheck \/ DispatchEnds \/ DispatchOther
  <2>1. pc \in {"yield", "dispatch"} /\ pc' \in {"yield", "dispatch"} /\ Unchanged
    BY <1>12 DEF StatusCheck, DispatchEnds, DispatchOther, NextEvent, otaVars
  <2> QED BY <2>1 DEF DownloadInv, StartsOver, Fetched, DigestInv, ImageExpected, Busy
<1>13. CASE OtherEvent
  BY <1>11, <1>13 DEF OtherEvent, otaVars, threadVars
<1>14. CASE UNCHANGED vars BY <1>11, <1>14 DEF vars, otaVars, threadVars
<1> QED BY <1>1, <1>2, <1>3, <1>4, <1>5, <1>6, <1>7, <1>8, <1>9, <1>10, <1>12, <1>13,
           <1>14, NextSteps

\* A digest of the whole image leaves no room for an earlier download's blocks.
LEMMA DigestIdentifies ==
  ASSUME TypeInv, DownloadInv, pc = "check", NEW f \in Images, md5 = Blocks(f), state = "fetched"
  PROVE  got = Blocks(f)
<1>1. got # <<>> /\ got[1][2] = 1 BY DEF DownloadInv, Fetched, StartsOver
<1>2. /\ Len(md5) = Size /\ \A i \in 1..Size : md5[i] = <<f, i>>
  BY BlocksType, OtaAssumption DEF Blocks, Firmware
<1>3. Size \in Nat \ {0} /\ f \notin Configs BY OtaAssumption DEF Firmware
<1>4. DigestEndsWithGot
  <2>1. ~DigestOfConfig BY <1>2, <1>3 DEF DigestOfConfig
  <2> QED BY <2>1, <1>1 DEF DownloadInv, DigestInv
<1>5. got \in Seq(Block) /\ Len(got) \in Nat \ {0} BY <1>1 DEF TypeInv
<1> DEFINE n == Size - Len(got)
<1>6. n \in Nat /\ \A i \in 1..Len(got) : got[i] = <<f, n + i>>
  BY <1>2, <1>3, <1>4, <1>5 DEF DigestEndsWithGot
<1>7. n = 0 BY <1>1, <1>5, <1>6
<1>8. Len(got) = Size /\ \A i \in 1..Size : got[i] = <<f, i>>
  <2>1. Len(got) = Size BY <1>3, <1>5, <1>7
  <2> HIDE DEF n
  <2>2. ASSUME NEW i \in 1..Size PROVE got[i] = <<f, i>>
    <3>1. got[i] = <<f, n + i>> BY <2>1, <1>6
    <3>2. n + i = i BY <1>7, <1>3
    <3> QED BY <3>1, <3>2
  <2> QED BY <2>1, <2>2
<1> QED BY <1>2, <1>3, <1>5, <1>8, BlocksType, SeqEqual DEF Firmware

\* Accepted firmware is the image of the last push, as this download fetched it.
THEOREM AcceptedImages == Spec => AcceptedIsTheImage
<1>1. Init => TypeInv /\ DownloadInv BY TypeInit, DownloadInit
<1>2. TypeInv /\ DownloadInv /\ [Next]_vars => (TypeInv /\ DownloadInv)'
  BY TypeStep, DownloadStep
<1>3. ASSUME TypeInv, DownloadInv, [Next]_vars, pc = "check", pc' = "accepted", kind = "fota"
      PROVE  got = Blocks(expected["fota"])
  <2>1. Check
    <3>1. CASE UNCHANGED vars BY <3>1, <1>3 DEF vars, threadVars
    <3>2. CASE Next
      BY <3>2, <1>3, NextSteps DEF PushFirmware, PushConfig, Pushed, OtherEvent, StatusCheck,
         DispatchEnds, DispatchOther, NextEvent, StartDownload, FetchFails, FetchBlock, WriteBlock,
         IsFetchFinish, Stop, Restart, threadVars
    <3> QED BY <3>1, <3>2, <1>3
  <2>2. state = "fetched" /\ expected["fota"] # None /\ md5 = Blocks(expected["fota"])
    BY <2>1, <1>3 DEF Check
  <2> QED BY <2>2, <1>3, DigestIdentifies DEF DownloadInv, ImageExpected
<1>4. TypeInv /\ DownloadInv /\ [Next]_vars
      => [pc = "check" /\ pc' = "accepted" /\ kind = "fota" => got = Blocks(expected["fota"])]_vars
  BY <1>3
<1> QED BY <1>1, <1>2, <1>4, PTL DEF Spec, AcceptedIsTheImage

=============================================================================
