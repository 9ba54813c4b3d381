----------------------------- MODULE OtaUpgrade -----------------------------
(***************************************************************************)
(* An upgrade over the air: the cloud pushes firmware or a configuration   *)
(* over MQTT (iotx_ota.c), the dispatching thread tells the application    *)
(* (dm_fota.c, dm_cota.c), whose callback downloads the file, writes it to *)
(* the spare partition, checks its digest and ends the writing             *)
(* (wrapper_ota.c).  Firmware and configuration share one OTA handle and   *)
(* one partition; the power may be cut, and the device is restarted by     *)
(* hand.                                                                   *)
(*                                                                         *)
(* A file is a sequence of Size blocks, one per fetch.                     *)
(***************************************************************************)
EXTENDS Naturals, Sequences, SequencesExt

CONSTANTS Images,     \* firmware in the cloud
          Configs,    \* configuration files in the cloud
          Factory,    \* the firmware the device was sold with
          Size,       \* blocks of a file
          QueueMax,   \* CONFIG_DISPATCH_QUEUE_MAXLEN
          MaxPushes,  \* pushes in a behaviour
          MaxOthers,  \* other events in a behaviour
          MaxBoots,   \* restarts in a behaviour
          OtherReader, \* another thread reads too: it logs a sub-device in
          None

Firmware == Images \cup {Factory}
Kinds == {"fota", "cota"}
Parts == {"ota_0", "ota_1"}
Spare(p) == IF p = "ota_0" THEN "ota_1" ELSE "ota_0"

ASSUME OtaAssumption ==
  /\ Firmware \cap Configs = {} /\ Factory \notin Images
  /\ None \notin Firmware \cup Configs
  /\ Size \in Nat \ {0} /\ QueueMax \in Nat \ {0}
  /\ MaxPushes \in Nat /\ MaxOthers \in Nat /\ MaxBoots \in Nat
  /\ OtherReader \in BOOLEAN

VARIABLES
  state,        \* h_ota->state
  type,         \* h_ota->type
  expected,     \* [Kinds -> file]: md5sum and sign of the last push
  ch_fetch,     \* the file that is fetched and its next block
  size_fetched,
  md5,          \* what went into the digest; "end" is what finishing adds
  is_report,    \* [Kinds -> BOOLEAN]: is_report_new_config
  queue,        \* events for the application
  pc, kind,     \* what the dispatching thread does
  left,         \* events iotx_dm_dispatch still takes in this call
  block,        \* the block in its buffer
  hal,          \* s_ota_handle: no writing, or whether the last write failed
  flash,        \* contents of the partitions
  boot,         \* the partition otadata names
  running,      \* the partition the device runs from
  got,          \* history: the blocks this download fetched
  pushes, others, boots

otaVars == <<state, type, expected, ch_fetch, size_fetched, md5>>
threadVars == <<pc, kind, left, block, got>>
flashVars == <<hal, flash, boot, running>>
bounds == <<pushes, others, boots>>
vars == <<otaVars, is_report, queue, threadVars, flashVars, bounds>>

Blocks(f) == [i \in 1..Size |-> <<f, i>>]

\* esp_ota_end and the boot loader verify the image a partition begins with.
Bootable(content) == \E f \in Firmware : IsPrefix(Blocks(f), content)

Ram ==
  [state |-> "inited", type |-> "none", expected |-> [k \in Kinds |-> None],
   ch_fetch |-> [file |-> None, next |-> 1]]

Init ==
  /\ state = Ram.state /\ type = Ram.type /\ expected = Ram.expected
  /\ ch_fetch = Ram.ch_fetch /\ size_fetched = 0 /\ md5 = <<>>
  /\ is_report = [k \in Kinds |-> FALSE] /\ queue = <<>>
  /\ pc = "yield" /\ kind = "none" /\ left = 0 /\ block = None /\ got = <<>>
  /\ hal = "none" /\ running = "ota_0" /\ boot = "ota_0"
  /\ flash = [p \in Parts |-> IF p = "ota_0" THEN Blocks(Factory) ELSE <<>>]
  /\ pushes = 0 /\ others = 0 /\ boots = 0

-----------------------------------------------------------------------------
(* ota_callback, in a thread that reads.  If that need not be the           *)
(* dispatching one, it may come between any two steps of a download.        *)

Reading == OtherReader \/ pc = "yield"

Pushed(k, f) ==
  /\ state # "fetching" /\ Reading
  /\ pushes < MaxPushes /\ pushes' = pushes + 1
  /\ state' = "fetching" /\ type' = k
  /\ expected' = [expected EXCEPT ![k] = f]
  /\ ch_fetch' = [file |-> f, next |-> 1]
  /\ UNCHANGED <<is_report, queue, threadVars, flashVars, others, boots>>

\* Firmware: neither the size nor the digest starts over.
PushFirmware(f) == Pushed("fota", f) /\ UNCHANGED <<size_fetched, md5>>

PushConfig(f) == Pushed("cota", f) /\ size_fetched' = 0 /\ md5' = <<>>

OtherEvent ==
  /\ Reading /\ others < MaxOthers /\ others' = others + 1
  /\ queue' = IF Len(queue) < QueueMax THEN Append(queue, "other") ELSE queue
  /\ UNCHANGED <<otaVars, is_report, threadVars, flashVars, pushes, boots>>

-----------------------------------------------------------------------------
(* iotx_dm_dispatch: dm_cota_status_check and dm_fota_status_check tell the *)
(* application of a push once, and try again when the queue was full.       *)

StatusCheck ==
  /\ pc = "yield"
  /\ pc' = "dispatch" /\ left' = QueueMax
  /\ IF state = "fetching" /\ ~is_report[type] /\ Len(queue) < QueueMax
     THEN queue' = Append(queue, type) /\ is_report' = [is_report EXCEPT ![type] = TRUE]
     ELSE UNCHANGED <<queue, is_report>>
  /\ UNCHANGED <<otaVars, kind, block, got, flashVars, bounds>>

DispatchEnds ==
  /\ pc = "dispatch" /\ (queue = <<>> \/ left = 0)
  /\ pc' = "yield" /\ left' = 0
  /\ UNCHANGED <<otaVars, is_report, queue, kind, block, got, flashVars, bounds>>

NextEvent ==
  /\ pc = "dispatch" /\ queue # <<>> /\ left > 0
  /\ queue' = Tail(queue) /\ left' = left - 1

\* Another event, or one of a download that is over: nothing to download.
DispatchOther ==
  /\ NextEvent /\ Head(queue) # type
  /\ UNCHANGED <<otaVars, is_report, pc, kind, block, got, flashVars, bounds>>

\* Fault: the partition after the one otadata names.
NextOfBoot == Spare(boot)

\* esp_ota_get_next_update_partition(NULL): the one after the running one.
NextPartition == Spare(running)

\* The application's callback starts the download; the partition is erased,
\* unless esp_ota_begin fails.
StartDownload ==
  /\ NextEvent /\ Head(queue) = type
  /\ size_fetched' = 0 /\ got' = <<>>
  /\ \/ hal' = "ok" /\ flash' = [flash EXCEPT ![NextPartition] = <<>>]
     \/ UNCHANGED <<hal, flash>>
  /\ pc' = "fetch" /\ kind' = type
  /\ UNCHANGED <<state, type, expected, ch_fetch, md5, is_report, block, boot, running, bounds>>

\* Fault: a failed download leaves its type.
FailKeepsType ==
  /\ pc = "fetch"
  /\ IF state = "fetching" THEN state' = "fetched" /\ size_fetched' = 0
     ELSE UNCHANGED <<state, size_fetched>>
  /\ pc' = "stop"
  /\ UNCHANGED <<type, expected, ch_fetch, md5, is_report, queue, kind, left, block, got,
                 flashVars, bounds>>

FetchFails ==
  /\ pc = "fetch"
  /\ IF state = "fetching"
     THEN state' = "fetched" /\ type' = "none" /\ size_fetched' = 0
     ELSE UNCHANGED <<state, type, size_fetched>>
  /\ pc' = "stop"
  /\ UNCHANGED <<expected, ch_fetch, md5, is_report, queue, kind, left, block, got, flashVars, bounds>>

FetchBlock ==
  /\ pc = "fetch" /\ state = "fetching" /\ ch_fetch.next <= Size
  /\ block' = <<ch_fetch.file, ch_fetch.next>>
  /\ ch_fetch' = [ch_fetch EXCEPT !.next = @ + 1]
  /\ md5' = Append(md5, block') /\ got' = Append(got, block')
  /\ size_fetched' = size_fetched + 1
  /\ IF size_fetched' >= Size THEN state' = "fetched" /\ type' = "none"
     ELSE UNCHANGED <<state, type>>
  /\ pc' = "write"
  /\ UNCHANGED <<expected, is_report, queue, kind, left, flashVars, bounds>>

\* Whether a write fails is kept until the next one; the download goes on.
WriteBlock ==
  /\ pc = "write"
  /\ \/ /\ hal # "none"
        /\ flash' = [flash EXCEPT ![NextPartition] = Append(@, block)]
        /\ hal' = "ok"
     \/ hal' = (IF hal = "none" THEN "none" ELSE "error") /\ UNCHANGED flash
  /\ block' = None
  /\ pc' = "finish"
  /\ UNCHANGED <<otaVars, is_report, queue, kind, left, got, boot, running, bounds>>

\* A push that came since the last block starts another round of this loop.
IsFetchFinish ==
  /\ pc = "finish"
  /\ pc' = IF state = "fetched" THEN "check" ELSE "fetch"
  /\ UNCHANGED <<otaVars, is_report, queue, kind, left, block, got, flashVars, bounds>>

\* Fault: file_isvalid starts as 1, and a refused check leaves it.
CheckDefaultsValid ==
  /\ pc = "check"
  /\ IF state = "fetched"
     THEN /\ md5' = Append(md5, "end")
          /\ pc' = IF md5 = Blocks(expected[kind]) THEN "accepted" ELSE "rejected"
     ELSE pc' = "accepted" /\ UNCHANGED md5
  /\ UNCHANGED <<state, type, expected, ch_fetch, size_fetched, is_report, queue,
                 kind, left, block, got, flashVars, bounds>>

\* Finishing the digest changes it, so that what is added later is lost.
Check ==
  /\ pc = "check"
  /\ IF state = "fetched"
     THEN /\ md5' = Append(md5, "end")
          /\ pc' = IF expected[kind] # None /\ md5 = Blocks(expected[kind])
                   THEN "accepted" ELSE "rejected"
     ELSE pc' = "rejected" /\ UNCHANGED md5
  /\ UNCHANGED <<state, type, expected, ch_fetch, size_fetched, is_report, queue,
                 kind, left, block, got, flashVars, bounds>>

\* Fault: a download that fails leaves is_report_new_config set.
StopKeepsFlag ==
  /\ pc \in {"stop", "accepted", "rejected"}
  /\ boot' = IF hal = "ok" /\ Bootable(flash[NextPartition]) THEN NextPartition ELSE boot
  /\ hal' = "none"
  /\ is_report' = [is_report EXCEPT ![kind] = @ /\ pc # "accepted"]
  /\ pc' = "dispatch" /\ kind' = "none" /\ got' = <<>>
  /\ UNCHANGED <<otaVars, queue, left, block, flash, running, bounds>>

\* HAL_Firmware_Persistence_Stop, whether the file was accepted or not.
Stop ==
  /\ pc \in {"stop", "accepted", "rejected"}
  /\ boot' = IF hal = "ok" /\ Bootable(flash[NextPartition]) THEN NextPartition ELSE boot
  /\ hal' = "none"
  /\ is_report' = [is_report EXCEPT ![kind] = FALSE]
  /\ pc' = "dispatch" /\ kind' = "none" /\ got' = <<>>
  /\ UNCHANGED <<otaVars, queue, left, block, flash, running, bounds>>

-----------------------------------------------------------------------------
(* A restart, by the button or a power failure.  The boot loader takes the  *)
(* other partition when the one otadata names holds no image.               *)

Restart ==
  /\ boots < MaxBoots /\ boots' = boots + 1
  /\ running' = IF Bootable(flash[boot]) THEN boot ELSE Spare(boot)
  /\ state' = Ram.state /\ type' = Ram.type /\ expected' = Ram.expected
  /\ ch_fetch' = Ram.ch_fetch /\ size_fetched' = 0 /\ md5' = <<>>
  /\ is_report' = [k \in Kinds |-> FALSE] /\ queue' = <<>>
  /\ pc' = "yield" /\ kind' = "none" /\ left' = 0 /\ block' = None /\ got' = <<>>
  /\ hal' = "none"
  /\ UNCHANGED <<flash, boot, pushes, others>>

Download == FetchFails \/ FetchBlock \/ WriteBlock \/ IsFetchFinish \/ Check \/ Stop
Dispatch == StatusCheck \/ DispatchEnds \/ DispatchOther \/ StartDownload \/ Download

Next ==
  \/ \E f \in Images : PushFirmware(f)
  \/ \E f \in Configs : PushConfig(f)
  \/ OtherEvent \/ Dispatch \/ Restart

Spec == Init /\ [][Next]_vars

\* The dispatching thread runs, and a fetch ends: with data, or with an error
\* after its minute of tries.
FairSpec == Spec /\ WF_vars(Dispatch)

-----------------------------------------------------------------------------
(* Properties.                                                              *)

TypeOK ==
  /\ state \in {"inited", "fetching", "fetched"} /\ type \in Kinds \cup {"none"}
  /\ (type # "none" <=> state = "fetching")
  /\ expected \in [Kinds -> Firmware \cup Configs \cup {None}]
  /\ ch_fetch \in [file : Firmware \cup Configs \cup {None}, next : 1..(Size + 1)]
  /\ size_fetched \in Nat
  /\ is_report \in [Kinds -> BOOLEAN] /\ Len(queue) <= QueueMax
  /\ pc \in {"yield", "dispatch", "fetch", "write", "finish", "check", "accepted",
             "rejected", "stop"}
  /\ kind \in Kinds \cup {"none"} /\ left \in 0..QueueMax
  /\ hal \in {"none", "ok", "error"}
  /\ boot \in Parts /\ running \in Parts /\ DOMAIN flash = Parts

\* Whatever is pushed, downloaded, interrupted or restarted, the partition the
\* device runs from holds a complete image.
RunningIsIntact == Bootable(flash[running])

\* A firmware upgrade is accepted only when the writer was given the whole
\* image that was pushed, block by block, by this download, though the digest
\* outlives downloads and a push may come in the middle of one.
AcceptedIsTheImage ==
  [][pc = "check" /\ pc' = "accepted" /\ kind = "fota" => got = Blocks(expected["fota"])]_vars

\* The device never refuses pushes for ever: one that was taken is announced
\* and its download ends, also after others failed or the queue was full.
UpgradeEnds == state = "fetching" ~> state # "fetching"
=============================================================================
