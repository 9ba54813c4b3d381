# TLA+ models of the esp-iot-aliyun device

The repository is the firmware of a Wi-Fi light on the ESP32: `iotkit-embedded`
(the Aliyun IoT SDK: MQTT client, device model, provisioning, OTA, CoAP server),
the wrappers that put it on FreeRTOS and ESP-IDF, and the product code
(`iotkit_light`, `conn_mgr`, `iot_app`). This directory has TLA+ models of the
parts whose correctness depends on the order of events, the TLC configurations
that check them on small instances, and proofs for every value of the constants.

Paths below are relative to `src/project/iot_esp32/`; `EMB` is
`iot_component/iotkit_alios/iotkit-embedded`. `PROJECT.json` lists the
components, the runs, the source lines of every definition, the hazards and the
findings.

## 1. Inventory

### What runs

The application creates a thread that calls `IOT_Linkkit_Yield` in a loop; this
ends in `wrapper_mqtt_yield`, then dispatches what was received, and is here
called the yielding or the dispatching thread. Further threads publish, subscribe
and call the device model. FreeRTOS runs all software timers in one task; the
Wi-Fi event loop and the CoAP server have threads of their own. The mutexes are
not recursive. The power may fail at any time, and flash is written one key or
one block at a time.

### Components

| component | state | operations | model |
|---|---|---|---|
| MQTT client (`EMB/mqtt/iotx_mqtt_client.c`) | `client_state`, `packet_id`, `list_pub_wait_ack`, `keepalive_probes`, `next_ping_time`, `reconnect_param`, the socket | publish, yield (keep-alive, reconnection, republishing), construct, destroy | `MqttClient` |
| MQTT subscriptions (same file) | `list_sub_handle`, `list_sub_sync_ack`, `_in_yield_cb` | subscribe, subscribe and wait, unsubscribe, SUBACK and UNSUBACK | `MqttSubscribe` |
| MQTT reading and delivery (same file, `MQTTPacket.c`) | the read buffer, `packetType` | cut the stream into packets, sort them, compare a topic with the filters | `MqttReceive` |
| Factory restore (`factory_restore.c`) | `q_rt` in flash, the timer `factory_clear` | count a boot, restore, clear the count | `FactoryRestore` |
| Connection manager (`conn_mgr.c`) | SSID and password in flash, the station configuration | start, join, save, erase, switch the access point | `FactoryRestore` |
| Reset report (`awss_dev_reset.c`) | `awss.rst` in flash, `awss_report_reset_suc`, `report_reset_timer` | check at each connection, report, retry, read the reply | `FactoryRestore` |
| Message queue and cache (`dm_ipc.c`, `dm_message_cache.c`) | a bounded queue; a bounded list of requests with their age | insert, take; insert, search, remove, tick | `LinkkitGateway` |
| Linkkit API, gateway (`impl_linkkit.c`, `dm_manager.c`) | the linkkit mutex, the list of waiting calls with their semaphores, the status and secret of each sub-device | open, connect, report, close, yield and dispatch | `LinkkitGateway` |
| OTA (`EMB/ota`, `dm_fota.c`, `dm_cota.c`, `wrapper_ota.c`) | `state`, `type`, `size_fetched`, the digest, `ch_fetch`, two partitions and otadata | push, announce, fetch, write, check, end, restart | `OtaUpgrade` |
| CoAP server (`EMB/coap_server/server`) | the list of sent messages and its counter, observers, `message_id` | send, retransmit, time out, receive, notify, stop | `CoapServer` |
| Token report, CM, provisioning, TSL, codecs, infrastructure, wrappers, application | | | see section 10 |

### What makes each of them correct, and what makes that hard

* **MQTT client.** A QoS 1 publish that returned success reaches the broker; one
  that returned an error never does, so that the caller may repeat it. The client
  finds its way back to a working connection and tells the application. What
  makes this hard is that `client_state` is tested and set under a lock that is
  released before the write the test was for; that a peer may vanish without a
  reset; that PUBACKs come late and twice; and that identifiers wrap.
* **Subscriptions.** A call that waits for its SUBACK returns success only for a
  request the broker granted. Waiting means yielding, so any waiting thread may
  read the packet of another.
* **Reading and delivery.** Packets are cut where the broker cut them, also
  around one that just fits the buffer and one that is a byte too long; a handler
  is given what its filter covers.
* **Factory restore, connection manager, reset report.** N quick boots erase the
  network, fewer do not; what was erased is reported to the cloud. The power may
  fail between any two writes.
* **Synchronous upstream.** A call succeeds on the cloud's word only; nothing is
  used after another thread freed it; a bound holds for concurrent insertions; no
  call waits for ever, though the thread that brings its answer may itself want
  the mutex the call holds, and though a full queue drops the answer.
* **OTA.** An image is accepted only when all of it was fetched by this download,
  though pushes may overlap one and the digest outlives it; the device can always
  boot.
* **CoAP server.** A confirmable message leaves the list once, and its handler
  hears one result; message identifiers wrap, and phones choose their own.

`PROJECT.json` "hazards" has these at their lines, each with the properties that
would catch it or the reason there is none.

## 2. How the modules fit

Each module is closed: the neighbour of a component is an action that may do what
its code may. Components that share state are one module: the three that share
flash (`FactoryRestore`), the API, cache, queue and dispatch that share locks
(`LinkkitGateway`), pushes, application callback and partition (`OtaUpgrade`),
the CoAP list, its observers and the users of both (`CoapServer`). The MQTT
client is three modules because its three concerns meet only in `client_state`:
`MqttClient` has the connection in full, `MqttSubscribe` two states of it,
`MqttReceive` one connection. `AtLeastOnce` is the contract of `MqttClient`, which
implements it under the refinement mapping `Abstract`.

`M.tla` models code, `MCM.tla` gives the constants of a small instance,
`MCM_run.cfg` is a run, `MProofs.tla` has the theorems. A definition whose comment
begins with "Fault" is a plausible error in the code modelled by the definition
after it; no action uses it. Put in place of that definition, it makes a property
fail, which shows that the property depends on the code. `PROJECT.json` pairs
each property with such a definition ("mutants").

What is left to do is in section 10.

## 3. `MqttClient` and `AtLeastOnce`

| model | code |
|---|---|
| `client_state` | `iotx_mc_state_t` of the client, as far as it is used after the first connection |
| `packet_id`, `list_pub_wait_ack` | the fields of these names; a node has its identifier, `node_state`, the message, and whether `pub_start_time` is older than twice the request time-out |
| `keepalive_probes`, `ping_timer`, `reconnect_timer`, `interval`, `wait` | `keepalive_probes`, `next_ping_time`, `reconnect_next_time`, `reconnect_time_interval_ms`, and the countdown last armed |
| `yield` | where the yielding thread is in `wrapper_mqtt_yield` |
| `pub[t]` | where thread `t` is in `wrapper_mqtt_publish` |
| `sock`, `session`, `c2s`, `s2c` | the TCP connection: working, silently dead, reset or closed; whether the broker has seen CONNECT on it; what is in flight |
| `accepted`, `refused`, `received`, `issued`, `reused` | history, read by no action except to call each publish once |

The grain of the actions follows the locks. `lock_list_pub` is held for all of
`MQTTPublish` and for all of `MQTTPubInfoProc`: the insertion of the node and the
write of the packet are one action, and a publisher cannot write while the
yielding thread walks the list (`yield = "proc"`). `lock_generic` protects one
access of `client_state` at a time, so the window between the state test and the
write (`pc = "send"`), and the one between a failed write and the assignment of
DISCONNECTED (`pc = "fail"`), are states in which everything else may happen.
Two pairs of steps are fused: the state test and the packet identifier
(`PublishBegin`), between which nothing of this thread is visible; and
keep-alive's last read of the state and the branch it takes.

A "dead" connection is one whose peer vanished: writes succeed until the buffers
are full, nothing arrives. Two assumptions on time are in the model. A ping is
answered, on a working connection, before the next is due (`PingUnderWay`); the
interval is at least 30 s (`CONFIG_MQTT_KEEPALIVE_INTERVAL_MIN`). A CONNACK is not late on a working connection:
`ConnackMissing` needs one that fails. Allocation failures, which only add
refused calls, the asynchronous stack (`CONNECT_BLOCK`) and `IOT_MQTT_Destroy`
are left out; a process that destroys the client while others use it has no
behaviour to specify.

`AtLeastOnce` is what callers rely on: a message is new, held, or settled; it is
held from the successful return until the broker saw it, and never delivered
before. `Abstract` maps a message to "held" while it has a node on the list,
including one already marked INVALID.

Runs:

* `mqtt_safety`, 901 thousand states: two publishers, two QoS 1 messages and one
  of QoS 0, one network failure, two packets in flight, three identifiers. No
  accepted message is lost, no refused one is delivered, CONNECTED means a socket
  and an announcement, the reconnection wait stays in its limits and does not
  shrink, and the client implements `AtLeastOnce`. Two threads suffice for every
  race here: each race is between one publisher and the yielding thread, or
  between two publishers. One failure suffices for every state of the reconnect
  because TCP connections may be refused without limit. Reuse of an identifier
  cannot occur with these bounds; the next run is about that.
* `mqtt_wrap`, 1.5 million states: three messages, two identifiers, a list of two.
  The counter wraps while nodes wait; the list is full while threads have passed
  the state test.
* `mqtt_live`, 9 thousand states: one message and two failures, because the
  second one hits the connection that was to repair the first. An accepted
  message arrives, the client stays connected when the failures have ended.

Bounds: `MaxFaults` limits network failures, `MaxInFlight` the packets in flight
when a node times out (without it a node could be republished without limit
while nobody reads), the identifiers and the sizes of the lists are the code's
own constants made small. The intervals 2 and 5 make doubling pass the maximum,
as 1000 and 60000 do.

Fairness, in `mqtt_live` only. Weak fairness of `KeepaliveStep` and `CycleStep`:
the yielding thread calls yield in a loop. Weak fairness of `BrokerReceives` and
`ReconnectTimer`: a working broker and a running clock. Strong fairness of
`TcpConnected`: not all TCP connections the client asks for are refused for
ever; of `PingTimer` and `NodeTimeout`: a timer the client re-arms each time
expires between, and does not wait for the other steps of a busy loop.

## 4. `MqttSubscribe`

`call[t]` is where a thread is in `wrapper_mqtt_subscribe_sync` (`kind = "sync"`)
or `wrapper_mqtt_subscribe`: "send" before the packet identifier, "insert" before
the handler is on the list, "flag" before the test of `_in_yield_cb`, "node"
before the node of `list_sub_sync_ack`, then the loop "yield", "scan", "loop".
The code's one global `_in_yield_cb` is the condition `in_callback # NoThread`:
the model remembers whose callback is running, the code does not, and
`ReturnAtOnce` looks at no more than the code can. The list of handlers is a set:
the duplicate test makes it one, and no property is about its order. The list of
nodes is a sequence, because the scan ends at its first node. `Yields` excludes a
thread in a callback of its own: `wrapper_mqtt_subscribe_sync` then returns at
once. A topic is the sequence of its levels; the terminating NUL that
`MQTTUnsubscribe` counts is a mark on the last level (`CurTopic`), which agrees
with no level but "+" and "#".

Runs: `subscribe_sync` (680 thousand states) has two callers, a thread that
only yields, one filter, four identifiers and one lost connection: enough for both
callers to wait at the same time, for each to read the SUBACK of the other, for a
NACK and the retry after it, for a call that gives up while its SUBACK is in
flight, and for a second call that meets it. `MaxPacketId` is the bound on calls
(`IdsLeft`, `NoIdsLeft`): the real counter wraps after 65535, and a call lasts
seconds; `MaxFaults` limits lost connections. `unsubscribe` shows a finding. A
subscription made inside a callback returns at once and is not in this model.

What the model has and no property of it forbids, because the code promises
nothing else: a synchronous subscription returns success before its SUBACK when
any thread is in an event callback (`_in_yield_cb` belongs to nobody); a waiting
call misses its SUBACK when its node is not the first on the list, or was put
there after the SUBACK was read, and then times out. Both make a call return
early or late, neither makes it report another call's grant
(`WaitedSuccessIsGranted`).

## 5. `MqttReceive`

One connection from its bytes to the handlers. `unread` is what the broker wrote
and no read has returned; a byte knows the packet it belongs to and its part of
it. `pc` follows `iotx_mc_read_packet`: "header", "length" (one round of
`iotx_mc_decode_packet` per step, with its `multiplier`), "body", "drop" for the rest
of a packet longer than the buffer, then "dispatch" for the switch of `iotx_mc_cycle`. "torn" and
"lost" are the ends of a connection whose read ended inside a packet or failed.
Topics and filters are sequences of characters, because `infra_strtok` and
`iotx_mc_is_topic_matched` skip, miss and compare characters, and that is what the
properties are about. `Levels` are what lies between the slashes (`Cuts`), `Tokens` those
of them that `infra_strtok` returns; `IsTopicMatched` says where `curn` is when `curf` is
at each character of the filter. One handler is on the list; the default handler takes
what it does not match. `ReceiveAssumption` has the broker keep to MQTT: remaining
lengths of at most four bytes (`MaxLengthBytes`), no wildcard in the topic of a PUBLISH.

The properties compare this with what MQTT says: `HandledAsSent` says that packets
are cut where the broker cut them, also around one that fills the buffer and one
that is a byte too long; `DeliveredIsCovered` and `CoveredIsDelivered` compare
`IsTopicMatched` with the definition of a filter's meaning (`Covers`), each with
the condition under which the code keeps to it, stated at the property. The second
also asks that something happens: a covered PUBLISH that fits the buffer has been given
to the handler by the time the client is at the header of a later packet.

`receive_pass` (184 thousand states) takes as `Connections` every filter of up to
five characters with every topic of up to four and one of six, and every sequence
of three packets out of an empty one, a short one, one that fills the buffer, one
a byte longer and one far longer with two length bytes. `Radix = 4` stands for 128,
`MaxLengthBytes = 3` for 4, `MQTT_DYNBUF_RECV_MARGIN = 4` and `ReadMax = 10` for
the sizes of the buffer, `CONFIG_MQTT_TOPIC_MAXLEN = 5` makes a filter as long as
the limit and one longer occur. Each comparison of the code is met from both
sides. Deadlock is not checked: a connection ends torn, lost or fully read.

Left out: what is read after a torn packet (any byte is then taken for a header),
malformed packets, and the statics of `infra_strtok`, which threads that subscribe
at the same time share.

## 6. `FactoryRestore`

One module for three small components because what they get wrong or right is
common to them: the keys in flash. `kv` is the record of the four keys, `pc` the
progress of one boot, each write to flash a step, so that `PowerCut` may come
between any two. `q_rt` is read and written back in one step: nothing else
writes it before the boot has gone on, and a cut between the two is a cut before.
`streak` and `owed` are history: the boots in a row that did not outlive
their timer, and whether a report is owed to the cloud.

The timer `factory_clear` is armed before the boot is counted, and runs for
six seconds; the few writes of `factory_restore_handle` are over by then
(`pc \notin Booting`). `ReportTimer` fires while the device is online; fired
offline, its attempt would fail and arm it again.

`factory_pass` (66 thousand states) has two networks, one with a password
and one open, a threshold of two quick boots (`MaxTimes`), up to six power failures
(`MaxPowerCuts`), one switch of the access point (`MaxSwitches`) and two lost
messages (`MaxLosses`). Six failures allow a restore to be interrupted and then
done again twice over. Deadlock is not checked here: a device that was
given credentials no network takes waits for the user, and with
`MaxPowerCuts` used up nothing is left to happen.

Two behaviours of the model that no property forbids: the count of quick reboots
is deleted before the network, so that a power failure between the two loses the
restore the user asked for; and joining an open network writes the SSID only, so
that the next boot has the password of the network before.

Fairness, for `ResetIsReported`: the device is switched on again after a
power failure, the reboot after a switch happens, the software timers run, and
the cloud and the yielding thread handle what reaches them. No fairness of the
Wi-Fi: the property speaks only of a device that is online.

Left out: waking from deep sleep (never entered by this firmware), errors of the
flash, `awss_report_reset` (nothing calls it), `awss_stop_report_reset` (called
when the SDK is closed, by `awss_bind_deinit`), `conn_mgr_stop` (nothing calls it)
and `dev_reset.c`.

## 7. `LinkkitGateway`

The upstream half of the device model as a gateway uses it. `call[t]` is the call
of the API a thread is in; `pc` goes from the linkkit mutex ("lock") over the
request ("send", "cache", "cache_add") to the list of waiting calls ("insert"), the
semaphore ("wait"), its result ("take") or its time-out ("drop"), and "unlock". A
connect repeats this for "register" and "topo_add"; a login goes on with
"subscribe" and "subscribing", where the thread itself reads the network, a report of
its device information, and "completed", the callback of the application. `kind` and
`id` are the request under way, `ids` history: the requests of this call. `api` is the
thread that has the mutex of `dm_api.c` between two steps: while it files a request,
and during the subscriptions of a login (`iotx_dm_subscribe` waits for each SUBACK
with that mutex), when nobody else opens a device, sends or closes.

The dispatching thread is `disp`: in "yield" it reads and ticks the cache, in
"dispatch" it takes events off `ipc`, in "post" it has found the node of a waiting
call and holds `upstream_mutex`, in "callback" it is inside the application, which
may report in turn (`call[Dispatcher]`). `rx` is an answer between the search for
its cached message and its removal. Whoever reads holds `lock_yield`, so there is
one.

A step is a critical section. Three windows that the code leaves open are therefore
states: `dm_msg_cache_insert` tests the size before it locks the cache ("cache" and
"cache_add"); `dm_msg_cache_search` hands out a node it no longer protects (then
`Owners` allows any device); the answer may be queued, refused by the full queue or
expired while the call goes on to wait. Time is two expirations, `GrowsOld` and
`WaitTimesOut`, in either order. A request that did not leave the device is one the
cloud never answers. `panicked` ends a behaviour: `_iotx_linkkit_slave_connect` gives
the mutex back when its topology request fails, its caller does so again, and
FreeRTOS asserts when another thread holds it by then.

`_iotx_linkkit_subdev_login` calls `ITE_INITIALIZE_COMPLETED` in the thread that logs
in, which still has the linkkit mutex (`IOT_Linkkit_Report` gives it back after it),
and that mutex is not recursive. `InitializeCompleted` lets the callback return or
report. The report waits for the mutex of its own thread for ever, and every later call
waits too; `Reentered` names these states. The callback of this product
(`user_initialized` in `linkkit_solo.c`) only remembers that it was called. So
`CallsReturn` is a statement about applications whose callback does not call the API:
it holds of every behaviour up to the first such call. `CacheDrains` needs less, that
the dispatching thread does not come to wait for the lost mutex in a callback of its
own: until then it goes on to tick the cache.

`gateway_sync` (296 thousand states): one caller (`Callers`) beside the dispatching
thread, one sub-device, registered by its connect (`Provisioned = {}`), two requests
(`MaxId = 2`: the two of a connect, or a call and a report made in a callback), one
property set from the cloud (`MaxSets = 1`), and a cache and a queue of one
(`CacheMax`, `IpcMax`), so that the second message always finds them full. The caller
and the callback's report are the two threads that compete for each lock. More
callers are the proofs' business. Deadlock is not checked: with `MaxId` used up
nothing need happen.

Fairness, for `CallsReturn` and `CacheDrains`: weak for each thread and for the
clock; strong for taking the linkkit mutex, because a caller that loops over calls
that fail gives it back again and again and a waiting thread gets it in between
(with weak fairness alone TLC has the waiting thread starve).

Left out: connecting and closing the master, services, events, raw data, NTP, the
parsing of messages, permit-join and the topology list; `dm_msg_cache_deinit`, which
gives the mutex of the cache back in every round of its loop and is called when the
SDK ends.

## 8. `OtaUpgrade`

`state`, `type`, `expected` (the digest of the last push, as the file it is the
digest of), `ch_fetch`, `size_fetched` and `md5` are the handle of `iotx_ota.c`;
`hal`, `flash`, `boot`, `running` the partitions of `wrapper_ota.c`; `pc` the
dispatching thread between the status checks of `iotx_dm_dispatch` ("yield"), its
events ("dispatch") and the download in the application's callback ("fetch",
"write", "finish", "check", then "accepted", "rejected" or "stop"). A file is `Size`
blocks; the digest is the sequence of what went into it, and "end" is what finishing
it adds: a digest that was finished and used on is right for no file. `got` is
history: what this download fetched.

What makes this hard is in the model as it is in the code: a push of firmware resets
neither the digest nor the size; a push may come between any two steps of a download
when another thread reads MQTT while it logs a sub-device in (`OtherReader`), and the
download then goes on with the new file; a failed fetch leaves the state that allows
the check; a failed write is remembered only until the next one; and
`HAL_Firmware_Persistence_Stop` makes whatever was written the partition to boot if
it is an image, accepted or not. The last means that an image whose digest was
rejected is booted all the same: no property says otherwise, `AcceptedIsTheImage`
is about what the SDK reports, `RunningIsIntact` about what runs.

`ota_pass` (395 thousand states): two firmwares and a configuration (`Images`,
`Configs`) of two blocks (`Size`), three pushes (`MaxPushes`: one to succeed or fail,
one in the middle of it, one after), one other event and a queue of one (`MaxOthers`,
`QueueMax`: the announcement of a push is refused), one restart (`MaxBoots`). Deadlock
is not checked; the run ends when the pushes are used up. Fairness, for `UpgradeEnds`:
`WF(Dispatch)`, the thread runs and a fetch ends with data or, after its minute of
tries, with an error.

Left out: allocation failures (one in the application's callback leaves FETCHING for
ever, so that `UpgradeEnds` speaks of a device that has memory), the version and progress reports, requests for an upgrade
made by the device (their answers are pushes), the CoAP channel, `IOT_OTA_Deinit`.

## 9. `CoapServer`

`sendlist` and `count` are the list of sent messages; a node has its owner, its
message id, the retransmissions left and whether its deadline has passed. `no` numbers
the nodes, which stands for their order and tells two nodes with one id apart.
`list_mutex` and `obs_mutex` are the holders of the two mutexes between steps. `coap`
is the server's thread in `CoAPServer_yield`: reading, retransmitting, timing one
node out ("expire", "unhook" for its observer, "report" to its handler), or between the
lock and the end of a response ("answered"). `notify[n]`
is a campaign of `awss_notify.c`, which cancels its last request, sends the next and
files it; `scan` is the Wi-Fi scan timer that notifies the observers; `deinit` is
`CoAPServer_deinit` and its semaphore. The node is filed after the message is on the
air, so an answer may come before it. `message_id` wraps as the code does: it gives 1
twice.

A response of a phone finds its node by the token, which the model does not keep:
`Answer` takes any node. A notification stays on the list. A confirmable message leaves
it and is counted down under `list_mutex`; its handler hears `COAP_REQUEST_SUCCESS` in
`Answered`, without the mutex, and then the node is freed. The handler of switchap makes
nothing of that, so its wait is over only with an ACK or its time. After the handler of
a notification the code reads `node->keep`, which its notifier may have freed by then;
the model takes the outcome in which the memory is as it was.

Runs:

* `coap_safety` (449 thousand states): two notifiers, a phone that observes, a list of
  two (`MaxCount`), one retransmission (`Retries`), four messages (`MaxSends`) over two
  ids (`MaxId`), one of which the phone also uses (`PhoneIds`): ids repeat, the list is
  full, cancels, ACKs and responses hit other nodes. Symmetry over notifiers.
* `coap_live` (32 thousand states): as many ids as messages and one more for the phone,
  so that ids do not repeat (`MaxId = 5`, `MaxSends = 3`, `PhoneIds = {5}`), because
  `NotifierOwnsNode` is about that (section 11 proves it of all such constants); and
  nobody observes (`Observing = {}`), because of the next run.
* `coap_locks` (violated) lets the phone observe: see the findings.

Deadlock is not checked: the server ends, or, in the last run, stops.

Fairness: weak for the server's thread, each notifier, the scan, the end of
`CoAPServer_deinit` and each deadline; strong for `Unhook`, a thread waiting for a
mutex that is given back again and again, and for `ReadTimeout`: the network falls
silent for the 50 ms of `waittime` again and again, without which
`CoAPMessage_process` never returns.

Left out: the use of a context that was freed, and `CoAPServer_deinit` called twice
(no behaviour to specify); NON responses, which are on no list; the client side of
observing, whose list stays empty as long as no response to this device, which never
asks to observe, has the Observe option; the codec and the resources; the secure channel, which is not built;
allocation failures. A notifier that is stopped from outside races with its start
without a mutex; the model has the campaigns end by themselves.

## 10. Not modelled

* Token report (`awss_report.c`): one timer with a count of tries and a flag that the
  reply sets. Its identifier is a `char`, and a reply is compared with it as
  `reply_id + 1 < awss_report_id`; nothing says what should hold across the wrap.
  Its notifications over CoAP are in `CoapServer`.
* CM (`iotx_cm*.c`): a table through which each call reaches one connection. Validity
  and lookup are two critical sections; only closing the master comes between them,
  and the product closes it when its connect failed, with no other thread around.
* Wi-Fi provisioning: what it does depends on the frames on the air and on the
  vendor's sniffer. Stopping it frees memory that the sniffer's callback and the
  scanning thread still use (`aws_destroy`), which has no defined outcome to specify.
* TSL, shadow of property values, topic tables, MQTT and CoAP codecs, JSON, HTTP,
  digests: data transformed without a choice between orders of events. The parts of
  the MQTT codec on which framing depends are in `MqttReceive`.
* `impl_gateway.c` and `impl_solo.c`: the deprecated API over the same calls.
* Infrastructure and wrappers: the models use what they promise (non-recursive
  mutexes, one timer task, flash writes that happen or do not).
* Application and board code: start-up order, GPIO, PWM, the command line.
* `nghttp2`, `cJSON`, mbedTLS and the other libraries are vendored; `coap_cloud`,
  `http` and `http2` are in no build.

To be done, in this order: the walk over the handlers that lets go of `lock_generic`
around each callback while another thread unsubscribes (`iotx_mc_deliver_message`);
closing the master while other threads are in the API; reading on after a torn packet.

## 11. Proofs

All of them hold for every number of threads, messages, identifiers, networks,
sub-devices and failures, from the named assumptions on the constants only
(`ClientAssumption`, `SubscribeAssumption`, `RestoreAssumption`,
`GatewayAssumption`, `OtaAssumption`, `CoapAssumption`, `ReceiveAssumption`), which ask
for no more than that limits are numbers, minimum before maximum, sets of threads finite
where their size matters, fillers are not values, and, of `MqttReceive`, that the broker
keeps to MQTT.

Every invariant and every action property of the runs that pass is the conclusion of a
theorem. Two theorems have a hypothesis, which is named at them below.

`MqttClientProofs`

* `TypeCorrect`. `TypeOK` is not inductive: what is sent must be known to be a
  message with an identifier (`SenderOK`), and what the broker takes for a
  PUBLISH to carry one (`ToBrokerOK`).
* `ConnectedClientHasSocket`, `ConnectedClientIsAnnounced`, by `LinkInv`:
  the socket is closed only after CONNECTED was left, and nothing sets CONNECTED
  again until a CONNACK came on the new one. A publisher that reports an old
  failure late only ever moves away from CONNECTED.
* `WaitIsLimited`, `WaitGrows`, by `WaitInv`, which relates the interval, that
  doubles without a limit, to the wait, that is capped.

`MqttDeliveryProofs`

* `RefusedStaysAway`, by `RefusalInv`: what is on the list, in flight or received
  was accepted, and no two threads are about to send the same message.
* `ReuseNeedsAWrap`, by `IdInv`: until as many identifiers were issued as there
  are, the counter equals the number issued and bounds every identifier anywhere.
* `AcceptedIsKept`, by `DeliveryInv`: while no identifier was reused, one
  identifier is used by one message among nodes, senders and packets
  (`IdsExclusive`, `IdsAgree`), a PUBACK in flight or an INVALID node means that the message has
  arrived (`AckedArrived`), and so what is removed is not lost (`Kept`).
  Without the condition the property does not hold: a late PUBACK of the first
  user of an identifier marks the node of the second. `ReuseNeedsAWrap` says how
  many publishes that takes.
* `PendingIsLimited`, by `PendingInv`: masking and restarting nodes never
  adds one (`FS_Surjection`), and the insertion tests the size under the lock.
* `ImplementsContract`: `Spec /\ [](~reused)` implements `AtLeastOnce` under the
  refinement mapping `Abstract`. Each step maps to `Accept`, `Deliver`, `Settle`
  or a stutter; the lemma `StepCases` sorts the steps first into those that
  touch publishing and the quiet ones.

`MqttSubscribeProofs`

* `TypeCorrect`, `WaitedSuccessGranted`, `NodesOwned`, from one invariant of four
  parts. `CallsInv`: a call that waited and succeeded has a granted identifier, no
  two calls share one (`RetsDiffer`), and the identifiers still to be issued suffice
  for the calls that will want one. `NodesInv`: every node belongs to a call that
  waits, nodes differ in their identifier, and one that says SUCCESS is granted.
  The scan removes the node it reports, whichever place it has (`Without`); a call
  that gives up removes its own.

`FactoryRestoreProofs`

* `TypeCorrect`; `FlagsOK` and `DataOK` split the type into two-valued variables
  and the rest.
* `RestoreIsReported`, by `ReportInv`: the flag stands from before the first
  erasure until a reply is read, and a reply is under way only when the cloud
  has heard.
* `RestoreNeedsQuickReboots`, by `CountInv`: the count in flash never exceeds the
  boots in a row, and is behind by one until this boot is counted.

`LinkkitGatewayProofs`

* `TypeCorrect`, `SuccessGranted`, `PostOnLive`, `CacheWithinBound`, from one
  invariant. `CallsInv` (`CallOK`): every request a call made before the present one
  was granted, and no two calls have one identifier (`IdsDiffer`), so that no node is
  written with another's answer. `NodeInv`: a waiting call has its node, whose result
  says "granted" only when the cloud did - it starts as success, so it counts only
  once its semaphore was posted - and a node is being posted exactly while
  `upstream_mutex` is held. `EventsInv`: the same of what is on its way there, answers,
  queue and time-outs. `ApiInv`: a thread between the size test and the insertion, or
  subscribing, holds the mutex of `dm_api.c`, and nobody else makes the cache grow.

`OtaUpgradeProofs`

* `TypeCorrect`, by `TypeInv`.
* `RunningStaysIntact`: writing goes to the spare partition only, and otadata moves
  there only when it holds an image.
* `AcceptedImages`, by `DownloadInv`: what a download fetched begins with a first
  block (`StartsOver`), a check comes after something was fetched (`Fetched`), the
  digest ends with what this download fetched or holds blocks of a configuration
  (`DigestInv`), and what is expected is a firmware (`ImageExpected`). A digest that is
  right for `Size` blocks of a firmware then is what was fetched.

`CoapServerProofs`

* `TypeCorrect`, `ListCounted` by `NodesInv`: nodes differ in their number, the list
  is finite and each of the removals (cancel by id, ACK, response, timeout) takes from
  the counter what it takes from the list, also a cancel that hits several nodes with
  one id.
* `KeptRemembered` by `KeptInv`: a notifier has a node only while idle, and it is the
  one whose id it remembers.
* `HeardOnce` by `HeardInv`: a handler hears a result only after its node left the
  list, and a node in the hands of the thread (`InHand`: being timed out, or answered)
  is neither on it nor heard.

* `OnlyOwnersCancel`: `NotifierOwnsNode`, a cancel by id takes the request of the
  notifier that cancels and nobody else's. It has the hypothesis `IdsDoNotRepeat`:
  fewer messages than ids, and phones that use others. Without it the property is
  false, since after a wrap of `message_id` two nodes have one id. By `RoomInv`, a
  count: what was sent, what notifiers and scan are about to send and the observers
  still to be notified fit into `MaxSends`, and every id was paid for with a message
  that was sent or is being filed. So an id that is given is above every one on the
  list (`OwnIds`), and a remembered one belongs to the node of its notifier (`StillKept`).

`MqttReceiveProofs`

For every stream, that is, any number of packets of any length, any base of the length
digits and any buffer, and for filters and topics of any length.

* `TypeCorrect`, `PacketsHandledAsSent` by `FramingInv`: where in the stream the
  reading thread is. What is unread is the end of the stream (`UnreadIsRest`); `Start[k]`
  is where the bytes of packet k begin; `Framed` puts the client, for each `pc`, at the
  start of a packet, so many digits behind it, at its body, or at its end, with every
  packet before it handled (`HandledUpTo`). Inside a length, the digits read and the
  number m that the remaining ones stand for make the length sent: `rem_len + m *
  multiplier` (`LengthSoFar`). `HandledAsSent` alone is not inductive: it speaks of
  headers only, and says nothing of where the reads inside a packet end.
* `HandlersGetWhatTheyCover`, `CoveredReachTheHandler`: `DeliverySorted` says that the
  comparison decides who is given a PUBLISH, and that a handled one is given to someone;
  two theorems about the comparison do the rest. `MatchedIsCovered`: a filter that
  `iotx_mc_check_topic` let in and that the comparison matches covers the topic.
  `CoveredIsMatched`: under the conditions of `CoveredIsDelivered` the converse. Both
  go along the filter level by level: a cut of the filter meets a cut of the topic
  (`LevelsInStep`, `CoveringIsRead`), and between two cuts the comparison reads one level
  of each (`LevelIsRead`). `CheckedIsClean` is what `CheckTopic` is good for: a wildcard
  is alone in its level, also in a level that `infra_strtok` does not see, because that
  one is a single character.

Recursive functions (`LengthBytes`, the `curn` of `IsTopicMatched`) and `FlattenSeq` need
induction. Theorems of the library that take a predicate cannot be used, so it is
stated for sets of numbers instead (`NumbersFromZero`, from `LeastNumber`, which
follows from a well-foundedness that the library has for finite subsets), and
`RecursionOnNumbers` gives the function that a recursion over numbers defines.

Model-checked only: the liveness properties (`AcceptedIsDelivered`,
`StaysConnected`, `ResetIsReported`, `CallsReturn`, `CacheDrains`, `UpgradeEnds`,
`ResponsesSettle`, `DeinitEnds`), which need fairness and `ENABLED`, out of
the prover's reach.

## 12. Findings

Each is a run that TLC ends with a counterexample; `PROJECT.json` quotes the lines.

* `unsubscribe`: the handler of a plain filter stays, that of a covering wildcard
  goes, because the topic is compared with its terminating NUL.
* `coap_locks`: `Check_timeout` takes the mutex of the observers inside that of the
  list, `CoAPObsServer_notify` takes them the other way round; the two threads wait
  for each other and `CoAPServer_deinit` for ever.

Sections 4, 6, 7 and 8 name further behaviours that the models have and that a reader
of the code may not expect; there no line of the repository says that they should not
be. Two more are in `MqttClient` and `MqttReceive`: `keepalive_probes` outlives the
connection whose pings it counted, so that a working one may be given up after one
ping; and after a packet that was longer than the buffer `packetType` is what the
stack held, so that the switch of `iotx_mc_cycle` may take any of its branches
(`DropRest`), which `HandledAsSent` therefore does not ask of such packets.

## 13. Running

    tlc -workers 2 -config MCMqttClient_safety.cfg MCMqttClient
    tlapm LinkkitGatewayProofs.tla

The longest run (`gateway_sync`) takes about a minute and a half on two cores, the
longest proof (`MqttReceiveProofs`) two and a half minutes on four.
