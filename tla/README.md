# TLA+ verification of hs_bgw, a BLE to MQTT gateway

The firmware runs on an ESP32 under FreeRTOS. It joins a Wi-Fi network (set up
over Bluetooth, "BLUFI"), keeps an MQTT session, and while the session is up
scans for BLE devices. This directory holds TLA+ models of its core, the TLC
runs that check them and TLAPS proofs about them.

## 1. The system

### Tasks

| task | code | what it does |
|---|---|---|
| app_main | `bgs_main.c` | start-up, then polls `ble_ota_flag` every second |
| event loop | `ixe_blufi.c` | Wi-Fi and IP events; posts to `event_queue` |
| MQTT client | esp-mqtt, `mqtt_event_cb` | session events and messages; posts to `event_queue` |
| Bluetooth | `gap_cb`, `esp_gattc_cb` | BLE events; posts to `event_queue` |
| timer daemon | heartbeat, queue and purge timers | posts; dequeues BLE operations; purges |
| blegw_task | `blegw_handle_event` | the only consumer of `event_queue` |
| others | BLE update, key, LED, time | see below |

`event_queue` has ten slots; every producer waits for ever when it is full.

### Components, their state, and what makes them correct

| component | state | operations | interacts through | what is hard | what must hold |
|---|---|---|---|---|---|
| gateway control (`bgs_main.c`) | `event_queue`, static tables | one handler per event | the queue; calls on MQTT and BLE | late events, full queue, resets | scanning, client and subscriptions follow session and station; the task never stops |
| MQTT module (`bgs_mqtt.c`) | two linked lists, flag, handle | subscribe, unsubscribe, publish, connect, disconnect, callbacks | the client's lock; callbacks | unlocked lists of two tasks | memory is sound; messages reach subscribers; publications go out at most once |
| BLE central (`bgs_ble.c`, `bgs_ble_utils.c`) | device list, operation queue, timers, `scan_requested` | scan, connect, close, requests | semaphore; stack events | unlocked queue of three tasks, freed devices | the queue moves; open links are known; scanning resumes |
| provisioning (`ixe_blufi.c`) | station state, BLUFI session, who has the Bluetooth stack | Wi-Fi events, start, stop, take-over, custom data | `event_queue`, Bluetooth stack | events before the queue exists, half a stop, stops that overlap | one user of the stack, with all of it, and always a next one |
| BLUFI commands, security | parameters, key buffer | set, query | parameter store | untimely sessions | what is answered is what is stored |
| parameter store (`ixe_params.c`) | RAM copies, NVS blobs | load, save, factory reset | NVS | failed and interrupted saves | RAM and flash agree after a restart |
| BLE update (`ixe_ble_ota.c`) | control value, flags, OTA handle | GATT writes; polling task | shared globals | polling against writes, broken sessions | one answer per request; only a complete image boots |
| HTTPS and MQTT update, configuration (`ixe_ota.c`, `bgs_ota.c`, `bgs_config.c`) | download state, partitions | version check, download, switch | not in this build | retries, power loss | the active partition is complete |
| socket, key, LED (`soc01/`) | pin queue, watering data | key scan, commands | interrupt queue, parameter store | level read later than the edge | a long press is not a short one |

What this build leaves out although the code is there: connecting to BLE
devices and scanning their services (calls commented out in `bgs_main.c`), the
MQTT subscriptions that would write characteristics, updates over MQTT and
HTTPS. `PROJECT.json` lists every component with its status, and the hazards
with the properties that cover them.

## 2. The models

### Gateway (`Gateway.tla`, `MCGateway.tla`)

The queue and everything that posts to it, `blegw_task`, and the part of the
MQTT, BLE and BLUFI state its handlers touch. One step is one call that touches
shared state; `gw` names the next call of the handler that is running, so that
Wi-Fi events, MQTT callbacks, timers and handlers interleave between any two
calls. Correspondence:

* `queue`, `Room`, `Post`: `event_queue` and `xQueueSend(.., portMAX_DELAY)`.
* `ev`, `mq`: an event whose callback waits for a slot. While `mq` is set the
  client's task holds its lock (`ClientFree`), as esp-mqtt does in callbacks.
* `Handler` and the actions after it: the cases of `blegw_handle_event` and the
  functions they call, in their order. `mqtt_subscribe` and `mqtt_unsubscribe`
  are split where they call the client, because the list is changed after or
  before that call and the client's callback can run in between.
* `bt`: who owns the Bluetooth controller; `esp_bt_controller_init` refuses one
  that is not idle, and `ESP_ERROR_CHECK` aborts (`Fail`). A missing semaphore
  or queue asserts. `Reboot` is the reset that follows.

Assumed of libraries: calls on the client take its lock; destroying the client
waits for its task; a call fails when there is no client or no session (a send
that fails on a connection not yet known to be lost is left out);
`esp_mqtt_client_init` may return NULL. `ota_unsubscribe` in `cleanup` changes
nothing here, as its topics are never subscribed to. The takeover of the
controller by the BLE update and an `ixe_blufi_stop` that fails half way are in
Provisioning.

### MQTT module (`Mqtt.tla`, `MCMqtt.tla`, `Outbox.tla`)

The same module at the grain of its pointers: each read or write of a list's head, of
an entry's `next` field, each `malloc` and `free` is a step of the application's task
or of the client's task. `heap` holds the entries ever allocated; entry numbers are
not used again, so any access to a freed entry is seen, sets `ub` and ends the
behaviour. `raced` is a history variable: which pairs of calls of the two tasks that
the lists do not survive have overlapped (`Overlap` lists them). The properties say
that nothing else goes wrong: `mqtt_subscribe` during a message, for one, is safe.
`ClientSends` is `esp_mqtt_client_publish`, which may refuse any publication, in the
call and in the flush alike (`refused` is a history variable): the flush ignores its
result and frees the entry. So a queued publication is kept until a flush has offered
it to the client (`QueuedUntilOffered`), and not until it is published. `Outbox` is
the abstract promise of `mqtt_publish`, at most one delivery of each publication;
`Mqtt` implements it under the mapping `accepted <- ToSet(accepted)`, `delivered <-
sent`, checked as the property `PublishesAtMostOnce`, with every overlap included.

### BLE central (`Ble.tla`, `MCBle.tla`)

The device cache, the operation queue with its timer, scanning and the link
events. The caller is any that uses what `bgs_ble.h` exports; in this build only
scanning and `ble_disconnect_all` are called, so what concerns operations is
about code that waits for its callers. Operations are numbered as they are
enqueued, by the one task that enqueues, and each is linked behind the last, so
the list is always in the order of the numbers: `queue` is the set of them, its
head the least. The queue is not locked:
`ble_operation_enqueue` is split into walk, link and check, and
`ble_operation_dequeue` into reading the head, unlinking it, and each call of
`ble_operation_perform`, its recursion included. An operation whose device has
been freed keeps `device` saying how, and using it sets `ub`. Removing a
device's operations is one step (races inside that loop are not explored; the
queue's other races are). The timer daemon runs one callback at a time.
Assumed of the stack: calls take effect in order; a request on an open link is
answered exactly once, with an error if the link is lost; a request on a link
that is gone is not answered; opening a link that is up succeeds.

### Update over BLE (`BleOta.tla`, `MCBleOta.tla`)

The write handlers of the GATT server (Bluetooth task), `ble_ota_task` and one
client that follows the protocol, disconnects when it likes and tries again. The
task is split at each access of what it shares with the handlers: poll,
`esp_ota_begin`, `updating = true`, indication, clearing of `ota_ctrl_val`;
`updating = false`, `esp_ota_end`, switch, indication. A write of data is split
into its two looks at `updating` and the flash write. `partition` holds what was
written through the current handle, in units; `Copied` is the `memcpy` of
`packet_size` bytes, which cuts a longer value and takes what lies behind a
shorter one. `Complete` is the library's validation, `clean`, `faulty`, `unread`
and `lost` are history variables. Assumed: a GATT write is handled before the
client's next one; an indication reaches the client that is connected; there is
one client (advertising stops while it is connected). Left out: attribute
tables, prepared writes, whose buffer nothing reads, and the packet counter.

### Provisioning (`Provisioning.tla`, `MCProvisioning.tla`)

Who has the Bluetooth stack. BLUFI, the gateway's client and the server of the
BLE update bring it up, and take it down from each other, in three tasks:
`app_main` (`ixe_blufi_start`, `ixe_ble_ota`), the event loop (`ixe_blufi_stop`
on GOT_IP) and `blegw_task` (`ble_initialize`). `pc` names for each task the
function it is in and the next call of `Calls`; a step is one call, which
succeeds, is refused or fails, with each function's own way of going on
(`GoesOn`, `ErrorExit`, `AfterStop`, `EspErrorCheck`). The Wi-Fi driver, the
event loop's queue and the phone's requests (`Phone` and the actions after it,
the cases of `ixe_blufi_event_callback` and of the commands that touch the
driver) make the events that start all this. `failed` and `overlapped` are
history variables. Assumed of the libraries: a call of the stack out of order is
refused; a call that fails changes nothing; `esp_bluedroid_disable` waits for the
callback that is running; a blocking scan ends whether or not the event loop
gets to its event; a scan is refused while the station connects or is stopped;
connecting without a configuration raises no event. `x_wifi.wifi_onoff` is free at
start-up (Params has its value). Left out: reports to the phone, what
STA_CONNECTED saves (Params), access-point mode, `esp_wifi_set_mode` by a phone,
encryption, lack of memory. `NETWORK_DISCONNECTED` is one step here, the calls
between are Gateway's.

### The reset key (`KeyScan.tla`, `MCKeyScan.tla`)

The interrupt puts an entry in `gpio_evt_queue` at each edge, or drops it when
the queue is full; `Receive`, `ReadLevel`, `Pressed` and `Lifted` are
`bgs_key_scan`, split where the key can move or time can pass. `AsInt` is the
assignment of 64-bit microseconds to an `int`. Behaviours end with the result:
the chip restarts, and starts again in `Init`, perhaps with the key down.
Assumed: the task catches up within `Latency` ticks, fewer than a long press. What
the presses do is in Params. `downAt`, `longest` and `bounced` are history
variables.

### Parameters (`Params.tla`, `MCParams.tla`)

`x_wifi` and `x_ble` in RAM, their blobs in `nvs`, and the three tasks that
write them without a lock: the Bluetooth task with the BLUFI commands, the event
loop with the access point it joined, the key task with the factory reset; and
`app_main`, which loads them. The writes of one handler that another task can
see half done are steps of their own: `dev_zone` is cleared and then written,
`sta_bssid` comes before `sta_ssid`, the save comes last. Every read, save and
erasure may fail, and power may be lost between any two steps. Assumed:
`nvs_set_blob` and `nvs_erase_key` reach the flash as a whole and before they
return (`nvs_commit` then has nothing left to do); the Wi-Fi driver keeps its
configuration in flash and connects to it. `failed`, `spoiled`, `intruded` and
`fresh` are history variables. Left out: the erasure of all of NVS when `ixe_ble`
has another length, the commands that only query.

### Updates over MQTT and the configuration store (`Update.tla`, `MCUpdate.tla`)

This code is not compiled in the present build (`main/CMakeLists.txt`, the `#if 0` in
`ota_on_mqtt`); it is modelled as written. `ota_download` starts a task per download;
`ota_ctx` is theirs and `blegw_task`'s without a lock. `Download` is `ota_on_mqtt`
with `ota_open`; `Data`, `Begin` and `Write` are `ota_write` for one chunk of the
body, for the configuration (`config_update_begin`, `config_update_write`) and the
firmware (`esp_ota`); `Close`, `TakeHandle`, `End` and `Report` are the rest of
`ota_task`, split where another download can come between. `Reset` is the boot loader
with `config_initialize`, after the restart a success asks for (`OnCompleted`) or
after a loss of power. `flash` records for each chunk the download it is from, so that
a mixture is seen; `handles` keeps freed handles, so that their use is seen, sets `ub`
and ends the behaviour. The server may have the file, one that is longer than the
partition, or an error page, or answer that nothing changed; the client may give up at
any chunk. `ImageLen`, the chunks of a partition, is at least two: an error page, one
chunk long, is no configuration. `overlapped`, `write_failed`, `oversized` and `last`
are history variables. Assumed: `esp_ota_end` accepts only a whole image and knows its
handles; `nvs_set_u8` switches at once; a configuration that is whole can be loaded,
another one perhaps, and what cannot be mounted is formatted
(`format_if_mount_failed`). Left out: reading values from the configuration, version
hashes, lack of memory. A task takes `ops` and `handle` in `ota_close` in one step.

## 3. The runs

| run | bounds | shows |
|---|---|---|
| `gateway` | queue of 3 | `TypeOK`; `ScanFollowsSession`: once every event is handled, scanning, the flag, both subscription lists agree with the session; `NoClientWithoutStation`; `GatewayReturns`: the gateway task comes back to its queue for ever, or ends in one wait cycle; `SessionLeadsToScan` |
| `gateway_reassociation` | queue of 3 | violated: the second association since a reset aborts |
| `gateway_stopped` | queue of 3 | violated: an MQTT event queued before the stop starts scanning after it |
| `mqtt` | 2 topics, 2 publications, 3 entries | `MemorySound`, `MessageReachesSubscribers`, `QueuedUntilOffered`, refinement of `Outbox` |
| `mqtt_order` | 1 topic, 2 publications, 2 entries | violated: queued publications leave in reverse order |
| `ble` | 2 devices, 3 operations | `NoStall`, `MemorySound`, `LinksKnown`, `RequestsKeepDevice`, `RequestedScanResumes` |
| `ble_ota` | image of 3, packets of 1 and 2, 4 attempts | `CompleteImageBoots`, `DataIsData`, `CleanSessionInstalls`, `HandleSound`, `AnsweredOrLost` |
| `params` | one access point, zone, name and key besides the defaults | `StoredIsCurrent`, `StoredWholeUnlessOverlap`, `ResetBringsBlufi` |
| `update` | partitions of 3 chunks, 2 downloads | `ActiveIsWhole`, `FirmwareBoots`, `SuccessInstalls`, `HandleSound` |
| `provisioning` | 2 events, 1 queue slot | `UserHasStack`, `FlagIsBlufis`, `OwnerKeepsBluetooth`: one user at a time, with a whole stack, until it is taken; `AssociationReachesGateway`, `BluetoothServed`, `ListRequestEnds`: there is always a next one |
| `provisioning_failure` | 2 events, 1 queue slot | violated: a first association that fails resets the chip |
| `key_scan` | queue of 2, long press 3 ticks, ints from -8 to 7, latency 2, 20 ticks | `KeyFollowed`, `ResultMatchesHold` |

**Bounds.** Gateway's state is finite for each queue length. Three slots hold a
session's end, its return and a network event behind the one being handled, and the
proof below removes the bound for the properties it covers; liveness needs no more
than a queue that can be full and not full. In Provisioning two events wait behind the
one in the event loop's hands, as many as one attempt to connect raises; one slot of
`event_queue` makes the event loop wait for `blegw_task`, which ten would not at two
kinds of network events. In KeyScan a queue of two overflows within the task's
latency, and time runs past where the difference of two times turns negative (8 ticks)
and positive again (16). Three entries are the least with a first, a middle and a last
one, or a list of one topic twice and a second topic; a flush of two publications
re-queues one while the other waits. Three operations are a head, a last one and one
that is taken; two devices let one close while the other's operations wait. An image
of three in packets of two ends with a short packet, and a stale size is once too
short and once too long; four attempts are a broken one, the one it spoils, and two
more after refusals. Two downloads let one open while the other is being ended, or
follow it with or without a restart; three chunks let a file break off, or lose a
chunk, at its start, inside and at its end. One new value of each parameter tells old
from new and half-written from whole, which is all the properties ask. Topics,
publications and devices are interchangeable and are used as symmetry sets, in runs
without liveness.

**Deadlock** is checked in `params` only. Gateway really can stop: the gateway task waits for
the client's lock, whose holder waits for a slot only the gateway task can free
(`WaitCycle`), and in a run of TLC's that state has no successor once the
timers wait too. In Mqtt, Ble, BleOta and Update a memory error ends the behaviour, and the
bounds on entries, operations and attempts stop the rest. Provisioning stops when
nothing is configured and nobody sends anything; KeyScan ends with the restart.

**Fairness** (`FairSpec` of Gateway). Every task is scheduled: weak fairness of
start-up and of the reset. The gateway task competes for the client's lock and
the MQTT task for queue slots with others that use them again and again, hence
strong fairness of `BlegwTask` and `MqttPost`: FreeRTOS hands a slot to the
waiting task of highest priority, and the client's task releases its lock in
every round of its loop. Nothing is assumed of Wi-Fi, the server or devices.
In BleOta `ble_ota_task`, though of priority 0, and the Bluetooth task run on
(weak fairness), as every task of the program blocks again and again; the
client and the power supply promise nothing. In Provisioning the four tasks run on,
the chip starts again after a reset, and attempts to connect and scans end, as the
driver times them out (weak fairness: a task that waits in `esp_bluedroid_disable`
or for a slot waits for something no other task takes from it). Nothing is assumed
of the phone and the access point.

**Mutants.** Each property of a passing run has a mutant: a definition next to
the one it would replace, whose comment starts with "Bug:". With it the property
fails.

## 4. What the runs found

1. *Re-association aborts* (`bgs_main.c:490`). `ble_initialize` runs on every
   NETWORK_CONNECTED; after Wi-Fi was lost and regained, the controller is
   already up, and the gateway resets. So ended, in this build, is every
   reconnection of a gateway that has been connected before.
2. *A late MQTT event acts after the stop* (`bgs_main.c:207`).
3. *Queued publications leave last in, first out* (`bgs_mqtt.c:285`).
4. *A first association that fails resets the chip* (`bgs_main.c:186`). The
   handler of NETWORK_DISCONNECTED takes `devices_list_semaphore`, which only the
   first NETWORK_CONNECTED creates. With a wrong password in the driver's flash the
   chip resets at each start, a few seconds after it; a phone that is to correct the
   password over BLUFI has that long.

The passing properties state more limits of the code: the wait cycle of
`GatewayReturns`, the overlaps of `Mqtt!Overlap`, and the request on a link that is
gone, after which the BLE queue stands still (`NoStall`). `NoStall` also takes a READ
that is refused for authentication for one that is being answered: it is made again at
each refusal (`bgs_ble.c:905-916`), for ever if the device goes on refusing, and the
queue waits behind it. `QueuedUntilOffered` ends with the offer: the flush ignores
what `mqtt_publish` returns (`bgs_mqtt.c:318`) and frees the list (`:422`), so a
queued publication that the client refuses, because the session has gone again or
memory is short, is lost. Those of `BleOta` name three: after a session that was cut
off, the next client's packet size is taken for data and its image is cut to the old
size (what `clean` excludes from `CleanSessionInstalls`; its second attempt, after the
refusal, is clean); a write can use a freed handle when a session begins while the
last one's OTA_DONE is pending (`HandleSound`); and a value written between an answer
and the line that clears `ota_ctrl_val` is lost (`AnsweredOrLost`). Those of `Params`:
a save by one task stores what the other has half written, and a loss of power right
then leaves it so (`spoiled`); the resets erase blobs but not the copies in RAM, and
as `x_datas.restart` is set but never read, a reset by BLUFI, which does not restart
the device, is undone by the next save; a name set by BLUFI is not saved until a key
is; and a long press restores the driver's configuration only if `wifi_onoff` is 1.
Those of `Update`: a configuration handle is used after it was freed as soon as one
write fails (`HandleSound`); a download that opens while the last one is being ended
mixes with it (`overlapped`); and as a configuration is accepted by its size alone, a
file longer than the partition that loses its end, or the first chunk when erasing
fails, is accepted (`oversized`).

Those of `Provisioning`: a call of the stack that fails by itself leaves the device
without Bluetooth, as nothing tries again (`failed` in `BluetoothServed`); a stop of
BLUFI by GOT_IP that overlaps the update's takes down what came up in between
(`overlapped`), and a `ble_initialize` that the update interrupts aborts or registers
the client on the server's stack; a scan is refused, and its ESP_ERROR_CHECK aborts,
when the event loop has reconnected during GET_WIFI_LIST's `sleep(1)`, or after a
reset to the factory's parameters over BLUFI has stopped Wi-Fi; a phone's request to
connect or disconnect while the station is connecting resets the chip as in 4; a
second request for an update, sent while the first is being taken, stops and restarts
the server and starts a second `ble_ota_task`; GOT_IP during an update makes
`ble_initialize` abort. Those of `KeyScan`: a bounce at the release starts the time
again, so a long press can count as short (`bounced`), and so does one of more than
35.8 minutes, 2^31 microseconds; a key held while the chip starts is ignored; and the
comment before the comparison says one second (`bgs_socket_util.c:231`) where the code
has two.

Where the model takes a step and ends (`ub`, `abort`), no property says that the step
does not happen: an event before `event_queue` exists (`bgs_main.c:633`), the device
that OPEN_EVT does not find (`bgs_ble.c:812`), an attempt to connect whose device has
been purged. `PROJECT.json` marks these hazards, and those that a property names as
its exception.

Two limits of Ble concern a build whose application connects to devices, and
follow from its source without a run: `scan_requested` is tested
(`bgs_ble.c:797`) and acted upon without a lock, so `ble_scan_stop` in between
leaves the controller scanning; and a request enqueued between `bgs_ble.c:829`,
which removes the requests of a closed device, and `:831`, which removes the
device, is left with a dangling pointer.

## 5. The proofs

`GatewayProofs.tla` proves, for every `QueueLen` in `Nat \ {0}`:

* `TypeCorrect`: `Spec => []TypeOK`;
* `SessionFollowed`: `Spec => []ScanFollowsSession`.

`ScanFollowsSession` speaks of a drained queue only, so it is not inductive. The
invariant `IInv` says what holds with events still on their way. It looks at the
verdicts in flight, the MQTT_CONNECTED and MQTT_DISCONNECTED events raised and
not yet taken, those of the queue first and then the one being posted:

* `FreshInv`: until `ble_initialize` and `mqtt_connect` have run, nothing of a
  session exists and no verdict is in flight.
* `SubsInv`: how far a handler has got with the subscription list.
* `FlightInv`: what the verdicts in flight say of the session. A connection in
  the queue is followed by a disconnection before the next one, the last verdict
  agrees with the session, the flag is the session's.
* `TakenInv`: what the gateway task has made of the verdicts it took. When the
  first verdict in flight is a connection, the state is clean or being cleaned;
  when none is in flight, scanning, list and server are what the session
  requires, up to the calls the running handler has still to make.

`InvInit` and `InvStep`, with one step per action, show that `IInv` is inductive;
`Invariance` and the two theorems follow by PTL. The lemmas before them say what
`RemoveFirst` does to a list, and `Append` and `Tail` to the verdicts of a queue. The
only assumption is `QueueLenAssumption`. `IInv` implies `ScanFollowsSession`; TLC had
found no state of a queue of three that violates it before it was proved.

* `ClientNeedsStation`: `Spec => []NoClientWithoutStation`. `DownInv` says that while
  the station has no address, a NETWORK_DISCONNECTED is being posted, or is the last
  network event of the queue, or the gateway task has taken it: no network event is
  queued, the handler is not at `ble_initialize` or `mqtt_connect`, and the client is
  gone or the handler is about to destroy it.

`BleOtaProofs.tla` proves, for every image length, set of packet sizes and number
of attempts (`BleOtaAssumption`: lengths and sizes are positive):

* `TypeCorrect`: `Spec => []TypeOK`;
* `PacketsAreData`: `Spec => []DataIsData`;
* `AlwaysBootable`: `Spec => []CompleteImageBoots`.

Its `IInv` adds to the types: `SendingInv`, that while a client sends, neither
`ota_ctrl_val` nor the task is about to end an update, so `updating` stays set;
`StageInv`, that there is no task without the server; and `ImageInv`, that the
partition that runs and the one that boots are complete, that the one being
written is complete when the task goes to switch, and that the two differ only
between the switch and the restart, so that no beginning overwrites what boots.
`CompleteAppend` is the lemma about `memcpy`'s result being written after a
complete image. `PacketsAreData` is needed for the types: a packet size is one
that a client announced only because data is never taken for one.

* `HandleUse`: `Spec => []HandleSound`;
* `CleanSession`: `Spec => []CleanSessionInstalls`.

Both need what a clean session has done so far: `TurnInv`, whose turn it is (while
the client sends, the task has answered and has nothing to act on); `OpenInv`, that
the handle is open and the partition empty when the first packet comes; `SizeInv`,
that the packet size is this client's; `ContentInv`, that what has been written,
with the packet in hand, is the beginning of the image, and all of it when the
client is done.

`ParamsProofs.tla` proves all four properties of Params, for any sets of access
points, zones, names and keys (`ParamsAssumption`: what `memset` leaves and the
factory setting are told from what a phone sets): `TypeCorrect`, `StoredCurrent`,
`StoredWhole` and `LongPressBringsBlufi`. Its `IInv` adds `ArgInv`, what each task
has in hand; `WholeInv`, that only a task at work leaves the copy in RAM half
written; `CurrentInv`, `StoredIsCurrent` from the moment a blob has been read; and
`ResetInv`, that an erased blob stays so, or holds defaults, until the next start
is through. Each part has one lemma with one step per action.

`UpdateProofs.tla` proves all invariants of Update, for every number of downloads and
every partition of two chunks or more (`UpdateAssumption`). `ActiveIsWhole` says of
flash what only handles can change, so `IInv` is about handles and their owners:
`OneDownload`, that `in_progress` keeps a second download from opening while one is
between `ota_open` and `ota_close`; `HandlesInv`, that no firmware handle reaches the
firmware that runs; `HandleInv`, that each download at work owns a valid handle
(unless a failed write has freed it), that what it has written so far is its chunks in
order, and that a configuration's handle does not reach the active partition;
`ReportInv` and `LastInv`, that a success stays what boots from the switch to the next
download. The history variables are the exceptions the properties name.

`ProvisioningProofs.tla` proves the three invariants of Provisioning and the action
property `OwnerKeepsBluetooth`, for any bounds on events and slots. `MoverInv`: at most
one task is in a function that moves the stack, and the stack is between the calls of
that function which are done and those which are not. `FlagInv`: while
`ixe_blufi_started` is set nobody else has begun to bring the stack up, or the stop
that has taken it down is at its last line. `OverlapInv`: the event loop's stop runs
with the flag up, or overlaps that of `app_main`, which the history variable records.
`BootInv` is about the time before `start_blegw_task`. `Kinds` splits the steps into
six kinds; each part has one lemma over the kinds.

`BleProofs.tla` proves all six invariants of Ble, for any number of devices and
operations: `TypeCorrect`, `QueueNeverStalls`, `MemorySoundAlone`, `LinksInCache`,
`ScanComesBack` and `RequestsHaveDevice`. None is inductive. `HandInv`: an operation
that is off the queue and not freed or lost is in the hands of exactly one task
(`Hand`), which the recursion's `hold` is part of; so no task frees what another one
has. `PendingInv` and `OpsInv`: what the stack will answer keeps its type and device.
`QueueInv`: as long as no two tasks have been on the queue at once, each finds there
what it has read (the last operation of its walk, the one it linked, the head it will
unlink). `PumpInv`: operations other than the one just linked have somebody who will
take the next one. `LinkInv`: the device of a CLOSE_EVT or a failed OPEN_EVT being
handled is not linked. `ScanInv`: `ble_scan_stop` ends with the flag down.
`RequestsHaveDevice` has an invariant of its own on top of `IInv`, `DeviceInv`: a
request to a cached device is one to an open device; an open device has a link, or a
CLOSE_EVT of it to come or being handled; a failed attempt has none, so what it frees
is not open. Each action has a lemma that it keeps `IInv`, from one lemma per part on
what a step must respect. TLC had checked `IInv` on the run `ble` first; the `IInv` of
the other modules likewise.

`KeyScanProofs.tla` proves both invariants of KeyScan, for every length of the queue,
every latency below a long press and every range of an int: `KeyKnown` and
`ResultTrue`. `Difference` is the lemma about ints: a difference of two times is never
more than it should be, and right if it fits. `TimeInv`: the clock was read at a time
tp, of which `backup_time` is the int, and at tp, or a latency later, the key was still
down. `CleanInv`: without a bounce, tp is within a latency of the press too.

`MqttProofs.tla` proves the four invariants of Mqtt and its refinement, for any topics
and messages and any number of entries, with every access of the two tasks a step of
its own: `TypeCorrect`, `MemorySafe`, `MessageReaches`, `QueueKeptUntilOffered` and
`PublishedOnce`, `Spec => Box!Spec`. The assumptions are that the number of entries is
a natural number and that no entry is both subscription and publication
(`KindsAssumption`: the code has two types). A list is described by the set L of its
entries. As entries are numbered in the order of their malloc, and
`mqtt_subscription_add` appends while `mqtt_publication_add` puts at the head, next is
the least greater number of L in the one list and the greatest less one in the other,
and no step needs an induction along the list.

* `Control` and `Typed`: which steps a call has, and types, locals included.
* `SubInv`, until "subs" has been raced: where each task stands on the list, which
  subscribers a message has yet to reach (none is behind it), and that every
  subscription in use is on the list or in hand.
* `PubInv`, always: the list, from the entry a flush is about to unlink, descends and
  ends in 0 or in `d`, an entry that the flush has freed, or is freeing, while
  `mqtt_publish` was linking in front of it. An entry whose content has been sent, or
  copied back into a new entry because the flag was cleared, is only behind the flush
  (`StaleIn`, `FreshBefore`); this gives at-most-once even for overlaps that corrupt
  the list. `PubClean` and `PubTried` add what holds without overlaps: what is
  behind the flush has been sent or refused.
* `PubPending`: a publication being linked can overlap a flush only so that the entry
  taken last is still the head.
* `FlagInv`: during a flush the flag is down only because of a `mqtt_disconnect` that
  has not ended.
* `OnceInv`: what is sent, or in an entry, was accepted, and what `mqtt_publish` has in
  hand is neither.

`PubFrame` and `SubFrame` say that steps on one list keep what is said of the other;
each step of each call has a lemma. `PublishedOnce` maps `mqtt_publish` to Outbox's
Accept, a publication that leaves, from the call or from the flush, to Deliver, and
every other step to a stutter. That a list in use is never lost (`MemorySafe`) takes the
least-number principle: every entry of L but the first has a predecessor in L. TLC had
checked every part of this `IInv` on instances of three and four entries before it was
proved.

So every safety property of the passing runs is a theorem. Only model-checked is
liveness (`GatewayReturns`, `SessionLeadsToScan`, `AnsweredOrLost`,
`AssociationReachesGateway`, `BluetoothServed`, `ListRequestEnds`), as the prover does
not cover fairness.

## 6. Not modelled, and the plan

The plan is carried out; what would come next is a reason for liveness that can be
proved: that a measure of each run's progress decreases with every step of a fair task.

Not modelled:

* the update over HTTPS (`ixe_ota.c`): not compiled, its task is not started
  (`bgs_main.c:826`), and it shares nothing with the other tasks;
* the socket product's commands and watering timers (`bgs_socket_cmd.c`,
  `bgs_socket_util.c`): called only with `PRODUCT_ISE`, which `ixe_main.h:12`
  leaves commented out, and from a task that is not started (`bgs_main.c:828`);
* a composition of Gateway's queue with Ble's semaphore, for a second wait cycle
  that a build which connects to devices would have: nothing here calls it;
* cryptography (`ixe_blufi_security.c`), formatting of topics, payloads and names,
  LEDs, SNTP, the vendored `esptool.py`.
