---------------------------- MODULE Provisioning ----------------------------
(***************************************************************************)
(* Who has the Bluetooth stack (main/ixe_blufi.c; app_main and blegw_task  *)
(* in main/bgs_main.c; ble_initialize in main/bgs_ble.c; ixe_ble_ota in    *)
(* main/ixe_ble_ota.c).  Three users bring it up and down:                 *)
(* BLUFI, over which a phone sets up Wi-Fi, the gateway's BLE client once  *)
(* the station has an address, and the server of the BLE update.           *)
(*                                                                         *)
(* Tasks: main is app_main, loop the default event loop, bt the Bluetooth  *)
(* task with the BLUFI callback, gw blegw_task.  One step is one call of   *)
(* the stack or of the Wi-Fi driver, or one look at a shared flag.         *)
(*                                                                         *)
(* The stack: a call out of order is refused, any other may fail and then  *)
(* changes nothing; esp_bluedroid_disable waits for the Bluetooth task.    *)
(* The driver: connecting without a configuration fails and raises no      *)
(* event, an attempt ends, a scan is refused while connecting or stopped.  *)
(***************************************************************************)
EXTENDS Integers, Sequences

CONSTANTS
    LoopLen,        \* bound: events waiting for the event loop (32 in the code)
    QueueLen        \* slots of event_queue for network events (10 in the code)

ASSUME LengthsAssumption == LoopLen \in Nat \ {0} /\ QueueLen \in Nat \ {0}

VARIABLES
    pc,                 \* for each task the function it is in, and its call
    stack,              \* the controller and the host (Bluedroid): 0 none, 1 initialised, 2 enabled
    user,               \* whose profile and callbacks the running host serves
    ixe_blufi_started,
    ble_ota_flag,
    configured,         \* the driver has an access point in its flash
    station,            \* the driver's state
    scanning,
    events,             \* Wi-Fi and IP events waiting for the event loop
    queue,              \* network events in event_queue
    initialized,        \* ble_initialize has returned: devices_list_semaphore exists
    abort,              \* why the chip is about to reset, or "none"
    failed,             \* history: a call of the stack has failed by itself
    overlapped          \* history: the event loop's ixe_blufi_stop overlaps app_main's, or has

btVars == <<stack, user, ixe_blufi_started, failed>>
wifiVars == <<configured, station, scanning>>
vars == <<pc, btVars, wifiVars, ble_ota_flag, events, queue, initialized, abort>>

Tasks == {"main", "loop", "bt", "gw"}
Aborts == {"no_queue", "no_semaphore", "ble_initialize", "scan_refused"}
Events == {"STA_START", "DISCONNECTED", "GOT_IP", "SCAN_DONE", "SCAN_EMPTY"}

Enable == <<"controller_init", "controller_enable", "bluedroid_init", "bluedroid_enable", "register">>

CallsNoDeinit ==            \* Bug: the controller is left initialised
    [ixe_blufi_start |-> Enable \o <<"profile_init">>,
     ixe_blufi_stop  |-> <<"profile_deinit", "bluedroid_disable", "bluedroid_deinit",
                           "controller_disable">>,
     ixe_ble_ota |-> Enable, ble_initialize |-> Enable]

(* The calls of each function, in their order; each has one exit for the   *)
(* first that fails.  "register" stands for the registration of callbacks  *)
(* and applications.                                                       *)
Calls == [ixe_blufi_start |-> Enable \o <<"profile_init">>,
          ixe_blufi_stop  |-> <<"profile_deinit", "bluedroid_disable", "bluedroid_deinit",
                                "controller_disable", "controller_deinit">>,
          ixe_ble_ota     |-> Enable,
          ble_initialize  |-> Enable]

At(f) == [in |-> f, call |-> 1]
In(t, f) == pc[t].in = f
Fresh == [t \in Tasks |-> At(IF t = "main" THEN "app_main" ELSE "idle")]
Down == [controller |-> 0, host |-> 0]
Goes(t, f) == pc' = [pc EXCEPT ![t] = At(f)]
Alive == abort = "none"

----------------------------------------------------------------------------
(* Power-on or reset, up to the return of ixe_initialise_wifi: STA_START   *)
(* is on its way.  The driver keeps its configuration in flash.            *)
Init ==
    /\ pc = Fresh
    /\ stack = Down
    /\ user = "none"
    /\ ixe_blufi_started = FALSE
    /\ ble_ota_flag = FALSE
    /\ configured \in BOOLEAN
    /\ station = "idle"
    /\ scanning = FALSE
    /\ events = <<"STA_START">>
    /\ queue = <<>>
    /\ initialized = FALSE
    /\ abort = "none"
    /\ failed = FALSE
    /\ overlapped = FALSE

(* abort() and a failed assertion: what is not in flash is lost ...        *)
Fail(cause) ==
    /\ abort' = cause
    /\ pc' = Fresh
    /\ stack' = Down
    /\ user' = "none"
    /\ ixe_blufi_started' = FALSE
    /\ ble_ota_flag' = FALSE
    /\ station' = "idle"
    /\ scanning' = FALSE
    /\ events' = <<"STA_START">>
    /\ queue' = <<>>
    /\ initialized' = FALSE
    /\ failed' = FALSE
    /\ UNCHANGED configured

(* ... and the chip starts again.                                          *)
Reboot ==
    /\ ~Alive
    /\ abort' = "none"
    /\ UNCHANGED <<pc, btVars, ble_ota_flag, wifiVars, events, queue, initialized>>

----------------------------------------------------------------------------
(* The Wi-Fi driver.                                                       *)
Connect ==
    \/ station' = IF station = "idle" /\ configured THEN "connecting" ELSE station
    \/ scanning /\ station' = station

(* Bound: no more than LoopLen events wait, the end of a requested scan    *)
(* included.                                                               *)
Raise(e) ==
    /\ Len(events) < LoopLen - IF In("bt", "idle") THEN 0 ELSE 1
    /\ events' = Append(events, e)

(* esp_wifi_disconnect and esp_wifi_stop, and a link that is lost: only a  *)
(* station that was connecting or connected raises the event.              *)
Leave(to) ==
    /\ station' = to
    /\ IF station \in {"connecting", "connected"}
       THEN Raise("DISCONNECTED")
       ELSE UNCHANGED events

Associated ==
    /\ Alive /\ station = "connecting"
    /\ station' = "connected"
    /\ Raise("GOT_IP")
    /\ UNCHANGED <<pc, btVars, ble_ota_flag, configured, scanning, queue, initialized, abort>>

(* A wrong password, no such access point, or a link that is lost.         *)
StationLost ==
    /\ Alive /\ station \in {"connecting", "connected"}
    /\ Leave("idle")
    /\ UNCHANGED <<pc, btVars, ble_ota_flag, configured, scanning, queue, initialized, abort>>

ScanEndsWhenHandled(found) ==       \* Bug: the Bluetooth task waits for the handler of the event
    /\ Alive /\ scanning /\ In("loop", "idle")
    /\ scanning' = FALSE
    /\ events' = Append(events, IF found THEN "SCAN_DONE" ELSE "SCAN_EMPTY")
    /\ Goes("bt", "idle")
    /\ UNCHANGED <<btVars, ble_ota_flag, configured, station, queue, initialized, abort>>

(* The end of a scan frees the Bluetooth task, which waits for it.         *)
ScanEnds(found) ==
    /\ Alive /\ scanning
    /\ scanning' = FALSE
    /\ events' = Append(events, IF found THEN "SCAN_DONE" ELSE "SCAN_EMPTY")
    /\ Goes("bt", "idle")
    /\ UNCHANGED <<btVars, ble_ota_flag, configured, station, queue, initialized, abort>>

AttemptEnds == Associated \/ (station = "connecting" /\ StationLost)

Driver == Associated \/ StationLost

----------------------------------------------------------------------------
(* The calls of ixe_blufi_start, ixe_blufi_stop, ixe_ble_ota and           *)
(* ble_initialize.                                                         *)
Move == [controller_init    |-> [of |-> "controller", from |-> 0, to |-> 1],
         controller_enable  |-> [of |-> "controller", from |-> 1, to |-> 2],
         bluedroid_init     |-> [of |-> "host", from |-> 0, to |-> 1],
         bluedroid_enable   |-> [of |-> "host", from |-> 1, to |-> 2],
         bluedroid_disable  |-> [of |-> "host", from |-> 2, to |-> 1],
         bluedroid_deinit   |-> [of |-> "host", from |-> 1, to |-> 0],
         controller_disable |-> [of |-> "controller", from |-> 2, to |-> 1],
         controller_deinit  |-> [of |-> "controller", from |-> 1, to |-> 0]]

Allowed(c) ==
    IF c \in DOMAIN Move
    THEN /\ stack[Move[c].of] = Move[c].from
         /\ c = "bluedroid_init" => stack.controller = 2
    ELSE stack.host = 2

UserAfter(c, f) ==
    CASE c = "profile_init" -> "blufi"
      [] c = "register" /\ f = "ixe_ble_ota" -> "server"
      [] c = "register" /\ f = "ble_initialize" -> "client"
      [] c = "profile_deinit" /\ user = "blufi" -> "none"
      [] c = "bluedroid_disable" -> "none"
      [] OTHER -> user

AfterStopChecked(t) ==      \* Bug: the event loop goes on only when the stop has succeeded
    IF t = "main" THEN "ixe_ble_ota" ELSE IF stack = Down THEN "_network_on_connected" ELSE "idle"

(* Where the two callers of ixe_blufi_stop go on, whatever it returned.    *)
AfterStop(t) == IF t = "loop" THEN "_network_on_connected" ELSE "ixe_ble_ota"

NextCall(t) == pc' = [pc EXCEPT ![t].call = @ + 1]

Succeeds(t, c) ==
    /\ Allowed(c)
    /\ stack' = IF c \in DOMAIN Move THEN [stack EXCEPT ![Move[c].of] = Move[c].to] ELSE stack
    /\ user' = UserAfter(c, pc[t].in)
    /\ NextCall(t)
    /\ UNCHANGED <<ixe_blufi_started, failed, ble_ota_flag, wifiVars, events, queue,
                   initialized, abort>>

GoesOnInStop(t, c) ==               \* Bug: ixe_blufi_stop does not return when a call fails
    \/ In(t, "ixe_blufi_start") /\ c \in {"controller_init", "profile_init"}
    \/ In(t, "ixe_blufi_stop")

(* ixe_blufi_start goes on when the controller's initialisation fails, and *)
(* does not look at the profile's.                                         *)
GoesOn(t, c) == In(t, "ixe_blufi_start") /\ c \in {"controller_init", "profile_init"}

ErrorExit(t) ==
    CASE In(t, "ixe_blufi_start") -> "start_blegw_task"
      [] In(t, "ixe_blufi_stop") -> AfterStop(t)
      [] In(t, "ixe_ble_ota") -> "poll"

Refused(t, c) ==
    /\ failed' = (failed \/ Allowed(c))
    /\ IF GoesOn(t, c) THEN NextCall(t) ELSE Goes(t, ErrorExit(t))
    /\ UNCHANGED <<stack, user, ixe_blufi_started, ble_ota_flag, wifiVars, events, queue,
                   initialized, abort>>

Calling(t) == Alive /\ pc[t].in \in DOMAIN Calls /\ pc[t].call <= Len(Calls[pc[t].in])

StackCall(t) ==
    /\ Calling(t)
    /\ LET c == Calls[pc[t].in][pc[t].call] IN
           /\ c = "bluedroid_disable" /\ Allowed(c) => In("bt", "idle")
           /\ Succeeds(t, c) \/ (t # "gw" /\ Refused(t, c))

(* ble_initialize has ESP_ERROR_CHECK around its calls.                    *)
EspErrorCheck == Calling("gw") /\ Fail("ble_initialize")

Done(t, f) == Alive /\ In(t, f) /\ pc[t].call > Len(Calls[f])

----------------------------------------------------------------------------
(* app_main.  Params has the value of x_wifi.wifi_onoff that decides.      *)
StartBlufi ==
    /\ Alive /\ In("main", "app_main")
    /\ \E f \in {"ixe_blufi_start", "start_blegw_task"} : Goes("main", f)
    /\ UNCHANGED <<btVars, wifiVars, ble_ota_flag, events, queue, initialized, abort>>

BlufiStarted ==
    /\ Done("main", "ixe_blufi_start")
    /\ ixe_blufi_started' = TRUE
    /\ Goes("main", "start_blegw_task")
    /\ UNCHANGED <<stack, user, failed, wifiVars, ble_ota_flag, events, queue, initialized, abort>>

StartBlegwTask ==
    /\ Alive /\ In("main", "start_blegw_task")
    /\ Goes("main", "poll")
    /\ UNCHANGED <<btVars, wifiVars, ble_ota_flag, events, queue, initialized, abort>>

(* The endless loop; ixe_ble_ota begins with ixe_blufi_stop and ends with  *)
(* the task of the update, ble_ota_task (BleOta has the rest).             *)
Poll ==
    /\ Alive /\ In("main", "poll") /\ ble_ota_flag
    /\ ble_ota_flag' = FALSE
    /\ Goes("main", "ixe_blufi_stop")
    /\ UNCHANGED <<btVars, wifiVars, events, queue, initialized, abort>>

BleOtaStarted ==
    /\ Done("main", "ixe_ble_ota")
    /\ Goes("main", "poll")
    /\ UNCHANGED <<btVars, wifiVars, ble_ota_flag, events, queue, initialized, abort>>

BlufiStoppedForgets(t) ==           \* Bug: the flag stays set
    /\ Done(t, "ixe_blufi_stop")
    /\ Goes(t, AfterStop(t))
    /\ UNCHANGED <<btVars, wifiVars, ble_ota_flag, events, queue, initialized, abort>>

(* The end of ixe_blufi_stop.                                              *)
BlufiStopped(t) ==
    /\ Done(t, "ixe_blufi_stop")
    /\ ixe_blufi_started' = FALSE
    /\ Goes(t, AfterStop(t))
    /\ UNCHANGED <<stack, user, failed, wifiVars, ble_ota_flag, events, queue, initialized, abort>>

Main == Reboot \/ StartBlufi \/ BlufiStarted \/ StartBlegwTask \/ Poll \/ BleOtaStarted
            \/ BlufiStopped("main") \/ StackCall("main")

----------------------------------------------------------------------------
(* The default event loop.                                                 *)
QueueExists == pc["main"].in \notin {"app_main", "ixe_blufi_start", "start_blegw_task"}

Take(e) ==
    /\ Alive /\ In("loop", "idle")
    /\ events # <<>> /\ Head(events) = e
    /\ events' = Tail(events)

(* WIFI_EVENT_STA_START, and WIFI_EVENT_SCAN_DONE with its list sent.      *)
ConnectOn(e) ==
    /\ Take(e)
    /\ Connect
    /\ UNCHANGED <<pc, btVars, configured, scanning, ble_ota_flag, queue, initialized, abort>>

(* WIFI_EVENT_SCAN_DONE, "Nothing AP found".                               *)
NothingFound ==
    /\ Take("SCAN_EMPTY")
    /\ UNCHANGED <<pc, btVars, wifiVars, ble_ota_flag, queue, initialized, abort>>

(* WIFI_EVENT_STA_DISCONNECTED, and IP_EVENT_STA_GOT_IP up to its sleep(1).*)
StaDisconnected ==
    /\ Take("DISCONNECTED")
    /\ Goes("loop", "_network_on_disconnected")
    /\ UNCHANGED <<btVars, wifiVars, ble_ota_flag, queue, initialized, abort>>

GotIp ==
    /\ Take("GOT_IP")
    /\ Goes("loop", "got_ip")
    /\ UNCHANGED <<btVars, wifiVars, ble_ota_flag, queue, initialized, abort>>

GotIpAlwaysStops ==         \* Bug: ixe_blufi_started is not tested
    /\ Alive /\ In("loop", "got_ip")
    /\ Goes("loop", "ixe_blufi_stop")
    /\ UNCHANGED <<btVars, wifiVars, ble_ota_flag, events, queue, initialized, abort>>

GotIpStopsBlufi ==
    /\ Alive /\ In("loop", "got_ip")
    /\ \/ ixe_blufi_started /\ Goes("loop", "ixe_blufi_stop")
       \/ /\ ~ixe_blufi_started
          /\ Goes("loop", "_network_on_connected")
    /\ UNCHANGED <<btVars, wifiVars, ble_ota_flag, events, queue, initialized, abort>>

(* The callbacks post, and assert when start_blegw_task has not created    *)
(* the queue yet.                                                          *)
RoomOffByOne == Len(queue) <= QueueLen      \* Bug

Room == Len(queue) < QueueLen

Post(e) ==
    /\ QueueExists /\ Room
    /\ queue' = Append(queue, e)
    /\ Goes("loop", "idle")
    /\ UNCHANGED <<btVars, configured, scanning, ble_ota_flag, events, initialized, abort>>

NoQueue == ~QueueExists /\ Fail("no_queue")

OnConnected ==
    /\ Alive /\ In("loop", "_network_on_connected")
    /\ NoQueue \/ (Post("NETWORK_CONNECTED") /\ UNCHANGED station)

(* After a disconnection the station connects again.                       *)
OnDisconnected ==
    /\ Alive /\ In("loop", "_network_on_disconnected")
    /\ NoQueue \/ (Post("NETWORK_DISCONNECTED") /\ Connect)

Loop ==
    \/ ConnectOn("STA_START") \/ ConnectOn("SCAN_DONE") \/ NothingFound
    \/ StaDisconnected \/ GotIp \/ GotIpStopsBlufi
    \/ StackCall("loop") \/ BlufiStopped("loop")
    \/ OnConnected \/ OnDisconnected

----------------------------------------------------------------------------
(* The Bluetooth task: ixe_blufi_event_callback on what the phone sends.   *)
Phone ==
    /\ Alive /\ In("bt", "idle")
    /\ user = "blufi"

(* RECV_STA_SSID, RECV_STA_PASSWD: esp_wifi_set_config.                    *)
SetConfig ==
    /\ Phone
    /\ configured' = TRUE
    /\ UNCHANGED <<pc, btVars, station, scanning, ble_ota_flag, events, queue, initialized, abort>>

(* REQ_CONNECT_TO_AP: esp_wifi_disconnect, esp_wifi_connect.               *)
RequestConnect ==
    /\ Phone
    /\ Leave(IF station = "off" THEN "off" ELSE IF configured THEN "connecting" ELSE "idle")
    /\ UNCHANGED <<pc, btVars, configured, scanning, ble_ota_flag, queue, initialized, abort>>

(* REQ_DISCONNECT_FROM_AP, and GET_WIFI_LIST up to its sleep(1): bound: it *)
(* comes while there is room for the scan's end.                           *)
Disconnect(next) ==
    /\ Phone
    /\ Leave(IF station = "off" THEN "off" ELSE "idle")
    /\ next = "get_wifi_list" => Len(events') < LoopLen
    /\ Goes("bt", next)
    /\ UNCHANGED <<btVars, configured, scanning, ble_ota_flag, queue, initialized, abort>>

(* GET_WIFI_LIST after its sleep(1): esp_wifi_scan_start, blocking, under  *)
(* ESP_ERROR_CHECK.                                                        *)
ScanStart ==
    /\ Alive /\ In("bt", "get_wifi_list")
    /\ \/ /\ station \in {"off", "connecting"}
          /\ Fail("scan_refused")
       \/ /\ station \in {"idle", "connected"}
          /\ scanning' = TRUE
          /\ Goes("bt", "scan")
          /\ UNCHANGED <<btVars, configured, station, ble_ota_flag, events, queue, initialized, abort>>

(* ixe_handle_set_wifi: esp_wifi_start, or esp_wifi_connect.               *)
SetWifiStart ==
    /\ Phone /\ station = "off"
    /\ station' = "idle"
    /\ Raise("STA_START")
    /\ UNCHANGED <<pc, btVars, configured, scanning, ble_ota_flag, queue, initialized, abort>>

SetWifiConnect ==
    /\ Phone
    /\ Connect
    /\ UNCHANGED <<pc, btVars, configured, scanning, ble_ota_flag, events, queue, initialized, abort>>

(* ixe_handle_reset_factory: esp_wifi_stop, esp_wifi_restore, no restart.  *)
ResetFactory ==
    /\ Phone
    /\ Leave("off")
    /\ configured' = FALSE
    /\ UNCHANGED <<pc, btVars, scanning, ble_ota_flag, queue, initialized, abort>>

SetBleOta ==
    /\ Phone
    /\ ble_ota_flag' = TRUE
    /\ UNCHANGED <<pc, btVars, wifiVars, events, queue, initialized, abort>>

PhoneSends ==
    \/ SetConfig
    \/ RequestConnect
    \/ \E next \in {"idle", "get_wifi_list"} : Disconnect(next)
    \/ SetWifiStart \/ SetWifiConnect
    \/ ResetFactory \/ SetBleOta

BtTask == ScanStart \/ \E found \in BOOLEAN : ScanEnds(found)

----------------------------------------------------------------------------
(* blegw_task; what else its handlers do is in Gateway.                    *)
NetworkConnected ==
    /\ Alive /\ In("gw", "idle")
    /\ queue # <<>> /\ Head(queue) = "NETWORK_CONNECTED"
    /\ queue' = Tail(queue)
    /\ Goes("gw", "ble_initialize")
    /\ UNCHANGED <<btVars, wifiVars, ble_ota_flag, events, initialized, abort>>

BleInitialized ==
    /\ Done("gw", "ble_initialize")
    /\ initialized' = TRUE
    /\ Goes("gw", "idle")
    /\ UNCHANGED <<btVars, wifiVars, ble_ota_flag, events, queue, abort>>

(* ble_disconnect_all takes devices_list_semaphore, which ble_initialize   *)
(* creates.                                                                *)
NetworkDisconnected ==
    /\ Alive /\ In("gw", "idle")
    /\ queue # <<>> /\ Head(queue) = "NETWORK_DISCONNECTED"
    /\ \/ ~initialized /\ Fail("no_semaphore")
       \/ /\ initialized
          /\ queue' = Tail(queue)
          /\ UNCHANGED <<pc, btVars, wifiVars, ble_ota_flag, events, initialized, abort>>

Gw == NetworkConnected \/ StackCall("gw") \/ EspErrorCheck \/ BleInitialized \/ NetworkDisconnected

----------------------------------------------------------------------------
Step == Driver \/ Main \/ Loop \/ PhoneSends \/ BtTask \/ Gw

Overlaps ==
    overlapped' = /\ pc'["loop"].in = "ixe_blufi_stop"
                  /\ overlapped \/ pc'["main"].in = "ixe_blufi_stop"

Next == Step /\ Overlaps

Spec == Init /\ [][Next]_<<vars, overlapped>>

(* Every task runs on, the chip starts again after a reset, and attempts   *)
(* to connect and scans end.  Nothing is assumed of the phone.             *)
Fairness ==
    WF_vars(AttemptEnds) /\ WF_vars(Main) /\ WF_vars(Loop) /\ WF_vars(BtTask) /\ WF_vars(Gw)

FairSpec == Spec /\ Fairness

----------------------------------------------------------------------------
(* Properties                                                              *)

(* Every variable holds a value of its kind; the queues are bounded.       *)
TypeOK ==
    /\ DOMAIN pc = Tasks
    /\ stack \in [controller : 0..2, host : 0..2]
    /\ user \in {"none", "blufi", "client", "server"}
    /\ {ixe_blufi_started, ble_ota_flag, configured, scanning, initialized, failed, overlapped}
            \subseteq BOOLEAN
    /\ station \in {"off", "idle", "connecting", "connected"}
    /\ events \in Seq(Events) /\ Len(events) <= LoopLen
    /\ queue \in Seq({"NETWORK_CONNECTED", "NETWORK_DISCONNECTED"}) /\ Len(queue) <= QueueLen
    /\ abort \in Aborts \cup {"none"}

(* Whoever the host serves has a whole stack under it: no bring-up that    *)
(* was broken off, and no late step of a stop, leaves a profile on half a  *)
(* stack.                                                                  *)
UserHasStack == user # "none" => stack = [controller |-> 2, host |-> 2]

(* GOT_IP stops the stack while ixe_blufi_started says it is BLUFI's: once *)
(* the client or the update server has it the flag is down, or the stop    *)
(* that clears it is at its last line.                                     *)
FlagIsBlufis ==
    user \in {"client", "server"} /\ ixe_blufi_started =>
        \E t \in {"main", "loop"} : Done(t, "ixe_blufi_stop")

(* The gateway's client and the update's server keep the stack until the   *)
(* next reset, or until app_main takes it for an update.  Two late steps   *)
(* can disturb them: a stop of BLUFI by GOT_IP that overlapped the         *)
(* update's may have calls left, and a ble_initialize that the update      *)
(* interrupted registers the client on the server's stack.                 *)
OwnerKeepsBluetooth ==
    [][(user \in {"client", "server"}) =>
            \/ user' = user \/ ~Alive'
            \/ In("main", "ixe_blufi_stop") \/ In("main", "ixe_ble_ota")
            \/ overlapped
            \/ user = "server" /\ In("gw", "ble_initialize")]_vars

(* An address leads to the gateway's BLE client, or to a reset: whatever   *)
(* fails in ixe_blufi_stop, and whatever app_main is doing to the stack,   *)
(* the gateway does not go on without Bluetooth.                           *)
AssociationReachesGateway == In("loop", "got_ip") ~> user = "client" \/ ~Alive

(* A device that can be reached at all, over Wi-Fi or BLUFI, does not stay *)
(* without a user of Bluetooth: starts, stops and take-overs lead to the   *)
(* next user or to a reset.  The exception is a call of the stack that     *)
(* fails by itself: nothing tries again then.                              *)
BluetoothServed ==
    user = "none" /\ (configured \/ In("main", "ixe_blufi_start") \/ In("main", "ixe_blufi_stop"))
        ~> user # "none" \/ ~Alive \/ failed

(* GET_WIFI_LIST blocks the Bluetooth task in its scan, for which a stop   *)
(* waits in the event loop that handles the scan's end: neither waits for  *)
(* ever.                                                                   *)
ListRequestEnds == In("bt", "get_wifi_list") ~> In("bt", "idle")

(* "This is a workaround as ESP32 WiFi libs don't currently                *)
(* auto-reassociate" (ixe_blufi.c): an association that fails or is lost   *)
(* is tried again, and does not reset the chip.                            *)
FailureRetried == abort # "no_semaphore"
=============================================================================
