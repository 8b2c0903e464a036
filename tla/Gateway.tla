------------------------------ MODULE Gateway ------------------------------
(***************************************************************************)
(* The control plane of the gateway firmware: the tasks that raise events, *)
(* the bounded FreeRTOS queue they post to, and blegw_task, the only       *)
(* consumer, which turns each event into calls on the MQTT and BLE         *)
(* modules (main/bgs_main.c with the state of main/bgs_mqtt.c,             *)
(* main/bgs_ble.c and main/ixe_blufi.c those calls touch).                 *)
(*                                                                         *)
(* Tasks: app_main (main), the default event loop (ev), the MQTT client's  *)
(* task (mq), blegw_task (gw).  The timer daemon and the Bluetooth task    *)
(* only add events.  One TLA+ step is one call of the code that touches    *)
(* shared state, so every interleaving of the tasks between calls is       *)
(* explored.                                                               *)
(***************************************************************************)
EXTENDS Integers, Sequences, SequencesExt

CONSTANT QueueLen           \* xQueueCreate(10, ...) in start_blegw_task

ASSUME QueueLenAssumption == QueueLen \in Nat \ {0}

VARIABLES
    main,             \* app_main: before, inside or after its start-up calls
    abort,            \* why the program aborted, "none" while it runs
    bt,               \* owner of the Bluetooth controller and host stack
    station,          \* Wi-Fi station as the event loop task knows it
    ev,               \* event the event loop task is posting, or "idle"
    queue,            \* event_queue
    gw,               \* next call of blegw_task, or "idle"
    client,           \* mqtt_handle: "none" is NULL, else the client's session
    mqtt_connected,   \* the flag of bgs_mqtt.c
    mq,               \* event the MQTT task's callback is posting, or "idle"
    subs,             \* subscription_list
    broker,           \* topics the server has subscribed in this session
    scan_requested    \* the flag of bgs_ble.c

netVars == <<main, bt, station, ev>>
mqttVars == <<client, mqtt_connected, subs, broker>>
vars == <<main, abort, bt, station, ev, queue, gw, client, mqtt_connected,
          mq, subs, broker, scan_requested>>

(* management_subscribe's two topics: <ble_name>/Restart, BLE2MQTT/Restart *)
Topics == {"own", "all"}

MqttEvents == {"MQTT_CONNECTED", "MQTT_DISCONNECTED", "RESTART_TRUE",
               "RESTART_OTHER"}
NetworkEvents == {"NETWORK_CONNECTED", "NETWORK_DISCONNECTED"}
EventTypes == MqttEvents \cup NetworkEvents
                \cup {"HEARTBEAT_TIMER", "BLE_DEVICE_DISCOVERED"}

Calls == {"idle", "ble_initialize", "mqtt_connect",
          "mqtt_disconnect", "mqtt_destroy",
          "ble_disconnect_all", "ble_scan_stop",
          "unsubscribe_own", "client_unsubscribe_own",
          "unsubscribe_all", "client_unsubscribe_all",
          "subscribe_own", "add_own", "subscribe_all", "add_all",
          "ble_scan_start", "restart"}

----------------------------------------------------------------------------
Alive == abort = "none"
Runs == Alive /\ abort' = abort

(* Bug: the MQTT_CONNECTED case is missing.                                *)
HandlerNoConnected(e) ==
    CASE e = "NETWORK_CONNECTED"    -> "ble_initialize"
      [] e = "NETWORK_DISCONNECTED" -> "mqtt_disconnect"
      [] e = "MQTT_DISCONNECTED"    -> "ble_disconnect_all"
      [] e = "RESTART_TRUE"         -> "restart"
      [] OTHER                      -> "idle"

(* The first line of each event's case in blegw_handle_event.  Heartbeats  *)
(* publish nothing in this build, and discovered devices are not connected *)
(* to: those handlers change no state.                                     *)
Handler(e) ==
    CASE e = "NETWORK_CONNECTED"    -> "ble_initialize"
      [] e = "NETWORK_DISCONNECTED" -> "mqtt_disconnect"
      [] e = "MQTT_CONNECTED"       -> "subscribe_own"
      [] e = "MQTT_DISCONNECTED"    -> "ble_disconnect_all"
      [] e = "RESTART_TRUE"         -> "restart"
      [] OTHER                      -> "idle"

(* Bug: a queue that takes one event too many.                             *)
RoomOffByOne == Len(queue) <= QueueLen

Room == Len(queue) < QueueLen

(* xQueueSend(event_queue, &event, portMAX_DELAY): waits while it is full. *)
Post(e) == Room /\ queue' = Append(queue, e)

(* Bug: a call waits for a session, not only for the lock.                 *)
ClientFreeOnline == mq = "idle" /\ client = "online"

(* The client's calls take its lock, which the client's task holds while   *)
(* it runs mqtt_event_cb; esp_mqtt_client_destroy waits for that task.     *)
ClientFree == mq = "idle"

Fail(cause) ==
    /\ Alive
    /\ abort' = cause
    /\ UNCHANGED <<netVars, queue, gw, mqttVars, mq, scan_requested>>

----------------------------------------------------------------------------
(* Power-on or reset, up to the return of ixe_initialise_wifi: Wi-Fi is    *)
(* started and its events flow; nothing else exists yet.                   *)
Init ==
    /\ main = "wifi"
    /\ abort = "none"
    /\ bt = "idle"
    /\ station = "connecting"
    /\ ev = "idle"
    /\ queue = <<>>
    /\ gw = "idle"
    /\ client = "none"
    /\ mqtt_connected = FALSE
    /\ mq = "idle"
    /\ subs = <<>>
    /\ broker = {}
    /\ scan_requested = FALSE

(* abort() and a failed assertion reset the chip: nothing here is in flash.*)
Reboot ==
    /\ ~Alive
    /\ main' = "wifi"
    /\ abort' = "none"
    /\ bt' = "idle"
    /\ station' = "connecting"
    /\ ev' = "idle"
    /\ queue' = <<>>
    /\ gw' = "idle"
    /\ client' = "none"
    /\ mqtt_connected' = FALSE
    /\ mq' = "idle"
    /\ subs' = <<>>
    /\ broker' = {}
    /\ scan_requested' = FALSE

----------------------------------------------------------------------------
(* app_main: ixe_blufi_start when no Wi-Fi was configured, then the queue  *)
(* and the gateway task.  While main = "blufi" the Bluetooth stack is up   *)
(* but ixe_blufi_started, set by the function's last line, is not.         *)
BlufiStart ==
    /\ Runs
    /\ main = "wifi"
    /\ main' = "blufi"
    /\ bt' = "blufi"
    /\ UNCHANGED <<station, ev, queue, gw, mqttVars, mq, scan_requested>>

BlufiStarted ==
    /\ Runs
    /\ main = "blufi"
    /\ main' = "ready"
    /\ UNCHANGED <<bt, station, ev, queue, gw, mqttVars, mq, scan_requested>>

StartBlegwTask ==
    /\ Runs
    /\ main \in {"wifi", "ready"}
    /\ main' = "running"
    /\ UNCHANGED <<bt, station, ev, queue, gw, mqttVars, mq, scan_requested>>

Main == BlufiStart \/ BlufiStarted \/ StartBlegwTask

----------------------------------------------------------------------------
(* The default event loop task.  GOT_IP stops BLUFI if it knows it to be   *)
(* running, then calls _network_on_connected.                              *)
GotIp ==
    /\ Runs
    /\ ev = "idle" /\ station = "connecting"
    /\ station' = "up"
    /\ bt' = IF bt = "blufi" /\ main # "blufi" THEN "idle" ELSE bt
    /\ ev' = "NETWORK_CONNECTED"
    /\ UNCHANGED <<main, queue, gw, mqttVars, mq, scan_requested>>

(* STA_DISCONNECTED: an association was lost, or an attempt failed.        *)
StaDisconnected ==
    /\ Runs
    /\ ev = "idle" /\ station # "idle"
    /\ station' = "idle"
    /\ ev' = "NETWORK_DISCONNECTED"
    /\ UNCHANGED <<main, bt, queue, gw, mqttVars, mq, scan_requested>>

(* The post, and the esp_wifi_connect that follows it on a disconnection.  *)
NetworkPost ==
    /\ Runs
    /\ ev # "idle" /\ main = "running"
    /\ Post(ev)
    /\ ev' = "idle"
    /\ station' = IF station = "idle" THEN "connecting" ELSE station
    /\ UNCHANGED <<main, bt, gw, mqttVars, mq, scan_requested>>

(* Posting before start_blegw_task has created the queue asserts.          *)
NetworkPostNoQueue ==
    /\ ev # "idle" /\ main # "running"
    /\ Fail("no_queue")

Network == GotIp \/ StaDisconnected \/ NetworkPost \/ NetworkPostNoQueue

----------------------------------------------------------------------------
(* The MQTT client's task: mqtt_event_cb, and the post it ends with.       *)
MqttConnected ==
    /\ Runs
    /\ client = "offline" /\ mq = "idle"
    /\ client' = "online"
    /\ mqtt_connected' = TRUE
    /\ broker' = {}
    /\ mq' = "MQTT_CONNECTED"
    /\ UNCHANGED <<netVars, queue, gw, subs, scan_requested>>

(* A lost session, or a connection attempt that failed.                    *)
MqttDisconnected ==
    /\ Runs
    /\ client # "none" /\ mq = "idle"
    /\ client' = "offline"
    /\ mqtt_connected' = FALSE
    /\ subs' = <<>>
    /\ broker' = {}
    /\ mq' = "MQTT_DISCONNECTED"
    /\ UNCHANGED <<netVars, queue, gw, scan_requested>>

(* mqtt_message_cb on a message of a topic both the server and the list    *)
(* know: _management_on_restart_mqtt queues it.                            *)
MqttData ==
    /\ Runs
    /\ client = "online" /\ mq = "idle"
    /\ \E i \in DOMAIN subs : subs[i] \in broker
    /\ mq' \in {"RESTART_TRUE", "RESTART_OTHER"}
    /\ UNCHANGED <<netVars, queue, gw, mqttVars, scan_requested>>

MqttPost ==
    /\ Runs
    /\ mq # "idle"
    /\ Post(mq)
    /\ mq' = "idle"
    /\ UNCHANGED <<netVars, gw, mqttVars, scan_requested>>

Mqtt == MqttConnected \/ MqttDisconnected \/ MqttData \/ MqttPost

----------------------------------------------------------------------------
(* The timer daemon's heartbeat_timer_cb, and gap_cb's report of a device. *)
Heartbeat ==
    /\ Runs
    /\ main = "running"
    /\ Post("HEARTBEAT_TIMER")
    /\ UNCHANGED <<netVars, gw, mqttVars, mq, scan_requested>>

ScanResult ==
    /\ Runs
    /\ scan_requested
    /\ Post("BLE_DEVICE_DISCOVERED")
    /\ UNCHANGED <<netVars, gw, mqttVars, mq, scan_requested>>

----------------------------------------------------------------------------
(* blegw_task                                                              *)
Receive ==
    /\ Runs
    /\ main = "running" /\ gw = "idle" /\ queue # <<>>
    /\ gw' = Handler(Head(queue))
    /\ queue' = Tail(queue)
    /\ UNCHANGED <<netVars, mqttVars, mq, scan_requested>>

Restart ==
    /\ gw = "restart"
    /\ Fail("restart")

(* esp_bt_controller_init refuses a controller that is not idle, and       *)
(* ESP_ERROR_CHECK aborts.                                                 *)
BleInitialize ==
    /\ Runs
    /\ gw = "ble_initialize" /\ bt = "idle"
    /\ bt' = "client"
    /\ gw' = "mqtt_connect"
    /\ UNCHANGED <<main, station, ev, queue, mqttVars, mq,
                   scan_requested>>

BleInitializeFails ==
    /\ gw = "ble_initialize" /\ bt # "idle"
    /\ Fail("bt_not_idle")

(* mqtt_connect replaces the client; esp_mqtt_client_init may return NULL, *)
(* which nobody checks.                                                    *)
MqttConnect ==
    /\ Runs
    /\ gw = "mqtt_connect" /\ ClientFree
    /\ client' \in {"offline", "none"}
    /\ broker' = {}
    /\ gw' = "idle"
    /\ UNCHANGED <<netVars, queue, mqtt_connected, mq, subs,
                   scan_requested>>

(* mqtt_disconnect: the flag and the list first, then the client.          *)
MqttDisconnect ==
    /\ Runs
    /\ gw = "mqtt_disconnect"
    /\ mqtt_connected' = FALSE
    /\ subs' = <<>>
    /\ gw' = "mqtt_destroy"
    /\ UNCHANGED <<netVars, queue, client, mq, broker, scan_requested>>

(* Bug: the client is not destroyed, only forgotten about.                 *)
MqttDestroyLeaves ==
    /\ Runs
    /\ gw = "mqtt_destroy" /\ ClientFree
    /\ gw' = "ble_disconnect_all"
    /\ UNCHANGED <<netVars, queue, mqttVars, mq, scan_requested>>

MqttDestroy ==
    /\ Runs
    /\ gw = "mqtt_destroy" /\ ClientFree
    /\ client' = "none"
    /\ broker' = {}
    /\ gw' = "ble_disconnect_all"
    /\ UNCHANGED <<netVars, queue, mqtt_connected, mq, subs,
                   scan_requested>>

(* ble_disconnect_all takes devices_list_semaphore, which ble_initialize   *)
(* creates; no BLE connection exists in this build.                        *)
BleDisconnectAll ==
    /\ Runs
    /\ gw = "ble_disconnect_all" /\ bt = "client"
    /\ gw' = "ble_scan_stop"
    /\ UNCHANGED <<netVars, queue, mqttVars, mq, scan_requested>>

BleDisconnectAllFails ==
    /\ gw = "ble_disconnect_all" /\ bt # "client"
    /\ Fail("no_semaphore")

(* ble_scan_stop, and ota_unsubscribe after it: the list never holds one   *)
(* of its topics in this build, and its calls on the client wait for the   *)
(* lock that management_unsubscribe's wait for next.                       *)
BleScanStop ==
    /\ Runs
    /\ gw = "ble_scan_stop"
    /\ scan_requested' = FALSE
    /\ gw' = "unsubscribe_own"
    /\ UNCHANGED <<netVars, queue, mqttVars, mq>>

(* mqtt_unsubscribe: the first entry of the topic, then the flag, then the *)
(* client's call.                                                          *)
Unsubscribe(here, t, inClient, next) ==
    /\ Runs
    /\ gw = here
    /\ subs' = RemoveFirst(subs, t)
    /\ gw' = IF mqtt_connected THEN inClient ELSE next
    /\ UNCHANGED <<netVars, queue, client, mqtt_connected, mq, broker,
                   scan_requested>>

ClientUnsubscribe(here, t, next) ==
    /\ Runs
    /\ gw = here /\ ClientFree
    /\ broker' = broker \ {t}
    /\ gw' = next
    /\ UNCHANGED <<netVars, queue, client, mqtt_connected, mq, subs,
                   scan_requested>>

(* Bug: only the gateway's own topic is unsubscribed.                      *)
ManagementUnsubscribeOwn ==
    \/ Unsubscribe("unsubscribe_own", "own", "client_unsubscribe_own", "idle")
    \/ ClientUnsubscribe("client_unsubscribe_own", "own", "idle")

ManagementUnsubscribe ==
    \/ Unsubscribe("unsubscribe_own", "own", "client_unsubscribe_own",
                   "unsubscribe_all")
    \/ ClientUnsubscribe("client_unsubscribe_own", "own", "unsubscribe_all")
    \/ Unsubscribe("unsubscribe_all", "all", "client_unsubscribe_all", "idle")
    \/ ClientUnsubscribe("client_unsubscribe_all", "all", "idle")

(* mqtt_subscribe: refused at once without the flag, refused by the client *)
(* without a session; the list entry is added after the client's call.     *)
SubscribeRefused(here, next) ==
    /\ Runs
    /\ gw = here
    /\ ~mqtt_connected \/ (ClientFree /\ client # "online")
    /\ gw' = next
    /\ UNCHANGED <<netVars, queue, mqttVars, mq, scan_requested>>

ClientSubscribe(here, t, next) ==
    /\ Runs
    /\ gw = here
    /\ mqtt_connected /\ ClientFree /\ client = "online"
    /\ broker' = broker \cup {t}
    /\ gw' = next
    /\ UNCHANGED <<netVars, queue, client, mqtt_connected, mq, subs,
                   scan_requested>>

SubscriptionAdd(here, t, next) ==
    /\ Runs
    /\ gw = here
    /\ subs' = Append(subs, t)
    /\ gw' = next
    /\ UNCHANGED <<netVars, queue, client, mqtt_connected, mq, broker,
                   scan_requested>>

ManagementSubscribe ==
    \/ SubscribeRefused("subscribe_own", "subscribe_all")
    \/ ClientSubscribe("subscribe_own", "own", "add_own")
    \/ SubscriptionAdd("add_own", "own", "subscribe_all")
    \/ SubscribeRefused("subscribe_all", "ble_scan_start")
    \/ ClientSubscribe("subscribe_all", "all", "add_all")
    \/ SubscriptionAdd("add_all", "all", "ble_scan_start")

BleScanStart ==
    /\ Runs
    /\ gw = "ble_scan_start"
    /\ scan_requested' = TRUE
    /\ gw' = "idle"
    /\ UNCHANGED <<netVars, queue, mqttVars, mq>>

BlegwTask ==
    \/ Receive \/ Restart
    \/ BleInitialize \/ BleInitializeFails \/ MqttConnect
    \/ MqttDisconnect \/ MqttDestroy
    \/ BleDisconnectAll \/ BleDisconnectAllFails \/ BleScanStop
    \/ ManagementUnsubscribe \/ ManagementSubscribe \/ BleScanStart

----------------------------------------------------------------------------
Next ==
    Main \/ Network \/ Mqtt \/ Heartbeat \/ ScanResult \/ BlegwTask \/ Reboot

Spec == Init /\ [][Next]_vars

(* The scheduler runs every ready task.  blegw_task waits for the client's *)
(* lock, which is free between two rounds of the client's loop, and the    *)
(* MQTT task for a slot of the queue, which the higher-priority producers  *)
(* do not claim for ever: strong fairness.  Nothing is assumed of Wi-Fi,   *)
(* the server, the timer or the devices nearby.                            *)
Fairness ==
    /\ WF_vars(Reboot)
    /\ WF_vars(Main)
    /\ SF_vars(BlegwTask)
    /\ SF_vars(MqttPost)

FairSpec == Spec /\ Fairness

----------------------------------------------------------------------------
(* Properties                                                              *)

(* Every variable holds a value of its kind; the queue never outgrows the  *)
(* length it was created with.                                             *)
TypeOK ==
    /\ main \in {"wifi", "blufi", "ready", "running"}
    /\ abort \in {"none", "restart", "bt_not_idle", "no_semaphore", "no_queue"}
    /\ bt \in {"idle", "blufi", "client"}
    /\ station \in {"idle", "connecting", "up"}
    /\ ev \in NetworkEvents \cup {"idle"}
    /\ queue \in Seq(EventTypes) /\ Len(queue) <= QueueLen
    /\ gw \in Calls
    /\ client \in {"none", "offline", "online"}
    /\ mqtt_connected \in BOOLEAN
    /\ mq \in MqttEvents \cup {"idle"}
    /\ subs \in Seq(Topics)
    /\ broker \in SUBSET Topics
    /\ scan_requested \in BOOLEAN

(* Nothing raised is still waiting to be handled.                          *)
Quiescent ==
    /\ Alive /\ main = "running"
    /\ queue = <<>> /\ gw = "idle" /\ mq = "idle" /\ ev = "idle"

(* When every event has been handled and the client exists, the gateway    *)
(* scans exactly while the session is up, and then the subscription list   *)
(* holds each management topic once and the server knows the same topics;  *)
(* without a session nothing is left of the last one.  However the         *)
(* session's ups and downs interleave with the handlers of earlier ones    *)
(* (blegw_handle_event's MQTT cases, mqtt_event_cb, cleanup).              *)
ScanFollowsSession ==
    Quiescent /\ client # "none" =>
        /\ scan_requested = (client = "online")
        /\ mqtt_connected = (client = "online")
        /\ subs = IF client = "online" THEN <<"own", "all">> ELSE <<>>
        /\ broker = IF client = "online" THEN Topics ELSE {}

(* When every event has been handled and the station has no address, no    *)
(* MQTT client is left running: each loss of Wi-Fi reaches mqtt_disconnect *)
(* (network_on_disconnected), whatever was queued before it.               *)
NoClientWithoutStation ==
    Quiescent /\ station # "up" => client = "none"

(* blegw_task waits for the client's lock, its holder for a queue slot     *)
(* that only blegw_task can free.                                          *)
WaitCycle ==
    /\ gw \in {"mqtt_connect", "mqtt_destroy", "client_unsubscribe_own",
               "client_unsubscribe_all", "subscribe_own", "subscribe_all"}
    /\ mq # "idle" /\ ~Room

(* The gateway task returns to its queue for ever, unless it ends in the   *)
(* one wait cycle the code has: a call on the MQTT client, made while the  *)
(* client's callback is blocked on the full event queue.  No other         *)
(* interleaving can stop it.                                               *)
GatewayReturns ==
    []<>(gw = "idle") \/ <>[]WaitCycle

(* A session leads to scanning: once the server has accepted the client,   *)
(* the gateway starts the BLE scan, unless the session ends, the program   *)
(* resets, or the wait cycle is reached first.                             *)
SessionLeadsToScan ==
    client = "online" ~> (scan_requested \/ client # "online" \/ ~Alive
                            \/ WaitCycle)

(* "This is a workaround as ESP32 WiFi libs don't currently                *)
(* auto-reassociate" (ixe_blufi.c): the association that follows a lost    *)
(* one is handled like the first.                                          *)
ReassociationHandled == abort # "bt_not_idle" \/ bt # "client"

(* "We don't get notified when manually stopping MQTT" (bgs_main.c): once  *)
(* network_on_disconnected has stopped the client and cleaned up, BLE      *)
(* scanning stays off.                                                     *)
StoppedStaysStopped == Quiescent /\ client = "none" => ~scan_requested
=============================================================================
