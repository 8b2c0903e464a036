------------------------------- MODULE Params -------------------------------
(***************************************************************************)
(* The parameters x_wifi and x_ble: their copies in RAM, the blobs in NVS, *)
(* and the tasks that write them without a lock: app_main at start-up      *)
(* (main/ixe_params.c), the Bluetooth task with the commands of a BLUFI    *)
(* session (main/ixe_blufi_command.c), the event loop with the access      *)
(* point it joins (main/ixe_blufi.c), the key task with the factory reset  *)
(* (soc01/bgs_socket_util.c).  Any save or read may fail, and power may be *)
(* lost between any two steps.                                             *)
(*                                                                         *)
(* nvs_set_blob and nvs_erase_key reach the flash before they return, each *)
(* as a whole; nvs_commit then changes nothing.                            *)
(***************************************************************************)
EXTENDS Integers

CONSTANTS
    Aps,            \* access points
    Zones,          \* time zones a phone may set
    Names, Keys     \* device names and keys a phone may set

CONSTANTS None, Default     \* what memset leaves, and the factory setting

ASSUME ParamsAssumption ==
    /\ None \notin Aps \cup Zones \cup Names \cup Keys
    /\ Default \notin Zones \cup Names \cup Keys
    /\ Default # None

VARIABLES
    stage,              \* app_main: how far start-up has got
    x_wifi, x_ble,
    nvs,                \* the blobs ixe_wifi and ixe_ble
    config,             \* the access point the Wi-Fi driver has stored
    station,            \* the Wi-Fi driver
    blufi,              \* ixe_blufi_started
    bt, ev, key,        \* next step of Bluetooth task, event loop, key task
    failed,             \* history: NVS has failed since the last reset
    spoiled,            \* history: two tasks wrote x_wifi at once, or it was
                        \* written after it could not be read
    intruded,           \* history: a factory reset failed to erase x_wifi, or
                        \* x_wifi was saved before it was through
    fresh               \* history: this start follows a factory reset

ram == <<x_wifi, x_ble>>
radio == <<config, station, blufi>>
tasks == <<bt, ev, key>>
histories == <<failed, spoiled, intruded, fresh>>
vars == <<stage, ram, nvs, radio, tasks, histories>>

Wifi == [wifi_onoff : {0, 1}, dev_zone : Zones \cup {Default, None},
         sta_bssid : Aps \cup {None}, sta_ssid : Aps \cup {None}]
Ble == [ble_name : Names \cup {Default, None},
        ble_key : Keys \cup {Default, None}]
Absent == [absent |-> TRUE]

ZeroWifi == [wifi_onoff |-> 0, dev_zone |-> None,
             sta_bssid |-> None, sta_ssid |-> None]
ZeroBle == [ble_name |-> None, ble_key |-> None]
DefaultWifi == [ZeroWifi EXCEPT !.dev_zone = Default]
DefaultBle == [ble_name |-> Default, ble_key |-> Default]

Idle == [pc |-> "idle", arg |-> None]
At(task, pc) == stage = "running" /\ task.pc = pc

Init ==
    /\ stage = "read_ble"
    /\ x_wifi = ZeroWifi /\ x_ble = ZeroBle
    /\ nvs = [ixe_wifi |-> Absent, ixe_ble |-> Absent]
    /\ config = None /\ station = "stopped" /\ blufi = FALSE
    /\ bt = Idle /\ ev = Idle /\ key = Idle
    /\ failed = FALSE /\ spoiled = FALSE /\ intruded = FALSE /\ fresh = FALSE

----------------------------------------------------------------------------
(* nvs_open, nvs_set_blob of what the copy in RAM is now, nvs_commit       *)
Save(blob, value) ==
    \/ nvs' = [nvs EXCEPT ![blob] = value] /\ UNCHANGED failed
    \/ failed' = TRUE /\ UNCHANGED nvs

WritingWifi(task) ==
    task.pc \in {"onoff", "zone", "save_wifi", "ssid", "save_ap"}

(* nvs_erase_key, whose result nobody looks at, for each of the blobs.     *)
EraseKeys(blobs) ==
    \E erased \in SUBSET blobs :
        nvs' = [b \in DOMAIN nvs |-> IF b \in erased THEN Absent ELSE nvs[b]]

SaveWifi ==
    /\ Save("ixe_wifi", x_wifi)
    /\ spoiled' = (spoiled \/ (WritingWifi(bt) /\ WritingWifi(ev)))
    /\ intruded' = (intruded \/ key.pc \in {"restore", "restart"})
    /\ UNCHANGED <<stage, ram, radio, key, fresh>>

----------------------------------------------------------------------------
(* Start-up: ixe_init_params, then Wi-Fi, and BLUFI if Wi-Fi is off.  When *)
(* NVS cannot be opened the rest is not read.                              *)
ReadBle ==
    /\ stage = "read_ble"
    /\ \/ /\ stage' = "read_wifi" /\ UNCHANGED spoiled
          /\ \/ /\ nvs["ixe_ble"] # Absent
                /\ x_ble' = nvs["ixe_ble"]
                /\ UNCHANGED <<nvs, failed>>
             \/ /\ nvs["ixe_ble"] = Absent
                /\ x_ble' = DefaultBle
                /\ Save("ixe_ble", DefaultBle)
             \/ /\ failed' = TRUE
                /\ UNCHANGED <<x_ble, nvs>>
       \/ /\ stage' = "start"
          /\ failed' = TRUE /\ spoiled' = TRUE
          /\ UNCHANGED <<x_ble, nvs>>
    /\ UNCHANGED <<x_wifi, radio, tasks, intruded, fresh>>

(* Bug: a blob that is not there is not told from one that is.             *)
ReadWifiUnchecked ==
    /\ stage = "read_wifi" /\ stage' = "start"
    /\ x_wifi' = nvs["ixe_wifi"]
    /\ UNCHANGED <<x_ble, nvs, radio, tasks, histories>>

ReadWifi ==
    /\ stage = "read_wifi" /\ stage' = "start"
    /\ \/ /\ nvs["ixe_wifi"] # Absent
          /\ x_wifi' = nvs["ixe_wifi"]
          /\ UNCHANGED <<nvs, failed, spoiled>>
       \/ /\ nvs["ixe_wifi"] = Absent
          /\ x_wifi' = DefaultWifi
          /\ Save("ixe_wifi", DefaultWifi)
          /\ UNCHANGED spoiled
       \/ /\ failed' = TRUE /\ spoiled' = TRUE
          /\ UNCHANGED <<x_wifi, nvs>>
    /\ UNCHANGED <<x_ble, radio, tasks, intruded, fresh>>

(* The driver connects to what it has stored, whatever wifi_onoff says;    *)
(* ixe_blufi_start gives up when one of its steps fails.                   *)
Start ==
    /\ stage = "start" /\ stage' = "running"
    /\ station' = "started"
    /\ blufi' \in {FALSE, x_wifi.wifi_onoff = 0}
    /\ fresh' = FALSE
    /\ UNCHANGED <<ram, nvs, config, tasks, failed, spoiled, intruded>>

----------------------------------------------------------------------------
(* Commands of a BLUFI session, in the Bluetooth task                      *)
Command == blufi /\ At(bt, "idle")

(* ixe_handle_set_wifi: 0 and 2, 3 are stored, as 0 and 1; 1 only starts   *)
(* Wi-Fi.  ixe_handle_set_zone clears the zone before it writes it.        *)
SetWifi(on_off) ==
    /\ Command
    /\ on_off # x_wifi.wifi_onoff
    /\ \/ /\ on_off = 1
          /\ station' = IF station = "stopped" THEN "started" ELSE station
          /\ UNCHANGED bt
       \/ /\ on_off # 1
          /\ bt' = [pc |-> "onoff", arg |-> IF on_off = 0 THEN 0 ELSE 1]
          /\ UNCHANGED station
    /\ UNCHANGED <<stage, ram, nvs, config, blufi, ev, key, histories>>

WriteOnOff ==
    /\ At(bt, "onoff")
    /\ x_wifi' = [x_wifi EXCEPT !.wifi_onoff = bt.arg]
    /\ bt' = [Idle EXCEPT !.pc = "save_wifi"]
    /\ UNCHANGED <<stage, x_ble, nvs, radio, ev, key, histories>>

SetZone(zone) ==
    /\ Command
    /\ x_wifi' = [x_wifi EXCEPT !.dev_zone = None]
    /\ bt' = [pc |-> "zone", arg |-> zone]
    /\ UNCHANGED <<stage, x_ble, nvs, radio, ev, key, histories>>

WriteZone ==
    /\ At(bt, "zone")
    /\ x_wifi' = [x_wifi EXCEPT !.dev_zone = bt.arg]
    /\ bt' = [Idle EXCEPT !.pc = "save_wifi"]
    /\ UNCHANGED <<stage, x_ble, nvs, radio, ev, key, histories>>

CommandSaves ==
    /\ At(bt, "save_wifi")
    /\ SaveWifi
    /\ bt' = Idle /\ UNCHANGED ev

(* The name is not saved; it is with the next key.                         *)
SetBleName(name) ==
    /\ Command
    /\ x_ble' = [x_ble EXCEPT !.ble_name = name]
    /\ UNCHANGED <<stage, x_wifi, nvs, radio, tasks, histories>>

SetBleKey(k) ==
    /\ Command
    /\ x_ble' = [x_ble EXCEPT !.ble_key = k]
    /\ bt' = [Idle EXCEPT !.pc = "save_ble"]
    /\ UNCHANGED <<stage, x_wifi, nvs, radio, ev, key, histories>>

KeySaves ==
    /\ At(bt, "save_ble")
    /\ Save("ixe_ble", x_ble)
    /\ bt' = Idle
    /\ UNCHANGED <<stage, ram, radio, ev, key, spoiled, intruded, fresh>>

(* Both resets erase blobs and ask for a restart that nothing carries out: *)
(* the copies in RAM stay, and whatever saves them next brings them back.  *)
ResetFactory ==
    /\ Command
    /\ EraseKeys({"ixe_wifi"})
    /\ config' = None /\ station' = "stopped"
    /\ UNCHANGED <<stage, ram, blufi, tasks, histories>>

ResetIxe ==
    /\ Command
    /\ EraseKeys({"ixe_ble", "ixe_wifi"})
    /\ UNCHANGED <<stage, ram, radio, tasks, histories>>

RecvSta(ap) ==
    /\ Command
    /\ config' = ap
    /\ UNCHANGED <<stage, ram, nvs, station, blufi, tasks, histories>>

Bluetooth ==
    \/ \E on_off \in 0 .. 3 : SetWifi(on_off)
    \/ \E zone \in Zones : SetZone(zone)
    \/ \E name \in Names : SetBleName(name)
    \/ \E k \in Keys : SetBleKey(k)
    \/ \E ap \in Aps : RecvSta(ap)
    \/ WriteOnOff \/ WriteZone \/ CommandSaves \/ KeySaves
    \/ ResetFactory \/ ResetIxe

----------------------------------------------------------------------------
(* The event loop.  WIFI_EVENT_STA_CONNECTED writes bssid and length, then *)
(* the name, then saves.                                                   *)
Connected ==
    /\ At(ev, "idle") /\ station = "started" /\ config # None
    /\ station' = "connected"
    /\ x_wifi' = [x_wifi EXCEPT !.sta_bssid = config]
    /\ ev' = [pc |-> "ssid", arg |-> config]
    /\ UNCHANGED <<stage, x_ble, nvs, config, blufi, bt, key, histories>>

(* Bug: saves before the name is written.                                  *)
WriteSsidLate ==
    \/ At(ev, "ssid") /\ SaveWifi /\ ev' = [ev EXCEPT !.pc = "save_ap"]
       /\ UNCHANGED bt
    \/ /\ At(ev, "save_ap")
       /\ x_wifi' = [x_wifi EXCEPT !.sta_ssid = ev.arg]
       /\ ev' = Idle
       /\ UNCHANGED <<stage, x_ble, nvs, radio, bt, key, histories>>

WriteSsid ==
    /\ At(ev, "ssid")
    /\ x_wifi' = [x_wifi EXCEPT !.sta_ssid = ev.arg]
    /\ ev' = [Idle EXCEPT !.pc = "save_ap"]
    /\ UNCHANGED <<stage, x_ble, nvs, radio, bt, key, histories>>

SaveAp ==
    /\ At(ev, "save_ap")
    /\ SaveWifi
    /\ ev' = Idle /\ UNCHANGED bt

(* IP_EVENT_STA_GOT_IP ends the session, once its command is handled.      *)
GotIp ==
    /\ At(ev, "idle") /\ station = "connected" /\ blufi /\ bt = Idle
    /\ blufi' = FALSE
    /\ UNCHANGED <<stage, ram, nvs, config, station, tasks, histories>>

Disconnected ==
    /\ At(ev, "idle") /\ station = "connected"
    /\ station' = "started"
    /\ UNCHANGED <<stage, ram, nvs, config, blufi, tasks, histories>>

EventLoop == Connected \/ WriteSsid \/ SaveAp \/ GotIp \/ Disconnected

----------------------------------------------------------------------------
(* Resets.  A long press runs ixe_reset_factory and restarts; a short one  *)
(* restarts, as a loss of power does.                                      *)
LongPress ==
    /\ At(key, "idle")
    /\ key' = [Idle EXCEPT !.pc = "erase"]
    /\ intruded' = FALSE
    /\ UNCHANGED <<stage, ram, nvs, radio, bt, ev, failed, spoiled, fresh>>

(* Bug: only the parameters of the product are erased.                     *)
EraseUserOnly ==
    /\ At(key, "erase")
    /\ key' = [Idle EXCEPT !.pc = "restore"]
    /\ UNCHANGED <<stage, ram, nvs, radio, bt, ev, histories>>

Erase ==
    /\ At(key, "erase")
    /\ \/ /\ EraseKeys({"ixe_wifi"})
          /\ intruded' = (intruded \/ nvs["ixe_wifi"]' # Absent)
          /\ key' = [Idle EXCEPT !.pc = "restore"]
       \/ /\ key' = [Idle EXCEPT !.pc = "give_up"]
          /\ UNCHANGED <<nvs, intruded>>
    /\ UNCHANGED <<stage, ram, radio, bt, ev, failed, spoiled, fresh>>

(* esp_wifi_restore, only if Wi-Fi is switched on.                         *)
Restore ==
    /\ At(key, "restore")
    /\ key' = [Idle EXCEPT !.pc = "restart"]
    /\ config' = IF x_wifi.wifi_onoff = 1 THEN None ELSE config
    /\ UNCHANGED <<stage, ram, nvs, station, blufi, bt, ev, histories>>

Reset ==
    /\ stage' = "read_ble"
    /\ x_wifi' = ZeroWifi /\ x_ble' = ZeroBle
    /\ station' = "stopped" /\ blufi' = FALSE
    /\ bt' = Idle /\ ev' = Idle /\ key' = Idle
    /\ failed' = FALSE /\ intruded' = FALSE
    /\ UNCHANGED <<nvs, config, spoiled>>

Restart ==
    /\ At(key, "restart") \/ At(key, "give_up")
    /\ fresh' = (key.pc = "restart" /\ ~intruded)
    /\ Reset

(* A short press, or a loss of power.                                      *)
PowerLoss == UNCHANGED fresh /\ Reset

KeyTask == LongPress \/ Erase \/ Restore \/ Restart

Next ==
    \/ ReadBle \/ ReadWifi \/ Start
    \/ Bluetooth \/ EventLoop \/ KeyTask \/ PowerLoss

Spec == Init /\ [][Next]_vars

----------------------------------------------------------------------------
(* Types.  A blob that is missing is never taken for parameters.           *)
TypeOK ==
    /\ stage \in {"read_ble", "read_wifi", "start", "running"}
    /\ x_wifi \in Wifi /\ x_ble \in Ble
    /\ nvs \in [ixe_wifi : Wifi \cup {Absent}, ixe_ble : Ble \cup {Absent}]
    /\ config \in Aps \cup {None}
    /\ station \in {"stopped", "started", "connected"}
    /\ blufi \in BOOLEAN
    /\ bt \in [pc : {"idle", "onoff", "zone", "save_wifi", "save_ble"},
              arg : {0, 1} \cup Zones \cup {None}]
    /\ ev \in [pc : {"idle", "ssid", "save_ap"}, arg : Aps \cup {None}]
    /\ key \in [pc : {"idle", "erase", "restore", "restart", "give_up"},
               arg : {None}]
    /\ failed \in BOOLEAN /\ spoiled \in BOOLEAN
    /\ intruded \in BOOLEAN /\ fresh \in BOOLEAN

(* Once the tasks are through with a change, what is stored is what is in  *)
(* RAM, although each saves what the other one may be writing; unless NVS  *)
(* has failed, a reset has erased the blob, or (of the name) no key has    *)
(* been set since.                                                         *)
StoredIsCurrent ==
    stage = "running" /\ ~failed =>
        /\ ~WritingWifi(bt) /\ ~WritingWifi(ev) /\ nvs["ixe_wifi"] # Absent
               => nvs["ixe_wifi"] = x_wifi
        /\ bt.pc # "save_ble" /\ nvs["ixe_ble"] # Absent
               => nvs["ixe_ble"].ble_key = x_ble.ble_key

(* Half-written parameters are stored, and read after a loss of power,     *)
(* only when both tasks were writing at once, or a read at start-up failed.*)
StoredWholeUnlessOverlap ==
    LET w == nvs["ixe_wifi"] IN
    w # Absent /\ ~spoiled => w.dev_zone # None /\ w.sta_bssid = w.sta_ssid

(* After a long press the device starts with Wi-Fi off, that is, with      *)
(* BLUFI on, also when power is lost on the way; unless NVS failed to      *)
(* erase, or another task saved its parameters before the restart.         *)
ResetBringsBlufi == stage = "start" /\ fresh => x_wifi.wifi_onoff = 0
=============================================================================
