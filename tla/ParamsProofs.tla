---------------------------- MODULE ParamsProofs ----------------------------
(***************************************************************************)
(* Proofs about Params, for any sets of access points, zones, names and    *)
(* keys: the four invariants that MCParams.cfg checks on a small instance. *)
(***************************************************************************)
EXTENDS Params, TLAPS

(* The two halves of TypeOK, of which Zenon and SMT take one each.         *)
FlagsOK ==
    /\ blufi \in BOOLEAN
    /\ failed \in BOOLEAN /\ spoiled \in BOOLEAN
    /\ intruded \in BOOLEAN /\ fresh \in BOOLEAN

DataOK ==
    /\ stage \in {"read_ble", "read_wifi", "start", "running"}
    /\ x_wifi \in Wifi /\ x_ble \in Ble
    /\ nvs \in [ixe_wifi : Wifi \cup {Absent}, ixe_ble : Ble \cup {Absent}]
    /\ config \in Aps \cup {None}
    /\ station \in {"stopped", "started", "connected"}
    /\ bt \in [pc : {"idle", "onoff", "zone", "save_wifi", "save_ble"},
              arg : {0, 1} \cup Zones \cup {None}]
    /\ ev \in [pc : {"idle", "ssid", "save_ap"}, arg : Aps \cup {None}]
    /\ key \in [pc : {"idle", "erase", "restore", "restart", "give_up"},
               arg : {None}]

(* What a task has in hand, and that no task runs before start-up is done. *)
ArgInv ==
    /\ bt.pc = "onoff" => bt.arg \in {0, 1}
    /\ bt.pc = "zone" => bt.arg \in Zones
    /\ ev.pc = "ssid" => ev.arg \in Aps /\ ev.arg = x_wifi.sta_bssid
    /\ stage # "running" => bt = Idle /\ ev = Idle /\ key = Idle
    /\ stage \in {"read_ble", "read_wifi"} => x_wifi = ZeroWifi

(* The copy in RAM is half-written only while a task is at it.             *)
WholeInv ==
    /\ StoredWholeUnlessOverlap
    /\ stage \in {"start", "running"} /\ ~spoiled =>
           /\ x_wifi.dev_zone = None => bt.pc = "zone"
           /\ x_wifi.sta_bssid # x_wifi.sta_ssid => ev.pc = "ssid"

(* StoredIsCurrent holds as soon as each blob has been read.               *)
CurrentInv ==
    /\ stage \in {"start", "running"} /\ ~failed
       /\ ~WritingWifi(bt) /\ ~WritingWifi(ev) /\ nvs["ixe_wifi"] # Absent
           => nvs["ixe_wifi"] = x_wifi
    /\ stage # "read_ble" /\ ~failed
       /\ bt.pc # "save_ble" /\ nvs["ixe_ble"] # Absent
           => nvs["ixe_ble"].ble_key = x_ble.ble_key

(* What the long press has erased stays so until the start after it.       *)
StoredOff ==
    nvs["ixe_wifi"] # Absent => nvs["ixe_wifi"].wifi_onoff = 0

ResetInv ==
    /\ key.pc \in {"restore", "restart"} /\ ~intruded
           => nvs["ixe_wifi"] = Absent
    /\ fresh => stage # "running" /\ StoredOff
    /\ ResetBringsBlufi

IInv == TypeOK /\ ArgInv /\ WholeInv /\ CurrentInv /\ ResetInv

----------------------------------------------------------------------------
(* A step proves the halves of the type invariant apart.                   *)
LEMMA TypeHalves == TypeOK <=> DataOK /\ FlagsOK
  BY Zenon DEF TypeOK, DataOK, FlagsOK

(* The invariant holds when the device starts for the first time.          *)
LEMMA InvInit == Init => IInv
<1> SUFFICES ASSUME Init PROVE IInv
  OBVIOUS
<1>1. FlagsOK
  BY Zenon DEF Init, FlagsOK
<1>2. DataOK
  BY DEF Init, DataOK, Wifi, Ble, ZeroWifi, ZeroBle, Absent, Idle
<1>3. ArgInv
  BY DEF Init, ArgInv, Idle
<1>4. WholeInv
  BY DEF Init, WholeInv, StoredWholeUnlessOverlap
<1>5. CurrentInv /\ ResetInv
  BY DEF Init, CurrentInv, ResetInv, StoredOff, ResetBringsBlufi, Idle
<1> QED
  BY <1>1, <1>2, <1>3, <1>4, <1>5, TypeHalves DEF IInv

(* Every action keeps the types of the parameters, NVS and the tasks.      *)
LEMMA DataStep ==
    ASSUME DataOK, ArgInv, Next
    PROVE  DataOK'
<1> USE ParamsAssumption DEF DataOK, ArgInv, Wifi, Ble, ZeroWifi, ZeroBle,
       DefaultWifi, DefaultBle, ram, radio, tasks, histories, Idle
<1>1. CASE ReadBle
  BY <1>1 DEF ReadBle, Save
<1>2. CASE ReadWifi
  BY <1>2 DEF ReadWifi, Save
<1>3. CASE Start
  BY <1>3 DEF Start
<1>4. ASSUME NEW on_off \in 0 .. 3, SetWifi(on_off) PROVE DataOK'
  BY <1>4 DEF SetWifi, Command, At
<1>5. ASSUME NEW zone \in Zones, SetZone(zone) PROVE DataOK'
  BY <1>5 DEF SetZone, Command, At
<1>6. ASSUME NEW name \in Names, SetBleName(name) PROVE DataOK'
  BY <1>6 DEF SetBleName, Command, At
<1>7. ASSUME NEW k \in Keys, SetBleKey(k) PROVE DataOK'
  BY <1>7 DEF SetBleKey, Command, At
<1>8. ASSUME NEW ap \in Aps, RecvSta(ap) PROVE DataOK'
  BY <1>8 DEF RecvSta, Command, At
<1>9. CASE WriteOnOff
  BY <1>9 DEF WriteOnOff, At
<1>10. CASE WriteZone
  BY <1>10 DEF WriteZone, At
<1>11. CASE CommandSaves
  BY <1>11 DEF CommandSaves, SaveWifi, Save, At
<1>12. CASE KeySaves
  BY <1>12 DEF KeySaves, Save, At
<1>13. CASE ResetFactory
  BY <1>13 DEF ResetFactory, EraseKeys, Command, At
<1>14. CASE ResetIxe
  BY <1>14 DEF ResetIxe, EraseKeys, Command, At
<1>15. CASE Connected
  BY <1>15 DEF Connected, At
<1>16. CASE WriteSsid
  BY <1>16 DEF WriteSsid, At
<1>17. CASE SaveAp
  BY <1>17 DEF SaveAp, SaveWifi, Save, At
<1>18. CASE GotIp
  BY <1>18 DEF GotIp, At
<1>19. CASE Disconnected
  BY <1>19 DEF Disconnected, At
<1>20. CASE LongPress
  BY <1>20 DEF LongPress, At
<1>21. CASE Erase
  BY <1>21 DEF Erase, EraseKeys, At
<1>22. CASE Restore
  BY <1>22 DEF Restore, At
<1>23. CASE Restart
  BY <1>23 DEF Restart, Reset, At
<1>24. CASE PowerLoss
  BY <1>24 DEF PowerLoss, Reset
<1> QED
  BY <1>1, <1>2, <1>3, <1>4, <1>5, <1>6, <1>7, <1>8, <1>9, <1>10,
     <1>11, <1>12, <1>13, <1>14, <1>15, <1>16, <1>17, <1>18, <1>19,
     <1>20, <1>21, <1>22, <1>23, <1>24
     DEF Next, Bluetooth, EventLoop, KeyTask

(* Every action keeps the flags Boolean.                                   *)
LEMMA FlagsStep ==
    ASSUME FlagsOK, Next
    PROVE  FlagsOK'
<1> USE DEF FlagsOK, radio, histories
<1>1. CASE ReadBle
  BY Zenon, <1>1 DEF ReadBle, Save
<1>2. CASE ReadWifi
  BY Zenon, <1>2 DEF ReadWifi, Save
<1>3. CASE Start
  BY Zenon, <1>3 DEF Start
<1>4. ASSUME NEW on_off \in 0 .. 3, SetWifi(on_off) PROVE FlagsOK'
  BY Zenon, <1>4 DEF SetWifi, Command, At
<1>5. ASSUME NEW zone \in Zones, SetZone(zone) PROVE FlagsOK'
  BY Zenon, <1>5 DEF SetZone, Command, At
<1>6. ASSUME NEW name \in Names, SetBleName(name) PROVE FlagsOK'
  BY Zenon, <1>6 DEF SetBleName, Command, At
<1>7. ASSUME NEW k \in Keys, SetBleKey(k) PROVE FlagsOK'
  BY Zenon, <1>7 DEF SetBleKey, Command, At
<1>8. ASSUME NEW ap \in Aps, RecvSta(ap) PROVE FlagsOK'
  BY Zenon, <1>8 DEF RecvSta, Command, At
<1>9. CASE WriteOnOff
  BY Zenon, <1>9 DEF WriteOnOff, At
<1>10. CASE WriteZone
  BY Zenon, <1>10 DEF WriteZone, At
<1>11. CASE CommandSaves
  BY Zenon, <1>11 DEF CommandSaves, SaveWifi, Save, At
<1>12. CASE KeySaves
  BY Zenon, <1>12 DEF KeySaves, Save, At
<1>13. CASE ResetFactory
  BY Zenon, <1>13 DEF ResetFactory, EraseKeys, Command, At
<1>14. CASE ResetIxe
  BY Zenon, <1>14 DEF ResetIxe, EraseKeys, Command, At
<1>15. CASE Connected
  BY Zenon, <1>15 DEF Connected, At
<1>16. CASE WriteSsid
  BY Zenon, <1>16 DEF WriteSsid, At
<1>17. CASE SaveAp
  BY Zenon, <1>17 DEF SaveAp, SaveWifi, Save, At
<1>18. CASE GotIp
  BY Zenon, <1>18 DEF GotIp, At
<1>19. CASE Disconnected
  BY Zenon, <1>19 DEF Disconnected, At
<1>20. CASE LongPress
  BY Zenon, <1>20 DEF LongPress, At
<1>21. CASE Erase
  BY Zenon, <1>21 DEF Erase, EraseKeys, At
<1>22. CASE Restore
  BY Zenon, <1>22 DEF Restore, At
<1>23. CASE Restart
  BY Zenon, <1>23 DEF Restart, Reset, At
<1>24. CASE PowerLoss
  BY Zenon, <1>24 DEF PowerLoss, Reset
<1> QED
  BY <1>1, <1>2, <1>3, <1>4, <1>5, <1>6, <1>7, <1>8, <1>9, <1>10,
     <1>11, <1>12, <1>13, <1>14, <1>15, <1>16, <1>17, <1>18, <1>19,
     <1>20, <1>21, <1>22, <1>23, <1>24
     DEF Next, Bluetooth, EventLoop, KeyTask

(* Every action keeps to what the tasks have in hand.                      *)
LEMMA ArgStep ==
    ASSUME TypeOK, ArgInv, Next
    PROVE  ArgInv'
<1> USE ParamsAssumption DEF TypeOK, ArgInv, Wifi, ZeroWifi,
       ram, radio, tasks, histories, Idle
<1>1. CASE ReadBle
  BY <1>1 DEF ReadBle, Save
<1>2. CASE ReadWifi
  BY <1>2 DEF ReadWifi, Save
<1>3. CASE Start
  BY <1>3 DEF Start
<1>4. ASSUME NEW on_off \in 0 .. 3, SetWifi(on_off) PROVE ArgInv'
  BY <1>4 DEF SetWifi, Command, At
<1>5. ASSUME NEW zone \in Zones, SetZone(zone) PROVE ArgInv'
  BY <1>5 DEF SetZone, Command, At
<1>6. ASSUME NEW name \in Names, SetBleName(name) PROVE ArgInv'
  BY <1>6 DEF SetBleName, Command, At
<1>7. ASSUME NEW k \in Keys, SetBleKey(k) PROVE ArgInv'
  BY <1>7 DEF SetBleKey, Command, At
<1>8. ASSUME NEW ap \in Aps, RecvSta(ap) PROVE ArgInv'
  BY <1>8 DEF RecvSta, Command, At
<1>9. CASE WriteOnOff
  BY <1>9 DEF WriteOnOff, At
<1>10. CASE WriteZone
  BY <1>10 DEF WriteZone, At
<1>11. CASE CommandSaves
  BY <1>11 DEF CommandSaves, SaveWifi, Save, At
<1>12. CASE KeySaves
  BY <1>12 DEF KeySaves, Save, At
<1>13. CASE ResetFactory
  BY <1>13 DEF ResetFactory, EraseKeys, Command, At
<1>14. CASE ResetIxe
  BY <1>14 DEF ResetIxe, EraseKeys, Command, At
<1>15. CASE Connected
  BY <1>15 DEF Connected, At
<1>16. CASE WriteSsid
  BY <1>16 DEF WriteSsid, At
<1>17. CASE SaveAp
  BY <1>17 DEF SaveAp, SaveWifi, Save, At
<1>18. CASE GotIp
  BY <1>18 DEF GotIp, At
<1>19. CASE Disconnected
  BY <1>19 DEF Disconnected, At
<1>20. CASE LongPress
  BY <1>20 DEF LongPress, At
<1>21. CASE Erase
  BY <1>21 DEF Erase, EraseKeys, At
<1>22. CASE Restore
  BY <1>22 DEF Restore, At
<1>23. CASE Restart
  BY <1>23 DEF Restart, Reset, At
<1>24. CASE PowerLoss
  BY <1>24 DEF PowerLoss, Reset
<1> QED
  BY <1>1, <1>2, <1>3, <1>4, <1>5, <1>6, <1>7, <1>8, <1>9, <1>10,
     <1>11, <1>12, <1>13, <1>14, <1>15, <1>16, <1>17, <1>18, <1>19,
     <1>20, <1>21, <1>22, <1>23, <1>24
     DEF Next, Bluetooth, EventLoop, KeyTask

(* Every action keeps parameters whole, but for overlaps.                  *)
LEMMA WholeStep ==
    ASSUME TypeOK, ArgInv, WholeInv, Next
    PROVE  WholeInv'
<1> USE ParamsAssumption DEF TypeOK, ArgInv, WholeInv, StoredWholeUnlessOverlap,
       Wifi, ZeroWifi, DefaultWifi, WritingWifi,
       ram, radio, tasks, histories, Idle
<1>1. CASE ReadBle
  BY <1>1 DEF ReadBle, Save
<1>2. CASE ReadWifi
  BY <1>2 DEF ReadWifi, Save
<1>3. CASE Start
  BY <1>3 DEF Start
<1>4. ASSUME NEW on_off \in 0 .. 3, SetWifi(on_off) PROVE WholeInv'
  BY <1>4 DEF SetWifi, Command, At
<1>5. ASSUME NEW zone \in Zones, SetZone(zone) PROVE WholeInv'
  BY <1>5 DEF SetZone, Command, At
<1>6. ASSUME NEW name \in Names, SetBleName(name) PROVE WholeInv'
  BY <1>6 DEF SetBleName, Command, At
<1>7. ASSUME NEW k \in Keys, SetBleKey(k) PROVE WholeInv'
  BY <1>7 DEF SetBleKey, Command, At
<1>8. ASSUME NEW ap \in Aps, RecvSta(ap) PROVE WholeInv'
  BY <1>8 DEF RecvSta, Command, At
<1>9. CASE WriteOnOff
  BY <1>9 DEF WriteOnOff, At
<1>10. CASE WriteZone
  BY <1>10 DEF WriteZone, At
<1>11. CASE CommandSaves
  BY <1>11 DEF CommandSaves, SaveWifi, Save, At
<1>12. CASE KeySaves
  BY <1>12 DEF KeySaves, Save, At
<1>13. CASE ResetFactory
  BY <1>13 DEF ResetFactory, EraseKeys, Command, At
<1>14. CASE ResetIxe
  BY <1>14 DEF ResetIxe, EraseKeys, Command, At
<1>15. CASE Connected
  BY <1>15 DEF Connected, At
<1>16. CASE WriteSsid
  BY <1>16 DEF WriteSsid, At
<1>17. CASE SaveAp
  BY <1>17 DEF SaveAp, SaveWifi, Save, At
<1>18. CASE GotIp
  BY <1>18 DEF GotIp, At
<1>19. CASE Disconnected
  BY <1>19 DEF Disconnected, At
<1>20. CASE LongPress
  BY <1>20 DEF LongPress, At
<1>21. CASE Erase
  BY <1>21 DEF Erase, EraseKeys, At
<1>22. CASE Restore
  BY <1>22 DEF Restore, At
<1>23. CASE Restart
  BY <1>23 DEF Restart, Reset, At
<1>24. CASE PowerLoss
  BY <1>24 DEF PowerLoss, Reset
<1> QED
  BY <1>1, <1>2, <1>3, <1>4, <1>5, <1>6, <1>7, <1>8, <1>9, <1>10,
     <1>11, <1>12, <1>13, <1>14, <1>15, <1>16, <1>17, <1>18, <1>19,
     <1>20, <1>21, <1>22, <1>23, <1>24
     DEF Next, Bluetooth, EventLoop, KeyTask

(* Every action keeps NVS current, but for failures and resets.            *)
LEMMA CurrentStep ==
    ASSUME TypeOK, ArgInv, CurrentInv, Next
    PROVE  CurrentInv'
<1> USE ParamsAssumption DEF TypeOK, ArgInv, CurrentInv, WritingWifi, Wifi, Ble,
       ram, radio, tasks, histories, Idle
<1>1. CASE ReadBle
  BY <1>1 DEF ReadBle, Save
<1>2. CASE ReadWifi
  BY <1>2 DEF ReadWifi, Save
<1>3. CASE Start
  BY <1>3 DEF Start
<1>4. ASSUME NEW on_off \in 0 .. 3, SetWifi(on_off) PROVE CurrentInv'
  BY <1>4 DEF SetWifi, Command, At
<1>5. ASSUME NEW zone \in Zones, SetZone(zone) PROVE CurrentInv'
  BY <1>5 DEF SetZone, Command, At
<1>6. ASSUME NEW name \in Names, SetBleName(name) PROVE CurrentInv'
  BY <1>6 DEF SetBleName, Command, At
<1>7. ASSUME NEW k \in Keys, SetBleKey(k) PROVE CurrentInv'
  BY <1>7 DEF SetBleKey, Command, At
<1>8. ASSUME NEW ap \in Aps, RecvSta(ap) PROVE CurrentInv'
  BY <1>8 DEF RecvSta, Command, At
<1>9. CASE WriteOnOff
  BY <1>9 DEF WriteOnOff, At
<1>10. CASE WriteZone
  BY <1>10 DEF WriteZone, At
<1>11. CASE CommandSaves
  BY <1>11 DEF CommandSaves, SaveWifi, Save, At
<1>12. CASE KeySaves
  BY <1>12 DEF KeySaves, Save, At
<1>13. CASE ResetFactory
  BY <1>13 DEF ResetFactory, EraseKeys, Command, At
<1>14. CASE ResetIxe
  BY <1>14 DEF ResetIxe, EraseKeys, Command, At
<1>15. CASE Connected
  BY <1>15 DEF Connected, At
<1>16. CASE WriteSsid
  BY <1>16 DEF WriteSsid, At
<1>17. CASE SaveAp
  BY <1>17 DEF SaveAp, SaveWifi, Save, At
<1>18. CASE GotIp
  BY <1>18 DEF GotIp, At
<1>19. CASE Disconnected
  BY <1>19 DEF Disconnected, At
<1>20. CASE LongPress
  BY <1>20 DEF LongPress, At
<1>21. CASE Erase
  BY <1>21 DEF Erase, EraseKeys, At
<1>22. CASE Restore
  BY <1>22 DEF Restore, At
<1>23. CASE Restart
  BY <1>23 DEF Restart, Reset, At
<1>24. CASE PowerLoss
  BY <1>24 DEF PowerLoss, Reset
<1> QED
  BY <1>1, <1>2, <1>3, <1>4, <1>5, <1>6, <1>7, <1>8, <1>9, <1>10,
     <1>11, <1>12, <1>13, <1>14, <1>15, <1>16, <1>17, <1>18, <1>19,
     <1>20, <1>21, <1>22, <1>23, <1>24
     DEF Next, Bluetooth, EventLoop, KeyTask

(* Every action keeps what a long press has achieved.                      *)
LEMMA ResetStep ==
    ASSUME TypeOK, ArgInv, ResetInv, Next
    PROVE  ResetInv'
<1> USE ParamsAssumption DEF TypeOK, ArgInv, ResetInv, ResetBringsBlufi, StoredOff,
       Wifi, ZeroWifi, DefaultWifi, ram, radio, tasks, histories, Idle
<1>1. CASE ReadBle
  BY <1>1 DEF ReadBle, Save
<1>2. CASE ReadWifi
  BY <1>2 DEF ReadWifi, Save
<1>3. CASE Start
  BY <1>3 DEF Start
<1>4. ASSUME NEW on_off \in 0 .. 3, SetWifi(on_off) PROVE ResetInv'
  BY <1>4 DEF SetWifi, Command, At
<1>5. ASSUME NEW zone \in Zones, SetZone(zone) PROVE ResetInv'
  BY <1>5 DEF SetZone, Command, At
<1>6. ASSUME NEW name \in Names, SetBleName(name) PROVE ResetInv'
  BY <1>6 DEF SetBleName, Command, At
<1>7. ASSUME NEW k \in Keys, SetBleKey(k) PROVE ResetInv'
  BY <1>7 DEF SetBleKey, Command, At
<1>8. ASSUME NEW ap \in Aps, RecvSta(ap) PROVE ResetInv'
  BY <1>8 DEF RecvSta, Command, At
<1>9. CASE WriteOnOff
  BY <1>9 DEF WriteOnOff, At
<1>10. CASE WriteZone
  BY <1>10 DEF WriteZone, At
<1>11. CASE CommandSaves
  BY <1>11 DEF CommandSaves, SaveWifi, Save, At
<1>12. CASE KeySaves
  BY <1>12 DEF KeySaves, Save, At
<1>13. CASE ResetFactory
  BY <1>13 DEF ResetFactory, EraseKeys, Command, At
<1>14. CASE ResetIxe
  BY <1>14 DEF ResetIxe, EraseKeys, Command, At
<1>15. CASE Connected
  BY <1>15 DEF Connected, At
<1>16. CASE WriteSsid
  BY <1>16 DEF WriteSsid, At
<1>17. CASE SaveAp
  BY <1>17 DEF SaveAp, SaveWifi, Save, At
<1>18. CASE GotIp
  BY <1>18 DEF GotIp, At
<1>19. CASE Disconnected
  BY <1>19 DEF Disconnected, At
<1>20. CASE LongPress
  BY <1>20 DEF LongPress, At
<1>21. CASE Erase
  BY <1>21 DEF Erase, EraseKeys, At
<1>22. CASE Restore
  BY <1>22 DEF Restore, At
<1>23. CASE Restart
  BY <1>23 DEF Restart, Reset, At
<1>24. CASE PowerLoss
  BY <1>24 DEF PowerLoss, Reset
<1> QED
  BY <1>1, <1>2, <1>3, <1>4, <1>5, <1>6, <1>7, <1>8, <1>9, <1>10,
     <1>11, <1>12, <1>13, <1>14, <1>15, <1>16, <1>17, <1>18, <1>19,
     <1>20, <1>21, <1>22, <1>23, <1>24
     DEF Next, Bluetooth, EventLoop, KeyTask

----------------------------------------------------------------------------
(* Nothing changes when nothing changes.                                   *)
LEMMA Stutter == IInv /\ UNCHANGED vars => IInv'
<1> SUFFICES ASSUME IInv, UNCHANGED vars PROVE IInv'
  OBVIOUS
<1>1. FlagsOK'
  BY TypeHalves, Zenon DEF IInv, FlagsOK, vars, radio, histories
<1>2. DataOK'
  BY TypeHalves DEF IInv, DataOK, vars, ram, radio, tasks
<1>3. ArgInv' /\ WholeInv' /\ CurrentInv' /\ ResetInv'
  BY DEF IInv, ArgInv, WholeInv, CurrentInv, ResetInv, StoredOff,
         StoredWholeUnlessOverlap, ResetBringsBlufi, WritingWifi,
         vars, ram, radio, tasks, histories
<1> QED
  BY <1>1, <1>2, <1>3, TypeHalves, PTL DEF IInv

(* The invariant is inductive.                                             *)
LEMMA Invariance == Spec => []IInv
<1>1. IInv /\ [Next]_vars => IInv'
  <2> SUFFICES ASSUME IInv, [Next]_vars PROVE IInv'
    OBVIOUS
  <2>1. CASE Next
    <3>1. TypeOK /\ DataOK /\ FlagsOK /\ ArgInv /\ WholeInv /\ CurrentInv
          /\ ResetInv
      BY TypeHalves DEF IInv
    <3>2. TypeOK'
      <4>1. DataOK' /\ FlagsOK'
        BY <2>1, <3>1, DataStep, FlagsStep
      <4> QED
        BY <4>1, TypeHalves, PTL
    <3>3. ArgInv' /\ WholeInv' /\ CurrentInv' /\ ResetInv'
      BY <2>1, <3>1, ArgStep, WholeStep, CurrentStep, ResetStep
    <3> QED
      BY <3>2, <3>3 DEF IInv
  <2>2. CASE UNCHANGED vars
    BY <2>2, Stutter
  <2> QED
    BY <2>1, <2>2
<1> QED
  BY <1>1, InvInit, PTL DEF Spec

(* What the tasks read from x_wifi and x_ble is well-formed: a blob that   *)
(* is missing is never taken for parameters (ixe_read_storage_params).     *)
THEOREM TypeCorrect == Spec => []TypeOK
<1>1. IInv => TypeOK
  BY DEF IInv
<1> QED
  BY <1>1, Invariance, PTL

(* Each task saves what the other may be writing, without a lock; when     *)
(* both are through, what is stored is what is in RAM.                     *)
THEOREM StoredCurrent == Spec => []StoredIsCurrent
<1>1. IInv => StoredIsCurrent
  BY DEF IInv, CurrentInv, StoredIsCurrent
<1> QED
  BY <1>1, Invariance, PTL

(* Only an overlap of the Bluetooth task with the event loop, or a failed  *)
(* read, lets ixe_save_wifi_params store half-written parameters.          *)
THEOREM StoredWhole == Spec => []StoredWholeUnlessOverlap
<1>1. IInv => StoredWholeUnlessOverlap
  BY DEF IInv, WholeInv
<1> QED
  BY <1>1, Invariance, PTL

(* The long press (bgs_key_trigger) brings BLUFI back.                     *)
THEOREM LongPressBringsBlufi == Spec => []ResetBringsBlufi
<1>1. IInv => ResetBringsBlufi
  BY DEF IInv, ResetInv
<1> QED
  BY <1>1, Invariance, PTL
=============================================================================
