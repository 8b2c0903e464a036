---------------------------- MODULE BleOtaProofs ----------------------------
(***************************************************************************)
(* Proofs about BleOta, for every length of the image and every set of     *)
(* packet sizes: what is sent as data is taken as data, and the partition  *)
(* that boots next always holds a complete image.                          *)
(***************************************************************************)
EXTENDS BleOta, TLAPS

(* A client that sends has not written OTA_DONE, and no earlier OTA_DONE   *)
(* is still to be acted on: only that ends the update.                     *)
SendingInv ==
    /\ client.pc = "sending" =>
           updating /\ ota_ctrl_val # "OTA_DONE" /\ task # "stop"
    /\ client.pc = "requested" => ota_ctrl_val # "OTA_DONE"
    /\ task = "ack" => updating

(* The partitions differ only between the switch and the restart.          *)
ImageInv ==
    /\ Complete(partition[running])
    /\ Complete(partition[boot])
    /\ task = "boot" => Complete(partition[update_partition])
    /\ boot # running => task \in {"done_ack", "restart"}

(* The task is created when the server is up.                              *)
StageInv == stage # "server" => task = "none"

(* Whose turn it is: while a client sends, ble_ota_task has answered it    *)
(* and has nothing to act on; the OTA_DONE of one follows its answer.  A   *)
(* write that lasts in a clean session is one of its packets.              *)
Answered == task = "clear" \/ (task = "wait" /\ ota_ctrl_val = "cleared")

TurnInv ==
    /\ client.pc = "sending" => Answered
    /\ client.pc = "done" => /\ task \notin {"none", "begin", "updating", "ack", "nak"}
                             /\ ota_ctrl_val # "OTA_REQUEST"
    /\ clean /\ data.pc # "idle" =>
           client.pc \in {"sending", "gone"} /\ Answered /\ data.buffer # <<>>

(* A write holds the handle, and an update that begins while nothing else  *)
(* is written to it begins empty.                                          *)
OpenInv ==
    ~ub =>
    /\ data.pc = "writing" => handle = "open" /\ (updating \/ task = "end")
    /\ \/ task = "updating" /\ ~updating
       \/ task \in {"updating", "ack"} /\ clean
       => handle = "open" /\ partition[update_partition] = <<>>

(* The packet size of a clean session is its client's.                     *)
SizeInv ==
    /\ client.pc \in {"sized", "requested"} => client.next = 1
    /\ clean /\ client.pc \in {"sized", "requested", "sending"}
           => packet_size = client.size

(* What is in the partition or on its way there: as much of the image as   *)
(* the client has sent, and, behind its end, what memcpy read there.       *)
Sent == IF data.pc = "idle" THEN partition[update_partition]
                            ELSE partition[update_partition] \o data.buffer
Begins(content) ==
    \A i \in 1 .. ImageLen : i <= Len(content) => content[i] = Image[i]

ContentInv ==
    ~ub /\ clean /\ ~faulty =>
    /\ client.pc = "sending" =>
           handle = "open" /\ Len(Sent) = client.next - 1 /\ Begins(Sent)
    /\ client.pc = "done" =>
           /\ task \in {"clear", "wait", "stop", "end"} =>
                  handle = "open" /\ Complete(partition[update_partition])
           /\ task # "done_nak"

SessionInv ==
    /\ TurnInv /\ OpenInv /\ SizeInv /\ ContentInv
    /\ HandleSound /\ CleanSessionInstalls

IInv == TypeOK /\ SendingInv /\ StageInv /\ ImageInv /\ SessionInv

----------------------------------------------------------------------------
(* The other partition is one.                                             *)
LEMMA UpdatePartition ==
    ASSUME running \in Partitions
    PROVE  update_partition \in Partitions /\ update_partition # running
<1>1. \E p \in Partitions : p # running
  BY DEF Partitions
<1> QED
  BY <1>1 DEF update_partition

(* Writing on after a complete image leaves it complete.                   *)
LEMMA CompleteAppend ==
    ASSUME NEW c \in Seq(Nat), NEW b \in Seq(Nat), Complete(c)
    PROVE  Complete(c \o b)
<1>1. Len(Image) = ImageLen /\ Image \in Seq(Nat)
  BY BleOtaAssumption DEF Image
<1>2. Len(c) >= ImageLen /\ SubSeq(Image, 1, ImageLen) = SubSeq(c, 1, ImageLen)
  BY <1>1 DEF Complete, IsPrefix
<1>3. Len(c \o b) >= ImageLen
  BY <1>1, <1>2, BleOtaAssumption
<1>4. SubSeq(c \o b, 1, ImageLen) = SubSeq(c, 1, ImageLen)
  BY <1>1, <1>2, BleOtaAssumption
<1> QED
  BY <1>1, <1>2, <1>3, <1>4 DEF Complete, IsPrefix

(* The bytes memcpy takes are bytes.                                       *)
LEMMA CopiedType ==
    ASSUME packet_size \in Nat, NEW value \in Seq(Nat)
    PROVE  Copied(value) \in Seq(Nat)
<1> DEFINE byte(i) == IF i <= Len(value) THEN value[i] ELSE 0
<1>1. \A i \in 1 .. packet_size : byte(i) \in Nat
  OBVIOUS
<1>2. [i \in 1 .. packet_size |-> byte(i)] \in [1 .. packet_size -> Nat]
  BY <1>1
<1> QED
  BY <1>2 DEF Copied

(* Changes of the client and of the write of data keep their types.        *)
LEMMA ClientTypes ==
    /\ Gone \in Clients
    /\ \A c \in Clients, pc \in ClientStates : [c EXCEPT !.pc = pc] \in Clients
    /\ \A c \in Clients : \A n \in Nat \ {0} : [c EXCEPT !.next = n] \in Clients
    /\ \A c \in Clients : c.size \in Nat \ {0} /\ c.next \in Nat \ {0}
  BY DEF Clients, ClientStates, Gone

LEMMA DataTypes ==
    /\ NoData \in DataWrites
    /\ \A d \in DataWrites : d.buffer \in Seq(Nat)
    /\ \A d \in DataWrites : [d EXCEPT !.pc = "writing"] \in DataWrites
    /\ \A b \in Seq(Nat) : [pc |-> "copied", buffer |-> b] \in DataWrites
  BY DEF DataWrites, NoData

----------------------------------------------------------------------------
LEMMA InvInit == Init => IInv
<1> SUFFICES ASSUME Init PROVE IInv
  OBVIOUS
<1>1. Image \in Seq(Nat) /\ Len(Image) = ImageLen
  BY BleOtaAssumption DEF Image
<1>2. Complete(Image)
  BY <1>1, BleOtaAssumption DEF Complete, IsPrefix
<1>3. TypeOK
  <2>1. client \in Clients /\ data \in DataWrites
    BY ClientTypes, DataTypes DEF Init
  <2>2. partition \in [Partitions -> Seq(Nat)]
    <3>1. <<>> \in Seq(Nat)
      OBVIOUS
    <3> QED
      BY <1>1, <3>1 DEF Init
  <2>3. running \in Partitions /\ boot \in Partitions
    BY DEF Init, Partitions
  <2>4. attempts \in 0 .. MaxAttempts /\ packet_size \in Sizes \cup {0}
    BY BleOtaAssumption DEF Init
  <2>5. stage \in {"blufi", "requested", "server", "none"}
        /\ ota_ctrl_val \in {"nop", "OTA_REQUEST", "OTA_DONE", "cleared"}
        /\ handle \in {"none", "open", "freed"}
    BY DEF Init
  <2>6. task = "none"
    BY DEF Init
  <2>7. /\ ota_flag \in BOOLEAN /\ updating \in BOOLEAN
        /\ clean \in BOOLEAN /\ faulty \in BOOLEAN /\ unread \in BOOLEAN
        /\ lost \in BOOLEAN /\ ub \in BOOLEAN
    BY Zenon DEF Init
  <2> QED
    BY <2>1, <2>2, <2>3, <2>4, <2>5, <2>6, <2>7 DEF TypeOK
<1>4. SendingInv
  BY DEF Init, SendingInv, Gone
<1>5. partition[running] = Image /\ partition[boot] = Image
  BY DEF Init, Partitions
<1>6. SessionInv
  BY DEF Init, SessionInv, TurnInv, OpenInv, SizeInv, ContentInv,
     HandleSound, CleanSessionInstalls, Gone, NoData
<1> QED
  BY <1>2, <1>3, <1>4, <1>5, <1>6 DEF Init, IInv, StageInv, ImageInv

(* What a client that follows the protocol writes as data.                 *)
LEMMA DataWriteType ==
    ASSUME TypeOK, NEW value \in Seq(Nat), WriteData(value),
           updating \/ value[1] \in Sizes
    PROVE  /\ data' \in DataWrites
           /\ packet_size' \in Sizes \cup {0}
<1>1. CASE updating
  <2>1. packet_size \in Nat
    BY BleOtaAssumption DEF TypeOK
  <2>2. Copied(value) \in Seq(Nat)
    BY <2>1, CopiedType
  <2> QED
    BY <1>1, <2>2, DataTypes DEF WriteData, TypeOK
<1>2. CASE ~updating
  BY <1>2 DEF WriteData, TypeOK
<1> QED
  BY <1>1, <1>2

LEMMA ClientStep ==
    ASSUME client \in Clients, Next
    PROVE  client' \in Clients
<1>1. CASE client' = client
  BY <1>1
<1>2. CASE client' = Gone
  BY <1>2, ClientTypes
<1>3. ASSUME NEW pc \in ClientStates, client' = [client EXCEPT !.pc = pc]
      PROVE  client' \in Clients
  BY <1>3, ClientTypes
<1>4. CASE Connect
  BY <1>4, ClientTypes DEF Connect, ClientStates
<1>5. CASE WriteConfig
  BY <1>5, <1>3 DEF WriteConfig, ClientStates
<1>6. CASE Request \/ Done
  BY <1>6, <1>3 DEF Request, Done, WriteControl, ClientStates
<1>7. CASE SendPacket
  <2>1. client.next + client.size \in Nat \ {0}
    BY ClientTypes
  <2>2. client' = [client EXCEPT !.next = client.next + client.size - 1 + 1]
    BY <1>7 DEF SendPacket
  <2>3. client.next + client.size - 1 + 1 = client.next + client.size
    BY ClientTypes
  <2> QED
    BY <2>1, <2>2, <2>3, ClientTypes
<1>8. ASSUME NEW from, NEW size \in Sizes, AnnounceSize(from, size)
      PROVE  client' \in Clients
  BY <1>8, BleOtaAssumption DEF AnnounceSize, Clients, ClientStates
<1>9. CASE AnswerRequest \/ AnswerDone
  <2>1. \A a \in {"ack", "nak", "done_ack", "done_nak"} :
            Answer[a].then \in ClientStates
    BY DEF Answer, ClientStates
  <2>2. PICK a \in {"ack", "nak", "done_ack", "done_nak"} : Indicate(a)
    BY <1>9 DEF AnswerRequest, AnswerDone
  <2> QED
    BY <2>1, <2>2, <1>1, <1>3 DEF Indicate
<1>10. Disconnect \/ Reset => client' = Gone
  BY DEF Disconnect, Reset
<1>11. \/ SetBleOta \/ StartBleOta \/ DataChecked \/ DataWritten \/ Poll
       \/ Begin \/ SetUpdating \/ Clear \/ Stop \/ End \/ SetBootPartition
       => client' = client
  BY DEF SetBleOta, StartBleOta, DataChecked, DataWritten, Poll, Begin,
     SetUpdating, Clear, Stop, End, SetBootPartition
<1> QED
  BY <1>1, <1>2, <1>4, <1>5, <1>6, <1>7, <1>8, <1>9, <1>10, <1>11
     DEF Next, Bluetooth, BleOtaTask, Restart, PowerLoss

LEMMA DataStep ==
    ASSUME TypeOK, SendingInv, Next
    PROVE  data' \in DataWrites /\ packet_size' \in Sizes \cup {0}
<1>1. CASE UNCHANGED <<data, packet_size>>
  BY <1>1 DEF TypeOK
<1>2. CASE SendPacket
  <2> DEFINE last == client.next + client.size - 1
             to == IF last < ImageLen THEN last ELSE ImageLen
  <2>1. client \in Clients
    BY DEF TypeOK
  <2>2. client.next \in Nat \ {0} /\ last \in Nat
    BY <2>1, ClientTypes
  <2>3. Image \in Seq(Nat) /\ Len(Image) = ImageLen
    BY BleOtaAssumption DEF Image
  <2>4. SubSeq(Image, client.next, to) \in Seq(Nat)
    BY <2>2, <2>3, BleOtaAssumption
  <2>5. updating /\ WriteData(SubSeq(Image, client.next, to))
    BY <1>2 DEF SendPacket, Write, SendingInv
  <2> QED
    BY <2>4, <2>5, DataWriteType
<1>3. ASSUME NEW from, NEW size \in Sizes, AnnounceSize(from, size)
      PROVE  data' \in DataWrites /\ packet_size' \in Sizes \cup {0}
  <2>1. <<size>> \in Seq(Nat) /\ <<size>>[1] \in Sizes
    BY BleOtaAssumption
  <2> QED
    BY <1>3, <2>1, DataWriteType DEF AnnounceSize
<1>4. CASE DataChecked
  BY <1>4, DataTypes DEF DataChecked, TypeOK
<1>5. CASE DataWritten
  BY <1>5, DataTypes DEF DataWritten, TypeOK
<1>6. CASE Reset
  BY <1>6, DataTypes DEF Reset
<1>7. \/ SetBleOta \/ StartBleOta \/ Connect \/ Disconnect \/ WriteConfig
      \/ Request \/ Done \/ BleOtaTask
      => UNCHANGED <<data, packet_size>>
  BY DEF SetBleOta, StartBleOta, Connect, Disconnect, WriteConfig, Request,
     Done, WriteControl, ram, BleOtaTask, Poll, Begin, SetUpdating,
     AnswerRequest, Clear, Stop, End, SetBootPartition, AnswerDone
<1> QED
  BY <1>1, <1>2, <1>3, <1>4, <1>5, <1>6, <1>7
     DEF Next, Bluetooth, Restart, PowerLoss

(* Partitions are written to by the data writes, a beginning and a switch. *)
LEMMA FlashStep ==
    ASSUME TypeOK, Next
    PROVE  /\ partition' \in [Partitions -> Seq(Nat)]
           /\ running' \in Partitions /\ boot' \in Partitions
<1>1. update_partition \in Partitions
  BY UpdatePartition DEF TypeOK
<1>2. CASE UNCHANGED flash
  BY <1>2 DEF TypeOK, flash
<1>3. CASE DataWritten
  <2>1. data.buffer \in Seq(Nat)
    BY DataTypes DEF TypeOK
  <2>2. partition[update_partition] \o data.buffer \in Seq(Nat)
    BY <1>1, <2>1 DEF TypeOK
  <2> QED
    BY <1>3, <2>2 DEF DataWritten, TypeOK
<1>4. CASE Begin
  <2>1. CASE UNCHANGED flash
    BY <2>1, <1>2
  <2>2. CASE BeginOk
    <3>1. <<>> \in Seq(Nat)
      OBVIOUS
    <3> QED
      BY <1>4, <2>2, <3>1 DEF Begin, BeginOk, TypeOK
  <2> QED
    BY <1>4, <2>1, <2>2 DEF Begin, BeginFailed, flash
<1>5. CASE SetBootPartition
  BY <1>1, <1>5 DEF SetBootPartition, TypeOK
<1>6. CASE Reset
  BY <1>6 DEF Reset, TypeOK
<1>7. \/ SetBleOta \/ StartBleOta \/ Connect \/ Disconnect \/ WriteConfig
      \/ Request \/ Done \/ SendPacket \/ DataChecked \/ Poll \/ SetUpdating
      \/ AnswerRequest \/ Clear \/ Stop \/ End \/ AnswerDone
      => UNCHANGED flash
  BY DEF SetBleOta, StartBleOta, Connect, Disconnect, WriteConfig, Request,
     Done, WriteControl, SendPacket, WriteData, DataChecked, Poll,
     SetUpdating, AnswerRequest, Clear, Stop, End, AnswerDone
<1>8. \A from, size : AnnounceSize(from, size) => UNCHANGED flash
  BY DEF AnnounceSize, WriteData
<1> QED
  BY <1>2, <1>3, <1>4, <1>5, <1>6, <1>7, <1>8
     DEF Next, Bluetooth, BleOtaTask, Restart, PowerLoss

LEMMA FlagStep ==
    ASSUME ota_flag \in BOOLEAN, updating \in BOOLEAN, clean \in BOOLEAN,
           faulty \in BOOLEAN, unread \in BOOLEAN, lost \in BOOLEAN,
           ub \in BOOLEAN, Next
    PROVE  /\ ota_flag' \in BOOLEAN /\ updating' \in BOOLEAN
           /\ clean' \in BOOLEAN /\ faulty' \in BOOLEAN
           /\ unread' \in BOOLEAN /\ lost' \in BOOLEAN /\ ub' \in BOOLEAN
<1> DEFINE Flags == <<ota_flag, updating, clean, faulty, unread, lost, ub>>
<1>1. CASE UNCHANGED Flags
  BY <1>1
<1>2. \/ SetBleOta \/ StartBleOta \/ Connect \/ Disconnect \/ SendPacket
      \/ DataChecked \/ AnswerRequest \/ AnswerDone
      => UNCHANGED Flags
  BY DEF SetBleOta, StartBleOta, Connect, Disconnect, SendPacket, WriteData,
     DataChecked, AnswerRequest, AnswerDone, histories, ram
<1>3. CASE WriteConfig
  BY <1>3, Zenon DEF WriteConfig, histories
<1>4. CASE Request \/ Done
  BY <1>4, Zenon DEF Request, Done, WriteControl
<1>5. ASSUME NEW from, NEW size \in Sizes, AnnounceSize(from, size)
      PROVE  /\ ota_flag' \in BOOLEAN /\ updating' \in BOOLEAN
             /\ clean' \in BOOLEAN /\ faulty' \in BOOLEAN
             /\ unread' \in BOOLEAN /\ lost' \in BOOLEAN /\ ub' \in BOOLEAN
  BY <1>5, Zenon DEF AnnounceSize, WriteData
<1>6. CASE DataWritten
  BY <1>6, Zenon DEF DataWritten
<1>7. CASE Poll
  BY <1>7, Zenon DEF Poll
<1>8. CASE Begin
  BY <1>8, Zenon DEF Begin, BeginOk, BeginFailed, FreeHandle, histories
<1>9. CASE SetUpdating \/ Stop
  BY <1>9, Zenon DEF SetUpdating, Stop, histories
<1>10. CASE Clear
  BY <1>10, Zenon DEF Clear
<1>11. CASE End
  BY <1>11, Zenon DEF End, FreeHandle, histories
<1>12. CASE SetBootPartition
  BY <1>12, Zenon DEF SetBootPartition
<1>13. CASE Reset
  BY <1>13, Zenon DEF Reset
<1> HIDE DEF Flags
<1> QED
  BY <1>1, <1>2, <1>3, <1>4, <1>5, <1>6, <1>7, <1>8, <1>9, <1>10, <1>11,
     <1>12, <1>13 DEF Next, Bluetooth, BleOtaTask, Restart, PowerLoss

(* Where everything is: the four sets of states and the bound.             *)
LEMMA ControlStep ==
    ASSUME TypeOK, Next
    PROVE  /\ stage' \in {"blufi", "requested", "server", "none"}
           /\ ota_ctrl_val' \in {"nop", "OTA_REQUEST", "OTA_DONE", "cleared"}
           /\ handle' \in {"none", "open", "freed"}
           /\ task' \in {"none", "wait", "begin", "updating", "ack", "nak",
                         "clear", "stop", "end", "boot", "done_ack",
                         "done_nak", "restart"}
           /\ attempts' \in 0 .. MaxAttempts
<1> DEFINE Control ==
             /\ stage \in {"blufi", "requested", "server", "none"}
             /\ ota_ctrl_val \in {"nop", "OTA_REQUEST", "OTA_DONE", "cleared"}
             /\ handle \in {"none", "open", "freed"}
             /\ task \in {"none", "wait", "begin", "updating", "ack", "nak",
                          "clear", "stop", "end", "boot", "done_ack",
                          "done_nak", "restart"}
             /\ attempts \in 0 .. MaxAttempts
<1>1. Control
  BY DEF TypeOK
<1> SUFFICES Control'
  OBVIOUS
<1>2. CASE SetBleOta \/ StartBleOta \/ Connect \/ Disconnect \/ WriteConfig
  BY <1>1, <1>2 DEF SetBleOta, StartBleOta, Connect, Disconnect,
     WriteConfig, ram
<1>3. CASE Request \/ Done
  BY <1>1, <1>3 DEF Request, Done, WriteControl
<1>4. CASE SendPacket
  BY <1>1, <1>4 DEF SendPacket, WriteData
<1>5. ASSUME NEW from, NEW size \in Sizes, AnnounceSize(from, size)
      PROVE  Control'
  BY <1>1, <1>5, BleOtaAssumption DEF AnnounceSize, WriteData
<1>6. CASE DataChecked \/ DataWritten
  BY <1>1, <1>6 DEF DataChecked, DataWritten
<1>7. CASE Poll \/ SetUpdating \/ AnswerRequest
  BY <1>1, <1>7 DEF Poll, SetUpdating, AnswerRequest, GoesTo
<1>8. CASE Begin
  BY <1>1, <1>8 DEF Begin, BeginOk, BeginFailed, FreeHandle, GoesTo
<1>9. CASE Clear \/ Stop \/ AnswerDone
  BY <1>1, <1>9 DEF Clear, Stop, AnswerDone, GoesTo
<1>10. CASE End
  BY <1>1, <1>10 DEF End, FreeHandle, GoesTo
<1>11. CASE SetBootPartition
  BY <1>1, <1>11 DEF SetBootPartition, GoesTo
<1>12. CASE Reset
  BY <1>1, <1>12, BleOtaAssumption DEF Reset
<1> HIDE DEF Control
<1> QED
  BY <1>2, <1>3, <1>4, <1>5, <1>6, <1>7, <1>8, <1>9, <1>10, <1>11, <1>12
     DEF Next, Bluetooth, BleOtaTask, Restart, PowerLoss

LEMMA TypeStep ==
    ASSUME TypeOK, SendingInv, [Next]_vars
    PROVE  TypeOK'
<1>1. CASE UNCHANGED vars
  BY <1>1 DEF vars, ram, flash, histories, TypeOK
<1>2. CASE Next
  <2>1. client' \in Clients
    BY <1>2, ClientStep DEF TypeOK
  <2>2. data' \in DataWrites /\ packet_size' \in Sizes \cup {0}
    BY <1>2, DataStep
  <2> QED
    BY <1>2, <2>1, <2>2, FlashStep, FlagStep, ControlStep DEF TypeOK
<1> QED
  BY <1>1, <1>2

----------------------------------------------------------------------------
(* The session: only the task's acknowledgement lets a client send, and    *)
(* what the client wrote last keeps the update from being ended meanwhile. *)
LEMMA SendingStep ==
    ASSUME SendingInv, client \in Clients, [Next]_vars
    PROVE  SendingInv'
<1>1. CASE UNCHANGED vars
  BY <1>1 DEF vars, ram, SendingInv
<1>2. CASE UNCHANGED <<ota_ctrl_val, updating, task>> /\ client'.pc = client.pc
  BY <1>2 DEF SendingInv
<1>3. SetBleOta \/ DataChecked \/ DataWritten
      => UNCHANGED <<ota_ctrl_val, updating, task, client>>
  BY DEF SetBleOta, DataChecked, DataWritten
<1>4. CASE StartBleOta
  BY <1>4 DEF StartBleOta, SendingInv
<1>5. CASE Connect \/ Disconnect
  BY <1>5 DEF Connect, Disconnect, Gone, ram, SendingInv
<1>6. CASE WriteConfig
  BY <1>6 DEF WriteConfig, SendingInv, Clients
<1>7. CASE Request
  BY <1>7 DEF Request, WriteControl, SendingInv, Clients
<1>8. CASE Done
  BY <1>8 DEF Done, WriteControl, SendingInv, Clients
<1>9. CASE SendPacket
  BY <1>9 DEF SendPacket, WriteData, SendingInv, Clients
<1>10. ASSUME NEW from, NEW size \in Sizes, AnnounceSize(from, size)
       PROVE  SendingInv'
  BY <1>10 DEF AnnounceSize, WriteData, SendingInv
<1>11. CASE Poll
  BY <1>11 DEF Poll, GoesTo, SendingInv
<1>12. CASE Begin
  BY <1>12 DEF Begin, BeginOk, BeginFailed, GoesTo, SendingInv
<1>13. CASE SetUpdating
  BY <1>13 DEF SetUpdating, GoesTo, SendingInv
<1>14. CASE AnswerRequest
  <2>1. PICK a \in {"ack", "nak"} : GoesTo(a, "clear") /\ Indicate(a)
    BY <1>14 DEF AnswerRequest
  <2>2. UNCHANGED <<ota_ctrl_val, updating>>
    BY <1>14 DEF AnswerRequest
  <2>3. CASE client.pc # "requested"
    BY <2>1, <2>2, <2>3 DEF Indicate, Answer, GoesTo, SendingInv
  <2>4. CASE client.pc = "requested" /\ a = "ack"
    BY <2>1, <2>2, <2>4 DEF Indicate, Answer, GoesTo, SendingInv, Clients
  <2>5. CASE client.pc = "requested" /\ a = "nak"
    BY <2>1, <2>2, <2>5 DEF Indicate, Answer, GoesTo, SendingInv, Clients
  <2> QED
    BY <2>1, <2>3, <2>4, <2>5
<1>15. CASE Clear
  BY <1>15 DEF Clear, GoesTo, SendingInv
<1>16. CASE Stop
  BY <1>16 DEF Stop, GoesTo, SendingInv
<1>17. CASE End \/ SetBootPartition
  BY <1>17 DEF End, SetBootPartition, GoesTo, SendingInv
<1>18. CASE AnswerDone
  BY <1>18 DEF AnswerDone, Indicate, Answer, GoesTo, SendingInv, Clients
<1>19. CASE Reset
  BY <1>19 DEF Reset, Gone, SendingInv
<1> QED
  BY <1>1, <1>2, <1>3, <1>4, <1>5, <1>6, <1>7, <1>8, <1>9, <1>10, <1>11,
     <1>12, <1>13, <1>14, <1>15, <1>16, <1>17, <1>18, <1>19
     DEF Next, Bluetooth, BleOtaTask, Restart, PowerLoss

LEMMA StageStep ==
    ASSUME StageInv, [Next]_vars
    PROVE  StageInv'
<1>1. CASE UNCHANGED <<stage, task>>
  BY <1>1 DEF StageInv
<1>2. CASE SetBleOta \/ StartBleOta \/ Reset
  BY <1>2 DEF SetBleOta, StartBleOta, Reset, StageInv
<1>3. CASE BleOtaTask
  <2>1. task # "none" /\ UNCHANGED stage
    BY <1>3 DEF BleOtaTask, Poll, Begin, BeginOk, BeginFailed, SetUpdating,
       AnswerRequest, Clear, Stop, End, SetBootPartition, AnswerDone, GoesTo
  <2> QED
    BY <2>1 DEF StageInv
<1>4. \/ UNCHANGED vars \/ Connect \/ Disconnect \/ WriteConfig \/ Request
      \/ Done \/ SendPacket \/ DataChecked \/ DataWritten
      => UNCHANGED <<stage, task>>
  BY DEF vars, Connect, Disconnect, WriteConfig, Request, Done, WriteControl,
     SendPacket, WriteData, DataChecked, DataWritten, ram
<1>5. \A from, size : AnnounceSize(from, size) => UNCHANGED <<stage, task>>
  BY DEF AnnounceSize, WriteData
<1> QED
  BY <1>1, <1>2, <1>3, <1>4, <1>5 DEF Next, Bluetooth, Restart, PowerLoss

(* The images: a partition is completed before it is switched to, and a    *)
(* beginning overwrites neither the one that runs nor the one that boots.  *)
LEMMA ImageStep ==
    ASSUME TypeOK, StageInv, ImageInv, [Next]_vars
    PROVE  ImageInv'
<1> DEFINE other == update_partition
<1>1. other \in Partitions /\ other # running
  BY UpdatePartition DEF TypeOK
<1>2. running' = running => update_partition' = update_partition
  BY DEF update_partition
<1>3. CASE UNCHANGED <<flash, task>>
  BY <1>2, <1>3 DEF flash, ImageInv
<1>4. CASE UNCHANGED flash /\ task # "boot" /\ task' # "boot"
           /\ task \notin {"done_ack", "restart"}
  BY <1>2, <1>4 DEF flash, ImageInv
<1>5. CASE UNCHANGED vars
  BY <1>3, <1>5 DEF vars, ram
<1>6. \/ SetBleOta \/ Connect \/ Disconnect \/ WriteConfig \/ Request \/ Done
      \/ SendPacket \/ DataChecked
      => UNCHANGED <<flash, task>>
  BY DEF SetBleOta, Connect, Disconnect, WriteConfig, Request, Done,
     WriteControl, SendPacket, WriteData, DataChecked, ram
<1>7. \A from, size : AnnounceSize(from, size) => UNCHANGED <<flash, task>>
  BY DEF AnnounceSize, WriteData
<1>8. CASE StartBleOta
  BY <1>2, <1>8 DEF StartBleOta, flash, StageInv, ImageInv
<1>9. CASE DataWritten
  <2>1. data.buffer \in Seq(Nat) /\ partition[other] \in Seq(Nat)
    BY <1>1, DataTypes DEF TypeOK
  <2>2. UNCHANGED <<running, boot, task>>
    BY <1>9 DEF DataWritten
  <2>3. \/ partition' = partition
        \/ partition' = [partition EXCEPT ![other] = partition[other] \o data.buffer]
    BY <1>9 DEF DataWritten
  <2>4. Complete(partition[other]) => Complete(partition[other] \o data.buffer)
    BY <2>1, CompleteAppend
  <2>5. \A p \in Partitions : Complete(partition[p]) => Complete(partition'[p])
    <3> HIDE DEF other
    <3> QED
      BY <2>3, <2>4, <1>1 DEF TypeOK
  <2>6. running \in Partitions /\ boot \in Partitions
    BY DEF TypeOK
  <2> QED
    BY <1>1, <1>2, <2>2, <2>5, <2>6 DEF ImageInv
<1>10. CASE Poll \/ SetUpdating \/ AnswerRequest \/ Clear \/ Stop
  BY <1>4, <1>10 DEF Poll, SetUpdating, AnswerRequest, Clear, Stop, GoesTo
<1>11. CASE Begin
  <2>1. task = "begin" /\ task' \in {"updating", "nak"} /\ UNCHANGED <<running, boot>>
    BY <1>11 DEF Begin, BeginOk, BeginFailed, GoesTo
  <2>2. boot = running
    BY <2>1 DEF ImageInv
  <2>3. partition'[running] = partition[running]
    <3> HIDE DEF other
    <3>1. partition' = partition \/ partition' = [partition EXCEPT ![other] = <<>>]
      BY <1>11 DEF Begin, BeginOk, BeginFailed, other
    <3> QED
      BY <3>1, <1>1 DEF TypeOK
  <2> QED
    BY <2>1, <2>2, <2>3 DEF ImageInv
<1>12. CASE End
  <2>1. task = "end" /\ UNCHANGED flash
    BY <1>12 DEF End, GoesTo
  <2>2. task' = "boot" => Complete(partition[other])
    BY <1>12 DEF End, GoesTo
  <2>3. boot = running
    BY <2>1 DEF ImageInv
  <2> QED
    BY <1>2, <2>1, <2>2, <2>3 DEF ImageInv, flash
<1>13. CASE SetBootPartition
  <2>1. task = "boot" /\ Complete(partition[other]) /\ boot = running
    BY <1>13 DEF SetBootPartition, GoesTo, ImageInv
  <2>2. UNCHANGED <<partition, running>>
    BY <1>13 DEF SetBootPartition
  <2>3. \/ task' = "done_ack" /\ boot' = other
        \/ task' = "done_nak" /\ boot' = boot
    BY <1>13 DEF SetBootPartition, GoesTo
  <2> QED
    BY <2>1, <2>2, <2>3 DEF ImageInv
<1>14. CASE AnswerDone
  <2>1. \/ task = "done_ack" /\ task' = "restart"
        \/ task = "done_nak" /\ task' = "wait"
    BY <1>14 DEF AnswerDone, GoesTo
  <2>2. UNCHANGED flash
    BY <1>14 DEF AnswerDone
  <2> QED
    BY <2>1, <2>2 DEF ImageInv, flash
<1>15. CASE Reset
  BY <1>15 DEF Reset, ImageInv
<1> QED
  BY <1>3, <1>5, <1>6, <1>7, <1>8, <1>9, <1>10, <1>11, <1>12, <1>13, <1>14,
     <1>15 DEF Next, Bluetooth, BleOtaTask, Restart, PowerLoss

----------------------------------------------------------------------------
(* Sessions.  Most steps of a session leave the flash and the types alone; *)
(* they are taken from the invariants above.                               *)
LEMMA TurnStep ==
    ASSUME TypeOK, SendingInv, StageInv, TurnInv, SizeInv, [Next]_vars
    PROVE  TurnInv'
<1>0. client \in Clients /\ packet_size \in Nat
  BY BleOtaAssumption DEF TypeOK
<1>1. CASE UNCHANGED <<ota_ctrl_val, data, task, client, clean>>
  BY <1>1 DEF TurnInv, Answered
<1>2. UNCHANGED vars \/ SetBleOta
      => UNCHANGED <<ota_ctrl_val, data, task, client, clean>>
  BY DEF vars, ram, histories, SetBleOta
<1>3. CASE StartBleOta
  <2>1. task = "none" /\ task' \in {"none", "wait"}
    BY <1>3 DEF StartBleOta, StageInv
  <2>2. UNCHANGED <<ota_ctrl_val, data, client, clean>>
    BY <1>3 DEF StartBleOta, histories
  <2> QED
    BY <2>1, <2>2 DEF TurnInv, Answered
<1>4. CASE Connect \/ Disconnect
  <2>1. client'.pc \in {"connected", "gone"}
    BY <1>4 DEF Connect, Disconnect, Gone
  <2>2. client'.pc = "connected" => data.pc = "idle"
    BY <1>4 DEF Connect, Disconnect, Gone
  <2>3. UNCHANGED <<ota_ctrl_val, data, task, clean>>
    BY <1>4 DEF Connect, Disconnect, ram, histories
  <2> QED
    BY <2>1, <2>2, <2>3 DEF TurnInv, Answered
<1>5. CASE WriteConfig \/ Request
  <2>1. client'.pc \in {"subscribed", "requested"}
    BY <1>0, <1>5 DEF WriteConfig, Request, WriteControl, Clients
  <2>2. data'.pc = "idle"
    BY <1>5 DEF WriteConfig, Request, WriteControl, Write
  <2> QED
    BY <2>1, <2>2 DEF TurnInv
<1>6. CASE Done
  <2>1. client.pc = "sending" /\ client'.pc = "done" /\ data'.pc = "idle"
    BY <1>0, <1>6 DEF Done, WriteControl, Write, Clients
  <2>2. ota_ctrl_val' = "OTA_DONE" /\ UNCHANGED task
    BY <1>6 DEF Done, WriteControl
  <2> QED
    BY <2>1, <2>2 DEF TurnInv, Answered
<1>7. CASE SendPacket
  <2>1. client.pc = "sending" /\ client'.pc = "sending"
    BY <1>0, <1>7 DEF SendPacket, Write, Clients
  <2>2. PICK value : WriteData(value)
    BY <1>7 DEF SendPacket
  <2>3. UNCHANGED <<ota_ctrl_val, task, clean>>
    BY <1>7 DEF SendPacket, WriteData, histories
  <2>4. updating /\ data' = [pc |-> "copied", buffer |-> Copied(value)]
    BY <2>1, <2>2 DEF SendingInv, WriteData
  <2>5. clean => packet_size >= 1
    BY <1>0, <2>1 DEF SizeInv, Clients
  <2>6. clean => 1 \in DOMAIN Copied(value)
    BY <1>0, <2>5 DEF Copied
  <2>7. clean => Copied(value) # <<>>
    BY <2>6
  <2> QED
    BY <2>1, <2>3, <2>4, <2>7 DEF TurnInv, Answered
<1>8. ASSUME NEW from, NEW size \in Sizes, AnnounceSize(from, size)
      PROVE  TurnInv'
  <2>1. client'.pc = "sized" /\ data.pc = "idle"
    BY <1>8 DEF AnnounceSize, Write
  <2>2. clean' => data' = data
    BY <1>8 DEF AnnounceSize, WriteData
  <2> QED
    BY <2>1, <2>2 DEF TurnInv
<1>9. CASE DataChecked \/ DataWritten
  <2>1. data \in DataWrites /\ data.pc # "idle"
    BY <1>9 DEF DataChecked, DataWritten, TypeOK
  <2>2. data'.pc = "idle" \/ data'.buffer = data.buffer
    BY <1>9, <2>1 DEF DataChecked, DataWritten, NoData, DataWrites
  <2>3. UNCHANGED <<ota_ctrl_val, task, client, clean>>
    BY <1>9 DEF DataChecked, DataWritten, histories
  <2> QED
    BY <2>1, <2>2, <2>3 DEF TurnInv, Answered
<1>10. CASE Poll
  <2>1. /\ task = "wait" /\ ota_ctrl_val # "cleared"
        /\ task' = "begin" => ota_ctrl_val = "OTA_REQUEST"
        /\ task' \in {"begin", "stop"}
    BY <1>10 DEF Poll, GoesTo
  <2>2. UNCHANGED <<ota_ctrl_val, data, client, clean>>
    BY <1>10 DEF Poll
  <2> QED
    BY <2>1, <2>2 DEF TurnInv, Answered
<1>11. CASE Begin \/ SetUpdating
  <2>1. task \in {"begin", "updating"}
    BY <1>11 DEF Begin, BeginOk, BeginFailed, SetUpdating, GoesTo
  <2>2. UNCHANGED <<ota_ctrl_val, data, client, clean>>
    BY <1>11 DEF Begin, SetUpdating, histories
  <2> QED
    BY <2>1, <2>2 DEF TurnInv, Answered
<1>12. CASE AnswerRequest
  <2>1. task \in {"ack", "nak"} /\ task' = "clear"
    BY <1>12 DEF AnswerRequest, GoesTo
  <2>2. UNCHANGED <<ota_ctrl_val, data, clean>>
    BY <1>12 DEF AnswerRequest, histories
  <2>3. client'.pc = client.pc \/ client'.pc \in {"sending", "refused"}
    BY <1>0, <1>12 DEF AnswerRequest, Indicate, Answer, Clients
  <2> QED
    BY <2>1, <2>2, <2>3 DEF TurnInv, Answered
<1>13. CASE Clear
  BY <1>13 DEF Clear, GoesTo, TurnInv, Answered
<1>14. CASE Stop \/ End \/ SetBootPartition
  <2>1. /\ task \in {"stop", "end", "boot"}
        /\ task' \in {"end", "boot", "done_nak", "done_ack"}
    BY <1>14 DEF Stop, End, SetBootPartition, GoesTo
  <2>2. UNCHANGED <<ota_ctrl_val, data, client, clean>>
    BY <1>14 DEF Stop, End, SetBootPartition, histories
  <2> QED
    BY <2>1, <2>2 DEF TurnInv, Answered
<1>15. CASE AnswerDone
  <2>1. task \in {"done_ack", "done_nak"} /\ task' \in {"restart", "wait"}
    BY <1>15 DEF AnswerDone, GoesTo
  <2>2. UNCHANGED <<ota_ctrl_val, data, clean>>
    BY <1>15 DEF AnswerDone, histories
  <2>3. client'.pc = client.pc \/ client'.pc \in {"installed", "rejected"}
    BY <1>0, <1>15 DEF AnswerDone, Indicate, Answer, Clients
  <2> QED
    BY <2>1, <2>2, <2>3 DEF TurnInv, Answered
<1>16. CASE Reset
  BY <1>16 DEF Reset, Gone, NoData, TurnInv
<1> QED
  BY <1>1, <1>2, <1>3, <1>4, <1>5, <1>6, <1>7, <1>8, <1>9, <1>10, <1>11,
     <1>12, <1>13, <1>14, <1>15, <1>16
     DEF Next, Bluetooth, BleOtaTask, Restart, PowerLoss

LEMMA OpenStep ==
    ASSUME TypeOK, SendingInv, StageInv, TurnInv, OpenInv, [Next]_vars
    PROVE  OpenInv'
<1> DEFINE other == update_partition
           Empty == handle = "open" /\ partition[other] = <<>>
<1>0. other \in Partitions /\ data \in DataWrites
  BY UpdatePartition DEF TypeOK
<1>a. running' = running => other' = other
  BY DEF update_partition
<1>1. CASE UNCHANGED <<ub, data, handle, updating, task, clean, partition, running>>
  BY <1>a, <1>1 DEF OpenInv
<1>2. \/ UNCHANGED vars \/ SetBleOta \/ Connect \/ Disconnect \/ WriteConfig
      \/ Request \/ Done
      => UNCHANGED <<ub, data, handle, updating, task, clean, partition, running>>
  BY DEF vars, ram, flash, histories, SetBleOta, Connect, Disconnect,
     WriteConfig, Request, Done, WriteControl
<1>3. CASE StartBleOta
  <2>1. UNCHANGED <<ub, data, handle, updating, clean, partition, running>>
    BY <1>3 DEF StartBleOta, flash, histories
  <2>2. task = "none" /\ task' \in {"none", "wait"}
    BY <1>3 DEF StartBleOta, StageInv
  <2> QED
    BY <2>1, <2>2 DEF OpenInv
<1>4. CASE SendPacket
  <2>1. /\ UNCHANGED <<ub, handle, updating, task, clean, partition, running>>
        /\ data'.pc # "writing"
    BY <1>4 DEF SendPacket, WriteData, Write, flash, histories
  <2> QED
    BY <1>a, <2>1 DEF OpenInv
<1>5. ASSUME NEW from, NEW size \in Sizes, AnnounceSize(from, size)
      PROVE  OpenInv'
  <2>1. /\ UNCHANGED <<ub, handle, updating, task, partition, running>>
        /\ data'.pc # "writing" /\ clean' = ~updating
    BY <1>5 DEF AnnounceSize, WriteData, Write, flash
  <2>2. task = "ack" => updating
    BY DEF SendingInv
  <2> QED
    BY <1>a, <2>1, <2>2 DEF OpenInv
<1>6. CASE DataChecked
  <2>1. /\ UNCHANGED <<ub, handle, updating, task, clean, partition, running>>
        /\ data'.pc = "writing" => updating /\ handle = "open"
    BY <1>6 DEF DataChecked, NoData, flash, histories
  <2> QED
    BY <1>a, <2>1 DEF OpenInv
<1>7. CASE DataWritten
  <2>1. /\ UNCHANGED <<ub, handle, updating, task, clean, running>>
        /\ ~ub /\ data.pc = "writing" /\ data'.pc = "idle"
    BY <1>7 DEF DataWritten, NoData
  <2>2. task = "updating" => updating
    BY <2>1 DEF OpenInv
  <2>3. clean => task \notin {"updating", "ack"}
    BY <2>1 DEF TurnInv, Answered
  <2> QED
    BY <2>1, <2>2, <2>3 DEF OpenInv
<1>8. CASE Poll \/ AnswerRequest \/ Clear \/ AnswerDone
  <2>1. /\ UNCHANGED <<ub, data, handle, updating, clean, partition, running>>
        /\ task # "end" /\ task' \notin {"updating", "ack"}
    BY <1>8 DEF Poll, AnswerRequest, Clear, AnswerDone, GoesTo, flash, histories
  <2> QED
    BY <2>1 DEF OpenInv
<1>9. CASE Begin
  <2>1. ~ub /\ task = "begin" /\ UNCHANGED <<data, updating, clean, running>>
    BY <1>9 DEF Begin, BeginOk, BeginFailed, GoesTo, histories
  <2>2. CASE BeginFailed
    <3>1. /\ task' = "nak"
          /\ ub' = (ub \/ (handle = "open" /\ data.pc = "writing"))
      BY <2>2 DEF BeginFailed, FreeHandle, GoesTo
    <3> QED
      BY <2>1, <3>1 DEF OpenInv
  <2>3. CASE BeginOk
    <3>1. handle' = "open" /\ partition'[other] = <<>> /\ UNCHANGED ub
      BY <1>0, <2>3 DEF BeginOk, TypeOK
    <3>2. data.pc = "writing" => updating
      BY <2>1 DEF OpenInv
    <3> HIDE DEF other
    <3>3. OpenInv' \/ ~(handle' = "open" /\ partition'[other'] = <<>>)
      BY <2>1, <3>1, <3>2 DEF OpenInv, other
    <3> QED
      BY <1>a, <2>1, <3>1, <3>3
  <2> QED
    BY <1>9, <2>2, <2>3 DEF Begin
<1>10. CASE SetUpdating
  <2>1. /\ UNCHANGED <<ub, data, handle, clean, partition, running>>
        /\ updating' = TRUE /\ task = "updating" /\ task' = "ack"
    BY <1>10 DEF SetUpdating, GoesTo, flash, histories
  <2> QED
    BY <1>a, <2>1 DEF OpenInv
<1>11. CASE Stop
  <2>1. /\ UNCHANGED <<ub, data, handle, clean, partition, running>>
        /\ task' = "end"
    BY <1>11 DEF Stop, GoesTo, flash, histories
  <2> QED
    BY <2>1 DEF OpenInv
<1>12. CASE End
  <2>1. /\ UNCHANGED <<data, updating, clean, partition, running>>
        /\ task' \notin {"updating", "ack"} /\ ~ub
        /\ ub' = (ub \/ (handle = "open" /\ data.pc = "writing"))
    BY <1>12 DEF End, FreeHandle, GoesTo, flash, histories
  <2> QED
    BY <2>1 DEF OpenInv
<1>13. CASE SetBootPartition
  <2>1. /\ UNCHANGED <<ub, data, handle, updating, clean, partition, running>>
        /\ task = "boot" /\ task' \notin {"updating", "ack"}
    BY <1>13 DEF SetBootPartition, GoesTo
  <2> QED
    BY <2>1 DEF OpenInv
<1>14. CASE Reset
  BY <1>14 DEF Reset, NoData, OpenInv
<1> QED
  BY <1>1, <1>2, <1>3, <1>4, <1>5, <1>6, <1>7, <1>8, <1>9, <1>10, <1>11,
     <1>12, <1>13, <1>14 DEF Next, Bluetooth, BleOtaTask, Restart, PowerLoss

LEMMA SizeStep ==
    ASSUME TypeOK, SendingInv, SizeInv, [Next]_vars
    PROVE  SizeInv'
<1>0. client \in Clients
  BY DEF TypeOK
<1>1. CASE UNCHANGED <<packet_size, client, clean>>
  BY <1>1 DEF SizeInv
<1>2. \/ UNCHANGED vars \/ SetBleOta \/ StartBleOta \/ DataChecked
      \/ DataWritten \/ Poll \/ Begin \/ SetUpdating \/ Clear \/ Stop \/ End
      \/ SetBootPartition
      => UNCHANGED <<packet_size, client, clean>>
  BY DEF vars, ram, histories, SetBleOta, StartBleOta, DataChecked,
     DataWritten, Poll, Begin, SetUpdating, Clear, Stop, End, SetBootPartition
<1>3. CASE Connect \/ Disconnect \/ Reset
  <2>1. client'.pc \in {"connected", "gone"}
    BY <1>3 DEF Connect, Disconnect, Reset, Gone
  <2> QED
    BY <2>1 DEF SizeInv
<1>4. CASE WriteConfig \/ Done
  <2>1. client'.pc \in {"subscribed", "done"}
    BY <1>0, <1>4 DEF WriteConfig, Done, WriteControl, Clients
  <2> QED
    BY <2>1 DEF SizeInv
<1>5. CASE Request
  <2>1. /\ client.pc = "sized" /\ client'.pc = "requested"
        /\ client'.size = client.size /\ client'.next = client.next
    BY <1>0, <1>5 DEF Request, WriteControl, Write, Clients
  <2>2. UNCHANGED <<packet_size, clean>>
    BY <1>5 DEF Request, WriteControl
  <2> QED
    BY <2>1, <2>2 DEF SizeInv
<1>6. CASE SendPacket
  <2>1. /\ client.pc = "sending" /\ client'.pc = "sending"
        /\ client'.size = client.size
    BY <1>0, <1>6 DEF SendPacket, Write, Clients
  <2>2. UNCHANGED <<packet_size, clean>>
    BY <1>6, <2>1 DEF SendPacket, WriteData, SendingInv, histories
  <2> QED
    BY <2>1, <2>2 DEF SizeInv
<1>7. ASSUME NEW from, NEW size \in Sizes, AnnounceSize(from, size)
      PROVE  SizeInv'
  <2>1. client'.size = size /\ client'.next = 1
    BY <1>7 DEF AnnounceSize
  <2>2. clean' => packet_size' = size
    BY <1>7 DEF AnnounceSize, WriteData
  <2> QED
    BY <2>1, <2>2 DEF SizeInv
<1>8. CASE AnswerRequest \/ AnswerDone
  <2>1. /\ client'.size = client.size /\ client'.next = client.next
        /\ \/ client'.pc = client.pc
           \/ client'.pc = "sending" /\ client.pc = "requested"
           \/ client'.pc \in {"refused", "installed", "rejected"}
    BY <1>0, <1>8 DEF AnswerRequest, AnswerDone, Indicate, Answer, Clients
  <2>2. UNCHANGED <<packet_size, clean>>
    BY <1>8 DEF AnswerRequest, AnswerDone, histories
  <2> QED
    BY <2>1, <2>2 DEF SizeInv
<1> QED
  BY <1>1, <1>2, <1>3, <1>4, <1>5, <1>6, <1>7, <1>8
     DEF Next, Bluetooth, BleOtaTask, Restart, PowerLoss

(* Copying takes a whole packet: what the client sent, and zeros where it  *)
(* sent less.                                                              *)
LEMMA CopiedIs ==
    ASSUME packet_size \in Nat, NEW value \in Seq(Nat)
    PROVE  /\ Copied(value) \in Seq(Nat)
           /\ Len(Copied(value)) = packet_size
           /\ \A i \in 1 .. packet_size :
                i <= Len(value) => Copied(value)[i] = value[i]
<1>1. Copied(value) \in Seq(Nat)
  BY CopiedType
<1>2. DOMAIN Copied(value) = 1 .. packet_size
  BY DEF Copied
<1>3. Len(Copied(value)) = packet_size
  BY <1>1, <1>2
<1> QED
  BY <1>1, <1>3 DEF Copied

(* The next packet of the image continues what was sent of it.             *)
LEMMA PacketContinues ==
    ASSUME NEW sent \in Seq(Nat), NEW next \in Nat \ {0}, NEW to \in Nat,
           NEW packet \in Seq(Nat),
           Len(sent) = next - 1, Begins(sent), next <= ImageLen,
           to <= ImageLen,
           \A i \in 1 .. Len(packet) :
               i <= to - next + 1 => packet[i] = SubSeq(Image, next, to)[i],
           \/ to = ImageLen
           \/ Len(packet) <= to - next + 1
    PROVE  Begins(sent \o packet)
<1>1. Image \in Seq(Nat) /\ Len(Image) = ImageLen /\ ImageLen \in Nat
  BY BleOtaAssumption DEF Image
<1> SUFFICES ASSUME NEW i \in 1 .. ImageLen, i <= Len(sent \o packet)
             PROVE  (sent \o packet)[i] = Image[i]
  BY DEF Begins
<1>2. CASE i <= Len(sent)
  BY <1>1, <1>2 DEF Begins
<1>3. CASE i > Len(sent)
  <2>0. PICK k \in Int : k = i - (next - 1)
    OBVIOUS
  <2>1. k \in 1 .. Len(packet) /\ (sent \o packet)[i] = packet[k]
    BY <1>1, <1>3, <2>0, SMTT(30)
  <2>2. k <= to - next + 1
    <3>1. CASE to = ImageLen
      <4>1. i <= to
        BY <1>1, <3>1
      <4> QED
        BY <1>1, <2>0, <4>1
    <3>2. CASE Len(packet) <= to - next + 1
      BY <2>1, <3>2
    <3> QED
      BY <3>1, <3>2
  <2>3. SubSeq(Image, next, to)[k] = Image[next + k - 1]
    BY <1>1, <2>1, <2>2
  <2>4. packet[k] = SubSeq(Image, next, to)[k]
    BY <2>1, <2>2
  <2>5. next + k - 1 = i
    BY <2>0, SMTT(30)
  <2> QED
    BY <2>1, <2>3, <2>4, <2>5
<1> QED
  BY <1>1, <1>2, <1>3

(* All of the image is a complete one.                                     *)
LEMMA BeginsComplete ==
    ASSUME NEW c \in Seq(Nat), Begins(c), Len(c) >= ImageLen
    PROVE  Complete(c)
<1>1. Image \in Seq(Nat) /\ Len(Image) = ImageLen /\ ImageLen \in Nat
  BY BleOtaAssumption DEF Image
<1>2. SubSeq(Image, 1, ImageLen) = SubSeq(c, 1, ImageLen)
  BY <1>1 DEF Begins
<1> QED
  BY <1>1, <1>2 DEF Complete, IsPrefix

LEMMA FirstIsPrefix ==
    ASSUME NEW s \in Seq(Nat), Len(s) > 0
    PROVE  IsPrefix(<<s[1]>>, s)
<1>1. s[1] \in Nat
  OBVIOUS
<1>2. <<s[1]>> \in Seq(Nat) /\ Len(<<s[1]>>) = 1
  BY <1>1
<1>3. SubSeq(<<s[1]>>, 1, 1) \in Seq(Nat) /\ SubSeq(s, 1, 1) \in Seq(Nat)
  BY <1>2
<1>4. Len(SubSeq(<<s[1]>>, 1, 1)) = 1 /\ Len(SubSeq(s, 1, 1)) = 1
  BY <1>2
<1>5. SubSeq(<<s[1]>>, 1, 1)[1] = s[1] /\ SubSeq(s, 1, 1)[1] = s[1]
  BY <1>2
<1>6. SubSeq(<<s[1]>>, 1, 1) = SubSeq(s, 1, 1)
  BY <1>3, <1>4, <1>5
<1> QED
  BY <1>2, <1>6 DEF IsPrefix

(* A step that touches nothing of a session's content.                     *)
LEMMA ContentStill ==
    ASSUME ContentInv,
           UNCHANGED <<ub, clean, faulty, handle, data, task, partition,
                       running>>,
           \/ UNCHANGED client
           \/ client'.pc \notin {"sending", "done"}
    PROVE  ContentInv'
<1>1. update_partition' = update_partition
  BY DEF update_partition
<1>2. Sent' = Sent
  BY <1>1 DEF Sent
<1>3. Begins(Sent)' <=> Begins(Sent)
  BY <1>2 DEF Begins
<1> QED
  BY <1>1, <1>2, <1>3 DEF ContentInv

LEMMA ContentSend ==
    ASSUME TypeOK, SendingInv, SizeInv, ContentInv, SendPacket
    PROVE  ContentInv'
<1> DEFINE last == client.next + client.size - 1
           to == IF last < ImageLen THEN last ELSE ImageLen
           packet == SubSeq(Image, client.next, to)
           other == update_partition
<1>1. /\ client.size \in Nat \ {0} /\ client.next \in Nat \ {0}
      /\ ImageLen \in Nat /\ packet_size \in Nat
      /\ partition[other] \in Seq(Nat)
  BY UpdatePartition, BleOtaAssumption DEF TypeOK, Clients
<1>2. client.pc = "sending" /\ data.pc = "idle" /\ client.next <= ImageLen
  BY DEF SendPacket, Write
<1>3. client'.pc = "sending" /\ client'.next = last + 1
  BY <1>2 DEF SendPacket, TypeOK, Clients
<1>4. /\ UNCHANGED <<ub, clean, faulty, handle, task, partition, running>>
      /\ data' = [pc |-> "copied", buffer |-> Copied(packet)]
  BY <1>2 DEF SendPacket, WriteData, SendingInv, flash, histories
<1>5. packet \in Seq(Nat) /\ Len(packet) = to - client.next + 1
  <2>1. Image \in Seq(Nat) /\ Len(Image) = ImageLen
    BY BleOtaAssumption DEF Image
  <2>2. to \in client.next .. ImageLen
    BY <1>1, <1>2
  <2> HIDE DEF to
  <2> QED
    BY <1>1, <2>1, <2>2
<1>6. /\ Copied(packet) \in Seq(Nat) /\ Len(Copied(packet)) = packet_size
      /\ \A i \in 1 .. packet_size :
           i <= Len(packet) => Copied(packet)[i] = packet[i]
  BY <1>1, <1>5, CopiedIs
<1>7. update_partition' = other
  BY <1>4 DEF update_partition
<1>8. Sent' = partition[other] \o Copied(packet)
  BY <1>4, <1>7 DEF Sent
<1>9. ASSUME ~ub, clean, ~faulty
      PROVE  handle = "open" /\ Len(Sent') = last /\ Begins(Sent')
  <2>1. /\ handle = "open" /\ Len(partition[other]) = client.next - 1
        /\ Begins(partition[other]) /\ packet_size = client.size
    BY <1>2, <1>9 DEF ContentInv, SizeInv, Sent
  <2>2. Len(Sent') = last
    <3>1. Len(Sent') = Len(partition[other]) + Len(Copied(packet))
      BY <1>1, <1>6, <1>8
    <3> QED
      BY <1>1, <1>6, <2>1, <3>1, SMTT(30)
  <2>3. to \in Nat /\ to <= ImageLen
    BY <1>1
  <2>4. to = ImageLen \/ Len(Copied(packet)) <= to - client.next + 1
    BY <1>1, <1>6, <2>1
  <2>5. \A i \in 1 .. Len(Copied(packet)) :
            i <= to - client.next + 1 => Copied(packet)[i] = packet[i]
    BY <1>5, <1>6
  <2>6. Begins(partition[other] \o Copied(packet))
    <3> HIDE DEF to
    <3> QED
      BY <1>1, <1>2, <1>6, <2>1, <2>3, <2>4, <2>5, PacketContinues
  <2> QED
    BY <1>8, <2>1, <2>2, <2>6
<1>10. Begins(Sent)' <=> Begins(Sent')
  BY DEF Begins
<1>11. client'.next - 1 = last
  BY <1>1, <1>3
<1> HIDE DEF last
<1> QED
  BY <1>3, <1>4, <1>9, <1>10, <1>11 DEF ContentInv

LEMMA ContentWritten ==
    ASSUME TypeOK, TurnInv, OpenInv, ContentInv, DataWritten
    PROVE  ContentInv'
<1> DEFINE other == update_partition
<1>1. other \in Partitions /\ partition[other] \in Seq(Nat)
      /\ data.buffer \in Seq(Nat)
  BY UpdatePartition, DataTypes DEF TypeOK
<1>2. /\ ~ub /\ data.pc = "writing" /\ data'.pc = "idle"
      /\ UNCHANGED <<ub, clean, handle, task, running, client>>
  BY DEF DataWritten, NoData
<1>3. update_partition' = other
  BY <1>2 DEF update_partition
<1>4. Sent' = partition'[other]
  BY <1>2, <1>3 DEF Sent
<1>5. CASE clean /\ client.pc = "done"
  BY <1>2, <1>5 DEF TurnInv
<1>6. ASSUME clean, ~faulty, ~faulty', client.pc = "sending"
      PROVE  handle = "open" /\ Len(Sent') = client.next - 1 /\ Begins(Sent')
  <2>1. /\ handle = "open" /\ Sent = partition[other] \o data.buffer
        /\ Len(Sent) = client.next - 1 /\ Begins(Sent)
    BY <1>2, <1>6 DEF ContentInv, Sent
  <2>2. Len(data.buffer) > 0
    <3>1. data.buffer # <<>>
      BY <1>2, <1>6 DEF TurnInv
    <3> QED
      BY <1>1, <3>1
  <2>3. partition[other] = <<>> => IsPrefix(<<Image[1]>>, data.buffer)
    <3> SUFFICES ASSUME partition[other] = <<>>
                 PROVE  IsPrefix(<<Image[1]>>, data.buffer)
      OBVIOUS
    <3>1. Sent = data.buffer
      BY <1>1, <2>1
    <3>2. data.buffer[1] = Image[1]
      BY <2>1, <2>2, <3>1, BleOtaAssumption DEF Begins
    <3> QED
      BY <1>1, <2>2, <3>2, FirstIsPrefix
  <2>4. partition' = [partition EXCEPT ![other] = partition[other] \o data.buffer]
    BY <1>6, <2>3 DEF DataWritten
  <2>5. partition'[other] = partition[other] \o data.buffer
    <3> HIDE DEF other
    <3> QED
      BY <1>1, <2>4 DEF TypeOK
  <2> QED
    BY <1>4, <2>1, <2>5
<1>7. faulty' \/ faulty' = faulty
  BY DEF DataWritten
<1>8. Begins(Sent)' <=> Begins(Sent')
  BY DEF Begins
<1> QED
  BY <1>2, <1>5, <1>6, <1>7, <1>8 DEF ContentInv

LEMMA ContentStep ==
    ASSUME TypeOK, SendingInv, StageInv, TurnInv, OpenInv, SizeInv,
           ContentInv, [Next]_vars
    PROVE  ContentInv'
<1> DEFINE other == update_partition
<1>0. client \in Clients /\ partition[other] \in Seq(Nat)
  BY UpdatePartition DEF TypeOK
<1>a. running' = running => update_partition' = other
  BY DEF update_partition
<1>b. Begins(Sent)' <=> Begins(Sent')
  BY DEF Begins
<1>1. \/ UNCHANGED vars \/ SetBleOta
      => UNCHANGED <<ub, clean, faulty, handle, data, task, partition,
                     running, client>>
  BY DEF vars, ram, flash, histories, SetBleOta
<1>2. CASE Connect \/ Disconnect \/ WriteConfig \/ Request
  <2>1. UNCHANGED <<ub, clean, faulty, handle, data, task, partition, running>>
    BY <1>2 DEF Connect, Disconnect, WriteConfig, Request, WriteControl, ram,
       flash, histories
  <2>2. client'.pc \in {"connected", "gone", "subscribed", "requested"}
    BY <1>0, <1>2 DEF Connect, Disconnect, WriteConfig, Request, WriteControl,
       Gone, Clients
  <2> QED
    BY <2>1, <2>2, ContentStill
<1>3. CASE StartBleOta
  <2>1. task = "none" /\ client' = client
    BY <1>3 DEF StartBleOta, StageInv
  <2>2. client.pc \notin {"sending", "done"}
    BY <2>1 DEF TurnInv, Answered
  <2> QED
    BY <2>1, <2>2 DEF ContentInv
<1>4. CASE Done
  <2>1. /\ client.pc = "sending" /\ client'.pc = "done" /\ data.pc = "idle"
        /\ client.next > ImageLen
    BY <1>0, <1>4 DEF Done, WriteControl, Write, Clients
  <2>2. UNCHANGED <<ub, clean, faulty, handle, data, task, partition, running>>
    BY <1>4 DEF Done, WriteControl, flash
  <2>3. task \in {"clear", "wait"}
    BY <2>1 DEF TurnInv, Answered
  <2>4. ASSUME ~ub, clean, ~faulty
        PROVE  handle = "open" /\ Complete(partition[other])
    <3>1. /\ handle = "open" /\ Len(partition[other]) = client.next - 1
          /\ Begins(partition[other])
      BY <2>1, <2>4 DEF ContentInv, Sent
    <3>2. Len(partition[other]) >= ImageLen
      BY <1>0, <2>1, <3>1, BleOtaAssumption DEF Clients
    <3> QED
      BY <1>0, <3>1, <3>2, BeginsComplete
  <2>5. Complete(partition[other])' <=> Complete(partition[other])
    BY <1>a, <2>2 DEF Complete
  <2> HIDE DEF other
  <2> QED
    BY <2>1, <2>2, <2>3, <2>4, <2>5 DEF ContentInv, other
<1>5. CASE SendPacket
  BY <1>5, ContentSend
<1>6. ASSUME NEW from, NEW size \in Sizes, AnnounceSize(from, size)
      PROVE  ContentInv'
  BY <1>6 DEF AnnounceSize, ContentInv
<1>7. CASE DataChecked
  <2>1. /\ UNCHANGED <<ub, clean, faulty, handle, task, partition, running, client>>
        /\ data.pc = "copied" /\ ~ub
        /\ \/ /\ updating /\ handle = "open"
              /\ data' = [data EXCEPT !.pc = "writing"]
           \/ ~(updating /\ handle = "open")
    BY <1>7 DEF DataChecked, flash, histories
  <2>2. CASE data' = [data EXCEPT !.pc = "writing"]
    <3>1. data'.pc = "writing" /\ data'.buffer = data.buffer
      BY <2>2 DEF TypeOK, DataWrites
    <3>2. update_partition' = other
      BY <1>a, <2>1
    <3>3. Sent' = Sent
      BY <2>1, <3>1, <3>2 DEF Sent
    <3> QED
      BY <1>a, <1>b, <2>1, <3>3 DEF ContentInv
  <2>3. CASE clean /\ ~faulty /\ client.pc = "sending"
    <3>1. updating /\ handle = "open"
      BY <2>1, <2>3 DEF SendingInv, ContentInv
    <3> QED
      BY <2>1, <2>2, <3>1
  <2>4. CASE client.pc # "sending"
    BY <1>a, <2>1, <2>4 DEF ContentInv
  <2>5. CASE ~clean \/ faulty
    BY <2>1, <2>5 DEF ContentInv
  <2> QED
    BY <2>3, <2>4, <2>5
<1>8. CASE DataWritten
  BY <1>8, ContentWritten
<1>9. CASE Poll
  <2>1. UNCHANGED <<ub, clean, faulty, handle, data, partition, running, client>>
    BY <1>9 DEF Poll, flash
  <2>2. /\ task = "wait" /\ ota_ctrl_val # "cleared"
        /\ task' \in {"begin", "stop"}
    BY <1>9 DEF Poll, GoesTo
  <2>3. client.pc # "sending"
    BY <2>2 DEF TurnInv, Answered
  <2> QED
    BY <1>a, <2>1, <2>2, <2>3 DEF ContentInv
<1>10. CASE Begin \/ SetUpdating
  <2>1. task \in {"begin", "updating"} /\ client' = client
    BY <1>10 DEF Begin, BeginOk, BeginFailed, SetUpdating, GoesTo
  <2>2. client.pc \notin {"sending", "done"}
    BY <2>1 DEF TurnInv, Answered
  <2> QED
    BY <2>1, <2>2 DEF ContentInv
<1>11. CASE AnswerRequest
  <2>1. PICK a \in {"ack", "nak"} : GoesTo(a, "clear") /\ Indicate(a)
    BY <1>11 DEF AnswerRequest
  <2>2. UNCHANGED <<ub, clean, faulty, handle, data, partition, running>>
    BY <1>11 DEF AnswerRequest, flash, histories
  <2>3. task = a /\ client.pc \notin {"sending", "done"}
    BY <2>1 DEF GoesTo, TurnInv, Answered
  <2>4. client'.pc # "done"
    BY <1>0, <2>1, <2>3 DEF Indicate, Answer, Clients
  <2>5. client'.pc = "sending" =>
            a = "ack" /\ client.pc = "requested" /\ client'.next = client.next
    BY <1>0, <2>1, <2>3 DEF Indicate, Answer, Clients
  <2>6. ASSUME ~ub, clean, client'.pc = "sending"
        PROVE  handle = "open" /\ Sent' = <<>> /\ client'.next = 1
    <3>1. handle = "open" /\ partition[other] = <<>>
      BY <2>3, <2>5, <2>6 DEF OpenInv
    <3>2. data.pc = "idle"
      BY <2>3, <2>5, <2>6 DEF TurnInv, Answered
    <3>3. client'.next = 1
      BY <2>5, <2>6 DEF SizeInv
    <3> QED
      BY <1>a, <2>2, <3>1, <3>2, <3>3 DEF Sent
  <2>7. Sent' = <<>> => Len(Sent') = 0 /\ Begins(Sent')
    BY BleOtaAssumption DEF Begins
  <2> QED
    BY <1>b, <2>2, <2>4, <2>6, <2>7 DEF ContentInv
<1>12. CASE Clear
  <2>1. UNCHANGED <<ub, clean, faulty, handle, data, partition, running, client>>
    BY <1>12 DEF Clear, flash
  <2>2. task = "clear" /\ task' = "wait"
    BY <1>12 DEF Clear, GoesTo
  <2>3. Sent' = Sent /\ update_partition' = other
    BY <1>a, <2>1 DEF Sent
  <2> QED
    BY <1>b, <2>1, <2>2, <2>3 DEF ContentInv
<1>13. CASE Stop
  <2>1. UNCHANGED <<ub, clean, faulty, handle, data, partition, running, client>>
    BY <1>13 DEF Stop, flash, histories
  <2>2. task = "stop" /\ task' = "end"
    BY <1>13 DEF Stop, GoesTo
  <2>3. client.pc # "sending"
    BY <2>2 DEF TurnInv, Answered
  <2> QED
    BY <1>a, <2>1, <2>2, <2>3 DEF ContentInv
<1>14. CASE End
  <2>1. /\ UNCHANGED <<clean, faulty, data, partition, running, client>>
        /\ ~ub /\ task = "end"
    BY <1>14 DEF End, GoesTo, flash, histories
  <2>2. client.pc # "sending"
    BY <2>1 DEF TurnInv, Answered
  <2>3. /\ task' \in {"boot", "done_nak"}
        /\ handle = "open" /\ Complete(partition[other]) => task' = "boot"
    BY <1>14 DEF End, GoesTo
  <2> QED
    BY <1>a, <2>1, <2>2, <2>3 DEF ContentInv
<1>15. CASE SetBootPartition
  <2>1. /\ UNCHANGED <<ub, clean, client>> /\ ~ub /\ task = "boot"
        /\ \/ task' = "done_ack" \/ faulty'
    BY <1>15 DEF SetBootPartition, GoesTo
  <2>2. client.pc # "sending"
    BY <2>1 DEF TurnInv, Answered
  <2> QED
    BY <2>1, <2>2 DEF ContentInv
<1>16. CASE AnswerDone
  <2>1. client.pc # "sending" /\ client'.pc \notin {"sending", "done"}
    <3>1. task \in {"done_ack", "done_nak"}
      BY <1>16 DEF AnswerDone, GoesTo
    <3>2. client.pc # "sending"
      BY <3>1 DEF TurnInv, Answered
    <3> QED
      BY <1>0, <1>16, <3>2 DEF AnswerDone, Indicate, Answer, Clients
  <2> QED
    BY <2>1 DEF ContentInv
<1>17. CASE Reset
  BY <1>17 DEF Reset, Gone, ContentInv
<1> QED
  BY <1>1, <1>2, <1>3, <1>4, <1>5, <1>6, <1>7, <1>8, <1>9, <1>10, <1>11,
     <1>12, <1>13, <1>14, <1>15, <1>16, <1>17, ContentStill
     DEF Next, Bluetooth, BleOtaTask, Restart, PowerLoss

(* In a clean session no write is under way when a handle is freed.        *)
LEMMA HandleStep ==
    ASSUME TurnInv, HandleSound, [Next]_vars
    PROVE  HandleSound'
<1>1. CASE UNCHANGED <<ub, clean>>
  BY <1>1 DEF HandleSound
<1>2. \/ UNCHANGED vars \/ SetBleOta \/ StartBleOta \/ Connect \/ Disconnect
      \/ WriteConfig \/ Request \/ Done \/ SendPacket \/ DataChecked
      \/ DataWritten \/ Poll \/ SetUpdating \/ AnswerRequest \/ Clear \/ Stop
      \/ SetBootPartition \/ AnswerDone
      => UNCHANGED <<ub, clean>>
  BY DEF vars, ram, histories, SetBleOta, StartBleOta, Connect, Disconnect,
     WriteConfig, Request, Done, WriteControl, SendPacket, WriteData,
     DataChecked, DataWritten, Poll, SetUpdating, AnswerRequest, Clear, Stop,
     SetBootPartition, AnswerDone
<1>3. CASE Reset
  BY <1>3 DEF Reset, HandleSound
<1>4. ASSUME NEW from, NEW size \in Sizes, AnnounceSize(from, size)
      PROVE  HandleSound'
  BY <1>4 DEF AnnounceSize, WriteData, Write, HandleSound
<1>5. CASE Begin \/ End
  <2>1. ~ub /\ task \in {"begin", "end"} /\ UNCHANGED clean
    BY <1>5 DEF Begin, BeginOk, BeginFailed, End, GoesTo, histories
  <2>2. ub' => ub \/ data.pc = "writing"
    BY <1>5 DEF Begin, BeginOk, BeginFailed, End, FreeHandle
  <2> QED
    BY <2>1, <2>2 DEF TurnInv, Answered, HandleSound
<1> QED
  BY <1>1, <1>2, <1>3, <1>4, <1>5
     DEF Next, Bluetooth, BleOtaTask, Restart, PowerLoss

(* Only done_nak rejects, and it follows the complete image of a clean     *)
(* session only when switching has failed.                                 *)
LEMMA InstallStep ==
    ASSUME client \in Clients, ContentInv, CleanSessionInstalls, [Next]_vars
    PROVE  CleanSessionInstalls'
<1>1. CASE client'.pc # "rejected"
  BY <1>1 DEF CleanSessionInstalls
<1>2. CASE UNCHANGED <<client, clean>> /\ (faulty => faulty')
  BY <1>2 DEF CleanSessionInstalls
<1>3. \/ UNCHANGED vars \/ SetBleOta \/ StartBleOta \/ DataChecked
      \/ Poll \/ Begin \/ SetUpdating \/ Clear \/ Stop \/ End
      => UNCHANGED <<client, clean, faulty>>
  BY DEF vars, histories, SetBleOta, StartBleOta, DataChecked, Poll, Begin,
     SetUpdating, Clear, Stop, End
<1>8. DataWritten \/ SetBootPartition
      => UNCHANGED <<client, clean>> /\ (faulty' = TRUE \/ faulty' = faulty)
  BY DEF DataWritten, SetBootPartition
<1>4. \/ Connect \/ Disconnect \/ WriteConfig \/ Request \/ Done \/ SendPacket
      \/ Reset
      => client'.pc # "rejected"
  BY DEF Connect, Disconnect, WriteConfig, Request, Done, WriteControl,
     SendPacket, Write, Reset, Gone, Clients
<1>5. \A from, size : AnnounceSize(from, size) => client'.pc # "rejected"
  BY DEF AnnounceSize
<1>6. CASE AnswerRequest
  <2>1. UNCHANGED <<clean, faulty>>
    BY <1>6 DEF AnswerRequest, histories
  <2>2. client' = client \/ client'.pc \in {"sending", "refused"}
    BY <1>6 DEF AnswerRequest, Indicate, Answer, Clients
  <2> QED
    BY <1>1, <1>2, <2>1, <2>2
<1>7. CASE AnswerDone
  <2>1. UNCHANGED <<clean, faulty>> /\ ~ub
    BY <1>7 DEF AnswerDone, GoesTo, histories
  <2>2. \/ client' = client \/ client'.pc = "installed"
        \/ task = "done_nak" /\ client.pc = "done"
    BY <1>7 DEF AnswerDone, GoesTo, Indicate, Answer, Clients
  <2>3. task = "done_nak" /\ client.pc = "done" => ~clean \/ faulty
    BY <2>1 DEF ContentInv
  <2> QED
    BY <1>1, <1>2, <2>1, <2>2, <2>3 DEF CleanSessionInstalls
<1> QED
  BY <1>1, <1>2, <1>3, <1>4, <1>5, <1>6, <1>7, <1>8
     DEF Next, Bluetooth, BleOtaTask, Restart, PowerLoss

LEMMA SessionStep ==
    ASSUME TypeOK, SendingInv, StageInv, SessionInv, [Next]_vars
    PROVE  SessionInv'
<1> USE DEF SessionInv
<1>1. client \in Clients
  BY DEF TypeOK
<1> QED
  BY <1>1, TurnStep, OpenStep, SizeStep, ContentStep, HandleStep, InstallStep

----------------------------------------------------------------------------
LEMMA InvStep == IInv /\ [Next]_vars => IInv'
<1> SUFFICES ASSUME IInv, [Next]_vars PROVE IInv'
  OBVIOUS
<1>1. TypeOK'
  BY TypeStep DEF IInv
<1>2. SendingInv'
  BY SendingStep DEF IInv, TypeOK
<1>3. StageInv'
  BY StageStep DEF IInv
<1>4. ImageInv'
  BY ImageStep DEF IInv
<1>5. SessionInv'
  BY SessionStep DEF IInv
<1> QED
  BY <1>1, <1>2, <1>3, <1>4, <1>5 DEF IInv

LEMMA Invariance == Spec => []IInv
  BY InvInit, InvStep, PTL DEF Spec

(* The variables of the update keep their types; in particular, a packet   *)
(* size is always one that a client announced.                             *)
THEOREM TypeCorrect == Spec => []TypeOK
<1>1. IInv => TypeOK
  BY DEF IInv
<1> QED
  BY <1>1, Invariance, PTL

(* A client that was told to send has its packets taken as data            *)
(* (gatts_profile_event_handler asks updating), whoever disconnected       *)
(* before it and however ble_ota_task lags behind.                         *)
THEOREM PacketsAreData == Spec => []DataIsData
<1>1. IInv => DataIsData
  BY DEF IInv, SendingInv, DataIsData
<1> QED
  BY <1>1, Invariance, PTL

(* The partition that boots next holds a complete image, for every length  *)
(* of the image and after any number of broken sessions, failures of the   *)
(* library and losses of power.                                            *)
THEOREM AlwaysBootable == Spec => []CompleteImageBoots
<1>1. IInv => CompleteImageBoots
  BY DEF IInv, ImageInv, CompleteImageBoots
<1> QED
  BY <1>1, Invariance, PTL

(* In a session whose packet size was taken as such, no write of the       *)
(* Bluetooth task uses the handle that ble_ota_task has freed, whatever    *)
(* the sessions before it left behind.                                     *)
THEOREM HandleUse == Spec => []HandleSound
<1>1. IInv => HandleSound
  BY DEF IInv, SessionInv
<1> QED
  BY <1>1, Invariance, PTL

(* Such a session that sends the whole image is rejected only when the     *)
(* library's write or switch has failed for it, for every packet size and  *)
(* every length of the image: what memcpy adds to the last packet does no  *)
(* harm.                                                                   *)
THEOREM CleanSession == Spec => []CleanSessionInstalls
<1>1. IInv => CleanSessionInstalls
  BY DEF IInv, SessionInv
<1> QED
  BY <1>1, Invariance, PTL
=============================================================================
