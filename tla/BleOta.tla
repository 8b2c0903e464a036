------------------------------- MODULE BleOta -------------------------------
(***************************************************************************)
(* The update over Bluetooth (main/ixe_ble_ota.c).  A GATT server whose    *)
(* handlers run in the Bluetooth task leaves what the client wrote in      *)
(* global variables; ble_ota_task looks at them every 100 ms and answers.  *)
(* Nothing locks them, and nothing resets them when the client goes away.  *)
(*                                                                         *)
(* The client follows the protocol: it enables notifications, announces    *)
(* its packet size, requests, waits for the acknowledgement, sends the     *)
(* image, writes OTA_DONE and waits for the answer.  It may disconnect at  *)
(* any time and may try again after a refusal.  The device may lose power. *)
(***************************************************************************)
EXTENDS Integers, Sequences, SequencesExt

CONSTANTS
    ImageLen,       \* length of the image, in units of data
    Sizes,          \* packet sizes a client may announce
    MaxAttempts     \* bound: how often a client announces a packet size

ASSUME BleOtaAssumption ==
    /\ ImageLen \in Nat \ {0}
    /\ Sizes \subseteq Nat \ {0}
    /\ MaxAttempts \in Nat

VARIABLES
    stage,              \* who has the Bluetooth controller
    ota_flag,           \* notifications enabled
    ota_ctrl_val, packet_size, updating,
    handle,             \* update_handle: "none", "open" or "freed"
    data,               \* the Bluetooth task's write of data: step and data
    task,               \* the next step of ble_ota_task
    partition,          \* what was written to the two application partitions
    running, boot,      \* the partition that runs, and that boots next
    client,             \* the client: its state, packet size and next unit
    attempts,
    clean,              \* history: the client's packet size was taken as such
    faulty,             \* history: writing or switching has failed for it
    unread,             \* history: ota_ctrl_val was written since the poll
    lost,               \* history: what the client wrote was wiped unread
    ub                  \* the entry of a handle was used after its free

ram == <<stage, ota_flag, ota_ctrl_val, packet_size, updating, handle, data,
         task>>
flash == <<partition, running, boot>>
histories == <<clean, faulty, unread, lost>>
vars == <<ram, flash, client, attempts, histories, ub>>

Partitions == {"ota_0", "ota_1"}
(* The units of the image; numbers that are no packet size, to be told     *)
(* apart from one.  0 is what lies behind a value in memory.               *)
Image == [i \in 1 .. ImageLen |-> 100 + i]
Complete(content) == IsPrefix(Image, content)

(* esp_ota_get_next_update_partition                                       *)
update_partition == CHOOSE p \in Partitions : p # running

Gone == [pc |-> "gone", size |-> 1, next |-> 1]
NoData == [pc |-> "idle", buffer |-> <<>>]

Init ==
    /\ stage = "blufi"
    /\ ota_flag = FALSE /\ ota_ctrl_val = "nop" /\ packet_size = 0
    /\ updating = FALSE /\ handle = "none"
    /\ data = NoData
    /\ task = "none"
    /\ running = "ota_0" /\ boot = "ota_0"
    /\ partition = [p \in Partitions |-> IF p = running THEN Image ELSE <<>>]
    /\ client = Gone
    /\ attempts = 0
    /\ clean = FALSE /\ faulty = FALSE /\ unread = FALSE /\ lost = FALSE
    /\ ub = FALSE

----------------------------------------------------------------------------
(* Start.  A BLUFI command sets ble_ota_flag; app_main polls it, stops     *)
(* BLUFI and brings the controller up again as a GATT server.  When a step *)
(* of that fails ixe_ble_ota returns, and nobody owns the controller.      *)
SetBleOta ==
    /\ stage = "blufi"
    /\ stage' = "requested"
    /\ UNCHANGED <<ota_flag, ota_ctrl_val, packet_size, updating, handle,
                   data, task, flash, client, attempts, histories, ub>>

StartBleOta ==
    /\ stage = "requested"
    /\ \/ stage' = "server" /\ task' = "wait"
       \/ stage' = "none" /\ UNCHANGED task
    /\ UNCHANGED <<ota_flag, ota_ctrl_val, packet_size, updating, handle,
                   data, flash, client, attempts, histories, ub>>

----------------------------------------------------------------------------
(* The handlers of the Bluetooth task                                      *)
Write(c) == ~ub /\ stage = "server" /\ data.pc = "idle" /\ client.pc = c

WriteConfig ==
    /\ Write("connected")
    /\ ota_flag' = TRUE
    /\ client' = [client EXCEPT !.pc = "subscribed"]
    /\ UNCHANGED <<stage, ota_ctrl_val, packet_size, updating, handle, data,
                   task, flash, attempts, histories, ub>>

WriteControl(from, value, to) ==
    /\ Write(from)
    /\ ota_ctrl_val' = value /\ unread' = TRUE
    /\ client' = [client EXCEPT !.pc = to]
    /\ UNCHANGED <<stage, ota_flag, packet_size, updating, handle, data, task,
                   flash, attempts, clean, faulty, lost, ub>>

(* memcpy of packet_size bytes, whatever the length of the value.          *)
CopiedShort(value) ==
    [i \in 1 .. packet_size - 1 |-> IF i <= Len(value) THEN value[i] ELSE 0]

Copied(value) ==
    [i \in 1 .. packet_size |-> IF i <= Len(value) THEN value[i] ELSE 0]

(* A write of the data characteristic is a packet size or data, as         *)
(* updating says.                                                          *)
WriteData(value) ==
    /\ IF updating
       THEN /\ data' = [pc |-> "copied", buffer |-> Copied(value)]
            /\ UNCHANGED packet_size
       ELSE packet_size' = value[1] /\ UNCHANGED data
    /\ UNCHANGED <<stage, ota_flag, ota_ctrl_val, updating, handle, task,
                   flash, ub>>

AnnounceSize(from, size) ==
    /\ Write(from)
    /\ attempts < MaxAttempts /\ attempts' = attempts + 1
    /\ WriteData(<<size>>)
    /\ client' = [pc |-> "sized", size |-> size, next |-> 1]
    /\ clean' = ~updating
    /\ faulty' = FALSE /\ lost' = FALSE
    /\ UNCHANGED unread

SendPacket ==
    LET last == client.next + client.size - 1 IN
    /\ Write("sending") /\ client.next <= ImageLen
    /\ WriteData(SubSeq(Image, client.next,
                        IF last < ImageLen THEN last ELSE ImageLen))
    /\ client' = [client EXCEPT !.next = last + 1]
    /\ UNCHANGED <<attempts, histories>>

(* The second look at updating, and esp_ota_write's look for the handle.   *)
DataChecked ==
    /\ ~ub /\ data.pc = "copied"
    /\ data' = IF updating /\ handle = "open" THEN [data EXCEPT !.pc = "writing"]
                                              ELSE NoData
    /\ UNCHANGED <<stage, ota_flag, ota_ctrl_val, packet_size, updating,
                   handle, task, flash, client, attempts, histories, ub>>

(* esp_ota_write refuses a beginning without the image's magic byte; its   *)
(* errors are logged.                                                      *)
DataWritten ==
    /\ ~ub /\ data.pc = "writing"
    /\ data' = NoData
    /\ LET content == partition[update_partition] IN
       \/ /\ content # <<>> \/ IsPrefix(<<Image[1]>>, data.buffer)
          /\ partition' = [partition EXCEPT
                             ![update_partition] = content \o data.buffer]
          /\ UNCHANGED faulty
       \/ content = <<>> /\ ~IsPrefix(<<Image[1]>>, data.buffer)
          /\ UNCHANGED <<partition, faulty>>
       \/ faulty' = TRUE /\ UNCHANGED partition
    /\ UNCHANGED <<stage, ota_flag, ota_ctrl_val, packet_size, updating,
                   handle, task, running, boot, client, attempts, clean,
                   unread, lost, ub>>

Connect ==
    /\ ~ub /\ stage = "server" /\ client = Gone /\ data.pc = "idle"
    /\ client' = [Gone EXCEPT !.pc = "connected"]
    /\ UNCHANGED <<ram, flash, attempts, histories, ub>>

(* Only advertising is started again.                                      *)
Disconnect ==
    /\ ~ub /\ client # Gone
    /\ client' = Gone
    /\ UNCHANGED <<ram, flash, attempts, histories, ub>>

Request == WriteControl("sized", "OTA_REQUEST", "requested")
Done == client.next > ImageLen /\ WriteControl("sending", "OTA_DONE", "done")

Bluetooth ==
    \/ Connect \/ Disconnect \/ WriteConfig \/ Request \/ Done \/ SendPacket
    \/ \E from \in {"subscribed", "refused", "rejected"}, size \in Sizes :
         AnnounceSize(from, size)

----------------------------------------------------------------------------
(* ble_ota_task.  What it indicates reaches the client that is connected   *)
(* then, whoever wrote the request; a client ignores what it does not wait *)
(* for.                                                                    *)
GoesTo(pc, next) == ~ub /\ task = pc /\ task' = next

Answer == [ack      |-> [for |-> "requested", then |-> "sending"],
           nak      |-> [for |-> "requested", then |-> "refused"],
           done_ack |-> [for |-> "done", then |-> "installed"],
           done_nak |-> [for |-> "done", then |-> "rejected"]]

Indicate(a) ==
    client' = IF client.pc = Answer[a].for
              THEN [client EXCEPT !.pc = Answer[a].then]
              ELSE client

Poll ==
    /\ ota_flag
    /\ \/ ota_ctrl_val = "OTA_REQUEST" /\ GoesTo("wait", "begin")
       \/ ota_ctrl_val = "OTA_DONE" /\ GoesTo("wait", "stop")
    /\ unread' = FALSE
    /\ UNCHANGED <<stage, ota_flag, ota_ctrl_val, packet_size, updating,
                   handle, data, flash, client, attempts, clean, faulty, lost,
                   ub>>

(* The entry of update_handle is freed, perhaps under a write.             *)
FreeHandle ==
    /\ handle' = IF handle = "open" THEN "freed" ELSE handle
    /\ ub' = (ub \/ (handle = "open" /\ data.pc = "writing"))

BeginOk ==
    /\ GoesTo("begin", "updating")
    /\ handle' = "open"
    /\ partition' = [partition EXCEPT ![update_partition] = <<>>]
    /\ UNCHANGED ub

(* Bug: a failed begin is not answered.                                    *)
BeginFailedSilent ==
    /\ GoesTo("begin", "clear")
    /\ FreeHandle
    /\ UNCHANGED partition

(* The handle of an earlier session, if any, is aborted.                   *)
BeginFailed ==
    /\ GoesTo("begin", "nak")
    /\ FreeHandle
    /\ UNCHANGED partition

Begin ==
    /\ BeginOk \/ BeginFailed
    /\ UNCHANGED <<stage, ota_flag, ota_ctrl_val, packet_size, updating, data,
                   running, boot, client, attempts, histories>>

(* Bug: the acknowledgement is sent before updating is set.                *)
SetUpdatingLate ==
    /\ \/ GoesTo("updating", "ack") /\ Indicate("ack") /\ UNCHANGED updating
       \/ GoesTo("ack", "clear") /\ updating' = TRUE /\ UNCHANGED client
    /\ UNCHANGED <<stage, ota_flag, ota_ctrl_val, packet_size, handle, data,
                   flash, attempts, histories, ub>>

SetUpdating ==
    /\ GoesTo("updating", "ack")
    /\ updating' = TRUE
    /\ UNCHANGED <<stage, ota_flag, ota_ctrl_val, packet_size, handle, data,
                   flash, client, attempts, histories, ub>>

AnswerRequest ==
    /\ \E a \in {"ack", "nak"} : GoesTo(a, "clear") /\ Indicate(a)
    /\ UNCHANGED <<stage, ota_flag, ota_ctrl_val, packet_size, updating,
                   handle, data, flash, attempts, histories, ub>>

(* Bug: the request is not cleared.                                        *)
ClearForgets ==
    /\ GoesTo("clear", "wait")
    /\ UNCHANGED <<stage, ota_flag, ota_ctrl_val, packet_size, updating,
                   handle, data, flash, client, attempts, histories, ub>>

(* Whatever the client has written since the poll is wiped.                *)
Clear ==
    /\ GoesTo("clear", "wait")
    /\ ota_ctrl_val' = "cleared"
    /\ lost' = (lost \/ unread)
    /\ UNCHANGED <<stage, ota_flag, packet_size, updating, handle, data,
                   flash, client, attempts, clean, faulty, unread, ub>>

Stop ==
    /\ GoesTo("stop", "end")
    /\ updating' = FALSE
    /\ UNCHANGED <<stage, ota_flag, ota_ctrl_val, packet_size, handle, data,
                   flash, client, attempts, histories, ub>>

(* Bug: the result of esp_ota_end does not matter.                         *)
EndUnchecked ==
    /\ GoesTo("end", "boot")
    /\ FreeHandle
    /\ UNCHANGED <<stage, ota_flag, ota_ctrl_val, packet_size, updating, data,
                   flash, client, attempts, histories>>

(* Complete is the library's validation of the image.  esp_ota_end frees   *)
(* the handle in any case.                                                 *)
End ==
    /\ GoesTo("end", IF handle = "open" /\ Complete(partition[update_partition])
                     THEN "boot" ELSE "done_nak")
    /\ FreeHandle
    /\ UNCHANGED <<stage, ota_flag, ota_ctrl_val, packet_size, updating, data,
                   flash, client, attempts, histories>>

SetBootPartition ==
    /\ \/ /\ GoesTo("boot", "done_ack")
          /\ boot' = update_partition /\ UNCHANGED faulty
       \/ GoesTo("boot", "done_nak") /\ faulty' = TRUE /\ UNCHANGED boot
    /\ UNCHANGED <<stage, ota_flag, ota_ctrl_val, packet_size, updating,
                   handle, data, partition, running, client, attempts, clean,
                   unread, lost, ub>>

(* After a refusal ota_ctrl_val stays OTA_DONE: the next poll ends the     *)
(* update once more, and refuses once more.                                *)
AnswerDone ==
    /\ \/ GoesTo("done_ack", "restart") /\ Indicate("done_ack")
       \/ GoesTo("done_nak", "wait") /\ Indicate("done_nak")
    /\ UNCHANGED <<stage, ota_flag, ota_ctrl_val, packet_size, updating,
                   handle, data, flash, attempts, histories, ub>>

BleOtaTask ==
    \/ Poll \/ Begin \/ SetUpdating \/ AnswerRequest \/ Clear
    \/ Stop \/ End \/ SetBootPartition \/ AnswerDone

----------------------------------------------------------------------------
(* esp_restart or a loss of power                                          *)
Reset ==
    /\ ~ub
    /\ stage' = "blufi"
    /\ ota_flag' = FALSE /\ ota_ctrl_val' = "nop" /\ packet_size' = 0
    /\ updating' = FALSE /\ handle' = "none"
    /\ data' = NoData
    /\ task' = "none"
    /\ running' = boot
    /\ client' = Gone
    /\ clean' = FALSE /\ faulty' = FALSE /\ unread' = FALSE /\ lost' = FALSE
    /\ UNCHANGED <<partition, boot, attempts, ub>>

Restart == task = "restart" /\ Reset
PowerLoss == task # "restart" /\ Reset

Next ==
    \/ SetBleOta \/ StartBleOta
    \/ Bluetooth \/ DataChecked \/ DataWritten
    \/ BleOtaTask \/ Restart \/ PowerLoss

(* ble_ota_task and the Bluetooth task run on; the client, the library's   *)
(* failures and the power supply promise nothing.                          *)
Fairness ==
    /\ WF_vars(BleOtaTask)
    /\ WF_vars(DataChecked \/ DataWritten)
    /\ WF_vars(Restart)

Spec == Init /\ [][Next]_vars /\ Fairness

----------------------------------------------------------------------------
DataWrites == [pc : {"idle", "copied", "writing"}, buffer : Seq(Nat)]

ClientStates == {"gone", "connected", "subscribed", "sized", "requested",
                 "sending", "done", "refused", "rejected", "installed"}
Clients == [pc : ClientStates, size : Nat \ {0}, next : Nat \ {0}]

(* Types.  A packet size is one a client has announced: data is never      *)
(* taken for one.                                                          *)
TypeOK ==
    /\ stage \in {"blufi", "requested", "server", "none"}
    /\ ota_flag \in BOOLEAN /\ updating \in BOOLEAN
    /\ ota_ctrl_val \in {"nop", "OTA_REQUEST", "OTA_DONE", "cleared"}
    /\ packet_size \in Sizes \cup {0}
    /\ handle \in {"none", "open", "freed"}
    /\ data \in DataWrites
    /\ task \in {"none", "wait", "begin", "updating", "ack", "nak", "clear",
                 "stop", "end", "boot", "done_ack", "done_nak", "restart"}
    /\ partition \in [Partitions -> Seq(Nat)]
    /\ running \in Partitions /\ boot \in Partitions
    /\ client \in Clients
    /\ attempts \in 0 .. MaxAttempts
    /\ clean \in BOOLEAN /\ faulty \in BOOLEAN /\ unread \in BOOLEAN
    /\ lost \in BOOLEAN /\ ub \in BOOLEAN

(* Whatever session breaks where, and whenever power is lost, the          *)
(* partition that boots next holds a complete image.                       *)
CompleteImageBoots == Complete(partition[boot])

(* A client that has been told to send is in an update: its packets are    *)
(* not taken for a packet size.                                            *)
DataIsData == client.pc = "sending" => updating

(* A client whose packet size was taken as such, and who sent the whole    *)
(* image, is rejected only when writing or switching has failed.           *)
CleanSessionInstalls == client.pc = "rejected" /\ clean => faulty

(* In such a session no write uses a handle that has been freed.  (In one  *)
(* that begins while the last one's OTA_DONE is pending, a write can.)     *)
HandleSound == ub => ~clean

(* A client that waits for an answer gets one, goes away, or wrote its     *)
(* request between an answer of ble_ota_task and the line that clears      *)
(* ota_ctrl_val: such a request is lost.                                   *)
AnsweredOrLost ==
    \A pc \in {"requested", "done"} :
        client.pc = pc ~> client.pc # pc \/ lost \/ ub
=============================================================================
