------------------------------- MODULE Update -------------------------------
(***************************************************************************)
(* Updates of the firmware and of the configuration, downloaded by a task  *)
(* of their own (main/bgs_ota.c) into the partition that is not in use     *)
(* (main/bgs_config.c, esp_ota).  ota_ctx is shared without a lock by      *)
(* blegw_task, which opens downloads, and the tasks that write and close   *)
(* them.  Erasing, writing and switching may fail, a download may end at   *)
(* any point, and power may be lost at any point.                          *)
(*                                                                         *)
(* A file has ImageLen chunks, as many as a partition holds.  A partition  *)
(* holds in each place the number of the download that its chunk is from,  *)
(* at first 0.                                                             *)
(***************************************************************************)
EXTENDS Integers, Sequences

CONSTANTS
    ImageLen,           \* chunks of a file, and of a partition; more than the
                        \* one chunk of an error page
    MaxDownloads        \* bound on the downloads of a behaviour

ASSUME UpdateAssumption ==
    ImageLen \in Nat \ {0, 1} /\ MaxDownloads \in Nat

VARIABLES
    ota_ctx,            \* in_progress, ops, bytes_written, handle
    handles,            \* update handles ever given out since the last reset
    task,               \* ota_task of each download
    count,              \* downloads so far
    flash,              \* the two partitions of each type
    boot,               \* the active partition (NVS), the boot partition
    running,            \* the firmware partition that runs
    completed,          \* a success waits in event_queue
    overlapped,         \* history: a download was opened while an earlier one
                        \* was being ended
    write_failed,       \* history: a write of the configuration has failed
    oversized,          \* history: a file longer than a partition came
    last,               \* history: the latest download, if reported a success
    ub                  \* a freed handle was used

context == <<ota_ctx, handles>>
stored == <<flash, boot, running>>
histories == <<overlapped, write_failed, oversized, last>>
vars == <<context, task, count, stored, completed, histories, ub>>

Types == {"config", "firmware"}
Downloads == 1 .. MaxDownloads
Blank == -1             \* erased
Garbage == -2           \* an error page, or a chunk in the wrong place
Erased == [i \in 1 .. ImageLen |-> Blank]

Whole(content) ==
    \E v \in 0 .. MaxDownloads : \A i \in 1 .. ImageLen : content[i] = v

Lengths == [file |-> ImageLen, long |-> ImageLen + 1, page |-> 1, none |-> 0]
Files == DOMAIN Lengths

NoTask == [pc |-> "none", type |-> "config", file |-> "none", chunk |-> 1,
           ok |-> FALSE, err |-> "none", ops |-> "none", handle |-> 0]
NoLast == [n |-> 0, type |-> "config"]

Runs == ~ub

Init ==
    /\ ota_ctx = [in_progress |-> FALSE, ops |-> "none",
                  bytes_written |-> 0, handle |-> 0]
    /\ handles = <<>>
    /\ task = [n \in Downloads |-> NoTask]
    /\ count = 0
    /\ flash = [t \in Types |-> [p \in 0 .. 1 |->
                   IF p = 0 THEN [i \in 1 .. ImageLen |-> 0] ELSE Erased]]
    /\ boot = [t \in Types |-> 0] /\ running = 0
    /\ completed = FALSE
    /\ overlapped = FALSE /\ write_failed = FALSE /\ oversized = FALSE
    /\ last = NoLast
    /\ ub = FALSE

----------------------------------------------------------------------------
(* ota_open.  Only blegw_task calls it, so its test and what follows are   *)
(* one step; a refused download changes nothing.                           *)
Open(type) ==
    /\ ~ota_ctx.in_progress
    /\ ota_ctx' = [ota_ctx EXCEPT !.in_progress = TRUE, !.ops = type,
                                  !.bytes_written = 0]

(* ota_on_mqtt and ota_download.  The server has the file, one that is too *)
(* long, or an error page, or finds it unchanged.                          *)
Download(type, file) ==
    /\ Runs
    /\ count < MaxDownloads
    /\ Open(type)
    /\ count' = count + 1
    /\ task' = [task EXCEPT ![count + 1] =
                   [NoTask EXCEPT !.pc = "body", !.type = type, !.file = file]]
    /\ overlapped' = (overlapped \/ \E m \in Downloads : task[m].pc \in {"take", "end"})
    /\ last' = NoLast
    /\ oversized' = (oversized \/ file = "long")
    /\ UNCHANGED <<handles, stored, completed, write_failed, ub>>

----------------------------------------------------------------------------
Goes(n, pc) == task' = [task EXCEPT ![n].pc = pc]
NextChunk(n) == task' = [task EXCEPT ![n].pc = "body", ![n].chunk = @ + 1]
Corrupts(n) ==
    /\ ub' = TRUE
    /\ UNCHANGED <<context, task, count, stored, completed, histories>>

(* Bug: begins when there has been no handle yet.                          *)
NeedsBeginOnce == ota_ctx.handle = 0

NeedsBegin == ota_ctx.bytes_written = 0

(* http_event_cb and ota_write.  The HTTP client does not look at what the *)
(* callback returns.                                                       *)
Data(n) ==
    /\ task[n].pc = "body" /\ task[n].chunk <= Lengths[task[n].file]
    /\ Goes(n, IF NeedsBegin THEN "begin" ELSE "write")
    /\ UNCHANGED <<context, count, stored, completed, histories, ub>>

(* Bug: the active partition, or not the boot partition, is erased.        *)
TargetActive(type) == IF type = "config" THEN boot["config"] ELSE 1 - running
TargetNotBoot(type) == 1 - boot[type]

Target(type) == IF type = "config" THEN 1 - boot["config"] ELSE 1 - running

(* config_update_begin, ota_firmware_begin: erase and give out a handle.   *)
Begin(n) ==
    /\ task[n].pc = "begin"
    /\ LET type == ota_ctx.ops
           erased == [flash EXCEPT ![type][Target(type)] = Erased]
       IN  \/ /\ flash' = erased
              /\ handles' = Append(handles,
                     [type |-> type, partition |-> Target(type),
                      bytes_written |-> 0, open |-> TRUE])
              /\ ota_ctx' = [ota_ctx EXCEPT !.handle = Len(handles) + 1]
              /\ Goes(n, "write")
           \/ /\ flash' \in {flash, erased}
              /\ NextChunk(n)
              /\ UNCHANGED context
    /\ UNCHANGED <<count, boot, running, completed, histories, ub>>

(* A handle as the functions of ops see it.                                *)
Valid(ops, h) == h # 0 /\ handles[h].open /\ handles[h].type = ops
Free(h) == handles' = [handles EXCEPT ![h].open = FALSE]

handle == handles[ota_ctx.handle]
HandleValid == Valid(ota_ctx.ops, ota_ctx.handle)

Chunk(n, place) ==
    IF task[n].file = "file" /\ task[n].chunk = place
       /\ flash[handle.type][handle.partition][place] = Blank
    THEN n ELSE Garbage

(* Bug: the end of the partition is not checked.                           *)
WriteOkPast(n) ==
    LET place == handle.bytes_written + 1
    IN  /\ HandleValid
        /\ flash' = [flash EXCEPT ![handle.type][handle.partition] =
               [i \in 1 .. ImageLen |-> IF i = place THEN Chunk(n, i) ELSE @[i]]]
        /\ handles' = [handles EXCEPT
                          ![ota_ctx.handle].bytes_written = place]
        /\ ota_ctx' = [ota_ctx EXCEPT !.bytes_written = @ + 1]
        /\ UNCHANGED write_failed

WriteOk(n) ==
    LET place == handle.bytes_written + 1
    IN  /\ HandleValid
        /\ place <= ImageLen
        /\ flash' = [flash EXCEPT ![handle.type][handle.partition][place] =
                         Chunk(n, place)]
        /\ handles' = [handles EXCEPT
                          ![ota_ctx.handle].bytes_written = place]
        /\ ota_ctx' = [ota_ctx EXCEPT !.bytes_written = @ + 1]
        /\ UNCHANGED write_failed

(* config_update_write frees the handle when it fails.                     *)
WriteFails ==
    /\ HandleValid \/ ota_ctx.ops = "firmware"
    /\ IF ota_ctx.ops = "config" THEN Free(ota_ctx.handle) /\ write_failed' = TRUE
                                 ELSE UNCHANGED <<handles, write_failed>>
    /\ UNCHANGED <<flash, ota_ctx>>

Write(n) ==
    /\ task[n].pc = "write"
    /\ \/ /\ WriteOk(n) \/ WriteFails
          /\ NextChunk(n)
          /\ UNCHANGED <<count, boot, running, completed,
                         overlapped, oversized, last, ub>>
       \/ /\ ota_ctx.ops = "config" /\ ~HandleValid
          /\ Corrupts(n)

(* esp_http_client_perform returns: all read, or (also then) an error.     *)
Performed(n) ==
    /\ task[n].pc = "body"
    /\ \E ok \in BOOLEAN :
          /\ ok => task[n].chunk > Lengths[task[n].file]
          /\ task' = [task EXCEPT ![n].pc = "close",
                                  ![n].ok = ok /\ task[n].file # "page"]
    /\ UNCHANGED <<context, count, stored, completed, histories, ub>>

----------------------------------------------------------------------------
(* ota_close.  From its first step on another download may open; the       *)
(* functions of ops that end one work on the handle they are called with.  *)
Close(n) ==
    /\ task[n].pc = "close"
    /\ ota_ctx' = [ota_ctx EXCEPT !.in_progress = FALSE]
    /\ Goes(n, "take")
    /\ UNCHANGED <<handles, count, stored, completed, histories, ub>>

TakeHandle(n) ==
    /\ task[n].pc = "take"
    /\ task' = [task EXCEPT ![n] =
          IF ota_ctx.bytes_written = 0
          THEN [@ EXCEPT !.pc = "report", !.err = "NO_CHANGE"]
          ELSE [@ EXCEPT !.pc = "end", !.ops = ota_ctx.ops,
                         !.handle = ota_ctx.handle]]
    /\ UNCHANGED <<context, count, stored, completed, histories, ub>>

Ended(n, err) == task' = [task EXCEPT ![n].pc = "report", ![n].err = err]

(* Bug: config_update_end switches whatever was written.                   *)
EndConfigAny(n) ==
    /\ boot' = [boot EXCEPT !["config"] = handles[task[n].handle].partition]
    /\ Ended(n, "SUCCESS")
    /\ Free(task[n].handle)
    /\ UNCHANGED ub

EndConfig(n) ==
    IF ~Valid("config", task[n].handle)
    THEN /\ ub' = TRUE
         /\ UNCHANGED <<handles, task, boot>>
    ELSE /\ \/ /\ handles[task[n].handle].bytes_written = ImageLen
               /\ boot' = [boot EXCEPT !["config"] =
                               handles[task[n].handle].partition]
               /\ Ended(n, "SUCCESS")
            \/ UNCHANGED boot /\ Ended(n, "FAILED_END")
         /\ Free(task[n].handle)
         /\ UNCHANGED ub

(* Bug: success although the boot partition could not be set.              *)
EndFirmwareUnset(n) ==
    LET valid == Valid("firmware", task[n].handle)
    IN  /\ \/ /\ valid /\ Whole(flash["firmware"][1 - running])
              /\ boot' \in {boot, [boot EXCEPT !["firmware"] = 1 - running]}
              /\ Ended(n, "SUCCESS")
           \/ UNCHANGED boot /\ Ended(n, "FAILED_END")
        /\ IF valid THEN Free(task[n].handle) ELSE UNCHANGED handles
        /\ UNCHANGED ub

(* esp_ota_end knows its handles, and refuses an image that is not whole.  *)
EndFirmware(n) ==
    LET valid == Valid("firmware", task[n].handle)
    IN  /\ \/ /\ valid /\ Whole(flash["firmware"][1 - running])
              /\ boot' = [boot EXCEPT !["firmware"] = 1 - running]
              /\ Ended(n, "SUCCESS")
           \/ UNCHANGED boot /\ Ended(n, "FAILED_END")
        /\ IF valid THEN Free(task[n].handle) ELSE UNCHANGED handles
        /\ UNCHANGED ub

End(n) ==
    /\ task[n].pc = "end"
    /\ IF task[n].ops = "config" THEN EndConfig(n) ELSE EndFirmware(n)
    /\ UNCHANGED <<ota_ctx, count, flash, running, completed, histories>>

(* The rest of ota_task: a bad status replaces what ota_close returned.    *)
Report(n) ==
    /\ task[n].pc = "report"
    /\ IF task[n].ok /\ task[n].err = "SUCCESS"
       THEN /\ completed' = TRUE
            /\ last' = IF n = count THEN [n |-> n, type |-> task[n].type]
                                    ELSE last
       ELSE UNCHANGED <<completed, last>>
    /\ task' = [task EXCEPT ![n] = NoTask]
    /\ UNCHANGED <<context, count, stored, overlapped, write_failed,
                   oversized, ub>>

OtaTask(n) ==
    /\ Runs
    /\ \/ Data(n) \/ Begin(n) \/ Write(n) \/ Performed(n)
       \/ Close(n) \/ TakeHandle(n) \/ End(n) \/ Report(n)

----------------------------------------------------------------------------
(* config_load formats a partition that it cannot mount.                   *)
Loads(t, p) == Whole(flash[t][p])
Formatted(partitions) ==
    {[flash EXCEPT !["config"] = [p \in 0 .. 1 |->
          IF p \in formatted THEN Erased ELSE @[p]]] :
        formatted \in SUBSET {p \in partitions : ~Loads("config", p)}}

(* The boot loader takes the boot partition if it is whole.                *)
(* config_initialize falls back to the other partition and then marks it;  *)
(* it goes on with an active partition that it can read in spite of a hole.*)
Reset ==
    /\ running' = IF Loads("firmware", boot["firmware"])
                  THEN boot["firmware"] ELSE 1 - boot["firmware"]
    /\ LET active == boot["config"]
       IN  \/ boot' = boot /\ flash' \in Formatted({active})
          \/ /\ ~Loads("config", active) /\ ~Loads("config", 1 - active)
             /\ boot' = boot /\ flash' \in Formatted(0 .. 1)
          \/ /\ ~Loads("config", active) /\ Loads("config", 1 - active)
             /\ boot' = [boot EXCEPT !["config"] = 1 - active]
             /\ flash' \in Formatted({active})
    /\ ota_ctx' = [in_progress |-> FALSE, ops |-> "none",
                   bytes_written |-> 0, handle |-> 0]
    /\ handles' = <<>>
    /\ task' = [n \in Downloads |-> NoTask]
    /\ completed' = FALSE
    /\ write_failed' = FALSE
    /\ UNCHANGED <<count, overlapped, oversized, last, ub>>

(* ota_on_completed restarts by abort after a success.                     *)
OnCompleted == Runs /\ completed /\ Reset

PowerLoss == Runs /\ Reset

Next ==
    \/ \E type \in Types, file \in Files : Download(type, file)
    \/ \E n \in Downloads : OtaTask(n)
    \/ OnCompleted \/ PowerLoss

Spec == Init /\ [][Next]_vars

----------------------------------------------------------------------------
(* Types.                                                                  *)
TypeOK ==
    /\ ota_ctx \in [in_progress : BOOLEAN, ops : Types \cup {"none"},
                    bytes_written : Nat, handle : 0 .. Len(handles)]
    /\ handles \in Seq([type : Types, partition : 0 .. 1,
                        bytes_written : 0 .. ImageLen, open : BOOLEAN])
    /\ task \in [Downloads ->
           [pc : {"none", "body", "begin", "write", "close", "take", "end",
                  "report"},
            type : Types, file : Files, chunk : 1 .. ImageLen + 2,
            ok : BOOLEAN,
            err : {"none", "NO_CHANGE", "SUCCESS", "FAILED_END"},
            ops : Types \cup {"none"}, handle : Nat]]
    /\ count \in 0 .. MaxDownloads
    /\ flash \in [Types -> [0 .. 1 ->
           [1 .. ImageLen -> {Garbage, Blank} \cup 0 .. MaxDownloads]]]
    /\ boot \in [Types -> 0 .. 1] /\ running \in 0 .. 1
    /\ last \in [n : 0 .. MaxDownloads, type : Types]
    /\ {completed, overlapped, write_failed, oversized, ub} \subseteq BOOLEAN

(* The configuration that is active is whole, so that the device finds it  *)
(* after a loss of power, unless a download was opened while another one   *)
(* was being ended, or a file is longer than the partition: what is        *)
(* written of it may then fill the partition all the same.                 *)
ActiveIsWhole ==
    ~overlapped /\ ~oversized => Whole(flash["config"][boot["config"]])

(* The firmware that runs is whole, so that the boot loader always finds   *)
(* one, also when an update erases the boot partition of the last one.     *)
FirmwareBoots == Whole(flash["firmware"][running])

(* A success that was reported is what the device starts with next, until  *)
(* the next download, but for overlaps and files that are too long.        *)
SuccessInstalls ==
    last # NoLast /\ ~overlapped /\ ~oversized =>
        \A i \in 1 .. ImageLen : flash[last.type][boot[last.type]][i] = last.n

(* The handle of a configuration update is used after it was freed only    *)
(* when a write has failed, or downloads overlapped.                       *)
HandleSound == ub => write_failed \/ overlapped
=============================================================================
