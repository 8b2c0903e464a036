-------------------------------- MODULE Ble --------------------------------
(***************************************************************************)
(* The BLE central (main/bgs_ble.c, with the device list of                *)
(* main/bgs_ble_utils.c): the device cache, the queue of GATT operations   *)
(* that is drained one completion at a time, and scanning, which is        *)
(* interrupted by connection attempts.                                     *)
(*                                                                         *)
(* Tasks: app calls the functions of bgs_ble.h, bt is the Bluetooth task   *)
(* with gap_cb and esp_gattc_cb, timer the FreeRTOS timer daemon.  The     *)
(* cache is locked by devices_list_semaphore, the queue by nothing: each   *)
(* walk over the queue and each write to it is a step, and a step that     *)
(* would use freed memory or a null pointer sets ub and ends the           *)
(* behaviour.  Removing a device's operations is one step.                 *)
(*                                                                         *)
(* The stack: its calls take effect in the order they are made; a request  *)
(* on an open link is answered once; one on a link that is gone is         *)
(* ignored; an attempt to open a link that is up succeeds.                 *)
(***************************************************************************)
EXTENDS Integers, Sequences, FiniteSets, FiniteSetsExt

CONSTANTS
    Devices,
    MaxOps          \* bound: how many operations are ever enqueued

ASSUME MaxOpsAssumption == MaxOps \in Nat

VARIABLES
    cache,              \* devices_list: absent, or known and not open, or open
    ops,                \* every operation malloc'ed, in order
    queue,              \* operation_queue: numbers of operations, which are in their order
    timer_active,       \* the 500 ms one-shot timer "ble_queue"
    scan_requested,
    scanning,           \* the controller scans
    link,               \* devices the controller is connected to
    closing,            \* links that are gone, their CLOSE_EVT not yet handled
    pending,            \* operations the stack has not answered yet
    task,               \* where the three tasks are, with their locals
    ub,                 \* freed memory that was used, or "none"
    raced,              \* history: two tasks were on the queue at once
    ignored             \* history: a request was made on a link that was gone

scanVars == <<scan_requested, scanning>>
linkVars == <<link, closing, pending, ignored>>
queueVars == <<ops, queue>>
vars == <<cache, queueVars, timer_active, scanVars, linkVars, task, ub, raced>>

(* A WRITE stands for BLE_OPERATION_TYPE_WRITE_NR too.                     *)
Types == {"CONNECT", "READ", "WRITE", "WRITE_CHAR"}
Tasks == {"app", "bt", "timer"}
Dequeuers == {"bt", "timer"}

(* op: the operation at hand; last: where app's walk over the queue ended; *)
(* dev, devs: the device at hand and those to follow; ok: the status of an *)
(* OPEN_EVT; hold: what ble_operation_dequeue frees before it returns.     *)
Idle == [pc |-> "idle", op |-> 0, last |-> 0, dev |-> "none", devs |-> {},
         ok |-> FALSE, hold |-> {}]

(* An operation is taken (in the hands of one task), queued, lost or       *)
(* freed; its device pointer leads to a cached device, or the device was   *)
(* freed since, and how.                                                   *)
Operation(type, d) ==
    [mem |-> "taken", type |-> type, dev |-> d, device |-> "cached"]
Gone == [mem |-> "freed", type |-> "WRITE", dev |-> "none", device |-> "cached"]

----------------------------------------------------------------------------
OnQueue == {"walk", "link", "check", "remove", "remove_connects", "unlink"}
Busy(p) == task[p].pc \in OnQueue
Overlap == \E p, q \in Tasks : p # q /\ Busy(p) /\ Busy(q)

At(p, pc) == ub = "none" /\ task[p].pc = pc
Becomes(p, t) ==
    /\ task' = [task EXCEPT ![p] = t]
    /\ raced' = (raced \/ Overlap')
GoesTo(p, pc) == Becomes(p, [task[p] EXCEPT !.pc = pc])

Fault(memory) ==
    /\ ub' = memory
    /\ UNCHANGED <<cache, queueVars, timer_active, scanVars, linkVars, task, raced>>

(* devices_list_semaphore: app holds it from its look-up of the device to  *)
(* the end of the call; the others hold it within a step.                  *)
MutexFree == task["app"].pc \notin {"walk", "link", "check", "remove", "close"}

(* The devices ds leave the cache, freed under the operations they have.   *)
FreeDevices(ds, how) ==
    /\ cache' = [d \in Devices |-> IF d \in ds THEN "absent" ELSE cache[d]]
    /\ ops' = [n \in DOMAIN ops |->
                 IF ops[n].dev \in ds /\ ops[n].device = "cached" /\ ops[n].mem # "freed"
                 THEN [ops[n] EXCEPT !.device = how] ELSE ops[n]]

Marked(ns, mem) ==
    [n \in DOMAIN ops |-> IF n \in ns THEN [ops[n] EXCEPT !.mem = mem] ELSE ops[n]]

(* What the stack still has to answer keeps its type and device.           *)
Free(ns, unanswered) ==
    ops' = [n \in DOMAIN ops |->
              IF n \in ns \ unanswered THEN Gone
              ELSE IF n \in ns THEN [ops[n] EXCEPT !.mem = "freed"] ELSE ops[n]]

RemoveQueued(ns) ==
    /\ queue' = queue \ ns
    /\ Free(ns, pending)

----------------------------------------------------------------------------
(* ble_initialize has returned and the interface is registered.            *)
Init ==
    /\ cache = [d \in Devices |-> "absent"]
    /\ ops = <<>> /\ queue = {}
    /\ timer_active = FALSE
    /\ scan_requested = FALSE /\ scanning = FALSE
    /\ link = {} /\ closing = {} /\ pending = {} /\ ignored = FALSE
    /\ task = [p \in Tasks |-> Idle]
    /\ ub = "none"
    /\ raced = FALSE

----------------------------------------------------------------------------
(* ble_operation_enqueue, called by ble_connect, the characteristic        *)
(* functions and the registration for notifications: a device whose        *)
(* characteristics are known is open.                                      *)
Enqueue(type, d) ==
    /\ At("app", "idle")
    /\ cache[d] = "open" \/ (type = "CONNECT" /\ cache[d] = "known")
    /\ Len(ops) < MaxOps
    /\ ops' = Append(ops, Operation(type, d))
    /\ Becomes("app", [Idle EXCEPT !.pc = "walk", !.op = Len(ops) + 1])
    /\ UNCHANGED <<cache, queue, timer_active, scanVars, linkVars, ub>>

EnqueueWalk ==
    /\ At("app", "walk")
    /\ Becomes("app", [task["app"] EXCEPT !.pc = "link",
                          !.last = IF queue = {} THEN 0 ELSE Max(queue)])
    /\ UNCHANGED <<cache, queueVars, timer_active, scanVars, linkVars, ub>>

(* When the last operation has been taken since the walk, the new one is   *)
(* linked to it, and lost.                                                 *)
EnqueueLink ==
    LET t == task["app"]
        last == IF t.last = 0 THEN "none" ELSE ops[t.last].mem
    IN
    /\ At("app", "link")
    /\ \/ /\ last \in {"none", "queued"}
          /\ queue' = queue \cup {t.op}
          /\ ops' = Marked({t.op}, "queued")
          /\ GoesTo("app", "check")
          /\ UNCHANGED <<cache, timer_active, scanVars, linkVars, ub>>
       \/ /\ last = "taken"
          /\ ops' = Marked({t.op}, "lost")
          /\ GoesTo("app", "check")
          /\ UNCHANGED <<cache, queue, timer_active, scanVars, linkVars, ub>>
       \/ last = "freed" /\ Fault("queue")

(* Bug: the timer is not reset for the first item.                         *)
EnqueueCheckNever ==
    /\ At("app", "check")
    /\ Becomes("app", Idle)
    /\ UNCHANGED <<cache, queueVars, timer_active, scanVars, linkVars, ub>>

(* "First item in queue or timer is already running, reset timer": the     *)
(* first item's next field is read, through a null pointer if the queue    *)
(* has been emptied meanwhile.                                             *)
EnqueueCheck ==
    /\ At("app", "check")
    /\ \/ queue = {} /\ Fault("queue")
       \/ /\ queue # {}
          /\ timer_active' = (timer_active \/ Cardinality(queue) = 1)
          /\ Becomes("app", Idle)
          /\ UNCHANGED <<cache, queueVars, scanVars, linkVars, ub>>

----------------------------------------------------------------------------
(* ble_disconnect and ble_disconnect_all: _ble_disconnect for each device. *)
Disconnect ==
    /\ At("app", "idle")
    /\ LET cached == {d \in Devices : cache[d] # "absent"} IN
       \E ds \in {cached} \cup {{d} : d \in cached} : \E d \in ds :
          Becomes("app", [Idle EXCEPT !.pc = "remove", !.dev = d, !.devs = ds \ {d}])
    /\ UNCHANGED <<cache, queueVars, timer_active, scanVars, linkVars, ub>>

(* ble_operation_remove_by_mac, by either task, compares with the device   *)
(* of each operation.                                                      *)
OperationRemoveByMac(p, then) ==
    /\ At(p, "remove")
    /\ \/ /\ \A n \in queue : ops[n].device = "cached"
          /\ RemoveQueued({n \in queue : ops[n].dev = task[p].dev})
          /\ GoesTo(p, then)
          /\ UNCHANGED <<cache, timer_active, scanVars, linkVars, ub>>
       \/ /\ \E n \in queue : ops[n].device # "cached"
          /\ Fault("device")

(* esp_ble_gattc_close: a device that is not open has no connection.       *)
DisconnectClose ==
    LET t == task["app"]
        up == {t.dev} \cap link \cap {d \in Devices : cache[d] = "open"}
    IN
    /\ At("app", "close")
    /\ link' = link \ up
    /\ closing' = closing \cup up
    /\ \/ t.devs = {} /\ Becomes("app", Idle)
       \/ \E d \in t.devs :
             Becomes("app", [t EXCEPT !.pc = "remove", !.dev = d, !.devs = @ \ {d}])
    /\ UNCHANGED <<cache, queueVars, timer_active, scanVars, pending, ignored, ub>>

----------------------------------------------------------------------------
(* ble_scan_start and ble_scan_stop: the flag, then the stack.             *)
ScanStart ==
    /\ At("app", "idle") /\ ~scan_requested
    /\ scan_requested' = TRUE
    /\ GoesTo("app", "start_scanning")
    /\ UNCHANGED <<cache, queueVars, timer_active, scanning, linkVars, ub>>

ScanStop ==
    /\ At("app", "idle") /\ scan_requested
    /\ GoesTo("app", "remove_connects")
    /\ UNCHANGED <<cache, queueVars, timer_active, scanVars, linkVars, ub>>

ScanStopRemove ==
    /\ At("app", "remove_connects")
    /\ RemoveQueued({n \in queue : ops[n].type = "CONNECT"})
    /\ GoesTo("app", "unrequest")
    /\ UNCHANGED <<cache, timer_active, scanVars, linkVars, ub>>

ScanStopRequest ==
    /\ At("app", "unrequest")
    /\ scan_requested' = FALSE
    /\ GoesTo("app", "stop_scanning")
    /\ UNCHANGED <<cache, queueVars, timer_active, scanning, linkVars, ub>>

ScanCall ==
    /\ ub = "none" /\ task["app"].pc \in {"start_scanning", "stop_scanning"}
    /\ scanning' = (task["app"].pc = "start_scanning")
    /\ Becomes("app", Idle)
    /\ UNCHANGED <<cache, queueVars, timer_active, scan_requested, linkVars, ub>>

App ==
    \/ \E type \in Types, d \in Devices : Enqueue(type, d)
    \/ EnqueueWalk \/ EnqueueLink \/ EnqueueCheck
    \/ Disconnect \/ OperationRemoveByMac("app", "close") \/ DisconnectClose
    \/ ScanStart \/ ScanStop \/ ScanStopRemove \/ ScanStopRequest \/ ScanCall

----------------------------------------------------------------------------
(* ble_operation_dequeue, by the timer daemon or the Bluetooth task.       *)
Dequeue(p) ==
    /\ At(p, "dequeue")
    /\ \/ /\ queue = {}
          /\ Free(task[p].hold, pending)
          /\ Becomes(p, Idle)
       \/ /\ queue # {}
          /\ ops' = ops
          /\ Becomes(p, [task[p] EXCEPT !.pc = "unlink", !.op = Min(queue)])
    /\ UNCHANGED <<cache, queue, timer_active, scanVars, linkVars, ub>>

(* Bug: the operation is performed and stays queued.                       *)
DequeueUnlinkKeeps(p) ==
    LET n == task[p].op IN
    /\ At(p, "unlink")
    /\ queue' = queue
    /\ ops' = Marked({n}, "taken")
    /\ GoesTo(p, IF ops[n].type = "CONNECT" THEN "stop" ELSE "request")
    /\ UNCHANGED <<cache, timer_active, scanVars, linkVars, ub>>

(* Two tasks that have read the same head both free it in the end.         *)
DequeueUnlink(p) ==
    LET n == task[p].op IN
    /\ At(p, "unlink")
    /\ \/ /\ ops[n].mem = "queued"
          /\ queue' = queue \ {n}
          /\ ops' = Marked({n}, "taken")
          /\ GoesTo(p, IF ops[n].type = "CONNECT" THEN "stop" ELSE "request")
          /\ UNCHANGED <<cache, timer_active, scanVars, linkVars, ub>>
       \/ ops[n].mem # "queued" /\ Fault("queue")

(* ble_operation_perform, and the free that follows it.                    *)
PerformStop(p) ==
    /\ At(p, "stop")
    /\ scanning' = FALSE
    /\ GoesTo(p, "open")
    /\ UNCHANGED <<cache, queueVars, timer_active, scan_requested, linkVars, ub>>

PerformOpen(p) ==
    LET n == task[p].op IN
    /\ At(p, "open")
    /\ \/ /\ ops[n].device = "cached"
          /\ pending' = pending \cup {n}
          /\ Free(task[p].hold \cup {n}, pending')
          /\ Becomes(p, Idle)
          /\ UNCHANGED <<cache, queue, timer_active, scanVars, link, closing, ignored, ub>>
       \/ ops[n].device # "cached" /\ Fault("device")

(* A descriptor write's answer starts nothing: the next operation follows  *)
(* at once, in a recursive call, and only then is the first one freed.     *)
PerformRequest(p) ==
    LET n == task[p].op
        answered == ops[n].type # "WRITE_CHAR"
        up == ops[n].dev \in link
    IN
    /\ At(p, "request")
    /\ \/ /\ ops[n].device = "cached"
          /\ pending' = IF answered /\ up THEN pending \cup {n} ELSE pending
          /\ ignored' = (ignored \/ (answered /\ ~up))
          /\ IF answered
             THEN Free(task[p].hold \cup {n}, pending') /\ Becomes(p, Idle)
             ELSE /\ ops' = ops
                  /\ Becomes(p, [task[p] EXCEPT !.pc = "dequeue", !.op = 0,
                                                !.hold = @ \cup {n}])
          /\ UNCHANGED <<cache, queue, timer_active, scanVars, link, closing, ub>>
       \/ ops[n].device # "cached" /\ Fault("device")

OperationDequeue(p) ==
    Dequeue(p) \/ DequeueUnlink(p) \/ PerformStop(p) \/ PerformOpen(p) \/ PerformRequest(p)

----------------------------------------------------------------------------
(* The timer daemon                                                        *)
QueueTimer ==
    /\ At("timer", "idle") /\ timer_active
    /\ timer_active' = FALSE
    /\ GoesTo("timer", "dequeue")
    /\ UNCHANGED <<cache, queueVars, scanVars, linkVars, ub>>

(* Bug: connected devices are purged too.                                  *)
PurgeDeviceListAll ==
    /\ At("timer", "idle") /\ MutexFree
    /\ FreeDevices(Devices, "purged")
    /\ UNCHANGED <<queue, timer_active, scanVars, linkVars, task, ub, raced>>

PurgeDeviceList ==
    /\ At("timer", "idle") /\ MutexFree
    /\ FreeDevices({d \in Devices : cache[d] = "known"}, "purged")
    /\ UNCHANGED <<queue, timer_active, scanVars, linkVars, task, ub, raced>>

Timer == QueueTimer \/ PurgeDeviceList \/ OperationDequeue("timer")

----------------------------------------------------------------------------
(* The Bluetooth task.  gap_cb: a device is found, and cached once; it     *)
(* does not advertise while it is connected.                               *)
ScanResult(d) ==
    /\ At("bt", "idle") /\ scanning /\ scan_requested /\ MutexFree
    /\ cache[d] = "absent" /\ d \notin link \cup closing
    /\ cache' = [cache EXCEPT ![d] = "known"]
    /\ UNCHANGED <<queueVars, timer_active, scanVars, linkVars, task, ub, raced>>

Answered(n) ==
    /\ pending' = pending \ {n}
    /\ ops' = IF ops[n].mem = "freed" THEN [ops EXCEPT ![n] = Gone] ELSE ops

(* Bug: scanning is not resumed after a failed attempt.                    *)
OpenEvtFailed(n, ok) ==
    LET d == ops[n].dev IN
    /\ At("bt", "idle")
    /\ ops[n].type = "CONNECT" /\ d \notin closing
    /\ ok \/ d \notin link
    /\ Answered(n)
    /\ link' = IF ok THEN link \cup {d} ELSE link
    /\ Becomes("bt", [Idle EXCEPT !.pc = IF ok /\ scan_requested THEN "resume" ELSE "opened",
                                  !.dev = d, !.ok = ok])
    /\ UNCHANGED <<cache, queue, timer_active, scanVars, closing, ignored, ub>>

(* ESP_GATTC_OPEN_EVT: "Resume scanning, if requested", then the cache.    *)
OpenEvt(n, ok) ==
    LET d == ops[n].dev IN
    /\ At("bt", "idle")
    /\ ops[n].type = "CONNECT" /\ d \notin closing
    /\ ok \/ d \notin link
    /\ Answered(n)
    /\ link' = IF ok THEN link \cup {d} ELSE link
    /\ Becomes("bt", [Idle EXCEPT !.pc = IF scan_requested THEN "resume" ELSE "opened",
                                  !.dev = d, !.ok = ok])
    /\ UNCHANGED <<cache, queue, timer_active, scanVars, closing, ignored, ub>>

OpenEvtResume ==
    /\ At("bt", "resume")
    /\ scanning' = TRUE
    /\ GoesTo("bt", "opened")
    /\ UNCHANGED <<cache, queueVars, timer_active, scan_requested, linkVars, ub>>

(* A device that is no longer cached is looked up, and not checked for.    *)
OpenEvtCache ==
    LET d == task["bt"].dev IN
    /\ At("bt", "opened") /\ MutexFree
    /\ \/ /\ task["bt"].ok /\ cache[d] # "absent"
          /\ cache' = [cache EXCEPT ![d] = "open"]
          /\ Becomes("bt", [Idle EXCEPT !.pc = "dequeue"])
          /\ UNCHANGED <<queueVars, timer_active, scanVars, linkVars, ub>>
       \/ task["bt"].ok /\ cache[d] = "absent" /\ Fault("device")
       \/ /\ ~task["bt"].ok
          /\ FreeDevices({d}, "unreachable")
          /\ Becomes("bt", [Idle EXCEPT !.pc = "dequeue"])
          /\ UNCHANGED <<queue, timer_active, scanVars, linkVars, ub>>

(* READ_CHAR_EVT and WRITE_CHAR_EVT, whatever their status.                *)
AnswerEvt(n) ==
    /\ At("bt", "idle")
    /\ ops[n].type = "WRITE" \/ (ops[n].type = "READ" /\ MutexFree)
    /\ Answered(n)
    /\ Becomes("bt", [Idle EXCEPT !.pc = "dequeue"])
    /\ UNCHANGED <<cache, queue, timer_active, scanVars, link, closing, ignored, ub>>

(* "Try again" after a refusal, and the link has been lost meanwhile; on   *)
(* an open link the new request takes the place of the old one.            *)
ReadAgain(n) ==
    LET d == ops[n].dev IN
    /\ At("bt", "idle") /\ MutexFree
    /\ ops[n].type = "READ" /\ cache[d] = "open" /\ d \notin link
    /\ Answered(n)
    /\ ignored' = TRUE
    /\ UNCHANGED <<cache, queue, timer_active, scanVars, link, closing, task, ub, raced>>

LinkLost(d) ==
    /\ ub = "none" /\ d \in link
    /\ link' = link \ {d}
    /\ closing' = closing \cup {d}
    /\ UNCHANGED <<cache, queueVars, timer_active, scanVars, pending, ignored, task, ub, raced>>

(* ESP_GATTC_CLOSE_EVT: "Remove queued requests for this device", then     *)
(* "Remove device from cache".                                             *)
CloseEvt(d) ==
    /\ At("bt", "idle") /\ d \in closing
    /\ closing' = closing \ {d}
    /\ Becomes("bt", [Idle EXCEPT !.pc = "remove", !.dev = d])
    /\ UNCHANGED <<cache, queueVars, timer_active, scanVars, link, pending, ignored, ub>>

CloseEvtCache ==
    /\ At("bt", "closed") /\ MutexFree
    /\ FreeDevices({task["bt"].dev}, "closed")
    /\ Becomes("bt", Idle)
    /\ UNCHANGED <<queue, timer_active, scanVars, linkVars, ub>>

Bt ==
    \/ \E d \in Devices : ScanResult(d) \/ LinkLost(d) \/ CloseEvt(d)
    \/ \E n \in pending : (\E ok \in BOOLEAN : OpenEvt(n, ok)) \/ AnswerEvt(n) \/ ReadAgain(n)
    \/ OpenEvtResume \/ OpenEvtCache
    \/ OperationRemoveByMac("bt", "closed") \/ CloseEvtCache
    \/ OperationDequeue("bt")

----------------------------------------------------------------------------
Next == App \/ Timer \/ Bt

Spec == Init /\ [][Next]_vars

----------------------------------------------------------------------------
(* Properties                                                              *)

(* Every variable holds a value of its kind; the queue holds the           *)
(* operations that are queued, and no other.                               *)
TypeOK ==
    /\ cache \in [Devices -> {"absent", "known", "open"}]
    /\ ops \in Seq([mem : {"taken", "queued", "lost", "freed"}, type : Types,
                    dev : Devices \cup {"none"},
                    device : {"cached", "purged", "unreachable", "closed"}])
    /\ Len(ops) <= MaxOps
    /\ queue = {n \in DOMAIN ops : ops[n].mem = "queued"}
    /\ timer_active \in BOOLEAN /\ scan_requested \in BOOLEAN /\ scanning \in BOOLEAN
    /\ link \subseteq Devices /\ closing \subseteq Devices \ link
    /\ pending \subseteq DOMAIN ops
    /\ DOMAIN task = Tasks
    /\ ub \in {"none", "queue", "device"}
    /\ raced \in BOOLEAN /\ ignored \in BOOLEAN

(* A task that will take the next operation, or is about to set the timer. *)
Pumping ==
    \/ timer_active
    \/ task["app"].pc = "check"
    \/ \E p \in Dequeuers :
          task[p].pc \in {"resume", "opened", "dequeue", "unlink", "stop", "open", "request"}

(* Operations never wait in the queue without something that will take the *)
(* next one: the timer, an answer of the stack, or a task on its way.  The *)
(* exception is a request made on a link that was already gone, which the  *)
(* stack does not answer: enqueueing more does not restart the queue then. *)
NoStall == ub = "none" /\ queue # {} => Pumping \/ pending # {} \/ ignored

(* The unlocked queue is used after free, or loses an operation, only when *)
(* two tasks have been on it at once: the walks, removals and recursion of *)
(* one task at a time are sound.                                           *)
MemorySound ==
    /\ ub = "queue" => raced
    /\ (\E n \in DOMAIN ops : ops[n].mem = "lost") => raced

(* A device whose link is up is in the cache as open, so that              *)
(* ble_disconnect_all reaches it: no purge, failed attempt or late         *)
(* CLOSE_EVT of an earlier link removes it.                                *)
LinksKnown ==
    ub = "none" =>
        \A d \in link : cache[d] = "open" \/ (task["bt"].pc \in {"resume", "opened"}
                                                /\ task["bt"].dev = d)

(* Operations hold plain pointers to devices.  A purge or a failed attempt *)
(* frees devices under attempts to connect only: a read, a write or a      *)
(* registration keeps its device until the CLOSE_EVT of its link removes   *)
(* it, whatever is purged, retried and found again meanwhile.              *)
RequestsKeepDevice ==
    \A n \in DOMAIN ops :
        ops[n].mem # "freed" /\ ops[n].type # "CONNECT" => ops[n].device \in {"cached", "closed"}

(* Scanning that the application wants and a connection attempt            *)
(* interrupted is on again once no attempt is under way, however attempts, *)
(* their failures and calls of ble_scan_start interleave.                  *)
RequestedScanResumes ==
    scan_requested /\ task["app"].pc \notin {"start_scanning"} =>
        \/ scanning
        \/ \E n \in pending : ops[n].type = "CONNECT"
        \/ \E p \in Dequeuers : task[p].pc \in {"open", "resume"}
=============================================================================
