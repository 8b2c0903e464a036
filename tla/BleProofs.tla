------------------------------ MODULE BleProofs ------------------------------
(***************************************************************************)
(* Proofs about Ble for every number of devices and of operations: the     *)
(* types, the memory of the unlocked queue, that operations do not wait    *)
(* for nothing, that links are in the cache, that requests keep their      *)
(* device, and that scanning resumes.                                      *)
(*                                                                         *)
(* The argument is about hands: an operation that is off the queue and not *)
(* freed is in the hands of one task, and no task frees what another has.  *)
(***************************************************************************)
EXTENDS Ble, SequenceTheorems, FiniteSetTheorems, WellFoundedInduction, TLAPS

Mems == {"taken", "queued", "lost", "freed"}
Op == [mem : Mems, type : Types, dev : Devices \cup {"none"},
       device : {"cached", "purged", "unreachable", "closed"}]

AppPlaces == {"idle", "walk", "link", "check", "remove", "close", "start_scanning",
              "remove_connects", "unrequest", "stop_scanning"}
DequeuePlaces == {"idle", "dequeue", "unlink", "stop", "open", "request"}
BtPlaces == DequeuePlaces \cup {"resume", "opened", "remove", "closed"}

Locals == [pc : AppPlaces \cup BtPlaces, op : Nat, last : Nat, dev : Devices \cup {"none"},
           devs : SUBSET Devices, ok : BOOLEAN, hold : SUBSET Nat]

(* Where the tasks are, and which devices and operations they refer to.    *)
TaskInv ==
    /\ task \in [Tasks -> Locals]
    /\ task["app"].pc \in AppPlaces /\ task["timer"].pc \in DequeuePlaces
    /\ task["bt"].pc \in BtPlaces
    /\ task["app"].pc \in {"remove", "close"} => task["app"].dev \in Devices
    /\ task["bt"].pc \in {"resume", "opened", "remove", "closed"} => task["bt"].dev \in Devices
    /\ task["app"].pc \in {"walk", "link", "check"} => task["app"].op \in DOMAIN ops
    /\ task["app"].pc = "link" => task["app"].last \in DOMAIN ops \cup {0}
    /\ \A p \in Dequeuers : task[p].pc = "unlink" => task[p].op \in DOMAIN ops

(* What a task has taken: the operation it enqueues or performs, and those *)
(* it frees when its recursive calls have returned.                        *)
Hand(p) ==
    task[p].hold \cup
        (IF task[p].pc \in {"walk", "link", "stop", "open", "request"} THEN {task[p].op} ELSE {})

HandInv ==
    /\ \A p \in Tasks : \A n \in Hand(p) : n \in DOMAIN ops /\ ops[n].mem = "taken"
    /\ \A p, q \in Tasks : p # q => Hand(p) \cap Hand(q) = {}
    /\ task["app"].hold = {}
    /\ \A p \in Dequeuers :
         /\ task[p].pc \in {"stop", "open"} => ops[task[p].op].type = "CONNECT"
         /\ task[p].pc = "request" => ops[task[p].op].type # "CONNECT"

(* What the stack has not answered has been freed by its task, and keeps   *)
(* its type and device.                                                    *)
PendingInv ==
    \A n \in pending :
        /\ n \in DOMAIN ops /\ ops[n].mem = "freed"
        /\ ops[n].dev \in Devices /\ ops[n].type # "WRITE_CHAR"

OpsInv == \A n \in DOMAIN ops : ops[n].mem # "freed" => ops[n].dev \in Devices

(* One task on the queue finds it as it has left it.                       *)
QueueInv ==
    /\ Overlap => raced
    /\ ~raced =>
         /\ ub # "queue"
         /\ \A n \in DOMAIN ops : ops[n].mem # "lost"
         /\ task["app"].pc = "link" =>
                IF task["app"].last = 0 THEN queue = {} ELSE task["app"].last \in queue
         /\ task["app"].pc = "check" => task["app"].op \in queue
         /\ \A p \in Dequeuers : task[p].pc = "unlink" => task[p].op \in queue

(* An operation that waits behind another one is taken by whoever takes    *)
(* that one; the one just linked is seen to by its own task.               *)
Linked == IF task["app"].pc = "check" THEN {task["app"].op} ELSE {}
Taking ==
    \/ timer_active
    \/ \E p \in Dequeuers :
          task[p].pc \in {"resume", "opened", "dequeue", "unlink", "stop", "open", "request"}

PumpInv == ub = "none" /\ queue \ Linked # {} => Taking \/ pending # {} \/ ignored

(* The Bluetooth task has the link's device at hand while the cache does   *)
(* not know of it yet, or not any more.                                    *)
LinkInv ==
    /\ task["bt"].pc \in {"resume", "opened"} /\ ~task["bt"].ok => task["bt"].dev \notin link
    /\ task["bt"].pc \in {"remove", "closed"} => task["bt"].dev \notin link
    /\ LinksKnown

ScanInv ==
    /\ task["app"].pc = "stop_scanning" => ~scan_requested
    /\ RequestedScanResumes

IInv == TypeOK /\ TaskInv /\ HandInv /\ PendingInv /\ OpsInv /\ QueueInv /\ PumpInv /\ LinkInv /\ ScanInv

----------------------------------------------------------------------------
(* Sets of numbers, sequences, and the operations                          *)

(* Every non-empty set of naturals has a least element.                    *)
LEMMA LeastExists ==
    ASSUME NEW S \in SUBSET Nat, S # {}
    PROVE  \E x \in S : \A y \in S : x <= y
<1>1. PICK x \in S : \A y \in S : ~(<<y, x>> \in OpToRel(<, Nat))
  BY NatLessThanWellFounded, WFMin
<1>2. \A y \in S : ~(y < x)
  BY <1>1 DEF OpToRel
<1> QED BY <1>2

(* The head and the end of the queue are operations of the queue.          *)
LEMMA MinMax ==
    ASSUME NEW N \in Nat, NEW S \in SUBSET (1 .. N), S # {}
    PROVE  Min(S) \in S /\ Max(S) \in S
<1>1. \E x \in S : \A y \in S : x <= y
  BY LeastExists
<1>2. \E x \in S : \A y \in S : y <= x
  <2> DEFINE R == {N - x : x \in S}
  <2>1. R \in SUBSET Nat /\ R # {}
    <3>1. \A x \in S : N - x \in Nat
      OBVIOUS
    <3> QED
      BY <3>1
  <2>2. PICK r \in R : \A y \in R : r <= y
    BY <2>1, LeastExists
  <2>3. PICK x \in S : r = N - x
    BY <2>2
  <2>4. ASSUME NEW y \in S PROVE y <= x
    <3>1. N - x <= N - y
      BY <2>2, <2>3
    <3> QED
      BY <3>1
  <2> QED
    BY <2>4
<1> QED
  BY <1>1, <1>2 DEF Min, Max

LEMMA SeqLike ==
    ASSUME NEW T, NEW s \in Seq(T), NEW r, DOMAIN r = DOMAIN s,
           r = [n \in DOMAIN s |-> r[n]], \A n \in DOMAIN s : r[n] \in T
    PROVE  r \in Seq(T) /\ Len(r) = Len(s)
<1>1. DOMAIN s = 1 .. Len(s) /\ Len(s) \in Nat
  OBVIOUS
<1>2. r \in [1 .. Len(s) -> T]
  BY <1>1
<1> QED
  BY <1>1, <1>2, IsASeq, LenProperties

(* The operations are still there ...                                      *)
Stay ==
    /\ ops' \in Seq(Op) /\ Len(ops') = Len(ops) /\ DOMAIN ops' = DOMAIN ops

(* ... and what a task does to the memory of some leaves the others alone. *)
LEMMA MarkedIs ==
    ASSUME ops \in Seq(Op), NEW ns, NEW mem \in Mems, ops' = Marked(ns, mem)
    PROVE  /\ Stay
           /\ \A n \in DOMAIN ops :
                /\ ops'[n].mem = IF n \in ns THEN mem ELSE ops[n].mem
                /\ ops'[n].type = ops[n].type /\ ops'[n].dev = ops[n].dev
<1>1. \A n \in DOMAIN ops : ops[n] \in Op
  OBVIOUS
<1>2. \A n \in DOMAIN ops : ops'[n] \in Op
  BY <1>1 DEF Marked, Op
<1>3. DOMAIN ops' = DOMAIN ops /\ ops' = [n \in DOMAIN ops |-> ops'[n]]
  BY DEF Marked
<1>4. Stay
  BY <1>2, <1>3, SeqLike DEF Stay
<1> QED
  BY <1>1, <1>4 DEF Marked, Op

LEMMA FreeIs ==
    ASSUME ops \in Seq(Op), NEW ns, NEW unanswered, Free(ns, unanswered)
    PROVE  /\ Stay
           /\ \A n \in DOMAIN ops :
                /\ ops'[n].mem = IF n \in ns THEN "freed" ELSE ops[n].mem
                /\ n \notin ns \ unanswered =>
                        ops'[n].type = ops[n].type /\ ops'[n].dev = ops[n].dev
<1>1. \A n \in DOMAIN ops : ops[n] \in Op
  OBVIOUS
<1>2. \A n \in DOMAIN ops : ops'[n] \in Op
  BY <1>1 DEF Free, Gone, Op, Mems, Types
<1>3. DOMAIN ops' = DOMAIN ops /\ ops' = [n \in DOMAIN ops |-> ops'[n]]
  BY DEF Free
<1>4. Stay
  BY <1>2, <1>3, SeqLike DEF Stay
<1> QED
  BY <1>1, <1>4 DEF Free, Gone, Op

LEMMA FreeDevicesIs ==
    ASSUME ops \in Seq(Op), cache \in [Devices -> {"absent", "known", "open"}], NEW ds,
           NEW how \in {"purged", "unreachable", "closed"}, FreeDevices(ds, how)
    PROVE  /\ Stay
           /\ \A n \in DOMAIN ops :
                /\ ops'[n].mem = ops[n].mem
                /\ ops'[n].type = ops[n].type /\ ops'[n].dev = ops[n].dev
           /\ cache' \in [Devices -> {"absent", "known", "open"}]
           /\ \A d \in Devices : d \notin ds => cache'[d] = cache[d]
<1>1. \A n \in DOMAIN ops : ops[n] \in Op
  OBVIOUS
<1>2. \A n \in DOMAIN ops : ops'[n] \in Op
  BY <1>1 DEF FreeDevices, Op
<1>3. DOMAIN ops' = DOMAIN ops /\ ops' = [n \in DOMAIN ops |-> ops'[n]]
  BY DEF FreeDevices
<1>4. Stay
  BY <1>2, <1>3, SeqLike DEF Stay
<1>5. /\ cache' \in [Devices -> {"absent", "known", "open"}]
      /\ \A d \in Devices : d \notin ds => cache'[d] = cache[d]
  BY DEF FreeDevices
<1> QED
  BY <1>1, <1>4, <1>5 DEF FreeDevices, Op

LEMMA AnsweredIs ==
    ASSUME ops \in Seq(Op), PendingInv, NEW n \in pending, Answered(n)
    PROVE  /\ Stay /\ pending' = pending \ {n}
           /\ \A m \in DOMAIN ops :
                /\ ops'[m].mem = ops[m].mem
                /\ m # n => ops'[m] = ops[m]
<1>1. n \in DOMAIN ops /\ ops[n].mem = "freed" /\ \A m \in DOMAIN ops : ops[m] \in Op
  BY DEF PendingInv
<1>2. ops' = [ops EXCEPT ![n] = Gone] /\ pending' = pending \ {n}
  BY <1>1 DEF Answered
<1>3. \A m \in DOMAIN ops : ops'[m] \in Op
  BY <1>1, <1>2 DEF Gone, Op, Mems, Types
<1>4. DOMAIN ops' = DOMAIN ops /\ ops' = [m \in DOMAIN ops |-> ops'[m]]
  BY <1>2
<1>5. Stay
  BY <1>3, <1>4, SeqLike DEF Stay
<1>6. \A m \in DOMAIN ops : ops'[m].mem = ops[m].mem
  BY <1>1, <1>2 DEF Gone
<1> QED
  BY <1>2, <1>5, <1>6

LEMMA EnqueuedIs ==
    ASSUME ops \in Seq(Op), NEW type \in Types, NEW d \in Devices,
           ops' = Append(ops, Operation(type, d))
    PROVE  /\ ops' \in Seq(Op) /\ Len(ops') = Len(ops) + 1
           /\ DOMAIN ops' = DOMAIN ops \cup {Len(ops) + 1} /\ Len(ops) + 1 \notin DOMAIN ops
           /\ \A n \in DOMAIN ops : ops'[n] = ops[n]
           /\ ops'[Len(ops) + 1].mem = "taken" /\ ops'[Len(ops) + 1].dev = d
<1> DEFINE o == Operation(type, d)
<1>1. o \in Op /\ o.mem = "taken" /\ o.dev = d
  BY DEF Operation, Op, Mems
<1> HIDE DEF o
<1>2. ops' = Append(ops, o)
  BY DEF o
<1>3. /\ ops' \in Seq(Op) /\ Len(ops') = Len(ops) + 1
      /\ \A n \in 1 .. Len(ops) : ops'[n] = ops[n]
      /\ ops'[Len(ops) + 1] = o
  BY <1>1, <1>2, AppendProperties
<1>4. DOMAIN ops = 1 .. Len(ops) /\ DOMAIN ops' = 1 .. Len(ops') /\ Len(ops) \in Nat
  BY <1>3
<1> QED
  BY <1>1, <1>3, <1>4

LEMMA TaskIs ==
    ASSUME task \in [Tasks -> Locals], NEW p \in Tasks, NEW t \in Locals, Becomes(p, t)
    PROVE  /\ task' \in [Tasks -> Locals]
           /\ task'[p] = t /\ \A q \in Tasks : q # p => task'[q] = task[q]
           /\ raced' = (raced \/ Overlap')
  BY DEF Becomes

----------------------------------------------------------------------------
(* The steps of the tasks                                                  *)
Acts(p) ==
    /\ task' \in [Tasks -> Locals]
    /\ \A q \in Tasks : q # p => task'[q] = task[q]
    /\ raced' = (raced \/ Overlap')

(* Only the place is new.                                                  *)
Turns(p, pc) ==
    /\ Acts(p) /\ task'[p].pc = pc
    /\ task'[p].op = task[p].op /\ task'[p].last = task[p].last /\ task'[p].dev = task[p].dev
    /\ task'[p].ok = task[p].ok /\ task'[p].hold = task[p].hold

(* The locals are new, too.                                                *)
Starts(p, pc) == Acts(p) /\ task'[p].pc = pc /\ task'[p].hold = {}

AllPlaces == AppPlaces \cup BtPlaces

LEMMA PlacesAre ==
    AllPlaces = {"idle", "walk", "link", "check", "remove", "close", "start_scanning",
                 "remove_connects", "unrequest", "stop_scanning", "dequeue", "unlink", "stop",
                 "open", "request", "resume", "opened", "closed"}
  BY DEF AllPlaces, AppPlaces, BtPlaces, DequeuePlaces

LEMMA GoesToIs ==
    ASSUME TaskInv, NEW p \in Tasks, NEW pc \in AllPlaces, GoesTo(p, pc)
    PROVE  Turns(p, pc)
<1> DEFINE t == [task[p] EXCEPT !.pc = pc]
<1>1. task[p] \in Locals
  BY DEF TaskInv
<1>2. /\ t \in Locals /\ t.pc = pc /\ t.op = task[p].op /\ t.last = task[p].last
      /\ t.dev = task[p].dev /\ t.ok = task[p].ok /\ t.hold = task[p].hold
  BY <1>1 DEF Locals, AllPlaces
<1> HIDE DEF t
<1>3. Becomes(p, t)
  BY DEF GoesTo, t
<1> QED
  BY <1>2, <1>3, TaskIs DEF Turns, Acts, TaskInv

LEMMA IdleIs ==
    ASSUME TaskInv, NEW p \in Tasks, Becomes(p, Idle)
    PROVE  Starts(p, "idle")
<1>1. Idle \in Locals /\ Idle.pc = "idle" /\ Idle.hold = {}
  BY DEF Idle, Locals, AppPlaces
<1> QED
  BY <1>1, TaskIs DEF Starts, Acts, TaskInv

(* Each call, callback or timer begins with locals of its own.             *)
LEMMA BeginIs ==
    ASSUME TaskInv, NEW p \in Tasks, NEW t \in Locals, t.hold = {}, Becomes(p, t)
    PROVE  Starts(p, t.pc) /\ task'[p] = t
  BY TaskIs DEF Starts, Acts, TaskInv

LEMMA OpsType ==
    ASSUME TypeOK
    PROVE  /\ ops \in Seq(Op) /\ Len(ops) \in Nat /\ DOMAIN ops = 1 .. Len(ops)
           /\ \A n \in DOMAIN ops : ops[n] \in Op
<1>1. ops \in Seq(Op)
  BY DEF TypeOK, Op, Mems
<1> QED
  BY <1>1

LEMMA EnqueueIs ==
    ASSUME TypeOK, TaskInv, NEW type \in Types, NEW d \in Devices, Enqueue(type, d)
    PROVE  /\ task["app"].pc = "idle"
           /\ Starts("app", "walk") /\ task'["app"].op = Len(ops) + 1
           /\ ops' = Append(ops, Operation(type, d)) /\ Len(ops) < MaxOps
           /\ UNCHANGED <<cache, queue, timer_active, scanVars, linkVars, ub>>
<1>0. PICK n \in Nat : n = Len(ops) + 1
  BY OpsType
<1> DEFINE t == [Idle EXCEPT !.pc = "walk", !.op = n]
<1>1. t \in Locals /\ t.pc = "walk" /\ t.op = n /\ t.hold = {}
  BY DEF Idle, Locals, AppPlaces
<1>2. Becomes("app", t)
  BY <1>0 DEF Enqueue
<1> HIDE DEF t
<1>3. Starts("app", "walk") /\ task'["app"].op = Len(ops) + 1
  BY <1>0, <1>1, <1>2, BeginIs DEF Tasks
<1> QED
  BY <1>3 DEF Enqueue, At

LEMMA EnqueueWalkIs ==
    ASSUME TypeOK, TaskInv, EnqueueWalk
    PROVE  /\ Acts("app") /\ task["app"].pc = "walk" /\ task'["app"].pc = "link"
           /\ task'["app"].op = task["app"].op /\ task'["app"].hold = task["app"].hold
           /\ IF queue = {} THEN task'["app"].last = 0 ELSE task'["app"].last \in queue
           /\ UNCHANGED <<cache, queueVars, timer_active, scanVars, linkVars, ub>>
<1> DEFINE l == IF queue = {} THEN 0 ELSE Max(queue)
           t == [task["app"] EXCEPT !.pc = "link", !.last = l]
<1>1. l \in Nat /\ (IF queue = {} THEN l = 0 ELSE l \in queue)
  <2>1. queue \in SUBSET (1 .. Len(ops)) /\ Len(ops) \in Nat
    BY OpsType DEF TypeOK
  <2>2. CASE queue = {}
    BY <2>2
  <2>3. CASE queue # {}
    <3>1. Max(queue) \in queue
      BY <2>1, <2>3, MinMax
    <3>2. \A n \in queue : n \in Nat
      BY <2>1
    <3>3. l = Max(queue)
      BY <2>3
    <3> QED
      BY <2>3, <3>1, <3>2, <3>3
  <2> QED
    BY <2>2, <2>3
<1> HIDE DEF l
<1>2. task["app"] \in Locals /\ "app" \in Tasks
  BY DEF TaskInv, Tasks
<1>3. /\ t \in Locals /\ t.pc = "link" /\ t.op = task["app"].op /\ t.hold = task["app"].hold
      /\ t.last = l
  BY <1>1, <1>2 DEF Locals, AppPlaces
<1>4. Becomes("app", t)
  BY DEF EnqueueWalk, l
<1> HIDE DEF t
<1>5. Acts("app") /\ task'["app"] = t
  BY <1>2, <1>3, <1>4, TaskIs DEF Acts, TaskInv
<1> QED
  BY <1>1, <1>3, <1>5 DEF EnqueueWalk, At

LEMMA EnqueueLinkIs ==
    ASSUME TypeOK, TaskInv, EnqueueLink
    PROVE  /\ task["app"].pc = "link"
           /\ \/ /\ task["app"].last # 0 => ops[task["app"].last].mem = "queued"
                 /\ queue' = queue \cup {task["app"].op}
                 /\ ops' = Marked({task["app"].op}, "queued")
                 /\ Turns("app", "check")
                 /\ UNCHANGED <<cache, timer_active, scanVars, linkVars, ub>>
              \/ /\ task["app"].last # 0 /\ ops[task["app"].last].mem = "taken"
                 /\ ops' = Marked({task["app"].op}, "lost")
                 /\ Turns("app", "check")
                 /\ UNCHANGED <<cache, queue, timer_active, scanVars, linkVars, ub>>
              \/ /\ task["app"].last # 0 /\ ops[task["app"].last].mem = "freed"
                 /\ Fault("queue")
<1>1. "check" \in AllPlaces /\ "app" \in Tasks
  BY PlacesAre DEF Tasks
<1>2. GoesTo("app", "check") => Turns("app", "check")
  BY <1>1, GoesToIs
<1>3. At("app", "link")
  BY DEF EnqueueLink
<1>4. task["app"].last # 0 => ops[task["app"].last].mem \in {"taken", "queued", "lost", "freed"}
  BY <1>3, OpsType DEF TaskInv, Op, Mems, At
<1>5. CASE task["app"].last = 0
  BY <1>2, <1>3, <1>5 DEF EnqueueLink, At
<1>6. CASE task["app"].last # 0
  BY <1>2, <1>3, <1>4, <1>6 DEF EnqueueLink, At
<1> QED
  BY <1>5, <1>6

LEMMA EnqueueCheckIs ==
    ASSUME TypeOK, TaskInv, EnqueueCheck
    PROVE  /\ task["app"].pc = "check"
           /\ \/ queue = {} /\ Fault("queue")
              \/ /\ queue # {} /\ Starts("app", "idle")
                 /\ timer_active' = (timer_active \/ Cardinality(queue) = 1)
                 /\ UNCHANGED <<cache, queueVars, scanVars, linkVars, ub>>
<1>1. Becomes("app", Idle) => Starts("app", "idle")
  BY IdleIs DEF Tasks
<1> QED
  BY <1>1 DEF EnqueueCheck, At

LEMMA DisconnectIs ==
    ASSUME TypeOK, TaskInv, Disconnect
    PROVE  /\ task["app"].pc = "idle" /\ Starts("app", "remove") /\ task'["app"].dev \in Devices
           /\ UNCHANGED <<cache, queueVars, timer_active, scanVars, linkVars, ub>>
<1>1. PICK ds \in SUBSET Devices, d \in Devices :
          Becomes("app", [Idle EXCEPT !.pc = "remove", !.dev = d, !.devs = ds \ {d}])
  BY DEF Disconnect
<1> DEFINE t == [Idle EXCEPT !.pc = "remove", !.dev = d, !.devs = ds \ {d}]
<1>2. t \in Locals /\ t.pc = "remove" /\ t.dev = d /\ t.hold = {}
  BY DEF Idle, Locals, AppPlaces
<1>3. Becomes("app", t)
  BY <1>1
<1> HIDE DEF t
<1>4. Starts("app", "remove") /\ task'["app"].dev = d
  BY <1>2, <1>3, BeginIs DEF Tasks
<1> QED
  BY <1>4 DEF Disconnect, At

LEMMA DisconnectCloseIs ==
    ASSUME TypeOK, TaskInv, DisconnectClose
    PROVE  /\ task["app"].pc = "close" /\ Acts("app")
           /\ \/ task'["app"].pc = "idle"
              \/ task'["app"].pc = "remove" /\ task'["app"].dev \in Devices
           /\ task'["app"].hold = {} \/ task'["app"].hold = task["app"].hold
           /\ link' \subseteq link /\ closing' \subseteq closing \cup link
           /\ closing' \cap link' \subseteq closing \cap link
           /\ UNCHANGED <<cache, queueVars, timer_active, scanVars, pending, ignored, ub>>
<1> DEFINE t == task["app"]
<1>1. t \in Locals /\ "app" \in Tasks
  BY DEF TaskInv, Tasks
<1>2. CASE Becomes("app", Idle)
  BY <1>1, <1>2, IdleIs DEF DisconnectClose, At, Starts
<1>3. CASE \E d \in t.devs :
             Becomes("app", [t EXCEPT !.pc = "remove", !.dev = d, !.devs = @ \ {d}])
  <2>1. PICK d \in t.devs :
             Becomes("app", [t EXCEPT !.pc = "remove", !.dev = d, !.devs = @ \ {d}])
    BY <1>3
  <2> DEFINE u == [t EXCEPT !.pc = "remove", !.dev = d, !.devs = @ \ {d}]
  <2>2. u \in Locals /\ u.pc = "remove" /\ u.dev \in Devices /\ u.hold = t.hold
    BY <1>1 DEF Locals, AppPlaces
  <2>3. Becomes("app", u)
    BY <2>1
  <2> HIDE DEF u
  <2>4. Acts("app") /\ task'["app"] = u
    BY <1>1, <2>2, <2>3, TaskIs DEF Acts, TaskInv
  <2> QED
    BY <2>2, <2>4 DEF DisconnectClose, At
<1> QED
  BY <1>2, <1>3 DEF DisconnectClose

----------------------------------------------------------------------------
(* What a step must respect for each part of the invariant to hold again   *)
OpsOK ==
    /\ ops \in Seq(Op) /\ Len(ops) <= MaxOps
    /\ queue = {n \in DOMAIN ops : ops[n].mem = "queued"}
    /\ pending \subseteq DOMAIN ops

MemoryInv == OpsOK /\ HandInv /\ PendingInv /\ OpsInv

NewlyLost == \E n \in DOMAIN ops' : ops'[n].mem = "lost" /\ ~(n \in DOMAIN ops /\ ops[n].mem = "lost")

LEMMA IsMemory ==
    ASSUME IInv
    PROVE  MemoryInv
  BY OpsType DEF IInv, TypeOK, MemoryInv, OpsOK

(* What the other tasks have in hand they still have.                      *)
LEMMA HandStep ==
    ASSUME HandInv, NEW p \in Tasks, Acts(p),
           \A n \in Hand(p)' : /\ n \in DOMAIN ops' /\ ops'[n].mem = "taken"
                               /\ n \in Hand(p) \/ \A q \in Tasks : n \notin Hand(q),
           \A q \in Tasks : q # p =>
               \A n \in Hand(q) : /\ n \in DOMAIN ops' /\ ops'[n].mem = "taken"
                                  /\ ops'[n].type = ops[n].type,
           p = "app" => task'[p].hold = {},
           p \in Dequeuers =>
               /\ task'[p].pc \in {"stop", "open"} => ops'[task'[p].op].type = "CONNECT"
               /\ task'[p].pc = "request" => ops'[task'[p].op].type # "CONNECT"
    PROVE  HandInv'
<1>1. \A q \in Tasks : q # p => task'[q] = task[q] /\ Hand(q)' = Hand(q)
  BY DEF Acts, Hand
<1>2. \A q \in Tasks : \A n \in Hand(q)' : n \in DOMAIN ops' /\ ops'[n].mem = "taken"
  BY <1>1
<1>3. \A q, r \in Tasks : q # r => Hand(q)' \cap Hand(r)' = {}
  BY <1>1 DEF HandInv
<1>4. task'["app"].hold = {}
  BY <1>1 DEF HandInv, Tasks
<1>5. \A q \in Dequeuers : q # p =>
         /\ task'[q].pc \in {"stop", "open"} => ops'[task'[q].op].type = "CONNECT"
         /\ task'[q].pc = "request" => ops'[task'[q].op].type # "CONNECT"
  <2> SUFFICES ASSUME NEW q \in Dequeuers, q # p, task'[q].pc \in {"stop", "open", "request"}
               PROVE  ops'[task'[q].op].type = ops[task[q].op].type /\ task'[q] = task[q]
    BY DEF HandInv
  <2>1. q \in Tasks /\ task'[q] = task[q]
    BY <1>1 DEF Tasks, Dequeuers
  <2>2. task[q].op \in Hand(q)
    BY <2>1 DEF Hand
  <2> QED
    BY <2>1, <2>2
<1> QED
  BY <1>2, <1>3, <1>4, <1>5 DEF HandInv

(* The memory as it was, but for answers that arrive and devices that go.  *)
Quiet ==
    /\ Stay /\ queue' = queue /\ pending' \subseteq pending
    /\ \A n \in DOMAIN ops :
         /\ ops'[n].mem = ops[n].mem
         /\ ops[n].mem # "freed" \/ n \in pending' =>
                ops'[n].type = ops[n].type /\ ops'[n].dev = ops[n].dev

LEMMA QuietStep ==
    ASSUME MemoryInv, NEW p \in Tasks, Acts(p), Quiet, Hand(p)' \subseteq Hand(p),
           p = "app" => task'[p].hold = {},
           p \in Dequeuers /\ task'[p].pc \in {"stop", "open", "request"} =>
               /\ task'[p].pc = "open" /\ task[p].pc \in {"stop", "open"}
               /\ task'[p].op = task[p].op
    PROVE  MemoryInv' /\ ~NewlyLost
<1>1. OpsOK'
  BY DEF MemoryInv, OpsOK, Quiet, Stay
<1>2. PendingInv' /\ OpsInv' /\ ~NewlyLost
  BY DEF MemoryInv, PendingInv, OpsInv, Quiet, Stay, NewlyLost
<1>3. \A q \in Tasks : \A n \in Hand(q) :
         /\ n \in DOMAIN ops' /\ ops'[n].mem = "taken"
         /\ ops'[n].type = ops[n].type
  BY DEF MemoryInv, HandInv, Quiet, Stay
<1>4. p \in Dequeuers =>
         /\ task'[p].pc \in {"stop", "open"} => ops'[task'[p].op].type = "CONNECT"
         /\ task'[p].pc # "request"
  <2> SUFFICES ASSUME p \in Dequeuers, task'[p].pc \in {"stop", "open", "request"}
               PROVE  ops'[task'[p].op].type = "CONNECT" /\ task'[p].pc # "request"
    OBVIOUS
  <2>1. task[p].op \in Hand(p)
    BY DEF Hand
  <2> QED
    BY <1>3, <2>1 DEF MemoryInv, HandInv
<1>5. HandInv'
  BY <1>3, <1>4, HandStep DEF MemoryInv
<1> QED
  BY <1>1, <1>2, <1>5 DEF MemoryInv

(* A task frees what it has in hand, and some of it waits for an answer.   *)
LEMMA FreeingStep ==
    ASSUME MemoryInv, NEW p \in Tasks, Acts(p), NEW ns \in SUBSET Hand(p),
           Free(ns, pending'), queue' = queue, Hand(p)' = {},
           pending \subseteq pending',
           \A n \in pending' \ pending : n \in ns /\ ops[n].type # "WRITE_CHAR",
           p = "app" => task'[p].hold = {},
           task'[p].pc = "idle"
    PROVE  MemoryInv' /\ ~NewlyLost /\ DOMAIN ops' = DOMAIN ops
           /\ \A n \in pending : ops'[n].type = ops[n].type
<1>1. /\ Stay
      /\ \A n \in DOMAIN ops :
           /\ ops'[n].mem = IF n \in ns THEN "freed" ELSE ops[n].mem
           /\ n \notin ns \ pending' =>
                   ops'[n].type = ops[n].type /\ ops'[n].dev = ops[n].dev
  BY FreeIs DEF MemoryInv, OpsOK
<1>2. \A n \in ns : n \in DOMAIN ops /\ ops[n].mem = "taken"
  BY DEF MemoryInv, HandInv
<1>3. OpsOK'
  BY <1>1, <1>2 DEF MemoryInv, OpsOK, Stay
<1>4. PendingInv' /\ OpsInv' /\ ~NewlyLost
  <2>1. OpsInv' /\ ~NewlyLost
    BY <1>1 DEF MemoryInv, OpsInv, Stay, NewlyLost
  <2>2. ASSUME NEW n \in pending'
        PROVE  /\ n \in DOMAIN ops' /\ ops'[n].mem = "freed"
               /\ ops'[n].dev \in Devices /\ ops'[n].type # "WRITE_CHAR"
    <3>1. CASE n \in pending
      <4>1. n \in DOMAIN ops /\ ops[n].mem = "freed" /\ ops[n].dev \in Devices
            /\ ops[n].type # "WRITE_CHAR"
        BY <3>1 DEF MemoryInv, PendingInv
      <4> QED
        BY <1>1, <4>1 DEF Stay
    <3>2. CASE n \notin pending
      <4>1. n \in ns /\ n \in DOMAIN ops /\ ops[n].dev \in Devices /\ ops[n].type # "WRITE_CHAR"
        BY <1>2, <3>2 DEF MemoryInv, OpsInv
      <4> QED
        BY <1>1, <4>1 DEF Stay
    <3> QED
      BY <3>1, <3>2
  <2> QED
    BY <2>1, <2>2 DEF PendingInv
<1>5. \A q \in Tasks : q # p =>
         \A n \in Hand(q) : /\ n \in DOMAIN ops' /\ ops'[n].mem = "taken"
                            /\ ops'[n].type = ops[n].type
  <2> SUFFICES ASSUME NEW q \in Tasks, q # p, NEW n \in Hand(q)
               PROVE  /\ n \in DOMAIN ops' /\ ops'[n].mem = "taken"
                      /\ ops'[n].type = ops[n].type
    OBVIOUS
  <2>1. n \in DOMAIN ops /\ ops[n].mem = "taken" /\ n \notin ns
    BY DEF MemoryInv, HandInv
  <2> QED
    BY <1>1, <2>1 DEF Stay
<1>6. HandInv'
  BY <1>5, HandStep DEF MemoryInv
<1>7. \A n \in pending : ops'[n].type = ops[n].type
  BY <1>1 DEF MemoryInv, PendingInv
<1> QED
  BY <1>1, <1>3, <1>4, <1>6, <1>7 DEF MemoryInv, Stay

(* Operations are freed from the queue.                                    *)
LEMMA RemovingStep ==
    ASSUME MemoryInv, NEW p \in Tasks, Acts(p), NEW ns \in SUBSET queue,
           RemoveQueued(ns), pending' = pending, Hand(p)' \subseteq Hand(p),
           p = "app" => task'[p].hold = {},
           task'[p].pc \notin {"stop", "open", "request"}
    PROVE  MemoryInv' /\ ~NewlyLost /\ queue' \subseteq queue /\ DOMAIN ops' = DOMAIN ops
           /\ \A n \in pending : ops'[n].type = ops[n].type
<1>1. /\ Stay
      /\ \A n \in DOMAIN ops :
           /\ ops'[n].mem = IF n \in ns THEN "freed" ELSE ops[n].mem
           /\ n \notin ns \ pending =>
                   ops'[n].type = ops[n].type /\ ops'[n].dev = ops[n].dev
  BY FreeIs DEF MemoryInv, OpsOK, RemoveQueued
<1>2. queue' = queue \ ns
  BY DEF RemoveQueued
<1>3. OpsOK'
  BY <1>1, <1>2 DEF MemoryInv, OpsOK, Stay
<1>4. PendingInv' /\ OpsInv' /\ ~NewlyLost
  BY <1>1 DEF MemoryInv, PendingInv, OpsInv, Stay, NewlyLost
<1>5. \A q \in Tasks : \A n \in Hand(q) : /\ n \in DOMAIN ops' /\ ops'[n].mem = "taken"
                            /\ ops'[n].type = ops[n].type
  <2> SUFFICES ASSUME NEW q \in Tasks, NEW n \in Hand(q)
               PROVE  /\ n \in DOMAIN ops' /\ ops'[n].mem = "taken"
                      /\ ops'[n].type = ops[n].type
    OBVIOUS
  <2>1. n \in DOMAIN ops /\ ops[n].mem = "taken"
    BY DEF MemoryInv, HandInv
  <2>2. n \notin ns
    BY <2>1 DEF MemoryInv, OpsOK
  <2> QED
    BY <1>1, <2>1, <2>2 DEF Stay
<1>6. HandInv'
  BY <1>5, HandStep DEF MemoryInv
<1> QED
  BY <1>1, <1>2, <1>3, <1>4, <1>6 DEF MemoryInv, Stay, PendingInv

(* The tasks' places: those of the one that acts are for it to show.       *)
LEMMA TaskStep ==
    ASSUME TaskInv, NEW p \in Tasks, Acts(p), DOMAIN ops \subseteq DOMAIN ops',
           p = "app" =>
               /\ task'[p].pc \in AppPlaces
               /\ task'[p].pc \in {"remove", "close"} => task'[p].dev \in Devices
               /\ task'[p].pc \in {"walk", "link", "check"} => task'[p].op \in DOMAIN ops'
               /\ task'[p].pc = "link" => task'[p].last \in DOMAIN ops' \cup {0},
           p = "timer" => task'[p].pc \in DequeuePlaces,
           p = "bt" =>
               /\ task'[p].pc \in BtPlaces
               /\ task'[p].pc \in {"resume", "opened", "remove", "closed"} =>
                        task'[p].dev \in Devices,
           p \in Dequeuers /\ task'[p].pc = "unlink" => task'[p].op \in DOMAIN ops'
    PROVE  TaskInv'
<1>1. CASE p = "app"
  <2>1. task'["bt"] = task["bt"] /\ task'["timer"] = task["timer"]
    BY <1>1 DEF Acts, Tasks
  <2> QED
    BY <1>1, <2>1 DEF TaskInv, Acts, Dequeuers
<1>2. CASE p = "bt"
  <2>1. task'["app"] = task["app"] /\ task'["timer"] = task["timer"]
    BY <1>2 DEF Acts, Tasks
  <2> QED
    BY <1>2, <2>1 DEF TaskInv, Acts, Dequeuers
<1>3. CASE p = "timer"
  <2>1. task'["app"] = task["app"] /\ task'["bt"] = task["bt"]
    BY <1>3 DEF Acts, Tasks
  <2> QED
    BY <1>3, <2>1 DEF TaskInv, Acts, Dequeuers
<1> QED
  BY <1>1, <1>2, <1>3 DEF Tasks

(* What a task that is on the queue alone can rely on.                     *)
Own(p) ==
    /\ p = "app" /\ task[p].pc = "link" =>
           IF task[p].last = 0 THEN queue = {} ELSE task[p].last \in queue
    /\ p = "app" /\ task[p].pc = "check" => task[p].op \in queue
    /\ p \in Dequeuers /\ task[p].pc = "unlink" => task[p].op \in queue

LEMMA Alone ==
    ASSUME QueueInv, ~raced, NEW p \in Tasks
    PROVE  ub # "queue" /\ Own(p)
  BY DEF QueueInv, Own

LEMMA QueueStep ==
    ASSUME QueueInv, NEW p \in Tasks, Acts(p), queue' = queue \/ Busy(p),
           ~raced => ub' # "queue" /\ ~NewlyLost /\ Own(p)'
    PROVE  QueueInv'
<1>1. raced' = (raced \/ Overlap') /\ (Overlap => raced)
  BY DEF Acts, QueueInv
<1> SUFFICES ASSUME ~raced'
             PROVE  /\ ub' # "queue"
                    /\ \A n \in DOMAIN ops' : ops'[n].mem # "lost"
                    /\ \A q \in Tasks : Own(q)'
  BY <1>1 DEF QueueInv, Own, Tasks, Dequeuers
<1>2. ~raced /\ ~Overlap /\ \A q \in Tasks : Own(q)
  BY <1>1, Alone
<1>3. ASSUME NEW q \in Tasks, q # p
      PROVE  Own(q)'
  <2>1. task'[q] = task[q]
    BY <1>3 DEF Acts
  <2>2. CASE queue' = queue
    BY <1>2, <2>1, <2>2 DEF Own
  <2>3. CASE Busy(p)
    <3>1. ~Busy(q)
      BY <1>2, <1>3, <2>3 DEF Overlap
    <3> QED
      BY <2>1, <3>1 DEF Own, Busy, OnQueue
  <2> QED
    BY <2>2, <2>3
<1> QED
  BY <1>2, <1>3 DEF QueueInv, NewlyLost

(* Who takes the next operation is still there.                            *)
LEMMA PumpStep ==
    ASSUME PumpInv, NEW p \in Tasks, Acts(p), ub' = ub,
           \/ Taking' \/ pending' # {} \/ ignored' \/ queue' = {}
           \/ /\ queue' \ Linked' \subseteq queue \ Linked
              /\ p \in Dequeuers => task[p].pc \in {"idle", "remove", "closed"}
              /\ timer_active => timer_active'
              /\ pending # {} => pending' # {}
              /\ ignored => ignored'
    PROVE  PumpInv'
<1> SUFFICES ASSUME ub' = "none", queue' \ Linked' # {}
             PROVE  Taking' \/ pending' # {} \/ ignored'
  BY DEF PumpInv
<1>1. CASE /\ queue' \ Linked' \subseteq queue \ Linked
           /\ p \in Dequeuers => task[p].pc \in {"idle", "remove", "closed"}
           /\ timer_active => timer_active'
           /\ pending # {} => pending' # {}
           /\ ignored => ignored'
  <2>1. Taking \/ pending # {} \/ ignored
    BY <1>1 DEF PumpInv
  <2>2. ASSUME Taking, ~timer_active
        PROVE  Taking'
    <3>1. PICK q \in Dequeuers :
             task[q].pc \in {"resume", "opened", "dequeue", "unlink", "stop", "open", "request"}
      BY <2>2 DEF Taking
    <3>2. q # p
      BY <1>1, <3>1
    <3>3. task'[q] = task[q]
      BY <3>2 DEF Acts, Tasks, Dequeuers
    <3> QED
      BY <3>1, <3>3 DEF Taking
  <2> QED
    BY <1>1, <2>1, <2>2 DEF Taking
<1> QED
  BY <1>1

(* Links stay in the cache.                                                *)
LEMMA LinkStep ==
    ASSUME LinkInv, ub = "none", NEW p \in Tasks, Acts(p), link' \subseteq link,
           \A d \in link : cache[d] = "open" => cache'[d] = "open",
           p = "bt" => /\ task[p].pc \notin {"resume", "opened"}
                       /\ task'[p].pc \notin {"resume", "opened", "remove", "closed"}
    PROVE  LinkInv'
<1>1. CASE p = "bt"
  BY <1>1 DEF LinkInv, LinksKnown
<1>2. CASE p # "bt"
  <2>1. task'["bt"] = task["bt"]
    BY <1>2 DEF Acts, Tasks
  <2> QED
    BY <2>1 DEF LinkInv, LinksKnown
<1> QED
  BY <1>1, <1>2

(* Scanning is on, or somebody will turn it on.                            *)
LEMMA ScanStep ==
    ASSUME ScanInv, NEW p \in Tasks, Acts(p), scan_requested' = scan_requested,
           scanning => scanning',
           \A n \in pending : ops[n].type = "CONNECT" =>
               (n \in pending' /\ ops'[n].type = "CONNECT") \/ task'["bt"].pc = "resume",
           p = "app" => /\ task'[p].pc # "stop_scanning"
                        /\ task[p].pc # "start_scanning",
           p \in Dequeuers => task[p].pc \notin {"open", "resume"}
    PROVE  ScanInv'
<1>1. \A q \in Tasks : q # p => task'[q] = task[q]
  BY DEF Acts
<1>2. task'["app"].pc = "stop_scanning" => ~scan_requested
  BY <1>1 DEF ScanInv, Tasks
<1>3. ASSUME scan_requested', task'["app"].pc # "start_scanning"
      PROVE  \/ scanning'
             \/ \E n \in pending' : ops'[n].type = "CONNECT"
             \/ \E q \in Dequeuers : task'[q].pc \in {"open", "resume"}
  <2>1. task["app"].pc # "start_scanning"
    BY <1>1, <1>3 DEF Tasks
  <2>2. \/ scanning
        \/ \E n \in pending : ops[n].type = "CONNECT"
        \/ \E q \in Dequeuers : task[q].pc \in {"open", "resume"}
    BY <1>3, <2>1 DEF ScanInv, RequestedScanResumes
  <2>3. \A q \in Dequeuers : task[q].pc \in {"open", "resume"} => task'[q] = task[q]
    BY <1>1 DEF Tasks, Dequeuers
  <2> QED
    BY <2>2, <2>3 DEF Dequeuers
<1> QED
  BY <1>2, <1>3 DEF ScanInv, RequestedScanResumes

LEMMA TypeStep ==
    ASSUME TypeOK, MemoryInv', NEW p \in Tasks, Acts(p),
           cache' \in [Devices -> {"absent", "known", "open"}],
           timer_active' \in BOOLEAN, scan_requested' \in BOOLEAN, scanning' \in BOOLEAN,
           ignored' \in BOOLEAN, link' \subseteq Devices, closing' \subseteq Devices \ link',
           ub' \in {"none", "queue", "device"}
    PROVE  TypeOK'
<1>1. raced' \in BOOLEAN
  BY ONLY Acts(p), Zenon DEF Acts
<1>2. DOMAIN task' = Tasks
  BY DEF Acts
<1> QED
  BY <1>1, <1>2 DEF TypeOK, MemoryInv, OpsOK, Op, Mems

LEMMA Together ==
    ASSUME TypeOK', TaskInv', MemoryInv', QueueInv', PumpInv', LinkInv', ScanInv'
    PROVE  IInv'
  BY DEF IInv, MemoryInv

(* The end of the behaviour: memory has been used that is not there.       *)
LEMMA FaultStep ==
    ASSUME IInv, NEW memory \in {"queue", "device"}, memory = "queue" => raced, Fault(memory)
    PROVE  IInv'
<1>1. /\ UNCHANGED <<cache, ops, queue, timer_active, scan_requested, scanning>>
      /\ UNCHANGED <<link, closing, pending, ignored, task, raced>>
      /\ ub' = memory
  BY DEF Fault, queueVars, scanVars, linkVars
<1>2. TypeOK'
  BY <1>1 DEF IInv, TypeOK
<1>3. TaskInv'
  BY <1>1 DEF IInv, TaskInv
<1>4. MemoryInv'
  BY <1>1, IsMemory DEF MemoryInv, OpsOK, HandInv, Hand, PendingInv, OpsInv
<1>5. QueueInv'
  BY <1>1 DEF IInv, QueueInv, Overlap, Busy
<1>6. PumpInv' /\ LinkInv'
  BY <1>1 DEF IInv, PumpInv, LinkInv, LinksKnown
<1>7. ScanInv'
  BY <1>1 DEF IInv, ScanInv, RequestedScanResumes
<1> QED
  BY <1>2, <1>3, <1>4, <1>5, <1>6, <1>7, Together

LEMMA StillQuiet ==
    ASSUME IInv, UNCHANGED <<ops, queue, pending>>
    PROVE  Quiet /\ DOMAIN ops' = DOMAIN ops
  BY OpsType DEF IInv, Quiet, Stay

(* A step between calls: no task has acted.                                *)
LEMMA NobodyActs ==
    ASSUME IInv, UNCHANGED <<task, raced>>, NEW p \in Tasks
    PROVE  Acts(p) /\ task'[p] = task[p] /\ Hand(p)' = Hand(p)
<1>1. Overlap' => raced
  BY DEF IInv, QueueInv, Overlap, Busy
<1>2. raced \in BOOLEAN
  BY DEF IInv, TypeOK
<1>3. raced' = (raced \/ Overlap')
  <2>1. CASE raced = TRUE
    BY <2>1
  <2>2. CASE raced = FALSE
    BY <1>1, <2>2
  <2> QED
    BY <1>2, <2>1, <2>2
<1>4. task' \in [Tasks -> Locals] /\ Hand(p)' = Hand(p)
  BY DEF IInv, TaskInv, Hand
<1> QED
  BY <1>3, <1>4 DEF Acts

LEMMA TaskNames == Tasks = {"app", "bt", "timer"} /\ Dequeuers = {"bt", "timer"}
  BY DEF Tasks, Dequeuers

----------------------------------------------------------------------------
(* The application's steps                                                 *)

(* Nothing but the application's place and locals, the scan, links that    *)
(* are closed and the timer.                                               *)
LEMMA AppStep ==
    ASSUME IInv, ub = "none", Acts("app"),
           UNCHANGED <<cache, ops, queue, pending, ignored, ub>>,
           Hand("app")' \subseteq Hand("app"), task'["app"].hold = {},
           link' \subseteq link, closing' \subseteq Devices \ link',
           timer_active' \in BOOLEAN, scan_requested' \in BOOLEAN, scanning' \in BOOLEAN,
           TaskInv', PumpInv', ScanInv', ~raced => Own("app")'
    PROVE  IInv'
<1>1. "app" \in Tasks /\ "app" \notin Dequeuers
  BY TaskNames
<1>2. MemoryInv' /\ ~NewlyLost
  BY <1>1, StillQuiet, IsMemory, QuietStep
<1>3. TypeOK'
  BY <1>1, <1>2, TypeStep DEF IInv, TypeOK
<1>4. QueueInv'
  BY <1>1, <1>2, QueueStep DEF IInv
<1>5. LinkInv'
  BY <1>1, LinkStep DEF IInv
<1> QED
  BY <1>2, <1>3, <1>4, <1>5, Together

LEMMA EnqueueStep ==
    ASSUME IInv, NEW type \in Types, NEW d \in Devices, Enqueue(type, d)
    PROVE  IInv'
<1> DEFINE n == Len(ops) + 1
<1>1. /\ task["app"].pc = "idle" /\ ub = "none"
      /\ Starts("app", "walk") /\ task'["app"].op = n
      /\ ops' = Append(ops, Operation(type, d)) /\ Len(ops) < MaxOps
      /\ UNCHANGED <<cache, queue, timer_active, scan_requested, scanning>>
      /\ UNCHANGED <<link, closing, pending, ignored, ub>>
  BY EnqueueIs DEF IInv, Enqueue, At, scanVars, linkVars
<1>2. /\ ops' \in Seq(Op) /\ Len(ops') = Len(ops) + 1
      /\ DOMAIN ops' = DOMAIN ops \cup {n} /\ n \notin DOMAIN ops
      /\ \A m \in DOMAIN ops : ops'[m] = ops[m]
      /\ ops'[n].mem = "taken" /\ ops'[n].dev = d
  BY <1>1, OpsType, EnqueuedIs DEF IInv
<1>3. Len(ops') <= MaxOps
  BY <1>1, <1>2, OpsType, MaxOpsAssumption DEF IInv
<1> HIDE DEF n
<1>4. "app" \in Tasks /\ "app" \notin Dequeuers /\ Acts("app")
  BY <1>1, TaskNames DEF Starts
<1>5. MemoryInv
  BY IsMemory
<1>6. OpsOK'
  BY <1>1, <1>2, <1>3, <1>5 DEF MemoryInv, OpsOK
<1>7. PendingInv' /\ OpsInv' /\ ~NewlyLost
  BY <1>1, <1>2, <1>5 DEF MemoryInv, PendingInv, OpsInv, NewlyLost
<1>8. HandInv'
  <2>1. Hand("app")' = {n} /\ task'["app"].hold = {}
    BY <1>1 DEF Starts, Hand
  <2>2. \A q \in Tasks : \A m \in Hand(q) : m \in DOMAIN ops /\ ops[m].mem = "taken"
    BY <1>5 DEF MemoryInv, HandInv
  <2>3. \A q \in Tasks : n \notin Hand(q)
    BY <1>2, <2>2
  <2> QED
    BY <1>2, <1>4, <1>5, <2>1, <2>2, <2>3, HandStep DEF MemoryInv
<1>9. MemoryInv'
  BY <1>6, <1>7, <1>8 DEF MemoryInv
<1>10. TypeOK'
  BY <1>1, <1>4, <1>9, TypeStep DEF IInv, TypeOK
<1>11. TaskInv'
  BY <1>1, <1>2, <1>4, TaskStep DEF IInv, Starts, AppPlaces
<1>12. QueueInv'
  <2>1. Own("app")' /\ ub' # "queue"
    BY <1>1, <1>4 DEF Own, Starts
  <2> QED
    BY <1>1, <1>4, <1>7, <2>1, QueueStep DEF IInv
<1>13. PumpInv'
  BY <1>1, <1>4, PumpStep DEF IInv, Linked, Starts
<1>14. LinkInv'
  BY <1>1, <1>4, LinkStep DEF IInv
<1>15. ScanInv'
  <2>1. \A m \in pending : m \in pending' /\ ops'[m].type = ops[m].type
    BY <1>1, <1>2, <1>5 DEF MemoryInv, PendingInv
  <2> QED
    BY <1>1, <1>4, <2>1, ScanStep DEF IInv, Starts
<1> QED
  BY <1>9, <1>10, <1>11, <1>12, <1>13, <1>14, <1>15, Together

LEMMA EnqueueWalkStep ==
    ASSUME IInv, EnqueueWalk
    PROVE  IInv'
<1>1. /\ Acts("app") /\ task["app"].pc = "walk" /\ task'["app"].pc = "link" /\ ub = "none"
      /\ task'["app"].op = task["app"].op /\ task'["app"].hold = task["app"].hold
      /\ IF queue = {} THEN task'["app"].last = 0 ELSE task'["app"].last \in queue
      /\ UNCHANGED <<cache, ops, queue, timer_active, scan_requested, scanning>>
      /\ UNCHANGED <<link, closing, pending, ignored, ub>>
  BY EnqueueWalkIs DEF IInv, EnqueueWalk, At, scanVars, linkVars, queueVars
<1>2. "app" \in Tasks /\ "app" \notin Dequeuers /\ DOMAIN ops' = DOMAIN ops
  BY <1>1, TaskNames
<1>3. task'["app"].hold = {} /\ Hand("app")' = Hand("app")
  BY <1>1 DEF IInv, HandInv, Hand
<1>4. queue \subseteq DOMAIN ops /\ 0 \notin queue
  BY OpsType DEF IInv, TypeOK
<1>5. TaskInv'
  <2>1. task["app"].op \in DOMAIN ops
    BY <1>1 DEF IInv, TaskInv
  <2>2. task'["app"].last \in DOMAIN ops' \cup {0}
    BY <1>1, <1>2, <1>4
  <2> QED
    BY <1>1, <1>2, <2>1, <2>2, TaskStep DEF IInv, AppPlaces
<1>6. Own("app")'
  BY <1>1, <1>2, <1>4 DEF Own
<1>7. PumpInv'
  BY <1>1, <1>2, PumpStep DEF IInv, Linked
<1>8. ScanInv'
  BY <1>1, <1>2, ScanStep DEF IInv
<1>9. closing' \subseteq Devices \ link'
  BY <1>1 DEF IInv, TypeOK
<1> QED
  BY <1>1, <1>3, <1>5, <1>6, <1>7, <1>8, <1>9, AppStep DEF IInv, TypeOK

LEMMA EnqueueLinkStep ==
    ASSUME IInv, EnqueueLink
    PROVE  IInv'
<1> DEFINE n == task["app"].op
           last == task["app"].last
<1>1. /\ task["app"].pc = "link" /\ ub = "none" /\ MemoryInv
      /\ "app" \in Tasks /\ "app" \notin Dequeuers /\ "app" # "bt" /\ Busy("app")
  BY EnqueueLinkIs, TaskNames, IsMemory DEF IInv, EnqueueLink, At, Busy, OnQueue
<1>2. n \in Hand("app") /\ n \in DOMAIN ops /\ ops[n].mem = "taken"
  BY <1>1 DEF Hand, MemoryInv, HandInv
<1>3. ~raced => last = 0 \/ ops[last].mem = "queued"
  BY <1>1, Alone DEF IInv, Own, TypeOK
<1>4. ASSUME Fault("queue"), last # 0, ops[last].mem = "freed"
      PROVE  IInv'
  BY <1>3, <1>4, FaultStep
<1>5. ASSUME NEW mem \in {"queued", "lost"}, ops' = Marked({n}, mem), Turns("app", "check"),
             queue' = IF mem = "queued" THEN queue \cup {n} ELSE queue,
             mem = "lost" => raced,
             UNCHANGED <<cache, timer_active, scanVars, linkVars, ub>>
      PROVE  IInv'
  <2>1. /\ Stay
        /\ \A m \in DOMAIN ops :
             /\ ops'[m].mem = IF m \in {n} THEN mem ELSE ops[m].mem
             /\ ops'[m].type = ops[m].type /\ ops'[m].dev = ops[m].dev
    <3>1. mem \in Mems /\ ops \in Seq(Op)
      BY <1>1 DEF MemoryInv, OpsOK, Mems
    <3>2. ops' = Marked({n}, mem)
      BY <1>5
    <3> HIDE DEF n
    <3> QED
      BY <3>1, <3>2, MarkedIs
  <2> HIDE DEF n
  <2>2. /\ UNCHANGED <<cache, timer_active, scan_requested, scanning>>
        /\ UNCHANGED <<link, closing, pending, ignored, ub>>
        /\ Acts("app") /\ task'["app"].pc = "check" /\ task'["app"].op = n
        /\ task'["app"].hold = {} /\ DOMAIN ops' = DOMAIN ops
    BY <1>1, <1>5, <2>1 DEF scanVars, linkVars, Turns, MemoryInv, HandInv, Stay, n
  <2>3. OpsOK'
    <3>1. /\ ops' \in Seq(Op) /\ Len(ops') <= MaxOps /\ pending' \subseteq DOMAIN ops'
          /\ queue = {m \in DOMAIN ops : ops[m].mem = "queued"}
      BY <1>1, <2>1, <2>2 DEF MemoryInv, OpsOK, Stay
    <3>2. CASE mem = "queued"
      <4>1. queue' = queue \cup {n}
        BY <1>5, <3>2
      <4>2. queue' = {m \in DOMAIN ops' : ops'[m].mem = "queued"}
        BY <1>2, <2>1, <2>2, <3>1, <3>2, <4>1
      <4> QED
        BY <3>1, <4>2 DEF OpsOK
    <3>3. CASE mem = "lost"
      <4>1. queue' = queue
        BY <1>5, <3>3
      <4>2. queue' = {m \in DOMAIN ops' : ops'[m].mem = "queued"}
        BY <1>2, <2>1, <2>2, <3>1, <3>3, <4>1
      <4> QED
        BY <3>1, <4>2 DEF OpsOK
    <3> QED
      BY <3>2, <3>3
  <2>4. PendingInv' /\ OpsInv'
    BY <1>1, <1>2, <2>1, <2>2 DEF MemoryInv, PendingInv, OpsInv
  <2>5. HandInv'
    <3>1. Hand("app")' = {}
      BY <2>2 DEF Hand
    <3>2. \A q \in Tasks : q # "app" =>
             \A m \in Hand(q) : /\ m \in DOMAIN ops' /\ ops'[m].mem = "taken"
                                /\ ops'[m].type = ops[m].type
      BY <1>1, <1>2, <2>1, <2>2 DEF MemoryInv, HandInv
    <3> QED
      BY <1>1, <2>2, <3>1, <3>2, HandStep DEF MemoryInv
  <2>6. MemoryInv'
    BY <2>3, <2>4, <2>5 DEF MemoryInv
  <2>7. TypeOK'
    BY <1>1, <2>2, <2>6, TypeStep DEF IInv, TypeOK
  <2>8. TaskInv'
    BY <1>1, <1>2, <2>2, TaskStep DEF IInv, AppPlaces
  <2>9. QueueInv'
    <3>1. ~raced => mem = "queued" /\ ~NewlyLost
      BY <1>5, <2>1, <2>2 DEF NewlyLost
    <3>2. ~raced => Own("app")'
      BY <1>1, <1>5, <2>2, <3>1 DEF Own
    <3> QED
      BY <1>1, <2>2, <3>1, <3>2, QueueStep DEF IInv
  <2>10. PumpInv'
    <3>1. Linked = {} /\ Linked' = {n}
      BY <1>1, <2>2 DEF Linked
    <3> QED
      BY <1>1, <1>5, <2>2, <3>1, PumpStep DEF IInv
  <2>11. LinkInv'
    BY <1>1, <2>2, LinkStep DEF IInv
  <2>12. ScanInv'
    <3>1. \A m \in pending : m \in pending' /\ ops'[m].type = ops[m].type
      BY <1>1, <2>1, <2>2 DEF MemoryInv, PendingInv
    <3> QED
      BY <1>1, <2>2, <3>1, ScanStep DEF IInv
  <2> QED
    BY <2>6, <2>7, <2>8, <2>9, <2>10, <2>11, <2>12, Together
<1>6. \/ /\ last # 0 => ops[last].mem = "queued"
         /\ queue' = queue \cup {n} /\ ops' = Marked({n}, "queued") /\ Turns("app", "check")
         /\ UNCHANGED <<cache, timer_active, scanVars, linkVars, ub>>
      \/ /\ last # 0 /\ ops[last].mem = "taken"
         /\ ops' = Marked({n}, "lost") /\ Turns("app", "check")
         /\ UNCHANGED <<cache, queue, timer_active, scanVars, linkVars, ub>>
      \/ last # 0 /\ ops[last].mem = "freed" /\ Fault("queue")
  BY EnqueueLinkIs DEF IInv
<1> HIDE DEF n
<1> QED
  BY <1>3, <1>4, <1>5, <1>6

LEMMA EnqueueCheckStep ==
    ASSUME IInv, EnqueueCheck
    PROVE  IInv'
<1>1. task["app"].pc = "check" /\ ub = "none" /\ "app" \in Tasks /\ "app" \notin Dequeuers
  BY EnqueueCheckIs, TaskNames DEF IInv, EnqueueCheck, At
<1>2. CASE queue = {} /\ Fault("queue")
  <2>1. raced
    BY <1>1, <1>2, Alone DEF IInv, Own
  <2> QED
    BY <1>2, <2>1, FaultStep
<1>3. CASE /\ queue # {} /\ Starts("app", "idle")
           /\ timer_active' = (timer_active \/ Cardinality(queue) = 1)
           /\ UNCHANGED <<cache, queueVars, scanVars, linkVars, ub>>
  <2>1. /\ UNCHANGED <<cache, ops, queue, scan_requested, scanning>>
        /\ UNCHANGED <<link, closing, pending, ignored, ub>>
        /\ Acts("app") /\ task'["app"].pc = "idle" /\ task'["app"].hold = {}
        /\ DOMAIN ops' = DOMAIN ops
    BY <1>3 DEF scanVars, linkVars, queueVars, Starts
  <2>2. timer_active' \in BOOLEAN
    BY ONLY <1>3, Zenon
  <2>3. TaskInv'
    BY <1>1, <2>1, TaskStep DEF IInv, AppPlaces
  <2>4. PumpInv'
    <3>1. CASE queue = {task["app"].op}
      <4>1. Cardinality(queue) = 1
        BY <3>1, FS_Singleton
      <4>2. timer_active'
        BY <1>3, <4>1
      <4> QED
        BY <1>1, <2>1, <4>2, PumpStep DEF IInv, Taking
    <3>2. CASE queue # {task["app"].op}
      <4>1. queue \ Linked # {}
        BY <1>1, <1>3, <3>2 DEF Linked
      <4>2. Taking \/ pending # {} \/ ignored
        BY <1>1, <4>1 DEF IInv, PumpInv
      <4>3. Taking => Taking'
        <5>1. task'["bt"] = task["bt"] /\ task'["timer"] = task["timer"]
          BY <2>1, TaskNames DEF Acts
        <5>2. timer_active => timer_active'
          BY <1>3
        <5> QED
          BY <5>1, <5>2, TaskNames DEF Taking
      <4> QED
        BY <1>1, <2>1, <4>2, <4>3, PumpStep DEF IInv
    <3> QED
      BY <3>1, <3>2
  <2>5. ScanInv'
    BY <1>1, <2>1, ScanStep DEF IInv
  <2>6. Hand("app")' \subseteq Hand("app") /\ Own("app")'
    BY <2>1 DEF Hand, Own, Dequeuers
  <2>7. closing' \subseteq Devices \ link'
    BY <2>1 DEF IInv, TypeOK
  <2> QED
    BY <1>1, <2>1, <2>2, <2>3, <2>4, <2>5, <2>6, <2>7, AppStep DEF IInv, TypeOK
<1> QED
  BY <1>2, <1>3, EnqueueCheckIs DEF IInv

(* A call begins, or goes on, or ends, away from the queue.                *)
LEMMA CallStep ==
    ASSUME IInv, ub = "none", Acts("app"),
           UNCHANGED <<cache, ops, queue, timer_active, pending, ignored, ub>>,
           task["app"].pc # "check",
           task'["app"].pc \in AppPlaces \ {"walk", "link", "check"},
           task'["app"].pc \in {"remove", "close"} => task'["app"].dev \in Devices,
           task'["app"].hold = {}, link' \subseteq link, closing' \subseteq Devices \ link',
           scan_requested' \in BOOLEAN, scanning' \in BOOLEAN, ScanInv'
    PROVE  IInv'
<1>1. "app" \in Tasks /\ "app" \notin Dequeuers /\ DOMAIN ops' = DOMAIN ops
  BY TaskNames
<1>2. TaskInv'
  BY <1>1, TaskStep DEF IInv
<1>3. PumpInv'
  BY <1>1, PumpStep DEF IInv, Linked
<1>4. Hand("app")' \subseteq Hand("app") /\ Own("app")'
  BY <1>1 DEF Hand, Own, AppPlaces
<1> QED
  BY <1>2, <1>3, <1>4, AppStep DEF IInv, TypeOK

LEMMA DisconnectStep ==
    ASSUME IInv, Disconnect
    PROVE  IInv'
<1>1. /\ Acts("app") /\ task["app"].pc = "idle" /\ task'["app"].pc = "remove" /\ ub = "none"
      /\ task'["app"].dev \in Devices /\ task'["app"].hold = {}
      /\ UNCHANGED <<cache, ops, queue, timer_active, scan_requested, scanning>>
      /\ UNCHANGED <<link, closing, pending, ignored, ub>>
  BY DisconnectIs DEF IInv, Disconnect, At, scanVars, linkVars, queueVars, Starts
<1>2. ScanInv'
  BY <1>1, ScanStep, TaskNames DEF IInv
<1> QED
  BY <1>1, <1>2, CallStep DEF IInv, TypeOK, AppPlaces

LEMMA DisconnectCloseStep ==
    ASSUME IInv, DisconnectClose
    PROVE  IInv'
<1>1. /\ Acts("app") /\ task["app"].pc = "close" /\ ub = "none"
      /\ \/ task'["app"].pc = "idle"
         \/ task'["app"].pc = "remove" /\ task'["app"].dev \in Devices
      /\ task'["app"].hold = {}
      /\ link' \subseteq link /\ closing' \subseteq closing \cup link
      /\ closing' \cap link' \subseteq closing \cap link
      /\ UNCHANGED <<cache, ops, queue, timer_active, scan_requested, scanning>>
      /\ UNCHANGED <<pending, ignored, ub>>
  BY DisconnectCloseIs
     DEF IInv, HandInv, DisconnectClose, At, scanVars, queueVars
<1>2. closing' \subseteq Devices \ link'
  BY <1>1 DEF IInv, TypeOK
<1>3. ScanInv'
  BY <1>1, ScanStep, TaskNames DEF IInv
<1> QED
  BY <1>1, <1>2, <1>3, CallStep DEF IInv, TypeOK, AppPlaces

LEMMA ScanStartStep ==
    ASSUME IInv, ScanStart
    PROVE  IInv'
<1>1. GoesTo("app", "start_scanning") /\ task["app"].pc = "idle" /\ ub = "none"
  BY DEF ScanStart, At
<1>2. Turns("app", "start_scanning")
  BY <1>1, GoesToIs, PlacesAre, TaskNames DEF IInv
<1>3. /\ UNCHANGED <<cache, ops, queue, timer_active, scanning>>
      /\ UNCHANGED <<link, closing, pending, ignored, ub>>
      /\ Acts("app") /\ task'["app"].pc = "start_scanning" /\ task'["app"].hold = {}
  BY <1>2 DEF ScanStart, IInv, HandInv, linkVars, queueVars, Turns
<1>4. scan_requested' \in BOOLEAN
  BY DEF ScanStart
<1>5. ScanInv'
  BY <1>3 DEF ScanInv, RequestedScanResumes
<1> QED
  BY <1>1, <1>3, <1>4, <1>5, CallStep DEF IInv, TypeOK, AppPlaces

LEMMA ScanStopStep ==
    ASSUME IInv, ScanStop
    PROVE  IInv'
<1>1. GoesTo("app", "remove_connects") /\ task["app"].pc = "idle" /\ ub = "none"
  BY DEF ScanStop, At
<1>2. Turns("app", "remove_connects")
  BY <1>1, GoesToIs, PlacesAre, TaskNames DEF IInv
<1>3. /\ UNCHANGED <<cache, ops, queue, timer_active, scan_requested, scanning>>
      /\ UNCHANGED <<link, closing, pending, ignored, ub>>
      /\ Acts("app") /\ task'["app"].pc = "remove_connects" /\ task'["app"].hold = {}
  BY <1>2 DEF ScanStop, IInv, HandInv, linkVars, scanVars, queueVars, Turns
<1>4. ScanInv'
  BY <1>1, <1>3, ScanStep, TaskNames DEF IInv
<1> QED
  BY <1>1, <1>3, <1>4, CallStep DEF IInv, TypeOK, AppPlaces

LEMMA ScanStopRequestStep ==
    ASSUME IInv, ScanStopRequest
    PROVE  IInv'
<1>1. GoesTo("app", "stop_scanning") /\ task["app"].pc = "unrequest" /\ ub = "none"
  BY DEF ScanStopRequest, At
<1>2. Turns("app", "stop_scanning")
  BY <1>1, GoesToIs, PlacesAre, TaskNames DEF IInv
<1>3. /\ UNCHANGED <<cache, ops, queue, timer_active, scanning>>
      /\ UNCHANGED <<link, closing, pending, ignored, ub>>
      /\ Acts("app") /\ task'["app"].pc = "stop_scanning" /\ task'["app"].hold = {}
  BY <1>2 DEF ScanStopRequest, IInv, HandInv, linkVars, queueVars, Turns
<1>4. scan_requested' \in BOOLEAN /\ ~scan_requested'
  BY DEF ScanStopRequest
<1>5. ScanInv'
  BY <1>4 DEF ScanInv, RequestedScanResumes
<1> QED
  BY <1>1, <1>3, <1>4, <1>5, CallStep DEF IInv, TypeOK, AppPlaces

LEMMA ScanCallStep ==
    ASSUME IInv, ScanCall
    PROVE  IInv'
<1>1. Becomes("app", Idle) /\ task["app"].pc \in {"start_scanning", "stop_scanning"} /\ ub = "none"
  BY DEF ScanCall
<1>2. Starts("app", "idle")
  BY <1>1, IdleIs, TaskNames DEF IInv
<1>3. /\ UNCHANGED <<cache, ops, queue, timer_active, scan_requested>>
      /\ UNCHANGED <<link, closing, pending, ignored, ub>>
      /\ Acts("app") /\ task'["app"].pc = "idle" /\ task'["app"].hold = {}
  BY <1>2 DEF ScanCall, linkVars, queueVars, Starts
<1>4. scanning' \in BOOLEAN /\ (task["app"].pc = "start_scanning" => scanning')
  BY DEF ScanCall
<1>5. task["app"].pc = "stop_scanning" => ~scan_requested
  BY DEF IInv, ScanInv
<1>6. ScanInv'
  BY <1>1, <1>3, <1>4, <1>5 DEF ScanInv, RequestedScanResumes
<1> QED
  BY <1>1, <1>3, <1>4, <1>6, CallStep DEF IInv, TypeOK, AppPlaces

(* Operations leave the queue for good.                                    *)
LEMMA RemoveStep ==
    ASSUME IInv, ub = "none", NEW p \in {"app", "bt"}, NEW pc,
           \/ p = "app" /\ task[p].pc = "remove" /\ pc = "close"
           \/ p = "app" /\ task[p].pc = "remove_connects" /\ pc = "unrequest"
           \/ p = "bt" /\ task[p].pc = "remove" /\ pc = "closed",
           GoesTo(p, pc), NEW ns \in SUBSET queue, RemoveQueued(ns),
           UNCHANGED <<cache, timer_active, scanVars, linkVars, ub>>
    PROVE  IInv'
<1>1. p \in Tasks /\ Busy(p) /\ pc \in AllPlaces
  BY TaskNames, PlacesAre DEF Busy, OnQueue
<1>2. Turns(p, pc)
  BY <1>1, GoesToIs DEF IInv
<1>3. /\ UNCHANGED <<cache, timer_active, scan_requested, scanning>>
      /\ UNCHANGED <<link, closing, pending, ignored, ub>>
      /\ Acts(p) /\ task'[p].pc = pc /\ task'[p].dev = task[p].dev /\ task'[p].hold = task[p].hold
  BY <1>2 DEF linkVars, scanVars, Turns
<1>4. Hand(p)' \subseteq Hand(p) /\ (p = "app" => task'[p].hold = {})
  BY <1>3 DEF Hand, IInv, HandInv
<1>5. /\ MemoryInv' /\ ~NewlyLost /\ queue' \subseteq queue /\ DOMAIN ops' = DOMAIN ops
      /\ \A n \in pending : ops'[n].type = ops[n].type
  BY <1>1, <1>3, <1>4, IsMemory, RemovingStep
<1>6. TypeOK'
  BY <1>1, <1>3, <1>5, TypeStep DEF IInv, TypeOK
<1>7. TaskInv'
  BY <1>1, <1>3, <1>5, TaskStep DEF IInv, TaskInv, AppPlaces, BtPlaces, Dequeuers
<1>8. QueueInv'
  <2>1. Own(p)' /\ ub' # "queue"
    BY <1>3 DEF Own
  <2> QED
    BY <1>1, <1>3, <1>5, <2>1, QueueStep DEF IInv
<1>9. PumpInv'
  <2>1. Linked' = Linked
    <3>1. CASE p = "app"
      BY <1>3, <3>1 DEF Linked
    <3>2. CASE p = "bt"
      <4>1. task'["app"] = task["app"]
        BY <1>3, <3>2, TaskNames DEF Acts
      <4> QED
        BY <4>1 DEF Linked
    <3> QED
      BY <3>1, <3>2
  <2>2. p \in Dequeuers => task[p].pc = "remove"
    BY TaskNames
  <2>3. queue' \ Linked' \subseteq queue \ Linked
    BY <1>5, <2>1
  <2> QED
    BY <1>1, <1>3, <2>2, <2>3, PumpStep DEF IInv
<1>10. LinkInv'
  <2>1. CASE p = "app"
    BY <1>1, <1>3, <2>1, LinkStep DEF IInv
  <2>2. CASE p = "bt"
    BY <1>3, <2>2 DEF IInv, LinkInv, LinksKnown
  <2> QED
    BY <2>1, <2>2
<1>11. ScanInv'
  BY <1>1, <1>3, <1>5, ScanStep DEF IInv
<1> QED
  BY <1>5, <1>6, <1>7, <1>8, <1>9, <1>10, <1>11, Together

LEMMA ScanStopRemoveStep ==
    ASSUME IInv, ScanStopRemove
    PROVE  IInv'
<1> DEFINE ns == {n \in queue : ops[n].type = "CONNECT"}
<1>1. /\ task["app"].pc = "remove_connects" /\ ub = "none" /\ GoesTo("app", "unrequest")
      /\ RemoveQueued(ns) /\ ns \in SUBSET queue
      /\ UNCHANGED <<cache, timer_active, scanVars, linkVars, ub>>
  BY DEF ScanStopRemove, At
<1> HIDE DEF ns
<1> QED
  BY <1>1, RemoveStep

LEMMA OperationRemoveByMacStep ==
    ASSUME IInv, NEW p \in {"app", "bt"}, NEW then,
           p = "app" => then = "close", p = "bt" => then = "closed",
           OperationRemoveByMac(p, then)
    PROVE  IInv'
<1> DEFINE ns == {n \in queue : ops[n].dev = task[p].dev}
<1>1. task[p].pc = "remove" /\ ub = "none" /\ ns \in SUBSET queue
  BY DEF OperationRemoveByMac, At
<1>2. \/ /\ GoesTo(p, then) /\ RemoveQueued(ns)
         /\ UNCHANGED <<cache, timer_active, scanVars, linkVars, ub>>
      \/ Fault("device")
  BY DEF OperationRemoveByMac
<1> HIDE DEF ns
<1> QED
  BY <1>1, <1>2, RemoveStep, FaultStep
----------------------------------------------------------------------------
(* The steps of the timer and of the Bluetooth task                        *)

(* On its way with an operation, a task leaves links and scanning alone,   *)
(* and it will see to the next operation, or the stack's answer will.      *)
LEMMA OnTheWayStep ==
    ASSUME IInv, ub = "none", NEW p \in Dequeuers, Acts(p), MemoryInv', ~NewlyLost,
           DOMAIN ops' = DOMAIN ops,
           task[p].pc \in DequeuePlaces, task'[p].pc \in DequeuePlaces,
           task'[p].pc = "unlink" => task'[p].op \in queue',
           Taking' \/ pending' # {} \/ ignored' \/ queue' = {},
           queue' = queue \/ Busy(p),
           timer_active' \in BOOLEAN, scanning' \in BOOLEAN, ignored' \in BOOLEAN,
           UNCHANGED <<cache, link, closing, scan_requested, ub>>,
           ScanInv'
    PROVE  IInv'
<1>1. p \in Tasks /\ p # "app"
  BY TaskNames
<1>2. TypeOK'
  BY <1>1, TypeStep DEF IInv, TypeOK
<1>3. TaskInv'
  <2>1. task'[p].pc = "unlink" => task'[p].op \in DOMAIN ops'
    BY DEF MemoryInv, OpsOK
  <2> QED
    BY <1>1, <2>1, TaskStep DEF IInv, BtPlaces, DequeuePlaces
<1>4. QueueInv'
  <2>1. Own(p)' /\ ub' # "queue"
    BY <1>1 DEF Own
  <2> QED
    BY <1>1, <2>1, QueueStep DEF IInv
<1>5. PumpInv'
  BY <1>1, PumpStep DEF IInv
<1>6. LinkInv'
  BY <1>1, LinkStep DEF IInv, DequeuePlaces
<1> QED
  BY <1>2, <1>3, <1>4, <1>5, <1>6, Together

LEMMA DequeueStep ==
    ASSUME IInv, NEW p \in Dequeuers, Dequeue(p)
    PROVE  IInv'
<1>1. /\ task[p].pc = "dequeue" /\ ub = "none" /\ p \in Tasks /\ p # "app" /\ MemoryInv
      /\ UNCHANGED <<cache, queue, timer_active, scan_requested, scanning>>
      /\ UNCHANGED <<link, closing, pending, ignored, ub>>
  BY TaskNames, IsMemory DEF Dequeue, At, scanVars, linkVars
<1>2. CASE queue = {} /\ Free(task[p].hold, pending) /\ Becomes(p, Idle)
  <2>1. Acts(p) /\ task'[p].pc = "idle" /\ task'[p].hold = {}
    BY <1>1, <1>2, IdleIs DEF IInv, Starts
  <2>2. Hand(p)' = {} /\ task[p].hold \in SUBSET Hand(p)
    BY <2>1 DEF Hand
  <2>3. Free(task[p].hold, pending')
    BY <1>1, <1>2
  <2>4. /\ MemoryInv' /\ ~NewlyLost /\ DOMAIN ops' = DOMAIN ops
        /\ \A n \in pending : ops'[n].type = ops[n].type
    BY <1>1, <2>1, <2>2, <2>3, FreeingStep
  <2>5. ScanInv'
    BY <1>1, <2>1, <2>4, ScanStep DEF IInv
  <2> QED
    BY <1>1, <1>2, <2>1, <2>4, <2>5, OnTheWayStep DEF IInv, TypeOK, DequeuePlaces
<1>3. CASE /\ queue # {} /\ ops' = ops
           /\ Becomes(p, [task[p] EXCEPT !.pc = "unlink", !.op = Min(queue)])
  <2>1. Min(queue) \in queue /\ Min(queue) \in Nat
    <3>1. queue \in SUBSET (1 .. Len(ops)) /\ Len(ops) \in Nat
      BY OpsType DEF IInv, TypeOK
    <3>2. Min(queue) \in queue
      BY <1>3, <3>1, MinMax
    <3>3. \A n \in queue : n \in Nat
      BY <3>1
    <3> QED
      BY <3>2, <3>3
  <2>2. PICK n \in Nat : n = Min(queue)
    BY <2>1
  <2> DEFINE t == [task[p] EXCEPT !.pc = "unlink", !.op = n]
  <2>3. task[p] \in Locals
    BY <1>1 DEF IInv, TaskInv
  <2>4. t \in Locals /\ t.pc = "unlink" /\ t.op = n /\ t.hold = task[p].hold
    BY <2>3 DEF Locals, BtPlaces, DequeuePlaces
  <2>5. Becomes(p, t)
    BY <1>3, <2>2
  <2> HIDE DEF t
  <2>6. Acts(p) /\ task'[p] = t
    BY <1>1, <2>4, <2>5, TaskIs DEF IInv, TaskInv, Acts
  <2>7. /\ task'[p].pc = "unlink" /\ task'[p].op \in queue' /\ Hand(p)' \subseteq Hand(p)
    BY <1>1, <2>1, <2>2, <2>4, <2>6 DEF Hand
  <2>8. MemoryInv' /\ ~NewlyLost /\ Taking' /\ DOMAIN ops' = DOMAIN ops
    BY <1>1, <1>3, <2>6, <2>7, QuietStep, StillQuiet DEF Taking
  <2>9. ScanInv'
    BY <1>1, <1>3, <2>6, <2>7, ScanStep DEF IInv
  <2> QED
    BY <1>1, <2>6, <2>7, <2>8, <2>9, OnTheWayStep DEF IInv, TypeOK, DequeuePlaces
<1> QED
  BY <1>2, <1>3 DEF Dequeue

LEMMA DequeueUnlinkStep ==
    ASSUME IInv, NEW p \in Dequeuers, DequeueUnlink(p)
    PROVE  IInv'
<1> DEFINE n == task[p].op
           pc == IF ops[n].type = "CONNECT" THEN "stop" ELSE "request"
<1>1. task[p].pc = "unlink" /\ ub = "none" /\ p \in Tasks /\ p # "app" /\ MemoryInv /\ Busy(p)
  BY TaskNames, IsMemory DEF DequeueUnlink, At, Busy, OnQueue
<1>2. CASE ops[n].mem # "queued" /\ Fault("queue")
  <2>1. raced
    <3>1. ~raced => n \in queue
      BY <1>1, Alone DEF IInv, Own
    <3> QED
      BY <1>2, <3>1 DEF IInv, TypeOK
  <2> QED
    BY <1>2, <2>1, FaultStep
<1>3. CASE /\ ops[n].mem = "queued" /\ queue' = queue \ {n} /\ ops' = Marked({n}, "taken")
           /\ GoesTo(p, pc) /\ UNCHANGED <<cache, timer_active, scanVars, linkVars, ub>>
  <2>1. pc \in AllPlaces
    BY PlacesAre
  <2>2. Turns(p, pc)
    BY <1>1, <1>3, <2>1, GoesToIs DEF IInv
  <2>3. n \in DOMAIN ops /\ ops \in Seq(Op)
    BY <1>1, OpsType DEF IInv, TaskInv
  <2>4. /\ pc \in {"stop", "request"}
        /\ pc = "stop" <=> ops[n].type = "CONNECT"
    OBVIOUS
  <2> HIDE DEF pc
  <2>5. /\ UNCHANGED <<cache, timer_active, scan_requested, scanning>>
        /\ UNCHANGED <<link, closing, pending, ignored, ub>>
        /\ Acts(p) /\ task'[p].pc = pc /\ task'[p].op = n /\ task'[p].hold = task[p].hold
    BY <1>3, <2>2 DEF linkVars, scanVars, Turns
  <2> HIDE DEF n
  <2>6. /\ Stay
        /\ \A m \in DOMAIN ops :
             /\ ops'[m].mem = IF m \in {n} THEN "taken" ELSE ops[m].mem
             /\ ops'[m].type = ops[m].type /\ ops'[m].dev = ops[m].dev
    <3>1. "taken" \in Mems
      BY DEF Mems
    <3> QED
      BY <1>3, <2>3, <3>1, MarkedIs
  <2>7. DOMAIN ops' = DOMAIN ops
    BY <2>6 DEF Stay
  <2>8. OpsOK'
    <3>1. /\ ops' \in Seq(Op) /\ Len(ops') <= MaxOps /\ pending' \subseteq DOMAIN ops'
          /\ queue = {m \in DOMAIN ops : ops[m].mem = "queued"}
      BY <1>1, <2>5, <2>6 DEF MemoryInv, OpsOK, Stay
    <3>2. queue' = queue \ {n}
      BY <1>3
    <3>3. queue' = {m \in DOMAIN ops' : ops'[m].mem = "queued"}
      BY <2>3, <2>6, <2>7, <3>1, <3>2
    <3> QED
      BY <3>1, <3>3 DEF OpsOK
  <2>9. PendingInv' /\ OpsInv' /\ ~NewlyLost
    <3>1. ops[n].mem = "queued" /\ \A m \in DOMAIN ops : ops[m].mem # "freed" => ops[m].dev \in Devices
      BY <1>1, <1>3 DEF MemoryInv, OpsInv
    <3>2. OpsInv' /\ ~NewlyLost
      BY <2>3, <2>6, <2>7, <3>1 DEF OpsInv, NewlyLost
    <3>3. \A m \in pending : /\ m \in DOMAIN ops /\ ops[m].mem = "freed"
                             /\ ops[m].dev \in Devices /\ ops[m].type # "WRITE_CHAR"
      BY <1>1 DEF MemoryInv, PendingInv
    <3>4. PendingInv'
      BY <2>5, <2>6, <2>7, <3>1, <3>3 DEF PendingInv
    <3> QED
      BY <3>2, <3>4
  <2>10. HandInv'
    <3>1. Hand(p)' = Hand(p) \cup {n}
      BY <1>1, <2>4, <2>5 DEF Hand
    <3>2. \A q \in Tasks : \A m \in Hand(q) :
             /\ m \in DOMAIN ops /\ ops[m].mem = "taken" /\ m # n
      BY <1>1, <1>3 DEF MemoryInv, HandInv
    <3>3. \A q \in Tasks : \A m \in Hand(q) : /\ m \in DOMAIN ops' /\ ops'[m].mem = "taken"
                                               /\ ops'[m].type = ops[m].type
      BY <2>6, <2>7, <3>2
    <3>4. \A m \in Hand(p)' : /\ m \in DOMAIN ops' /\ ops'[m].mem = "taken"
                              /\ m \in Hand(p) \/ \A q \in Tasks : m \notin Hand(q)
      <4>1. n \in DOMAIN ops' /\ ops'[n].mem = "taken" /\ \A q \in Tasks : n \notin Hand(q)
        BY <2>3, <2>6, <2>7, <3>2
      <4> QED
        BY <1>1, <3>1, <3>3, <4>1
    <3>5. /\ task'[p].pc \in {"stop", "open"} => ops'[task'[p].op].type = "CONNECT"
          /\ task'[p].pc = "request" => ops'[task'[p].op].type # "CONNECT"
      BY <2>3, <2>4, <2>5, <2>6
    <3> QED
      BY <1>1, <2>5, <3>3, <3>4, <3>5, HandStep DEF MemoryInv
  <2>11. MemoryInv'
    BY <2>8, <2>9, <2>10 DEF MemoryInv
  <2>12. Taking'
    BY <2>4, <2>5 DEF Taking
  <2>13. ScanInv'
    <3>1. \A m \in pending : m \in pending' /\ ops'[m].type = ops[m].type
      BY <1>1, <2>5, <2>6 DEF MemoryInv, PendingInv
    <3> QED
      BY <1>1, <2>5, <3>1, ScanStep DEF IInv
  <2> QED
    BY <1>1, <2>4, <2>5, <2>7, <2>9, <2>11, <2>12, <2>13, OnTheWayStep
       DEF IInv, TypeOK, DequeuePlaces
<1> QED
  BY <1>2, <1>3 DEF DequeueUnlink, At

LEMMA PerformStopStep ==
    ASSUME IInv, NEW p \in Dequeuers, PerformStop(p)
    PROVE  IInv'
<1>1. /\ task[p].pc = "stop" /\ ub = "none" /\ p \in Tasks /\ p # "app" /\ MemoryInv
      /\ "open" \in AllPlaces /\ GoesTo(p, "open")
      /\ UNCHANGED <<cache, ops, queue, timer_active, scan_requested>>
      /\ UNCHANGED <<link, closing, pending, ignored, ub>>
  BY TaskNames, IsMemory, PlacesAre DEF PerformStop, At, queueVars, linkVars
<1>2. Turns(p, "open")
  BY <1>1, GoesToIs DEF IInv
<1>3. /\ Acts(p) /\ task'[p].pc = "open" /\ task'[p].op = task[p].op
      /\ Hand(p)' \subseteq Hand(p)
  BY <1>1, <1>2 DEF Turns, Hand
<1>4. MemoryInv' /\ ~NewlyLost /\ Taking' /\ DOMAIN ops' = DOMAIN ops
  BY <1>1, <1>3, QuietStep, StillQuiet DEF Taking
<1>5. scanning' \in BOOLEAN
  BY DEF PerformStop
<1>6. ScanInv'
  <2>1. task'["app"] = task["app"]
    BY <1>1, <1>3, TaskNames DEF Acts
  <2> QED
    BY <1>1, <1>3, <2>1 DEF IInv, ScanInv, RequestedScanResumes
<1> QED
  BY <1>1, <1>3, <1>4, <1>5, <1>6, OnTheWayStep DEF IInv, TypeOK, DequeuePlaces

LEMMA PerformOpenStep ==
    ASSUME IInv, NEW p \in Dequeuers, PerformOpen(p)
    PROVE  IInv'
<1> DEFINE n == task[p].op
<1>1. task[p].pc = "open" /\ ub = "none" /\ p \in Tasks /\ p # "app" /\ MemoryInv
  BY TaskNames, IsMemory DEF PerformOpen, At
<1>2. CASE Fault("device")
  BY <1>2, FaultStep
<1>3. CASE /\ pending' = pending \cup {n} /\ Free(task[p].hold \cup {n}, pending')
           /\ Becomes(p, Idle)
           /\ UNCHANGED <<cache, queue, timer_active, scanVars, link, closing, ignored, ub>>
  <2>1. Acts(p) /\ task'[p].pc = "idle" /\ task'[p].hold = {}
    BY <1>1, <1>3, IdleIs DEF IInv, Starts
  <2>2. /\ Hand(p)' = {} /\ task[p].hold \cup {n} \in SUBSET Hand(p)
    BY <1>1, <2>1 DEF Hand
  <2>3. ops[n].type = "CONNECT" /\ n \in DOMAIN ops /\ ops[n].mem = "taken"
    BY <1>1, <2>2 DEF MemoryInv, HandInv
  <2> HIDE DEF n
  <2>4. /\ UNCHANGED <<cache, queue, timer_active, scan_requested, scanning>>
        /\ UNCHANGED <<link, closing, ignored, ub>>
    BY <1>3 DEF scanVars
  <2>5. /\ MemoryInv' /\ ~NewlyLost /\ DOMAIN ops' = DOMAIN ops
        /\ \A m \in pending : ops'[m].type = ops[m].type
    <3>1. /\ pending \subseteq pending'
          /\ \A m \in pending' \ pending :
                 m \in task[p].hold \cup {n} /\ ops[m].type # "WRITE_CHAR"
      BY <1>3, <2>3
    <3> QED
      BY <1>1, <1>3, <2>1, <2>2, <2>4, <3>1, FreeingStep
  <2>6. \E m \in pending' : ops'[m].type = "CONNECT"
    <3>1. n \in pending'
      BY <1>3
    <3>2. ops'[n].type = ops[n].type
      <4>1. PICK ns : ns = task[p].hold \cup {n}
        OBVIOUS
      <4>2. Free(ns, pending') /\ ops \in Seq(Op)
        BY <1>1, <1>3, <4>1 DEF MemoryInv, OpsOK
      <4>3. \A m \in DOMAIN ops : m \notin ns \ pending' => ops'[m].type = ops[m].type
        BY <4>2, FreeIs
      <4> QED
        BY <2>3, <3>1, <4>3
    <3> QED
      BY <2>3, <3>1, <3>2
  <2>7. ScanInv'
    <3>1. task'["app"] = task["app"]
      BY <1>1, <2>1, TaskNames DEF Acts
    <3> QED
      BY <2>4, <2>6, <3>1 DEF IInv, ScanInv, RequestedScanResumes
  <2>8. pending' # {}
    BY <1>3
  <2> QED
    BY <1>1, <2>1, <2>4, <2>5, <2>7, <2>8, OnTheWayStep DEF IInv, TypeOK, DequeuePlaces
<1> QED
  BY <1>2, <1>3 DEF PerformOpen

LEMMA PerformRequestStep ==
    ASSUME IInv, NEW p \in Dequeuers, PerformRequest(p)
    PROVE  IInv'
<1> DEFINE n == task[p].op
           answered == ops[n].type # "WRITE_CHAR"
           up == ops[n].dev \in link
<1>1. task[p].pc = "request" /\ ub = "none" /\ p \in Tasks /\ p # "app" /\ MemoryInv
  BY TaskNames, IsMemory DEF PerformRequest, At
<1>2. CASE Fault("device")
  BY <1>2, FaultStep
<1>3. CASE /\ pending' = IF answered /\ up THEN pending \cup {n} ELSE pending
           /\ ignored' = (ignored \/ (answered /\ ~up))
           /\ IF answered
              THEN Free(task[p].hold \cup {n}, pending') /\ Becomes(p, Idle)
              ELSE /\ ops' = ops
                   /\ Becomes(p, [task[p] EXCEPT !.pc = "dequeue", !.op = 0,
                                                 !.hold = @ \cup {n}])
           /\ UNCHANGED <<cache, queue, timer_active, scanVars, link, closing, ub>>
  <2>1. /\ UNCHANGED <<cache, queue, timer_active, scan_requested, scanning>>
        /\ UNCHANGED <<link, closing, ub>>
    BY <1>3 DEF scanVars
  <2>2. ignored' \in BOOLEAN
    <3>1. ignored' = (ignored \/ (answered /\ ~up))
      BY <1>3
    <3> HIDE DEF answered, up
    <3> QED
      BY ONLY <3>1, Zenon
  <2>3. n \in Hand(p) /\ task[p].hold \cup {n} \in SUBSET Hand(p) /\ n \in DOMAIN ops
    BY <1>1 DEF Hand, MemoryInv, HandInv
  <2>4. CASE answered
    <3>1. Free(task[p].hold \cup {n}, pending') /\ Becomes(p, Idle)
      BY <1>3, <2>4
    <3>2. Acts(p) /\ task'[p].pc = "idle" /\ task'[p].hold = {} /\ Hand(p)' = {}
      BY <1>1, <3>1, IdleIs DEF IInv, Starts, Hand
    <3>3. /\ pending \subseteq pending'
          /\ \A m \in pending' \ pending : m = n
          /\ pending' # {} \/ ignored'
      BY <1>3, <2>4
    <3>4. \A m \in pending' \ pending :
             m \in task[p].hold \cup {n} /\ ops[m].type # "WRITE_CHAR"
      BY <2>4, <3>3
    <3> HIDE DEF n, answered, up
    <3>5. /\ MemoryInv' /\ ~NewlyLost /\ DOMAIN ops' = DOMAIN ops
          /\ \A m \in pending : ops'[m].type = ops[m].type
      BY <1>1, <2>1, <2>3, <3>1, <3>2, <3>3, <3>4, FreeingStep
    <3>6. ScanInv'
      BY <1>1, <2>1, <3>2, <3>3, <3>5, ScanStep DEF IInv
    <3> QED
      BY <1>1, <2>1, <2>2, <3>2, <3>3, <3>5, <3>6, OnTheWayStep DEF IInv, TypeOK, DequeuePlaces
  <2>5. CASE ~answered
    <3> DEFINE t == [task[p] EXCEPT !.pc = "dequeue", !.op = 0, !.hold = @ \cup {n}]
    <3>1. /\ ops' = ops /\ pending' = pending /\ Becomes(p, t)
      BY <1>3, <2>5
    <3>2. task[p] \in Locals
      BY <1>1 DEF IInv, TaskInv
    <3>3. n \in Nat
      BY <3>2 DEF Locals
    <3> HIDE DEF n
    <3>4. t \in Locals /\ t.pc = "dequeue" /\ t.hold = task[p].hold \cup {n}
      BY <3>2, <3>3 DEF Locals, BtPlaces, DequeuePlaces
    <3> HIDE DEF t
    <3>5. Acts(p) /\ task'[p] = t
      BY <1>1, <3>1, <3>4, TaskIs DEF IInv, TaskInv, Acts
    <3>6. task'[p].pc = "dequeue" /\ Hand(p)' \subseteq Hand(p)
      BY <2>3, <3>4, <3>5 DEF Hand
    <3>7. MemoryInv' /\ ~NewlyLost /\ Taking' /\ DOMAIN ops' = DOMAIN ops
      BY <1>1, <2>1, <3>1, <3>5, <3>6, QuietStep, StillQuiet DEF Taking
    <3>8. ScanInv'
      BY <1>1, <2>1, <3>1, <3>5, <3>6, ScanStep DEF IInv
    <3> QED
      BY <1>1, <2>1, <2>2, <3>5, <3>6, <3>7, <3>8, OnTheWayStep DEF IInv, TypeOK, DequeuePlaces
  <2> QED
    BY <2>4, <2>5
<1> QED
  BY <1>2, <1>3 DEF PerformRequest

LEMMA QueueTimerStep ==
    ASSUME IInv, QueueTimer
    PROVE  IInv'
<1>1. /\ task["timer"].pc = "idle" /\ ub = "none" /\ MemoryInv
      /\ "dequeue" \in AllPlaces /\ GoesTo("timer", "dequeue")
      /\ UNCHANGED <<cache, ops, queue, scan_requested, scanning>>
      /\ UNCHANGED <<link, closing, pending, ignored, ub>>
  BY IsMemory, PlacesAre DEF QueueTimer, At, queueVars, linkVars, scanVars
<1>2. "timer" \in Dequeuers /\ "timer" \in Tasks /\ "timer" # "app"
  BY TaskNames
<1>3. Turns("timer", "dequeue")
  BY <1>1, <1>2, GoesToIs DEF IInv
<1>4. Acts("timer") /\ task'["timer"].pc = "dequeue" /\ Hand("timer")' \subseteq Hand("timer")
  BY <1>3 DEF Turns, Hand
<1>5. MemoryInv' /\ ~NewlyLost /\ Taking' /\ DOMAIN ops' = DOMAIN ops
  BY <1>1, <1>2, <1>4, QuietStep, StillQuiet DEF Taking
<1>6. timer_active' \in BOOLEAN
  BY DEF QueueTimer
<1>7. ScanInv'
  BY <1>1, <1>2, <1>4, ScanStep DEF IInv
<1> QED
  BY <1>1, <1>2, <1>4, <1>5, <1>6, <1>7, OnTheWayStep DEF IInv, TypeOK, DequeuePlaces

(* Devices go, and the operations that refer to them are otherwise as they *)
(* were.                                                                   *)
LEMMA FreeDevicesQuiet ==
    ASSUME IInv, NEW ds, NEW how \in {"purged", "unreachable", "closed"}, FreeDevices(ds, how),
           UNCHANGED <<queue, pending>>
    PROVE  /\ Quiet /\ DOMAIN ops' = DOMAIN ops /\ pending' = pending
           /\ \A n \in DOMAIN ops : ops'[n].type = ops[n].type
           /\ cache' \in [Devices -> {"absent", "known", "open"}]
           /\ \A d \in Devices : d \notin ds => cache'[d] = cache[d]
<1>1. ops \in Seq(Op) /\ cache \in [Devices -> {"absent", "known", "open"}]
  BY OpsType DEF IInv, TypeOK
<1>2. /\ Stay
      /\ \A n \in DOMAIN ops :
           /\ ops'[n].mem = ops[n].mem
           /\ ops'[n].type = ops[n].type /\ ops'[n].dev = ops[n].dev
      /\ cache' \in [Devices -> {"absent", "known", "open"}]
      /\ \A d \in Devices : d \notin ds => cache'[d] = cache[d]
  BY <1>1, FreeDevicesIs
<1> QED
  BY <1>2 DEF Quiet, Stay

(* A step between the calls and callbacks of the tasks.                    *)
LEMMA BetweenStep ==
    ASSUME IInv, ub = "none", Quiet, DOMAIN ops' = DOMAIN ops,
           UNCHANGED <<queue, timer_active, scan_requested, scanning, task, ub, raced>>,
           cache' \in [Devices -> {"absent", "known", "open"}],
           \A d \in link : cache[d] = "open" => cache'[d] = "open",
           link' \subseteq link, closing' \subseteq Devices \ link',
           ignored' \in BOOLEAN, ignored => ignored', pending' = pending \/ ignored',
           \A n \in pending : ops[n].type = "CONNECT" =>
               n \in pending' /\ ops'[n].type = "CONNECT"
    PROVE  IInv'
<1>1. Acts("app") /\ task'["app"] = task["app"] /\ Hand("app")' = Hand("app")
      /\ "app" \in Tasks /\ "app" \notin Dequeuers
  BY TaskNames, NobodyActs
<1>2. MemoryInv' /\ ~NewlyLost
  <2>1. task'["app"].hold = {}
    BY <1>1 DEF IInv, HandInv
  <2> QED
    BY <1>1, <2>1, IsMemory, QuietStep
<1>3. TypeOK'
  BY <1>1, <1>2, TypeStep DEF IInv, TypeOK
<1>4. TaskInv'
  BY DEF IInv, TaskInv
<1>5. QueueInv'
  <2>1. ~raced => Own("app")' /\ ub' # "queue"
    BY <1>1, Alone DEF IInv, Own
  <2> QED
    BY <1>1, <1>2, <2>1, QueueStep DEF IInv
<1>6. PumpInv'
  BY <1>1, PumpStep DEF IInv, Linked
<1>7. LinkInv'
  BY <1>1, LinkStep DEF IInv
<1>8. ScanInv'
  BY DEF IInv, ScanInv, RequestedScanResumes
<1> QED
  BY <1>2, <1>3, <1>4, <1>5, <1>6, <1>7, <1>8, Together

LEMMA PurgeDeviceListStep ==
    ASSUME IInv, PurgeDeviceList
    PROVE  IInv'
<1> DEFINE ds == {d \in Devices : cache[d] = "known"}
<1>1. /\ FreeDevices(ds, "purged") /\ ub = "none"
      /\ UNCHANGED <<queue, timer_active, scan_requested, scanning>>
      /\ UNCHANGED <<link, closing, pending, ignored, task, ub, raced>>
  BY DEF PurgeDeviceList, At, scanVars, linkVars
<1>2. /\ Quiet /\ DOMAIN ops' = DOMAIN ops /\ pending' = pending
      /\ \A n \in DOMAIN ops : ops'[n].type = ops[n].type
      /\ cache' \in [Devices -> {"absent", "known", "open"}]
      /\ \A d \in Devices : d \notin ds => cache'[d] = cache[d]
  <2> HIDE DEF ds
  <2> QED
    BY <1>1, FreeDevicesQuiet
<1>3. \A d \in link : cache[d] = "open" => cache'[d] = "open"
  BY <1>2 DEF IInv, TypeOK
<1>4. \A n \in pending : n \in pending' /\ ops'[n].type = ops[n].type
  BY <1>2 DEF IInv, TypeOK
<1> QED
  BY <1>1, <1>2, <1>3, <1>4, BetweenStep DEF IInv, TypeOK
----------------------------------------------------------------------------
(* The callbacks of the Bluetooth task                                     *)

LEMMA ScanResultStep ==
    ASSUME IInv, NEW d \in Devices, ScanResult(d)
    PROVE  IInv'
<1>1. /\ ub = "none" /\ cache' = [cache EXCEPT ![d] = "known"] /\ cache[d] = "absent"
      /\ UNCHANGED <<ops, queue, timer_active, scan_requested, scanning>>
      /\ UNCHANGED <<link, closing, pending, ignored, task, ub, raced>>
  BY DEF ScanResult, At, queueVars, scanVars, linkVars
<1>2. /\ cache' \in [Devices -> {"absent", "known", "open"}]
      /\ \A e \in link : cache[e] = "open" => cache'[e] = "open"
  BY <1>1 DEF IInv, TypeOK
<1> QED
  BY <1>1, <1>2, StillQuiet, BetweenStep DEF IInv, TypeOK

LEMMA LinkLostStep ==
    ASSUME IInv, NEW d \in Devices, LinkLost(d)
    PROVE  IInv'
<1>1. /\ ub = "none" /\ link' = link \ {d} /\ closing' = closing \cup {d}
      /\ UNCHANGED <<cache, ops, queue, timer_active, scan_requested, scanning>>
      /\ UNCHANGED <<pending, ignored, task, ub, raced>>
  BY DEF LinkLost, queueVars, scanVars
<1>2. link' \subseteq link /\ closing' \subseteq Devices \ link'
  BY <1>1 DEF IInv, TypeOK
<1> QED
  BY <1>1, <1>2, StillQuiet, BetweenStep DEF IInv, TypeOK

(* The stack's answer: the operation it has kept for it goes.              *)
LEMMA AnsweredQuiet ==
    ASSUME IInv, NEW n \in pending, Answered(n), UNCHANGED queue
    PROVE  /\ Quiet /\ DOMAIN ops' = DOMAIN ops /\ pending' = pending \ {n}
           /\ \A m \in pending \ {n} : m \in pending' /\ ops'[m].type = ops[m].type
<1>1. /\ Stay /\ pending' = pending \ {n}
      /\ \A m \in DOMAIN ops :
           /\ ops'[m].mem = ops[m].mem
           /\ m # n => ops'[m] = ops[m]
  BY OpsType, AnsweredIs DEF IInv
<1>2. n \in DOMAIN ops /\ ops[n].mem = "freed" /\ pending \subseteq DOMAIN ops
  BY DEF IInv, PendingInv
<1> QED
  BY <1>1, <1>2 DEF Quiet, Stay

(* The Bluetooth task away from the queue, on its way to it.               *)
LEMMA BtStep ==
    ASSUME IInv, ub = "none", Acts("bt"), Quiet, DOMAIN ops' = DOMAIN ops,
           UNCHANGED <<queue, timer_active, scan_requested, ub>>,
           task'["bt"].pc \in {"idle", "dequeue", "resume", "opened", "remove"},
           task'["bt"].pc \in {"resume", "opened", "remove"} => task'["bt"].dev \in Devices,
           task'["bt"].pc \in {"idle", "remove"} =>
               /\ task["bt"].pc \in {"idle", "remove", "closed"}
               /\ pending' = pending,
           Hand("bt")' \subseteq Hand("bt"),
           cache' \in [Devices -> {"absent", "known", "open"}],
           link' \subseteq Devices, closing' \subseteq Devices \ link',
           scanning' \in BOOLEAN, ignored' = ignored, LinkInv', ScanInv'
    PROVE  IInv'
<1>1. "bt" \in Tasks /\ "bt" \in Dequeuers
  BY TaskNames
<1>2. MemoryInv' /\ ~NewlyLost
  BY <1>1, IsMemory, QuietStep
<1>3. TypeOK'
  BY <1>1, <1>2, TypeStep DEF IInv, TypeOK
<1>4. TaskInv'
  BY <1>1, TaskStep DEF IInv, BtPlaces, DequeuePlaces
<1>5. QueueInv'
  <2>1. Own("bt")' /\ ub' # "queue"
    BY <1>1 DEF Own
  <2> QED
    BY <1>1, <1>2, <2>1, QueueStep DEF IInv
<1>6. PumpInv'
  <2>1. CASE task'["bt"].pc \in {"dequeue", "resume", "opened"}
    <3>1. Taking'
      BY <1>1, <2>1 DEF Taking
    <3> QED
      BY <1>1, <3>1, PumpStep DEF IInv
  <2>2. CASE task'["bt"].pc \in {"idle", "remove"}
    <3>1. task'["app"] = task["app"]
      BY TaskNames DEF Acts
    <3>2. Linked' = Linked
      BY <3>1 DEF Linked
    <3> QED
      BY <1>1, <2>2, <3>2, PumpStep DEF IInv
  <2> QED
    BY <2>1, <2>2
<1> QED
  BY <1>2, <1>3, <1>4, <1>5, <1>6, Together

LEMMA OpenEvtStep ==
    ASSUME IInv, NEW n \in pending, NEW ok \in BOOLEAN, OpenEvt(n, ok)
    PROVE  IInv'
<1> DEFINE pc == IF scan_requested THEN "resume" ELSE "opened"
           d == ops[n].dev
           t == [Idle EXCEPT !.pc = pc, !.dev = d, !.ok = ok]
<1>1. /\ task["bt"].pc = "idle" /\ ub = "none" /\ ops[n].type = "CONNECT" /\ d \notin closing
      /\ ok \/ d \notin link
      /\ link' = IF ok THEN link \cup {d} ELSE link
      /\ Answered(n) /\ Becomes("bt", t)
      /\ UNCHANGED <<cache, queue, timer_active, scan_requested, scanning>>
      /\ UNCHANGED <<closing, ignored, ub>>
  BY DEF OpenEvt, At, scanVars
<1>2. d \in Devices
  BY DEF IInv, PendingInv
<1>3. pc \in {"resume", "opened"} /\ (scan_requested => pc = "resume")
  OBVIOUS
<1> HIDE DEF d, pc
<1>4. t \in Locals /\ t.pc = pc /\ t.dev = d /\ t.ok = ok /\ t.hold = {}
  BY <1>2, <1>3 DEF Idle, Locals, BtPlaces
<1> HIDE DEF t
<1>5. /\ Acts("bt") /\ task'["bt"].pc = pc /\ task'["bt"].dev = d /\ task'["bt"].ok = ok
      /\ task'["bt"].hold = {}
  BY <1>1, <1>4, BeginIs, TaskNames DEF IInv, Starts
<1>6. Hand("bt")' \subseteq Hand("bt")
  BY <1>3, <1>5 DEF Hand
<1>7. /\ Quiet /\ DOMAIN ops' = DOMAIN ops /\ pending' = pending \ {n}
      /\ \A m \in pending \ {n} : m \in pending' /\ ops'[m].type = ops[m].type
  BY <1>1, AnsweredQuiet
<1>8. link' \subseteq link \cup {d} /\ (~ok => link' = link)
  BY <1>1
<1>9. link' \subseteq Devices /\ closing' \subseteq Devices \ link'
  BY <1>1, <1>2, <1>8 DEF IInv, TypeOK
<1>10. LinkInv'
  BY <1>1, <1>3, <1>5, <1>8 DEF IInv, LinkInv, LinksKnown
<1>11. ScanInv'
  <2>1. task'["app"] = task["app"]
    BY <1>5, TaskNames DEF Acts
  <2>2. scan_requested => task'["bt"].pc = "resume" /\ "bt" \in Dequeuers
    BY <1>3, <1>5, TaskNames
  <2> QED
    BY <1>1, <2>1, <2>2 DEF IInv, ScanInv, RequestedScanResumes
<1> QED
  BY <1>1, <1>2, <1>3, <1>5, <1>6, <1>7, <1>9, <1>10, <1>11, BtStep DEF IInv, TypeOK

LEMMA OpenEvtResumeStep ==
    ASSUME IInv, OpenEvtResume
    PROVE  IInv'
<1>1. /\ task["bt"].pc = "resume" /\ ub = "none" /\ GoesTo("bt", "opened")
      /\ UNCHANGED <<cache, ops, queue, timer_active, scan_requested>>
      /\ UNCHANGED <<link, closing, pending, ignored, ub>>
  BY DEF OpenEvtResume, At, queueVars, linkVars
<1>2. Turns("bt", "opened")
  BY <1>1, GoesToIs, PlacesAre, TaskNames DEF IInv
<1>3. /\ Acts("bt") /\ task'["bt"].pc = "opened" /\ task'["bt"].dev = task["bt"].dev
      /\ task'["bt"].ok = task["bt"].ok /\ Hand("bt")' \subseteq Hand("bt")
  BY <1>2 DEF Turns, Hand
<1>4. task["bt"].dev \in Devices
  BY <1>1 DEF IInv, TaskInv
<1>5. LinkInv'
  BY <1>1, <1>3 DEF IInv, LinkInv, LinksKnown
<1>6. scanning' \in BOOLEAN /\ scanning'
  BY DEF OpenEvtResume
<1>7. ScanInv'
  <2>1. task'["app"] = task["app"]
    BY <1>3, TaskNames DEF Acts
  <2> QED
    BY <1>1, <1>6, <2>1 DEF IInv, ScanInv, RequestedScanResumes
<1> QED
  BY <1>1, <1>3, <1>4, <1>5, <1>6, <1>7, StillQuiet, BtStep DEF IInv, TypeOK

LEMMA OpenEvtCacheStep ==
    ASSUME IInv, OpenEvtCache
    PROVE  IInv'
<1> DEFINE d == task["bt"].dev
           t == [Idle EXCEPT !.pc = "dequeue"]
<1>1. task["bt"].pc = "opened" /\ ub = "none" /\ d \in Devices
  BY DEF OpenEvtCache, At, IInv, TaskInv
<1>2. t \in Locals /\ t.pc = "dequeue" /\ t.hold = {}
  BY DEF Idle, Locals, BtPlaces, DequeuePlaces
<1> HIDE DEF t
<1>3. ASSUME Becomes("bt", t), UNCHANGED <<queue, timer_active, scanVars, linkVars, ub>>,
             Quiet, DOMAIN ops' = DOMAIN ops, \A n \in DOMAIN ops : ops'[n].type = ops[n].type,
             cache' \in [Devices -> {"absent", "known", "open"}],
             \A e \in Devices : e # d => cache'[e] = cache[e],
             d \in link => cache'[d] = "open"
      PROVE  IInv'
  <2>1. /\ UNCHANGED <<queue, timer_active, scan_requested, scanning>>
        /\ UNCHANGED <<link, closing, pending, ignored, ub>>
    BY <1>3 DEF scanVars, linkVars
  <2>2. /\ Acts("bt") /\ task'["bt"].pc = "dequeue" /\ Hand("bt")' \subseteq Hand("bt")
    BY <1>2, <1>3, BeginIs, TaskNames DEF IInv, Starts, Hand
  <2>3. LinkInv'
    <3>1. link \subseteq Devices
      BY DEF IInv, TypeOK
    <3> QED
      BY <1>1, <1>3, <2>1, <2>2, <3>1 DEF IInv, LinkInv, LinksKnown
  <2>4. ScanInv'
    <3>1. \A n \in pending : n \in pending' /\ ops'[n].type = ops[n].type
      BY <1>3, <2>1 DEF IInv, TypeOK
    <3> QED
      BY <1>1, <2>1, <2>2, <3>1, ScanStep, TaskNames DEF IInv
  <2> QED
    BY <1>1, <1>3, <2>1, <2>2, <2>3, <2>4, BtStep DEF IInv, TypeOK
<1>4. CASE /\ task["bt"].ok /\ cache[d] # "absent" /\ cache' = [cache EXCEPT ![d] = "open"]
           /\ Becomes("bt", t) /\ UNCHANGED <<queueVars, timer_active, scanVars, linkVars, ub>>
  <2>1. UNCHANGED <<ops, queue, pending>>
    BY <1>4 DEF queueVars, linkVars
  <2>2. /\ cache' \in [Devices -> {"absent", "known", "open"}]
        /\ \A e \in Devices : e # d => cache'[e] = cache[e]
        /\ cache'[d] = "open"
    BY <1>1, <1>4 DEF IInv, TypeOK
  <2> QED
    BY <1>3, <1>4, <2>1, <2>2, StillQuiet
<1>5. CASE Fault("device")
  BY <1>5, FaultStep
<1>6. CASE /\ ~task["bt"].ok /\ FreeDevices({d}, "unreachable") /\ Becomes("bt", t)
           /\ UNCHANGED <<queue, timer_active, scanVars, linkVars, ub>>
  <2>1. d \notin link
    BY <1>1, <1>6 DEF IInv, LinkInv
  <2>2. UNCHANGED <<queue, pending>>
    BY <1>6 DEF linkVars
  <2> HIDE DEF d
  <2>3. PICK ds : ds = {d}
    OBVIOUS
  <2>4. /\ Quiet /\ DOMAIN ops' = DOMAIN ops
        /\ \A n \in DOMAIN ops : ops'[n].type = ops[n].type
        /\ cache' \in [Devices -> {"absent", "known", "open"}]
        /\ \A e \in Devices : e \notin ds => cache'[e] = cache[e]
    BY <1>6, <2>2, <2>3, FreeDevicesQuiet
  <2> QED
    BY <1>3, <1>6, <2>1, <2>3, <2>4
<1> QED
  BY <1>4, <1>5, <1>6 DEF OpenEvtCache, t

LEMMA AnswerEvtStep ==
    ASSUME IInv, NEW n \in pending, AnswerEvt(n)
    PROVE  IInv'
<1> DEFINE t == [Idle EXCEPT !.pc = "dequeue"]
<1>1. /\ task["bt"].pc = "idle" /\ ub = "none" /\ ops[n].type # "CONNECT"
      /\ Answered(n) /\ Becomes("bt", t)
      /\ UNCHANGED <<cache, queue, timer_active, scan_requested, scanning>>
      /\ UNCHANGED <<link, closing, ignored, ub>>
  BY DEF AnswerEvt, At, scanVars
<1>2. t \in Locals /\ t.pc = "dequeue" /\ t.hold = {}
  BY DEF Idle, Locals, BtPlaces, DequeuePlaces
<1> HIDE DEF t
<1>3. /\ Acts("bt") /\ task'["bt"].pc = "dequeue" /\ Hand("bt")' \subseteq Hand("bt")
  BY <1>1, <1>2, BeginIs, TaskNames DEF IInv, Starts, Hand
<1>4. /\ Quiet /\ DOMAIN ops' = DOMAIN ops
      /\ \A m \in pending \ {n} : m \in pending' /\ ops'[m].type = ops[m].type
  BY <1>1, AnsweredQuiet
<1>5. LinkInv'
  BY <1>1, <1>3, LinkStep, TaskNames DEF IInv
<1>6. ScanInv'
  BY <1>1, <1>3, <1>4, ScanStep, TaskNames DEF IInv
<1> QED
  BY <1>1, <1>3, <1>4, <1>5, <1>6, BtStep DEF IInv, TypeOK

LEMMA ReadAgainStep ==
    ASSUME IInv, NEW n \in pending, ReadAgain(n)
    PROVE  IInv'
<1>1. /\ ub = "none" /\ ops[n].type # "CONNECT" /\ Answered(n) /\ ignored' = TRUE
      /\ UNCHANGED <<cache, queue, timer_active, scan_requested, scanning>>
      /\ UNCHANGED <<link, closing, task, ub, raced>>
  BY DEF ReadAgain, At, scanVars
<1>2. /\ Quiet /\ DOMAIN ops' = DOMAIN ops
      /\ \A m \in pending \ {n} : m \in pending' /\ ops'[m].type = ops[m].type
  BY <1>1, AnsweredQuiet
<1>3. \A m \in pending : ops[m].type = "CONNECT" => m \in pending' /\ ops'[m].type = "CONNECT"
  BY <1>1, <1>2
<1> QED
  BY <1>1, <1>2, <1>3, BetweenStep DEF IInv, TypeOK

LEMMA CloseEvtStep ==
    ASSUME IInv, NEW d \in Devices, CloseEvt(d)
    PROVE  IInv'
<1> DEFINE t == [Idle EXCEPT !.pc = "remove", !.dev = d]
<1>1. /\ task["bt"].pc = "idle" /\ ub = "none" /\ d \in closing /\ closing' = closing \ {d}
      /\ Becomes("bt", t)
      /\ UNCHANGED <<cache, ops, queue, timer_active, scan_requested, scanning>>
      /\ UNCHANGED <<link, pending, ignored, ub>>
  BY DEF CloseEvt, At, queueVars, scanVars
<1>2. t \in Locals /\ t.pc = "remove" /\ t.dev = d /\ t.hold = {}
  BY DEF Idle, Locals, BtPlaces
<1> HIDE DEF t
<1>3. /\ Acts("bt") /\ task'["bt"].pc = "remove" /\ task'["bt"].dev = d
      /\ Hand("bt")' \subseteq Hand("bt")
  BY <1>1, <1>2, BeginIs, TaskNames DEF IInv, Starts, Hand
<1>4. d \notin link /\ closing' \subseteq Devices \ link'
  BY <1>1 DEF IInv, TypeOK
<1>5. LinkInv'
  BY <1>1, <1>3, <1>4 DEF IInv, LinkInv, LinksKnown
<1>6. ScanInv'
  BY <1>1, <1>3, ScanStep, TaskNames DEF IInv
<1> QED
  BY <1>1, <1>3, <1>4, <1>5, <1>6, StillQuiet, BtStep DEF IInv, TypeOK

LEMMA CloseEvtCacheStep ==
    ASSUME IInv, CloseEvtCache
    PROVE  IInv'
<1> DEFINE d == task["bt"].dev
<1>1. /\ task["bt"].pc = "closed" /\ ub = "none" /\ d \in Devices /\ d \notin link
      /\ Becomes("bt", Idle) /\ FreeDevices({d}, "closed")
      /\ UNCHANGED <<queue, timer_active, scan_requested, scanning>>
      /\ UNCHANGED <<link, closing, pending, ignored, ub>>
  BY DEF CloseEvtCache, At, IInv, TaskInv, LinkInv, scanVars, linkVars
<1> HIDE DEF d
<1>2. /\ Acts("bt") /\ task'["bt"].pc = "idle" /\ Hand("bt")' \subseteq Hand("bt")
  BY <1>1, IdleIs, TaskNames DEF IInv, Starts, Hand
<1>3. PICK ds : ds = {d}
  OBVIOUS
<1>4. /\ Quiet /\ DOMAIN ops' = DOMAIN ops
      /\ \A n \in DOMAIN ops : ops'[n].type = ops[n].type
      /\ cache' \in [Devices -> {"absent", "known", "open"}]
      /\ \A e \in Devices : e \notin ds => cache'[e] = cache[e]
  BY <1>1, <1>3, FreeDevicesQuiet
<1>5. LinkInv'
  <2>1. \A e \in link : cache[e] = "open" => cache'[e] = "open"
    BY <1>1, <1>3, <1>4 DEF IInv, TypeOK
  <2> QED
    BY <1>1, <1>2, <2>1, LinkStep, TaskNames DEF IInv
<1>6. ScanInv'
  <2>1. \A n \in pending : n \in pending' /\ ops'[n].type = ops[n].type
    BY <1>1, <1>4 DEF IInv, TypeOK
  <2> QED
    BY <1>1, <1>2, <2>1, ScanStep, TaskNames DEF IInv
<1> QED
  BY <1>1, <1>2, <1>4, <1>5, <1>6, BtStep DEF IInv, TypeOK

----------------------------------------------------------------------------
(* Theorems                                                                *)

LEMMA InitIInv == Init => IInv
<1> SUFFICES ASSUME Init
             PROVE  IInv
  OBVIOUS
<1>1. Idle \in Locals /\ Idle.pc = "idle" /\ Idle.hold = {}
  BY DEF Idle, Locals, AppPlaces
<1>2. \A p \in Tasks : task[p] = Idle
  BY DEF Init
<1>3. ops = <<>> /\ DOMAIN ops = {} /\ Len(ops) = 0 /\ ops \in Seq(Op)
  BY DEF Init
<1>4. TypeOK
  <2>1. cache \in [Devices -> {"absent", "known", "open"}] /\ DOMAIN task = Tasks
    BY DEF Init
  <2>2. Len(ops) <= MaxOps /\ queue = {n \in DOMAIN ops : ops[n].mem = "queued"}
    BY <1>3, MaxOpsAssumption DEF Init
  <2>3. /\ timer_active \in BOOLEAN /\ scan_requested \in BOOLEAN /\ scanning \in BOOLEAN
        /\ raced \in BOOLEAN /\ ignored \in BOOLEAN /\ ub \in {"none", "queue", "device"}
    BY DEF Init
  <2>4. link \subseteq Devices /\ closing \subseteq Devices \ link /\ pending \subseteq DOMAIN ops
    BY DEF Init
  <2> QED
    BY <1>3, <2>1, <2>2, <2>3, <2>4 DEF TypeOK, Op, Mems
<1>5. TaskInv
  BY <1>1, <1>2, TaskNames DEF Init, TaskInv, AppPlaces, DequeuePlaces, BtPlaces
<1>6. HandInv /\ PendingInv /\ OpsInv
  <2>1. \A p \in Tasks : Hand(p) = {}
    BY <1>1, <1>2 DEF Hand
  <2> QED
    BY <1>1, <1>2, <1>3, <2>1, TaskNames DEF Init, HandInv, PendingInv, OpsInv
<1>7. QueueInv
  <2>1. \A p \in Tasks : ~Busy(p)
    BY <1>1, <1>2 DEF Busy, OnQueue
  <2> QED
    BY <1>1, <1>2, <1>3, <2>1, TaskNames DEF Init, QueueInv, Overlap
<1>8. PumpInv /\ LinkInv /\ ScanInv
  BY <1>1, <1>2, TaskNames
     DEF Init, PumpInv, LinkInv, LinksKnown, ScanInv, RequestedScanResumes
<1> QED
  BY <1>4, <1>5, <1>6, <1>7, <1>8 DEF IInv

LEMMA AppKeeps == IInv /\ App => IInv'
<1> SUFFICES ASSUME IInv, App
             PROVE  IInv'
  OBVIOUS
<1>1. ASSUME NEW type \in Types, NEW d \in Devices, Enqueue(type, d) PROVE IInv'
  BY <1>1, EnqueueStep
<1>2. CASE EnqueueWalk
  BY <1>2, EnqueueWalkStep
<1>3. CASE EnqueueLink
  BY <1>3, EnqueueLinkStep
<1>4. CASE EnqueueCheck
  BY <1>4, EnqueueCheckStep
<1>5. CASE Disconnect
  BY <1>5, DisconnectStep
<1>6. CASE OperationRemoveByMac("app", "close")
  BY <1>6, OperationRemoveByMacStep
<1>7. CASE DisconnectClose
  BY <1>7, DisconnectCloseStep
<1>8. CASE ScanStart
  BY <1>8, ScanStartStep
<1>9. CASE ScanStop
  BY <1>9, ScanStopStep
<1>10. CASE ScanStopRemove
  BY <1>10, ScanStopRemoveStep
<1>11. CASE ScanStopRequest
  BY <1>11, ScanStopRequestStep
<1>12. CASE ScanCall
  BY <1>12, ScanCallStep
<1> QED
  BY <1>1, <1>2, <1>3, <1>4, <1>5, <1>6, <1>7, <1>8, <1>9, <1>10, <1>11, <1>12 DEF App

LEMMA DequeueKeeps ==
    ASSUME IInv, NEW p \in Dequeuers, OperationDequeue(p)
    PROVE  IInv'
<1>1. CASE Dequeue(p)
  BY <1>1, DequeueStep
<1>2. CASE DequeueUnlink(p)
  BY <1>2, DequeueUnlinkStep
<1>3. CASE PerformStop(p)
  BY <1>3, PerformStopStep
<1>4. CASE PerformOpen(p)
  BY <1>4, PerformOpenStep
<1>5. CASE PerformRequest(p)
  BY <1>5, PerformRequestStep
<1> QED
  BY <1>1, <1>2, <1>3, <1>4, <1>5 DEF OperationDequeue

LEMMA TimerKeeps == IInv /\ Timer => IInv'
<1> SUFFICES ASSUME IInv, Timer
             PROVE  IInv'
  OBVIOUS
<1>1. CASE QueueTimer
  BY <1>1, QueueTimerStep
<1>2. CASE PurgeDeviceList
  BY <1>2, PurgeDeviceListStep
<1>3. CASE OperationDequeue("timer")
  BY <1>3, DequeueKeeps, TaskNames
<1> QED
  BY <1>1, <1>2, <1>3 DEF Timer

LEMMA BtKeeps == IInv /\ Bt => IInv'
<1> SUFFICES ASSUME IInv, Bt
             PROVE  IInv'
  OBVIOUS
<1>1. ASSUME NEW d \in Devices, ScanResult(d) PROVE IInv'
  BY <1>1, ScanResultStep
<1>2. ASSUME NEW d \in Devices, LinkLost(d) PROVE IInv'
  BY <1>2, LinkLostStep
<1>3. ASSUME NEW d \in Devices, CloseEvt(d) PROVE IInv'
  BY <1>3, CloseEvtStep
<1>4. ASSUME NEW n \in pending, NEW ok \in BOOLEAN, OpenEvt(n, ok) PROVE IInv'
  BY <1>4, OpenEvtStep
<1>5. ASSUME NEW n \in pending, AnswerEvt(n) PROVE IInv'
  BY <1>5, AnswerEvtStep
<1>6. ASSUME NEW n \in pending, ReadAgain(n) PROVE IInv'
  BY <1>6, ReadAgainStep
<1>7. CASE OpenEvtResume
  BY <1>7, OpenEvtResumeStep
<1>8. CASE OpenEvtCache
  BY <1>8, OpenEvtCacheStep
<1>9. CASE OperationRemoveByMac("bt", "closed")
  BY <1>9, OperationRemoveByMacStep
<1>10. CASE CloseEvtCache
  BY <1>10, CloseEvtCacheStep
<1>11. CASE OperationDequeue("bt")
  BY <1>11, DequeueKeeps, TaskNames
<1> QED
  BY <1>1, <1>2, <1>3, <1>4, <1>5, <1>6, <1>7, <1>8, <1>9, <1>10, <1>11 DEF Bt

LEMMA StutterKeeps == IInv /\ UNCHANGED vars => IInv'
<1> SUFFICES ASSUME IInv, UNCHANGED vars
             PROVE  IInv'
  OBVIOUS
<1>1. /\ UNCHANGED <<cache, ops, queue, timer_active, scan_requested, scanning>>
      /\ UNCHANGED <<link, closing, pending, ignored, task, ub, raced>>
  BY DEF vars, queueVars, scanVars, linkVars
<1>2. TypeOK'
  BY <1>1 DEF IInv, TypeOK
<1>3. TaskInv'
  BY <1>1 DEF IInv, TaskInv
<1>4. MemoryInv'
  BY <1>1, IsMemory DEF MemoryInv, OpsOK, HandInv, Hand, PendingInv, OpsInv
<1>5. QueueInv'
  BY <1>1 DEF IInv, QueueInv, Overlap, Busy
<1>6. PumpInv' /\ LinkInv'
  BY <1>1 DEF IInv, PumpInv, Linked, Taking, LinkInv, LinksKnown
<1>7. ScanInv'
  BY <1>1 DEF IInv, ScanInv, RequestedScanResumes
<1> QED
  BY <1>2, <1>3, <1>4, <1>5, <1>6, <1>7, Together

(* The inductive invariant holds in every state.                           *)
THEOREM Invariance == Spec => []IInv
<1>1. IInv /\ [Next]_vars => IInv'
  BY AppKeeps, TimerKeeps, BtKeeps, StutterKeeps DEF Next
<1> QED
  BY InitIInv, <1>1, PTL DEF Spec

(* Every variable has its type, and the operation_queue holds the          *)
(* operations that have been enqueued and not taken, removed or lost.      *)
THEOREM TypeCorrect == Spec => []TypeOK
<1>1. IInv => TypeOK
  BY DEF IInv
<1> QED
  BY <1>1, Invariance, PTL

(* The queue drains for any number of operations: while any wait, the      *)
(* timer runs, the stack has an answer to give or a task is on its way,    *)
(* unless a request went to a link that was gone.                          *)
THEOREM QueueNeverStalls == Spec => []NoStall
<1>1. IInv => NoStall
  BY DEF IInv, PumpInv, NoStall, Pumping, Taking, Linked
<1> QED
  BY <1>1, Invariance, PTL

(* Without two tasks on the unlocked queue at once, no operation is used   *)
(* after it was freed, and none is lost.                                   *)
THEOREM MemorySoundAlone == Spec => []MemorySound
<1>1. IInv => MemorySound
  BY DEF IInv, QueueInv, MemorySound
<1> QED
  BY <1>1, Invariance, PTL

(* ble_disconnect_all reaches every link that is up.                       *)
THEOREM LinksInCache == Spec => []LinksKnown
<1>1. IInv => LinksKnown
  BY DEF IInv, LinkInv
<1> QED
  BY <1>1, Invariance, PTL

(* The scan that the application has requested comes back after every      *)
(* connection attempt.                                                     *)
THEOREM ScanComesBack == Spec => []RequestedScanResumes
<1>1. IInv => RequestedScanResumes
  BY DEF IInv, ScanInv
<1> QED
  BY <1>1, Invariance, PTL

----------------------------------------------------------------------------
(* Devices under operations                                                *)

Up == link \cup closing

(* A cached device that is open has a link whose CLOSE_EVT is still to be  *)
(* handled, an attempt that has failed has none, and what is requested of  *)
(* a cached device is requested of an open one.                            *)
OpenInv ==
    \A d \in Devices :
        cache[d] = "open" => d \in Up \/ (task["bt"].pc \in {"remove", "closed"}
                                            /\ task["bt"].dev = d)

AttemptInv == task["bt"].pc \in {"resume", "opened"} => (task["bt"].ok <=> task["bt"].dev \in Up)

Request(n) == ops[n].mem # "freed" /\ ops[n].type # "CONNECT"
RequestInv ==
    \A n \in DOMAIN ops : Request(n) /\ ops[n].device = "cached" => cache[ops[n].dev] = "open"

DeviceInv == OpenInv /\ AttemptInv /\ RequestInv /\ RequestsKeepDevice

(* Operations may be freed, and the Bluetooth task may go on with what it  *)
(* has at hand or begin something that is neither an answer to an attempt  *)
(* nor a CLOSE_EVT.                                                        *)
OpsAreOld ==
    \A n \in DOMAIN ops' : ops'[n].mem # "freed" =>
        /\ n \in DOMAIN ops /\ ops[n].mem # "freed"
        /\ ops'[n].type = ops[n].type /\ ops'[n].dev = ops[n].dev
        /\ ops'[n].device = ops[n].device

BtGoesOn ==
    LET t == task["bt"]  u == task'["bt"] IN
    /\ t.pc \in {"remove", "closed"} => u.pc \in {"remove", "closed"} /\ u.dev = t.dev
    /\ u.pc \in {"resume", "opened"} =>
          t.pc \in {"resume", "opened"} /\ u.dev = t.dev /\ u.ok = t.ok

LEMMA GoingOnStep ==
    ASSUME IInv, DeviceInv, OpsAreOld, BtGoesOn, cache' = cache, Up' = Up
    PROVE  DeviceInv'
<1>1. OpenInv'
  BY DEF DeviceInv, OpenInv, BtGoesOn
<1>2. AttemptInv'
  BY DEF DeviceInv, AttemptInv, BtGoesOn
<1>3. RequestInv' /\ RequestsKeepDevice'
  BY DEF DeviceInv, RequestInv, Request, RequestsKeepDevice, OpsAreOld
<1> QED
  BY <1>1, <1>2, <1>3 DEF DeviceInv

LEMMA MarkedAreOld ==
    ASSUME ops \in Seq(Op), NEW ns, NEW mem \in Mems, ops' = Marked(ns, mem),
           \A n \in ns : n \in DOMAIN ops => ops[n].mem # "freed"
    PROVE  OpsAreOld
<1>1. \A n \in DOMAIN ops : ops[n] \in Op
  OBVIOUS
<1> QED
  BY <1>1 DEF Marked, OpsAreOld, Op

LEMMA FreeAreOld ==
    ASSUME ops \in Seq(Op), NEW ns, NEW unanswered, Free(ns, unanswered)
    PROVE  OpsAreOld
<1>1. \A n \in DOMAIN ops : ops[n] \in Op
  OBVIOUS
<1> QED
  BY <1>1 DEF Free, Gone, OpsAreOld, Op

LEMMA AnsweredAreOld ==
    ASSUME IInv, NEW n \in pending, Answered(n)
    PROVE  OpsAreOld
<1>1. ops \in Seq(Op) /\ PendingInv
  BY OpsType DEF IInv
<1> QED
  BY <1>1, AnsweredIs DEF PendingInv, OpsAreOld, Stay

LEMMA OtherActs ==
    ASSUME IInv, NEW p \in Tasks, p # "bt", NEW t, Becomes(p, t)
    PROVE  BtGoesOn
  BY TaskNames DEF IInv, TaskInv, Becomes, BtGoesOn

LEMMA BtActs ==
    ASSUME IInv, task["bt"].pc \notin {"remove", "closed"}, NEW t,
           t.pc \notin {"resume", "opened"}, Becomes("bt", t)
    PROVE  BtGoesOn
  BY TaskNames DEF IInv, TaskInv, Becomes, BtGoesOn

LEMMA BtTurns ==
    ASSUME IInv, NEW pc \in AllPlaces, GoesTo("bt", pc),
           task["bt"].pc \in {"remove", "closed"} => pc \in {"remove", "closed"},
           pc \in {"resume", "opened"} => task["bt"].pc \in {"resume", "opened"}
    PROVE  BtGoesOn
<1>1. Turns("bt", pc)
  BY GoesToIs, TaskNames DEF IInv
<1> QED
  BY <1>1 DEF Turns, BtGoesOn

LEMMA SameOps == ops' = ops => OpsAreOld
  BY DEF OpsAreOld

LEMMA SameTask == task' = task => BtGoesOn
  BY DEF BtGoesOn

LEMMA SameUp == UNCHANGED linkVars \/ (link' = link /\ closing' = closing) => Up' = Up
  BY DEF linkVars, Up

LEMMA FaultKeepsDevice ==
    ASSUME IInv, DeviceInv, NEW memory, Fault(memory)
    PROVE  DeviceInv'
  BY GoingOnStep, SameOps, SameTask, SameUp DEF Fault, queueVars

(* Devices leave the cache under the operations they have: they are not    *)
(* open, unless their link is closed.                                      *)
LEMMA FreeDevicesAre ==
    ASSUME ops \in Seq(Op), cache \in [Devices -> {"absent", "known", "open"}], NEW ds,
           NEW how \in {"purged", "unreachable", "closed"}, FreeDevices(ds, how)
    PROVE  /\ DOMAIN ops' = DOMAIN ops
           /\ \A n \in DOMAIN ops :
                /\ ops'[n].mem = ops[n].mem
                /\ ops'[n].type = ops[n].type /\ ops'[n].dev = ops[n].dev
                /\ \/ /\ ops[n].dev \in ds /\ ops[n].device = "cached" /\ ops[n].mem # "freed"
                      /\ ops'[n].device = how
                   \/ /\ ~(ops[n].dev \in ds /\ ops[n].device = "cached" /\ ops[n].mem # "freed")
                      /\ ops'[n].device = ops[n].device
           /\ \A d \in Devices : IF d \in ds THEN cache'[d] = "absent" ELSE cache'[d] = cache[d]
<1>1. \A n \in DOMAIN ops : ops[n] \in Op
  OBVIOUS
<1> QED
  BY <1>1, FreeDevicesIs DEF FreeDevices, Op, Stay

LEMMA FreeDevicesStep ==
    ASSUME IInv, DeviceInv, NEW ds, NEW how \in {"purged", "unreachable", "closed"},
           FreeDevices(ds, how), how = "closed" \/ \A d \in ds : d \in Devices => cache[d] # "open"
    PROVE  RequestInv' /\ RequestsKeepDevice'
<1>1. ops \in Seq(Op) /\ cache \in [Devices -> {"absent", "known", "open"}]
  BY OpsType DEF IInv, TypeOK
<1>2. \A n \in DOMAIN ops : ops[n].mem # "freed" => ops[n].dev \in Devices
  BY DEF IInv, OpsInv
<1>3. RequestInv'
  BY <1>1, <1>2, FreeDevicesAre DEF DeviceInv, RequestInv, Request
<1>4. RequestsKeepDevice'
  BY <1>1, <1>2, FreeDevicesAre DEF DeviceInv, RequestInv, Request, RequestsKeepDevice
<1> QED
  BY <1>3, <1>4

LEMMA AppKeepsDevice ==
    ASSUME IInv, DeviceInv, App
    PROVE  DeviceInv'
<1>0. "app" \in Tasks /\ ops \in Seq(Op) /\ "queued" \in Mems /\ "lost" \in Mems
  BY TaskNames, OpsType DEF IInv, Mems
<1>1. ASSUME NEW type \in Types, NEW d \in Devices, Enqueue(type, d) PROVE DeviceInv'
  <2>1. /\ type = "CONNECT" \/ cache[d] = "open"
        /\ ops' = Append(ops, Operation(type, d))
        /\ cache' = cache /\ Up' = Up /\ BtGoesOn
    BY <1>0, <1>1, OtherActs, SameUp DEF Enqueue
  <2>2. /\ DOMAIN ops' = DOMAIN ops \cup {Len(ops) + 1}
        /\ \A n \in DOMAIN ops : ops'[n] = ops[n]
        /\ ops'[Len(ops) + 1].dev = d
    BY <1>0, <2>1, EnqueuedIs
  <2>3. ops'[Len(ops) + 1] = Operation(type, d)
    BY <1>0, <2>1
  <2>4. OpenInv' /\ AttemptInv'
    BY <2>1 DEF DeviceInv, OpenInv, AttemptInv, BtGoesOn
  <2>5. RequestInv' /\ RequestsKeepDevice'
    BY <2>1, <2>2, <2>3 DEF DeviceInv, RequestInv, Request, RequestsKeepDevice, Operation
  <2> QED
    BY <2>4, <2>5 DEF DeviceInv
<1>2. CASE EnqueueWalk
  BY <1>0, <1>2, GoingOnStep, SameOps, SameUp, OtherActs DEF EnqueueWalk, queueVars
<1>3. CASE EnqueueLink
  <2>1. task["app"].op \in DOMAIN ops /\ ops[task["app"].op].mem = "taken"
    BY <1>0, <1>3 DEF EnqueueLink, At, IInv, HandInv, Hand
  <2>2. ASSUME NEW mem \in {"queued", "lost"}, ops' = Marked({task["app"].op}, mem),
               GoesTo("app", "check"), UNCHANGED <<cache, linkVars>>
        PROVE  DeviceInv'
    <3>1. OpsAreOld
      BY <1>0, <2>1, <2>2, MarkedAreOld
    <3> QED
      BY <1>0, <2>2, <3>1, GoingOnStep, SameUp, OtherActs DEF GoesTo
  <2> QED
    BY <1>3, <2>2, FaultKeepsDevice DEF EnqueueLink
<1>4. CASE EnqueueCheck
  <2>1. CASE Fault("queue")
    BY <2>1, FaultKeepsDevice
  <2>2. CASE Becomes("app", Idle) /\ UNCHANGED <<cache, queueVars, scanVars, linkVars, ub>>
    BY <1>0, <2>2, GoingOnStep, SameOps, SameUp, OtherActs DEF queueVars
  <2> QED
    BY <1>4, <2>1, <2>2 DEF EnqueueCheck
<1>5. CASE Disconnect
  BY <1>0, <1>5, GoingOnStep, SameOps, SameUp, OtherActs DEF Disconnect, queueVars
<1>6. CASE OperationRemoveByMac("app", "close")
  <2>1. CASE Fault("device")
    BY <2>1, FaultKeepsDevice
  <2>2. ASSUME NEW ns, RemoveQueued(ns), GoesTo("app", "close"), UNCHANGED <<cache, linkVars>>
        PROVE  DeviceInv'
    BY <1>0, <2>2, GoingOnStep, FreeAreOld, SameUp, OtherActs DEF RemoveQueued, GoesTo
  <2> QED
    BY <1>6, <2>1, <2>2 DEF OperationRemoveByMac
<1>7. CASE DisconnectClose
  <2>1. Up' = Up
    BY <1>7 DEF DisconnectClose, Up
  <2>2. BtGoesOn
    BY <1>0, <1>7, OtherActs DEF DisconnectClose
  <2> QED
    BY <1>7, <2>1, <2>2, GoingOnStep, SameOps DEF DisconnectClose, queueVars
<1>8. CASE ScanStart \/ ScanStop \/ ScanStopRequest \/ ScanCall
  <2>1. BtGoesOn
    BY <1>0, <1>8, OtherActs DEF ScanStart, ScanStop, ScanStopRequest, ScanCall, GoesTo
  <2> QED
    BY <1>8, <2>1, GoingOnStep, SameOps, SameUp
       DEF ScanStart, ScanStop, ScanStopRequest, ScanCall, queueVars
<1>9. CASE ScanStopRemove
  <2>1. ASSUME NEW ns, RemoveQueued(ns), GoesTo("app", "unrequest"), UNCHANGED <<cache, linkVars>>
        PROVE  DeviceInv'
    BY <1>0, <2>1, GoingOnStep, FreeAreOld, SameUp, OtherActs DEF RemoveQueued, GoesTo
  <2> QED
    BY <1>9, <2>1 DEF ScanStopRemove
<1> QED
  BY <1>1, <1>2, <1>3, <1>4, <1>5, <1>6, <1>7, <1>8, <1>9 DEF App

(* ble_operation_dequeue and ble_operation_perform, by either task.        *)
LEMMA DequeueKeepsDevice ==
    ASSUME IInv, DeviceInv, NEW p \in Dequeuers, OperationDequeue(p)
    PROVE  DeviceInv'
<1> DEFINE n == task[p].op
<1>1. p \in Tasks /\ task[p].pc \notin {"remove", "closed"} /\ ops \in Seq(Op) /\ "taken" \in Mems
  BY TaskNames, OpsType
     DEF IInv, Mems, OperationDequeue, Dequeue, DequeueUnlink, PerformStop, PerformOpen,
         PerformRequest, At
<1>2. ASSUME NEW t, t.pc \notin {"resume", "opened"}, Becomes(p, t) PROVE BtGoesOn
  BY <1>1, <1>2, OtherActs, BtActs
<1>3. ASSUME NEW pc \in {"open", "stop", "request"}, GoesTo(p, pc) PROVE BtGoesOn
  <2>1. Turns(p, pc)
    BY <1>1, <1>3, GoesToIs, PlacesAre DEF IInv
  <2> QED
    BY <1>1, <2>1, TaskNames DEF Turns, Acts, BtGoesOn
<1>4. Idle.pc = "idle"
  BY DEF Idle
<1>5. CASE Dequeue(p)
  <2>1. OpsAreOld
    BY <1>1, <1>5, FreeAreOld, SameOps DEF Dequeue
  <2>2. BtGoesOn
    <3>1. [task[p] EXCEPT !.pc = "unlink", !.op = Min(queue)].pc = "unlink"
      BY <1>1 DEF IInv, TaskInv, Locals
    <3> QED
      BY <1>2, <1>4, <1>5, <3>1 DEF Dequeue
  <2> QED
    BY <1>5, <2>1, <2>2, GoingOnStep, SameUp DEF Dequeue
<1>6. CASE DequeueUnlink(p)
  <2>1. CASE Fault("queue")
    BY <2>1, FaultKeepsDevice
  <2>2. CASE /\ ops[n].mem = "queued" /\ ops' = Marked({n}, "taken")
             /\ GoesTo(p, IF ops[n].type = "CONNECT" THEN "stop" ELSE "request")
             /\ UNCHANGED <<cache, linkVars>>
    <3>1. OpsAreOld
      BY <1>1, <2>2, MarkedAreOld
    <3>2. BtGoesOn
      BY <1>3, <2>2
    <3> QED
      BY <2>2, <3>1, <3>2, GoingOnStep, SameUp
  <2> QED
    BY <1>6, <2>1, <2>2 DEF DequeueUnlink
<1>7. CASE PerformStop(p)
  BY <1>3, <1>7, GoingOnStep, SameOps, SameUp DEF PerformStop, queueVars
<1>8. CASE PerformOpen(p)
  <2>1. CASE Fault("device")
    BY <2>1, FaultKeepsDevice
  <2>2. CASE /\ Free(task[p].hold \cup {n}, pending') /\ Becomes(p, Idle)
             /\ UNCHANGED <<cache, link, closing>>
    BY <1>1, <1>2, <1>4, <2>2, FreeAreOld, GoingOnStep, SameUp
  <2> QED
    BY <1>8, <2>1, <2>2 DEF PerformOpen
<1>9. CASE PerformRequest(p)
  <2>1. CASE Fault("device")
    BY <2>1, FaultKeepsDevice
  <2>2. CASE /\ Free(task[p].hold \cup {n}, pending') /\ Becomes(p, Idle)
             /\ UNCHANGED <<cache, link, closing>>
    BY <1>1, <1>2, <1>4, <2>2, FreeAreOld, GoingOnStep, SameUp
  <2>3. CASE /\ ops' = ops /\ UNCHANGED <<cache, link, closing>>
             /\ Becomes(p, [task[p] EXCEPT !.pc = "dequeue", !.op = 0, !.hold = @ \cup {n}])
    <3>1. [task[p] EXCEPT !.pc = "dequeue", !.op = 0, !.hold = @ \cup {n}].pc = "dequeue"
      BY <1>1 DEF IInv, TaskInv, Locals
    <3>2. BtGoesOn
      BY <1>2, <2>3, <3>1
    <3> QED
      BY <2>3, <3>2, SameOps, GoingOnStep, SameUp
  <2> QED
    BY <1>9, <2>1, <2>2, <2>3 DEF PerformRequest
<1> QED
  BY <1>5, <1>6, <1>7, <1>8, <1>9 DEF OperationDequeue

LEMMA TimerKeepsDevice ==
    ASSUME IInv, DeviceInv, Timer
    PROVE  DeviceInv'
<1>1. CASE QueueTimer
  BY <1>1, TaskNames, GoingOnStep, SameOps, SameUp, OtherActs DEF QueueTimer, GoesTo, queueVars
<1>2. CASE PurgeDeviceList
  <2> DEFINE ds == {d \in Devices : cache[d] = "known"}
  <2>1. /\ FreeDevices(ds, "purged") /\ UNCHANGED <<linkVars, task>>
        /\ \A d \in ds : cache[d] # "open"
    BY <1>2 DEF PurgeDeviceList
  <2>2. ops \in Seq(Op) /\ cache \in [Devices -> {"absent", "known", "open"}]
    BY OpsType DEF IInv, TypeOK
  <2>3. Up' = Up
    BY <2>1, SameUp
  <2> HIDE DEF ds
  <2>4. RequestInv' /\ RequestsKeepDevice'
    BY <2>1, FreeDevicesStep
  <2>5. \A d \in Devices : cache'[d] = "open" => cache[d] = "open"
    BY <2>1, <2>2, FreeDevicesAre
  <2> QED
    BY <2>1, <2>3, <2>4, <2>5 DEF DeviceInv, OpenInv, AttemptInv
<1>3. CASE OperationDequeue("timer")
  BY <1>3, DequeueKeepsDevice, TaskNames
<1> QED
  BY <1>1, <1>2, <1>3 DEF Timer

(* An attempt is answered: no link that is closing is left behind it, so   *)
(* that it has a link if it has succeeded, and none if it has failed.      *)
LEMMA OpenEvtKeepsDevice ==
    ASSUME IInv, DeviceInv, NEW n \in pending, NEW ok \in BOOLEAN, OpenEvt(n, ok)
    PROVE  DeviceInv'
<1> DEFINE d == ops[n].dev
           t == [Idle EXCEPT !.pc = IF scan_requested THEN "resume" ELSE "opened",
                             !.dev = d, !.ok = ok]
<1>1. /\ task["bt"].pc = "idle" /\ d \notin closing /\ (ok \/ d \notin link)
      /\ Answered(n) /\ Becomes("bt", t) /\ UNCHANGED <<cache, closing>>
      /\ link' = IF ok THEN link \cup {d} ELSE link
  BY DEF OpenEvt, At
<1>2. t.pc \in {"resume", "opened"} /\ t.dev = d /\ t.ok = ok
  BY DEF Idle
<1> HIDE DEF t, d
<1>3. task'["bt"] = t
  BY <1>1, TaskNames DEF Becomes, IInv, TaskInv
<1>4. \A e \in Up : e \in Up'
  BY <1>1 DEF Up
<1>5. OpenInv'
  BY <1>1, <1>4 DEF DeviceInv, OpenInv
<1>6. AttemptInv'
  BY <1>1, <1>2, <1>3 DEF AttemptInv, Up
<1>7. RequestInv' /\ RequestsKeepDevice'
  BY <1>1, AnsweredAreOld DEF OpsAreOld, DeviceInv, RequestInv, Request, RequestsKeepDevice
<1> QED
  BY <1>5, <1>6, <1>7 DEF DeviceInv

LEMMA OpenEvtCacheKeepsDevice ==
    ASSUME IInv, DeviceInv, OpenEvtCache
    PROVE  DeviceInv'
<1> DEFINE d == task["bt"].dev
           t == [Idle EXCEPT !.pc = "dequeue"]
<1>1. /\ task["bt"].pc = "opened" /\ d \in Devices
      /\ ops \in Seq(Op) /\ cache \in [Devices -> {"absent", "known", "open"}]
  BY OpsType DEF OpenEvtCache, At, IInv, TaskInv, TypeOK
<1>2. t.pc = "dequeue"
  BY DEF Idle
<1> HIDE DEF t, d
<1>3. ASSUME Becomes("bt", t)
      PROVE  task'["bt"].pc = "dequeue"
  BY <1>2, <1>3, TaskNames DEF Becomes, IInv, TaskInv
<1>4. CASE /\ task["bt"].ok /\ cache' = [cache EXCEPT ![d] = "open"] /\ Becomes("bt", t)
           /\ UNCHANGED <<queueVars, linkVars>>
  <2>1. d \in Up /\ Up' = Up /\ ops' = ops
    BY <1>1, <1>4, SameUp DEF DeviceInv, AttemptInv, queueVars, d
  <2>2. cache'[d] = "open" /\ \A e \in Devices : e # d => cache'[e] = cache[e]
    BY <1>1, <1>4
  <2>3. OpenInv' /\ AttemptInv'
    BY <1>1, <1>3, <1>4, <2>1, <2>2 DEF DeviceInv, OpenInv, AttemptInv
  <2>4. \A m \in DOMAIN ops : ops[m].mem # "freed" => ops[m].dev \in Devices
    BY DEF IInv, OpsInv
  <2>5. RequestInv' /\ RequestsKeepDevice'
    BY <2>1, <2>2, <2>4 DEF DeviceInv, RequestInv, Request, RequestsKeepDevice
  <2> QED
    BY <2>3, <2>5 DEF DeviceInv
<1>5. CASE Fault("device")
  BY <1>5, FaultKeepsDevice
<1>6. CASE /\ ~task["bt"].ok /\ FreeDevices({d}, "unreachable") /\ Becomes("bt", t)
           /\ UNCHANGED linkVars
  <2>1. d \notin Up /\ Up' = Up
    BY <1>1, <1>6, SameUp DEF DeviceInv, AttemptInv, d
  <2>2. cache[d] # "open"
    BY <1>1, <2>1 DEF DeviceInv, OpenInv
  <2>3. PICK ds : ds = {d}
    OBVIOUS
  <2>4. RequestInv' /\ RequestsKeepDevice'
    BY <1>6, <2>2, <2>3, FreeDevicesStep
  <2>5. \A e \in Devices : cache'[e] = "open" => cache[e] = "open"
    BY <1>1, <1>6, <2>3, FreeDevicesAre
  <2>6. OpenInv' /\ AttemptInv'
    BY <1>1, <1>3, <1>6, <2>1, <2>5 DEF DeviceInv, OpenInv, AttemptInv
  <2> QED
    BY <2>4, <2>6 DEF DeviceInv
<1> QED
  BY <1>4, <1>5, <1>6 DEF OpenEvtCache, t, d

LEMMA CloseEvtKeepsDevice ==
    ASSUME IInv, DeviceInv, NEW d \in Devices, CloseEvt(d)
    PROVE  DeviceInv'
<1> DEFINE t == [Idle EXCEPT !.pc = "remove", !.dev = d]
<1>1. /\ task["bt"].pc = "idle" /\ closing' = closing \ {d} /\ Becomes("bt", t)
      /\ UNCHANGED <<cache, link>> /\ ops' = ops
  BY DEF CloseEvt, At, queueVars
<1>2. t.pc = "remove" /\ t.dev = d
  BY DEF Idle
<1> HIDE DEF t
<1>3. task'["bt"] = t
  BY <1>1, TaskNames DEF Becomes, IInv, TaskInv
<1>4. \A e \in Up : e # d => e \in Up'
  BY <1>1 DEF Up
<1>5. OpenInv' /\ AttemptInv'
  BY <1>1, <1>2, <1>3, <1>4 DEF DeviceInv, OpenInv, AttemptInv
<1>6. RequestInv' /\ RequestsKeepDevice'
  BY <1>1 DEF DeviceInv, RequestInv, Request, RequestsKeepDevice
<1> QED
  BY <1>5, <1>6 DEF DeviceInv

LEMMA CloseEvtCacheKeepsDevice ==
    ASSUME IInv, DeviceInv, CloseEvtCache
    PROVE  DeviceInv'
<1> DEFINE d == task["bt"].dev
<1>1. /\ task["bt"].pc = "closed" /\ FreeDevices({d}, "closed") /\ Becomes("bt", Idle)
      /\ Up' = Up /\ ops \in Seq(Op) /\ cache \in [Devices -> {"absent", "known", "open"}]
  BY OpsType, SameUp DEF CloseEvtCache, At, IInv, TypeOK
<1>2. task'["bt"].pc = "idle"
  BY <1>1, TaskNames DEF Becomes, IInv, TaskInv, Idle
<1>3. PICK ds : ds = {d}
  OBVIOUS
<1>4. RequestInv' /\ RequestsKeepDevice'
  BY <1>1, <1>3, FreeDevicesStep
<1>5. \A e \in Devices : cache'[e] = "open" => cache[e] = "open" /\ e # d
  BY <1>1, <1>3, FreeDevicesAre
<1>6. OpenInv' /\ AttemptInv'
  BY <1>1, <1>2, <1>5 DEF DeviceInv, OpenInv, AttemptInv
<1> QED
  BY <1>4, <1>6 DEF DeviceInv

LEMMA BtKeepsDevice ==
    ASSUME IInv, DeviceInv, Bt
    PROVE  DeviceInv'
<1>0. /\ task["bt"].pc = "idle" => task["bt"].pc \notin {"remove", "closed"}
      /\ ops \in Seq(Op)
  BY OpsType DEF IInv
<1>1. ASSUME NEW d \in Devices, ScanResult(d) PROVE DeviceInv'
  <2>1. /\ cache[d] = "absent" /\ cache' = [cache EXCEPT ![d] = "known"] /\ ops' = ops
        /\ task' = task /\ Up' = Up
    BY <1>1, SameUp DEF ScanResult, queueVars
  <2>2. cache'[d] = "known" /\ \A e \in Devices : e # d => cache'[e] = cache[e]
    BY <2>1 DEF IInv, TypeOK
  <2>3. \A m \in DOMAIN ops : ops[m].mem # "freed" => ops[m].dev \in Devices
    BY DEF IInv, OpsInv
  <2>4. OpenInv' /\ AttemptInv'
    BY <2>1, <2>2 DEF DeviceInv, OpenInv, AttemptInv
  <2>5. RequestInv' /\ RequestsKeepDevice'
    BY <2>1, <2>2, <2>3 DEF DeviceInv, RequestInv, Request, RequestsKeepDevice
  <2> QED
    BY <2>4, <2>5 DEF DeviceInv
<1>2. ASSUME NEW d \in Devices, LinkLost(d) PROVE DeviceInv'
  <2>1. Up' = Up
    BY <1>2 DEF LinkLost, Up
  <2> QED
    BY <1>2, <2>1, GoingOnStep, SameOps, SameTask DEF LinkLost, queueVars
<1>3. ASSUME NEW n \in pending, AnswerEvt(n) PROVE DeviceInv'
  <2>1. [Idle EXCEPT !.pc = "dequeue"].pc = "dequeue"
    BY DEF Idle
  <2>2. BtGoesOn
    BY <1>0, <1>3, <2>1, BtActs DEF AnswerEvt, At
  <2> QED
    BY <1>3, <2>2, GoingOnStep, AnsweredAreOld, SameUp DEF AnswerEvt
<1>4. ASSUME NEW n \in pending, ReadAgain(n) PROVE DeviceInv'
  BY <1>4, GoingOnStep, AnsweredAreOld, SameTask, SameUp DEF ReadAgain
<1>5. CASE OpenEvtResume
  <2>1. BtGoesOn
    BY <1>5, BtTurns, PlacesAre DEF OpenEvtResume, At
  <2> QED
    BY <1>5, <2>1, GoingOnStep, SameOps, SameUp DEF OpenEvtResume, queueVars
<1>6. CASE OperationRemoveByMac("bt", "closed")
  <2>1. CASE Fault("device")
    BY <2>1, FaultKeepsDevice
  <2>2. ASSUME NEW ns, RemoveQueued(ns), GoesTo("bt", "closed"), UNCHANGED <<cache, linkVars>>
        PROVE  DeviceInv'
    <3>1. BtGoesOn
      BY <2>2, BtTurns, PlacesAre
    <3> QED
      BY <1>0, <2>2, <3>1, GoingOnStep, FreeAreOld, SameUp DEF RemoveQueued
  <2> QED
    BY <1>6, <2>1, <2>2 DEF OperationRemoveByMac
<1> QED
  BY <1>1, <1>2, <1>3, <1>4, <1>5, <1>6, OpenEvtKeepsDevice, OpenEvtCacheKeepsDevice,
     CloseEvtKeepsDevice, CloseEvtCacheKeepsDevice, DequeueKeepsDevice, TaskNames DEF Bt

(* Reads, writes and registrations keep the device they point to until the *)
(* CLOSE_EVT of its link: purges and failed attempts never free it.        *)
THEOREM RequestsHaveDevice == Spec => []RequestsKeepDevice
<1>1. Init => DeviceInv
  <2> SUFFICES ASSUME Init
               PROVE  DeviceInv
    OBVIOUS
  <2>1. ops = <<>> /\ task["bt"].pc = "idle" /\ \A d \in Devices : cache[d] = "absent"
    BY TaskNames DEF Init, Idle
  <2> QED
    BY <2>1 DEF DeviceInv, OpenInv, AttemptInv, RequestInv, RequestsKeepDevice
<1>2. IInv /\ DeviceInv /\ [Next]_vars => DeviceInv'
  <2> SUFFICES ASSUME IInv, DeviceInv, [Next]_vars
               PROVE  DeviceInv'
    OBVIOUS
  <2>1. CASE UNCHANGED vars
    BY <2>1, GoingOnStep, SameOps, SameTask, SameUp DEF vars, queueVars
  <2> QED
    BY <2>1, AppKeepsDevice, TimerKeepsDevice, BtKeepsDevice DEF Next
<1>3. DeviceInv => RequestsKeepDevice
  BY DEF DeviceInv
<1> QED
  BY <1>1, <1>2, <1>3, Invariance, PTL DEF Spec
=============================================================================
