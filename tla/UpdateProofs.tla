---------------------------- MODULE UpdateProofs ----------------------------
(***************************************************************************)
(* Proofs about Update, for files and partitions of every length and any   *)
(* number of downloads.  The argument follows the one handle that a        *)
(* download writes through: what its partition holds so far, and that no   *)
(* other download is under way that could change it (unless one was opened *)
(* while an earlier one was being ended).                                  *)
(***************************************************************************)
EXTENDS Update, TLAPS

(* The sets of TypeOK, and TypeOK in terms of them.                        *)
Context(n) == [in_progress : BOOLEAN, ops : Types \cup {"none"},
               bytes_written : Nat, handle : 0 .. n]
Handle == [type : Types, partition : 0 .. 1,
           bytes_written : 0 .. ImageLen, open : BOOLEAN]
Task == [pc : {"none", "body", "begin", "write", "close", "take", "end", "report"},
         type : Types, file : Files, chunk : 1 .. ImageLen + 2, ok : BOOLEAN,
         err : {"none", "NO_CHANGE", "SUCCESS", "FAILED_END"},
         ops : Types \cup {"none"}, handle : Nat]
Contents == [1 .. ImageLen -> {Garbage, Blank} \cup 0 .. MaxDownloads]

Typed ==
    /\ ota_ctx \in Context(Len(handles))
    /\ handles \in Seq(Handle)
    /\ task \in [Downloads -> Task]
    /\ count \in 0 .. MaxDownloads
    /\ flash \in [Types -> [0 .. 1 -> Contents]]
    /\ boot \in [Types -> 0 .. 1] /\ running \in 0 .. 1
    /\ last \in [n : 0 .. MaxDownloads, type : Types]
    /\ {completed, overlapped, write_failed, oversized, ub} \subseteq BOOLEAN

(* A download between ota_open and ota_close.                              *)
Downloading(n) == task[n].pc \in {"body", "begin", "write", "close"}

(* A download that has not been ended yet.                                 *)
Active(n) == task[n].pc \in {"body", "begin", "write", "close", "take", "end"}

(* It has the handle it began with, and which one that is.                 *)
HasHandle(n) ==
    \/ task[n].pc \in {"write", "end"}
    \/ task[n].pc \in {"body", "close", "take"} /\ ota_ctx.bytes_written > 0
HandleOf(n) == IF task[n].pc = "end" THEN task[n].handle ELSE ota_ctx.handle
OpsOf(n) == IF task[n].pc = "end" THEN task[n].ops ELSE ota_ctx.ops

(* What download n has written through h: its chunks in their places as    *)
(* long as it has not missed one, and nothing behind them.                 *)
Written(n, h) ==
    LET b == handles[h].bytes_written
        content == flash[handles[h].type][handles[h].partition]
    IN  /\ b < task[n].chunk
        /\ IF task[n].pc = "end" THEN b > 0 ELSE b = ota_ctx.bytes_written
        /\ \A i \in 1 .. ImageLen :
               IF i <= b THEN content[i] \in {n, Garbage} ELSE content[i] = Blank
        /\ task[n].file = "file" /\ b = task[n].chunk - 1 =>
               \A i \in 1 .. ImageLen : i <= b => content[i] = n

Installed(n, t) == \A i \in 1 .. ImageLen : flash[t][boot[t]][i] = n

----------------------------------------------------------------------------
(* The inductive invariant                                                 *)
TaskInv ==
    \A n \in Downloads :
        /\ task[n].handle <= Len(handles)
        /\ task[n].chunk <= Lengths[task[n].file] + 1
        /\ task[n].pc \in {"begin", "write"} => task[n].chunk <= Lengths[task[n].file]
        /\ task[n].file = "long" => oversized
        /\ task[n].pc = "begin" => ota_ctx.bytes_written = 0
        /\ Downloading(n) => ota_ctx.ops = task[n].type

(* No handle reaches the firmware that runs.                               *)
HandlesInv ==
    \A h \in 1 .. Len(handles) :
        handles[h].type = "firmware" => handles[h].partition = 1 - running

(* The handle of the one active download: valid, unless a write of the     *)
(* configuration has freed it, and not of the active partition.            *)
Owns(n) ==
    LET type == task[n].type
        h == HandleOf(n)
    IN  /\ n = count
        /\ OpsOf(n) = type
        /\ HasHandle(n) =>
            /\ Valid(type, h) \/ (type = "config" /\ write_failed)
            /\ Valid(type, h) =>
                /\ Written(n, h)
                /\ type = "config" => handles[h].partition # boot["config"]
HandleInv == \A n \in Downloads : Active(n) => Owns(n)

(* A success, from the switch to the next download.                        *)
ReportInv ==
    \A n \in Downloads :
        task[n].pc = "report" /\ task[n].err = "SUCCESS" /\ n = count /\ ~oversized
            => Installed(n, task[n].type)
LastInv ==
    last # NoLast =>
        /\ \A n \in Downloads : ~Active(n)
        /\ ~oversized => Installed(last.n, last.type)

(* ota_ctx has one user at a time: in_progress keeps a second download     *)
(* from opening while one reads the body or is yet to be closed.           *)
OneDownload ==
    \A n \in Downloads : Downloading(n) =>
        ota_ctx.in_progress /\ \A m \in Downloads : Downloading(m) => m = n

IInv ==
    /\ Typed
    /\ TaskInv
    /\ OneDownload
    /\ HandlesInv
    /\ FirmwareBoots
    /\ ~overlapped => HandleInv /\ ReportInv /\ LastInv
    /\ ActiveIsWhole
    /\ HandleSound

----------------------------------------------------------------------------
(* Lemmas about the operators                                              *)

(* What the changes of a download's task leave alone.                      *)
LEMMA Moves ==
    ASSUME NEW n \in Downloads, task \in [Downloads -> Task],
           NEW t \in Task, task' = [task EXCEPT ![n] = t]
    PROVE  /\ task' \in [Downloads -> Task]
           /\ task'[n] = t
           /\ \A m \in Downloads : m # n => task'[m] = task[m]
  OBVIOUS

LEMMA TaskFields ==
    ASSUME NEW t \in Task
    PROVE  /\ \A pc \in {"body", "begin", "write", "close", "take", "end", "report"} :
                  [t EXCEPT !.pc = pc] \in Task
           /\ \A type \in Types : [t EXCEPT !.type = type] \in Task
           /\ \A file \in Files : [t EXCEPT !.file = file] \in Task
  BY DEF Task

LEMMA ContextHandle ==
    ASSUME NEW j \in Nat, NEW k \in Nat, NEW c \in Context(j)
    PROVE  LET d == [c EXCEPT !.handle = k]
           IN  /\ d \in Context(k) /\ d.handle = k
               /\ d.in_progress = c.in_progress /\ d.ops = c.ops
               /\ d.bytes_written = c.bytes_written
  BY DEF Context

LEMMA ContextWritten ==
    ASSUME NEW j \in Nat, NEW c \in Context(j)
    PROVE  LET d == [c EXCEPT !.bytes_written = @ + 1]
           IN  /\ d \in Context(j) /\ d.handle = c.handle
               /\ d.in_progress = c.in_progress /\ d.ops = c.ops
               /\ d.bytes_written = c.bytes_written + 1
  BY DEF Context

LEMMA HandleFields ==
    ASSUME NEW h \in Handle
    PROVE  /\ h.type \in Types /\ h.partition \in 0 .. 1 /\ h.bytes_written \in 0 .. ImageLen
           /\ h.open \in BOOLEAN
  BY DEF Handle

LEMMA HandleWritten ==
    ASSUME NEW h \in Handle, NEW b \in 0 .. ImageLen
    PROVE  LET e == [h EXCEPT !.bytes_written = b]
           IN  /\ e \in Handle /\ e.type = h.type /\ e.partition = h.partition
               /\ e.bytes_written = b /\ e.open = h.open
  BY DEF Handle

LEMMA HandleFreed ==
    ASSUME NEW h \in Handle
    PROVE  LET e == [h EXCEPT !.open = FALSE]
           IN  /\ e \in Handle /\ e.type = h.type /\ e.partition = h.partition
               /\ e.bytes_written = h.bytes_written /\ ~e.open
  BY DEF Handle

(* Changing an entry of handles.                                           *)
LEMMA HandlesExcept ==
    ASSUME NEW s \in Seq(Handle), NEW k \in 1 .. Len(s), NEW e \in Handle
    PROVE  /\ [s EXCEPT ![k] = e] \in Seq(Handle)
           /\ Len([s EXCEPT ![k] = e]) = Len(s)
           /\ \A i \in 1 .. Len(s) :
                  [s EXCEPT ![k] = e][i] = IF i = k THEN e ELSE s[i]
  OBVIOUS

LEMMA HandlesAppend ==
    ASSUME NEW s \in Seq(Handle), NEW e \in Handle
    PROVE  /\ Append(s, e) \in Seq(Handle)
           /\ Len(Append(s, e)) = Len(s) + 1
           /\ \A i \in 1 .. Len(s) : Append(s, e)[i] = s[i]
           /\ Append(s, e)[Len(s) + 1] = e
  OBVIOUS

(* A whole partition whose first chunk is from n is all from n.            *)
LEMMA WholeIsFirst ==
    ASSUME NEW c, NEW n \in Downloads, Whole(c), c[1] \in {n, Garbage}
    PROVE  \A i \in 1 .. ImageLen : c[i] = n
  BY UpdateAssumption DEF Whole, Garbage

LEMMA LengthsValue ==
    /\ Files = {"file", "long", "page", "none"}
    /\ Lengths["file"] = ImageLen /\ Lengths["long"] = ImageLen + 1
    /\ Lengths["page"] = 1 /\ Lengths["none"] = 0
    /\ \A f \in Files : Lengths[f] \in 0 .. ImageLen + 1
  BY UpdateAssumption DEF Lengths, Files

LEMMA NoTaskType == NoTask \in Task
  BY UpdateAssumption, LengthsValue DEF NoTask, Task, Types

LEMMA TypedTypeOK == Typed <=> TypeOK
  BY DEF Typed, TypeOK, Context, Handle, Task, Contents

----------------------------------------------------------------------------
LEMMA InvInit == Init => IInv
<1> SUFFICES ASSUME Init PROVE IInv
  OBVIOUS
<1>2. \A n \in Downloads : task[n] = NoTask
  BY DEF Init
<1>3. flash \in [Types -> [0 .. 1 -> Contents]]
  <2>1. [i \in 1 .. ImageLen |-> 0] \in Contents /\ Erased \in Contents
    BY UpdateAssumption DEF Contents, Erased
  <2> QED
    BY <2>1 DEF Init
<1>4. Typed
  <2>1. handles \in Seq(Handle) /\ Len(handles) = 0
    BY DEF Init
  <2>2. task \in [Downloads -> Task]
    BY NoTaskType DEF Init
  <2>3. last \in [n : 0 .. MaxDownloads, type : Types]
    BY UpdateAssumption DEF Init, NoLast, Types
  <2>4. ota_ctx \in Context(Len(handles))
    BY <2>1 DEF Init, Context
  <2> QED
    <3>1. {completed, overlapped, write_failed, oversized, ub} \subseteq BOOLEAN
      BY Zenon DEF Init
    <3>2. count \in 0 .. MaxDownloads /\ boot \in [Types -> 0 .. 1] /\ running \in 0 .. 1
      BY UpdateAssumption DEF Init
    <3> QED
      BY <1>3, <2>1, <2>2, <2>3, <2>4, <3>1, <3>2 DEF Typed
<1>5. \A t \in Types : Whole(flash[t][boot[t]])
  <2>1. 0 \in 0 .. MaxDownloads
    BY UpdateAssumption
  <2>2. \A t \in Types : flash[t][boot[t]] = [i \in 1 .. ImageLen |-> 0]
    BY DEF Init
  <2> QED
    BY <2>1, <2>2 DEF Whole
<1>6. TaskInv /\ OneDownload /\ HandleInv /\ ReportInv
  BY <1>2, UpdateAssumption, LengthsValue
  DEF Init, TaskInv, OneDownload, HandleInv, ReportInv, Active, Downloading, NoTask
<1> QED
  BY <1>4, <1>5, <1>6
  DEF Init, IInv, HandlesInv, FirmwareBoots, ActiveIsWhole, HandleSound, LastInv, Types

(* ota_open, when no other download is open.                               *)
LEMMA DownloadStep ==
    ASSUME IInv, NEW type \in Types, NEW file \in Files, Download(type, file)
    PROVE  IInv'
<1> DEFINE n == count + 1
           t == [NoTask EXCEPT !.pc = "body", !.type = type, !.file = file]
<1>1. n \in Downloads /\ t \in Task /\ task \in [Downloads -> Task]
  <2>1. n \in Downloads /\ task \in [Downloads -> Task]
    BY UpdateAssumption DEF Download, IInv, Typed, Downloads
  <2>2. t \in Task
    BY NoTaskType DEF Task
  <2> QED
    BY <2>1, <2>2
<1>2. task' = [task EXCEPT ![n] = t]
  BY DEF Download
<1>3. /\ task' \in [Downloads -> Task]
      /\ task'[n] = t
      /\ \A m \in Downloads : m # n => task'[m] = task[m]
  BY <1>1, <1>2, Moves
<1>4. /\ t.pc = "body" /\ t.type = type /\ t.file = file /\ t.chunk = 1 /\ t.handle = 0
  BY DEF NoTask
<1>5. /\ ota_ctx'.in_progress /\ ota_ctx'.ops = type /\ ota_ctx'.bytes_written = 0
      /\ ota_ctx' \in Context(Len(handles))
  BY DEF Download, Open, IInv, Typed, Context
<1> HIDE DEF t
<1>6. \A m \in Downloads : ~Downloading(m)
  BY DEF Download, Open, IInv, OneDownload
<1>7. Typed'
  <2>1. last' \in [n : 0 .. MaxDownloads, type : Types]
    BY UpdateAssumption DEF Download, NoLast, Types
  <2>2. count' \in 0 .. MaxDownloads
    BY UpdateAssumption DEF Download, IInv, Typed
  <2>3. overlapped' \in BOOLEAN /\ oversized' \in BOOLEAN
    BY DEF Download, IInv, Typed
  <2> QED
    BY <1>3, <1>5, <2>1, <2>2, <2>3 DEF Download, IInv, Typed, stored
<1>8. TaskInv'
  <2>1. UNCHANGED handles /\ (file = "long" => oversized') /\ (oversized => oversized')
    BY DEF Download
  <2>2. 1 <= Lengths[file] + 1
    BY LengthsValue, UpdateAssumption
  <2>3. \A m \in Downloads : task[m].pc # "begin"
    BY <1>6 DEF Downloading
  <2>4. Len(handles) \in Nat
    BY DEF IInv, Typed
  <2> QED
    BY <1>3, <1>4, <1>5, <1>6, <2>1, <2>2, <2>3, <2>4
    DEF IInv, TaskInv, Downloading
<1>9. OneDownload'
  BY <1>3, <1>5, <1>6 DEF OneDownload, Downloading
<1>10. ~overlapped' => ~overlapped /\ \A m \in Downloads : ~Active(m)
  BY <1>6 DEF Download, Active, Downloading
<1>11. ~overlapped' => HandleInv' /\ ReportInv' /\ LastInv'
  <2> SUFFICES ASSUME ~overlapped' PROVE HandleInv' /\ ReportInv' /\ LastInv'
    OBVIOUS
  <2>1. HandleInv'
    BY <1>3, <1>4, <1>5, <1>10 DEF Download, HandleInv, Owns, Active, HasHandle, OpsOf
  <2>2. ReportInv'
    BY <1>3, <1>4 DEF Download, ReportInv
  <2> QED
    BY <2>1, <2>2 DEF LastInv, Download, NoLast
<1>12. FirmwareBoots' /\ HandlesInv' /\ ActiveIsWhole' /\ HandleSound'
  BY DEF Download, IInv, FirmwareBoots, HandlesInv, ActiveIsWhole, HandleSound, stored, Whole, Runs
<1> QED
  BY <1>7, <1>8, <1>9, <1>11, <1>12 DEF IInv

(* The task of the one active download is at work.                         *)
LEMMA OneActive ==
    ASSUME IInv, ~overlapped, NEW n \in Downloads, Active(n),
           \A m \in Downloads : m # n => task'[m] = task[m],
           Active(n)' => Owns(n)'
    PROVE  HandleInv'
  BY DEF IInv, HandleInv, Owns, Active

(* Nothing is reported, and nothing was, while a download is active.       *)
LEMMA NoReport ==
    ASSUME IInv, ~overlapped, NEW n \in Downloads, Active(n),
           \A m \in Downloads : m # n => task'[m] = task[m],
           task'[n].pc # "report" \/ task'[n].err # "SUCCESS",
           UNCHANGED <<count, last>>
    PROVE  ReportInv' /\ LastInv'
<1>1. n = count /\ last = NoLast
  BY DEF IInv, HandleInv, Owns, LastInv
<1> QED
  BY <1>1 DEF ReportInv, LastInv, NoLast

LEMMA ClaimsStill ==
    ASSUME HandleInv, ReportInv, LastInv,
           UNCHANGED <<ota_ctx, handles, task, count, flash, boot, write_failed, oversized, last>>
    PROVE  HandleInv' /\ ReportInv' /\ LastInv'
<1>1. \A n : /\ Active(n)' <=> Active(n)
             /\ HasHandle(n)' <=> HasHandle(n)
             /\ HandleOf(n)' = HandleOf(n) /\ OpsOf(n)' = OpsOf(n)
  BY DEF Active, HasHandle, HandleOf, OpsOf
<1>2. \A type, h : Valid(type, h) <=> Valid(type, h)'
  BY DEF Valid
<1>3. \A n, h : Written(n, h) <=> Written(n, h)'
  BY DEF Written
<1>4. \A n : Owns(n) => Owns(n)'
  BY <1>1, <1>2, <1>3 DEF Owns
<1>5. HandleInv'
  BY <1>1, <1>4 DEF HandleInv
<1>6. \A n, t : Installed(n, t) => Installed(n, t)'
  BY DEF Installed
<1>7. ReportInv'
  BY <1>6 DEF ReportInv
<1>8. LastInv'
  BY <1>1, <1>6 DEF LastInv
<1> QED
  BY <1>5, <1>7, <1>8

(* Steps that leave the partitions alone.                                  *)
LEMMA StoredStill ==
    ASSUME IInv,
           UNCHANGED <<flash, boot, running, handles, overlapped, oversized>>
    PROVE  FirmwareBoots' /\ HandlesInv' /\ ActiveIsWhole'
  BY DEF IInv, FirmwareBoots, HandlesInv, ActiveIsWhole, Whole

(* What a step that only moves the task leaves of its claim to the handle. *)
LEMMA OwnsStill ==
    ASSUME NEW n \in Downloads, Owns(n), task[n].pc # "end", task'[n].pc # "end",
           task'[n].type = task[n].type, task'[n].file = task[n].file,
           task'[n].chunk = task[n].chunk,
           ota_ctx'.bytes_written = ota_ctx.bytes_written,
           ota_ctx'.handle = ota_ctx.handle, ota_ctx'.ops = ota_ctx.ops,
           UNCHANGED <<handles, count, flash, boot, write_failed>>,
           HasHandle(n)' => HasHandle(n)
    PROVE  Owns(n)'
<1>1. HandleOf(n)' = HandleOf(n) /\ OpsOf(n)' = OpsOf(n)
  BY DEF HandleOf, OpsOf
<1>2. \A type, h : Valid(type, h)' <=> Valid(type, h)
  BY DEF Valid
<1>3. \A h : Written(n, h) => Written(n, h)'
  BY DEF Written
<1> QED
  BY <1>1, <1>2, <1>3 DEF Owns

(* The steps of a download's task that change only where it is.            *)
LEMMA DataStep ==
    ASSUME IInv, NEW n \in Downloads, Data(n)
    PROVE  IInv'
<1> DEFINE t == [task[n] EXCEPT !.pc = IF NeedsBegin THEN "begin" ELSE "write"]
<1>1. t \in Task /\ task \in [Downloads -> Task]
  BY ZenonT(40) DEF IInv, Typed, Task
<1>2. task' = [task EXCEPT ![n] = t]
  BY DEF Data, Goes
<1>3. /\ task' \in [Downloads -> Task]
      /\ task'[n] = t
      /\ \A m \in Downloads : m # n => task'[m] = task[m]
  BY <1>1, <1>2, Moves
<1>4. /\ t.pc = IF NeedsBegin THEN "begin" ELSE "write"
      /\ t.type = task[n].type /\ t.file = task[n].file /\ t.chunk = task[n].chunk
      /\ t.handle = task[n].handle /\ t.ops = task[n].ops /\ t.err = task[n].err
  BY <1>1 DEF Task
<1> HIDE DEF t
<1>5. UNCHANGED <<ota_ctx, handles, count, flash, boot, running, completed,
                  overlapped, write_failed, oversized, last, ub>>
  BY DEF Data, context, stored, histories
<1>6. ota_ctx.bytes_written \in Nat
  BY DEF IInv, Typed, Context
<1>7. Typed'
  BY <1>3, <1>5 DEF IInv, Typed
<1>8. TaskInv' /\ OneDownload'
  BY <1>3, <1>4, <1>5 DEF IInv, TaskInv, OneDownload, Downloading, Data, NeedsBegin
<1>9. ~overlapped => HandleInv' /\ ReportInv' /\ LastInv'
  <2> SUFFICES ASSUME ~overlapped PROVE HandleInv' /\ ReportInv' /\ LastInv'
    OBVIOUS
  <2>1. Active(n) /\ Owns(n)
    BY DEF Data, Active, IInv, HandleInv
  <2>2. HasHandle(n)' => HasHandle(n)
    BY <1>3, <1>4, <1>5, <1>6 DEF Data, NeedsBegin, HasHandle
  <2>3. Owns(n)'
    BY <1>3, <1>4, <1>5, <2>1, <2>2, OwnsStill DEF Data
  <2>4. HandleInv'
    BY <1>3, <2>1, <2>3, OneActive
  <2>5. ReportInv' /\ LastInv'
    BY <1>3, <1>4, <1>5, <2>1, NoReport
  <2> QED
    BY <2>4, <2>5
<1>10. FirmwareBoots' /\ HandlesInv' /\ ActiveIsWhole' /\ HandleSound'
  BY <1>5, StoredStill DEF IInv, HandleSound
<1> QED
  BY <1>5, <1>7, <1>8, <1>9, <1>10 DEF IInv

LEMMA PerformedStep ==
    ASSUME IInv, NEW n \in Downloads, Performed(n)
    PROVE  IInv'
<1>1. PICK ok \in BOOLEAN :
          task' = [task EXCEPT ![n].pc = "close", ![n].ok = ok /\ task[n].file # "page"]
  BY DEF Performed
<1> DEFINE t == [task[n] EXCEPT !.pc = "close", !.ok = ok /\ task[n].file # "page"]
<1>2. t \in Task /\ task \in [Downloads -> Task] /\ task' = [task EXCEPT ![n] = t]
  <2>1. task \in [Downloads -> Task] /\ task[n] \in Task
    BY DEF IInv, Typed
  <2>2. (ok /\ task[n].file # "page") \in BOOLEAN
    OBVIOUS
  <2> QED
    BY <1>1, <2>1, <2>2 DEF Task
<1>3. /\ task' \in [Downloads -> Task]
      /\ task'[n] = t
      /\ \A m \in Downloads : m # n => task'[m] = task[m]
  BY <1>2, Moves
<1>4. /\ t.pc = "close"
      /\ t.type = task[n].type /\ t.file = task[n].file /\ t.chunk = task[n].chunk
      /\ t.handle = task[n].handle /\ t.ops = task[n].ops /\ t.err = task[n].err
  BY <1>2 DEF IInv, Typed, Task
<1> HIDE DEF t
<1>5. UNCHANGED <<ota_ctx, handles, count, flash, boot, running, completed,
                  overlapped, write_failed, oversized, last, ub>>
  BY DEF Performed, context, stored, histories
<1>6. Typed'
  BY <1>3, <1>5 DEF IInv, Typed
<1>7. TaskInv' /\ OneDownload'
  BY <1>3, <1>4, <1>5 DEF IInv, TaskInv, OneDownload, Downloading, Performed
<1>8. ~overlapped => HandleInv' /\ ReportInv' /\ LastInv'
  <2> SUFFICES ASSUME ~overlapped PROVE HandleInv' /\ ReportInv' /\ LastInv'
    OBVIOUS
  <2>1. Active(n) /\ Owns(n)
    BY DEF Performed, Active, IInv, HandleInv
  <2>2. HasHandle(n)' => HasHandle(n)
    BY <1>3, <1>4, <1>5 DEF Performed, HasHandle
  <2>3. HandleInv'
    BY <1>3, <1>4, <1>5, <2>1, <2>2, OwnsStill, OneActive DEF Performed
  <2> QED
    BY <1>3, <1>4, <1>5, <2>1, <2>3, NoReport
<1>9. FirmwareBoots' /\ HandlesInv' /\ ActiveIsWhole' /\ HandleSound'
  BY <1>5, StoredStill DEF IInv, HandleSound
<1> QED
  BY <1>5, <1>6, <1>7, <1>8, <1>9 DEF IInv

LEMMA CloseStep ==
    ASSUME IInv, NEW n \in Downloads, Close(n)
    PROVE  IInv'
<1> DEFINE t == [task[n] EXCEPT !.pc = "take"]
<1>1. t \in Task /\ task \in [Downloads -> Task]
  BY TaskFields DEF IInv, Typed
<1>2. task' = [task EXCEPT ![n] = t]
  BY DEF Close, Goes
<1>3. /\ task' \in [Downloads -> Task]
      /\ task'[n] = t
      /\ \A m \in Downloads : m # n => task'[m] = task[m]
  BY <1>1, <1>2, Moves
<1>4. /\ t.pc = "take"
      /\ t.type = task[n].type /\ t.file = task[n].file /\ t.chunk = task[n].chunk
      /\ t.handle = task[n].handle /\ t.ops = task[n].ops /\ t.err = task[n].err
  BY <1>1 DEF IInv, Typed, Task
<1> HIDE DEF t
<1>5. UNCHANGED <<handles, count, flash, boot, running, completed,
                  overlapped, write_failed, oversized, last, ub>>
  BY DEF Close, stored, histories
<1>6. /\ ota_ctx' \in Context(Len(handles))
      /\ ota_ctx'.bytes_written = ota_ctx.bytes_written
      /\ ota_ctx'.handle = ota_ctx.handle /\ ota_ctx'.ops = ota_ctx.ops
  BY DEF Close, IInv, Typed, Context
<1>7. Typed'
  BY <1>3, <1>5, <1>6 DEF IInv, Typed
<1>8. TaskInv'
  BY <1>3, <1>4, <1>5, <1>6 DEF IInv, TaskInv, Downloading
<1>9. OneDownload'
  BY <1>3, <1>4 DEF IInv, OneDownload, Downloading, Close
<1>10. ~overlapped => HandleInv' /\ ReportInv' /\ LastInv'
  <2> SUFFICES ASSUME ~overlapped PROVE HandleInv' /\ ReportInv' /\ LastInv'
    OBVIOUS
  <2>1. Active(n) /\ Owns(n)
    BY DEF Close, Active, IInv, HandleInv
  <2>2. HasHandle(n)' => HasHandle(n)
    BY <1>3, <1>4, <1>6 DEF Close, HasHandle
  <2>3. HandleInv'
    BY <1>3, <1>4, <1>5, <1>6, <2>1, <2>2, OwnsStill, OneActive DEF Close
  <2> QED
    BY <1>3, <1>4, <1>5, <2>1, <2>3, NoReport
<1>11. FirmwareBoots' /\ HandlesInv' /\ ActiveIsWhole' /\ HandleSound'
  BY <1>5, StoredStill DEF IInv, HandleSound
<1> QED
  BY <1>5, <1>7, <1>8, <1>9, <1>10, <1>11 DEF IInv

(* ota_close: nothing was written, or the handle goes to the functions     *)
(* that end an update.                                                     *)
LEMMA TakeHandleStep ==
    ASSUME IInv, NEW n \in Downloads, TakeHandle(n)
    PROVE  IInv'
<1> DEFINE none == ota_ctx.bytes_written = 0
           t == IF none THEN [task[n] EXCEPT !.pc = "report", !.err = "NO_CHANGE"]
                ELSE [task[n] EXCEPT !.pc = "end", !.ops = ota_ctx.ops,
                                     !.handle = ota_ctx.handle]
<1>1. t \in Task /\ task \in [Downloads -> Task]
  <2>1. task \in [Downloads -> Task] /\ task[n] \in Task
        /\ ota_ctx.ops \in Types \cup {"none"} /\ ota_ctx.handle \in Nat
    BY DEF IInv, Typed, Context
  <2>2. [task[n] EXCEPT !.pc = "report", !.err = "NO_CHANGE"] \in Task
    BY <2>1 DEF Task
  <2>3. [task[n] EXCEPT !.pc = "end", !.ops = ota_ctx.ops, !.handle = ota_ctx.handle] \in Task
    BY <2>1 DEF Task
  <2> QED
    BY <2>1, <2>2, <2>3
<1>2. task' = [task EXCEPT ![n] = t]
  BY DEF TakeHandle
<1>3. /\ task' \in [Downloads -> Task]
      /\ task'[n] = t
      /\ \A m \in Downloads : m # n => task'[m] = task[m]
  BY <1>1, <1>2, Moves
<1>4. /\ t.type = task[n].type /\ t.file = task[n].file /\ t.chunk = task[n].chunk
      /\ none => t.pc = "report" /\ t.err = "NO_CHANGE" /\ t.handle = task[n].handle
      /\ ~none => t.pc = "end" /\ t.ops = ota_ctx.ops /\ t.handle = ota_ctx.handle
                  /\ t.err = task[n].err
  BY <1>1 DEF IInv, Typed, Task
<1> HIDE DEF t
<1>5. UNCHANGED <<ota_ctx, handles, count, flash, boot, running, completed,
                  overlapped, write_failed, oversized, last, ub>>
  BY DEF TakeHandle, context, stored, histories
<1>6. ota_ctx.handle <= Len(handles) /\ ota_ctx.bytes_written \in Nat
  BY DEF IInv, Typed, Context
<1>7. Typed'
  BY <1>3, <1>5 DEF IInv, Typed
<1>8. TaskInv'
  BY <1>3, <1>4, <1>5, <1>6 DEF IInv, TaskInv, Downloading
<1>9. OneDownload'
  BY <1>3, <1>4, <1>5 DEF IInv, OneDownload, Downloading, TakeHandle
<1>10. ~overlapped => HandleInv' /\ ReportInv' /\ LastInv'
  <2> SUFFICES ASSUME ~overlapped PROVE HandleInv' /\ ReportInv' /\ LastInv'
    OBVIOUS
  <2>1. Active(n) /\ Owns(n) /\ task[n].pc = "take"
    BY DEF TakeHandle, Active, IInv, HandleInv
  <2>2. CASE none
    BY <1>3, <1>4, <1>5, <2>1, <2>2, OneActive, NoReport DEF Active
  <2>3. CASE ~none
    <3>1. HasHandle(n) /\ HandleOf(n)' = HandleOf(n) /\ OpsOf(n)' = OpsOf(n)
      BY <1>3, <1>4, <1>5, <1>6, <2>1, <2>3 DEF HasHandle, HandleOf, OpsOf
    <3>2. \A type, h : Valid(type, h)' <=> Valid(type, h)
      BY <1>5 DEF Valid
    <3>3. \A h : Written(n, h) => Written(n, h)'
      BY <1>3, <1>4, <1>5, <1>6, <2>1, <2>3 DEF Written
    <3>4. Owns(n)'
      BY <1>3, <1>4, <1>5, <2>1, <3>1, <3>2, <3>3 DEF Owns
    <3> QED
      BY <1>3, <1>4, <1>5, <2>1, <2>3, <3>4, OneActive, NoReport
  <2> QED
    BY <2>2, <2>3
<1>11. FirmwareBoots' /\ HandlesInv' /\ ActiveIsWhole' /\ HandleSound'
  BY <1>5, StoredStill DEF IInv, HandleSound
<1> QED
  BY <1>5, <1>7, <1>8, <1>9, <1>10, <1>11 DEF IInv

----------------------------------------------------------------------------
(* Begin erases the partition that is neither active nor running.          *)
LEMMA Erasing ==
    ASSUME Typed, NEW type \in Types
    PROVE  LET p == Target(type)
               erased == [flash EXCEPT ![type][p] = Erased]
           IN  /\ p \in 0 .. 1
               /\ type = "config" => p # boot["config"]
               /\ type = "firmware" => p = 1 - running /\ p # running
               /\ erased \in [Types -> [0 .. 1 -> Contents]]
               /\ erased[type][p] = Erased
               /\ \A t \in Types, q \in 0 .. 1 :
                      t # type \/ q # p => erased[t][q] = flash[t][q]
<1> DEFINE p == Target(type)
           erased == [flash EXCEPT ![type][p] = Erased]
<1>1. /\ p \in 0 .. 1
      /\ type = "config" => p # boot["config"]
      /\ type = "firmware" => p = 1 - running /\ p # running
  BY DEF Typed, Types, Target
<1> HIDE DEF p
<1>2. Erased \in Contents
  BY DEF Erased, Contents
<1>3. /\ erased \in [Types -> [0 .. 1 -> Contents]]
      /\ erased[type][p] = Erased
      /\ \A t \in Types, q \in 0 .. 1 : t # type \/ q # p => erased[t][q] = flash[t][q]
  BY <1>1, <1>2 DEF Typed
<1> QED
  BY <1>1, <1>3 DEF p

LEMMA ErasingKeeps ==
    ASSUME IInv, NEW type \in Types,
           flash' \in {flash, [flash EXCEPT ![type][Target(type)] = Erased]},
           UNCHANGED <<boot, running, overlapped, oversized>>
    PROVE  /\ flash' \in [Types -> [0 .. 1 -> Contents]]
           /\ FirmwareBoots' /\ ActiveIsWhole'
<1>1. /\ flash' \in [Types -> [0 .. 1 -> Contents]]
      /\ flash'["config"][boot["config"]] = flash["config"][boot["config"]]
      /\ flash'["firmware"][running] = flash["firmware"][running]
  BY Erasing DEF IInv, Typed, Types
<1> QED
  BY <1>1 DEF IInv, FirmwareBoots, ActiveIsWhole, Whole

LEMMA BeginStep ==
    ASSUME IInv, NEW n \in Downloads, Begin(n)
    PROVE  IInv'
<1>1. /\ task[n].pc = "begin" /\ Downloading(n) /\ Active(n)
      /\ ota_ctx.ops = task[n].type /\ ota_ctx.bytes_written = 0
      /\ task \in [Downloads -> Task] /\ task[n] \in Task
  BY DEF Begin, Downloading, Active, IInv, Typed, TaskInv
<1>2. UNCHANGED <<count, boot, running, completed, overlapped, write_failed,
                  oversized, last, ub>>
  BY DEF Begin, histories
<1>3. PICK type \in Types, p \in 0 .. 1, k \in Nat \ {0} :
          type = ota_ctx.ops /\ p = Target(type) /\ k = Len(handles) + 1
  BY <1>1, Erasing DEF IInv, Typed, Task
<1> DEFINE erased == [flash EXCEPT ![type][p] = Erased]
           e == [type |-> type, partition |-> p, bytes_written |-> 0, open |-> TRUE]
           begins == /\ flash' = erased
                     /\ handles' = Append(handles, e)
                     /\ ota_ctx' = [ota_ctx EXCEPT !.handle = k]
                     /\ Goes(n, "write")
           fails == /\ flash' \in {flash, erased}
                    /\ NextChunk(n)
                    /\ UNCHANGED <<ota_ctx, handles>>
<1>4. /\ begins \/ fails
      /\ type = "config" => p # boot["config"]
      /\ type = "firmware" => p = 1 - running
      /\ erased[type][p] = Erased
  BY <1>1, <1>3, Erasing DEF Begin, context, IInv
<1>5. flash' \in [Types -> [0 .. 1 -> Contents]] /\ FirmwareBoots' /\ ActiveIsWhole'
  BY <1>2, <1>3, <1>4, ErasingKeeps
<1>6. HandleSound'
  BY <1>2 DEF IInv, HandleSound
<1>7. CASE begins
  <2> DEFINE t == [task[n] EXCEPT !.pc = "write"]
  <2>1. t \in Task /\ task' = [task EXCEPT ![n] = t]
    BY <1>1, <1>7, TaskFields DEF Goes
  <2>2. /\ task' \in [Downloads -> Task]
        /\ task'[n] = t
        /\ \A m \in Downloads : m # n => task'[m] = task[m]
    BY <1>1, <2>1, Moves
  <2>3. /\ t.pc = "write"
        /\ t.type = task[n].type /\ t.file = task[n].file /\ t.chunk = task[n].chunk
        /\ t.handle = task[n].handle
    BY <1>1 DEF Task
  <2> HIDE DEF t
  <2>4. e \in Handle /\ handles \in Seq(Handle)
    BY <1>3, <1>4, UpdateAssumption DEF Handle, IInv, Typed
  <2>5. /\ handles' \in Seq(Handle)
        /\ Len(handles') = k
        /\ \A i \in 1 .. Len(handles) : handles'[i] = handles[i]
        /\ handles'[k] = e
    BY <1>3, <1>7, <2>4, HandlesAppend
  <2>6. /\ ota_ctx' \in Context(Len(handles'))
        /\ ota_ctx'.handle = k /\ ota_ctx'.ops = type /\ ota_ctx'.bytes_written = 0
        /\ ota_ctx'.in_progress = ota_ctx.in_progress
    <3>1. ota_ctx \in Context(Len(handles)) /\ Len(handles) \in Nat
      BY DEF IInv, Typed
    <3> QED
      BY <1>1, <1>3, <1>7, <2>5, <3>1, ContextHandle
  <2>7. Typed'
    BY <1>2, <1>5, <2>2, <2>5, <2>6 DEF IInv, Typed
  <2>8. TaskInv' /\ OneDownload'
    <3>1. \A m \in Downloads : task[m].handle \in Nat
      BY DEF IInv, Typed, Task
    <3> QED
      BY <1>1, <1>2, <1>3, <2>2, <2>3, <2>5, <2>6, <3>1
      DEF IInv, TaskInv, OneDownload, Downloading
  <2>9. HandlesInv'
    <3> SUFFICES ASSUME NEW h \in 1 .. Len(handles'), handles'[h].type = "firmware"
                 PROVE  handles'[h].partition = 1 - running
      BY <1>2 DEF HandlesInv
    <3>1. CASE h = k
      <4>1. e.type = type /\ e.partition = p
        OBVIOUS
      <4> QED
        BY <1>4, <2>5, <3>1, <4>1
    <3>2. CASE h # k
      <4>1. h \in 1 .. Len(handles)
        BY <1>3, <2>5, <3>2
      <4> QED
        BY <2>5, <4>1 DEF IInv, HandlesInv
    <3> QED
      BY <3>1, <3>2
  <2>10. ~overlapped => HandleInv' /\ ReportInv' /\ LastInv'
    <3> SUFFICES ASSUME ~overlapped PROVE HandleInv' /\ ReportInv' /\ LastInv'
      OBVIOUS
    <3>1. n = count
      BY <1>1 DEF IInv, HandleInv, Owns
    <3>2. Valid(type, k)' /\ HandleOf(n)' = k /\ OpsOf(n)' = type
      BY <2>2, <2>3, <2>5, <2>6 DEF Valid, HandleOf, OpsOf
    <3>3. Written(n, k)'
      <4>1. \A i \in 1 .. ImageLen : flash'[type][p][i] = Blank
        BY <1>4, <1>7 DEF Erased
      <4>2. task[n].chunk \in Nat \ {0}
        BY <1>1 DEF Task
      <4> QED
        BY <1>1, <2>2, <2>3, <2>5, <2>6, <4>1, <4>2 DEF Written
    <3>4. Owns(n)'
      BY <1>1, <1>2, <1>3, <1>4, <2>2, <2>3, <2>5, <3>1, <3>2, <3>3 DEF Owns
    <3> QED
      BY <1>1, <1>2, <2>2, <2>3, <3>4, OneActive, NoReport
  <2> QED
    BY <1>2, <1>5, <1>6, <2>7, <2>8, <2>9, <2>10 DEF IInv
<1>8. CASE fails
  <2> DEFINE t == [task[n] EXCEPT !.pc = "body", !.chunk = @ + 1]
  <2>1. task[n].chunk + 1 \in 1 .. ImageLen + 2
        /\ task[n].chunk + 1 <= Lengths[task[n].file] + 1
    BY <1>1, <1>3, LengthsValue, UpdateAssumption, SMTT(30) DEF IInv, TaskInv, Task
  <2>2. t \in Task /\ task' = [task EXCEPT ![n] = t]
    BY <1>1, <1>8, <2>1 DEF NextChunk, Task
  <2>3. /\ task' \in [Downloads -> Task]
        /\ task'[n] = t
        /\ \A m \in Downloads : m # n => task'[m] = task[m]
    BY <1>1, <2>2, Moves
  <2>4. /\ t.pc = "body" /\ t.chunk = task[n].chunk + 1
        /\ t.type = task[n].type /\ t.file = task[n].file /\ t.handle = task[n].handle
    BY <1>1 DEF Task
  <2> HIDE DEF t
  <2>5. Typed'
    BY <1>2, <1>5, <1>8, <2>3 DEF IInv, Typed
  <2>6. TaskInv' /\ OneDownload'
    BY <1>1, <1>2, <1>3, <1>8, <2>1, <2>3, <2>4
    DEF IInv, TaskInv, OneDownload, Downloading
  <2>7. HandlesInv'
    BY <1>2, <1>8 DEF IInv, HandlesInv
  <2>8. ~overlapped => HandleInv' /\ ReportInv' /\ LastInv'
    <3> SUFFICES ASSUME ~overlapped PROVE HandleInv' /\ ReportInv' /\ LastInv'
      OBVIOUS
    <3>1. n = count
      BY <1>1 DEF IInv, HandleInv, Owns
    <3>2. Owns(n)'
      BY <1>1, <1>2, <1>8, <2>3, <2>4, <3>1 DEF Owns, OpsOf, HasHandle
    <3> QED
      BY <1>1, <1>2, <2>3, <2>4, <3>2, OneActive, NoReport
  <2> QED
    BY <1>2, <1>5, <1>6, <2>5, <2>6, <2>7, <2>8 DEF IInv
<1> QED
  BY <1>4, <1>7, <1>8

(* A write through a valid handle, of the next chunk or of garbage.        *)
LEMMA WriteOkStep ==
    ASSUME IInv, NEW n \in Downloads, task[n].pc = "write", WriteOk(n), NextChunk(n),
           UNCHANGED <<count, boot, running, completed, overlapped, oversized, last, ub>>
    PROVE  IInv'
<1>1. /\ Downloading(n) /\ Active(n) /\ HasHandle(n)
      /\ ota_ctx.ops = task[n].type
      /\ ota_ctx \in Context(Len(handles)) /\ handles \in Seq(Handle)
      /\ task \in [Downloads -> Task] /\ task[n] \in Task
      /\ flash \in [Types -> [0 .. 1 -> Contents]]
      /\ boot \in [Types -> 0 .. 1] /\ running \in 0 .. 1
  BY DEF Downloading, Active, HasHandle, IInv, Typed, TaskInv
<1>2. UNCHANGED write_failed
  BY DEF WriteOk
<1>3. PICK k \in 1 .. Len(handles) : k = ota_ctx.handle
  BY <1>1 DEF WriteOk, HandleValid, Valid, Context
<1>4. handles[k] \in Handle /\ k \in Nat
  BY <1>1
<1>5. PICK type \in Types, p \in 0 .. 1, place \in 1 .. ImageLen :
          /\ type = handles[k].type /\ p = handles[k].partition
          /\ place = handles[k].bytes_written + 1
  <2>1. handles[k].type \in Types /\ handles[k].partition \in 0 .. 1
        /\ handles[k].bytes_written \in 0 .. ImageLen
    BY <1>4, HandleFields
  <2>2. handles[k].bytes_written + 1 <= ImageLen
    BY <1>3 DEF WriteOk, handle
  <2> QED
    BY <2>1, <2>2, UpdateAssumption
<1>6. type = task[n].type /\ handles[k].open
  BY <1>1, <1>3, <1>5 DEF WriteOk, HandleValid, Valid
<1>7. PICK x \in {n, Garbage} :
          /\ flash' = [flash EXCEPT ![type][p][place] = x]
          /\ flash[type][p][place] = Blank /\ task[n].file = "file"
             /\ task[n].chunk = place => x = n
  BY <1>3, <1>5 DEF WriteOk, handle, Chunk
<1>8. x \in {Garbage, Blank} \cup 0 .. MaxDownloads
  BY UpdateAssumption DEF Downloads
<1>9. /\ flash' \in [Types -> [0 .. 1 -> Contents]]
      /\ \A t \in Types, q \in 0 .. 1 : t # type \/ q # p => flash'[t][q] = flash[t][q]
      /\ flash'[type][p] \in Contents
      /\ \A i \in 1 .. ImageLen :
             flash'[type][p][i] = IF i = place THEN x ELSE flash[type][p][i]
  BY <1>1, <1>7, <1>8, ZenonT(40) DEF Contents
<1> DEFINE e == [handles[k] EXCEPT !.bytes_written = place]
<1>10. /\ e \in Handle /\ e.type = type /\ e.partition = p /\ e.open
       /\ e.bytes_written = place
  <2>1. place \in 0 .. ImageLen
    BY UpdateAssumption
  <2> QED
    BY <1>4, <1>5, <1>6, <2>1, HandleWritten, ZenonT(40)
<1>11. handles' = [handles EXCEPT ![k] = e]
  BY <1>3, <1>5 DEF WriteOk, handle
<1> HIDE DEF e
<1>12. /\ handles' \in Seq(Handle) /\ Len(handles') = Len(handles)
       /\ \A i \in 1 .. Len(handles) : handles'[i] = IF i = k THEN e ELSE handles[i]
  BY <1>1, <1>10, <1>11, HandlesExcept
<1>13. /\ ota_ctx' \in Context(Len(handles'))
       /\ ota_ctx'.handle = k /\ ota_ctx'.ops = ota_ctx.ops
       /\ ota_ctx'.in_progress = ota_ctx.in_progress
       /\ ota_ctx'.bytes_written = ota_ctx.bytes_written + 1
  BY <1>1, <1>3, <1>12, ContextWritten DEF WriteOk
<1> DEFINE t == [task[n] EXCEPT !.pc = "body", !.chunk = @ + 1]
<1>14. task[n].chunk + 1 \in 1 .. ImageLen + 2
       /\ task[n].chunk + 1 <= Lengths[task[n].file] + 1
  BY <1>1, LengthsValue, UpdateAssumption, SMTT(30) DEF IInv, TaskInv, Task
<1>15. t \in Task /\ task' = [task EXCEPT ![n] = t]
  BY <1>1, <1>14 DEF NextChunk, Task
<1>16. /\ task' \in [Downloads -> Task]
       /\ task'[n] = t
       /\ \A m \in Downloads : m # n => task'[m] = task[m]
  BY <1>1, <1>15, Moves
<1>17. /\ t.pc = "body" /\ t.chunk = task[n].chunk + 1
       /\ t.type = task[n].type /\ t.file = task[n].file /\ t.handle = task[n].handle
  BY <1>1 DEF Task
<1> HIDE DEF t
<1>18. Typed'
  <2>1. {completed, overlapped, write_failed, oversized, ub}' \subseteq BOOLEAN
    BY <1>2 DEF IInv, Typed
  <2>2. /\ count' \in 0 .. MaxDownloads
        /\ boot' \in [Types -> 0 .. 1] /\ running' \in 0 .. 1
        /\ last' \in [n : 0 .. MaxDownloads, type : Types]
    BY DEF IInv, Typed
  <2> QED
    BY <1>9, <1>12, <1>13, <1>16, <2>1, <2>2 DEF Typed
<1>19. TaskInv' /\ OneDownload'
  <2>1. \A m \in Downloads : m # n => ~Downloading(m)
    BY <1>1 DEF IInv, OneDownload
  <2>2. \A m \in Downloads : m # n => ~Downloading(m)'
    BY <1>16, <2>1 DEF Downloading
  <2>3. OneDownload'
    BY <1>1, <1>13, <2>2 DEF IInv, OneDownload
  <2>4. TaskInv'
    BY <1>1, <1>12, <1>13, <1>14, <1>16, <1>17, <2>1, <2>2 DEF IInv, TaskInv, Downloading
  <2> QED
    BY <2>3, <2>4
<1>20. HandlesInv'
  <2>1. handles[k].type = e.type /\ handles[k].partition = e.partition
    BY <1>5, <1>10
  <2> QED
    BY <1>12, <2>1 DEF IInv, HandlesInv
<1>21. FirmwareBoots'
  <2>1. type = "firmware" => p = 1 - running
    BY <1>5 DEF IInv, HandlesInv
  <2>2. flash'["firmware"][running] = flash["firmware"][running]
    BY <1>1, <1>9, <2>1 DEF Types
  <2> QED
    BY <2>2 DEF IInv, FirmwareBoots, Whole
<1>22. ~overlapped => /\ n = count /\ Written(n, k)
                      /\ type = "config" => p # boot["config"]
  <2> SUFFICES ASSUME ~overlapped
               PROVE  n = count /\ Written(n, k) /\ (type = "config" => p # boot["config"])
    OBVIOUS
  <2>1. Owns(n)
    BY <1>1 DEF IInv, HandleInv
  <2>2. HandleOf(n) = k /\ Valid(type, k)
    BY <1>1, <1>3, <1>4, <1>5, <1>6 DEF HandleOf, Valid
  <2> QED
    BY <1>1, <1>5, <1>6, <2>1, <2>2 DEF Owns
<1>23. ActiveIsWhole'
  <2> SUFFICES ASSUME ~overlapped, ~oversized
               PROVE  Whole(flash'["config"][boot["config"]])
    BY DEF ActiveIsWhole, Whole
  <2>1. flash'["config"][boot["config"]] = flash["config"][boot["config"]]
    BY <1>1, <1>9, <1>22 DEF Types
  <2> QED
    BY <2>1 DEF IInv, ActiveIsWhole, Whole
<1>24. ~overlapped => HandleInv' /\ ReportInv' /\ LastInv'
  <2> SUFFICES ASSUME ~overlapped PROVE HandleInv' /\ ReportInv' /\ LastInv'
    OBVIOUS
  <2>1. Valid(type, k)' /\ HandleOf(n)' = k /\ OpsOf(n)' = type
    BY <1>1, <1>4, <1>6, <1>10, <1>12, <1>13, <1>16, <1>17 DEF Valid, HandleOf, OpsOf
  <2>2. Written(n, k)'
    <3>1. /\ place <= task[n].chunk
          /\ place = ota_ctx.bytes_written + 1
          /\ \A i \in 1 .. ImageLen :
                 IF i < place THEN flash[type][p][i] \in {n, Garbage}
                              ELSE flash[type][p][i] = Blank
          /\ task[n].file = "file" /\ place = task[n].chunk =>
                 \A i \in 1 .. ImageLen : i < place => flash[type][p][i] = n
      <4>1. task[n].chunk \in Nat /\ handles[k].bytes_written \in 0 .. ImageLen
        BY <1>1, <1>4, HandleFields DEF Task
      <4> QED
        BY <1>5, <1>22, <4>1, SMTT(30) DEF Written
    <3>2. \A i \in 1 .. ImageLen :
              IF i <= place THEN flash'[type][p][i] \in {n, Garbage}
                            ELSE flash'[type][p][i] = Blank
      BY <1>9, <3>1
    <3>3. task[n].file = "file" /\ place = task[n].chunk =>
              \A i \in 1 .. ImageLen : i <= place => flash'[type][p][i] = n
      BY <1>7, <1>9, <3>1
    <3>4. handles'[k].bytes_written = place /\ handles'[k].type = type
          /\ handles'[k].partition = p
      BY <1>10, <1>12
    <3>5. task[n].chunk \in Nat
      BY <1>1 DEF Task
    <3> QED
      BY <1>13, <1>16, <1>17, <3>1, <3>2, <3>3, <3>4, <3>5 DEF Written
  <2>3. Owns(n)'
    BY <1>6, <1>10, <1>12, <1>16, <1>17, <1>22, <2>1, <2>2 DEF Owns
  <2> QED
    BY <1>1, <1>16, <1>17, <2>3, OneActive, NoReport
<1>25. HandleSound'
  BY <1>2 DEF IInv, HandleSound
<1> QED
  BY <1>18, <1>19, <1>20, <1>21, <1>23, <1>24, <1>25 DEF IInv

(* A write that fails, and frees the handle of the configuration.          *)
LEMMA WriteFailsStep ==
    ASSUME IInv, NEW n \in Downloads, task[n].pc = "write", WriteFails, NextChunk(n),
           UNCHANGED <<count, boot, running, completed, overlapped, oversized, last, ub>>
    PROVE  IInv'
<1>1. /\ Downloading(n) /\ Active(n) /\ HasHandle(n)
      /\ ota_ctx.ops = task[n].type
      /\ ota_ctx \in Context(Len(handles)) /\ handles \in Seq(Handle)
      /\ task \in [Downloads -> Task] /\ task[n] \in Task
  BY DEF Downloading, Active, HasHandle, IInv, Typed, TaskInv
<1>2. UNCHANGED <<flash, ota_ctx>>
  BY DEF WriteFails
<1> DEFINE t == [task[n] EXCEPT !.pc = "body", !.chunk = @ + 1]
<1>3. task[n].chunk + 1 \in 1 .. ImageLen + 2
      /\ task[n].chunk + 1 <= Lengths[task[n].file] + 1
  BY <1>1, LengthsValue, UpdateAssumption DEF IInv, TaskInv, Task
<1>4. t \in Task /\ task' = [task EXCEPT ![n] = t]
  BY <1>1, <1>3 DEF NextChunk, Task
<1>5. /\ task' \in [Downloads -> Task]
      /\ task'[n] = t
      /\ \A m \in Downloads : m # n => task'[m] = task[m]
  BY <1>1, <1>4, Moves
<1>6. /\ t.pc = "body" /\ t.chunk = task[n].chunk + 1
      /\ t.type = task[n].type /\ t.file = task[n].file /\ t.handle = task[n].handle
  BY <1>1 DEF Task
<1> HIDE DEF t
<1>7. /\ handles' \in Seq(Handle) /\ Len(handles') = Len(handles)
      /\ \A h \in 1 .. Len(handles) :
             /\ handles'[h].type = handles[h].type
             /\ handles'[h].partition = handles[h].partition
             /\ handles'[h].bytes_written = handles[h].bytes_written
      /\ write_failed' \in BOOLEAN
      /\ IF task[n].type = "config" THEN write_failed' /\ ~HandleValid'
                                    ELSE UNCHANGED <<handles, write_failed>>
  <2>1. CASE task[n].type = "config"
    <3>1. HandleValid /\ Free(ota_ctx.handle) /\ write_failed' = TRUE
      BY <1>1, <2>1 DEF WriteFails
    <3>2. PICK k \in 1 .. Len(handles) : k = ota_ctx.handle
      BY <1>1, <3>1 DEF HandleValid, Valid, Context
    <3> DEFINE e == [handles[k] EXCEPT !.open = FALSE]
    <3>3. /\ e \in Handle /\ e.type = handles[k].type /\ e.partition = handles[k].partition
          /\ e.bytes_written = handles[k].bytes_written /\ ~e.open
      BY <1>1, HandleFreed
    <3>4. handles' = [handles EXCEPT ![k] = e]
      BY <3>1, <3>2 DEF Free
    <3> HIDE DEF e
    <3>5. /\ handles' \in Seq(Handle) /\ Len(handles') = Len(handles)
          /\ \A i \in 1 .. Len(handles) : handles'[i] = IF i = k THEN e ELSE handles[i]
      BY <1>1, <3>3, <3>4, HandlesExcept
    <3>6. ~HandleValid'
      BY <1>2, <3>2, <3>3, <3>5 DEF HandleValid, Valid
    <3> QED
      BY <2>1, <3>1, <3>3, <3>5, <3>6
  <2>2. CASE task[n].type # "config"
    BY <1>1, <2>2 DEF WriteFails, IInv, Typed
  <2> QED
    BY <2>1, <2>2
<1>8. Typed'
  <2>1. {completed, overlapped, write_failed, oversized, ub}' \subseteq BOOLEAN
    BY <1>7 DEF IInv, Typed
  <2>2. /\ count' \in 0 .. MaxDownloads
        /\ boot' \in [Types -> 0 .. 1] /\ running' \in 0 .. 1
        /\ last' \in [n : 0 .. MaxDownloads, type : Types]
        /\ flash' \in [Types -> [0 .. 1 -> Contents]]
    BY <1>2 DEF IInv, Typed
  <2>3. ota_ctx' \in Context(Len(handles'))
    BY <1>1, <1>2, <1>7
  <2> QED
    BY <1>5, <1>7, <2>1, <2>2, <2>3 DEF Typed
<1>9. TaskInv' /\ OneDownload'
  BY <1>1, <1>2, <1>3, <1>5, <1>6, <1>7 DEF IInv, TaskInv, OneDownload, Downloading
<1>10. FirmwareBoots' /\ ActiveIsWhole' /\ HandlesInv'
  BY <1>2, <1>7 DEF IInv, FirmwareBoots, ActiveIsWhole, HandlesInv, Whole
<1>11. ~overlapped => HandleInv' /\ ReportInv' /\ LastInv'
  <2> SUFFICES ASSUME ~overlapped PROVE HandleInv' /\ ReportInv' /\ LastInv'
    OBVIOUS
  <2>1. Owns(n) /\ HandleOf(n) = ota_ctx.handle
    BY <1>1 DEF IInv, HandleInv, HandleOf
  <2>2. HandleOf(n)' = ota_ctx.handle /\ OpsOf(n)' = task[n].type
    BY <1>1, <1>2, <1>5, <1>6 DEF HandleOf, OpsOf
  <2>3. CASE task[n].type = "config"
    <3>1. ~Valid(ota_ctx.ops, ota_ctx.handle)'
      BY <1>7, <2>3 DEF HandleValid
    <3>2. OpsOf(n)' = (ota_ctx.ops)' /\ task'[n].type = (ota_ctx.ops)'
          /\ HandleOf(n)' = (ota_ctx.handle)'
      BY <1>1, <1>2, <1>5, <1>6, <2>2
    <3>3. Owns(n)'
      BY <1>5, <1>6, <1>7, <2>1, <2>3, <3>1, <3>2 DEF Owns
    <3> QED
      BY <1>1, <1>5, <1>6, <3>3, OneActive, NoReport
  <2>4. CASE task[n].type # "config"
    <3>1. UNCHANGED <<handles, write_failed>>
      BY <1>7, <2>4
    <3>2. \A type, h : Valid(type, h)' <=> Valid(type, h)
      BY <3>1 DEF Valid
    <3>3. \A h \in 1 .. Len(handles) : Written(n, h) => Written(n, h)'
      <4>1. task[n].chunk \in Nat
        BY <1>1 DEF Task
      <4>2. \A h \in 1 .. Len(handles) : handles[h].bytes_written \in Nat
        BY <1>1, HandleFields
      <4> QED
        BY <1>2, <1>5, <1>6, <3>1, <4>1, <4>2 DEF Written
    <3>4. Owns(n)'
      BY <1>1, <1>2, <1>5, <1>6, <2>1, <2>2, <2>4, <3>1, <3>2, <3>3 DEF Owns, Context, Valid
    <3> QED
      BY <1>1, <1>5, <1>6, <3>4, OneActive, NoReport
  <2> QED
    BY <2>3, <2>4
<1>12. HandleSound'
  <2>1. write_failed => write_failed'
    BY <1>7
  <2> QED
    BY <2>1 DEF IInv, HandleSound
<1> QED
  BY <1>8, <1>9, <1>10, <1>11, <1>12 DEF IInv

LEMMA WriteStep ==
    ASSUME IInv, NEW n \in Downloads, Write(n)
    PROVE  IInv'
<1>1. task[n].pc = "write" /\ Downloading(n) /\ Active(n) /\ HasHandle(n)
  BY DEF Write, Downloading, Active, HasHandle
<1>2. CASE /\ WriteOk(n) \/ WriteFails
           /\ NextChunk(n)
           /\ UNCHANGED <<count, boot, running, completed, overlapped, oversized, last, ub>>
  BY <1>1, <1>2, WriteOkStep, WriteFailsStep
<1>3. CASE ota_ctx.ops = "config" /\ ~HandleValid /\ Corrupts(n)
  <2>1. UNCHANGED <<ota_ctx, handles, task, count, flash, boot, running, completed,
                    overlapped, write_failed, oversized, last>> /\ ub' = TRUE
    BY <1>3 DEF Corrupts, context, stored, histories
  <2>2. HandleSound'
    <3> SUFFICES ASSUME ~overlapped PROVE write_failed
      BY <2>1 DEF HandleSound
    <3>1. Owns(n) /\ task[n].type = "config" /\ HandleOf(n) = ota_ctx.handle
      BY <1>1, <1>3 DEF IInv, HandleInv, TaskInv, HandleOf
    <3> QED
      BY <1>1, <1>3, <3>1 DEF Owns, HandleValid
  <2>3. Typed'
    BY <2>1 DEF IInv, Typed
  <2>4. TaskInv' /\ OneDownload'
    BY <2>1 DEF IInv, TaskInv, OneDownload, Downloading
  <2>5. FirmwareBoots' /\ HandlesInv' /\ ActiveIsWhole'
    BY <2>1, StoredStill
  <2>6. ~overlapped => HandleInv' /\ ReportInv' /\ LastInv'
    BY <2>1, ClaimsStill DEF IInv
  <2> QED
    BY <2>1, <2>2, <2>3, <2>4, <2>5, <2>6 DEF IInv
<1> QED
  BY <1>2, <1>3 DEF Write

----------------------------------------------------------------------------
(* The end of an update switches to what was written, or to nothing.       *)
LEMMA EndConfigStep ==
    ASSUME IInv, NEW n \in Downloads, task[n].pc = "end", task[n].ops = "config",
           Valid("config", task[n].handle),
           NEW done \in BOOLEAN,
           IF done
           THEN /\ handles[task[n].handle].bytes_written = ImageLen
                /\ boot' = [boot EXCEPT !["config"] = handles[task[n].handle].partition]
                /\ Ended(n, "SUCCESS")
           ELSE UNCHANGED boot /\ Ended(n, "FAILED_END"),
           Free(task[n].handle),
           UNCHANGED <<ub, ota_ctx, count, flash, running, completed, histories>>
    PROVE  IInv'
<1>1. /\ Active(n) /\ HasHandle(n)
      /\ ota_ctx \in Context(Len(handles)) /\ handles \in Seq(Handle)
      /\ task \in [Downloads -> Task] /\ task[n] \in Task
      /\ boot \in [Types -> 0 .. 1]
  BY DEF Active, HasHandle, IInv, Typed
<1>2. UNCHANGED <<overlapped, write_failed, oversized, last>>
  BY DEF histories
<1>3. PICK k \in 1 .. Len(handles) : k = task[n].handle
  BY <1>1 DEF IInv, TaskInv, Valid, Task
<1>4. PICK p \in 0 .. 1 : p = handles[k].partition
  BY <1>1, HandleFields
<1>5. handles[k].type = "config" /\ handles[k].open
  BY <1>3 DEF Valid
<1> DEFINE e == [handles[k] EXCEPT !.open = FALSE]
<1>6. /\ e \in Handle /\ e.type = handles[k].type /\ e.partition = handles[k].partition
  BY <1>1, HandleFreed
<1>7. handles' = [handles EXCEPT ![k] = e]
  BY <1>3 DEF Free
<1> HIDE DEF e
<1>8. /\ handles' \in Seq(Handle) /\ Len(handles') = Len(handles)
      /\ \A i \in 1 .. Len(handles) : handles'[i] = IF i = k THEN e ELSE handles[i]
  BY <1>1, <1>6, <1>7, HandlesExcept
<1> DEFINE err == IF done THEN "SUCCESS" ELSE "FAILED_END"
           t == [task[n] EXCEPT !.pc = "report", !.err = err]
<1>9. t \in Task /\ task' = [task EXCEPT ![n] = t]
  BY <1>1 DEF Ended, Task
<1>10. /\ task' \in [Downloads -> Task]
       /\ task'[n] = t
       /\ \A m \in Downloads : m # n => task'[m] = task[m]
  BY <1>1, <1>9, Moves
<1>11. /\ t.pc = "report" /\ t.err = err
       /\ t.type = task[n].type /\ t.file = task[n].file /\ t.handle = task[n].handle
       /\ t.chunk = task[n].chunk
  BY <1>1 DEF Task
<1> HIDE DEF t
<1>12. boot' \in [Types -> 0 .. 1] /\ boot'["firmware"] = boot["firmware"]
       /\ boot'["config"] = IF done THEN p ELSE boot["config"]
  BY <1>1, <1>3, <1>4 DEF Types
<1>13. Typed'
  <2>1. {completed, overlapped, write_failed, oversized, ub}' \subseteq BOOLEAN
    BY <1>2 DEF IInv, Typed
  <2>2. /\ count' \in 0 .. MaxDownloads /\ running' \in 0 .. 1
        /\ last' \in [n : 0 .. MaxDownloads, type : Types]
        /\ flash' \in [Types -> [0 .. 1 -> Contents]]
    BY <1>2 DEF IInv, Typed
  <2>3. ota_ctx' \in Context(Len(handles'))
    BY <1>1, <1>8
  <2> QED
    BY <1>8, <1>10, <1>12, <2>1, <2>2, <2>3 DEF Typed
<1>14. TaskInv' /\ OneDownload'
  <2>1. \A m \in Downloads : Downloading(m)' => Downloading(m) /\ m # n
    BY <1>10, <1>11 DEF Downloading
  <2>2. OneDownload'
    BY <2>1 DEF IInv, OneDownload
  <2>3. TaskInv'
    BY <1>2, <1>8, <1>10, <1>11, <2>1 DEF IInv, TaskInv
  <2> QED
    BY <2>2, <2>3
<1>15. HandlesInv' /\ FirmwareBoots'
  BY <1>5, <1>6, <1>8 DEF IInv, HandlesInv, FirmwareBoots, Whole
<1>16. ASSUME ~overlapped, ~oversized, done
       PROVE  /\ n = count /\ task[n].type = "config"
              /\ \A i \in 1 .. ImageLen : flash["config"][p][i] = n
  <2>1. Owns(n) /\ HandleOf(n) = k /\ OpsOf(n) = "config"
    BY <1>1, <1>3, <1>16 DEF IInv, HandleInv, HandleOf, OpsOf
  <2>2. n = count /\ task[n].type = "config" /\ Written(n, k)
    BY <1>1, <1>3, <2>1 DEF Owns
  <2>3. /\ task[n].chunk \in Nat /\ task[n].file \in Files
        /\ task[n].chunk <= Lengths[task[n].file] + 1 /\ task[n].file # "long"
    BY <1>1, <1>16 DEF IInv, TaskInv, Task
  <2>4. handles[k].bytes_written = ImageLen /\ ImageLen < task[n].chunk
    BY <1>3, <1>16, <2>2 DEF Written
  <2>5. task[n].file = "file" /\ ImageLen = task[n].chunk - 1
    BY <2>3, <2>4, LengthsValue, UpdateAssumption, SMTT(30)
  <2> QED
    BY <1>4, <1>5, <2>2, <2>4, <2>5, UpdateAssumption DEF Written
<1>17. ActiveIsWhole'
  <2> SUFFICES ASSUME ~overlapped, ~oversized PROVE Whole(flash["config"][boot'["config"]])
    BY <1>2 DEF ActiveIsWhole, Whole
  <2>1. CASE done
    <3>1. n \in 0 .. MaxDownloads
      BY UpdateAssumption DEF Downloads
    <3> QED
      BY <1>12, <1>16, <2>1, <3>1 DEF Whole
  <2>2. CASE ~done
    BY <1>12, <2>2 DEF IInv, ActiveIsWhole
  <2> QED
    BY <2>1, <2>2
<1>18. ~overlapped => HandleInv' /\ ReportInv' /\ LastInv'
  <2> SUFFICES ASSUME ~overlapped PROVE HandleInv' /\ ReportInv' /\ LastInv'
    OBVIOUS
  <2>1. HandleInv'
    BY <1>1, <1>10, <1>11, OneActive DEF Active
  <2>2. n = count /\ last = NoLast
    BY <1>1 DEF IInv, HandleInv, Owns, LastInv
  <2>3. done /\ ~oversized => Installed(n, "config")' /\ task[n].type = "config"
    BY <1>12, <1>16 DEF Installed
  <2>4. ReportInv'
    BY <1>2, <1>10, <1>11, <2>2, <2>3 DEF ReportInv
  <2> QED
    BY <1>2, <2>1, <2>2, <2>4 DEF LastInv, NoLast
<1>19. HandleSound'
  BY <1>2 DEF IInv, HandleSound
<1> QED
  BY <1>13, <1>14, <1>15, <1>17, <1>18, <1>19, <1>2 DEF IInv

LEMMA EndFirmwareStep ==
    ASSUME IInv, NEW n \in Downloads, task[n].pc = "end", task[n].ops # "config",
           EndFirmware(n),
           UNCHANGED <<ota_ctx, count, flash, running, completed, histories>>
    PROVE  IInv'
<1>1. /\ Active(n) /\ HasHandle(n)
      /\ ota_ctx \in Context(Len(handles)) /\ handles \in Seq(Handle)
      /\ task \in [Downloads -> Task] /\ task[n] \in Task
      /\ boot \in [Types -> 0 .. 1] /\ running \in 0 .. 1
  BY DEF Active, HasHandle, IInv, Typed
<1>2. UNCHANGED <<overlapped, write_failed, oversized, last, ub>>
  BY DEF histories, EndFirmware
<1> DEFINE valid == Valid("firmware", task[n].handle)
           switched == [boot EXCEPT !["firmware"] = 1 - running]
<1>3. PICK done \in BOOLEAN :
          IF done
          THEN valid /\ Whole(flash["firmware"][1 - running]) /\ boot' = switched
               /\ Ended(n, "SUCCESS")
          ELSE boot' = boot /\ Ended(n, "FAILED_END")
  BY DEF EndFirmware
<1>4. /\ handles' \in Seq(Handle) /\ Len(handles') = Len(handles)
      /\ \A h \in 1 .. Len(handles) :
             /\ handles'[h].type = handles[h].type
             /\ handles'[h].partition = handles[h].partition
  <2>1. CASE valid
    <3>1. PICK k \in 1 .. Len(handles) : k = task[n].handle
      BY <1>1, <2>1 DEF IInv, TaskInv, Valid, Task
    <3> DEFINE e == [handles[k] EXCEPT !.open = FALSE]
    <3>2. e \in Handle /\ e.type = handles[k].type /\ e.partition = handles[k].partition
      BY <1>1, HandleFreed
    <3>3. handles' = [handles EXCEPT ![k] = e]
      BY <2>1, <3>1 DEF EndFirmware, Free
    <3> HIDE DEF e
    <3> QED
      BY <1>1, <3>2, <3>3, HandlesExcept
  <2>2. CASE ~valid
    BY <1>1, <2>2 DEF EndFirmware
  <2> QED
    BY <2>1, <2>2
<1> DEFINE err == IF done THEN "SUCCESS" ELSE "FAILED_END"
           t == [task[n] EXCEPT !.pc = "report", !.err = err]
<1>5. t \in Task /\ task' = [task EXCEPT ![n] = t]
  BY <1>1, <1>3 DEF Ended, Task
<1>6. /\ task' \in [Downloads -> Task]
      /\ task'[n] = t
      /\ \A m \in Downloads : m # n => task'[m] = task[m]
  BY <1>1, <1>5, Moves
<1>7. /\ t.pc = "report" /\ t.err = err
      /\ t.type = task[n].type /\ t.file = task[n].file /\ t.handle = task[n].handle
      /\ t.chunk = task[n].chunk
  BY <1>1 DEF Task
<1> HIDE DEF t
<1>8. boot' \in [Types -> 0 .. 1] /\ boot'["config"] = boot["config"]
      /\ boot'["firmware"] = IF done THEN 1 - running ELSE boot["firmware"]
  BY <1>1, <1>3 DEF Types
<1>9. Typed'
  <2>1. {completed, overlapped, write_failed, oversized, ub}' \subseteq BOOLEAN
    BY <1>2 DEF IInv, Typed
  <2>2. /\ count' \in 0 .. MaxDownloads /\ running' \in 0 .. 1
        /\ last' \in [n : 0 .. MaxDownloads, type : Types]
        /\ flash' \in [Types -> [0 .. 1 -> Contents]]
    BY <1>2 DEF IInv, Typed
  <2>3. ota_ctx' \in Context(Len(handles'))
    BY <1>1, <1>4
  <2> QED
    BY <1>4, <1>6, <1>8, <2>1, <2>2, <2>3 DEF Typed
<1>10. TaskInv' /\ OneDownload'
  BY <1>2, <1>4, <1>6, <1>7 DEF IInv, TaskInv, OneDownload, Downloading
<1>11. HandlesInv' /\ FirmwareBoots' /\ ActiveIsWhole'
  BY <1>2, <1>4, <1>8 DEF IInv, HandlesInv, FirmwareBoots, ActiveIsWhole, Whole
<1>12. ASSUME ~overlapped, done
       PROVE  /\ n = count /\ task[n].type = "firmware"
              /\ \A i \in 1 .. ImageLen : flash["firmware"][1 - running][i] = n
  <2>1. PICK k \in 1 .. Len(handles) : k = task[n].handle
    BY <1>1, <1>3, <1>12 DEF IInv, TaskInv, Valid, Task
  <2>2. handles[k].type = "firmware" /\ handles[k].partition = 1 - running
    BY <1>3, <1>12, <2>1 DEF Valid, IInv, HandlesInv
  <2>3. Owns(n) /\ HandleOf(n) = k /\ OpsOf(n) # "config"
    BY <1>1, <1>12, <2>1 DEF IInv, HandleInv, HandleOf, OpsOf
  <2>4. n = count /\ task[n].type = "firmware" /\ Written(n, k)
    BY <1>1, <1>3, <1>12, <2>1, <2>3 DEF Owns, Task, Types
  <2>5. handles[k].bytes_written \in 0 .. ImageLen /\ handles[k].bytes_written > 0
    BY <1>1, <2>4, HandleFields DEF Written
  <2>6. flash["firmware"][1 - running][1] \in {n, Garbage}
    BY <2>2, <2>4, <2>5, UpdateAssumption DEF Written
  <2> QED
    BY <1>3, <1>12, <2>4, <2>6, WholeIsFirst
<1>13. ~overlapped => HandleInv' /\ ReportInv' /\ LastInv'
  <2> SUFFICES ASSUME ~overlapped PROVE HandleInv' /\ ReportInv' /\ LastInv'
    OBVIOUS
  <2>1. HandleInv'
    BY <1>1, <1>6, <1>7, OneActive DEF Active
  <2>2. n = count /\ last = NoLast
    BY <1>1 DEF IInv, HandleInv, Owns, LastInv
  <2>3. done => Installed(n, "firmware")' /\ task[n].type = "firmware"
    BY <1>8, <1>12 DEF Installed
  <2>4. ReportInv'
    BY <1>2, <1>6, <1>7, <2>2, <2>3 DEF ReportInv
  <2> QED
    BY <1>2, <2>1, <2>2, <2>4 DEF LastInv, NoLast
<1>14. HandleSound'
  BY <1>2 DEF IInv, HandleSound
<1> QED
  BY <1>2, <1>9, <1>10, <1>11, <1>13, <1>14 DEF IInv

LEMMA EndStep ==
    ASSUME IInv, NEW n \in Downloads, End(n)
    PROVE  IInv'
<1>1. task[n].pc = "end"
      /\ UNCHANGED <<ota_ctx, count, flash, running, completed, histories>>
  BY DEF End
<1>2. CASE task[n].ops # "config"
  BY <1>1, <1>2, EndFirmwareStep DEF End
<1>3. CASE task[n].ops = "config" /\ Valid("config", task[n].handle)
  <2>1. EndConfig(n) /\ Free(task[n].handle) /\ UNCHANGED ub
    BY <1>3 DEF End, EndConfig
  <2>2. CASE handles[task[n].handle].bytes_written = ImageLen
             /\ boot' = [boot EXCEPT !["config"] = handles[task[n].handle].partition]
             /\ Ended(n, "SUCCESS")
    BY <1>1, <1>3, <2>1, <2>2, EndConfigStep
  <2>3. CASE UNCHANGED boot /\ Ended(n, "FAILED_END")
    BY <1>1, <1>3, <2>1, <2>3, EndConfigStep
  <2> QED
    BY <1>3, <2>1, <2>2, <2>3 DEF EndConfig
<1>4. CASE task[n].ops = "config" /\ ~Valid("config", task[n].handle)
  <2>1. UNCHANGED <<ota_ctx, handles, task, count, flash, boot, running, completed,
                    overlapped, write_failed, oversized, last>> /\ ub' = TRUE
    BY <1>1, <1>4 DEF End, EndConfig, histories
  <2>2. HandleSound'
    <3> SUFFICES ASSUME ~overlapped PROVE write_failed
      BY <2>1 DEF HandleSound
    <3>1. Owns(n) /\ HandleOf(n) = task[n].handle /\ HasHandle(n)
      BY <1>1 DEF IInv, HandleInv, Active, HandleOf, HasHandle
    <3> QED
      BY <1>1, <1>4, <3>1 DEF Owns, OpsOf
  <2>3. Typed'
    BY <2>1 DEF IInv, Typed
  <2>4. TaskInv' /\ OneDownload'
    BY <2>1 DEF IInv, TaskInv, OneDownload, Downloading
  <2>5. FirmwareBoots' /\ HandlesInv' /\ ActiveIsWhole'
    BY <2>1, StoredStill
  <2>6. ~overlapped => HandleInv' /\ ReportInv' /\ LastInv'
    BY <2>1, ClaimsStill DEF IInv
  <2> QED
    BY <2>1, <2>2, <2>3, <2>4, <2>5, <2>6 DEF IInv
<1> QED
  BY <1>2, <1>3, <1>4

----------------------------------------------------------------------------
(* The report of a success makes it the last one.                          *)
LEMMA ReportStep ==
    ASSUME IInv, NEW n \in Downloads, Report(n)
    PROVE  IInv'
<1>1. UNCHANGED <<ota_ctx, handles, count, flash, boot, running, overlapped,
                  write_failed, oversized, ub>> /\ task[n].pc = "report"
  BY DEF Report, context, stored
<1>2. task \in [Downloads -> Task] /\ NoTask \in Task /\ task[n] \in Task
  BY NoTaskType DEF IInv, Typed
<1>3. /\ task' \in [Downloads -> Task]
      /\ task'[n] = NoTask
      /\ \A m \in Downloads : m # n => task'[m] = task[m]
  BY <1>2, Moves DEF Report
<1>4. /\ NoTask.pc = "none" /\ NoTask.handle = 0 /\ NoTask.chunk = 1 /\ NoTask.file = "none"
  BY DEF NoTask
<1>5. \/ last' = last
      \/ /\ n = count /\ task[n].err = "SUCCESS"
         /\ last' = [n |-> n, type |-> task[n].type]
  BY DEF Report
<1>6. Typed'
  <2>1. {completed, overlapped, write_failed, oversized, ub}' \subseteq BOOLEAN
    <3>1. completed' \in BOOLEAN
      BY DEF Report, IInv, Typed
    <3> QED
      BY <1>1, <3>1 DEF IInv, Typed
  <2>2. last' \in [n : 0 .. MaxDownloads, type : Types]
    BY <1>2, <1>5, UpdateAssumption DEF IInv, Typed, Task, Downloads
  <2>3. /\ count' \in 0 .. MaxDownloads /\ running' \in 0 .. 1
        /\ boot' \in [Types -> 0 .. 1]
        /\ flash' \in [Types -> [0 .. 1 -> Contents]]
    BY <1>1 DEF IInv, Typed
  <2>4. ota_ctx' \in Context(Len(handles')) /\ handles' \in Seq(Handle)
    BY <1>1 DEF IInv, Typed
  <2> QED
    BY <1>3, <2>1, <2>2, <2>3, <2>4 DEF Typed
<1>7. TaskInv' /\ OneDownload'
  <2>1. Len(handles) \in Nat /\ 1 <= Lengths["none"] + 1
    BY LengthsValue DEF IInv, Typed
  <2> QED
    BY <1>1, <1>3, <1>4, <2>1 DEF IInv, TaskInv, OneDownload, Downloading
<1>8. FirmwareBoots' /\ HandlesInv' /\ ActiveIsWhole'
  BY <1>1, StoredStill
<1>9. ~overlapped => HandleInv' /\ ReportInv' /\ LastInv'
  <2> SUFFICES ASSUME ~overlapped PROVE HandleInv' /\ ReportInv' /\ LastInv'
    OBVIOUS
  <2>1. \A m \in Downloads : Active(m)' => m # n /\ Active(m)
    BY <1>3, <1>4 DEF Active
  <2>2. HandleInv'
    <3> SUFFICES ASSUME NEW m \in Downloads, Active(m)' PROVE Owns(m)'
      BY DEF HandleInv
    <3>1. Owns(m) /\ task'[m] = task[m]
      BY <1>3, <2>1 DEF IInv, HandleInv
    <3>2. HandleOf(m)' = HandleOf(m) /\ OpsOf(m)' = OpsOf(m) /\ (HasHandle(m)' => HasHandle(m))
      BY <1>1, <3>1 DEF HandleOf, OpsOf, HasHandle
    <3>3. \A type, h : Valid(type, h)' <=> Valid(type, h)
      BY <1>1 DEF Valid
    <3>4. \A h : Written(m, h) => Written(m, h)'
      BY <1>1, <3>1 DEF Written
    <3> QED
      BY <1>1, <3>1, <3>2, <3>3, <3>4 DEF Owns
  <2>3. \A m, t : Installed(m, t) => Installed(m, t)'
    BY <1>1 DEF Installed
  <2>4. ReportInv'
    BY <1>1, <1>3, <1>4, <2>3 DEF IInv, ReportInv
  <2>5. LastInv'
    <3>1. CASE last' = last
      BY <1>1, <2>1, <2>3, <3>1 DEF IInv, LastInv
    <3>2. CASE n = count /\ task[n].err = "SUCCESS"
               /\ last' = [n |-> n, type |-> task[n].type]
      <4>1. \A m \in Downloads : ~Active(m)'
        BY <2>1, <3>2 DEF IInv, HandleInv, Owns
      <4>2. PICK type \in Types : type = task[n].type
        BY <1>2 DEF Task
      <4>3. last'.n = n /\ last'.type = type
        BY <3>2, <4>2
      <4>4. ~oversized => Installed(n, type)'
        BY <1>1, <2>3, <3>2, <4>2 DEF IInv, ReportInv
      <4> QED
        BY <1>1, <4>1, <4>3, <4>4 DEF LastInv, Installed
    <3> QED
      BY <1>5, <3>1, <3>2
  <2> QED
    BY <2>2, <2>4, <2>5
<1>10. HandleSound'
  BY <1>1 DEF IInv, HandleSound
<1> QED
  BY <1>1, <1>6, <1>7, <1>8, <1>9, <1>10 DEF IInv

----------------------------------------------------------------------------
(* A reset ends all downloads.  config_load formats only what is not       *)
(* whole, and the boot loader takes a whole firmware.                      *)
LEMMA ResetStep ==
    ASSUME IInv, Reset, ~ub
    PROVE  IInv'
<1>1. /\ boot \in [Types -> 0 .. 1] /\ running \in 0 .. 1
      /\ flash \in [Types -> [0 .. 1 -> Contents]]
  BY DEF IInv, Typed
<1>2. UNCHANGED <<count, overlapped, oversized, last, ub>>
      /\ handles' = <<>> /\ completed' = FALSE /\ write_failed' = FALSE
  BY DEF Reset
<1>3. /\ ota_ctx' \in Context(0)
      /\ ota_ctx'.bytes_written = 0
  BY DEF Reset, Context
<1>4. \A n \in Downloads : task'[n] = NoTask
  BY DEF Reset
<1>5. /\ NoTask.pc = "none" /\ NoTask.handle = 0 /\ NoTask.chunk = 1 /\ NoTask.file = "none"
  BY DEF NoTask
<1>6. PICK formatted \in SUBSET (0 .. 1) :
          /\ \A p \in formatted : ~Loads("config", p)
          /\ flash' = [flash EXCEPT !["config"] =
                          [p \in 0 .. 1 |-> IF p \in formatted THEN Erased ELSE @[p]]]
  BY <1>1 DEF Reset, Formatted, Types
<1>7. /\ flash' \in [Types -> [0 .. 1 -> Contents]]
      /\ flash'["firmware"] = flash["firmware"]
      /\ \A p \in 0 .. 1 : Loads("config", p) => flash'["config"][p] = flash["config"][p]
  <2>1. Erased \in Contents
    BY DEF Erased, Contents
  <2> QED
    BY <1>1, <1>6, <2>1 DEF Types
<1>8. /\ boot' \in [Types -> 0 .. 1] /\ boot'["firmware"] = boot["firmware"]
      /\ Loads("config", boot["config"]) => boot' = boot
  BY <1>1 DEF Reset, Types
<1>9. running' \in 0 .. 1 /\ Whole(flash["firmware"][running'])
  <2>1. boot["firmware"] \in 0 .. 1
    BY <1>1 DEF Types
  <2>2. CASE Loads("firmware", boot["firmware"])
    BY <2>1, <2>2 DEF Reset, Loads
  <2>3. CASE ~Loads("firmware", boot["firmware"])
    <3>1. boot["firmware"] # running
      BY <2>3 DEF IInv, FirmwareBoots, Loads
    <3>2. running' = 1 - boot["firmware"] /\ 1 - boot["firmware"] = running
      BY <1>1, <2>1, <2>3, <3>1 DEF Reset
    <3> QED
      BY <1>1, <3>2 DEF IInv, FirmwareBoots
  <2> QED
    BY <2>2, <2>3
<1>10. Typed'
  <2>1. {completed, overlapped, write_failed, oversized, ub}' \subseteq BOOLEAN
    BY <1>2 DEF IInv, Typed
  <2>2. handles' \in Seq(Handle) /\ Len(handles') = 0
    BY <1>2
  <2>3. task' \in [Downloads -> Task]
    BY NoTaskType DEF Reset
  <2> QED
    BY <1>2, <1>3, <1>7, <1>8, <1>9, <2>1, <2>2, <2>3 DEF IInv, Typed
<1>11. TaskInv' /\ OneDownload'
  <2>1. Len(handles') = 0 /\ 1 <= Lengths["none"] + 1
    BY <1>2, LengthsValue
  <2> QED
    BY <1>4, <1>5, <2>1 DEF TaskInv, OneDownload, Downloading
<1>12. HandlesInv' /\ FirmwareBoots'
  BY <1>2, <1>7, <1>9 DEF HandlesInv, FirmwareBoots, Whole
<1>13. ASSUME ~overlapped, ~oversized
       PROVE  /\ boot' = boot
              /\ flash'["config"][boot["config"]] = flash["config"][boot["config"]]
              /\ Whole(flash["config"][boot["config"]])
  <2>1. Whole(flash["config"][boot["config"]]) /\ boot["config"] \in 0 .. 1
    BY <1>1, <1>13 DEF IInv, ActiveIsWhole, Types
  <2> QED
    BY <1>7, <1>8, <2>1 DEF Loads
<1>14. ActiveIsWhole'
  BY <1>2, <1>13 DEF ActiveIsWhole, Whole
<1>15. ~overlapped => HandleInv' /\ ReportInv' /\ LastInv'
  <2> SUFFICES ASSUME ~overlapped PROVE HandleInv' /\ ReportInv' /\ LastInv'
    OBVIOUS
  <2>1. HandleInv' /\ ReportInv' /\ \A n \in Downloads : ~Active(n)'
    BY <1>4, <1>5 DEF HandleInv, ReportInv, Active
  <2>2. ASSUME ~oversized, NEW n \in 0 .. MaxDownloads, NEW t \in Types, Installed(n, t)
        PROVE  Installed(n, t)'
    <3>1. flash'[t][boot'[t]] = flash[t][boot[t]]
      BY <1>1, <1>7, <1>13, <2>2 DEF Types
    <3> QED
      BY <2>2, <3>1 DEF Installed
  <2>3. last.n \in 0 .. MaxDownloads /\ last.type \in Types
    BY DEF IInv, Typed
  <2>4. LastInv'
    BY <1>2, <2>1, <2>2, <2>3 DEF IInv, LastInv
  <2> QED
    BY <2>1, <2>4
<1>16. HandleSound'
  BY <1>2 DEF HandleSound
<1> QED
  BY <1>2, <1>10, <1>11, <1>12, <1>14, <1>15, <1>16 DEF IInv

LEMMA InvNext ==
    ASSUME IInv, [Next]_vars
    PROVE  IInv'
<1>1. CASE \E type \in Types, file \in Files : Download(type, file)
  BY <1>1, DownloadStep
<1>2. CASE \E n \in Downloads : OtaTask(n)
  BY <1>2, DataStep, BeginStep, WriteStep, PerformedStep, CloseStep, TakeHandleStep,
     EndStep, ReportStep DEF OtaTask
<1>3. CASE OnCompleted \/ PowerLoss
  BY <1>3, ResetStep DEF OnCompleted, PowerLoss, Runs
<1>4. CASE UNCHANGED vars
  <2>1. UNCHANGED <<ota_ctx, handles, task, count, flash, boot, running, completed,
                    overlapped, write_failed, oversized, last, ub>>
    BY <1>4 DEF vars, context, stored, histories
  <2>2. Typed'
    BY <2>1 DEF IInv, Typed
  <2>3. TaskInv' /\ OneDownload'
    BY <2>1 DEF IInv, TaskInv, OneDownload, Downloading
  <2>4. FirmwareBoots' /\ HandlesInv' /\ ActiveIsWhole' /\ HandleSound'
    BY <2>1, StoredStill DEF IInv, HandleSound
  <2>5. ~overlapped => HandleInv' /\ ReportInv' /\ LastInv'
    BY <2>1, ClaimsStill DEF IInv
  <2> QED
    BY <2>1, <2>2, <2>3, <2>4, <2>5 DEF IInv
<1> QED
  BY <1>1, <1>2, <1>3, <1>4 DEF Next

LEMMA InvHolds == Spec => []IInv
<1>1. Init => IInv
  BY InvInit
<1>2. IInv /\ [Next]_vars => IInv'
  BY InvNext
<1> QED
  BY <1>1, <1>2, PTL DEF Spec

----------------------------------------------------------------------------
(* The variables of Update keep their types: a write stays inside the      *)
(* partition, a task's handle is one that was given out.                   *)
THEOREM TypeCorrect == Spec => []TypeOK
<1>1. IInv => TypeOK
  BY TypedTypeOK DEF IInv
<1> QED
  BY <1>1, InvHolds, PTL

(* The active configuration is whole: config_update_end switches only to a *)
(* file that has filled its partition, without a gap, and no download      *)
(* writes to the active partition.                                         *)
THEOREM ConfigurationWhole == Spec => []ActiveIsWhole
<1>1. IInv => ActiveIsWhole
  BY DEF IInv
<1> QED
  BY <1>1, InvHolds, PTL

(* The boot loader always finds a whole firmware, whatever downloads       *)
(* overlap, fail or are broken off by a reset.                             *)
THEOREM AlwaysBoots == Spec => []FirmwareBoots
<1>1. IInv => FirmwareBoots
  BY DEF IInv
<1> QED
  BY <1>1, InvHolds, PTL

(* What was reported as a success is what starts next.                     *)
THEOREM SuccessTrue == Spec => []SuccessInstalls
<1>1. IInv => SuccessInstalls
  BY DEF IInv, LastInv, Installed, SuccessInstalls
<1> QED
  BY <1>1, InvHolds, PTL

(* A freed handle of the configuration is used only after a failed write,  *)
(* or when downloads overlapped.                                           *)
THEOREM HandleUse == Spec => []HandleSound
<1>1. IInv => HandleSound
  BY DEF IInv
<1> QED
  BY <1>1, InvHolds, PTL
=============================================================================
