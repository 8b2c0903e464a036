----------------------------- MODULE MqttProofs -----------------------------
(***************************************************************************)
(* Proofs about Mqtt: the types, memory safety without overlaps, delivery  *)
(* to subscribers and from the queue, and that the module implements       *)
(* Outbox, for any topics, messages and number of entries.                 *)
(*                                                                         *)
(* The invariant describes each list by the set L of its entries.  That of *)
(* subscriptions grows at its end, that of publications at its head, so    *)
(* numbers, which are given out in the order of malloc, ascend along the   *)
(* one and descend along the other.  It holds of the publications whatever *)
(* overlaps: their list may then end in a freed entry, but no message is   *)
(* sent twice.                                                             *)
(***************************************************************************)
EXTENDS Mqtt, TLAPS, SequenceTheorems, WellFoundedInduction

A == task["app"]
M == task["mqtt"]

Frees == {"take", "advance", "free", "reset"}
Unsubscribes == {"unsubscribe", "unsubscribe_prefix"}
AppPcs(call) ==
    IF call = "subscribe" THEN {"append", "append_link"}
    ELSE IF call \in Unsubscribes THEN {"find", "unlink", "remove"}
    ELSE IF call = "publish" THEN {"client_publish", "add", "add_link"}
    ELSE Frees \cup {"destroy"}
ClientPcs(call) ==
    IF call = "CONNECTED" THEN Frees \cup {"flush", "publish", "next", "add", "add_link"}
    ELSE IF call = "DISCONNECTED" THEN Frees
    ELSE {"match", "move", "done"}
Calls == AppCalls \cup Events \cup {"none"}
Pcs == Frees \cup {"idle", "append", "append_link", "find", "unlink", "remove",
                   "client_publish", "add", "add_link", "destroy", "flush", "publish",
                   "next", "match", "move", "done"}

Locals == [call : Calls, pc : Pcs, arg : SUBSET (Topics \cup Messages), at : Nat,
           new : Nat, todo : SUBSET Nat]
Cells == [used : {TRUE}, next : Nat, what : Topics \cup Messages] \cup {Freed}

HeapTyped ==
    /\ heap \in Seq(Cells) /\ Len(heap) <= MaxEntries
    /\ \A n \in Entries : heap[n].next <= Len(heap)
Typed ==
    /\ HeapTyped
    /\ list \in [Lists -> Nat] /\ \A l \in Lists : list[l] <= Len(heap)
    /\ mqtt_connected \in BOOLEAN
    /\ client \in {"none", "offline", "online"}
    /\ task \in [Tasks -> Locals]
    /\ \A p \in Tasks : task[p].at <= Len(heap) /\ task[p].new <= Len(heap)
    /\ accepted \in Seq(Messages) /\ sent \in Seq(Messages)
    /\ queued \subseteq Messages /\ refused \subseteq Messages
    /\ ub \in Lists \cup {"none"}
    /\ raced \subseteq {"subs", "pubs", "flag"} /\ Overlap \subseteq raced

(* Which steps a call has; a task without a call is idle.                  *)
Control ==
    /\ A.pc = "idle" => A = Idle
    /\ A.pc # "idle" => A.call \in AppCalls /\ A.pc \in AppPcs(A.call)
    /\ M.pc = "idle" => M = Idle
    /\ M.pc # "idle" => M.call \in Events /\ M.pc \in ClientPcs(M.call)
    /\ A.call = "publish" => \E m \in Messages : A.arg = {m}
    /\ A.call # "publish" => A.arg \subseteq Topics
    /\ M.call = "CONNECTED" /\ M.pc \in {"add", "add_link"} => \E m \in Messages : M.arg = {m}
    /\ M.call # "CONNECTED" => M.arg \subseteq Topics
    /\ M.pc \in {"publish", "next", "add", "add_link", "advance", "free"} => M.at # 0

----------------------------------------------------------------------------
LEMMA Constants == MaxEntries \in Nat /\ Topics \cap Messages = {}
  BY MaxEntriesAssumption, KindsAssumption

LEMMA IdleTyped ==
    /\ Idle \in Locals /\ Idle.call = "none" /\ Idle.pc = "idle" /\ Idle.at = 0
    /\ Idle.new = 0 /\ Idle.arg = {} /\ Idle.todo = {}
  BY DEF Idle, Locals, Calls, Pcs, Null

LEMMA OverlapKinds == Overlap \subseteq {"subs", "pubs", "flag"}
  BY DEF Overlap
LEMMA OverlapKindsNext == Overlap' \subseteq {"subs", "pubs", "flag"}
  BY DEF Overlap

LEMMA AppMoves ==
    ASSUME Typed, NEW t \in Locals, Becomes("app", t)
    PROVE  /\ A' = t /\ M' = M /\ task' \in [Tasks -> Locals]
           /\ raced \subseteq raced' /\ Overlap' \subseteq raced'
           /\ raced' \subseteq {"subs", "pubs", "flag"}
<1>1. A' = t /\ M' = M /\ task' \in [Tasks -> Locals]
  BY DEF Becomes, A, M, Typed, Tasks
<1>2. raced' = raced \cup Overlap'
  BY DEF Becomes
<1> QED
  BY <1>1, <1>2, OverlapKindsNext DEF Typed

LEMMA ClientMoves ==
    ASSUME Typed, NEW t \in Locals, Becomes("mqtt", t)
    PROVE  /\ M' = t /\ A' = A /\ task' \in [Tasks -> Locals]
           /\ raced \subseteq raced' /\ Overlap' \subseteq raced'
           /\ raced' \subseteq {"subs", "pubs", "flag"}
<1>1. M' = t /\ A' = A /\ task' \in [Tasks -> Locals]
  BY DEF Becomes, A, M, Typed, Tasks
<1>2. raced' = raced \cup Overlap'
  BY DEF Becomes
<1> QED
  BY <1>1, <1>2, OverlapKindsNext DEF Typed

(* The heap                                                                *)
LEMMA CellIs ==
    ASSUME HeapTyped, NEW n \in Entries
    PROVE  /\ heap[n] \in Cells /\ heap[n].used \in BOOLEAN /\ heap[n].next \in Nat
           /\ n \in Nat /\ n # 0
           /\ heap[n].used => heap[n].what \in Topics \cup Messages
           /\ ~heap[n].used => heap[n].next = 0
           /\ Len(heap) \in Nat
<1>1. heap \in Seq(Cells) /\ Len(heap) \in Nat /\ n \in 1 .. Len(heap)
  BY DEF HeapTyped, Entries
<1>2. heap[n] \in Cells /\ n \in Nat /\ n # 0
  BY <1>1
<1>3. CASE heap[n] = Freed
  BY <1>1, <1>2, <1>3 DEF Freed, Null
<1>4. CASE heap[n] \in [used : {TRUE}, next : Nat, what : Topics \cup Messages]
  BY <1>1, <1>2, <1>4
<1> QED
  BY <1>2, <1>3, <1>4 DEF Cells

LEMMA HeapAppend ==
    ASSUME HeapTyped, CanAllocate, NEW w \in Topics \cup Messages, NEW p \in 0 .. Len(heap),
           heap' = Append(heap, Entry(w, p))
    PROVE  /\ HeapTyped' /\ Len(heap') = Len(heap) + 1 /\ Entries' = Entries \cup {Allocated}
           /\ Allocated \notin Entries /\ Allocated \in Nat /\ Len(heap) \in Nat
           /\ \A n \in Entries : heap'[n] = heap[n] /\ n < Allocated
           /\ heap'[Allocated].used /\ heap'[Allocated].next = p /\ heap'[Allocated].what = w
<1>1. Entry(w, p) \in Cells
  BY DEF Entry, Cells, HeapTyped
<1>2. heap \in Seq(Cells) /\ Len(heap) \in Nat
  BY DEF HeapTyped
<1>3. /\ heap' \in Seq(Cells) /\ Len(heap') = Len(heap) + 1
      /\ \A n \in 1 .. Len(heap) : heap'[n] = heap[n]
      /\ heap'[Len(heap) + 1] = Entry(w, p)
  BY <1>1, <1>2
<1>4. Entries' = Entries \cup {Allocated} /\ Allocated \notin Entries /\ Allocated \in Nat
      /\ Entries = 1 .. Len(heap)
  BY <1>2, <1>3 DEF Entries, Allocated
<1>5. heap'[Allocated].used /\ heap'[Allocated].next = p /\ heap'[Allocated].what = w
  BY <1>3 DEF Allocated, Entry
<1>6. \A n \in Entries : heap'[n] = heap[n] /\ n < Allocated
  BY <1>2, <1>3, <1>4 DEF Allocated
<1>7. \A n \in Entries' : heap'[n].next <= Len(heap')
  <2> SUFFICES ASSUME NEW n \in Entries'
               PROVE  heap'[n].next <= Len(heap')
    OBVIOUS
  <2>1. CASE n \in Entries
    <3>1. heap[n].next <= Len(heap)
      BY <2>1 DEF HeapTyped
    <3>2. PICK q \in Nat : q = heap[n].next
      BY <2>1, CellIs
    <3>3. heap'[n].next = q /\ q <= Len(heap)
      BY <1>6, <2>1, <3>1, <3>2
    <3> QED
      BY <1>2, <1>3, <3>3
  <2>2. CASE n = Allocated
    <3>1. heap'[n].next = p
      BY <1>5, <2>2
    <3> QED
      BY <1>2, <1>3, <3>1
  <2> QED
    BY <1>4, <2>1, <2>2
<1>8. Len(heap') <= MaxEntries
  BY <1>2, <1>3, Constants DEF CanAllocate
<1> QED
  BY <1>2, <1>3, <1>4, <1>5, <1>6, <1>7, <1>8 DEF HeapTyped

LEMMA HeapFree ==
    ASSUME HeapTyped, NEW k \in Entries, heap' = [heap EXCEPT ![k] = Freed]
    PROVE  /\ HeapTyped' /\ Len(heap') = Len(heap) /\ Entries' = Entries
           /\ \A n \in Entries : n # k => heap'[n] = heap[n]
           /\ ~heap'[k].used /\ heap'[k].next = 0
<1>1. heap \in Seq(Cells) /\ Len(heap) \in Nat /\ Freed \in Cells
  BY DEF HeapTyped, Cells
<1>2. /\ heap' \in Seq(Cells) /\ Len(heap') = Len(heap)
      /\ \A n \in Entries : heap'[n] = IF n = k THEN Freed ELSE heap[n]
  BY <1>1 DEF Entries
<1>3. Entries' = Entries
  BY <1>2 DEF Entries
<1>4. ~heap'[k].used /\ heap'[k].next = 0
  BY <1>2 DEF Freed, Null
<1>5. \A n \in Entries' : heap'[n].next <= Len(heap')
  BY <1>1, <1>2, <1>3, <1>4 DEF HeapTyped
<1> QED
  BY <1>2, <1>3, <1>4, <1>5 DEF HeapTyped

LEMMA HeapStore ==
    ASSUME HeapTyped, NEW k \in Entries, heap[k].used, NEW p \in 0 .. Len(heap),
           heap' = [heap EXCEPT ![k].next = p]
    PROVE  /\ HeapTyped' /\ Len(heap') = Len(heap) /\ Entries' = Entries
           /\ \A n \in Entries : n # k => heap'[n] = heap[n]
           /\ heap'[k].used /\ heap'[k].next = p /\ heap'[k].what = heap[k].what
<1>1. heap \in Seq(Cells) /\ Len(heap) \in Nat /\ p \in Nat
  BY DEF HeapTyped
<1>2. heap[k] \in [used : {TRUE}, next : Nat, what : Topics \cup Messages]
  <2>1. heap[k] \in Cells
    BY CellIs
  <2>2. heap[k] # Freed
    BY DEF Freed
  <2> QED
    BY <2>1, <2>2 DEF Cells
<1>3. PICK c : c = [heap[k] EXCEPT !.next = p]
  OBVIOUS
<1>4. /\ c \in [used : {TRUE}, next : Nat, what : Topics \cup Messages]
      /\ c.used /\ c.next = p /\ c.what = heap[k].what
  BY <1>1, <1>2, <1>3
<1>5. /\ heap' \in Seq(Cells) /\ Len(heap') = Len(heap)
      /\ \A n \in Entries : heap'[n] = IF n = k THEN c ELSE heap[n]
  <2>1. heap' = [heap EXCEPT ![k] = c] /\ c \in Cells
    BY <1>3, <1>4 DEF Cells
  <2> QED
    BY <1>1, <2>1 DEF Entries
<1>6. Entries' = Entries
  BY <1>5 DEF Entries
<1>7. \A n \in Entries' : heap'[n].next <= Len(heap')
  BY <1>1, <1>4, <1>5, <1>6 DEF HeapTyped
<1>8. heap'[k].used /\ heap'[k].next = p /\ heap'[k].what = heap[k].what
  BY <1>4, <1>5
<1> QED
  BY <1>5, <1>6, <1>7, <1>8 DEF HeapTyped

----------------------------------------------------------------------------
(* Publications                                                            *)
Flushing == M.call = "CONNECTED"
Adding == A.call = "publish" /\ A.pc = "add_link"
Live(n) == n \in Entries /\ heap[n].used /\ heap[n].what \in Messages
FreedAt(n) == n \in Entries /\ ~heap[n].used

PubPtr(n) == n = 0 \/ FreedAt(n) \/ Live(n)
KindPub ==
    /\ PubPtr(list["pubs"])
    /\ \A n \in Entries : Live(n) => PubPtr(heap[n].next)
    /\ A.call = "publish" => PubPtr(A.new)
    /\ Flushing => PubPtr(M.at) /\ PubPtr(M.new)

(* The flag is down during a flush only if mqtt_disconnect has cleared it, *)
(* which has not ended then.                                               *)
FlagInv ==
    /\ Flushing /\ ~mqtt_connected => A.call = "disconnect" /\ "flag" \in raced
    /\ Flushing /\ M.pc \in {"add", "add_link"} => ~mqtt_connected

(* What entry n carries has not been sent, and no other carries it.        *)
Fresh(n) ==
    /\ heap[n].what \notin ToSet(sent)
    /\ \A k \in Entries : Live(k) /\ heap[k].what = heap[n].what => k = n

OnceInv ==
    /\ ToSet(sent) \subseteq ToSet(accepted)
    /\ \A n \in Entries : Live(n) => heap[n].what \in ToSet(accepted)
    /\ A.call = "publish" /\ A.pc \in {"client_publish", "add"} =>
          \A m \in A.arg : /\ m \in ToSet(accepted) /\ m \notin ToSet(sent)
                           /\ \A n \in Entries : Live(n) => heap[n].what # m

(* The list, from the entry that mqtt_publications_free has in hand.       *)
Start == IF Flushing /\ M.pc = "advance" THEN M.at ELSE list["pubs"]

(* Its entries L, each allocated before the one that points to it; the     *)
(* last one points to nothing, or to a freed entry d.                      *)
PubList(L, d) ==
    /\ \A e \in L : Live(e)
    /\ \/ Start \in L /\ \A f \in L : f <= Start
       \/ Start = d /\ L = {}
    /\ \A e \in L : \/ /\ heap[e].next \in L /\ heap[e].next < e
                       /\ \A f \in L : f < e => f <= heap[e].next
                    \/ heap[e].next = d /\ \A f \in L : e <= f
    /\ d = 0 \/ FreedAt(d) \/ (Flushing /\ M.pc = "free" /\ d = M.at)

(* Entries whose publication has been sent, or copied, are in S.           *)
StaleIn(S) == \A n \in Entries : Live(n) /\ n \notin S => Fresh(n)
FreshBefore(L, n) == \A e \in L : e < n => Fresh(e)

PubFlush(L, d) ==
    /\ ~Flushing \/ M.pc \in {"flush", "reset"} => StaleIn({})
    /\ Flushing /\ M.pc = "publish" =>
          /\ M.at \in L \cup {d} /\ StaleIn(L)
          /\ M.at \in L => FreshBefore(L, M.at) /\ Fresh(M.at)
    /\ Flushing /\ M.pc = "add" =>
          /\ M.at \in L /\ StaleIn(L) /\ FreshBefore(L, M.at) /\ Fresh(M.at)
          /\ M.arg = {heap[M.at].what}
    /\ Flushing /\ M.pc = "add_link" =>
          /\ M.at \in L /\ StaleIn(L \cup {M.new}) /\ FreshBefore(L, M.at)
          /\ Live(M.new) /\ heap[M.new].next = list["pubs"]
          /\ \A e \in L : e < M.new
    /\ Flushing /\ M.pc = "next" => M.at \in L /\ StaleIn(L) /\ FreshBefore(L, M.at)
    /\ Flushing /\ M.pc \in {"take", "advance"} => d # 0 \/ StaleIn(L)
    /\ Flushing /\ M.pc = "free" => M.at \notin L /\ (d # 0 \/ StaleIn(L \cup {M.at}))

(* The entry that mqtt_publish will put on the list.                       *)
PubApp(L) ==
    Adding =>
       /\ Live(A.new) /\ A.new \notin L /\ Fresh(A.new)
       /\ \A e \in L : e < A.new
       /\ Flushing /\ M.pc = "free" => M.at # A.new
       /\ \/ heap[A.new].next = list["pubs"]
          \/ Flushing /\ M.pc = "free" /\ heap[A.new].next = M.at
          \/ FreedAt(heap[A.new].next) /\ (list["pubs"] = 0 \/ (Flushing /\ M.pc \in Frees))

(* A publication on its way to the list waits for the flush to be over.    *)
Pending == A.call = "publish" /\ A.pc \in {"add", "add_link"}
PubPending ==
    Flushing /\ Pending => /\ M.pc = "reset" => list["pubs"] = 0
                           /\ M.pc = "advance" => M.at = list["pubs"]

(* Without overlaps every publication in use is on the list or in hand.    *)
PubClean(L, d) ==
    "pubs" \notin raced =>
       /\ d = 0
       /\ Start = list["pubs"]
       /\ \A n \in Entries : Live(n) =>
            \/ n \in L
            \/ Adding /\ n = A.new
            \/ Flushing /\ M.pc = "add_link" /\ n = M.new
            \/ Flushing /\ M.pc = "free" /\ n = M.at
       /\ Adding => heap[A.new].next = list["pubs"]
       /\ Flushing /\ M.pc = "free" => Live(M.at)
       /\ Flushing /\ M.pc = "reset" => L = {}

Tried(n) == heap[n].what \in ToSet(sent) \cup refused
PubTried(L) ==
    "pubs" \notin raced /\ "flag" \notin raced /\ Flushing =>
        /\ M.pc = "publish" => \A e \in L : e > M.at => Tried(e)
        /\ M.pc = "next" => \A e \in L : e >= M.at => Tried(e)
        /\ M.pc \in Frees => \A e \in L : Tried(e)
        /\ M.pc = "free" => Tried(M.at)

PubAll(L, d) ==
    PubList(L, d) /\ PubFlush(L, d) /\ PubApp(L) /\ PubClean(L, d) /\ PubTried(L)
PubInv == \E L \in SUBSET Entries, d \in 0 .. Len(heap) : PubAll(L, d)

Publications == KindPub /\ OnceInv /\ PubPending /\ PubInv /\ QueuedUntilOffered

(* What the steps on the other list leave alone.                           *)
PubSame ==
    /\ list'["pubs"] = list["pubs"] /\ UNCHANGED <<accepted, sent, queued, refused>>
    /\ \A n \in Entries : n \in Entries' /\ n \in Nat /\ n # 0
    /\ \A n \in Entries' : Live(n)' => Live(n)
    /\ \A n \in Entries : Live(n) => Live(n)' /\ heap'[n] = heap[n]
    /\ \A n \in Entries : FreedAt(n) => FreedAt(n)'
    /\ Len(heap) \in Nat /\ Len(heap') \in Nat /\ Len(heap) <= Len(heap')
    /\ raced \subseteq raced' /\ (ub' = "none" => ub = "none")
    /\ A' = A \/ (A.call # "publish" /\ A'.call # "publish")
    /\ M' = M \/ (M.call # "CONNECTED" /\ M'.call # "CONNECTED")

LEMMA PubFrame ==
    ASSUME Typed, Control, Publications, PubSame
    PROVE  Publications'
<1> USE DEF PubSame
<1>1. /\ Flushing' <=> Flushing
      /\ Flushing => M' = M
      /\ (A.call = "publish" <=> A'.call = "publish")
      /\ A.call = "publish" => A' = A
      /\ Adding' <=> Adding
      /\ Adding => A' = A
  BY DEF Flushing, Adding
<1>2. \A n : (n \in Entries /\ FreedAt(n) => FreedAt(n)') /\ (Live(n)' <=> Live(n))
  BY DEF Live, FreedAt
<1>3. \A n : PubPtr(n) => PubPtr(n)'
  BY <1>2 DEF PubPtr, FreedAt
<1>4. KindPub'
  BY <1>1, <1>2, <1>3 DEF Publications, KindPub, Live
<1>5. \A n : Live(n) => (Fresh(n) <=> Fresh(n)') /\ (Tried(n) <=> Tried(n)') /\ heap'[n] = heap[n]
  BY <1>2 DEF Fresh, Tried, Live
<1>6. OnceInv'
  BY <1>1, <1>2, <1>5 DEF Publications, OnceInv, Live
<1>7. PubPending'
  BY <1>1 DEF Publications, PubPending, Pending
<1>8. PICK L \in SUBSET Entries, d \in 0 .. Len(heap) : PubAll(L, d)
  BY DEF Publications, PubInv
<1>9. Start' = Start
  BY <1>1 DEF Start
<1>10. PubList(L, d)'
  BY <1>1, <1>2, <1>5, <1>8, <1>9 DEF PubAll, PubList, FreedAt
<1>11. PubFlush(L, d)'
  <2>1. \A S : StaleIn(S) => StaleIn(S)'
    BY <1>2, <1>5 DEF StaleIn, Live
  <2>2. \A n : FreshBefore(L, n) => FreshBefore(L, n)'
    BY <1>5, <1>8 DEF PubAll, PubList, FreshBefore
  <2>3. \A e \in L : Live(e)
    BY <1>8 DEF PubAll, PubList
  <2> QED
    BY <1>1, <1>2, <1>5, <1>8, <2>1, <2>2, <2>3 DEF PubAll, PubFlush
<1>12. PubApp(L)'
  BY <1>1, <1>2, <1>5, <1>8 DEF PubAll, PubApp, FreedAt
<1>13. PubClean(L, d)'
  <2> SUFFICES ASSUME "pubs" \notin raced'
               PROVE  PubClean(L, d)'
    BY DEF PubClean
  <2>0. "pubs" \notin raced /\ PubClean(L, d) /\ PubApp(L)
    BY <1>8 DEF PubAll
  <2>1. d = 0 /\ Start' = list'["pubs"]
    BY <1>9, <2>0 DEF PubClean
  <2>2. ASSUME NEW n \in Entries', Live(n)'
        PROVE  \/ n \in L
               \/ Adding' /\ n = A'.new
               \/ Flushing' /\ M'.pc = "add_link" /\ n = M'.new
               \/ Flushing' /\ M'.pc = "free" /\ n = M'.at
    <3>1. n \in Entries /\ Live(n)
      BY <1>2, <2>2 DEF Live
    <3> QED
      BY <1>1, <2>0, <3>1 DEF PubClean
  <2>3. Adding' => heap'[A'.new].next = list'["pubs"]
    <3>1. Adding => Live(A.new) /\ heap[A.new].next = list["pubs"]
      BY <2>0 DEF PubClean, PubApp
    <3>2. Adding => heap'[A.new] = heap[A.new]
      BY <1>5, <3>1
    <3> QED
      BY <1>1, <3>1, <3>2
  <2>4. /\ Flushing' /\ M'.pc = "free" => Live(M.at)'
        /\ Flushing' /\ M'.pc = "reset" => L = {}
    BY <1>1, <1>2, <2>0 DEF PubClean
  <2> QED
    BY <2>1, <2>2, <2>3, <2>4 DEF PubClean
<1>14. PubTried(L)'
  <2>1. \A e \in L : Live(e)
    BY <1>8 DEF PubAll, PubList
  <2>2. "pubs" \notin raced /\ Flushing /\ M.pc = "free" => Live(M.at)
    BY <1>8 DEF PubAll, PubClean
  <2> QED
    BY <1>1, <1>5, <1>8, <2>1, <2>2 DEF PubAll, PubTried
<1>15. L \in SUBSET Entries' /\ d \in 0 .. Len(heap')
  BY <1>8
<1>16. PubInv'
  <2>1. PubAll(L, d)'
    BY <1>10, <1>11, <1>12, <1>13, <1>14 DEF PubAll
  <2> QED
    BY <1>15, <2>1, Zenon DEF PubInv
<1>17. QueuedUntilOffered'
  <2> SUFFICES ASSUME ub' = "none", raced' \cap {"pubs", "flag"} = {}, NEW m \in queued'
               PROVE  \/ m \in ToSet(sent') \cup refused'
                      \/ \E n \in Entries' : heap'[n].used /\ heap'[n].what = m
                      \/ A'.pc = "add" /\ A'.arg = {m}
    BY DEF QueuedUntilOffered, Waiting, A
  <2>1. ub = "none" /\ raced \cap {"pubs", "flag"} = {} /\ m \in queued
    OBVIOUS
  <2>2. \/ m \in ToSet(sent) \cup refused
        \/ \E n \in Entries : heap[n].used /\ heap[n].what = m
        \/ A.pc = "add" /\ A.arg = {m}
    BY <2>1 DEF Publications, QueuedUntilOffered, Waiting, A
  <2>3. CASE \E n \in Entries : heap[n].used /\ heap[n].what = m
    <3>1. PICK n \in Entries : heap[n].used /\ heap[n].what = m
      BY <2>3
    <3>2. heap'[n] = heap[n]
      BY <1>5, <3>1, <2>1 DEF Live, Typed
    <3> QED
      BY <3>1, <3>2
  <2>4. CASE A.pc = "add" /\ A.arg = {m}
    <3>1. A.call = "publish"
      BY <2>4 DEF Control, AppPcs, Idle, Unsubscribes, Frees
    <3> QED
      BY <1>1, <2>4, <3>1
  <2> QED
    BY <2>2, <2>3, <2>4
<1> QED
  BY <1>4, <1>6, <1>7, <1>16, <1>17 DEF Publications

----------------------------------------------------------------------------
(* Subscriptions                                                           *)
LiveSub(n) == n \in Entries /\ heap[n].used /\ heap[n].what \in Topics
SubPtr(n) == n = 0 \/ FreedAt(n) \/ LiveSub(n)
OnSubs == A.call \notin {"none", "publish"}
ClientOnSubs == M.call \in {"DISCONNECTED", "DATA"}
Unsubscribing == A.call \in Unsubscribes

KindSub ==
    /\ SubPtr(list["subs"])
    /\ \A n \in Entries : LiveSub(n) => SubPtr(heap[n].next)
    /\ OnSubs => SubPtr(A.at) /\ SubPtr(A.new)
    /\ ClientOnSubs => SubPtr(M.at)

(* The entries L of the list, each allocated after the one that points to  *)
(* it.                                                                     *)
SubList(L) ==
    /\ \A e \in L : LiveSub(e)
    /\ \/ list["subs"] \in L /\ \A f \in L : list["subs"] <= f
       \/ list["subs"] = 0 /\ L = {}
    /\ \A e \in L : \/ /\ heap[e].next \in L /\ e < heap[e].next
                       /\ \A f \in L : e < f => heap[e].next <= f
                    \/ heap[e].next = 0 /\ \A f \in L : f <= e

(* How far the application's call has got.                                 *)
SubApp(L) ==
    /\ A.call = "subscribe" =>
         /\ A.at \in L \cup {0}
         /\ LiveSub(A.new) /\ heap[A.new].next = 0 /\ \A e \in L : e < A.new
         /\ A.pc = "append_link" => \A e \in L : e <= A.at
    /\ Unsubscribing =>
         /\ A.at \in L \cup {0}
         /\ A.pc = "unlink" => A.new \in L /\ Deref("subs", A.at) = A.new
         /\ A.pc = "remove" => LiveSub(A.new) /\ A.new \notin L
    /\ A.call = "disconnect" =>
         /\ A.pc = "advance" => A.at \in L /\ A.at = list["subs"]
         /\ A.pc = "free" => LiveSub(A.at) /\ A.at \notin L
         /\ A.pc = "reset" => L = {}

(* How far the client's has, and which subscribers a message has yet to    *)
(* reach.                                                                  *)
SubClient(L) ==
    /\ M.call = "DISCONNECTED" =>
         /\ M.pc = "advance" => M.at \in L /\ M.at = list["subs"]
         /\ M.pc = "free" => LiveSub(M.at) /\ M.at \notin L
         /\ M.pc = "reset" => L = {}
    /\ M.call = "DATA" =>
         /\ \A n \in M.todo : n \in L /\ heap[n].what \in M.arg
         /\ M.pc = "match" => M.at \in L /\ \A n \in M.todo : M.at <= n
         /\ M.pc = "move" => M.at \in L /\ \A n \in M.todo : M.at < n
         /\ M.pc = "done" => M.todo = {}

(* Every subscription in use is on the list or in hand.                    *)
SubClean(L) ==
    \A n \in Entries : LiveSub(n) =>
        \/ n \in L
        \/ A.call = "subscribe" /\ n = A.new
        \/ Unsubscribing /\ A.pc = "remove" /\ n = A.new
        \/ A.call = "disconnect" /\ A.pc = "free" /\ n = A.at
        \/ M.call = "DISCONNECTED" /\ M.pc = "free" /\ n = M.at

SubAll(L) == SubList(L) /\ SubApp(L) /\ SubClient(L) /\ SubClean(L)
SubInv == "subs" \notin raced => \E L \in SUBSET Entries : SubAll(L)

Subscriptions == KindSub /\ SubInv

SubSame ==
    /\ list'["subs"] = list["subs"]
    /\ \A n \in Entries : n \in Entries' /\ n \in Nat /\ n # 0
    /\ \A n \in Entries' : LiveSub(n)' => LiveSub(n)
    /\ \A n \in Entries : LiveSub(n) => LiveSub(n)' /\ heap'[n] = heap[n]
    /\ \A n \in Entries : FreedAt(n) => FreedAt(n)'
    /\ raced \subseteq raced'
    /\ A' = A \/ (~OnSubs /\ ~OnSubs')
    /\ M' = M \/ (~ClientOnSubs /\ ~ClientOnSubs')

LEMMA SubFrame ==
    ASSUME Subscriptions, SubSame
    PROVE  Subscriptions'
<1> USE DEF SubSame
<1>1. /\ OnSubs' <=> OnSubs
      /\ OnSubs => A' = A
      /\ ClientOnSubs' <=> ClientOnSubs
      /\ ClientOnSubs => M' = M
  BY DEF OnSubs, ClientOnSubs
<1>2. \A n : (FreedAt(n) => FreedAt(n)') /\ (LiveSub(n)' <=> LiveSub(n))
  BY DEF LiveSub, FreedAt
<1>3. \A n : SubPtr(n) => SubPtr(n)'
  BY <1>2 DEF SubPtr
<1>4. KindSub'
  BY <1>1, <1>2, <1>3 DEF Subscriptions, KindSub, LiveSub
<1>5. \A n : LiveSub(n) => heap'[n] = heap[n]
  BY DEF LiveSub
<1>6. SubInv'
  <2> SUFFICES ASSUME "subs" \notin raced'
               PROVE  \E L \in SUBSET Entries' : SubAll(L)'
    BY DEF SubInv
  <2>1. PICK L \in SUBSET Entries : SubAll(L)
    BY DEF Subscriptions, SubInv
  <2>2. \A e \in L : LiveSub(e) /\ LiveSub(e)' /\ heap'[e] = heap[e]
    BY <1>2, <1>5, <2>1 DEF SubAll, SubList
  <2>3. SubList(L)'
    BY <2>1, <2>2 DEF SubAll, SubList
  <2>4. SubApp(L)'
    <3>1. CASE ~OnSubs
      BY <1>1, <3>1 DEF SubApp, OnSubs, Unsubscribing, Unsubscribes
    <3>2. CASE OnSubs
      <4>1. A' = A
        BY <1>1, <3>2
      <4>2. A.at \in L \cup {0} => Deref("subs", A.at)' = Deref("subs", A.at)
        BY <2>2, <4>1 DEF Deref
      <4>3. /\ LiveSub(A.new) => LiveSub(A.new)' /\ heap'[A.new] = heap[A.new]
            /\ LiveSub(A.at) => LiveSub(A.at)'
        BY <1>2, <1>5, <4>1
      <4> QED
        BY <2>1, <2>2, <4>1, <4>2, <4>3 DEF SubAll, SubApp, Unsubscribing
    <3> QED
      BY <3>1, <3>2
  <2>5. SubClient(L)'
    <3>1. CASE ~ClientOnSubs
      BY <1>1, <3>1 DEF SubClient, ClientOnSubs
    <3>2. CASE ClientOnSubs
      <4>1. M' = M
        BY <1>1, <3>2
      <4>2. LiveSub(M.at) => LiveSub(M.at)'
        BY <1>2, <4>1
      <4> QED
        BY <2>1, <2>2, <4>1, <4>2 DEF SubAll, SubClient
    <3> QED
      BY <3>1, <3>2
  <2>6. SubClean(L)'
    <3> SUFFICES ASSUME NEW n \in Entries', LiveSub(n)', n \notin L
                 PROVE  \/ A'.call = "subscribe" /\ n = A'.new
                        \/ Unsubscribing' /\ A'.pc = "remove" /\ n = A'.new
                        \/ A'.call = "disconnect" /\ A'.pc = "free" /\ n = A'.at
                        \/ M'.call = "DISCONNECTED" /\ M'.pc = "free" /\ n = M'.at
      BY DEF SubClean
    <3>1. n \in Entries /\ LiveSub(n)
      BY DEF LiveSub
    <3>2. SubClean(L)
      BY <2>1 DEF SubAll
    <3> QED
      BY <1>1, <3>1, <3>2 DEF SubClean, OnSubs, ClientOnSubs, Unsubscribing, Unsubscribes
  <2>7. L \in SUBSET Entries'
    OBVIOUS
  <2>8. SubAll(L)'
    BY <2>3, <2>4, <2>5, <2>6 DEF SubAll
  <2> QED
    BY <2>7, <2>8
<1> QED
  BY <1>4, <1>6 DEF Subscriptions

----------------------------------------------------------------------------
(* The invariant                                                           *)
UbInv == ub # "none" => ub \in raced
IInv == Typed /\ Control /\ FlagInv /\ Publications /\ Subscriptions /\ UbInv

LEMMA TaskIs ==
    ASSUME Typed
    PROVE  /\ A \in Locals /\ M \in Locals /\ Len(heap) \in Nat
           /\ A.at \in Nat /\ A.new \in Nat /\ A.at <= Len(heap) /\ A.new <= Len(heap)
           /\ M.at \in Nat /\ M.new \in Nat /\ M.at <= Len(heap) /\ M.new <= Len(heap)
           /\ list["pubs"] \in Nat /\ list["subs"] \in Nat
           /\ list["pubs"] <= Len(heap) /\ list["subs"] <= Len(heap)
           /\ \A n \in Nat : n # 0 /\ n <= Len(heap) => n \in Entries
           /\ \A n \in Entries : n \in Nat /\ n # 0 /\ n <= Len(heap)
<1>1. A \in Locals /\ M \in Locals
  BY DEF Typed, A, M, Tasks
<1>2. Len(heap) \in Nat
  BY DEF Typed, HeapTyped
<1>3. A.at <= Len(heap) /\ A.new <= Len(heap) /\ M.at <= Len(heap) /\ M.new <= Len(heap)
  BY DEF Typed, A, M, Tasks
<1>4. A.at \in Nat /\ A.new \in Nat /\ M.at \in Nat /\ M.new \in Nat
  BY <1>1 DEF Locals
<1>5. /\ list["pubs"] \in Nat /\ list["subs"] \in Nat
      /\ list["pubs"] <= Len(heap) /\ list["subs"] <= Len(heap)
  BY DEF Typed, Lists
<1>6. /\ \A n \in Nat : n # 0 /\ n <= Len(heap) => n \in Entries
      /\ \A n \in Entries : n \in Nat /\ n # 0 /\ n <= Len(heap)
  BY <1>2 DEF Entries
<1> QED
  BY <1>1, <1>2, <1>3, <1>4, <1>5, <1>6

(* A step of a task that leaves the rest alone.                            *)
LEMMA AppTyped ==
    ASSUME Typed, NEW t \in Locals, Becomes("app", t), HeapTyped',
           Len(heap) <= Len(heap'), list' \in [Lists -> Nat],
           \A l \in Lists : list'[l] <= Len(heap'), t.at <= Len(heap'), t.new <= Len(heap'),
           mqtt_connected' \in BOOLEAN, client' \in {"none", "offline", "online"},
           accepted' \in Seq(Messages), sent' \in Seq(Messages), queued' \subseteq Messages,
           refused' \subseteq Messages,
           ub' = ub
    PROVE  /\ Typed' /\ A' = t /\ M' = M
           /\ raced \subseteq raced' /\ (UbInv => UbInv')
<1>1. /\ A' = t /\ M' = M /\ task' \in [Tasks -> Locals]
      /\ raced \subseteq raced' /\ Overlap' \subseteq raced'
      /\ raced' \subseteq {"subs", "pubs", "flag"}
  BY AppMoves
<1>2. Len(heap) \in Nat /\ Len(heap') \in Nat
  BY DEF Typed, HeapTyped
<1>3. \A p \in Tasks : task'[p].at <= Len(heap') /\ task'[p].new <= Len(heap')
  <2>1. M'.at <= Len(heap') /\ M'.new <= Len(heap')
    BY <1>1, <1>2, TaskIs
  <2>2. A'.at <= Len(heap') /\ A'.new <= Len(heap')
    BY <1>1
  <2> QED
    BY <2>1, <2>2 DEF Tasks, A, M
<1>4. ub' \in Lists \cup {"none"}
  BY DEF Typed
<1>5. Typed'
  BY <1>1, <1>3, <1>4 DEF Typed
<1>6. UbInv => UbInv'
  BY <1>1 DEF UbInv
<1> QED
  BY <1>1, <1>5, <1>6

LEMMA ClientTyped ==
    ASSUME Typed, NEW t \in Locals, Becomes("mqtt", t), HeapTyped',
           Len(heap) <= Len(heap'), list' \in [Lists -> Nat],
           \A l \in Lists : list'[l] <= Len(heap'), t.at <= Len(heap'), t.new <= Len(heap'),
           mqtt_connected' \in BOOLEAN, client' \in {"none", "offline", "online"},
           accepted' \in Seq(Messages), sent' \in Seq(Messages), queued' \subseteq Messages,
           refused' \subseteq Messages,
           ub' = ub
    PROVE  /\ Typed' /\ M' = t /\ A' = A
           /\ raced \subseteq raced' /\ (UbInv => UbInv')
<1>1. /\ M' = t /\ A' = A /\ task' \in [Tasks -> Locals]
      /\ raced \subseteq raced' /\ Overlap' \subseteq raced'
      /\ raced' \subseteq {"subs", "pubs", "flag"}
  BY ClientMoves
<1>2. Len(heap) \in Nat /\ Len(heap') \in Nat
  BY DEF Typed, HeapTyped
<1>3. \A p \in Tasks : task'[p].at <= Len(heap') /\ task'[p].new <= Len(heap')
  <2>1. A'.at <= Len(heap') /\ A'.new <= Len(heap')
    BY <1>1, <1>2, TaskIs
  <2>2. M'.at <= Len(heap') /\ M'.new <= Len(heap')
    BY <1>1
  <2> QED
    BY <2>1, <2>2 DEF Tasks, A, M
<1>4. ub' \in Lists \cup {"none"}
  BY DEF Typed
<1>5. Typed'
  BY <1>1, <1>3, <1>4 DEF Typed
<1>6. UbInv => UbInv'
  BY <1>1 DEF UbInv
<1> QED
  BY <1>1, <1>5, <1>6

LEMMA KindsDiffer ==
    ASSUME NEW n
    PROVE  /\ ~(Live(n) /\ LiveSub(n)) /\ ~(Live(n) /\ FreedAt(n)) /\ ~(LiveSub(n) /\ FreedAt(n))
           /\ Live(n) => n \in Entries
           /\ LiveSub(n) => n \in Entries
  BY Constants DEF Live, LiveSub, FreedAt

(* A step on the subscriptions.                                            *)
LEMMA OnlySubs ==
    ASSUME Typed, Typed', Len(heap) <= Len(heap'), list'["pubs"] = list["pubs"],
           UNCHANGED <<accepted, sent, queued, ub, refused>>, raced \subseteq raced',
           \A n \in Entries : \/ heap'[n] = heap[n]
                              \/ LiveSub(n) /\ (heap'[n].used => heap'[n].what \in Topics),
           \A n \in Entries' : n \in Entries \/ heap'[n].what \in Topics,
           A' = A \/ (A.call # "publish" /\ A'.call # "publish"),
           M' = M \/ (M.call # "CONNECTED" /\ M'.call # "CONNECTED")
    PROVE  PubSame
<1>1. \A n \in Entries : n \in Entries' /\ n \in Nat /\ n # 0
  BY DEF Entries, Typed, HeapTyped
<1>2. \A n \in Entries' : Live(n)' => Live(n)
  BY Constants DEF Live
<1>3. \A n \in Entries : Live(n) => Live(n)' /\ heap'[n] = heap[n]
  BY <1>1, KindsDiffer DEF Live
<1>4. \A n \in Entries : FreedAt(n) => FreedAt(n)'
  BY <1>1, KindsDiffer DEF FreedAt
<1>5. Len(heap) \in Nat /\ Len(heap') \in Nat
  BY DEF Typed, HeapTyped
<1> QED
  BY <1>1, <1>2, <1>3, <1>4, <1>5 DEF PubSame

(* A step on the publications.                                             *)
LEMMA OnlyPubs ==
    ASSUME Typed, Typed', Len(heap) <= Len(heap'), list'["subs"] = list["subs"],
           raced \subseteq raced',
           \A n \in Entries : \/ heap'[n] = heap[n]
                              \/ Live(n) /\ (heap'[n].used => heap'[n].what \in Messages),
           \A n \in Entries' : n \in Entries \/ heap'[n].what \in Messages,
           A' = A \/ (~OnSubs /\ ~OnSubs'),
           M' = M \/ (~ClientOnSubs /\ ~ClientOnSubs')
    PROVE  SubSame
<1>1. \A n \in Entries : n \in Entries' /\ n \in Nat /\ n # 0
  BY DEF Entries, Typed, HeapTyped
<1>2. \A n \in Entries' : LiveSub(n)' => LiveSub(n)
  BY Constants DEF LiveSub
<1>3. \A n \in Entries : LiveSub(n) => LiveSub(n)' /\ heap'[n] = heap[n]
  BY <1>1, KindsDiffer DEF LiveSub
<1>4. \A n \in Entries : FreedAt(n) => FreedAt(n)'
  BY <1>1, KindsDiffer DEF FreedAt
<1> QED
  BY <1>1, <1>2, <1>3, <1>4 DEF SubSame

LEMMA FlagFrame ==
    ASSUME FlagInv, UNCHANGED mqtt_connected, raced \subseteq raced',
           A'.call = A.call \/ A.call # "disconnect",
           M' = M \/ (M.call # "CONNECTED" /\ M'.call # "CONNECTED")
    PROVE  FlagInv'
<1>1. CASE ~Flushing'
  BY <1>1 DEF FlagInv
<1>2. CASE Flushing' /\ M' = M
  BY <1>2 DEF FlagInv, Flushing
<1> QED
  BY <1>1, <1>2 DEF Flushing

(* What a step leaves alone, put together.                                 *)
LEMMA SubsKeep ==
    ASSUME IInv, Typed', Control', FlagInv', PubSame, Subscriptions', UbInv'
    PROVE  IInv'
  BY PubFrame DEF IInv
LEMMA PubsKeep ==
    ASSUME IInv, Typed', Control', FlagInv', SubSame, Publications', UbInv'
    PROVE  IInv'
  BY SubFrame DEF IInv

LEMMA AppIdle ==
    ASSUME Control, A.pc = "idle"
    PROVE  A = Idle /\ A.call = "none" /\ ~OnSubs /\ ~Unsubscribing
  BY IdleTyped DEF Control, OnSubs, Unsubscribing, Unsubscribes

LEMMA ClientIdle ==
    ASSUME Control, M.pc = "idle"
    PROVE  M = Idle /\ M.call = "none" /\ ~Flushing /\ ~ClientOnSubs
  BY IdleTyped DEF Control, ClientOnSubs, Flushing

LEMMA AppCallIs ==
    ASSUME Control
    PROVE  /\ A.pc \in {"append", "append_link"} => A.call = "subscribe"
           /\ A.pc \in {"find", "unlink", "remove"} => Unsubscribing
           /\ A.pc \in {"client_publish", "add", "add_link"} => A.call = "publish"
           /\ A.pc \in Frees \cup {"destroy"} => A.call = "disconnect"
  BY IdleTyped DEF Control, AppPcs, AppCalls, Unsubscribing, Unsubscribes, Frees

LEMMA ClientCallIs ==
    ASSUME Control
    PROVE  /\ M.pc \in {"flush", "publish", "next", "add", "add_link"} => M.call = "CONNECTED"
           /\ M.pc \in {"match", "move", "done"} => M.call = "DATA"
           /\ M.pc \in Frees => M.call \in {"CONNECTED", "DISCONNECTED"}
  BY IdleTyped DEF Control, ClientPcs, Events, Frees

LEMMA KindSubSame ==
    ASSUME KindSub, UNCHANGED heap, SubPtr(list["subs"])',
           OnSubs' => SubPtr(A.at)' /\ SubPtr(A.new)',
           ClientOnSubs' => SubPtr(M.at)'
    PROVE  KindSub'
<1>1. \A n : (SubPtr(n)' <=> SubPtr(n)) /\ (LiveSub(n)' <=> LiveSub(n))
  BY DEF SubPtr, LiveSub, FreedAt, Entries
<1>2. Entries' = Entries
  BY DEF Entries
<1> QED
  BY <1>1, <1>2 DEF KindSub

LEMMA SameHeap ==
    ASSUME UNCHANGED heap
    PROVE  /\ Entries' = Entries /\ (HeapTyped <=> HeapTyped')
           /\ \A n : /\ SubPtr(n)' <=> SubPtr(n)
                     /\ LiveSub(n)' <=> LiveSub(n)
                     /\ PubPtr(n)' <=> PubPtr(n)
                     /\ Live(n)' <=> Live(n)
                     /\ FreedAt(n)' <=> FreedAt(n)
  BY DEF SubPtr, LiveSub, PubPtr, Live, FreedAt, Entries, HeapTyped

(* Following the list of subscriptions.                                    *)
LEMMA DerefSubs ==
    ASSUME Typed, KindSub, NEW p \in Nat, SubPtr(p), Valid(p)
    PROVE  /\ Deref("subs", p) \in Nat /\ Deref("subs", p) <= Len(heap)
           /\ SubPtr(Deref("subs", p)) /\ (p # 0 => LiveSub(p))
<1>1. CASE p = 0
  BY <1>1, TaskIs DEF Deref, KindSub
<1>2. CASE p # 0
  <2>1. LiveSub(p) /\ p \in Entries
    BY <1>2 DEF Valid, InUse, SubPtr, FreedAt, LiveSub
  <2>2. heap[p].next \in Nat /\ heap[p].next <= Len(heap)
    <3>1. HeapTyped
      BY DEF Typed
    <3>2. heap[p].next <= Len(heap)
      BY <2>1, <3>1 DEF HeapTyped
    <3> QED
      BY <2>1, <3>1, <3>2, CellIs
  <2> QED
    BY <1>2, <2>1, <2>2 DEF Deref, KindSub
<1> QED
  BY <1>1, <1>2

LEMMA NextSub ==
    ASSUME Typed, NEW L, SubList(L), NEW p \in L \cup {0}
    PROVE  /\ Valid(p)
           /\ \/ /\ Deref("subs", p) \in L /\ p < Deref("subs", p)
                 /\ \A f \in L : p < f => Deref("subs", p) <= f
              \/ Deref("subs", p) = 0 /\ \A f \in L : f <= p
<1>1. \A e \in L : LiveSub(e) /\ e \in Nat /\ e # 0
  <2>1. \A e \in L : LiveSub(e) /\ e \in Entries
    BY DEF SubList, LiveSub
  <2> QED
    BY <2>1, TaskIs
<1>2. CASE p = 0
  <2>1. Deref("subs", p) = list["subs"] /\ Valid(p)
    BY <1>2 DEF Deref, Valid
  <2>2. \/ list["subs"] \in L /\ \A f \in L : list["subs"] <= f
        \/ list["subs"] = 0 /\ L = {}
    BY DEF SubList
  <2>3. CASE list["subs"] \in L /\ \A f \in L : list["subs"] <= f
    <3>0. list["subs"] \in Nat /\ list["subs"] # 0
      BY <1>1, <2>3
    <3>1. p < list["subs"]
      BY ONLY <1>2, <3>0
    <3> QED
      BY <2>1, <2>3, <3>1
  <2>4. CASE list["subs"] = 0 /\ L = {}
    BY <2>1, <2>4
  <2> QED
    BY <2>2, <2>3, <2>4
<1>3. CASE p # 0
  BY <1>1, <1>3 DEF SubList, Deref, Valid, InUse, Null, LiveSub
<1> QED
  BY <1>2, <1>3

(* A step that leaves the heap and the list, on the application's side.    *)
LEMMA AppSubMove ==
    ASSUME IInv, NEW r \in Locals, Becomes("app", r), UNCHANGED <<heap, list>>, Sound,
           r.at <= Len(heap), r.new <= Len(heap), Control',
           SubPtr(r.at), SubPtr(r.new), A.call # "publish", r.call # "publish",
           r.call = A.call \/ A.call # "disconnect",
           \A L \in SUBSET Entries :
               SubAll(L) /\ "subs" \notin raced => SubApp(L)' /\ SubClean(L)'
    PROVE  IInv'
<1>1. Typed /\ Control /\ FlagInv /\ HeapTyped /\ Len(heap) \in Nat
  BY DEF IInv, Typed, HeapTyped
<1>2. /\ Entries' = Entries /\ HeapTyped'
      /\ \A n : (SubPtr(n)' <=> SubPtr(n)) /\ (LiveSub(n)' <=> LiveSub(n))
  BY <1>1, SameHeap
<1>3. Typed' /\ A' = r /\ M' = M /\ raced \subseteq raced' /\ UbInv'
  BY <1>1, <1>2, AppTyped DEF Sound, histories, Typed, IInv
<1>4. FlagInv'
  BY <1>1, <1>3, FlagFrame DEF Sound
<1>5. PubSame
  <2>1. \A n \in Entries' : n \in Entries \/ heap'[n].what \in Topics
    BY <1>2
  <2>2. Len(heap) <= Len(heap') /\ \A n \in Entries : heap'[n] = heap[n]
    BY <1>1
  <2> QED
    BY <1>1, <1>3, <2>1, <2>2, OnlySubs DEF Sound, histories
<1>6. KindSub'
  <2>1. KindSub
    BY DEF IInv, Subscriptions
  <2>2. SubPtr(list["subs"])' /\ (ClientOnSubs' => SubPtr(M.at)')
    BY <1>2, <1>3, <2>1 DEF KindSub, ClientOnSubs
  <2>3. SubPtr(A.at)' /\ SubPtr(A.new)'
    BY <1>2, <1>3
  <2> QED
    BY <2>1, <2>2, <2>3, KindSubSame
<1>7. SubInv'
  <2> SUFFICES ASSUME "subs" \notin raced'
               PROVE  \E L \in SUBSET Entries' : SubAll(L)'
    BY DEF SubInv
  <2>0. "subs" \notin raced
    BY <1>3
  <2>1. PICK L \in SUBSET Entries : SubAll(L)
    BY <2>0 DEF IInv, Subscriptions, SubInv
  <2>2. SubList(L)' /\ SubClient(L)'
    BY <1>2, <1>3, <2>1 DEF SubAll, SubList, SubClient
  <2>3. SubApp(L)' /\ SubClean(L)'
    BY <2>0, <2>1
  <2>4. SubAll(L)' /\ L \in SUBSET Entries'
    BY <1>2, <2>2, <2>3 DEF SubAll
  <2> QED
    BY <2>4
<1> QED
  BY <1>1, <1>3, <1>4, <1>5, <1>6, <1>7, SubsKeep DEF Subscriptions

----------------------------------------------------------------------------
(* mqtt_subscribe                                                          *)
LEMMA SubscribeStep ==
    ASSUME IInv, NEW t \in Topics, Subscribe(t)
    PROVE  IInv'
<1>1. /\ ub = "none" /\ A.pc = "idle" /\ CanAllocate /\ heap' = Append(heap, Entry(t, 0))
      /\ Becomes("app", [Idle EXCEPT !.call = "subscribe", !.pc = "append", !.new = Allocated])
      /\ UNCHANGED <<list, mqtt_connected, client, accepted, queued, sent, ub, refused>>
  BY DEF Subscribe, AppFree, At, Sound, histories, Null, A
<1>0. Typed /\ Control /\ FlagInv /\ HeapTyped
  BY DEF IInv, Typed
<1>2. /\ HeapTyped' /\ Len(heap') = Len(heap) + 1 /\ Entries' = Entries \cup {Allocated}
      /\ Allocated \notin Entries /\ Allocated \in Nat /\ Len(heap) \in Nat
      /\ \A n \in Entries : heap'[n] = heap[n] /\ n < Allocated
      /\ heap'[Allocated].used /\ heap'[Allocated].next = 0 /\ heap'[Allocated].what = t
  <2>1. t \in Topics \cup Messages /\ 0 \in 0 .. Len(heap)
    BY <1>0 DEF HeapTyped
  <2> QED
    BY <1>0, <1>1, <2>1, HeapAppend
<1> PICK r : r = [Idle EXCEPT !.call = "subscribe", !.pc = "append", !.new = Allocated]
  OBVIOUS
<1>3. /\ r \in Locals /\ Becomes("app", r) /\ r.call = "subscribe" /\ r.pc = "append"
      /\ r.new = Allocated /\ r.at = 0 /\ r.arg = {}
  BY <1>1, <1>2, IdleTyped DEF Locals, Calls, Pcs, AppCalls
<1>4. Allocated = Len(heap) + 1
  BY DEF Allocated
<1>5. Typed' /\ A' = r /\ M' = M /\ raced \subseteq raced' /\ UbInv'
  <2>1. list' \in [Lists -> Nat] /\ \A l \in Lists : list'[l] <= Len(heap')
    BY <1>0, <1>1, <1>2 DEF Typed
  <2>2. r.at <= Len(heap') /\ r.new <= Len(heap') /\ Len(heap) <= Len(heap')
    BY <1>2, <1>3, <1>4
  <2> QED
    BY <1>0, <1>1, <1>2, <1>3, <2>1, <2>2, AppTyped DEF Typed, IInv
<1>6. A = Idle /\ A.call = "none"
  BY <1>0, <1>1, AppIdle
<1>7. Control'
  BY <1>0, <1>3, <1>5 DEF Control, AppPcs, AppCalls
<1>8. FlagInv'
  BY <1>0, <1>1, <1>5, <1>6, FlagFrame
<1>9. PubSame
  <2>1. \A n \in Entries' : n \in Entries \/ heap'[n].what \in Topics
    BY <1>2
  <2>2. Len(heap) <= Len(heap') /\ \A n \in Entries : heap'[n] = heap[n]
    BY <1>2
  <2>3. A.call # "publish" /\ A'.call # "publish" /\ M' = M
    BY <1>3, <1>5, <1>6
  <2> QED
    BY <1>0, <1>1, <1>5, <2>1, <2>2, <2>3, OnlySubs
<1>10. \A n : (LiveSub(n)' <=> LiveSub(n) \/ n = Allocated) /\ (FreedAt(n) => FreedAt(n)')
              /\ (SubPtr(n) => SubPtr(n)')
  BY <1>2 DEF LiveSub, FreedAt, SubPtr
<1>11. KindSub'
  <2>1. SubPtr(list["subs"])' /\ (ClientOnSubs' => SubPtr(M.at)')
    BY <1>1, <1>5, <1>10 DEF IInv, Subscriptions, KindSub, ClientOnSubs
  <2>2. SubPtr(r.at)' /\ SubPtr(r.new)'
    BY <1>2, <1>3, <1>10 DEF SubPtr, LiveSub
  <2>3. \A n \in Entries' : LiveSub(n)' => SubPtr(heap[n].next)'
    <3> SUFFICES ASSUME NEW n \in Entries', LiveSub(n)'
                 PROVE  SubPtr(heap[n].next)'
      OBVIOUS
    <3>1. CASE n = Allocated
      BY <1>2, <3>1 DEF SubPtr
    <3>2. CASE n # Allocated
      <4>1. LiveSub(n) /\ n \in Entries
        BY <1>10, <3>2 DEF LiveSub
      <4> QED
        BY <1>2, <1>10, <4>1 DEF IInv, Subscriptions, KindSub
    <3> QED
      BY <3>1, <3>2
  <2> QED
    BY <1>5, <2>1, <2>2, <2>3 DEF KindSub
<1>12. SubInv'
  <2> SUFFICES ASSUME "subs" \notin raced'
               PROVE  \E L \in SUBSET Entries' : SubAll(L)'
    BY DEF SubInv
  <2>1. PICK L \in SUBSET Entries : SubAll(L)
    BY <1>5 DEF IInv, Subscriptions, SubInv
  <2>2. \A e \in L : LiveSub(e) /\ heap'[e] = heap[e] /\ e < Allocated /\ LiveSub(e)'
    BY <1>2, <1>10, <2>1 DEF SubAll, SubList
  <2>3. SubList(L)'
    BY <1>1, <2>1, <2>2 DEF SubAll, SubList
  <2>4. SubApp(L)'
    BY <1>2, <1>3, <1>5, <1>10, <2>2 DEF SubApp, Unsubscribing, Unsubscribes
  <2>5. SubClient(L)'
    BY <1>1, <1>5, <1>10, <2>1, <2>2 DEF SubAll, SubClient
  <2>6. SubClean(L)'
    BY <1>3, <1>5, <1>6, <1>10, <2>1 DEF SubAll, SubClean, Unsubscribing, Unsubscribes, LiveSub
  <2>7. L \in SUBSET Entries' /\ SubAll(L)'
    BY <1>2, <2>3, <2>4, <2>5, <2>6 DEF SubAll
  <2> QED
    BY <2>7
<1> QED
  BY <1>5, <1>7, <1>8, <1>9, <1>11, <1>12, SubsKeep DEF Subscriptions

LEMMA AppendWalk ==
    ASSUME IInv, At("app", "append"), Valid(A.at),
           Becomes("app", IF Deref("subs", A.at) = Null THEN [A EXCEPT !.pc = "append_link"]
                          ELSE [A EXCEPT !.at = Deref("subs", A.at)]),
           UNCHANGED <<heap, list>>, Sound
    PROVE  IInv'
<1> PICK n : n = Deref("subs", A.at)
  OBVIOUS
<1> PICK r : r = IF n = 0 THEN [A EXCEPT !.pc = "append_link"] ELSE [A EXCEPT !.at = n]
  OBVIOUS
<1>0. Typed /\ Control /\ KindSub
  BY DEF IInv, Subscriptions
<1>1. A.pc = "append" /\ Becomes("app", r)
  BY DEF At, A, Null
<1>2. A.call = "subscribe" /\ OnSubs
  BY <1>0, <1>1, AppCallIs DEF OnSubs
<1>3. SubPtr(A.at) /\ SubPtr(A.new)
  BY <1>0, <1>2 DEF KindSub
<1>4. n \in Nat /\ n <= Len(heap) /\ SubPtr(n)
  BY <1>0, <1>3, TaskIs, DerefSubs
<1>5. /\ r \in Locals /\ r.call = "subscribe" /\ r.new = A.new /\ r.arg = A.arg
      /\ r.pc = (IF n = 0 THEN "append_link" ELSE "append")
      /\ r.at = (IF n = 0 THEN A.at ELSE n)
  BY <1>0, <1>1, <1>2, <1>4, TaskIs DEF Locals, Pcs
<1>6. A' = r /\ M' = M
  BY <1>0, <1>1, <1>5, AppMoves
<1>7. Control'
  BY <1>0, <1>2, <1>5, <1>6 DEF Control, AppPcs, AppCalls
<1>8. ASSUME NEW L \in SUBSET Entries, SubAll(L)
      PROVE  SubApp(L)' /\ SubClean(L)'
  <2>1. SubList(L) /\ SubApp(L) /\ SubClean(L)
    BY <1>8 DEF SubAll
  <2>2. A.at \in L \cup {0} /\ LiveSub(A.new) /\ heap[A.new].next = 0 /\ \A e \in L : e < A.new
    BY <1>2, <2>1 DEF SubApp
  <2>3. \/ n \in L /\ n # 0
        \/ n = 0 /\ \A f \in L : f <= A.at
    <3>1. A.at \in Nat /\ \A e \in L : e \in Nat
      BY <1>0, TaskIs
    <3> QED
      BY <1>0, <2>1, <2>2, <3>1, NextSub
  <2>4. \A k : LiveSub(k)' <=> LiveSub(k)
    BY SameHeap
  <2>5. SubApp(L)'
    <3>1. heap' = heap
      OBVIOUS
    <3>2. A'.at \in L \cup {0} /\ (A'.pc = "append_link" => \A e \in L : e <= A'.at)
      BY <1>5, <1>6, <2>2, <2>3
    <3>3. LiveSub(A.new)' /\ heap'[A'.new].next = 0 /\ \A e \in L : e < A'.new
      BY <1>5, <1>6, <2>2, <2>4, <3>1
    <3> QED
      BY <1>5, <1>6, <3>2, <3>3 DEF SubApp, Unsubscribing, Unsubscribes
  <2>6. SubClean(L)'
    BY <1>2, <1>5, <1>6, <2>1, <2>4 DEF SubClean, Unsubscribing, Unsubscribes, LiveSub
  <2> QED
    BY <2>5, <2>6
<1>9. r.at <= Len(heap) /\ r.new <= Len(heap) /\ SubPtr(r.at) /\ SubPtr(r.new)
  BY <1>0, <1>3, <1>4, <1>5, TaskIs
<1> QED
  BY <1>1, <1>2, <1>5, <1>7, <1>8, <1>9, AppSubMove

(* Calls that do not overlap.                                              *)
LEMMA SubsAlone ==
    ASSUME Typed, Control, "subs" \notin raced
    PROVE  /\ A.call = "subscribe" => M.call # "DISCONNECTED"
           /\ Unsubscribing => ~ClientOnSubs
           /\ A.call = "disconnect" /\ A.pc # "destroy" => ~ClientOnSubs
<1>1. Overlap \subseteq raced
  BY DEF Typed
<1>2. ClientOnSubs => Touches("mqtt")
  BY IdleTyped DEF Control, ClientOnSubs, ClientPcs, Frees, Touches, M
<1>3. A.call = "subscribe" \/ Unsubscribing \/ (A.call = "disconnect" /\ A.pc # "destroy")
        => Touches("app")
  BY IdleTyped DEF Control, Unsubscribing, Unsubscribes, AppPcs, AppCalls, Frees, Touches, A
<1>4. CASE Touches("app") /\ Touches("mqtt")
  <2>1. A.call = "subscribe" /\ M.call = "DISCONNECTED" => "subs" \in Overlap
    BY <1>4 DEF Overlap, A, M
  <2>2. A.call \in {"unsubscribe", "unsubscribe_prefix", "disconnect"}
            /\ M.call \in {"DISCONNECTED", "DATA"} => "subs" \in Overlap
    BY <1>4 DEF Overlap, A, M
  <2> QED
    BY <1>1, <2>1, <2>2 DEF Unsubscribing, Unsubscribes, ClientOnSubs
<1> QED
  BY <1>2, <1>3, <1>4 DEF ClientOnSubs

(* What a step on the subscriptions may do to the heap.                    *)
SubsOnly ==
    /\ HeapTyped' /\ Len(heap') = Len(heap) /\ Entries' = Entries
    /\ \A n \in Entries : \/ heap'[n] = heap[n]
                          \/ LiveSub(n) /\ (heap'[n].used => heap'[n].what \in Topics)

LEMMA SubPtrKept ==
    ASSUME SubsOnly
    PROVE  \A n : /\ SubPtr(n) => SubPtr(n)'
                  /\ LiveSub(n)' => LiveSub(n)
                  /\ LiveSub(n) /\ heap'[n] = heap[n] => LiveSub(n)'
                  /\ FreedAt(n) => FreedAt(n)'
<1>1. \A n : FreedAt(n) => FreedAt(n)'
  BY KindsDiffer DEF SubsOnly, FreedAt
<1>2. \A n : LiveSub(n)' => LiveSub(n)
  BY DEF SubsOnly, LiveSub
<1>3. \A n : LiveSub(n) /\ heap'[n] = heap[n] => LiveSub(n)'
  BY DEF SubsOnly, LiveSub
<1>4. \A n : LiveSub(n) => LiveSub(n)' \/ FreedAt(n)'
  BY DEF SubsOnly, LiveSub, FreedAt
<1> QED
  BY <1>1, <1>2, <1>3, <1>4 DEF SubPtr

LEMMA KindSubKept ==
    ASSUME KindSub, SubsOnly, \A n \in Entries : heap'[n] = heap[n] \/ ~heap'[n].used,
           SubPtr(list["subs"])', OnSubs' => SubPtr(A.at)' /\ SubPtr(A.new)',
           ClientOnSubs' => SubPtr(M.at)'
    PROVE  KindSub'
<1> SUFFICES ASSUME NEW n \in Entries', LiveSub(n)'
             PROVE  SubPtr(heap[n].next)'
  BY DEF KindSub
<1>1. n \in Entries /\ LiveSub(n) /\ heap'[n] = heap[n]
  BY DEF SubsOnly, LiveSub
<1>2. SubPtr(heap[n].next)
  BY <1>1 DEF KindSub
<1> QED
  BY <1>1, <1>2, SubPtrKept

LEMMA SubEntries ==
    ASSUME Typed, NEW L, SubList(L)
    PROVE  \A e \in L : LiveSub(e) /\ e \in Nat /\ e # 0 /\ e \in Entries
<1>1. \A e \in L : LiveSub(e) /\ e \in Entries
  BY DEF SubList, LiveSub
<1> QED
  BY <1>1, TaskIs

LEMMA SubListSame ==
    ASSUME NEW L, SubList(L), \A e \in L : heap'[e] = heap[e], Entries' = Entries,
           list'["subs"] = list["subs"]
    PROVE  SubList(L)'
BY DEF SubList, LiveSub

(* The first entry is taken off the list.                                  *)
LEMMA SubListPop ==
    ASSUME Typed, NEW L, SubList(L), NEW n \in L, n = list["subs"], UNCHANGED heap,
           list'["subs"] = heap[n].next
    PROVE  SubList(L \ {n})'
<1>1. \A e \in L : LiveSub(e) /\ e \in Nat /\ e # 0 /\ LiveSub(e)' /\ n <= e
  <2>1. \A e \in L : n <= e
    BY SubEntries DEF SubList
  <2> QED
    BY <2>1, SubEntries, SameHeap
<1> PICK K, k : K = L \ {n} /\ k = heap[n].next
  OBVIOUS
<1>2. \/ k \in K /\ \A f \in K : k <= f
      \/ k = 0 /\ K = {}
  <2>1. \/ k \in L /\ n < k /\ \A f \in L : n < f => k <= f
        \/ k = 0 /\ \A f \in L : f <= n
    BY DEF SubList
  <2>2. \A f \in K : n < f /\ f \in L
    <3> SUFFICES ASSUME NEW f \in K
                 PROVE  n < f
      OBVIOUS
    <3>1. f \in Nat /\ n \in Nat /\ n <= f /\ f # n
      BY <1>1
    <3> QED
      BY <3>1
  <2>3. CASE k \in L /\ n < k /\ \A f \in L : n < f => k <= f
    BY <1>1, <2>2, <2>3
  <2>4. CASE k = 0 /\ \A f \in L : f <= n
    <3>1. \A f \in K : FALSE
      BY <1>1, <2>2, <2>4
    <3> QED
      BY <2>4, <3>1
  <2> QED
    BY <2>1, <2>3, <2>4
<1>3. ASSUME NEW e \in K
      PROVE  \/ /\ heap'[e].next \in K /\ e < heap'[e].next
                /\ \A f \in K : e < f => heap'[e].next <= f
             \/ heap'[e].next = 0 /\ \A f \in K : f <= e
  <2>1. \/ /\ heap[e].next \in L /\ e < heap[e].next
           /\ \A f \in L : e < f => heap[e].next <= f
        \/ heap[e].next = 0 /\ \A f \in L : f <= e
    BY DEF SubList
  <2>2. heap[e].next \in L /\ e < heap[e].next => heap[e].next # n
    BY <1>1
  <2> QED
    BY <2>1, <2>2
<1> QED
  BY <1>1, <1>2, <1>3 DEF SubList

(* A step of the application on the subscriptions.                         *)
LEMMA AppSubAny ==
    ASSUME IInv, NEW r \in Locals, Becomes("app", r), SubsOnly,
           UNCHANGED <<accepted, queued, sent, ub, refused>>,
           mqtt_connected' \in BOOLEAN, client' \in {"none", "offline", "online"},
           list' \in [Lists -> Nat], list'["pubs"] = list["pubs"],
           list'["subs"] <= Len(heap), r.at <= Len(heap), r.new <= Len(heap),
           Control', FlagInv', KindSub', A.call # "publish", r.call # "publish",
           \A L \in SUBSET Entries :
               SubAll(L) /\ "subs" \notin raced => \E K \in SUBSET Entries : SubAll(K)'
    PROVE  IInv'
<1>1. Typed /\ Control /\ HeapTyped /\ Len(heap) \in Nat
  BY DEF IInv, Typed, HeapTyped
<1>2. /\ Entries' = Entries /\ HeapTyped' /\ Len(heap') = Len(heap)
  BY DEF SubsOnly
<1>3. Typed' /\ A' = r /\ M' = M /\ raced \subseteq raced' /\ UbInv'
  <2>1. \A l \in Lists : list'[l] <= Len(heap')
    BY <1>1, <1>2 DEF Lists, Typed
  <2> QED
    BY <1>1, <1>2, <2>1, AppTyped DEF Typed, IInv
<1>4. PubSame
  <2>1. \A n \in Entries' : n \in Entries \/ heap'[n].what \in Topics
    BY <1>2
  <2>2. Len(heap) <= Len(heap')
    BY <1>1, <1>2
  <2> QED
    BY <1>1, <1>3, <2>1, <2>2, OnlySubs DEF SubsOnly
<1>5. SubInv'
  <2> SUFFICES ASSUME "subs" \notin raced'
               PROVE  \E L \in SUBSET Entries' : SubAll(L)'
    BY DEF SubInv
  <2>0. "subs" \notin raced
    BY <1>3
  <2>1. PICK L \in SUBSET Entries : SubAll(L)
    BY <2>0 DEF IInv, Subscriptions, SubInv
  <2> QED
    BY <1>2, <2>0, <2>1
<1> QED
  BY <1>1, <1>3, <1>4, <1>5, SubsKeep DEF Subscriptions

LEMMA AppSubStep ==
    ASSUME IInv, NEW r \in Locals, Becomes("app", r), SubsOnly, Sound,
           list' \in [Lists -> Nat], list'["pubs"] = list["pubs"],
           list'["subs"] <= Len(heap), r.at <= Len(heap), r.new <= Len(heap),
           Control', KindSub', A.call # "publish", r.call # "publish",
           r.call = A.call \/ A.call # "disconnect",
           \A L \in SUBSET Entries :
               SubAll(L) /\ "subs" \notin raced => \E K \in SUBSET Entries : SubAll(K)'
    PROVE  IInv'
<1>1. Typed /\ FlagInv
  BY DEF IInv
<1>2. A' = r /\ M' = M /\ raced \subseteq raced'
  BY <1>1, AppMoves
<1>3. FlagInv'
  BY <1>1, <1>2, FlagFrame DEF Sound
<1>4. mqtt_connected' \in BOOLEAN /\ client' \in {"none", "offline", "online"}
  BY <1>1 DEF Typed, Sound
<1> QED
  BY <1>3, <1>4, AppSubAny DEF Sound, histories

LEMMA AppendLink ==
    ASSUME IInv, At("app", "append_link"), Valid(A.at), Store("subs", A.at, A.new),
           Becomes("app", Idle), Sound
    PROVE  IInv'
<1>0. Typed /\ Control /\ KindSub /\ HeapTyped
  BY DEF IInv, Subscriptions, Typed
<1>1. A.pc = "append_link"
  BY DEF At, A
<1>2. A.call = "subscribe" /\ OnSubs
  BY <1>0, <1>1, AppCallIs DEF OnSubs
<1>3. SubPtr(A.at) /\ SubPtr(A.new) /\ A.new \in Nat /\ A.new <= Len(heap)
  BY <1>0, <1>2, TaskIs DEF KindSub
<1>4. A' = Idle /\ M' = M
  BY <1>0, IdleTyped, AppMoves
<1>5. Control'
  BY <1>0, <1>4, IdleTyped DEF Control
<1> PICK k \in Nat, at \in Nat : k = A.new /\ at = A.at
  BY <1>0, TaskIs
<1>6. /\ SubsOnly
      /\ \A n \in Entries : n # at => heap'[n] = heap[n]
      /\ at = 0 => heap' = heap /\ list'["subs"] = k
      /\ at # 0 => LiveSub(at) /\ LiveSub(at)' /\ heap'[at].next = k /\ heap'[at].what = heap[at].what
                     /\ list'["subs"] = list["subs"]
      /\ list' \in [Lists -> Nat] /\ list'["pubs"] = list["pubs"]
  <2>1. CASE at = 0
    <3>1. heap' = heap /\ list' = [list EXCEPT !["subs"] = k]
      BY <2>1 DEF Store
    <3>2. list' \in [Lists -> Nat] /\ list'["pubs"] = list["pubs"] /\ list'["subs"] = k
      BY <1>0, <3>1 DEF Typed, Lists
    <3>3. SubsOnly
      BY <1>0, <3>1 DEF SubsOnly, HeapTyped, Entries
    <3> QED
      BY <2>1, <3>1, <3>2, <3>3
  <2>2. CASE at # 0
    <3>1. heap' = [heap EXCEPT ![at].next = k] /\ list' = list
      BY <2>2 DEF Store
    <3>2. LiveSub(at) /\ at \in Entries /\ heap[at].used
      BY <1>0, <1>3, <2>2, DerefSubs DEF LiveSub
    <3>3. k \in 0 .. Len(heap)
      BY <1>0, <1>3, TaskIs
    <3>4. /\ HeapTyped' /\ Len(heap') = Len(heap) /\ Entries' = Entries
          /\ \A n \in Entries : n # at => heap'[n] = heap[n]
          /\ heap'[at].used /\ heap'[at].next = k /\ heap'[at].what = heap[at].what
      BY <1>0, <3>1, <3>2, <3>3, HeapStore
    <3>5. LiveSub(at)'
      BY <3>2, <3>4 DEF LiveSub
    <3>6. SubsOnly
      BY <3>2, <3>4 DEF SubsOnly, LiveSub
    <3>7. list' \in [Lists -> Nat]
      BY <1>0, <3>1 DEF Typed
    <3> QED
      BY <2>2, <3>1, <3>2, <3>4, <3>5, <3>6, <3>7
  <2> QED
    BY <2>1, <2>2
<1>7. \A n : (SubPtr(n) => SubPtr(n)') /\ (LiveSub(n)' => LiveSub(n))
        /\ (LiveSub(n) => LiveSub(n)')
  <2>1. \A n : LiveSub(n) => n \in Entries
    BY DEF LiveSub
  <2> QED
    BY <1>6, <2>1, SubPtrKept
<1>8. KindSub'
  <2>1. SubPtr(list["subs"])'
    BY <1>0, <1>3, <1>6, <1>7 DEF KindSub
  <2>2. \A n \in Entries' : LiveSub(n)' => SubPtr(heap[n].next)'
    <3> SUFFICES ASSUME NEW n \in Entries', LiveSub(n)'
                 PROVE  SubPtr(heap[n].next)'
      OBVIOUS
    <3>1. LiveSub(n) /\ n \in Entries
      BY <1>7 DEF LiveSub
    <3>2. CASE n = at
      BY <1>3, <1>6, <1>7, <3>1, <3>2, TaskIs, <1>0
    <3>3. CASE n # at
      BY <1>0, <1>6, <1>7, <3>1, <3>3 DEF KindSub
    <3> QED
      BY <3>2, <3>3
  <2>3. ~OnSubs' /\ (ClientOnSubs' => SubPtr(M.at)')
    BY <1>0, <1>4, <1>7, IdleTyped DEF KindSub, OnSubs, ClientOnSubs
  <2> QED
    BY <2>1, <2>2, <2>3 DEF KindSub
<1>9. ASSUME NEW L \in SUBSET Entries, SubAll(L), "subs" \notin raced
      PROVE  \E K \in SUBSET Entries : SubAll(K)'
  <2>1. SubList(L) /\ SubApp(L) /\ SubClient(L) /\ SubClean(L)
    BY <1>9 DEF SubAll
  <2>2. /\ at \in L \cup {0} /\ LiveSub(k) /\ heap[k].next = 0 /\ \A e \in L : e < k /\ e <= at
    BY <1>1, <1>2, <2>1 DEF SubApp
  <2>3. \A e \in L : LiveSub(e) /\ e \in Nat /\ e # 0 /\ e \in Entries
    <3>1. \A e \in L : LiveSub(e) /\ e \in Entries
      BY <2>1 DEF SubList
    <3> QED
      BY <1>0, <3>1, TaskIs
  <2>4. k \notin L /\ k # at /\ k \in Entries /\ heap'[k] = heap[k]
    <3>1. k \notin L /\ k \in Entries /\ k # 0
      BY <1>0, <2>2, <2>3, TaskIs DEF LiveSub
    <3> QED
      BY <1>6, <2>2, <3>1
  <2> PICK K \in SUBSET Entries : K = L \cup {k}
    BY <2>4
  <2>5. SubList(K)'
    <3>1. \A e \in K : LiveSub(e)'
      BY <1>7, <2>2, <2>3
    <3>2. CASE at = 0
      <4>1. L = {}
        BY <2>2, <2>3, <3>2
      <4>2. K = {k} /\ list'["subs"] = k /\ heap'[k].next = 0
        BY <1>6, <2>2, <2>4, <3>2, <4>1
      <4> QED
        BY <3>1, <4>2 DEF SubList
    <3>3. CASE at # 0
      <4>1. at \in L /\ list'["subs"] = list["subs"] /\ L # {}
        BY <1>6, <2>2, <3>3
      <4>2. list["subs"] \in L /\ \A f \in K : list["subs"] <= f
        <5>1. list["subs"] \in L /\ \A f \in L : list["subs"] <= f
          BY <2>1, <4>1 DEF SubList
        <5>2. list["subs"] \in Nat /\ list["subs"] < k
          BY <2>2, <2>3, <5>1
        <5>3. list["subs"] <= k
          BY <5>2
        <5> QED
          BY <5>1, <5>3
      <4>3. ASSUME NEW e \in K
            PROVE  \/ /\ heap'[e].next \in K /\ e < heap'[e].next
                      /\ \A f \in K : e < f => heap'[e].next <= f
                   \/ heap'[e].next = 0 /\ \A f \in K : f <= e
        <5>1. CASE e = k
          <6>1. heap'[e].next = 0
            BY <2>2, <2>4, <5>1
          <6>2. \A f \in L : f <= k
            BY <2>2, <2>3
          <6>3. \A f \in K : f <= e
            BY <5>1, <6>2
          <6> QED
            BY <6>1, <6>3
        <5>2. CASE e = at
          BY <1>6, <2>2, <2>3, <3>3, <4>1, <5>2
        <5>3. CASE e \in L /\ e # at
          <6>0. e \in Nat /\ e <= at /\ e \in Entries
            BY <2>2, <2>3, <5>3
          <6>1. heap'[e] = heap[e] /\ e < at
            BY <1>6, <5>3, <6>0
          <6>2. /\ heap[e].next \in L /\ e < heap[e].next
                /\ \A f \in L : e < f => heap[e].next <= f
            BY <2>1, <2>3, <4>1, <5>3, <6>1 DEF SubList
          <6>3. heap[e].next <= k
            BY <2>2, <2>3, <6>2
          <6> QED
            BY <6>1, <6>2, <6>3
        <5> QED
          BY <5>1, <5>2, <5>3
      <4> QED
        BY <3>1, <4>1, <4>2, <4>3 DEF SubList
    <3> QED
      BY <3>2, <3>3
  <2>6. SubApp(K)'
    BY <1>4, IdleTyped DEF SubApp, Unsubscribing, Unsubscribes
  <2>7. SubClient(K)'
    <3>1. M.call # "DISCONNECTED"
      BY <1>0, <1>2, <1>9, SubsAlone
    <3>2. \A n \in L : heap'[n].what = heap[n].what
      BY <1>6, <2>3
    <3> QED
      BY <1>4, <2>1, <3>1, <3>2 DEF SubClient
  <2>8. SubClean(K)'
    BY <1>2, <1>4, <1>7, <2>1 DEF SubClean, Unsubscribing, Unsubscribes, LiveSub
  <2> QED
    BY <2>5, <2>6, <2>7, <2>8 DEF SubAll
<1>10. list'["subs"] <= Len(heap)
  BY <1>0, <1>3, <1>6, TaskIs
<1>11. Idle.at <= Len(heap) /\ Idle.new <= Len(heap)
  BY <1>0, IdleTyped, TaskIs
<1> QED
  BY <1>2, <1>5, <1>6, <1>8, <1>9, <1>10, <1>11, IdleTyped, AppSubStep

----------------------------------------------------------------------------
(* mqtt_unsubscribe and mqtt_unsubscribe_topic_prefix                      *)
LEMMA UnsubscribeStep ==
    ASSUME IInv, NEW ts \in SUBSET Topics, Unsubscribe(ts)
    PROVE  IInv'
<1>0. Typed /\ Control /\ KindSub
  BY DEF IInv, Subscriptions
<1>1. PICK call \in Unsubscribes :
          Becomes("app", [Idle EXCEPT !.call = call, !.pc = "find", !.arg = ts])
  BY DEF Unsubscribe, Begin, Unsubscribes
<1>2. A.pc = "idle" /\ A = Idle /\ A.call = "none" /\ UNCHANGED <<heap, list>> /\ Sound
  BY <1>0, AppIdle DEF Unsubscribe, AppFree, At, A
<1> PICK r : r = [Idle EXCEPT !.call = call, !.pc = "find", !.arg = ts]
  OBVIOUS
<1>3. /\ r \in Locals /\ Becomes("app", r) /\ r.call = call /\ r.pc = "find"
      /\ r.arg = ts /\ r.at = 0 /\ r.new = 0
  BY <1>1, IdleTyped DEF Locals, Calls, Pcs, AppCalls, Unsubscribes
<1>4. A' = r /\ M' = M
  BY <1>0, <1>3, AppMoves
<1>5. Control'
  BY <1>0, <1>3, <1>4 DEF Control, AppPcs, AppCalls, Unsubscribes
<1>6. ASSUME NEW L \in SUBSET Entries, SubAll(L)
      PROVE  SubApp(L)' /\ SubClean(L)'
  <2>1. \A n : LiveSub(n)' <=> LiveSub(n)
    BY <1>2, SameHeap
  <2>2. SubApp(L)'
    BY <1>3, <1>4 DEF SubApp, Unsubscribes
  <2>3. SubClean(L)'
    BY <1>2, <1>3, <1>4, <1>6, <2>1 DEF SubAll, SubClean, Unsubscribing, Unsubscribes, LiveSub
  <2> QED
    BY <2>2, <2>3
<1>7. SubPtr(0) /\ 0 <= Len(heap)
  BY <1>0, TaskIs DEF SubPtr
<1>8. r.at <= Len(heap) /\ r.new <= Len(heap) /\ SubPtr(r.at) /\ SubPtr(r.new)
  BY <1>3, <1>7
<1>9. A.call # "publish" /\ r.call # "publish" /\ A.call # "disconnect"
  BY <1>2, <1>3 DEF Unsubscribes
<1> QED
  BY <1>2, <1>3, <1>5, <1>6, <1>8, <1>9, AppSubMove

(* The walk: to the end, past an entry, or to the entry to remove.         *)
LEMMA FindStep ==
    ASSUME IInv, At("app", "find"), Valid(A.at), UNCHANGED <<heap, list>>, Sound,
           NEW n, n = Deref("subs", A.at),
           \/ n = Null /\ Becomes("app", Idle)
           \/ InUse(n) /\ Becomes("app", [A EXCEPT !.at = n])
           \/ InUse(n) /\ Becomes("app", [A EXCEPT !.pc = "unlink", !.new = n])
    PROVE  IInv'
<1>0. Typed /\ Control /\ KindSub
  BY DEF IInv, Subscriptions
<1>1. A.pc = "find"
  BY DEF At, A
<1>2. Unsubscribing /\ OnSubs /\ A.call # "publish" /\ A.call # "disconnect"
  BY <1>0, <1>1, AppCallIs DEF OnSubs, Unsubscribing, Unsubscribes
<1>3. /\ SubPtr(A.at) /\ SubPtr(A.new) /\ A.new \in Nat /\ A.new <= Len(heap)
      /\ A.at \in Nat /\ A.at <= Len(heap)
  BY <1>0, <1>2, TaskIs DEF KindSub
<1>4. n \in Nat /\ n <= Len(heap) /\ SubPtr(n)
  BY <1>0, <1>3, DerefSubs
<1>5. PICK r : /\ Becomes("app", r)
               /\ \/ r = Idle
                  \/ n # 0 /\ r = [A EXCEPT !.at = n]
                  \/ n # 0 /\ r = [A EXCEPT !.pc = "unlink", !.new = n]
  BY DEF InUse, Null
<1>6. /\ r \in Locals
      /\ \/ r = Idle
         \/ /\ r.call = A.call /\ r.arg = A.arg /\ r.pc = "find" /\ r.at = n /\ r.new = A.new
            /\ n # 0
         \/ /\ r.call = A.call /\ r.arg = A.arg /\ r.pc = "unlink" /\ r.at = A.at /\ r.new = n
            /\ n # 0
  <2>1. A \in Locals
    BY <1>0, TaskIs
  <2>2. CASE r = Idle
    BY <2>2, IdleTyped
  <2>3. CASE n # 0 /\ r = [A EXCEPT !.at = n]
    BY <1>1, <1>4, <2>1, <2>3 DEF Locals
  <2>4. CASE n # 0 /\ r = [A EXCEPT !.pc = "unlink", !.new = n]
    BY <1>4, <2>1, <2>4 DEF Locals, Pcs
  <2> QED
    BY <1>5, <2>2, <2>3, <2>4
<1>7. A' = r /\ M' = M
  BY <1>0, <1>5, <1>6, AppMoves
<1>8. Control'
  <2>1. CASE r = Idle
    BY <1>0, <1>7, <2>1, IdleTyped DEF Control
  <2>2. CASE r # Idle
    BY <1>0, <1>2, <1>6, <1>7, <2>2
       DEF Control, Unsubscribing, Unsubscribes, AppPcs, AppCalls
  <2> QED
    BY <2>1, <2>2
<1>9. ASSUME NEW L \in SUBSET Entries, SubAll(L)
      PROVE  SubApp(L)' /\ SubClean(L)'
  <2>1. SubList(L) /\ SubApp(L) /\ SubClean(L)
    BY <1>9 DEF SubAll
  <2>2. A.at \in L \cup {0}
    BY <1>2, <2>1 DEF SubApp
  <2>3. n \in L \/ n = 0
    BY <1>0, <2>1, <2>2, NextSub
  <2>4. \A k : LiveSub(k)' <=> LiveSub(k)
    BY SameHeap
  <2>5. Deref("subs", A.at) = n /\ list' = list /\ heap' = heap
    OBVIOUS
  <2>6. SubApp(L)'
    <3>1. CASE r = Idle
      BY <1>7, <3>1, IdleTyped DEF SubApp, Unsubscribing, Unsubscribes
    <3>2. CASE r.pc = "find" /\ r.at = n /\ r.call = A.call /\ n # 0
      BY <1>2, <1>7, <2>3, <3>2 DEF SubApp, Unsubscribing, Unsubscribes
    <3>3. CASE r.pc = "unlink" /\ r.at = A.at /\ r.new = n /\ r.call = A.call /\ n # 0
      <4>1. Deref("subs", A.at)' = n
        BY <1>7, <2>5, <3>3 DEF Deref
      <4> QED
        BY <1>2, <1>7, <2>2, <2>3, <3>3, <4>1 DEF SubApp, Unsubscribing, Unsubscribes
    <3> QED
      BY <1>6, <3>1, <3>2, <3>3
  <2>7. SubClean(L)'
    BY <1>1, <1>2, <1>7, <2>1, <2>4 DEF SubClean, Unsubscribing, Unsubscribes, LiveSub
  <2> QED
    BY <2>6, <2>7
<1>10. /\ r.at <= Len(heap) /\ r.new <= Len(heap) /\ SubPtr(r.at) /\ SubPtr(r.new)
       /\ r.call # "publish"
  <2>1. SubPtr(0) /\ 0 <= Len(heap)
    BY <1>0, TaskIs DEF SubPtr
  <2> QED
    BY <1>2, <1>3, <1>4, <1>6, <2>1, IdleTyped
<1> QED
  BY <1>2, <1>5, <1>6, <1>8, <1>9, <1>10, AppSubMove

LEMMA UnlinkStep ==
    ASSUME IInv, At("app", "unlink"), Valid(A.at), NEW n, n = Deref("subs", A.at), InUse(n),
           Store("subs", A.at, heap[n].next), GoesTo("app", "remove"), Sound
    PROVE  IInv'
<1>0. Typed /\ Control /\ KindSub /\ HeapTyped
  BY DEF IInv, Subscriptions, Typed
<1>1. A.pc = "unlink"
  BY DEF At, A
<1>2. Unsubscribing /\ OnSubs /\ A.call # "publish" /\ A.call # "disconnect"
  BY <1>0, <1>1, AppCallIs DEF OnSubs, Unsubscribing, Unsubscribes
<1>3. SubPtr(A.at) /\ SubPtr(A.new)
  BY <1>0, <1>2 DEF KindSub
<1> PICK at \in Nat : at = A.at
  BY <1>0, TaskIs
<1> PICK r : r = [A EXCEPT !.pc = "remove"]
  OBVIOUS
<1>4. /\ r \in Locals /\ Becomes("app", r) /\ r.call = A.call /\ r.arg = A.arg /\ r.pc = "remove"
      /\ r.at = at /\ r.new = A.new
  BY <1>0, TaskIs DEF Locals, Pcs, GoesTo, A
<1>5. A' = r /\ M' = M
  BY <1>0, <1>4, AppMoves
<1>6. Control'
  BY <1>0, <1>2, <1>4, <1>5 DEF Control, Unsubscribing, Unsubscribes, AppPcs, AppCalls
<1>7. n \in Entries /\ heap[n].used /\ LiveSub(n) /\ SubPtr(heap[n].next)
  <2>1. n \in Nat /\ SubPtr(n) /\ n # 0
    BY <1>0, <1>3, DerefSubs DEF InUse, Null
  <2>2. LiveSub(n)
    BY <2>1 DEF InUse, SubPtr, FreedAt
  <2> QED
    BY <1>0, <2>2 DEF KindSub, LiveSub
<1> PICK k \in Nat : k = heap[n].next
  BY <1>0, <1>7, CellIs
<1>8. k \in 0 .. Len(heap) /\ SubPtr(k) /\ Len(heap) \in Nat
  <2>1. k <= Len(heap)
    BY <1>0, <1>7 DEF HeapTyped
  <2> QED
    BY <1>0, <1>7, <2>1, TaskIs
<1>9. /\ SubsOnly
      /\ \A j \in Entries : j # at => heap'[j] = heap[j]
      /\ at = 0 => heap' = heap /\ list'["subs"] = k
      /\ at # 0 => LiveSub(at) /\ LiveSub(at)' /\ heap'[at].next = k /\ heap'[at].what = heap[at].what
                     /\ list'["subs"] = list["subs"]
      /\ list' \in [Lists -> Nat] /\ list'["pubs"] = list["pubs"]
  <2>1. CASE at = 0
    <3>1. heap' = heap /\ list' = [list EXCEPT !["subs"] = k]
      BY <2>1 DEF Store
    <3>2. list' \in [Lists -> Nat] /\ list'["pubs"] = list["pubs"] /\ list'["subs"] = k
      BY <1>0, <3>1 DEF Typed, Lists
    <3>3. SubsOnly
      BY <1>0, <3>1 DEF SubsOnly, HeapTyped, Entries
    <3> QED
      BY <2>1, <3>1, <3>2, <3>3
  <2>2. CASE at # 0
    <3>1. heap' = [heap EXCEPT ![at].next = k] /\ list' = list
      BY <2>2 DEF Store
    <3>2. LiveSub(at) /\ at \in Entries /\ heap[at].used
      BY <1>0, <1>3, <2>2, DerefSubs DEF LiveSub
    <3>4. /\ HeapTyped' /\ Len(heap') = Len(heap) /\ Entries' = Entries
          /\ \A j \in Entries : j # at => heap'[j] = heap[j]
          /\ heap'[at].used /\ heap'[at].next = k /\ heap'[at].what = heap[at].what
      BY <1>0, <1>8, <3>1, <3>2, HeapStore
    <3>5. LiveSub(at)'
      BY <3>2, <3>4 DEF LiveSub
    <3>6. SubsOnly
      BY <3>2, <3>4 DEF SubsOnly, LiveSub
    <3>7. list' \in [Lists -> Nat]
      BY <1>0, <3>1 DEF Typed
    <3> QED
      BY <2>2, <3>1, <3>2, <3>4, <3>5, <3>6, <3>7
  <2> QED
    BY <2>1, <2>2
<1>10. \A j : (SubPtr(j) => SubPtr(j)') /\ (LiveSub(j)' => LiveSub(j))
        /\ (LiveSub(j) => LiveSub(j)')
  <2>1. \A j : LiveSub(j) => j \in Entries
    BY DEF LiveSub
  <2> QED
    BY <1>9, <2>1, SubPtrKept
<1>11. KindSub'
  <2>1. SubPtr(list["subs"])'
    BY <1>0, <1>8, <1>9, <1>10 DEF KindSub
  <2>2. \A j \in Entries' : LiveSub(j)' => SubPtr(heap[j].next)'
    <3> SUFFICES ASSUME NEW j \in Entries', LiveSub(j)'
                 PROVE  SubPtr(heap[j].next)'
      OBVIOUS
    <3>1. LiveSub(j) /\ j \in Entries /\ j # 0
      BY <1>0, <1>10, TaskIs DEF LiveSub
    <3>2. CASE j = at
      BY <1>8, <1>9, <1>10, <3>1, <3>2
    <3>3. CASE j # at
      BY <1>0, <1>9, <1>10, <3>1, <3>3 DEF KindSub
    <3> QED
      BY <3>2, <3>3
  <2>3. SubPtr(A.at)' /\ SubPtr(A.new)' /\ (ClientOnSubs' => SubPtr(M.at)')
    BY <1>0, <1>3, <1>4, <1>5, <1>10 DEF KindSub, ClientOnSubs
  <2> QED
    BY <2>1, <2>2, <2>3 DEF KindSub
<1>12. ASSUME NEW L \in SUBSET Entries, SubAll(L), "subs" \notin raced
      PROVE  \E K \in SUBSET Entries : SubAll(K)'
  <2>1. SubList(L) /\ SubApp(L) /\ SubClient(L) /\ SubClean(L)
    BY <1>12 DEF SubAll
  <2>2. at \in L \cup {0} /\ n \in L /\ A.new = n
    BY <1>1, <1>2, <2>1 DEF SubApp
  <2>3. \A e \in L : LiveSub(e) /\ e \in Nat /\ e # 0 /\ e \in Entries
    <3>1. \A e \in L : LiveSub(e) /\ e \in Entries
      BY <2>1 DEF SubList
    <3> QED
      BY <1>0, <3>1, TaskIs
  <2>4. n \in Nat /\ n # 0 /\ at < n /\ \A f \in L : at < f => n <= f
    BY <1>0, <2>1, <2>2, <2>3, NextSub
  <2>5. \/ k \in L /\ n < k /\ \A f \in L : n < f => k <= f
        \/ k = 0 /\ \A f \in L : f <= n
    BY <2>1, <2>2 DEF SubList
  <2> PICK K \in SUBSET Entries : K = L \ {n}
    OBVIOUS
  <2>6. \A e \in K : e \in L /\ e # n /\ e \in Nat /\ (e <= at \/ n < e)
    <3> SUFFICES ASSUME NEW e \in K
                 PROVE  e <= at \/ n < e
      BY <2>3
    <3>1. e \in L /\ e # n /\ e \in Nat
      BY <2>3
    <3> QED
      BY <2>4, <3>1
  <2>7. SubList(K)'
    <3>1. \A e \in K : LiveSub(e)'
      BY <1>10, <2>3
    <3>2. /\ k \in K \/ k = 0
          /\ k \in K => n < k /\ at < k /\ \A f \in K : at < f => k <= f
          /\ k = 0 => \A f \in K : f <= at
      <4>1. CASE k \in L /\ n < k /\ \A f \in L : n < f => k <= f
        <5>1. k # n /\ k # 0 /\ at < k
          BY <2>4, <4>1
        <5>2. \A f \in K : at < f => k <= f
          BY <2>4, <2>6, <4>1
        <5> QED
          BY <4>1, <5>1, <5>2
      <4>2. CASE k = 0 /\ \A f \in L : f <= n
        <5>1. \A f \in K : f <= at
          <6> SUFFICES ASSUME NEW f \in K
                       PROVE  f <= at
            OBVIOUS
          <6>1. f \in Nat /\ f <= n /\ f # n /\ (f <= at \/ n < f)
            BY <2>6, <4>2
          <6> QED
            BY <2>4, <6>1
        <5>2. k \notin K
          BY <2>3, <4>2
        <5> QED
          BY <4>2, <5>1, <5>2
      <4> QED
        BY <2>5, <4>1, <4>2
    <3>3. CASE at = 0
      <4>1. list'["subs"] = k
        BY <1>9, <3>3
      <4>2. \/ k \in K /\ \A f \in K : k <= f
            \/ k = 0 /\ K = {}
        <5>1. \A f \in K : f \in Nat /\ 0 < f
          BY <2>3, <2>6
        <5> QED
          BY <3>2, <3>3, <5>1
      <4>3. ASSUME NEW e \in K
            PROVE  \/ /\ heap'[e].next \in K /\ e < heap'[e].next
                      /\ \A f \in K : e < f => heap'[e].next <= f
                   \/ heap'[e].next = 0 /\ \A f \in K : f <= e
        <5>1. e \in L /\ heap'[e] = heap[e] /\ n < e /\ e # 0
          BY <1>9, <2>3, <2>6, <3>3
        <5>2. \/ /\ heap[e].next \in L /\ e < heap[e].next
                 /\ \A f \in L : e < f => heap[e].next <= f
              \/ heap[e].next = 0 /\ \A f \in L : f <= e
          BY <2>1, <5>1 DEF SubList
        <5>3. heap[e].next \in L /\ e < heap[e].next => heap[e].next # n
          BY <2>3, <2>4, <5>1
        <5> QED
          BY <2>6, <5>1, <5>2, <5>3
      <4> QED
        BY <3>1, <4>1, <4>2, <4>3 DEF SubList
    <3>4. CASE at # 0
      <4>1. at \in L /\ at \in K /\ at \in Nat /\ list'["subs"] = list["subs"] /\ heap'[at].next = k
        BY <1>9, <2>2, <2>4, <3>4
      <4>2. list["subs"] \in K /\ \A f \in K : list["subs"] <= f
        <5>1. list["subs"] \in L /\ \A f \in L : list["subs"] <= f
          BY <2>1, <4>1 DEF SubList
        <5>2. list["subs"] # n
          <6>1. list["subs"] <= at
            BY <4>1, <5>1
          <6> QED
            BY <2>4, <4>1, <6>1
        <5> QED
          BY <2>6, <5>1, <5>2
      <4>3. ASSUME NEW e \in K
            PROVE  \/ /\ heap'[e].next \in K /\ e < heap'[e].next
                      /\ \A f \in K : e < f => heap'[e].next <= f
                   \/ heap'[e].next = 0 /\ \A f \in K : f <= e
        <5>1. CASE e = at
          BY <3>2, <4>1, <5>1
        <5>2. CASE e # at
          <6>1. e \in L /\ heap'[e] = heap[e] /\ e # n /\ e \in Nat /\ (e <= at \/ n < e)
            BY <1>9, <2>3, <2>6, <5>2
          <6>2. \/ /\ heap[e].next \in L /\ e < heap[e].next
                   /\ \A f \in L : e < f => heap[e].next <= f
                \/ heap[e].next = 0 /\ \A f \in L : f <= e
            BY <2>1, <6>1 DEF SubList
          <6>3. heap[e].next # n
            <7>1. ASSUME heap[e].next = n
                  PROVE  FALSE
              <8>1. n # 0 /\ e < n /\ \A f \in L : e < f => n <= f
                BY <2>4, <6>2, <7>1
              <8>2. e < at
                BY <4>1, <5>2, <6>1, <8>1, <2>4
              <8>3. n <= at
                BY <4>1, <8>1, <8>2
              <8> QED
                BY <2>4, <4>1, <8>3
            <7> QED
              BY <7>1
          <6> QED
            BY <2>6, <6>1, <6>2, <6>3
        <5> QED
          BY <5>1, <5>2
      <4> QED
        BY <3>1, <4>1, <4>2, <4>3 DEF SubList
    <3> QED
      BY <3>3, <3>4
  <2>8. SubApp(K)'
    <3>1. LiveSub(n)' /\ n \notin K /\ (at \in K \/ at = 0)
      BY <1>10, <2>2, <2>3, <2>4
    <3> QED
      BY <1>2, <1>4, <1>5, <2>2, <3>1 DEF SubApp, Unsubscribing, Unsubscribes
  <2>9. SubClient(K)'
    <3>1. ~ClientOnSubs
      BY <1>0, <1>2, <1>12, SubsAlone
    <3> QED
      BY <1>5, <3>1 DEF SubClient, ClientOnSubs
  <2>10. SubClean(K)'
    BY <1>1, <1>2, <1>4, <1>5, <1>10, <2>1, <2>2
       DEF SubClean, Unsubscribing, Unsubscribes, LiveSub
  <2>11. SubAll(K)'
    BY <2>7, <2>8, <2>9, <2>10 DEF SubAll
  <2> QED
    BY <2>11
<1>13. list'["subs"] <= Len(heap)
  BY <1>0, <1>8, <1>9, TaskIs
<1>14. r.at <= Len(heap) /\ r.new <= Len(heap)
  BY <1>0, <1>4, TaskIs
<1> QED
  BY <1>2, <1>4, <1>6, <1>9, <1>11, <1>12, <1>13, <1>14, AppSubStep

LEMMA RemoveStep ==
    ASSUME IInv, At("app", "remove"), InUse(A.new), heap' = [heap EXCEPT ![A.new] = Freed],
           Becomes("app", Idle) \/ Becomes("app", [A EXCEPT !.pc = "find", !.new = Null]),
           UNCHANGED list, Sound
    PROVE  IInv'
<1>0. Typed /\ Control /\ KindSub /\ HeapTyped
  BY DEF IInv, Subscriptions, Typed
<1>1. A.pc = "remove"
  BY DEF At, A
<1>2. Unsubscribing /\ OnSubs /\ A.call # "publish" /\ A.call # "disconnect"
  BY <1>0, <1>1, AppCallIs DEF OnSubs, Unsubscribing, Unsubscribes
<1> PICK k \in Nat : k = A.new
  BY <1>0, TaskIs
<1>3. LiveSub(k) /\ k \in Entries /\ SubPtr(A.at)
  BY <1>0, <1>2 DEF KindSub, SubPtr, InUse, Null, FreedAt, LiveSub
<1>4. PICK r : Becomes("app", r) /\ (r = Idle \/ r = [A EXCEPT !.pc = "find", !.new = 0])
  BY DEF Null
<1>5. /\ r \in Locals
      /\ \/ r = Idle
         \/ r.call = A.call /\ r.arg = A.arg /\ r.pc = "find" /\ r.at = A.at /\ r.new = 0
  BY <1>0, <1>4, TaskIs, IdleTyped DEF Locals, Pcs
<1>6. A' = r /\ M' = M
  BY <1>0, <1>4, <1>5, AppMoves
<1>7. Control'
  <2>1. CASE r = Idle
    BY <1>0, <1>6, <2>1, IdleTyped DEF Control
  <2>2. CASE r # Idle
    BY <1>0, <1>2, <1>5, <1>6, <2>2
       DEF Control, Unsubscribing, Unsubscribes, AppPcs, AppCalls
  <2> QED
    BY <2>1, <2>2
<1>8. /\ HeapTyped' /\ Len(heap') = Len(heap) /\ Entries' = Entries
      /\ \A n \in Entries : n # k => heap'[n] = heap[n]
      /\ ~heap'[k].used
  BY <1>0, <1>3, HeapFree
<1>9. SubsOnly
  BY <1>3, <1>8 DEF SubsOnly
<1>10. KindSub'
  <2>1. /\ SubPtr(list["subs"])' /\ (ClientOnSubs' => SubPtr(M.at)')
        /\ (OnSubs' => SubPtr(A.at)' /\ SubPtr(A.new)')
    BY <1>0, <1>3, <1>5, <1>6, <1>9, SubPtrKept, IdleTyped DEF KindSub, ClientOnSubs, SubPtr
  <2> QED
    BY <1>0, <1>8, <1>9, <2>1, KindSubKept
<1>11. ASSUME NEW L \in SUBSET Entries, SubAll(L), "subs" \notin raced
       PROVE  \E K \in SUBSET Entries : SubAll(K)'
  <2>1. SubList(L) /\ SubApp(L) /\ SubClean(L)
    BY <1>11 DEF SubAll
  <2>2. A.at \in L \cup {0} /\ k \notin L
    BY <1>1, <1>2, <2>1 DEF SubApp
  <2>3. SubList(L)'
    BY <1>8, <2>1, <2>2, SubListSame
  <2>4. SubApp(L)'
    <3>1. CASE r = Idle
      BY <1>6, <3>1, IdleTyped DEF SubApp, Unsubscribing, Unsubscribes
    <3>2. CASE r # Idle
      BY <1>2, <1>5, <1>6, <2>2, <3>2 DEF SubApp, Unsubscribing, Unsubscribes
    <3> QED
      BY <3>1, <3>2
  <2>5. SubClient(L)'
    BY <1>0, <1>2, <1>6, <1>11, SubsAlone DEF SubClient, ClientOnSubs
  <2>6. SubClean(L)'
    <3> SUFFICES ASSUME NEW n \in Entries, LiveSub(n)'
                 PROVE  n \in L
      BY <1>8 DEF SubClean
    <3>1. LiveSub(n) /\ n # k
      BY <1>8, <1>9, SubPtrKept DEF LiveSub
    <3> QED
      BY <1>0, <1>2, <1>11, <2>1, <3>1, SubsAlone
         DEF SubClean, Unsubscribing, Unsubscribes, ClientOnSubs
  <2> QED
    BY <2>3, <2>4, <2>5, <2>6 DEF SubAll
<1>12. /\ r.at <= Len(heap) /\ r.new <= Len(heap) /\ r.call # "publish"
       /\ list' \in [Lists -> Nat] /\ list'["subs"] <= Len(heap) /\ list'["pubs"] = list["pubs"]
  BY <1>0, <1>2, <1>5, TaskIs, IdleTyped DEF Typed
<1> QED
  BY <1>2, <1>4, <1>5, <1>7, <1>9, <1>10, <1>11, <1>12, AppSubStep

----------------------------------------------------------------------------
(* Access to a freed entry, which ends the behaviour: only when calls have *)
(* overlapped.                                                             *)
LEMMA CorruptsRaced ==
    ASSUME IInv, NEW p \in Tasks, NEW pc, NEW n, Corrupts(p, pc, n), ListOfTask(p) \in raced
    PROVE  IInv'
<1>0. Typed /\ Control /\ FlagInv /\ Publications /\ Subscriptions
  BY DEF IInv
<1>1. /\ UNCHANGED <<heap, list, mqtt_connected, client, task, accepted, queued, sent, raced, refused>>
      /\ ub = "none" /\ ub' = ListOfTask(p)
  BY DEF Corrupts, histories, At
<1>2. ub' \in Lists /\ UbInv'
  BY <1>1 DEF ListOfTask, ListOf, Lists, UbInv
<1>3. A' = A /\ M' = M /\ Overlap' = Overlap /\ Entries' = Entries
  BY <1>1 DEF A, M, Overlap, Touches, Entries
<1>4. Typed'
  BY <1>0, <1>1, <1>2, <1>3 DEF Typed, HeapTyped
<1>5. Control' /\ FlagInv'
  BY <1>0, <1>1, <1>3 DEF Control, FlagInv, Flushing
<1>6. \A k \in Entries : k \in Nat /\ k # 0
  BY <1>0, TaskIs
<1>7. \A k : (Live(k)' <=> Live(k)) /\ (LiveSub(k)' <=> LiveSub(k)) /\ (FreedAt(k)' <=> FreedAt(k))
  BY <1>1, SameHeap
<1>8. PubSame
  <2>1. Len(heap) \in Nat /\ Len(heap') \in Nat /\ Len(heap) <= Len(heap') /\ ub' # "none"
    BY <1>0, <1>1, <1>2, TaskIs DEF Lists
  <2> QED
    BY <1>1, <1>3, <1>6, <1>7, <2>1 DEF PubSame
<1>9. SubSame
  BY <1>1, <1>3, <1>6, <1>7 DEF SubSame
<1> QED
  BY <1>0, <1>2, <1>4, <1>5, <1>8, <1>9, PubFrame, SubFrame DEF IInv

LEMMA SubUsed ==
    ASSUME NEW n, LiveSub(n) \/ Live(n), Typed
    PROVE  InUse(n)
BY TaskIs DEF LiveSub, Live, InUse, Null

LEMMA AppSubsUsed ==
    ASSUME IInv, "subs" \notin raced
    PROVE  /\ A.pc \in {"append", "append_link", "find", "unlink"} => A.at = 0 \/ InUse(A.at)
           /\ A.pc = "find" => Deref("subs", A.at) = 0 \/ InUse(Deref("subs", A.at))
           /\ A.pc = "unlink" => InUse(Deref("subs", A.at))
           /\ A.pc = "remove" => InUse(A.new)
           /\ A.pc \in {"advance", "free"} => InUse(A.at)
<1>1. Typed /\ Control
  BY DEF IInv
<1>2. PICK L \in SUBSET Entries : SubAll(L)
  BY DEF IInv, Subscriptions, SubInv
<1>3. SubList(L) /\ SubApp(L) /\ \A e \in L : LiveSub(e)
  BY <1>2 DEF SubAll, SubList
<1>4. A.pc \in {"append", "append_link", "find", "unlink"} => A.at \in L \cup {0}
  BY <1>1, <1>3, AppCallIs DEF SubApp
<1>5. A.pc = "find" => Deref("subs", A.at) \in L \cup {0}
  BY <1>1, <1>3, <1>4, NextSub
<1>6. A.pc = "unlink" => Deref("subs", A.at) \in L
  BY <1>1, <1>3, AppCallIs DEF SubApp
<1>7. A.pc = "remove" => LiveSub(A.new)
  BY <1>1, <1>3, AppCallIs DEF SubApp
<1>8. A.pc \in {"advance", "free"} => LiveSub(A.at)
  BY <1>1, <1>3, AppCallIs DEF SubApp, Frees
<1> QED
  BY <1>1, <1>3, <1>4, <1>5, <1>6, <1>7, <1>8, SubUsed

LEMMA ClientSubsUsed ==
    ASSUME IInv, "subs" \notin raced
    PROVE  /\ M.call = "DISCONNECTED" /\ M.pc \in {"advance", "free"} => InUse(M.at)
           /\ M.pc \in {"match", "move"} => InUse(M.at)
<1>1. Typed /\ Control
  BY DEF IInv
<1>2. PICK L \in SUBSET Entries : SubAll(L)
  BY DEF IInv, Subscriptions, SubInv
<1>3. SubClient(L) /\ \A e \in L : LiveSub(e)
  BY <1>2 DEF SubAll, SubList
<1> QED
  BY <1>1, <1>3, SubUsed, ClientCallIs DEF SubClient

LEMMA PubsUsed ==
    ASSUME IInv, "pubs" \notin raced, Flushing,
           M.pc \in {"publish", "next", "advance", "free"}
    PROVE  InUse(M.at)
<1>1. Typed /\ M.at # 0
  BY DEF IInv, Control
<1>2. PICK L \in SUBSET Entries, d \in 0 .. Len(heap) : PubAll(L, d)
  BY DEF IInv, Publications, PubInv
<1>3. PubList(L, d) /\ PubFlush(L, d) /\ PubClean(L, d) /\ d = 0 /\ \A e \in L : Live(e)
  BY <1>2 DEF PubAll, PubList, PubClean
<1>4. Live(M.at)
  BY <1>1, <1>3 DEF PubList, PubFlush, PubClean, Start
<1> QED
  BY <1>1, <1>4, SubUsed

LEMMA AppOnSubs ==
    ASSUME Control, A.pc \notin {"idle", "client_publish", "add", "add_link"}
    PROVE  ListOfTask("app") = "subs" /\ "app" \in Tasks
BY DEF Control, AppPcs, AppCalls, Unsubscribes, Frees, ListOfTask, ListOf, A, Tasks

LEMMA SubscriptionAddStep ==
    ASSUME IInv, SubscriptionAdd
    PROVE  IInv'
<1>1. ASSUME At("app", "append"), Valid(task["app"].at),
             Becomes("app", IF Deref("subs", task["app"].at) = Null
                            THEN [task["app"] EXCEPT !.pc = "append_link"]
                            ELSE [task["app"] EXCEPT !.at = Deref("subs", task["app"].at)]),
             UNCHANGED <<heap, list>>, Sound
      PROVE  IInv'
  BY <1>1, AppendWalk DEF A
<1>2. ASSUME At("app", "append_link"), Valid(task["app"].at),
             Store("subs", task["app"].at, task["app"].new), Becomes("app", Idle), Sound
      PROVE  IInv'
  BY <1>2, AppendLink DEF A
<1>3. ASSUME NEW pc \in {"append", "append_link"}, task["app"].at # 0,
             Corrupts("app", pc, task["app"].at)
      PROVE  IInv'
  <2>1. A.pc = pc /\ ~InUse(A.at) /\ A.at # 0
    BY <1>3 DEF Corrupts, At, A
  <2>2. "subs" \in raced /\ ListOfTask("app") = "subs" /\ "app" \in Tasks
    BY <2>1, AppSubsUsed, AppOnSubs DEF IInv
  <2> QED
    BY <1>3, <2>2, CorruptsRaced
<1> QED
  BY <1>1, <1>2, <1>3 DEF SubscriptionAdd

LEMMA SubscriptionRemoveStep ==
    ASSUME IInv, SubscriptionRemove
    PROVE  IInv'
<1> PICK n : n = Deref("subs", A.at)
  OBVIOUS
<1>1. ASSUME At("app", "find"), Valid(A.at), UNCHANGED <<heap, list>>, Sound,
             \/ n = Null /\ Becomes("app", Idle)
             \/ InUse(n) /\ Becomes("app", [A EXCEPT !.at = n])
             \/ InUse(n) /\ Becomes("app", [A EXCEPT !.pc = "unlink", !.new = n])
      PROVE  IInv'
  BY <1>1, FindStep
<1>2. ASSUME At("app", "unlink"), Valid(A.at), InUse(n), Store("subs", A.at, heap[n].next),
             GoesTo("app", "remove"), Sound
      PROVE  IInv'
  BY <1>2, UnlinkStep
<1>3. ASSUME At("app", "remove"), InUse(A.new), heap' = [heap EXCEPT ![A.new] = Freed],
             Becomes("app", IF A.call = "unsubscribe" THEN Idle
                            ELSE [A EXCEPT !.pc = "find", !.new = Null]),
             UNCHANGED list, Sound
      PROVE  IInv'
  BY <1>3, RemoveStep
<1>4. ASSUME NEW pc \in {"find", "unlink"},
             \/ A.at # 0 /\ Corrupts("app", pc, A.at)
             \/ (pc = "unlink" \/ n # Null) /\ Corrupts("app", pc, n)
      PROVE  IInv'
  <2>1. A.pc = pc
    BY <1>4 DEF Corrupts, At, A
  <2>2. "subs" \in raced
    BY <1>4, <2>1, AppSubsUsed DEF Corrupts, Null
  <2>3. ListOfTask("app") = "subs" /\ "app" \in Tasks
    BY <2>1, AppOnSubs DEF IInv
  <2> QED
    BY <1>4, <2>2, <2>3, CorruptsRaced
<1>5. ASSUME Corrupts("app", "remove", A.new)
      PROVE  IInv'
  <2>1. A.pc = "remove"
    BY <1>5 DEF Corrupts, At, A
  <2>2. "subs" \in raced
    BY <1>5, <2>1, AppSubsUsed DEF Corrupts
  <2>3. ListOfTask("app") = "subs" /\ "app" \in Tasks
    BY <2>1, AppOnSubs DEF IInv
  <2> QED
    BY <1>5, <2>2, <2>3, CorruptsRaced
<1> QED
  BY <1>1, <1>2, <1>3, <1>4, <1>5 DEF SubscriptionRemove, A

----------------------------------------------------------------------------
(* mqtt_disconnect                                                         *)
LEMMA SameSubs ==
    ASSUME Typed, UNCHANGED heap
    PROVE  SubsOnly
BY SameHeap DEF SubsOnly, Typed

LEMMA DisconnectStep ==
    ASSUME IInv, Disconnect
    PROVE  IInv'
<1>0. Typed /\ Control /\ FlagInv /\ KindSub
  BY DEF IInv, Subscriptions
<1>1. A = Idle /\ A.call = "none" /\ A.pc = "idle"
  BY <1>0, AppIdle DEF Disconnect, AppFree, At, A
<1> PICK r : r = [Idle EXCEPT !.call = "disconnect", !.pc = "take", !.arg = {}]
  OBVIOUS
<1>2. /\ r \in Locals /\ r.call = "disconnect" /\ r.pc = "take" /\ r.arg = {} /\ r.at = 0
      /\ r.new = 0
  BY IdleTyped DEF Locals, Calls, Pcs, AppCalls, Frees
<1>3. /\ Becomes("app", r) /\ UNCHANGED <<heap, list, client, accepted, queued, sent, ub, refused>>
      /\ mqtt_connected' = FALSE
  BY DEF Disconnect, Begin, histories
<1>4. A' = r /\ M' = M /\ raced \subseteq raced' /\ Overlap' \subseteq raced'
  BY <1>0, <1>2, <1>3, AppMoves
<1>5. Control'
  BY <1>0, <1>2, <1>4 DEF Control, AppPcs, AppCalls, Unsubscribes, Frees
<1>6. FlagInv'
  <2>1. Flushing' => "flag" \in Overlap'
    <3>1. ASSUME Flushing'
          PROVE  "flag" \in Overlap'
      <4>1. M.call = "CONNECTED" /\ M.pc \in ClientPcs("CONNECTED")
        BY <1>0, <1>4, <3>1, IdleTyped DEF Flushing, Control
      <4>2. task'["app"] = r /\ task'["mqtt"] = M
        BY <1>4 DEF A, M
      <4>3. Touches("app")' /\ Touches("mqtt")'
        BY <1>2, <4>1, <4>2 DEF Touches, ClientPcs, Frees
      <4> QED
        BY <1>2, <4>1, <4>2, <4>3 DEF Overlap
    <3> QED
      BY <3>1
  <2> QED
    BY <1>2, <1>3, <1>4, <2>1 DEF FlagInv
<1>7. SubsOnly
  BY <1>0, <1>3, SameSubs
<1>8. KindSub'
  BY <1>0, <1>2, <1>3, <1>4, <1>7, SubPtrKept, KindSubSame DEF KindSub, SubPtr, ClientOnSubs
<1>9. ASSUME NEW L \in SUBSET Entries, SubAll(L)
      PROVE  \E K \in SUBSET Entries : SubAll(K)'
  <2>1. SubList(L)' /\ SubClient(L)'
    BY <1>3, <1>4, <1>9, SameHeap DEF SubAll, SubList, SubClient
  <2>2. SubApp(L)'
    BY <1>2, <1>4 DEF SubApp, Unsubscribing, Unsubscribes
  <2>3. SubClean(L)'
    BY <1>1, <1>3, <1>4, <1>9, SameHeap DEF SubAll, SubClean, Unsubscribing, Unsubscribes
  <2> QED
    BY <2>1, <2>2, <2>3 DEF SubAll
<1>10. /\ r.at <= Len(heap) /\ r.new <= Len(heap) /\ list' \in [Lists -> Nat]
       /\ list'["subs"] <= Len(heap) /\ client' \in {"none", "offline", "online"}
  BY <1>0, <1>2, <1>3, TaskIs DEF Typed
<1>11. mqtt_connected' \in BOOLEAN
  BY <1>3
<1> QED
  BY <1>1, <1>2, <1>3, <1>5, <1>6, <1>7, <1>8, <1>9, <1>10, <1>11, AppSubAny

LEMMA ClientDestroyStep ==
    ASSUME IInv, ClientDestroy
    PROVE  IInv'
<1>0. Typed /\ Control /\ KindSub
  BY DEF IInv, Subscriptions
<1>1. A.pc = "destroy" /\ M = Idle
  BY DEF ClientDestroy, At, A, M, ClientFree
<1>2. A.call = "disconnect"
  BY <1>0, <1>1, AppCallIs
<1>3. /\ Becomes("app", Idle) /\ client' = "none"
      /\ UNCHANGED <<heap, list, mqtt_connected, accepted, queued, sent, ub, refused>>
  BY DEF ClientDestroy, histories
<1>4. A' = Idle /\ M' = Idle
  BY <1>0, <1>1, <1>3, IdleTyped, AppMoves
<1>5. Control' /\ FlagInv'
  BY <1>4, IdleTyped DEF Control, FlagInv, Flushing
<1>6. SubsOnly
  BY <1>0, <1>3, SameSubs
<1>7. KindSub'
  BY <1>0, <1>3, <1>4, <1>6, SubPtrKept, KindSubSame, IdleTyped DEF KindSub, ClientOnSubs, OnSubs
<1>8. ASSUME NEW L \in SUBSET Entries, SubAll(L)
      PROVE  \E K \in SUBSET Entries : SubAll(K)'
  <2>1. SubList(L)'
    BY <1>3, <1>8, SameHeap DEF SubAll, SubList
  <2>2. SubApp(L)' /\ SubClient(L)'
    BY <1>4, IdleTyped DEF SubApp, SubClient, Unsubscribing, Unsubscribes
  <2>3. SubClean(L)'
    BY <1>1, <1>2, <1>3, <1>8, SameHeap, IdleTyped
       DEF SubAll, SubClean, Unsubscribing, Unsubscribes
  <2> QED
    BY <2>1, <2>2, <2>3 DEF SubAll
<1>9. /\ Idle.at <= Len(heap) /\ Idle.new <= Len(heap) /\ list' \in [Lists -> Nat]
      /\ list'["subs"] <= Len(heap) /\ mqtt_connected' \in BOOLEAN
      /\ client' \in {"none", "offline", "online"}
  BY <1>0, <1>3, TaskIs, IdleTyped DEF Typed
<1> QED
  BY <1>2, <1>3, <1>5, <1>6, <1>7, <1>8, <1>9, IdleTyped, AppSubAny

(* mqtt_connect                                                            *)
LEMMA ConnectStep ==
    ASSUME IInv, Connect
    PROVE  IInv'
<1>0. Typed /\ Control /\ FlagInv /\ Publications /\ Subscriptions
  BY DEF IInv
<1>1. /\ UNCHANGED <<heap, list, mqtt_connected, task, accepted, queued, sent, ub, raced, refused>>
      /\ client' \in {"none", "offline", "online"}
  BY DEF Connect, histories
<1>2. A' = A /\ M' = M /\ Overlap' = Overlap /\ Entries' = Entries
  BY <1>1 DEF A, M, Overlap, Touches, Entries
<1>3. Typed' /\ UbInv'
  BY <1>0, <1>1, <1>2 DEF Typed, HeapTyped, UbInv, IInv
<1>4. Control' /\ FlagInv'
  BY <1>0, <1>1, <1>2 DEF Control, FlagInv, Flushing
<1>5. \A k \in Entries : k \in Nat /\ k # 0
  BY <1>0, TaskIs
<1>6. \A k : (Live(k)' <=> Live(k)) /\ (LiveSub(k)' <=> LiveSub(k)) /\ (FreedAt(k)' <=> FreedAt(k))
  BY <1>1, SameHeap
<1>7. PubSame
  <2>1. Len(heap) \in Nat /\ Len(heap') \in Nat /\ Len(heap) <= Len(heap')
    BY <1>0, <1>1, TaskIs
  <2> QED
    BY <1>1, <1>2, <1>5, <1>6, <2>1 DEF PubSame
<1>8. SubSame
  BY <1>1, <1>2, <1>5, <1>6 DEF SubSame
<1> QED
  BY <1>0, <1>3, <1>4, <1>7, <1>8, PubFrame, SubFrame DEF IInv

(* mqtt_subscriptions_free, for mqtt_disconnect                            *)
LEMMA AppFreeTake ==
    ASSUME IInv, FreeTake("app")
    PROVE  IInv'
<1>0. Typed /\ Control /\ KindSub
  BY DEF IInv, Subscriptions
<1>1. A.pc = "take" /\ ListOfTask("app") = "subs"
  BY <1>0, AppOnSubs DEF FreeTake, At, A
<1>2. A.call = "disconnect" /\ OnSubs
  BY <1>0, <1>1, AppCallIs DEF Frees, OnSubs
<1> PICK n \in Nat : n = list["subs"]
  BY <1>0, TaskIs
<1> PICK r : r = [A EXCEPT !.at = n, !.pc = IF n = Null THEN "reset" ELSE "advance"]
  OBVIOUS
<1>3. /\ r \in Locals /\ r.call = A.call /\ r.arg = A.arg /\ r.at = n /\ r.new = A.new
      /\ r.pc = (IF n = 0 THEN "reset" ELSE "advance")
  BY <1>0, TaskIs DEF Locals, Pcs, Frees, Null
<1>4. Becomes("app", r) /\ UNCHANGED <<heap, list>> /\ Sound
  BY <1>1 DEF FreeTake, A
<1>5. A' = r /\ M' = M
  BY <1>0, <1>3, <1>4, AppMoves
<1>6. Control'
  BY <1>0, <1>2, <1>3, <1>5 DEF Control, AppPcs, AppCalls, Unsubscribes, Frees
<1>7. ASSUME NEW L \in SUBSET Entries, SubAll(L)
      PROVE  SubApp(L)' /\ SubClean(L)'
  <2>1. SubList(L) /\ SubClean(L)
    BY <1>7 DEF SubAll
  <2>2. (n \in L /\ n # 0) \/ (n = 0 /\ L = {})
    BY <1>0, <2>1, SubEntries DEF SubList
  <2>3. SubApp(L)'
    BY <1>2, <1>3, <1>4, <1>5, <2>2 DEF SubApp, Unsubscribing, Unsubscribes
  <2>4. SubClean(L)'
    BY <1>1, <1>2, <1>3, <1>4, <1>5, <2>1, SameHeap DEF SubClean, Unsubscribing, Unsubscribes
  <2> QED
    BY <2>3, <2>4
<1>8. /\ r.at <= Len(heap) /\ r.new <= Len(heap) /\ SubPtr(r.at) /\ SubPtr(r.new)
      /\ A.call # "publish" /\ r.call # "publish"
  BY <1>0, <1>2, <1>3, TaskIs DEF KindSub
<1> QED
  BY <1>3, <1>4, <1>6, <1>7, <1>8, AppSubMove

LEMMA AppFreeAdvance ==
    ASSUME IInv, FreeAdvance("app")
    PROVE  IInv'
<1>0. Typed /\ Control /\ KindSub /\ HeapTyped
  BY DEF IInv, Subscriptions, Typed
<1>1. A.pc = "advance" /\ ListOfTask("app") = "subs"
  BY <1>0, AppOnSubs DEF FreeAdvance, At, A
<1>2. A.call = "disconnect" /\ OnSubs
  BY <1>0, <1>1, AppCallIs DEF Frees, OnSubs
<1> PICK n \in Nat : n = A.at
  BY <1>0, TaskIs
<1>3. LiveSub(n) /\ n \in Entries
  BY <1>0, <1>2 DEF KindSub, SubPtr, InUse, Null, FreedAt, LiveSub, FreeAdvance, A
<1> PICK k \in Nat : k = heap[n].next
  BY <1>0, <1>3, CellIs
<1>4. SubPtr(k) /\ k <= Len(heap)
  BY <1>0, <1>3 DEF KindSub, HeapTyped
<1> PICK r : r = [A EXCEPT !.pc = "free"]
  OBVIOUS
<1>5. /\ r \in Locals /\ r.call = A.call /\ r.arg = A.arg /\ r.at = n /\ r.new = A.new
      /\ r.pc = "free"
  BY <1>0, TaskIs DEF Locals, Pcs, Frees
<1>6. /\ Becomes("app", r) /\ UNCHANGED heap /\ Sound
      /\ list' \in [Lists -> Nat] /\ list'["subs"] = k /\ list'["pubs"] = list["pubs"]
  BY <1>0, <1>1 DEF FreeAdvance, A, GoesTo, Typed, Lists
<1>7. A' = r /\ M' = M
  BY <1>0, <1>5, <1>6, AppMoves
<1>8. Control'
  BY <1>0, <1>2, <1>5, <1>7 DEF Control, AppPcs, AppCalls, Unsubscribes, Frees
<1>9. SubsOnly
  BY <1>0, <1>6, SameSubs
<1>10. KindSub'
  BY <1>0, <1>2, <1>4, <1>5, <1>6, <1>7, <1>9, SubPtrKept, KindSubSame DEF KindSub, ClientOnSubs
<1>11. ASSUME NEW L \in SUBSET Entries, SubAll(L), "subs" \notin raced
       PROVE  \E K \in SUBSET Entries : SubAll(K)'
  <2>1. SubList(L) /\ SubApp(L) /\ SubClean(L)
    BY <1>11 DEF SubAll
  <2>2. n \in L /\ n = list["subs"]
    BY <1>1, <1>2, <2>1 DEF SubApp
  <2> PICK K \in SUBSET Entries : K = L \ {n}
    OBVIOUS
  <2>3. SubList(K)'
    BY <1>0, <1>6, <2>1, <2>2, SubListPop
  <2>4. SubApp(K)'
    BY <1>2, <1>3, <1>5, <1>6, <1>7, SameHeap DEF SubApp, Unsubscribing, Unsubscribes
  <2>5. SubClient(K)'
    BY <1>0, <1>1, <1>2, <1>7, <1>11, SubsAlone DEF SubClient, ClientOnSubs
  <2>6. SubClean(K)'
    BY <1>1, <1>2, <1>5, <1>6, <1>7, <2>1, SameHeap DEF SubClean, Unsubscribing, Unsubscribes
  <2> QED
    BY <2>3, <2>4, <2>5, <2>6 DEF SubAll
<1>12. r.at <= Len(heap) /\ r.new <= Len(heap) /\ r.call # "publish" /\ A.call # "publish"
  BY <1>0, <1>2, <1>5, TaskIs
<1> QED
  BY <1>4, <1>5, <1>6, <1>8, <1>9, <1>10, <1>11, <1>12, AppSubStep

LEMMA AppFreeEntry ==
    ASSUME IInv, FreeEntry("app")
    PROVE  IInv'
<1>0. Typed /\ Control /\ KindSub /\ HeapTyped
  BY DEF IInv, Subscriptions, Typed
<1>1. A.pc = "free"
  BY DEF FreeEntry, At, A
<1>2. A.call = "disconnect" /\ OnSubs
  BY <1>0, <1>1, AppCallIs DEF Frees, OnSubs
<1> PICK k \in Nat : k = A.at
  BY <1>0, TaskIs
<1>3. LiveSub(k) /\ k \in Entries /\ SubPtr(A.new)
  BY <1>0, <1>2 DEF KindSub, SubPtr, InUse, Null, FreedAt, LiveSub, FreeEntry, A
<1> PICK r : r = [A EXCEPT !.pc = "take", !.at = 0]
  OBVIOUS
<1>4. /\ r \in Locals /\ r.call = A.call /\ r.arg = A.arg /\ r.at = 0 /\ r.new = A.new
      /\ r.pc = "take"
  BY <1>0, TaskIs DEF Locals, Pcs, Frees
<1>5. Becomes("app", r) /\ UNCHANGED list /\ Sound /\ heap' = [heap EXCEPT ![k] = Freed]
  BY DEF FreeEntry, A, Null
<1>6. A' = r /\ M' = M
  BY <1>0, <1>4, <1>5, AppMoves
<1>7. Control'
  BY <1>0, <1>2, <1>4, <1>6 DEF Control, AppPcs, AppCalls, Unsubscribes, Frees
<1>8. /\ HeapTyped' /\ Len(heap') = Len(heap) /\ Entries' = Entries
      /\ \A n \in Entries : n # k => heap'[n] = heap[n]
      /\ ~heap'[k].used
  BY <1>0, <1>3, <1>5, HeapFree
<1>9. SubsOnly
  BY <1>3, <1>8 DEF SubsOnly
<1>10. KindSub'
  <2>1. /\ SubPtr(list["subs"])' /\ (ClientOnSubs' => SubPtr(M.at)')
        /\ (OnSubs' => SubPtr(A.at)' /\ SubPtr(A.new)')
    BY <1>0, <1>3, <1>4, <1>5, <1>6, <1>9, SubPtrKept DEF KindSub, ClientOnSubs, SubPtr
  <2> QED
    BY <1>0, <1>8, <1>9, <2>1, KindSubKept
<1>11. ASSUME NEW L \in SUBSET Entries, SubAll(L), "subs" \notin raced
       PROVE  \E K \in SUBSET Entries : SubAll(K)'
  <2>1. SubList(L) /\ SubApp(L) /\ SubClean(L)
    BY <1>11 DEF SubAll
  <2>2. k \notin L
    BY <1>1, <1>2, <2>1 DEF SubApp
  <2>3. SubList(L)'
    BY <1>5, <1>8, <2>1, <2>2, SubListSame
  <2>4. SubApp(L)'
    BY <1>2, <1>4, <1>6 DEF SubApp, Unsubscribing, Unsubscribes
  <2>5. SubClient(L)'
    BY <1>0, <1>1, <1>2, <1>6, <1>11, SubsAlone DEF SubClient, ClientOnSubs
  <2>6. SubClean(L)'
    <3> SUFFICES ASSUME NEW n \in Entries, LiveSub(n)'
                 PROVE  n \in L
      BY <1>8 DEF SubClean
    <3>1. LiveSub(n) /\ n # k
      BY <1>8, <1>9, SubPtrKept DEF LiveSub
    <3> QED
      BY <1>0, <1>1, <1>2, <1>11, <2>1, <3>1, SubsAlone
         DEF SubClean, Unsubscribing, Unsubscribes, ClientOnSubs
  <2> QED
    BY <2>3, <2>4, <2>5, <2>6 DEF SubAll
<1>12. /\ r.at <= Len(heap) /\ r.new <= Len(heap) /\ r.call # "publish" /\ A.call # "publish"
       /\ list' \in [Lists -> Nat] /\ list'["subs"] <= Len(heap) /\ list'["pubs"] = list["pubs"]
  BY <1>0, <1>2, <1>4, <1>5, TaskIs DEF Typed
<1> QED
  BY <1>4, <1>5, <1>7, <1>9, <1>10, <1>11, <1>12, AppSubStep

LEMMA AppFreeReset ==
    ASSUME IInv, FreeReset("app")
    PROVE  IInv'
<1>0. Typed /\ Control /\ KindSub
  BY DEF IInv, Subscriptions
<1>1. A.pc = "reset" /\ ListOfTask("app") = "subs"
  BY <1>0, AppOnSubs DEF FreeReset, At, A
<1>2. A.call = "disconnect" /\ OnSubs
  BY <1>0, <1>1, AppCallIs DEF Frees, OnSubs
<1> PICK r : r = [A EXCEPT !.pc = "destroy"]
  OBVIOUS
<1>3. /\ r \in Locals /\ r.call = A.call /\ r.arg = A.arg /\ r.at = A.at /\ r.new = A.new
      /\ r.pc = "destroy"
  BY <1>0, TaskIs DEF Locals, Pcs
<1>4. /\ Becomes("app", r) /\ UNCHANGED heap /\ Sound
      /\ list' \in [Lists -> Nat] /\ list'["subs"] = 0 /\ list'["pubs"] = list["pubs"]
  BY <1>0, <1>1, <1>2 DEF FreeReset, A, Null, Typed, Lists
<1>5. A' = r /\ M' = M
  BY <1>0, <1>3, <1>4, AppMoves
<1>6. Control'
  BY <1>0, <1>2, <1>3, <1>5 DEF Control, AppPcs, AppCalls, Unsubscribes, Frees
<1>7. SubsOnly
  BY <1>0, <1>4, SameSubs
<1>8. KindSub'
  <2>1. SubPtr(list["subs"])'
    BY <1>4 DEF SubPtr
  <2> QED
    BY <1>0, <1>2, <1>3, <1>4, <1>5, <1>7, <2>1, SubPtrKept, KindSubSame DEF KindSub, ClientOnSubs
<1>9. ASSUME NEW L \in SUBSET Entries, SubAll(L), "subs" \notin raced
      PROVE  \E K \in SUBSET Entries : SubAll(K)'
  <2>1. L = {} /\ SubClean({})
    BY <1>1, <1>2, <1>9 DEF SubAll, SubApp
  <2>2. SubList({})' /\ SubApp({})'
    BY <1>2, <1>3, <1>4, <1>5 DEF SubList, SubApp, Unsubscribing, Unsubscribes
  <2>3. SubClient({})'
    BY <1>0, <1>1, <1>2, <1>5, <1>9, SubsAlone DEF SubClient, ClientOnSubs
  <2>4. SubClean({})'
    BY <1>1, <1>2, <1>3, <1>4, <1>5, <2>1, SameHeap DEF SubClean, Unsubscribing, Unsubscribes
  <2> QED
    BY <2>2, <2>3, <2>4 DEF SubAll
<1>10. /\ r.at <= Len(heap) /\ r.new <= Len(heap) /\ r.call # "publish" /\ A.call # "publish"
       /\ list'["subs"] <= Len(heap)
  BY <1>0, <1>2, <1>3, <1>4, TaskIs
<1> QED
  BY <1>3, <1>4, <1>6, <1>7, <1>8, <1>9, <1>10, AppSubStep

LEMMA AppFreeAll ==
    ASSUME IInv, FreeAll("app")
    PROVE  IInv'
<1>1. ASSUME NEW pc \in {"advance", "free"}, Corrupts("app", pc, task["app"].at)
      PROVE  IInv'
  <2>1. A.pc = pc /\ ~InUse(A.at)
    BY <1>1 DEF Corrupts, At, A
  <2>2. "subs" \in raced /\ ListOfTask("app") = "subs" /\ "app" \in Tasks
    BY <2>1, AppSubsUsed, AppOnSubs DEF IInv
  <2> QED
    BY <1>1, <2>2, CorruptsRaced
<1> QED
  BY <1>1, AppFreeTake, AppFreeAdvance, AppFreeEntry, AppFreeReset DEF FreeAll, FreeCorrupts

----------------------------------------------------------------------------
(* The client's task on the subscriptions                                  *)
LEMMA ClientSubStep ==
    ASSUME IInv, NEW r \in Locals, Becomes("mqtt", r), SubsOnly,
           UNCHANGED <<accepted, queued, sent, ub, refused>>,
           mqtt_connected' \in BOOLEAN, client' \in {"none", "offline", "online"},
           list' \in [Lists -> Nat], list'["pubs"] = list["pubs"],
           list'["subs"] <= Len(heap), r.at <= Len(heap), r.new <= Len(heap),
           Control', KindSub', M.call # "CONNECTED", r.call # "CONNECTED",
           \A L \in SUBSET Entries :
               SubAll(L) /\ "subs" \notin raced' => \E K \in SUBSET Entries : SubAll(K)'
    PROVE  IInv'
<1>1. Typed /\ Control /\ HeapTyped /\ Len(heap) \in Nat
  BY DEF IInv, Typed, HeapTyped
<1>2. /\ Entries' = Entries /\ HeapTyped' /\ Len(heap') = Len(heap)
  BY DEF SubsOnly
<1>3. Typed' /\ M' = r /\ A' = A /\ raced \subseteq raced' /\ UbInv'
  <2>1. \A l \in Lists : list'[l] <= Len(heap')
    BY <1>1, <1>2 DEF Lists, Typed
  <2>2. /\ accepted' \in Seq(Messages) /\ sent' \in Seq(Messages) /\ queued' \subseteq Messages
        /\ refused' \subseteq Messages
        /\ Len(heap) <= Len(heap')
    BY <1>1, <1>2 DEF Typed
  <2>3. r.at <= Len(heap') /\ r.new <= Len(heap') /\ UbInv
    BY <1>2 DEF IInv
  <2> QED
    BY <1>1, <1>2, <2>1, <2>2, <2>3, ClientTyped
<1>4. FlagInv'
  BY <1>3 DEF FlagInv, Flushing
<1>5. PubSame
  <2>1. \A n \in Entries' : n \in Entries \/ heap'[n].what \in Topics
    BY <1>2
  <2>2. Len(heap) <= Len(heap')
    BY <1>1, <1>2
  <2> QED
    BY <1>1, <1>3, <2>1, <2>2, OnlySubs DEF SubsOnly
<1>6. SubInv'
  <2> SUFFICES ASSUME "subs" \notin raced'
               PROVE  \E L \in SUBSET Entries' : SubAll(L)'
    BY DEF SubInv
  <2>0. "subs" \notin raced
    BY <1>3
  <2>1. PICK L \in SUBSET Entries : SubAll(L)
    BY <2>0 DEF IInv, Subscriptions, SubInv
  <2> QED
    BY <1>2, <2>1
<1> QED
  BY <1>1, <1>3, <1>4, <1>5, <1>6, SubsKeep DEF Subscriptions

(* A step that leaves the heap and the list.                               *)
LEMMA ClientSubMove ==
    ASSUME IInv, NEW r \in Locals, Becomes("mqtt", r), UNCHANGED <<heap, list>>,
           UNCHANGED <<accepted, queued, sent, ub, refused>>,
           mqtt_connected' \in BOOLEAN, client' \in {"none", "offline", "online"},
           r.at <= Len(heap), r.new <= Len(heap), Control', SubPtr(r.at),
           M.call # "CONNECTED", r.call # "CONNECTED",
           \A L \in SUBSET Entries :
               SubAll(L) /\ "subs" \notin raced' => SubClient(L)' /\ SubClean(L)'
    PROVE  IInv'
<1>1. Typed /\ KindSub
  BY DEF IInv, Subscriptions
<1>2. M' = r /\ A' = A
  BY <1>1, ClientMoves
<1>3. SubsOnly
  BY <1>1, SameSubs
<1>4. KindSub'
  <2>1. /\ SubPtr(list["subs"])' /\ (OnSubs' => SubPtr(A.at)' /\ SubPtr(A.new)')
        /\ SubPtr(M.at)'
    BY <1>1, <1>2, SameHeap DEF KindSub, OnSubs
  <2> QED
    BY <1>1, <2>1, KindSubSame
<1>5. ASSUME NEW L \in SUBSET Entries, SubAll(L), "subs" \notin raced'
      PROVE  \E K \in SUBSET Entries : SubAll(K)'
  <2>1. SubList(L)'
    BY <1>5, SameHeap DEF SubAll, SubList
  <2>2. SubApp(L)'
    BY <1>2, <1>5, SameHeap DEF SubAll, SubApp, Unsubscribing, Deref
  <2> QED
    BY <1>5, <2>1, <2>2 DEF SubAll
<1>6. list' \in [Lists -> Nat] /\ list'["subs"] <= Len(heap) /\ list'["pubs"] = list["pubs"]
  BY <1>1, TaskIs DEF Typed
<1> QED
  BY <1>3, <1>4, <1>5, <1>6, ClientSubStep

LEMMA ClientOnList ==
    ASSUME Control
    PROVE  /\ M.call = "CONNECTED" => ListOfTask("mqtt") = "pubs"
           /\ M.call # "CONNECTED" => ListOfTask("mqtt") = "subs"
           /\ "mqtt" \in Tasks
BY DEF Control, Events, ListOfTask, ListOf, M, Tasks, Idle

LEMMA MqttDisconnectedStep ==
    ASSUME IInv, MqttDisconnected
    PROVE  IInv'
<1>0. Typed /\ Control
  BY DEF IInv
<1>1. M = Idle /\ M.call = "none" /\ M.pc = "idle"
  BY <1>0, ClientIdle DEF MqttDisconnected, At, M
<1> PICK r : r = [Idle EXCEPT !.call = "DISCONNECTED", !.pc = "take"]
  OBVIOUS
<1>2. /\ r \in Locals /\ r.call = "DISCONNECTED" /\ r.pc = "take" /\ r.arg = {} /\ r.at = 0
      /\ r.new = 0
  BY IdleTyped DEF Locals, Calls, Pcs, Events, Frees
<1>3. /\ Becomes("mqtt", r) /\ UNCHANGED <<heap, list, accepted, queued, sent, ub, refused>>
      /\ mqtt_connected' = FALSE /\ client' = "offline"
  BY DEF MqttDisconnected, Handle, histories
<1>4. M' = r /\ A' = A
  BY <1>0, <1>2, <1>3, ClientMoves
<1>5. Control'
  BY <1>0, <1>2, <1>4 DEF Control, ClientPcs, Events, Frees
<1>6. ASSUME NEW L \in SUBSET Entries, SubAll(L)
      PROVE  SubClient(L)' /\ SubClean(L)'
  BY <1>1, <1>2, <1>3, <1>4, <1>6, SameHeap DEF SubAll, SubClient, SubClean, Unsubscribing
<1>7. /\ r.at <= Len(heap) /\ r.new <= Len(heap) /\ SubPtr(r.at)
      /\ client' \in {"none", "offline", "online"}
  BY <1>0, <1>2, <1>3, TaskIs DEF SubPtr
<1>8. mqtt_connected' \in BOOLEAN
  BY <1>3
<1> QED
  BY <1>1, <1>2, <1>3, <1>5, <1>6, <1>7, <1>8, ClientSubMove

(* mqtt_subscriptions_free, for MQTT_EVENT_DISCONNECTED                    *)
LEMMA ClientFreeTake ==
    ASSUME IInv, FreeTake("mqtt"), M.call # "CONNECTED"
    PROVE  IInv'
<1>0. Typed /\ Control /\ KindSub
  BY DEF IInv, Subscriptions
<1>1. M.pc = "take" /\ ListOfTask("mqtt") = "subs"
  BY <1>0, ClientOnList DEF FreeTake, At, M
<1>2. M.call = "DISCONNECTED"
  BY <1>0, <1>1, ClientCallIs DEF Frees
<1> PICK n \in Nat : n = list["subs"]
  BY <1>0, TaskIs
<1> PICK r : r = [M EXCEPT !.at = n, !.pc = IF n = Null THEN "reset" ELSE "advance"]
  OBVIOUS
<1>3. /\ r \in Locals /\ r.call = M.call /\ r.arg = M.arg /\ r.at = n /\ r.new = M.new
      /\ r.pc = (IF n = 0 THEN "reset" ELSE "advance")
  BY <1>0, TaskIs DEF Locals, Pcs, Frees, Null
<1>4. Becomes("mqtt", r) /\ UNCHANGED <<heap, list>> /\ Sound
  BY <1>1 DEF FreeTake, M
<1>5. M' = r /\ A' = A
  BY <1>0, <1>3, <1>4, ClientMoves
<1>6. Control'
  BY <1>0, <1>2, <1>3, <1>5 DEF Control, ClientPcs, Events, Frees
<1>7. ASSUME NEW L \in SUBSET Entries, SubAll(L)
      PROVE  SubClient(L)' /\ SubClean(L)'
  <2>1. SubList(L) /\ SubClean(L)
    BY <1>7 DEF SubAll
  <2>2. (n \in L /\ n # 0) \/ (n = 0 /\ L = {})
    BY <1>0, <2>1, SubEntries DEF SubList
  <2>3. SubClient(L)'
    BY <1>2, <1>3, <1>4, <1>5, <2>2 DEF SubClient
  <2>4. SubClean(L)'
    BY <1>1, <1>2, <1>3, <1>4, <1>5, <2>1, SameHeap DEF SubClean, Unsubscribing
  <2> QED
    BY <2>3, <2>4
<1>8. /\ r.at <= Len(heap) /\ r.new <= Len(heap) /\ SubPtr(r.at) /\ r.call # "CONNECTED"
      /\ mqtt_connected' \in BOOLEAN /\ client' \in {"none", "offline", "online"}
  BY <1>0, <1>2, <1>3, <1>4, TaskIs DEF KindSub, Sound, Typed
<1> QED
  BY <1>3, <1>4, <1>6, <1>7, <1>8, ClientSubMove DEF Sound, histories

LEMMA ClientFreeAdvance ==
    ASSUME IInv, FreeAdvance("mqtt"), M.call # "CONNECTED"
    PROVE  IInv'
<1>0. Typed /\ Control /\ KindSub /\ HeapTyped
  BY DEF IInv, Subscriptions, Typed
<1>1. M.pc = "advance" /\ ListOfTask("mqtt") = "subs"
  BY <1>0, ClientOnList DEF FreeAdvance, At, M
<1>2. M.call = "DISCONNECTED" /\ ClientOnSubs
  BY <1>0, <1>1, ClientCallIs DEF Frees, ClientOnSubs
<1> PICK n \in Nat : n = M.at
  BY <1>0, TaskIs
<1>3. LiveSub(n) /\ n \in Entries
  BY <1>0, <1>2 DEF KindSub, SubPtr, InUse, Null, FreedAt, LiveSub, FreeAdvance, M
<1> PICK k \in Nat : k = heap[n].next
  BY <1>0, <1>3, CellIs
<1>4. SubPtr(k) /\ k <= Len(heap)
  BY <1>0, <1>3 DEF KindSub, HeapTyped
<1> PICK r : r = [M EXCEPT !.pc = "free"]
  OBVIOUS
<1>5. /\ r \in Locals /\ r.call = M.call /\ r.arg = M.arg /\ r.at = n /\ r.new = M.new
      /\ r.pc = "free"
  BY <1>0, TaskIs DEF Locals, Pcs, Frees
<1>6. /\ Becomes("mqtt", r) /\ UNCHANGED heap /\ Sound
      /\ list' \in [Lists -> Nat] /\ list'["subs"] = k /\ list'["pubs"] = list["pubs"]
  BY <1>0, <1>1 DEF FreeAdvance, M, GoesTo, Typed, Lists
<1>7. M' = r /\ A' = A /\ raced \subseteq raced'
  BY <1>0, <1>5, <1>6, ClientMoves
<1>8. Control'
  BY <1>0, <1>1, <1>2, <1>5, <1>7 DEF Control, ClientPcs, Events, Frees
<1>9. SubsOnly
  BY <1>0, <1>6, SameSubs
<1>10. KindSub'
  BY <1>0, <1>2, <1>4, <1>5, <1>6, <1>7, <1>9, SubPtrKept, KindSubSame
     DEF KindSub, ClientOnSubs, OnSubs
<1>11. ASSUME NEW L \in SUBSET Entries, SubAll(L), "subs" \notin raced'
       PROVE  \E K \in SUBSET Entries : SubAll(K)'
  <2>0. /\ "subs" \notin raced /\ A.call # "subscribe" /\ ~Unsubscribing
        /\ A.call = "disconnect" => A.pc = "destroy"
    BY <1>0, <1>2, <1>7, <1>11, SubsAlone
  <2>1. SubList(L) /\ SubClient(L) /\ SubClean(L)
    BY <1>11 DEF SubAll
  <2>2. n \in L /\ n = list["subs"]
    BY <1>1, <1>2, <2>1 DEF SubClient
  <2> PICK K \in SUBSET Entries : K = L \ {n}
    OBVIOUS
  <2>3. SubList(K)'
    BY <1>0, <1>6, <2>1, <2>2, SubListPop
  <2>4. SubClient(K)'
    BY <1>2, <1>3, <1>5, <1>6, <1>7, SameHeap DEF SubClient
  <2>5. SubApp(K)'
    BY <1>7, <2>0 DEF SubApp, Unsubscribing
  <2>6. SubClean(K)'
    BY <1>1, <1>2, <1>5, <1>6, <1>7, <2>0, <2>1, SameHeap DEF SubClean, Unsubscribing
  <2> QED
    BY <2>3, <2>4, <2>5, <2>6 DEF SubAll
<1>12. /\ r.at <= Len(heap) /\ r.new <= Len(heap) /\ r.call # "CONNECTED"
       /\ mqtt_connected' \in BOOLEAN /\ client' \in {"none", "offline", "online"}
  BY <1>0, <1>2, <1>5, <1>6, TaskIs DEF Typed, Sound
<1> QED
  BY <1>4, <1>5, <1>6, <1>8, <1>9, <1>10, <1>11, <1>12, ClientSubStep DEF Sound, histories

LEMMA ClientFreeEntry ==
    ASSUME IInv, FreeEntry("mqtt"), M.call # "CONNECTED"
    PROVE  IInv'
<1>0. Typed /\ Control /\ KindSub /\ HeapTyped
  BY DEF IInv, Subscriptions, Typed
<1>1. M.pc = "free"
  BY DEF FreeEntry, At, M
<1>2. M.call = "DISCONNECTED" /\ ClientOnSubs
  BY <1>0, <1>1, ClientCallIs DEF Frees, ClientOnSubs
<1> PICK k \in Nat : k = M.at
  BY <1>0, TaskIs
<1>3. LiveSub(k) /\ k \in Entries
  BY <1>0, <1>2 DEF KindSub, SubPtr, InUse, Null, FreedAt, LiveSub, FreeEntry, M
<1> PICK r : r = [M EXCEPT !.pc = "take", !.at = 0]
  OBVIOUS
<1>4. /\ r \in Locals /\ r.call = M.call /\ r.arg = M.arg /\ r.at = 0 /\ r.new = M.new
      /\ r.pc = "take"
  BY <1>0, TaskIs DEF Locals, Pcs, Frees
<1>5. Becomes("mqtt", r) /\ UNCHANGED list /\ Sound /\ heap' = [heap EXCEPT ![k] = Freed]
  BY DEF FreeEntry, M, Null
<1>6. M' = r /\ A' = A /\ raced \subseteq raced'
  BY <1>0, <1>4, <1>5, ClientMoves
<1>7. Control'
  BY <1>0, <1>2, <1>4, <1>6 DEF Control, ClientPcs, Events, Frees
<1>8. /\ HeapTyped' /\ Len(heap') = Len(heap) /\ Entries' = Entries
      /\ \A n \in Entries : n # k => heap'[n] = heap[n]
      /\ ~heap'[k].used
  BY <1>0, <1>3, <1>5, HeapFree
<1>9. SubsOnly
  BY <1>3, <1>8 DEF SubsOnly
<1>10. KindSub'
  <2>1. /\ SubPtr(list["subs"])' /\ SubPtr(M.at)'
        /\ (OnSubs' => SubPtr(A.at)' /\ SubPtr(A.new)')
    BY <1>0, <1>3, <1>4, <1>5, <1>6, <1>9, SubPtrKept DEF KindSub, OnSubs, SubPtr
  <2> QED
    BY <1>0, <1>8, <1>9, <2>1, KindSubKept
<1>11. ASSUME NEW L \in SUBSET Entries, SubAll(L), "subs" \notin raced'
       PROVE  \E K \in SUBSET Entries : SubAll(K)'
  <2>0. /\ "subs" \notin raced /\ A.call # "subscribe" /\ ~Unsubscribing
        /\ A.call = "disconnect" => A.pc = "destroy"
    BY <1>0, <1>2, <1>6, <1>11, SubsAlone
  <2>1. SubList(L) /\ SubClient(L) /\ SubClean(L)
    BY <1>11 DEF SubAll
  <2>2. k \notin L
    BY <1>1, <1>2, <2>1 DEF SubClient
  <2>3. SubList(L)'
    BY <1>5, <1>8, <2>1, <2>2, SubListSame
  <2>4. SubClient(L)'
    BY <1>2, <1>4, <1>6 DEF SubClient
  <2>5. SubApp(L)'
    BY <1>6, <2>0 DEF SubApp, Unsubscribing
  <2>6. SubClean(L)'
    <3> SUFFICES ASSUME NEW n \in Entries, LiveSub(n)'
                 PROVE  n \in L
      BY <1>8 DEF SubClean
    <3>1. LiveSub(n) /\ n # k
      BY <1>8, <1>9, SubPtrKept DEF LiveSub
    <3> QED
      BY <1>1, <1>2, <2>0, <2>1, <3>1 DEF SubClean, Unsubscribing
  <2> QED
    BY <2>3, <2>4, <2>5, <2>6 DEF SubAll
<1>12. /\ r.at <= Len(heap) /\ r.new <= Len(heap) /\ r.call # "CONNECTED"
       /\ list' \in [Lists -> Nat] /\ list'["subs"] <= Len(heap) /\ list'["pubs"] = list["pubs"]
       /\ mqtt_connected' \in BOOLEAN /\ client' \in {"none", "offline", "online"}
  BY <1>0, <1>2, <1>4, <1>5, TaskIs DEF Typed, Sound
<1> QED
  BY <1>4, <1>5, <1>7, <1>9, <1>10, <1>11, <1>12, ClientSubStep DEF Sound, histories

LEMMA ClientFreeReset ==
    ASSUME IInv, FreeReset("mqtt"), M.call # "CONNECTED"
    PROVE  IInv'
<1>0. Typed /\ Control /\ KindSub
  BY DEF IInv, Subscriptions
<1>1. M.pc = "reset" /\ ListOfTask("mqtt") = "subs"
  BY <1>0, ClientOnList DEF FreeReset, At, M
<1>2. M.call = "DISCONNECTED" /\ ClientOnSubs
  BY <1>0, <1>1, ClientCallIs DEF Frees, ClientOnSubs
<1>3. /\ Becomes("mqtt", Idle) /\ UNCHANGED heap /\ Sound
      /\ list' \in [Lists -> Nat] /\ list'["subs"] = 0 /\ list'["pubs"] = list["pubs"]
  BY <1>0, <1>1, <1>2 DEF FreeReset, M, Null, Typed, Lists
<1>4. M' = Idle /\ A' = A /\ raced \subseteq raced'
  BY <1>0, <1>3, IdleTyped, ClientMoves
<1>5. Control'
  BY <1>0, <1>4, IdleTyped DEF Control
<1>6. SubsOnly
  BY <1>0, <1>3, SameSubs
<1>7. KindSub'
  <2>1. SubPtr(list["subs"])' /\ ~ClientOnSubs'
    BY <1>3, <1>4, IdleTyped DEF SubPtr, ClientOnSubs
  <2> QED
    BY <1>0, <1>3, <1>4, <1>6, <2>1, SubPtrKept, KindSubSame DEF KindSub, OnSubs
<1>8. ASSUME NEW L \in SUBSET Entries, SubAll(L), "subs" \notin raced'
      PROVE  \E K \in SUBSET Entries : SubAll(K)'
  <2>0. /\ "subs" \notin raced /\ A.call # "subscribe" /\ ~Unsubscribing
        /\ A.call = "disconnect" => A.pc = "destroy"
    BY <1>0, <1>2, <1>4, <1>8, SubsAlone
  <2>1. L = {} /\ SubClean({})
    BY <1>1, <1>2, <1>8 DEF SubAll, SubClient
  <2>2. SubList({})' /\ SubClient({})'
    BY <1>3, <1>4, IdleTyped DEF SubList, SubClient
  <2>3. SubApp({})'
    BY <1>4, <2>0 DEF SubApp, Unsubscribing
  <2>4. SubClean({})'
    BY <1>1, <1>3, <1>4, <2>0, <2>1, SameHeap DEF SubClean, Unsubscribing
  <2> QED
    BY <2>2, <2>3, <2>4 DEF SubAll
<1>9. /\ Idle.at <= Len(heap) /\ Idle.new <= Len(heap) /\ list'["subs"] <= Len(heap)
      /\ mqtt_connected' \in BOOLEAN /\ client' \in {"none", "offline", "online"}
  BY <1>0, <1>3, TaskIs, IdleTyped DEF Typed, Sound
<1> QED
  BY <1>3, <1>5, <1>6, <1>7, <1>8, <1>9, IdleTyped, ClientSubStep DEF Sound, histories

----------------------------------------------------------------------------
(* mqtt_message_cb                                                         *)
LEMMA MqttDataStep ==
    ASSUME IInv, NEW t \in Topics, MqttData(t)
    PROVE  IInv'
<1>0. Typed /\ Control /\ KindSub
  BY DEF IInv, Subscriptions
<1>1. M = Idle /\ M.call = "none" /\ M.pc = "idle"
  BY <1>0, ClientIdle DEF MqttData, At, M
<1> PICK n \in Nat : n = list["subs"]
  BY <1>0, TaskIs
<1> PICK r : r = [Idle EXCEPT !.call = "DATA", !.arg = {t},
                              !.pc = IF n = Null THEN "done" ELSE "match",
                              !.at = n, !.todo = Subscribers(t)]
  OBVIOUS
<1>2. /\ r.call = "DATA" /\ r.arg = {t} /\ r.pc = (IF n = 0 THEN "done" ELSE "match")
      /\ r.at = n /\ r.todo = Subscribers(t) /\ r.new = 0
  BY DEF Idle, Null
<1>3. r \in Locals
  <2>1. Subscribers(t) \in SUBSET Nat
    BY <1>0, TaskIs DEF Subscribers
  <2> QED
    BY <2>1, IdleTyped DEF Locals, Calls, Pcs, Events
<1>4. Becomes("mqtt", r) /\ UNCHANGED <<heap, list>> /\ Sound
  BY DEF MqttData
<1>5. M' = r /\ A' = A /\ raced \subseteq raced' /\ Overlap' \subseteq raced'
  BY <1>0, <1>3, <1>4, ClientMoves
<1>6. Control'
  BY <1>0, <1>2, <1>5 DEF Control, ClientPcs, Events
<1>7. ASSUME NEW L \in SUBSET Entries, SubAll(L), "subs" \notin raced'
      PROVE  SubClient(L)' /\ SubClean(L)'
  <2>1. SubList(L) /\ SubClean(L)
    BY <1>7 DEF SubAll
  <2>2. A.call = "disconnect" => A.pc # "free"
    <3>1. ASSUME A.call = "disconnect", A.pc = "free"
          PROVE  FALSE
      <4>1. task'["app"] = A /\ task'["mqtt"] = r
        BY <1>5 DEF A, M
      <4>2. "subs" \in Overlap'
        BY <1>2, <3>1, <4>1 DEF Overlap, Touches
      <4> QED
        BY <1>5, <1>7, <4>2
    <3> QED
      BY <3>1
  <2>3. \A k \in Subscribers(t) : k \in L /\ heap[k].what \in {t}
    <3> SUFFICES ASSUME NEW k \in Subscribers(t)
                 PROVE  k \in L
      BY DEF Subscribers
    <3>1. LiveSub(k) /\ k # A.new
      BY DEF Subscribers, LiveSub, A
    <3> QED
      BY <1>1, <2>1, <2>2, <3>1 DEF SubClean, LiveSub
  <2>4. (n \in L /\ n # 0 /\ \A k \in L : n <= k) \/ (n = 0 /\ L = {})
    BY <1>0, <2>1, SubEntries DEF SubList
  <2>5. SubClient(L)'
    BY <1>2, <1>4, <1>5, <2>3, <2>4 DEF SubClient
  <2>6. SubClean(L)'
    BY <1>1, <1>2, <1>4, <1>5, <2>1, SameHeap DEF SubClean, Unsubscribing
  <2> QED
    BY <2>5, <2>6
<1>8. /\ r.at <= Len(heap) /\ r.new <= Len(heap) /\ SubPtr(r.at)
      /\ mqtt_connected' \in BOOLEAN /\ client' \in {"none", "offline", "online"}
  BY <1>0, <1>2, <1>4, TaskIs DEF KindSub, Sound, Typed
<1> QED
  BY <1>1, <1>2, <1>3, <1>4, <1>6, <1>7, <1>8, ClientSubMove DEF Sound, histories

LEMMA MessageMatchStep ==
    ASSUME IInv, MessageMatch
    PROVE  IInv'
<1>0. Typed /\ Control /\ KindSub
  BY DEF IInv, Subscriptions
<1>1. M.pc = "match"
  BY DEF MessageMatch, At, M
<1>2. M.call = "DATA"
  BY <1>0, <1>1, ClientCallIs
<1> PICK n \in Nat : n = M.at
  BY <1>0, TaskIs
<1> PICK todo : todo = IF heap[n].what \in M.arg THEN M.todo \ {n} ELSE M.todo
  OBVIOUS
<1> PICK r : r = [M EXCEPT !.pc = "move", !.todo = todo]
  OBVIOUS
<1>3. /\ r \in Locals /\ r.call = M.call /\ r.arg = M.arg /\ r.at = n /\ r.new = M.new
      /\ r.pc = "move" /\ r.todo = todo
  BY <1>0, TaskIs DEF Locals, Pcs
<1>4. Becomes("mqtt", r) /\ UNCHANGED <<heap, list>> /\ Sound
  BY DEF MessageMatch, M
<1>5. M' = r /\ A' = A
  BY <1>0, <1>3, <1>4, ClientMoves
<1>6. Control'
  BY <1>0, <1>2, <1>3, <1>5 DEF Control, ClientPcs, Events
<1>7. ASSUME NEW L \in SUBSET Entries, SubAll(L)
      PROVE  SubClient(L)' /\ SubClean(L)'
  <2>1. SubClient(L) /\ SubClean(L)
    BY <1>7 DEF SubAll
  <2>2. n \in L /\ \A k \in M.todo : k \in L /\ heap[k].what \in M.arg /\ n <= k /\ k \in Nat
    <3>1. \A k \in L : k \in Nat
      BY <1>0, TaskIs
    <3> QED
      BY <1>1, <1>2, <2>1, <3>1 DEF SubClient
  <2>3. \A k \in todo : k \in M.todo /\ n < k
    <3> SUFFICES ASSUME NEW k \in todo
                 PROVE  k \in M.todo /\ n < k
      OBVIOUS
    <3>1. k \in M.todo /\ k \in Nat /\ n <= k /\ heap[k].what \in M.arg
      BY <2>2
    <3>2. k # n
      BY <3>1
    <3> QED
      BY <3>1, <3>2
  <2>4. SubClient(L)'
    BY <1>2, <1>3, <1>4, <1>5, <2>2, <2>3 DEF SubClient
  <2>5. SubClean(L)'
    BY <1>2, <1>3, <1>4, <1>5, <2>1, SameHeap DEF SubClean, Unsubscribing
  <2> QED
    BY <2>4, <2>5
<1>8. /\ r.at <= Len(heap) /\ r.new <= Len(heap) /\ SubPtr(r.at) /\ r.call # "CONNECTED"
      /\ mqtt_connected' \in BOOLEAN /\ client' \in {"none", "offline", "online"}
  BY <1>0, <1>2, <1>3, <1>4, TaskIs DEF KindSub, ClientOnSubs, Sound, Typed
<1> QED
  BY <1>2, <1>3, <1>4, <1>6, <1>7, <1>8, ClientSubMove DEF Sound, histories

LEMMA MessageNextStep ==
    ASSUME IInv, MessageNext
    PROVE  IInv'
<1>0. Typed /\ Control /\ KindSub /\ HeapTyped
  BY DEF IInv, Subscriptions, Typed
<1>1. M.pc = "move"
  BY DEF MessageNext, At, M
<1>2. M.call = "DATA" /\ ClientOnSubs
  BY <1>0, <1>1, ClientCallIs DEF ClientOnSubs
<1>3. LiveSub(M.at) /\ M.at \in Entries
  BY <1>0, <1>2 DEF KindSub, SubPtr, InUse, Null, FreedAt, LiveSub, MessageNext, M
<1> PICK k \in Nat : k = heap[M.at].next
  BY <1>0, <1>3, CellIs
<1>4. SubPtr(k) /\ k <= Len(heap)
  BY <1>0, <1>3 DEF KindSub, HeapTyped
<1> PICK r : r = [M EXCEPT !.at = k, !.pc = IF k = Null THEN "done" ELSE "match"]
  OBVIOUS
<1>5. /\ r \in Locals /\ r.call = M.call /\ r.arg = M.arg /\ r.at = k /\ r.new = M.new
      /\ r.pc = (IF k = 0 THEN "done" ELSE "match") /\ r.todo = M.todo
  BY <1>0, TaskIs DEF Locals, Pcs, Null
<1>6. Becomes("mqtt", r) /\ UNCHANGED <<heap, list>> /\ Sound
  BY DEF MessageNext, M
<1>7. M' = r /\ A' = A
  BY <1>0, <1>5, <1>6, ClientMoves
<1>8. Control'
  BY <1>0, <1>2, <1>5, <1>7 DEF Control, ClientPcs, Events
<1>9. ASSUME NEW L \in SUBSET Entries, SubAll(L)
      PROVE  SubClient(L)' /\ SubClean(L)'
  <2>1. SubList(L) /\ SubClient(L) /\ SubClean(L)
    BY <1>9 DEF SubAll
  <2>2. /\ M.at \in L
        /\ \A n \in M.todo : n \in L /\ heap[n].what \in M.arg /\ M.at < n
    BY <1>1, <1>2, <2>1 DEF SubClient
  <2>3. \/ k \in L /\ \A f \in L : M.at < f => k <= f
        \/ k = 0 /\ \A f \in L : f <= M.at
    BY <2>1, <2>2 DEF SubList
  <2>4. \A f \in L : f \in Nat /\ f # 0
    BY <1>0, <2>1, SubEntries
  <2>5. k = 0 => M.todo = {}
    <3>1. ASSUME k = 0, NEW n \in M.todo
          PROVE  FALSE
      <4>1. n \in Nat /\ M.at \in Nat /\ M.at < n /\ n <= M.at
        BY <2>2, <2>3, <2>4, <3>1
      <4> QED
        BY <4>1
    <3> QED
      BY <3>1
  <2>6. SubClient(L)'
    BY <1>2, <1>5, <1>6, <1>7, <2>2, <2>3, <2>5 DEF SubClient
  <2>7. SubClean(L)'
    BY <1>2, <1>5, <1>6, <1>7, <2>1, SameHeap DEF SubClean, Unsubscribing
  <2> QED
    BY <2>6, <2>7
<1>10. /\ r.at <= Len(heap) /\ r.new <= Len(heap) /\ SubPtr(r.at) /\ r.call # "CONNECTED"
       /\ mqtt_connected' \in BOOLEAN /\ client' \in {"none", "offline", "online"}
  BY <1>0, <1>2, <1>4, <1>5, <1>6, TaskIs DEF Sound, Typed
<1> QED
  BY <1>2, <1>5, <1>6, <1>8, <1>9, <1>10, ClientSubMove DEF Sound, histories

LEMMA MessageDoneStep ==
    ASSUME IInv, MessageDone
    PROVE  IInv'
<1>0. Typed /\ Control
  BY DEF IInv
<1>1. M.call = "DATA" /\ M.pc = "done"
  BY <1>0, ClientCallIs DEF MessageDone, At, M
<1>2. Becomes("mqtt", Idle) /\ UNCHANGED <<heap, list>> /\ Sound
  BY DEF MessageDone
<1>3. M' = Idle /\ A' = A
  BY <1>0, <1>2, IdleTyped, ClientMoves
<1>4. Control'
  BY <1>0, <1>3, IdleTyped DEF Control
<1>5. ASSUME NEW L \in SUBSET Entries, SubAll(L)
      PROVE  SubClient(L)' /\ SubClean(L)'
  BY <1>1, <1>2, <1>3, <1>5, SameHeap, IdleTyped DEF SubAll, SubClient, SubClean, Unsubscribing
<1>6. /\ Idle.at <= Len(heap) /\ Idle.new <= Len(heap) /\ SubPtr(Idle.at)
      /\ mqtt_connected' \in BOOLEAN /\ client' \in {"none", "offline", "online"}
  BY <1>0, <1>2, TaskIs, IdleTyped DEF SubPtr, Sound, Typed
<1> QED
  BY <1>1, <1>2, <1>4, <1>5, <1>6, IdleTyped, ClientSubMove DEF Sound, histories

LEMMA MessageStep ==
    ASSUME IInv, Message
    PROVE  IInv'
<1>1. ASSUME NEW pc \in {"match", "move"}, Corrupts("mqtt", pc, task["mqtt"].at)
      PROVE  IInv'
  <2>1. M.pc = pc /\ ~InUse(M.at)
    BY <1>1 DEF Corrupts, At, M
  <2>2. "subs" \in raced
    BY <2>1, ClientSubsUsed
  <2>3. M.call = "DATA"
    BY <2>1, ClientCallIs DEF IInv
  <2>4. ListOfTask("mqtt") = "subs" /\ "mqtt" \in Tasks
    BY <2>3, ClientOnList DEF IInv
  <2> QED
    BY <1>1, <2>2, <2>4, CorruptsRaced
<1> QED
  BY <1>1, MessageMatchStep, MessageNextStep, MessageDoneStep DEF Message

----------------------------------------------------------------------------
(* The list of publications                                                *)
LEMMA ToSetAppend ==
    ASSUME NEW S, NEW s \in Seq(S), NEW x \in S
    PROVE  Append(s, x) \in Seq(S) /\ ToSet(Append(s, x)) = ToSet(s) \cup {x}
<1>1. /\ Append(s, x) \in Seq(S) /\ DOMAIN Append(s, x) = 1 .. Len(s) + 1
      /\ \A i \in 1 .. Len(s) : Append(s, x)[i] = s[i]
      /\ Append(s, x)[Len(s) + 1] = x /\ DOMAIN s = 1 .. Len(s) /\ Len(s) \in Nat
  OBVIOUS
<1>2. ToSet(Append(s, x)) \subseteq ToSet(s) \cup {x}
  BY <1>1 DEF ToSet
<1>3. ToSet(s) \subseteq ToSet(Append(s, x))
  BY <1>1 DEF ToSet
<1>4. x \in ToSet(Append(s, x))
  BY <1>1 DEF ToSet
<1> QED
  BY <1>1, <1>2, <1>3, <1>4

(* What a step on the publications may do to the heap.                     *)
PubsOnly ==
    /\ HeapTyped' /\ Len(heap) <= Len(heap')
    /\ \A n \in Entries : \/ heap'[n] = heap[n]
                          \/ Live(n) /\ (heap'[n].used => heap'[n].what \in Messages)
    /\ \A n \in Entries' : n \in Entries \/ heap'[n].what \in Messages

LEMMA AppPubStep ==
    ASSUME IInv, NEW r \in Locals, Becomes("app", r), PubsOnly,
           UNCHANGED <<mqtt_connected, client, ub>>,
           accepted' \in Seq(Messages), sent' \in Seq(Messages), queued' \subseteq Messages,
           refused' \subseteq Messages,
           list' \in [Lists -> Nat], list'["subs"] = list["subs"],
           list'["pubs"] <= Len(heap'), r.at <= Len(heap'), r.new <= Len(heap'),
           Control', ~OnSubs, r.call \in {"none", "publish"}, Publications'
    PROVE  IInv'
<1>1. Typed /\ Control /\ FlagInv /\ HeapTyped
  BY DEF IInv, Typed
<1>2. HeapTyped' /\ Len(heap) <= Len(heap') /\ Len(heap) \in Nat /\ Len(heap') \in Nat
  BY <1>1 DEF PubsOnly, HeapTyped
<1>3. Typed' /\ A' = r /\ M' = M /\ raced \subseteq raced' /\ UbInv'
  <2>1. \A l \in Lists : list'[l] <= Len(heap')
    <3>1. list'["subs"] <= Len(heap')
      BY <1>1, <1>2, TaskIs
    <3> QED
      BY <3>1 DEF Lists
  <2>2. mqtt_connected' \in BOOLEAN /\ client' \in {"none", "offline", "online"} /\ UbInv
    BY <1>1 DEF Typed, IInv
  <2> QED
    BY <1>1, <1>2, <2>1, <2>2, AppTyped
<1>4. ~OnSubs' /\ A.call # "disconnect"
  BY <1>3 DEF OnSubs
<1>5. FlagInv'
  BY <1>1, <1>3, <1>4, FlagFrame
<1>6. SubSame
  BY <1>1, <1>2, <1>3, <1>4, OnlyPubs DEF PubsOnly
<1> QED
  BY <1>3, <1>5, <1>6, PubsKeep

LEMMA ClientPubStep ==
    ASSUME IInv, NEW r \in Locals, Becomes("mqtt", r), PubsOnly, UNCHANGED ub,
           mqtt_connected' \in BOOLEAN, client' \in {"none", "offline", "online"},
           accepted' \in Seq(Messages), sent' \in Seq(Messages), queued' \subseteq Messages,
           refused' \subseteq Messages,
           list' \in [Lists -> Nat], list'["subs"] = list["subs"],
           list'["pubs"] <= Len(heap'), r.at <= Len(heap'), r.new <= Len(heap'),
           Control', FlagInv', ~ClientOnSubs, r.call \in {"none", "CONNECTED"}, Publications'
    PROVE  IInv'
<1>1. Typed /\ Control /\ HeapTyped
  BY DEF IInv, Typed
<1>2. HeapTyped' /\ Len(heap) <= Len(heap') /\ Len(heap) \in Nat /\ Len(heap') \in Nat
  BY <1>1 DEF PubsOnly, HeapTyped
<1>3. Typed' /\ M' = r /\ A' = A /\ raced \subseteq raced' /\ UbInv'
  <2>1. \A l \in Lists : list'[l] <= Len(heap')
    <3>1. list'["subs"] <= Len(heap')
      BY <1>1, <1>2, TaskIs
    <3> QED
      BY <3>1 DEF Lists
  <2>2. UbInv
    BY DEF IInv
  <2> QED
    BY <1>1, <1>2, <2>1, <2>2, ClientTyped
<1>4. ~ClientOnSubs'
  BY <1>3 DEF ClientOnSubs
<1>5. SubSame
  BY <1>1, <1>2, <1>3, <1>4, OnlyPubs DEF PubsOnly
<1> QED
  BY <1>3, <1>5, PubsKeep

LEMMA SamePubs ==
    ASSUME Typed, UNCHANGED heap
    PROVE  PubsOnly
BY SameHeap, TaskIs DEF PubsOnly, Typed

LEMMA PubsAlone ==
    ASSUME Typed, Control, "pubs" \notin raced
    PROVE  ~(Pending /\ Flushing)
<1> SUFFICES ASSUME Pending, Flushing
             PROVE  "pubs" \in Overlap
  BY DEF Typed
<1>1. Touches("app")
  BY DEF Pending, Touches, A
<1>2. M.pc # "idle" /\ M.pc \in ClientPcs("CONNECTED")
  BY IdleTyped DEF Flushing, Control
<1>3. Touches("mqtt")
  BY <1>2 DEF Touches, M, ClientPcs, Frees
<1> QED
  BY <1>1, <1>3 DEF Overlap, Pending, Flushing, A, M

(* A queued publication stays where it is, or has been published.          *)
LEMMA QueuedKept ==
    ASSUME QueuedUntilOffered, UNCHANGED <<ub, queued>>, raced \subseteq raced',
           ToSet(sent) \subseteq ToSet(sent'), refused \subseteq refused',
           A' = A \/ A.pc # "add",
           \A n \in Entries : heap[n].used /\ raced' \cap {"pubs", "flag"} = {} =>
              \/ n \in Entries' /\ heap'[n].used /\ heap'[n].what = heap[n].what
              \/ heap[n].what \in ToSet(sent') \cup refused' \/ heap[n].what \notin Messages,
           queued \subseteq Messages
    PROVE  QueuedUntilOffered'
<1> SUFFICES ASSUME ub' = "none", raced' \cap {"pubs", "flag"} = {}, NEW m \in queued
             PROVE  \/ m \in ToSet(sent') \cup refused'
                    \/ \E n \in Entries' : heap'[n].used /\ heap'[n].what = m
                    \/ A'.pc = "add" /\ A'.arg = {m}
  BY DEF QueuedUntilOffered, Waiting, A
<1>1. \/ m \in ToSet(sent) \cup refused
      \/ \E n \in Entries : heap[n].used /\ heap[n].what = m
      \/ A.pc = "add" /\ A.arg = {m}
  BY DEF QueuedUntilOffered, Waiting, A
<1> QED
  BY <1>1

LEMMA KindPubSame ==
    ASSUME KindPub, UNCHANGED heap, PubPtr(list["pubs"])',
           A'.call = "publish" => PubPtr(A.new)',
           Flushing' => PubPtr(M.at)' /\ PubPtr(M.new)'
    PROVE  KindPub'
BY SameHeap DEF KindPub

(* Nothing is written, and what is published is on no list.                *)
LEMMA PubMove ==
    ASSUME UNCHANGED <<heap, list>>, M' = M, raced \subseteq raced', ~Adding, ~Adding',
           ToSet(sent) \subseteq ToSet(sent'), refused \subseteq refused',
           \A n : Live(n) /\ Fresh(n) => Fresh(n)',
           NEW L \in SUBSET Entries, NEW d \in 0 .. Len(heap), PubAll(L, d)
    PROVE  PubAll(L, d)'
<1>1. PubList(L, d) /\ PubFlush(L, d) /\ PubClean(L, d) /\ PubTried(L)
  BY DEF PubAll
<1>2. Start' = Start /\ (Flushing' <=> Flushing)
  BY DEF Start, Flushing
<1>3. PubList(L, d)'
  BY <1>1, <1>2, SameHeap DEF PubList
<1>4. \A S : StaleIn(S) => StaleIn(S)'
  BY SameHeap DEF StaleIn
<1>5. \A e \in L : Live(e)
  BY <1>1 DEF PubList
<1>6. \A n : FreshBefore(L, n) => FreshBefore(L, n)'
  BY <1>5 DEF FreshBefore
<1>7. PubFlush(L, d)'
  BY <1>1, <1>2, <1>4, <1>5, <1>6, SameHeap DEF PubFlush
<1>8. PubApp(L)'
  BY DEF PubApp
<1>9. PubClean(L, d)'
  BY <1>1, <1>2, SameHeap DEF PubClean
<1>10. PubTried(L)'
  BY <1>1, <1>2 DEF PubTried, Tried
<1> QED
  BY <1>3, <1>7, <1>8, <1>9, <1>10 DEF PubAll

----------------------------------------------------------------------------
(* mqtt_publish                                                            *)
LEMMA PublishStep ==
    ASSUME IInv, NEW m \in Messages, Publish(m)
    PROVE  IInv'
<1>0. Typed /\ Control /\ FlagInv /\ Publications
  BY DEF IInv
<1>1. A = Idle /\ A.call = "none" /\ A.pc = "idle" /\ ~OnSubs
  BY <1>0, AppIdle DEF Publish, AppFree, At, A
<1> PICK r : r = [Idle EXCEPT !.call = "publish",
                              !.pc = IF mqtt_connected THEN "client_publish" ELSE "add",
                              !.arg = {m}]
  OBVIOUS
<1>2. /\ r \in Locals /\ r.call = "publish" /\ r.arg = {m} /\ r.at = 0 /\ r.new = 0
      /\ r.pc = (IF mqtt_connected THEN "client_publish" ELSE "add")
  BY IdleTyped DEF Locals, Calls, Pcs, AppCalls
<1>3. /\ Becomes("app", r) /\ UNCHANGED <<heap, list, mqtt_connected, client, sent, refused, ub>>
      /\ m \notin ToSet(accepted) /\ accepted' = Append(accepted, m)
      /\ queued' = IF mqtt_connected THEN queued ELSE queued \cup {m}
  BY DEF Publish, Begin
<1>4. A' = r /\ M' = M /\ raced \subseteq raced'
  BY <1>0, <1>2, <1>3, AppMoves
<1>5. Control'
  BY <1>0, <1>2, <1>4 DEF Control, AppPcs, AppCalls, Unsubscribes
<1>6. accepted' \in Seq(Messages) /\ ToSet(accepted') = ToSet(accepted) \cup {m}
  BY <1>0, <1>3, ToSetAppend DEF Typed
<1>7. KindPub'
  BY <1>0, <1>2, <1>3, <1>4, SameHeap, KindPubSame DEF Publications, KindPub, PubPtr, Flushing
<1>8. OnceInv'
  <2>1. OnceInv
    BY <1>0 DEF Publications
  <2>2. m \notin ToSet(sent) /\ \A n \in Entries : Live(n) => heap[n].what # m
    BY <1>3, <2>1 DEF OnceInv
  <2> QED
    BY <1>2, <1>3, <1>4, <1>6, <2>1, <2>2, SameHeap DEF OnceInv
<1>9. PubPending'
  BY <1>0, <1>1, <1>2, <1>3, <1>4 DEF PubPending, Pending, FlagInv, Flushing
<1>10. PubInv'
  <2>1. PICK L \in SUBSET Entries, d \in 0 .. Len(heap) : PubAll(L, d)
    BY <1>0 DEF Publications, PubInv
  <2>2. ~Adding /\ ~Adding'
    BY <1>1, <1>2, <1>4 DEF Adding
  <2>3. \A n : Live(n) /\ Fresh(n) => Fresh(n)'
    BY <1>3, SameHeap DEF Fresh
  <2>4. PubAll(L, d)'
    BY <1>3, <1>4, <2>1, <2>2, <2>3, PubMove
  <2>5. L \in SUBSET Entries' /\ d \in 0 .. Len(heap')
    BY <1>3, SameHeap
  <2> QED
    BY <2>4, <2>5, Zenon DEF PubInv
<1>11. QueuedUntilOffered'
  <2> SUFFICES ASSUME ub' = "none", raced' \cap {"pubs", "flag"} = {}, NEW q \in queued'
               PROVE  \/ q \in ToSet(sent') \cup refused'
                      \/ \E n \in Entries' : heap'[n].used /\ heap'[n].what = q
                      \/ A'.pc = "add" /\ A'.arg = {q}
    BY DEF QueuedUntilOffered, Waiting, A
  <2>1. CASE q \in queued
    <3>1. \/ q \in ToSet(sent) \cup refused
          \/ \E n \in Entries : heap[n].used /\ heap[n].what = q
      BY <1>0, <1>1, <1>3, <1>4, <2>1 DEF Publications, QueuedUntilOffered, Waiting, A
    <3> QED
      BY <1>3, <3>1, SameHeap
  <2>2. CASE q \notin queued
    BY <1>2, <1>3, <1>4, <2>2
  <2> QED
    BY <2>1, <2>2
<1>12. Publications'
  BY <1>7, <1>8, <1>9, <1>10, <1>11 DEF Publications
<1>13. /\ r.at <= Len(heap') /\ r.new <= Len(heap') /\ list'["pubs"] <= Len(heap')
       /\ list' \in [Lists -> Nat] /\ list'["subs"] = list["subs"]
       /\ sent' \in Seq(Messages) /\ queued' \subseteq Messages /\ refused' \subseteq Messages
  BY <1>0, <1>2, <1>3, TaskIs DEF Typed
<1> QED
  BY <1>0, <1>1, <1>2, <1>3, <1>5, <1>6, <1>12, <1>13, SamePubs, AppPubStep

LEMMA ClientPublishStep ==
    ASSUME IInv, NEW m \in Messages, ClientPublish(m)
    PROVE  IInv'
<1>0. Typed /\ Control /\ Publications
  BY DEF IInv
<1>1. A.pc = "client_publish" /\ A.arg = {m}
  BY DEF ClientPublish, At, A
<1>2. A.call = "publish" /\ ~OnSubs
  BY <1>0, <1>1, AppCallIs DEF OnSubs
<1>3. /\ Becomes("app", Idle)
      /\ UNCHANGED <<heap, list, mqtt_connected, client, accepted, queued, ub>>
      /\ sent' = Append(sent, m) \/ sent' = sent
      /\ refused \subseteq refused' /\ refused' \subseteq Messages
  BY <1>0 DEF ClientPublish, ClientSends, Typed
<1>4. A' = Idle /\ M' = M /\ raced \subseteq raced'
  BY <1>0, <1>3, IdleTyped, AppMoves
<1>5. Control'
  BY <1>0, <1>4, IdleTyped DEF Control
<1>6. /\ sent' \in Seq(Messages) /\ ToSet(sent) \subseteq ToSet(sent')
      /\ ToSet(sent') \subseteq ToSet(sent) \cup {m}
  <2>1. sent \in Seq(Messages)
    BY <1>0 DEF Typed
  <2>2. CASE sent' = Append(sent, m)
    BY <2>1, <2>2, ToSetAppend
  <2>3. CASE sent' = sent
    BY <2>1, <2>3
  <2> QED
    BY <1>3, <2>2, <2>3
<1>7. /\ OnceInv /\ m \in ToSet(accepted) /\ m \notin ToSet(sent)
      /\ \A n \in Entries : Live(n) => heap[n].what # m
  BY <1>0, <1>1, <1>2 DEF Publications, OnceInv
<1>8. KindPub'
  BY <1>0, <1>3, <1>4, SameHeap, KindPubSame, IdleTyped
     DEF Publications, KindPub, PubPtr, Flushing
<1>9. OnceInv'
  BY <1>3, <1>4, <1>6, <1>7, SameHeap, IdleTyped DEF OnceInv
<1>10. PubPending'
  BY <1>4, IdleTyped DEF PubPending, Pending
<1>11. PubInv'
  <2>1. PICK L \in SUBSET Entries, d \in 0 .. Len(heap) : PubAll(L, d)
    BY <1>0 DEF Publications, PubInv
  <2>2. ~Adding /\ ~Adding'
    BY <1>1, <1>4, IdleTyped DEF Adding
  <2>3. \A n : Live(n) /\ Fresh(n) => Fresh(n)'
    BY <1>3, <1>6, <1>7, SameHeap DEF Fresh, Live
  <2>4. PubAll(L, d)'
    BY <1>3, <1>4, <1>6, <2>1, <2>2, <2>3, PubMove
  <2>5. L \in SUBSET Entries' /\ d \in 0 .. Len(heap')
    BY <1>3, SameHeap
  <2> QED
    BY <2>4, <2>5, Zenon DEF PubInv
<1>12. QueuedUntilOffered'
  <2>1. \A n \in Entries : n \in Entries' /\ heap'[n] = heap[n]
    BY <1>3, SameHeap
  <2>2. QueuedUntilOffered /\ queued \subseteq Messages
    BY <1>0 DEF Publications, Typed
  <2> QED
    BY <1>1, <1>3, <1>4, <1>6, <2>1, <2>2, QueuedKept
<1>13. Publications'
  BY <1>8, <1>9, <1>10, <1>11, <1>12 DEF Publications
<1>14. /\ Idle.at <= Len(heap') /\ Idle.new <= Len(heap') /\ list'["pubs"] <= Len(heap')
       /\ list' \in [Lists -> Nat] /\ list'["subs"] = list["subs"]
       /\ accepted' \in Seq(Messages) /\ queued' \subseteq Messages
       /\ refused' \subseteq Messages
  BY <1>0, <1>3, TaskIs, IdleTyped DEF Typed
<1> QED
  BY <1>0, <1>2, <1>3, <1>5, <1>6, <1>13, <1>14, IdleTyped, SamePubs, AppPubStep

(* mqtt_publication_add: the list with an entry more in the heap, and with *)
(* it on the list.                                                         *)
LEMMA PubEntries ==
    ASSUME Typed, NEW L, NEW d, PubList(L, d)
    PROVE  \A e \in L : Live(e) /\ e \in Nat /\ e # 0 /\ e \in Entries
<1>1. \A e \in L : Live(e) /\ e \in Entries
  BY DEF PubList, Live
<1> QED
  BY <1>1, TaskIs

LEMMA PubListSame ==
    ASSUME NEW L, NEW d, PubList(L, d), \A e \in L : e \in Entries' /\ heap'[e] = heap[e],
           Start' = Start,
           d = 0 \/ FreedAt(d)' \/ (Flushing' /\ M'.pc = "free" /\ d = M'.at)
    PROVE  PubList(L, d)'
BY DEF PubList, Live

LEMMA PubListPush ==
    ASSUME Typed, NEW L, NEW d, PubList(L, d), NEW y \in Nat, Live(y)',
           \A e \in L : e < y /\ e \in Entries' /\ heap'[e] = heap[e],
           heap'[y].next = Start, Start' = y,
           d = 0 \/ FreedAt(d)' \/ (Flushing' /\ M'.pc = "free" /\ d = M'.at)
    PROVE  PubList(L \cup {y}, d)'
<1> PICK K : K = L \cup {y}
  OBVIOUS
<1>1. \A e \in L : Live(e) /\ e \in Nat /\ e # 0
  BY PubEntries
<1>2. \A e \in K : Live(e)'
  BY <1>1 DEF Live
<1>3. y \in K /\ \A f \in K : f <= y
  BY <1>1
<1>4. ASSUME NEW e \in K
      PROVE  \/ /\ heap'[e].next \in K /\ heap'[e].next < e
                /\ \A f \in K : f < e => f <= heap'[e].next
             \/ heap'[e].next = d /\ \A f \in K : e <= f
  <2>1. CASE e = y
    <3>1. CASE Start \in L /\ \A f \in L : f <= Start
      <4>1. heap'[e].next = Start /\ Start \in K /\ Start < e
        BY <2>1, <3>1
      <4>2. \A f \in K : f < e => f \in L
        BY <2>1
      <4> QED
        BY <3>1, <4>1, <4>2
    <3>2. CASE Start = d /\ L = {}
      BY <2>1, <3>2
    <3> QED
      BY <3>1, <3>2 DEF PubList
  <2>2. CASE e \in L
    <3>0. heap'[e] = heap[e] /\ e < y /\ e \in Nat
      BY <1>1, <2>2
    <3>1. CASE /\ heap[e].next \in L /\ heap[e].next < e
               /\ \A f \in L : f < e => f <= heap[e].next
      <4>1. \A f \in K : f < e => f <= heap[e].next
        BY <3>0, <3>1
      <4> QED
        BY <3>0, <3>1, <4>1
    <3>2. CASE heap[e].next = d /\ \A f \in L : e <= f
      <4>1. \A f \in K : e <= f
        BY <3>0, <3>2
      <4> QED
        BY <3>0, <3>2, <4>1
    <3> QED
      BY <2>2, <3>1, <3>2 DEF PubList
  <2> QED
    BY <2>1, <2>2
<1>5. PubList(K, d)'
  BY <1>2, <1>3, <1>4 DEF PubList
<1> QED
  BY <1>5

LEMMA FreshAppend ==
    ASSUME NEW a \in Nat, NEW m \in Messages, Entries' = Entries \cup {a}, a \notin Entries,
           \A n \in Entries : heap'[n] = heap[n],
           heap'[a].used, heap'[a].what = m, UNCHANGED <<sent, refused>>
    PROVE  /\ \A n : Live(n)' <=> Live(n) \/ n = a
           /\ \A n : FreedAt(n) => FreedAt(n)'
           /\ \A n : Live(n) => heap'[n] = heap[n]
           /\ \A n : Live(n) /\ Fresh(n) /\ heap[n].what # m => Fresh(n)'
           /\ \A n : Live(n) => (Tried(n)' <=> Tried(n))
           /\ (m \notin ToSet(sent) /\ \A n \in Entries : Live(n) => heap[n].what # m)
                => Fresh(a)'
<1>1. \A n : Live(n)' <=> Live(n) \/ n = a
  BY DEF Live
<1>2. \A n : FreedAt(n) => FreedAt(n)'
  BY DEF FreedAt
<1>3. \A n : Live(n) => heap'[n] = heap[n]
  BY DEF Live
<1>4. \A n : Live(n) /\ Fresh(n) /\ heap[n].what # m => Fresh(n)'
  BY <1>1, <1>3 DEF Fresh, Live
<1>5. \A n : Live(n) => (Tried(n)' <=> Tried(n))
  BY <1>3 DEF Tried
<1>6. (m \notin ToSet(sent) /\ \A n \in Entries : Live(n) => heap[n].what # m) => Fresh(a)'
  BY <1>1, <1>3 DEF Fresh, Live
<1> QED
  BY <1>1, <1>2, <1>3, <1>4, <1>5, <1>6

LEMMA AppAdd ==
    ASSUME IInv, NEW m \in Messages, A.arg = {m}, At("app", "add"), CanAllocate,
           heap' = Append(heap, Entry(m, list["pubs"])),
           Becomes("app", [A EXCEPT !.pc = "add_link", !.new = Allocated]),
           UNCHANGED list, Sound
    PROVE  IInv'
<1>0. Typed /\ Control /\ Publications /\ HeapTyped
  BY DEF IInv, Typed
<1>1. A.pc = "add"
  BY DEF At, A
<1>2. A.call = "publish" /\ ~OnSubs
  BY <1>0, <1>1, AppCallIs DEF OnSubs
<1> PICK y \in Nat : y = Allocated
  BY <1>0 DEF Allocated, HeapTyped
<1>3. /\ HeapTyped' /\ Len(heap') = Len(heap) + 1 /\ Entries' = Entries \cup {y}
      /\ y \notin Entries /\ Len(heap) \in Nat /\ y = Len(heap) + 1
      /\ \A n \in Entries : heap'[n] = heap[n] /\ n < y
      /\ heap'[y].used /\ heap'[y].next = list["pubs"] /\ heap'[y].what = m
  <2>1. m \in Topics \cup Messages /\ list["pubs"] \in 0 .. Len(heap)
    BY <1>0, TaskIs
  <2> QED
    BY <1>0, <2>1, HeapAppend DEF Allocated
<1> PICK r : r = [A EXCEPT !.pc = "add_link", !.new = y]
  OBVIOUS
<1>4. /\ r \in Locals /\ r.call = "publish" /\ r.arg = A.arg /\ r.at = A.at /\ r.new = y
      /\ r.pc = "add_link"
  BY <1>0, <1>2, TaskIs DEF Locals, Pcs
<1>5. /\ Becomes("app", r)
      /\ UNCHANGED <<list, mqtt_connected, client, accepted, sent, queued, ub, refused>>
  BY DEF Sound, histories
<1>6. A' = r /\ M' = M /\ raced \subseteq raced'
  BY <1>0, <1>4, <1>5, AppMoves
<1>7. Control'
  BY <1>0, <1>2, <1>4, <1>6 DEF Control, AppPcs, AppCalls, Unsubscribes
<1>8. /\ \A n : Live(n)' <=> Live(n) \/ n = y
      /\ \A n : FreedAt(n) => FreedAt(n)'
      /\ \A n : Live(n) => heap'[n] = heap[n]
      /\ \A n : Live(n) /\ Fresh(n) /\ heap[n].what # m => Fresh(n)'
      /\ \A n : Live(n) => (Tried(n)' <=> Tried(n))
      /\ (m \notin ToSet(sent) /\ \A n \in Entries : Live(n) => heap[n].what # m) => Fresh(y)'
  BY <1>3, <1>5, FreshAppend
<1>9. /\ OnceInv /\ m \in ToSet(accepted) /\ m \notin ToSet(sent)
      /\ \A n \in Entries : Live(n) => heap[n].what # m
  BY <1>0, <1>1, <1>2 DEF Publications, OnceInv
<1>10. Fresh(y)' /\ Live(y)' /\ \A n : Live(n) /\ Fresh(n) => Fresh(n)'
  BY <1>8, <1>9 DEF Live
<1>11. \A n : PubPtr(n) => PubPtr(n)'
  BY <1>8 DEF PubPtr
<1>12. KindPub'
  <2>1. KindPub
    BY <1>0 DEF Publications
  <2>2. \A n \in Entries' : Live(n)' => PubPtr(heap[n].next)'
    <3> SUFFICES ASSUME NEW n \in Entries', Live(n)'
                 PROVE  PubPtr(heap[n].next)'
      OBVIOUS
    <3>1. CASE n = y
      BY <1>3, <1>11, <2>1, <3>1 DEF KindPub
    <3>2. CASE n # y
      <4>1. Live(n) /\ n \in Entries /\ heap'[n] = heap[n]
        BY <1>3, <1>8, <3>2
      <4> QED
        BY <1>11, <2>1, <4>1 DEF KindPub
    <3> QED
      BY <3>1, <3>2
  <2>3. PubPtr(A.new)'
    BY <1>4, <1>6, <1>10 DEF PubPtr
  <2> QED
    BY <1>5, <1>6, <1>11, <2>1, <2>2, <2>3 DEF KindPub, Flushing
<1>13. OnceInv'
  <2>1. \A n \in Entries' : Live(n)' => heap'[n].what \in ToSet(accepted)
    BY <1>3, <1>8, <1>9, ZenonT(40) DEF OnceInv, Live
  <2> QED
    BY <1>4, <1>5, <1>6, <1>9, <2>1 DEF OnceInv
<1>14. PubPending /\ Pending
  BY <1>0, <1>1, <1>2 DEF Publications, Pending
<1>15. PubPending'
  BY <1>5, <1>6, <1>14 DEF PubPending, Pending, Flushing
<1>16. PubInv'
  <2>1. PICK L \in SUBSET Entries, d \in 0 .. Len(heap) : PubAll(L, d)
    BY <1>0 DEF Publications, PubInv
  <2>2. PubList(L, d) /\ PubFlush(L, d) /\ PubClean(L, d) /\ PubTried(L)
    BY <2>1 DEF PubAll
  <2>3. \A e \in L : Live(e) /\ e \in Nat /\ e # 0 /\ e \in Entries
    BY <1>0, <2>2, PubEntries
  <2>4. Start' = Start /\ (Flushing' <=> Flushing) /\ ~Adding /\ Adding'
    BY <1>1, <1>4, <1>5, <1>6 DEF Start, Flushing, Adding
  <2>5. PubList(L, d)'
    <3>1. d = 0 \/ FreedAt(d)' \/ (Flushing' /\ M'.pc = "free" /\ d = M'.at)
      BY <1>6, <1>8, <2>2, <2>4 DEF PubList
    <3>2. \A e \in L : e \in Entries' /\ heap'[e] = heap[e]
      BY <1>3, <2>3
    <3> QED
      BY <2>2, <2>4, <3>1, <3>2, PubListSame
  <2>6. PubFlush(L, d)'
    <3>1. \A S : StaleIn(S) => StaleIn(S)'
      BY <1>8, <1>10 DEF StaleIn, Live
    <3>2. \A n : FreshBefore(L, n) => FreshBefore(L, n)'
      BY <1>10, <2>3 DEF FreshBefore
    <3> QED
      BY <1>5, <1>6, <1>8, <1>10, <2>2, <2>3, <2>4, <3>1, <3>2 DEF PubFlush
  <2>7. PubApp(L)'
    <3>1. \A e \in L : e < y /\ e # y
      BY <1>3, <2>3
    <3>2. M.at # y
      BY <1>0, <1>3, TaskIs
    <3>3. heap'[y].next = list'["pubs"]
      BY <1>3
    <3> QED
      BY <1>4, <1>6, <1>10, <3>1, <3>2, <3>3 DEF PubApp
  <2>8. PubClean(L, d)'
    <3> SUFFICES ASSUME "pubs" \notin raced'
                 PROVE  PubClean(L, d)'
      BY DEF PubClean
    <3>1. ~Flushing /\ "pubs" \notin raced
      BY <1>0, <1>6, <1>14, PubsAlone
    <3>2. \A n \in Entries' : Live(n)' => n \in L \/ n = y
      BY <1>8, <2>2, <2>4, <3>1 DEF PubClean, Live
    <3> QED
      BY <1>3, <1>4, <1>5, <1>6, <2>2, <2>4, <3>1, <3>2 DEF PubClean
  <2>9. PubTried(L)'
    <3>1. "pubs" \notin raced' => ~Flushing
      BY <1>0, <1>6, <1>14, PubsAlone
    <3> QED
      BY <2>4, <3>1 DEF PubTried
  <2>10. L \in SUBSET Entries' /\ d \in 0 .. Len(heap')
    BY <1>3
  <2>11. PubAll(L, d)'
    BY <2>5, <2>6, <2>7, <2>8, <2>9 DEF PubAll
  <2> QED
    BY <2>10, <2>11, Zenon DEF PubInv
<1>17. QueuedUntilOffered'
  <2> SUFFICES ASSUME ub' = "none", raced' \cap {"pubs", "flag"} = {}, NEW q \in queued'
               PROVE  \/ q \in ToSet(sent') \cup refused'
                      \/ \E n \in Entries' : heap'[n].used /\ heap'[n].what = q
    BY DEF QueuedUntilOffered, Waiting, A
  <2>1. \/ q \in ToSet(sent) \cup refused
        \/ \E n \in Entries : heap[n].used /\ heap[n].what = q
        \/ A.arg = {q}
    BY <1>0, <1>5, <1>6 DEF Publications, QueuedUntilOffered, Waiting, A
  <2>2. CASE A.arg = {q}
    BY <1>3, <2>2
  <2> QED
    BY <1>3, <1>5, <2>1, <2>2
<1>18. Publications'
  BY <1>12, <1>13, <1>15, <1>16, <1>17 DEF Publications
<1>19. PubsOnly
  <2>1. Len(heap) <= Len(heap')
    BY <1>3
  <2>2. \A n \in Entries' : n \in Entries \/ heap'[n].what \in Messages
    BY <1>3
  <2> QED
    BY <1>3, <2>1, <2>2 DEF PubsOnly
<1>20. /\ r.at <= Len(heap') /\ r.new <= Len(heap') /\ list'["pubs"] <= Len(heap')
       /\ list' \in [Lists -> Nat] /\ list'["subs"] = list["subs"]
       /\ accepted' \in Seq(Messages) /\ sent' \in Seq(Messages) /\ queued' \subseteq Messages
       /\ refused' \subseteq Messages
  <2>1. A.at <= Len(heap') /\ list["pubs"] <= Len(heap')
    BY <1>0, <1>3, TaskIs
  <2>2. y <= Len(heap')
    BY <1>3
  <2> QED
    BY <1>0, <1>4, <1>5, <2>1, <2>2 DEF Typed
<1> QED
  BY <1>2, <1>4, <1>5, <1>7, <1>18, <1>19, <1>20, AppPubStep

LEMMA AppLink ==
    ASSUME IInv, At("app", "add_link"), list' = [list EXCEPT !["pubs"] = A.new],
           Becomes("app", Idle), UNCHANGED heap, Sound
    PROVE  IInv'
<1>0. Typed /\ Control /\ FlagInv /\ Publications
  BY DEF IInv
<1>1. A.pc = "add_link"
  BY DEF At, A
<1>2. A.call = "publish" /\ ~OnSubs /\ Adding /\ Pending
  BY <1>0, <1>1, AppCallIs DEF OnSubs, Adding, Pending
<1> PICK y \in Nat : y = A.new
  BY <1>0, TaskIs
<1>3. /\ UNCHANGED <<mqtt_connected, client, accepted, sent, queued, ub, refused>>
      /\ list' \in [Lists -> Nat] /\ list'["pubs"] = y /\ list'["subs"] = list["subs"]
  BY <1>0 DEF Sound, histories, Typed, Lists
<1>4. A' = Idle /\ M' = M /\ raced \subseteq raced'
  BY <1>0, IdleTyped, AppMoves
<1>5. Control'
  BY <1>0, <1>4, IdleTyped DEF Control
<1>6. /\ \A n : (Live(n)' <=> Live(n)) /\ (FreedAt(n)' <=> FreedAt(n)) /\ (PubPtr(n)' <=> PubPtr(n))
      /\ Entries' = Entries
  BY SameHeap
<1>7. (Flushing' <=> Flushing) /\ ~Adding' /\ ~Pending'
  BY <1>4, IdleTyped DEF Flushing, Adding, Pending
<1>8. \A n : (Fresh(n)' <=> Fresh(n)) /\ (Tried(n)' <=> Tried(n))
  BY <1>3, <1>6 DEF Fresh, Tried
<1>9. KindPub'
  BY <1>0, <1>2, <1>3, <1>4, <1>6, IdleTyped, KindPubSame DEF Publications, KindPub, Flushing
<1>10. OnceInv' /\ PubPending'
  BY <1>0, <1>3, <1>4, <1>6, <1>7, IdleTyped DEF Publications, OnceInv, PubPending
<1>11. PubInv'
  <2>1. PICK L \in SUBSET Entries, d \in 0 .. Len(heap) : PubAll(L, d)
    BY <1>0 DEF Publications, PubInv
  <2>2. PubList(L, d) /\ PubFlush(L, d) /\ PubApp(L) /\ PubClean(L, d) /\ PubTried(L)
    BY <2>1 DEF PubAll
  <2>3. \A e \in L : Live(e) /\ e \in Nat /\ e # 0 /\ e \in Entries
    BY <1>0, <2>2, PubEntries
  <2>4. /\ Live(y) /\ y \notin L /\ Fresh(y) /\ y # 0 /\ y \in Entries
        /\ \A e \in L : e < y
        /\ Flushing /\ M.pc = "free" => M.at # y
    BY <1>0, <1>2, <2>2, TaskIs DEF PubApp, Live
  <2>5. Flushing => M.pc \notin {"add", "add_link"}
    BY <1>0, <1>2 DEF FlagInv, Flushing
  <2>6. "pubs" \notin raced' => ~Flushing /\ "pubs" \notin raced
    BY <1>0, <1>2, <1>4, PubsAlone
  <2>7. \A S : StaleIn(S)' <=> StaleIn(S)
    BY <1>6, <1>8 DEF StaleIn
  <2>8. \A S : PubApp(S)'
    BY <1>7 DEF PubApp
  <2>9. \A S : PubTried(S)'
    BY <1>7, <2>6 DEF PubTried
  <2>10. CASE Flushing /\ M.pc = "advance"
    <3>1. PubList(L, d)'
      <4>1. Start' = Start
        BY <1>4, <1>7, <2>10 DEF Start
      <4>2. d = 0 \/ FreedAt(d)' \/ (Flushing' /\ M'.pc = "free" /\ d = M'.at)
        BY <1>4, <1>6, <1>7, <2>2 DEF PubList
      <4>3. \A e \in L : e \in Entries' /\ heap'[e] = heap[e]
        BY <1>6, <2>3
      <4> QED
        BY <2>2, <4>1, <4>2, <4>3, PubListSame
    <3>2. PubFlush(L, d)'
      BY <1>4, <1>7, <2>2, <2>7, <2>10 DEF PubFlush
    <3>3. PubClean(L, d)'
      BY <2>6, <2>10 DEF PubClean
    <3>4. PubAll(L, d)' /\ L \in SUBSET Entries' /\ d \in 0 .. Len(heap')
      BY <1>6, <2>8, <2>9, <3>1, <3>2, <3>3 DEF PubAll
    <3> QED
      BY <3>4, Zenon DEF PubInv
  <2>11. CASE ~(Flushing /\ M.pc = "advance") /\ heap[y].next = list["pubs"]
    <3> PICK K \in SUBSET Entries : K = L \cup {y}
      BY <2>4
    <3>0. Start = list["pubs"] /\ Start' = y
      BY <1>3, <1>4, <1>7, <2>11 DEF Start
    <3>1. PubList(K, d)'
      <4>1. d = 0 \/ FreedAt(d)' \/ (Flushing' /\ M'.pc = "free" /\ d = M'.at)
        BY <1>4, <1>6, <1>7, <2>2 DEF PubList
      <4>2. \A e \in L : e < y /\ e \in Entries' /\ heap'[e] = heap[e]
        BY <1>6, <2>3, <2>4
      <4>3. heap'[y].next = Start /\ Live(y)'
        BY <1>6, <2>4, <2>11, <3>0
      <4> QED
        BY <1>0, <2>2, <3>0, <4>1, <4>2, <4>3, PubListPush
    <3>2. PubFlush(K, d)'
      <4>1. \A S : StaleIn(S) => StaleIn(S \cup {y})
        BY DEF StaleIn
      <4>2. \A n : FreshBefore(L, n) => FreshBefore(K, n)'
        BY <1>8, <2>4 DEF FreshBefore
      <4>3. ~Flushing \/ M.pc \in {"flush", "reset"} => StaleIn({})'
        BY <2>2, <2>7 DEF PubFlush
      <4> PICK at \in Nat : at = M.at
        BY <1>0, TaskIs
      <4>4. Flushing /\ M.pc = "publish" =>
               /\ at \in K \cup {d} /\ StaleIn(K)'
               /\ at \in K => FreshBefore(K, at)' /\ Fresh(at)'
        <5>1. Flushing /\ M.pc = "publish" => d # y
          BY <2>2, <2>4 DEF PubList, Live, FreedAt
        <5>2. Flushing /\ M.pc = "publish" => at # y /\ at \in L \cup {d} /\ StaleIn(L)
          BY <2>2, <2>4, <5>1 DEF PubFlush
        <5>3. Flushing /\ M.pc = "publish" /\ at \in L => FreshBefore(L, at) /\ Fresh(at)
          BY <2>2 DEF PubFlush
        <5> QED
          BY <1>8, <2>7, <4>1, <4>2, <5>2, <5>3
      <4>5. Flushing /\ M.pc = "next" => at \in K /\ StaleIn(K)' /\ FreshBefore(K, at)'
        <5>1. Flushing /\ M.pc = "next" => at \in L /\ StaleIn(L) /\ FreshBefore(L, at)
          BY <2>2 DEF PubFlush
        <5> QED
          BY <2>7, <4>1, <4>2, <5>1
      <4>6. Flushing /\ M.pc \in {"take", "advance"} => d # 0 \/ StaleIn(K)'
        BY <2>2, <2>7, <4>1 DEF PubFlush
      <4>7. Flushing /\ M.pc = "free" => at \notin K /\ (d # 0 \/ StaleIn(K \cup {at})')
        <5>1. StaleIn(L \cup {at}) => StaleIn(K \cup {at})
          BY DEF StaleIn
        <5>2. Flushing /\ M.pc = "free" => at \notin L /\ (d # 0 \/ StaleIn(L \cup {at}))
          BY <2>2 DEF PubFlush
        <5> QED
          BY <2>4, <2>7, <5>1, <5>2
      <4>8. M' = M /\ M'.at = at
        BY <1>4
      <4> QED
        BY <1>7, <2>5, <4>3, <4>4, <4>5, <4>6, <4>7, <4>8 DEF PubFlush
    <3>3. PubClean(K, d)'
      <4> SUFFICES ASSUME "pubs" \notin raced'
                   PROVE  PubClean(K, d)'
        BY DEF PubClean
      <4>1. d = 0 /\ \A n \in Entries : Live(n) => n \in K
        BY <2>2, <2>6 DEF PubClean
      <4> QED
        BY <1>3, <1>6, <1>7, <2>6, <3>0, <4>1 DEF PubClean
    <3>4. PubAll(K, d)' /\ K \in SUBSET Entries' /\ d \in 0 .. Len(heap')
      BY <1>6, <2>8, <2>9, <3>1, <3>2, <3>3 DEF PubAll
    <3> QED
      BY <3>4, Zenon DEF PubInv
  <2>12. CASE ~(Flushing /\ M.pc = "advance") /\ heap[y].next # list["pubs"]
    <3>1. \/ Flushing /\ M.pc = "free" /\ heap[y].next = M.at
          \/ FreedAt(heap[y].next) /\ (list["pubs"] = 0 \/ (Flushing /\ M.pc \in Frees))
      BY <1>2, <2>2, <2>12 DEF PubApp
    <3>2. heap[y].next \in Nat /\ heap[y].next # 0 /\ heap[y].next <= Len(heap)
      <4>1. HeapTyped /\ heap[y].next <= Len(heap)
        BY <1>0, <2>4 DEF Typed, HeapTyped
      <4>2. heap[y].next \in Nat
        BY <2>4, <4>1, CellIs
      <4>3. heap[y].next # 0
        BY <1>0, <3>1, TaskIs DEF FreedAt, Control
      <4> QED
        BY <4>1, <4>2, <4>3
    <3> PICK k \in Nat : k = heap[y].next
      BY <3>2
    <3> PICK K \in SUBSET Entries : K = {y}
      BY <2>4
    <3>3. Start = list["pubs"] /\ Start' = y
      BY <1>3, <1>4, <1>7, <2>12 DEF Start
    <3>4. PubList(K, k)'
      <4>1. FreedAt(k)' \/ (Flushing' /\ M'.pc = "free" /\ k = M'.at)
        BY <1>4, <1>6, <1>7, <3>1
      <4> QED
        BY <1>6, <2>4, <3>3, <4>1 DEF PubList
    <3>5. PubFlush(K, k)'
      <4>1. Flushing => M.pc \notin {"publish", "next"}
        <5>1. ASSUME Flushing, M.pc \in {"publish", "next"}
              PROVE  FALSE
          <6>1. list["pubs"] = 0 /\ M.at # 0
            BY <1>0, <3>1, <5>1 DEF Control, Frees
          <6>2. L = {} /\ d = 0
            BY <2>2, <2>3, <3>3, <6>1 DEF PubList
          <6> QED
            BY <2>2, <5>1, <6>1, <6>2 DEF PubFlush
        <5> QED
          BY <5>1
      <4>2. ~Flushing \/ M.pc \in {"flush", "reset"} => StaleIn({})'
        BY <2>2, <2>7 DEF PubFlush
      <4> QED
        BY <1>4, <1>7, <2>4, <2>5, <3>2, <4>1, <4>2 DEF PubFlush
    <3>6. PubClean(K, k)'
      BY <1>2, <2>2, <2>6, <2>12 DEF PubClean
    <3>7. k \in 0 .. Len(heap') /\ K \in SUBSET Entries'
      BY <1>0, <1>6, <3>2, TaskIs
    <3>8. PubAll(K, k)'
      BY <2>8, <2>9, <3>4, <3>5, <3>6 DEF PubAll
    <3> QED
      BY <3>7, <3>8, Zenon DEF PubInv
  <2> QED
    BY <2>10, <2>11, <2>12
<1>12. QueuedUntilOffered'
  BY <1>0, <1>1, <1>3, <1>4, <1>6, QueuedKept DEF Publications, Typed
<1>13. Publications'
  BY <1>9, <1>10, <1>11, <1>12 DEF Publications
<1>14. /\ Idle.at <= Len(heap') /\ Idle.new <= Len(heap') /\ list'["pubs"] <= Len(heap')
       /\ accepted' \in Seq(Messages) /\ sent' \in Seq(Messages) /\ queued' \subseteq Messages
       /\ refused' \subseteq Messages
  BY <1>0, <1>3, TaskIs, IdleTyped DEF Typed
<1> QED
  BY <1>0, <1>2, <1>3, <1>5, <1>13, <1>14, IdleTyped, SamePubs, AppPubStep

----------------------------------------------------------------------------
(* mqtt_publications_publish                                               *)
LEMMA SameFresh ==
    ASSUME UNCHANGED <<heap, sent, refused>>
    PROVE  /\ \A n : (Fresh(n)' <=> Fresh(n)) /\ (Tried(n)' <=> Tried(n))
           /\ \A S : StaleIn(S)' <=> StaleIn(S)
           /\ \A L, n : FreshBefore(L, n)' <=> FreshBefore(L, n)
<1>1. \A n : (Fresh(n)' <=> Fresh(n)) /\ (Tried(n)' <=> Tried(n))
  BY SameHeap DEF Fresh, Tried
<1>2. \A S : StaleIn(S)' <=> StaleIn(S)
  BY <1>1, SameHeap DEF StaleIn
<1>3. \A L, n : FreshBefore(L, n)' <=> FreshBefore(L, n)
  BY <1>1 DEF FreshBefore
<1> QED
  BY <1>1, <1>2, <1>3

LEMMA ListedPubs ==
    ASSUME Typed, Control, NEW L, NEW d, PubList(L, d)
    PROVE  /\ \A e \in L : Live(e) /\ e \in Nat /\ e # 0 /\ e \in Entries
           /\ Start = 0 => L = {} /\ d = 0
           /\ ~(Flushing /\ M.pc = "free") /\ InUse(d) => FALSE
<1>1. \A e \in L : Live(e) /\ e \in Nat /\ e # 0 /\ e \in Entries
  BY PubEntries
<1>2. Start = 0 => L = {} /\ d = 0
  BY <1>1 DEF PubList
<1>3. ~(Flushing /\ M.pc = "free") /\ InUse(d) => FALSE
  BY DEF PubList, InUse, Null, FreedAt
<1> QED
  BY <1>1, <1>2, <1>3

(* A step of the flush that writes nothing.                                *)
LEMMA FlushMove ==
    ASSUME IInv, NEW r \in Locals, Becomes("mqtt", r),
           UNCHANGED <<heap, list, accepted, sent, queued, ub, refused>>,
           mqtt_connected' \in BOOLEAN, client' \in {"none", "offline", "online"},
           M.call \in {"none", "CONNECTED"}, r.call = "CONNECTED",
           M.pc \notin {"advance", "free", "add_link"}, r.pc \notin {"free", "add_link"},
           Flushing /\ M.pc \in Frees => r.pc \in Frees,
           r.pc = "advance" => r.at = list["pubs"],
           r.pc = "reset" => list["pubs"] = 0,
           r.at <= Len(heap), r.new <= Len(heap), PubPtr(r.at), PubPtr(r.new),
           Control', FlagInv',
           \A L \in SUBSET Entries, d \in 0 .. Len(heap) :
              PubAll(L, d) => PubFlush(L, d)' /\ PubTried(L)'
    PROVE  IInv'
<1>0. Typed /\ Control /\ Publications
  BY DEF IInv
<1>1. M' = r /\ A' = A /\ raced \subseteq raced' /\ Flushing'
  BY <1>0, ClientMoves DEF Flushing
<1>2. KindPub'
  <2>1. PubPtr(list["pubs"])' /\ PubPtr(M.at)' /\ PubPtr(M.new)' /\ (A'.call = "publish" => PubPtr(A.new)')
    BY <1>0, <1>1, SameHeap DEF Publications, KindPub
  <2> QED
    BY <1>0, <2>1, KindPubSame DEF Publications
<1>3. OnceInv'
  BY <1>0, <1>1, SameHeap DEF Publications, OnceInv
<1>4. PubPending'
  BY <1>1 DEF PubPending
<1>5. PubInv'
  <2>1. PICK L \in SUBSET Entries, d \in 0 .. Len(heap) : PubAll(L, d)
    BY <1>0 DEF Publications, PubInv
  <2>2. PubList(L, d) /\ PubApp(L) /\ PubClean(L, d)
    BY <2>1 DEF PubAll
  <2>3. Start = list["pubs"] /\ Start' = list["pubs"]
    BY <1>1 DEF Start
  <2>4. PubList(L, d)'
    BY <2>2, <2>3, SameHeap DEF PubList
  <2>5. PubApp(L)'
    BY <1>1, <2>2, SameHeap, SameFresh DEF PubApp, Adding
  <2>6. PubClean(L, d)'
    <3>1. r.pc = "reset" => L = {}
      BY <1>0, <2>2, <2>3, ListedPubs
    <3> QED
      BY <1>1, <2>2, <2>3, <3>1, SameHeap DEF PubClean, Adding
  <2>7. PubFlush(L, d)' /\ PubTried(L)'
    BY <2>1
  <2>8. PubAll(L, d)' /\ L \in SUBSET Entries' /\ d \in 0 .. Len(heap')
    BY <2>4, <2>5, <2>6, <2>7, SameHeap DEF PubAll
  <2> QED
    BY <2>8, Zenon DEF PubInv
<1>6. QueuedUntilOffered'
  BY <1>0, <1>1, SameHeap, QueuedKept DEF Publications, Typed
<1>7. Publications'
  BY <1>2, <1>3, <1>4, <1>5, <1>6 DEF Publications
<1>8. /\ r.at <= Len(heap') /\ r.new <= Len(heap') /\ list'["pubs"] <= Len(heap')
      /\ list' \in [Lists -> Nat] /\ list'["subs"] = list["subs"]
      /\ accepted' \in Seq(Messages) /\ sent' \in Seq(Messages) /\ queued' \subseteq Messages
      /\ refused' \subseteq Messages
  BY <1>0, TaskIs DEF Typed
<1>9. ~ClientOnSubs
  BY DEF ClientOnSubs
<1> QED
  BY <1>0, <1>7, <1>8, <1>9, SamePubs, ClientPubStep

LEMMA MqttConnectedStep ==
    ASSUME IInv, MqttConnected
    PROVE  IInv'
<1>0. Typed /\ Control
  BY DEF IInv
<1>1. M = Idle /\ M.call = "none" /\ M.pc = "idle" /\ ~Flushing
  BY <1>0, ClientIdle DEF MqttConnected, At, M
<1> PICK r : r = [Idle EXCEPT !.call = "CONNECTED", !.pc = "flush"]
  OBVIOUS
<1>2. /\ r \in Locals /\ r.call = "CONNECTED" /\ r.pc = "flush" /\ r.arg = {} /\ r.at = 0
      /\ r.new = 0
  BY IdleTyped DEF Locals, Calls, Pcs, Events
<1>3. /\ Becomes("mqtt", r) /\ UNCHANGED <<heap, list, accepted, queued, sent, ub, refused>>
      /\ mqtt_connected' = TRUE /\ client' = "online"
  BY DEF MqttConnected, Handle, histories
<1>4. M' = r /\ A' = A
  BY <1>0, <1>2, <1>3, ClientMoves
<1>5. Control'
  BY <1>0, <1>2, <1>4 DEF Control, ClientPcs, Events
<1>6. FlagInv'
  BY <1>2, <1>3, <1>4 DEF FlagInv
<1>7. ASSUME NEW L \in SUBSET Entries, NEW d \in 0 .. Len(heap), PubAll(L, d)
      PROVE  PubFlush(L, d)' /\ PubTried(L)'
  <2>1. StaleIn({})'
    BY <1>1, <1>3, <1>7, SameFresh DEF PubAll, PubFlush
  <2> QED
    BY <1>2, <1>4, <2>1 DEF PubFlush, PubTried, Frees
<1>8. /\ r.at <= Len(heap) /\ r.new <= Len(heap) /\ PubPtr(r.at) /\ PubPtr(r.new)
      /\ client' \in {"none", "offline", "online"}
  BY <1>0, <1>2, <1>3, TaskIs DEF PubPtr
<1>9. mqtt_connected' \in BOOLEAN
  BY <1>3
<1> QED
  BY <1>1, <1>2, <1>3, <1>5, <1>6, <1>7, <1>8, <1>9, FlushMove

LEMMA FlushStartStep ==
    ASSUME IInv, FlushStart
    PROVE  IInv'
<1>0. Typed /\ Control /\ FlagInv /\ KindPub
  BY DEF IInv, Publications
<1>1. M.pc = "flush"
  BY DEF FlushStart, At, M
<1>2. M.call = "CONNECTED" /\ Flushing
  BY <1>0, <1>1, ClientCallIs DEF Flushing
<1> PICK n \in Nat : n = list["pubs"]
  BY <1>0, TaskIs
<1> PICK r : r = [M EXCEPT !.at = n, !.pc = IF n = Null THEN "take" ELSE "publish"]
  OBVIOUS
<1>3. /\ r \in Locals /\ r.call = M.call /\ r.arg = M.arg /\ r.at = n /\ r.new = M.new
      /\ r.pc = (IF n = 0 THEN "take" ELSE "publish")
  BY <1>0, TaskIs DEF Locals, Pcs, Frees, Null
<1>4. Becomes("mqtt", r) /\ UNCHANGED <<heap, list>> /\ Sound
  BY DEF FlushStart, M
<1>5. M' = r /\ A' = A /\ raced \subseteq raced' /\ Flushing'
  BY <1>0, <1>2, <1>3, <1>4, ClientMoves DEF Flushing
<1>6. Control'
  BY <1>0, <1>2, <1>3, <1>5 DEF Control, ClientPcs, Events, Frees
<1>7. FlagInv'
  BY <1>0, <1>2, <1>3, <1>4, <1>5 DEF FlagInv, Sound
<1>8. ASSUME NEW L \in SUBSET Entries, NEW d \in 0 .. Len(heap), PubAll(L, d)
      PROVE  PubFlush(L, d)' /\ PubTried(L)'
  <2>1. PubList(L, d) /\ StaleIn({}) /\ Start = n
    BY <1>1, <1>2, <1>8 DEF PubAll, PubFlush, Start
  <2>2. /\ \A e \in L : Live(e) /\ e \in Nat /\ Fresh(e)
        /\ n = 0 => L = {} /\ d = 0
    BY <1>0, <2>1, ListedPubs DEF StaleIn, Live
  <2>3. (n \in L /\ \A e \in L : e <= n) \/ (n = d /\ L = {})
    BY <2>1 DEF PubList
  <2>4. StaleIn(L)' /\ (\A k : FreshBefore(L, k)') /\ (\A e \in L : Fresh(e)')
    <3>1. StaleIn(L) /\ \A k : FreshBefore(L, k)
      BY <2>1, <2>2 DEF StaleIn, FreshBefore
    <3> QED
      BY <1>4, <2>2, <3>1, SameFresh DEF Sound, histories
  <2>5. PubFlush(L, d)'
    BY <1>3, <1>5, <2>3, <2>4 DEF PubFlush
  <2>6. PubTried(L)'
    <3>1. \A e \in L : ~(e > n)
      BY <2>2, <2>3
    <3> QED
      BY <1>3, <1>5, <2>2, <3>1 DEF PubTried, Frees
  <2> QED
    BY <2>5, <2>6
<1>9. /\ r.at <= Len(heap) /\ r.new <= Len(heap) /\ PubPtr(r.at) /\ PubPtr(r.new)
      /\ mqtt_connected' \in BOOLEAN /\ client' \in {"none", "offline", "online"}
      /\ r.pc \notin {"free", "add_link", "advance", "reset"} /\ M.pc \notin Frees
  BY <1>0, <1>1, <1>2, <1>3, <1>4, TaskIs DEF KindPub, Typed, Sound, Frees
<1> QED
  BY <1>1, <1>2, <1>3, <1>4, <1>6, <1>7, <1>8, <1>9, FlushMove DEF Sound, histories

(* The entry a flush is at: on the list, unless it has been freed.         *)
LEMMA FlushAt ==
    ASSUME IInv, Flushing, InUse(M.at)
    PROVE  /\ Live(M.at) /\ M.at \in Entries /\ M.at \in Nat
           /\ \A L, d : PubList(L, d) /\ PubFlush(L, d) /\ M.pc \in {"publish", "next"}
                            => M.at \in L
<1>0. Typed /\ Control
  BY DEF IInv
<1>1. Live(M.at) /\ M.at \in Entries
  BY DEF IInv, Publications, KindPub, PubPtr, InUse, Null, FreedAt, Live
<1>2. ASSUME NEW L, NEW d, PubList(L, d), PubFlush(L, d), M.pc \in {"publish", "next"}
      PROVE  M.at \in L
  <2>1. M.at # d
    BY <1>0, <1>2, ListedPubs
  <2> QED
    BY <1>2, <2>1 DEF PubFlush
<1> QED
  BY <1>0, <1>1, <1>2, TaskIs

LEMMA FlushNextStep ==
    ASSUME IInv, FlushNext
    PROVE  IInv'
<1>0. Typed /\ Control /\ FlagInv /\ KindPub /\ HeapTyped
  BY DEF IInv, Publications, Typed
<1>1. M.pc = "next" /\ InUse(M.at)
  BY DEF FlushNext, At, M
<1>2. M.call = "CONNECTED" /\ Flushing
  BY <1>0, <1>1, ClientCallIs DEF Flushing
<1>3. Live(M.at) /\ M.at \in Entries /\ M.at \in Nat
  BY <1>1, <1>2, FlushAt
<1> PICK k \in Nat : k = heap[M.at].next
  BY <1>0, <1>3, CellIs
<1>4. PubPtr(k) /\ k <= Len(heap)
  BY <1>0, <1>3 DEF KindPub, HeapTyped
<1> PICK r : r = [M EXCEPT !.at = k, !.pc = IF k = Null THEN "take" ELSE "publish"]
  OBVIOUS
<1>5. /\ r \in Locals /\ r.call = M.call /\ r.arg = M.arg /\ r.at = k /\ r.new = M.new
      /\ r.pc = (IF k = 0 THEN "take" ELSE "publish")
  BY <1>0, TaskIs DEF Locals, Pcs, Frees, Null
<1>6. Becomes("mqtt", r) /\ UNCHANGED <<heap, list>> /\ Sound
  BY DEF FlushNext, M
<1>7. M' = r /\ A' = A /\ raced \subseteq raced' /\ Flushing'
  BY <1>0, <1>2, <1>5, <1>6, ClientMoves DEF Flushing
<1>8. Control'
  BY <1>0, <1>2, <1>5, <1>7 DEF Control, ClientPcs, Events, Frees
<1>9. FlagInv'
  BY <1>0, <1>2, <1>5, <1>6, <1>7 DEF FlagInv, Sound
<1>10. ASSUME NEW L \in SUBSET Entries, NEW d \in 0 .. Len(heap), PubAll(L, d)
       PROVE  PubFlush(L, d)' /\ PubTried(L)'
  <2>1. PubList(L, d) /\ PubFlush(L, d) /\ PubClean(L, d) /\ PubTried(L)
    BY <1>10 DEF PubAll
  <2>2. \A e \in L : Live(e) /\ e \in Nat /\ e # 0
    BY <1>0, <2>1, ListedPubs
  <2>3. M.at \in L /\ StaleIn(L) /\ FreshBefore(L, M.at)
    BY <1>1, <1>2, <2>1 DEF PubFlush
  <2>4. \/ k \in L /\ k < M.at /\ \A f \in L : f < M.at => f <= k
        \/ k = d /\ \A f \in L : M.at <= f
    BY <2>1, <2>3 DEF PubList
  <2>5. PubFlush(L, d)'
    <3>1. StaleIn(L)'
      BY <1>6, <2>3, SameFresh DEF Sound, histories
    <3>2. k \in L => FreshBefore(L, k)' /\ Fresh(k)'
      <4>1. ASSUME k \in L
            PROVE  FreshBefore(L, k) /\ Fresh(k)
        <5>1. k < M.at
          <6>1. Live(k) /\ ~Live(d)
            BY <1>1, <2>1, <2>2, <4>1, TaskIs, <1>0 DEF PubList, Live, FreedAt
          <6> QED
            BY <2>4, <6>1
        <5>2. \A e \in L : e < k => e < M.at
          BY <1>3, <2>2, <5>1
        <5> QED
          BY <2>3, <4>1, <5>1, <5>2 DEF FreshBefore
      <4> QED
        BY <1>6, <4>1, SameFresh DEF Sound, histories
    <3> QED
      BY <1>5, <1>7, <2>4, <3>1, <3>2 DEF PubFlush
  <2>6. PubTried(L)'
    <3> SUFFICES ASSUME "pubs" \notin raced', "flag" \notin raced'
                 PROVE  PubTried(L)'
      BY DEF PubTried
    <3>1. d = 0 /\ \A e \in L : e >= M.at => Tried(e)
      BY <1>1, <1>2, <1>7, <2>1 DEF PubClean, PubTried
    <3>2. \A e \in L : e > k => e >= M.at
      <4> SUFFICES ASSUME NEW e \in L, e > k
                   PROVE  e >= M.at
        OBVIOUS
      <4>1. e \in Nat
        BY <2>2
      <4>2. CASE \A f \in L : f < M.at => f <= k
        BY <1>3, <4>1, <4>2
      <4>3. CASE \A f \in L : M.at <= f
        BY <1>3, <4>1, <4>3
      <4> QED
        BY <2>4, <4>2, <4>3
    <3>3. \A e \in L : e > k => Tried(e)'
      BY <1>6, <3>1, <3>2, SameFresh DEF Sound, histories
    <3>4. k = 0 => \A e \in L : Tried(e)'
      BY <2>2, <3>3
    <3> QED
      BY <1>5, <1>7, <3>3, <3>4 DEF PubTried, Frees
  <2> QED
    BY <2>5, <2>6
<1>11. /\ r.at <= Len(heap) /\ r.new <= Len(heap) /\ PubPtr(r.at) /\ PubPtr(r.new)
       /\ mqtt_connected' \in BOOLEAN /\ client' \in {"none", "offline", "online"}
       /\ r.pc \notin {"free", "add_link", "advance", "reset"} /\ M.pc \notin Frees
  BY <1>0, <1>1, <1>2, <1>4, <1>5, <1>6, TaskIs DEF KindPub, Typed, Sound, Frees
<1> QED
  BY <1>1, <1>2, <1>5, <1>6, <1>8, <1>9, <1>10, <1>11, FlushMove DEF Sound, histories

(* mqtt_publish for an entry: with the flag down, it is put back.          *)
LEMMA FlushBack ==
    ASSUME IInv, At("mqtt", "publish"), InUse(M.at), ~mqtt_connected,
           Becomes("mqtt", [M EXCEPT !.pc = "add", !.arg = {heap[M.at].what}]),
           UNCHANGED <<heap, list, mqtt_connected, client, accepted, queued, sent, ub, refused>>
    PROVE  IInv'
<1>0. Typed /\ Control /\ FlagInv /\ KindPub
  BY DEF IInv, Publications
<1>1. M.pc = "publish"
  BY DEF At, M
<1>2. M.call = "CONNECTED" /\ Flushing
  BY <1>0, <1>1, ClientCallIs DEF Flushing
<1>3. Live(M.at) /\ M.at \in Nat /\ heap[M.at].what \in Messages
  BY <1>2, FlushAt DEF Live
<1> PICK m \in Messages : m = heap[M.at].what
  BY <1>3
<1> PICK at \in Nat : at = M.at
  BY <1>3
<1> PICK r : r = [M EXCEPT !.pc = "add", !.arg = {m}]
  OBVIOUS
<1>4. /\ r \in Locals /\ r.call = M.call /\ r.arg = {m} /\ r.at = at /\ r.new = M.new
      /\ r.pc = "add" /\ Becomes("mqtt", r)
  BY <1>0, TaskIs DEF Locals, Pcs
<1>5. M' = r /\ A' = A /\ raced \subseteq raced' /\ Flushing'
  BY <1>0, <1>2, <1>4, ClientMoves DEF Flushing
<1>6. Control'
  BY <1>0, <1>1, <1>2, <1>4, <1>5 DEF Control, ClientPcs, Events, Frees
<1>7. FlagInv'
  BY <1>0, <1>2, <1>5 DEF FlagInv
<1>8. ASSUME NEW L \in SUBSET Entries, NEW d \in 0 .. Len(heap), PubAll(L, d)
      PROVE  PubFlush(L, d)' /\ PubTried(L)'
  <2>1. PubList(L, d) /\ PubFlush(L, d)
    BY <1>8 DEF PubAll
  <2>2. at \in L
    BY <1>1, <1>2, <2>1, FlushAt
  <2>3. StaleIn(L) /\ FreshBefore(L, at) /\ Fresh(at)
    BY <1>1, <1>2, <2>1, <2>2 DEF PubFlush
  <2>4. StaleIn(L)' /\ FreshBefore(L, at)' /\ Fresh(at)'
    BY <2>3, SameFresh
  <2>5. PubFlush(L, d)'
    BY <1>4, <1>5, <2>2, <2>4 DEF PubFlush
  <2>6. PubTried(L)'
    BY <1>4, <1>5 DEF PubTried, Frees
  <2> QED
    BY <2>5, <2>6
<1>9. /\ r.at <= Len(heap) /\ r.new <= Len(heap) /\ PubPtr(r.at) /\ PubPtr(r.new)
      /\ mqtt_connected' \in BOOLEAN /\ client' \in {"none", "offline", "online"}
      /\ M.pc \notin Frees
  BY <1>0, <1>1, <1>2, <1>4, TaskIs DEF KindPub, Typed, Frees
<1> QED
  BY <1>1, <1>2, <1>4, <1>6, <1>7, <1>8, <1>9, FlushMove

(* With the flag up, it is handed to the client, which may fail.           *)
LEMMA FlushOut ==
    ASSUME IInv, At("mqtt", "publish"), InUse(M.at), ClientSends(heap[M.at].what),
           GoesTo("mqtt", "next"),
           UNCHANGED <<heap, list, mqtt_connected, client, accepted, queued, ub>>
    PROVE  IInv'
<1>0. Typed /\ Control /\ FlagInv /\ Publications
  BY DEF IInv
<1>1. M.pc = "publish"
  BY DEF At, M
<1>2. M.call = "CONNECTED" /\ Flushing /\ ~ClientOnSubs
  BY <1>0, <1>1, ClientCallIs DEF Flushing, ClientOnSubs
<1>3. Live(M.at) /\ M.at \in Nat /\ M.at \in Entries /\ heap[M.at].what \in Messages
  BY <1>2, FlushAt DEF Live
<1> PICK m \in Messages : m = heap[M.at].what
  BY <1>3
<1> PICK at \in Nat : at = M.at
  BY <1>3
<1> PICK r : r = [M EXCEPT !.pc = "next"]
  OBVIOUS
<1>4. /\ r \in Locals /\ r.call = M.call /\ r.arg = M.arg /\ r.at = at /\ r.new = M.new
      /\ r.pc = "next" /\ Becomes("mqtt", r)
  BY <1>0, TaskIs DEF Locals, Pcs, GoesTo, M
<1>5. M' = r /\ A' = A /\ raced \subseteq raced' /\ Flushing'
  BY <1>0, <1>2, <1>4, ClientMoves DEF Flushing
<1>6. Control'
  BY <1>0, <1>1, <1>2, <1>4, <1>5 DEF Control, ClientPcs, Events, Frees
<1>7. FlagInv'
  BY <1>0, <1>2, <1>4, <1>5 DEF FlagInv
<1>8. /\ sent' \in Seq(Messages) /\ refused' \subseteq Messages
      /\ ToSet(sent) \subseteq ToSet(sent') /\ refused \subseteq refused'
      /\ ToSet(sent') \subseteq ToSet(sent) \cup {m} /\ m \in ToSet(sent') \cup refused'
  <2>1. sent \in Seq(Messages) /\ refused \subseteq Messages
    BY <1>0 DEF Typed
  <2>2. CASE sent' = Append(sent, m) /\ refused' = refused
    BY <2>1, <2>2, ToSetAppend
  <2>3. CASE refused' = refused \cup {m} /\ sent' = sent
    BY <2>1, <2>3
  <2> QED
    BY <2>2, <2>3 DEF ClientSends
<1>9. PICK L \in SUBSET Entries, d \in 0 .. Len(heap) : PubAll(L, d)
  BY <1>0 DEF Publications, PubInv
<1>10. PubList(L, d) /\ PubFlush(L, d) /\ PubApp(L) /\ PubClean(L, d) /\ PubTried(L)
  BY <1>9 DEF PubAll
<1>11. \A e \in L : Live(e) /\ e \in Nat /\ e # 0
  BY <1>0, <1>10, ListedPubs
<1>12. at \in L /\ StaleIn(L) /\ FreshBefore(L, at) /\ Fresh(at)
  <2>1. at \in L
    BY <1>1, <1>2, <1>10, FlushAt
  <2> QED
    BY <1>1, <1>2, <1>10, <2>1 DEF PubFlush
<1>13. /\ \A n : (Live(n)' <=> Live(n)) /\ (FreedAt(n)' <=> FreedAt(n)) /\ (PubPtr(n)' <=> PubPtr(n))
       /\ Entries' = Entries
  BY SameHeap
<1>14. \A n : Live(n) /\ Fresh(n) /\ n # at => Fresh(n)'
  <2> SUFFICES ASSUME NEW n, Live(n), Fresh(n), n # at
               PROVE  Fresh(n)'
    OBVIOUS
  <2>1. heap[n].what # m
    BY <1>3, <1>12 DEF Fresh, Live
  <2> QED
    BY <1>8, <1>13, <2>1 DEF Fresh
<1>15. \A n : Tried(n) => Tried(n)'
  BY <1>8 DEF Tried
<1>16. KindPub'
  <2>1. KindPub
    BY <1>0 DEF Publications
  <2>2. PubPtr(list["pubs"])' /\ PubPtr(M.at)' /\ PubPtr(M.new)' /\ (A'.call = "publish" => PubPtr(A.new)')
    BY <1>2, <1>4, <1>5, <1>13, <2>1 DEF KindPub
  <2> QED
    BY <2>1, <2>2, KindPubSame
<1>17. OnceInv'
  <2>1. OnceInv /\ m \in ToSet(accepted)
    BY <1>0, <1>3 DEF Publications, OnceInv
  <2> QED
    BY <1>3, <1>5, <1>8, <1>13, <2>1 DEF OnceInv
<1>18. PubPending'
  BY <1>4, <1>5 DEF PubPending
<1>19. Start = list["pubs"] /\ Start' = list["pubs"] /\ (Adding' <=> Adding)
  BY <1>1, <1>4, <1>5 DEF Start, Adding
<1>20. PubList(L, d)'
  BY <1>1, <1>10, <1>13, <1>19 DEF PubList
<1>21. PubFlush(L, d)'
  <2>1. StaleIn(L)'
    BY <1>12, <1>13, <1>14 DEF StaleIn
  <2>2. FreshBefore(L, at)'
    <3> SUFFICES ASSUME NEW e \in L, e < at
                 PROVE  Fresh(e)'
      BY DEF FreshBefore
    <3>1. e # at /\ Live(e) /\ Fresh(e)
      BY <1>11, <1>12 DEF FreshBefore
    <3> QED
      BY <1>14, <3>1
  <2> QED
    BY <1>4, <1>5, <1>12, <2>1, <2>2 DEF PubFlush
<1>22. PubApp(L)'
  <2>1. Adding => Live(A.new) /\ Fresh(A.new) /\ A.new # at
    BY <1>10, <1>12 DEF PubApp
  <2>2. Adding => Fresh(A.new)'
    BY <1>5, <1>14, <2>1
  <2> QED
    BY <1>1, <1>4, <1>5, <1>10, <1>13, <1>19, <2>2 DEF PubApp, Frees
<1>23. PubClean(L, d)'
  BY <1>1, <1>4, <1>5, <1>10, <1>13, <1>19 DEF PubClean
<1>24. PubTried(L)'
  <2> SUFFICES ASSUME "pubs" \notin raced', "flag" \notin raced'
               PROVE  \A e \in L : e >= at => Tried(e)'
    BY <1>4, <1>5 DEF PubTried, Frees
  <2>1. \A e \in L : e > at => Tried(e)
    BY <1>1, <1>2, <1>5, <1>10 DEF PubTried
  <2>2. Tried(at)'
    BY <1>8 DEF Tried
  <2>3. \A e \in L : e >= at => e > at \/ e = at
    BY <1>11
  <2> QED
    BY <1>15, <2>1, <2>2, <2>3
<1>25. PubInv'
  <2>1. PubAll(L, d)' /\ L \in SUBSET Entries' /\ d \in 0 .. Len(heap')
    BY <1>13, <1>20, <1>21, <1>22, <1>23, <1>24 DEF PubAll
  <2> QED
    BY <2>1, Zenon DEF PubInv
<1>26. QueuedUntilOffered'
  BY <1>0, <1>5, <1>8, <1>13, QueuedKept DEF Publications, Typed
<1>27. Publications'
  BY <1>16, <1>17, <1>18, <1>25, <1>26 DEF Publications
<1>28. /\ r.at <= Len(heap') /\ r.new <= Len(heap') /\ list'["pubs"] <= Len(heap')
       /\ list' \in [Lists -> Nat] /\ list'["subs"] = list["subs"]
       /\ accepted' \in Seq(Messages) /\ queued' \subseteq Messages
       /\ mqtt_connected' \in BOOLEAN /\ client' \in {"none", "offline", "online"}
  BY <1>0, <1>4, TaskIs DEF Typed
<1> QED
  BY <1>0, <1>2, <1>4, <1>6, <1>7, <1>8, <1>27, <1>28, SamePubs, ClientPubStep

LEMMA FlushPublishStep ==
    ASSUME IInv, FlushPublish
    PROVE  IInv'
BY FlushOut, FlushBack DEF FlushPublish, M

LEMMA MqttAdd ==
    ASSUME IInv, NEW m \in Messages, M.arg = {m}, At("mqtt", "add"), CanAllocate,
           heap' = Append(heap, Entry(m, list["pubs"])),
           Becomes("mqtt", [M EXCEPT !.pc = "add_link", !.new = Allocated]),
           UNCHANGED list, Sound
    PROVE  IInv'
<1>0. Typed /\ Control /\ FlagInv /\ Publications /\ HeapTyped
  BY DEF IInv, Typed
<1>1. M.pc = "add"
  BY DEF At, M
<1>2. M.call = "CONNECTED" /\ Flushing /\ ~ClientOnSubs
  BY <1>0, <1>1, ClientCallIs DEF Flushing, ClientOnSubs
<1>3. A.call = "disconnect" /\ "flag" \in raced /\ ~mqtt_connected
  BY <1>0, <1>1, <1>2 DEF FlagInv
<1> PICK y \in Nat : y = Allocated
  BY <1>0 DEF Allocated, HeapTyped
<1>4. /\ HeapTyped' /\ Len(heap') = Len(heap) + 1 /\ Entries' = Entries \cup {y}
      /\ y \notin Entries /\ Len(heap) \in Nat /\ y = Len(heap) + 1
      /\ \A n \in Entries : heap'[n] = heap[n] /\ n < y
      /\ heap'[y].used /\ heap'[y].next = list["pubs"] /\ heap'[y].what = m
  <2>1. m \in Topics \cup Messages /\ list["pubs"] \in 0 .. Len(heap)
    BY <1>0, TaskIs
  <2> QED
    BY <1>0, <2>1, HeapAppend DEF Allocated
<1> PICK at \in Nat : at = M.at
  BY <1>0, TaskIs
<1> PICK r : r = [M EXCEPT !.pc = "add_link", !.new = y]
  OBVIOUS
<1>5. /\ r \in Locals /\ r.call = M.call /\ r.arg = M.arg /\ r.at = at /\ r.new = y
      /\ r.pc = "add_link"
  BY <1>0, TaskIs DEF Locals, Pcs
<1>6. /\ Becomes("mqtt", r)
      /\ UNCHANGED <<list, mqtt_connected, client, accepted, sent, queued, ub, refused>>
  BY DEF Sound, histories
<1>7. M' = r /\ A' = A /\ raced \subseteq raced' /\ Flushing'
  BY <1>0, <1>2, <1>5, <1>6, ClientMoves DEF Flushing
<1>8. Control'
  BY <1>0, <1>1, <1>2, <1>5, <1>7 DEF Control, ClientPcs, Events, Frees
<1>9. FlagInv'
  BY <1>0, <1>2, <1>3, <1>6, <1>7 DEF FlagInv
<1>10. /\ \A n : Live(n)' <=> Live(n) \/ n = y
       /\ \A n : FreedAt(n) => FreedAt(n)'
       /\ \A n : Live(n) => heap'[n] = heap[n]
       /\ \A n : Live(n) /\ Fresh(n) /\ heap[n].what # m => Fresh(n)'
  BY <1>4, <1>6, FreshAppend
<1>11. \A n : PubPtr(n) => PubPtr(n)'
  BY <1>10 DEF PubPtr
<1>12. PICK L \in SUBSET Entries, d \in 0 .. Len(heap) : PubAll(L, d)
  BY <1>0 DEF Publications, PubInv
<1>13. PubList(L, d) /\ PubFlush(L, d) /\ PubClean(L, d)
  BY <1>12 DEF PubAll
<1>14. \A e \in L : Live(e) /\ e \in Nat /\ e # 0 /\ e \in Entries
  BY <1>0, <1>13, PubEntries
<1>15. at \in L /\ StaleIn(L) /\ FreshBefore(L, at) /\ Fresh(at) /\ heap[at].what = m
  BY <1>1, <1>2, <1>13 DEF PubFlush
<1>16. \A n : Live(n) /\ Fresh(n) /\ n # at => Fresh(n)'
  <2> SUFFICES ASSUME NEW n, Live(n), Fresh(n), n # at
               PROVE  Fresh(n)'
    OBVIOUS
  <2>1. heap[n].what # m
    BY <1>15 DEF Fresh, Live
  <2> QED
    BY <1>10, <2>1
<1>17. KindPub'
  <2>1. KindPub
    BY <1>0 DEF Publications
  <2>2. \A n \in Entries' : Live(n)' => PubPtr(heap[n].next)'
    <3> SUFFICES ASSUME NEW n \in Entries', Live(n)'
                 PROVE  PubPtr(heap[n].next)'
      OBVIOUS
    <3>1. CASE n = y
      BY <1>4, <1>11, <2>1, <3>1 DEF KindPub
    <3>2. CASE n # y
      <4>1. Live(n) /\ n \in Entries /\ heap'[n] = heap[n]
        BY <1>4, <1>10, <3>2
      <4> QED
        BY <1>11, <2>1, <4>1 DEF KindPub
    <3> QED
      BY <3>1, <3>2
  <2>3. PubPtr(M.new)' /\ PubPtr(M.at)'
    <3>1. Live(y)'
      BY <1>10
    <3> QED
      BY <1>2, <1>5, <1>7, <1>11, <2>1, <3>1 DEF PubPtr, KindPub
  <2> QED
    BY <1>3, <1>6, <1>7, <1>11, <2>1, <2>2, <2>3 DEF KindPub
<1>18. OnceInv'
  <2>1. OnceInv /\ m \in ToSet(accepted)
    BY <1>0, <1>14, <1>15 DEF Publications, OnceInv
  <2>2. \A n \in Entries' : Live(n)' => heap'[n].what \in ToSet(accepted)
    BY <1>4, <1>10, <2>1, ZenonT(40) DEF OnceInv, Live
  <2> QED
    BY <1>3, <1>6, <1>7, <2>1, <2>2 DEF OnceInv
<1>19. PubPending'
  BY <1>3, <1>7 DEF PubPending, Pending
<1>20. Start' = Start /\ Start = list["pubs"] /\ ~Adding /\ ~Adding'
  BY <1>1, <1>3, <1>5, <1>6, <1>7 DEF Start, Adding
<1>21. PubList(L, d)'
  <2>1. d = 0 \/ FreedAt(d)'
    BY <1>1, <1>10, <1>13 DEF PubList
  <2>2. \A e \in L : e \in Entries' /\ heap'[e] = heap[e]
    BY <1>4, <1>14
  <2> QED
    BY <1>13, <1>20, <2>1, <2>2, PubListSame
<1>22. PubFlush(L, d)'
  <2>1. StaleIn(L \cup {y})'
    <3> SUFFICES ASSUME NEW n \in Entries', Live(n)', n \notin L \cup {y}
                 PROVE  Fresh(n)'
      BY DEF StaleIn
    <3>1. Live(n) /\ n \in Entries /\ n # at
      BY <1>4, <1>10, <1>15
    <3> QED
      BY <1>15, <1>16, <3>1 DEF StaleIn
  <2>2. FreshBefore(L, at)'
    <3> SUFFICES ASSUME NEW e \in L, e < at
                 PROVE  Fresh(e)'
      BY DEF FreshBefore
    <3>1. e # at /\ Live(e) /\ Fresh(e)
      BY <1>14, <1>15 DEF FreshBefore
    <3> QED
      BY <1>16, <3>1
  <2>3. Live(y)' /\ heap'[y].next = list'["pubs"] /\ \A e \in L : e < y
    BY <1>4, <1>6, <1>10, <1>14
  <2> QED
    BY <1>5, <1>7, <1>15, <2>1, <2>2, <2>3 DEF PubFlush
<1>23. PubApp(L)'
  BY <1>20 DEF PubApp
<1>24. PubClean(L, d)'
  <2> SUFFICES ASSUME "pubs" \notin raced'
               PROVE  PubClean(L, d)'
    BY DEF PubClean
  <2>1. d = 0 /\ \A n \in Entries : Live(n) => n \in L
    BY <1>1, <1>7, <1>13, <1>20 DEF PubClean
  <2>2. \A n \in Entries' : Live(n)' => n \in L \/ n = y
    BY <1>4, <1>10, <2>1
  <2> QED
    BY <1>5, <1>6, <1>7, <1>20, <2>1, <2>2 DEF PubClean
<1>25. PubTried(L)'
  BY <1>3, <1>7 DEF PubTried
<1>26. PubInv'
  <2>1. PubAll(L, d)' /\ L \in SUBSET Entries' /\ d \in 0 .. Len(heap')
    BY <1>4, <1>21, <1>22, <1>23, <1>24, <1>25 DEF PubAll
  <2> QED
    BY <2>1, Zenon DEF PubInv
<1>27. QueuedUntilOffered'
  BY <1>0, <1>4, <1>6, <1>7, QueuedKept DEF Publications, Typed
<1>28. Publications'
  BY <1>17, <1>18, <1>19, <1>26, <1>27 DEF Publications
<1>29. PubsOnly
  <2>1. Len(heap) <= Len(heap')
    BY <1>4
  <2>2. \A n \in Entries' : n \in Entries \/ heap'[n].what \in Messages
    BY <1>4
  <2> QED
    BY <1>4, <2>1, <2>2 DEF PubsOnly
<1>30. /\ r.at <= Len(heap') /\ r.new <= Len(heap') /\ list'["pubs"] <= Len(heap')
       /\ list' \in [Lists -> Nat] /\ list'["subs"] = list["subs"]
       /\ accepted' \in Seq(Messages) /\ sent' \in Seq(Messages) /\ queued' \subseteq Messages
       /\ refused' \subseteq Messages
       /\ mqtt_connected' \in BOOLEAN /\ client' \in {"none", "offline", "online"}
  <2>1. at <= Len(heap') /\ list["pubs"] <= Len(heap')
    BY <1>0, <1>4, TaskIs
  <2>2. y <= Len(heap')
    BY <1>4
  <2> QED
    BY <1>0, <1>5, <1>6, <2>1, <2>2 DEF Typed
<1> QED
  BY <1>2, <1>5, <1>6, <1>8, <1>9, <1>28, <1>29, <1>30, ClientPubStep

LEMMA MqttLink ==
    ASSUME IInv, At("mqtt", "add_link"), list' = [list EXCEPT !["pubs"] = M.new],
           Becomes("mqtt", [M EXCEPT !.pc = "next", !.new = Null]), UNCHANGED heap, Sound
    PROVE  IInv'
<1>0. Typed /\ Control /\ FlagInv /\ Publications
  BY DEF IInv
<1>1. M.pc = "add_link"
  BY DEF At, M
<1>2. M.call = "CONNECTED" /\ Flushing /\ ~ClientOnSubs
  BY <1>0, <1>1, ClientCallIs DEF Flushing, ClientOnSubs
<1>3. A.call = "disconnect" /\ "flag" \in raced /\ ~mqtt_connected
  BY <1>0, <1>1, <1>2 DEF FlagInv
<1> PICK y \in Nat : y = M.new
  BY <1>0, TaskIs
<1> PICK at \in Nat : at = M.at
  BY <1>0, TaskIs
<1> PICK r : r = [M EXCEPT !.pc = "next", !.new = 0]
  OBVIOUS
<1>4. /\ r \in Locals /\ r.call = M.call /\ r.arg = M.arg /\ r.at = at /\ r.new = 0
      /\ r.pc = "next" /\ Becomes("mqtt", r)
  BY <1>0, TaskIs DEF Locals, Pcs, Null
<1>5. /\ UNCHANGED <<mqtt_connected, client, accepted, sent, queued, ub, refused>>
      /\ list' \in [Lists -> Nat] /\ list'["pubs"] = y /\ list'["subs"] = list["subs"]
  BY <1>0 DEF Sound, histories, Typed, Lists
<1>6. M' = r /\ A' = A /\ raced \subseteq raced' /\ Flushing'
  BY <1>0, <1>2, <1>4, ClientMoves DEF Flushing
<1>7. Control'
  BY <1>0, <1>1, <1>2, <1>4, <1>6 DEF Control, ClientPcs, Events, Frees
<1>8. FlagInv'
  BY <1>3, <1>4, <1>6 DEF FlagInv
<1>9. /\ \A n : (Live(n)' <=> Live(n)) /\ (FreedAt(n)' <=> FreedAt(n)) /\ (PubPtr(n)' <=> PubPtr(n))
      /\ Entries' = Entries
  BY SameHeap
<1>10. KindPub'
  <2>1. KindPub
    BY <1>0 DEF Publications
  <2>2. PubPtr(list["pubs"])' /\ PubPtr(M.at)' /\ PubPtr(M.new)'
    BY <1>2, <1>4, <1>5, <1>6, <1>9, <2>1 DEF KindPub, PubPtr
  <2> QED
    BY <1>3, <1>6, <2>1, <2>2, KindPubSame
<1>11. OnceInv' /\ PubPending'
  BY <1>0, <1>3, <1>5, <1>6, <1>9 DEF Publications, OnceInv, PubPending, Pending
<1>12. PubInv'
  <2>1. PICK L \in SUBSET Entries, d \in 0 .. Len(heap) : PubAll(L, d)
    BY <1>0 DEF Publications, PubInv
  <2>2. PubList(L, d) /\ PubFlush(L, d) /\ PubClean(L, d)
    BY <2>1 DEF PubAll
  <2>3. \A e \in L : Live(e) /\ e \in Nat /\ e # 0 /\ e \in Entries
    BY <1>0, <2>2, PubEntries
  <2>4. /\ at \in L /\ StaleIn(L \cup {y}) /\ FreshBefore(L, at)
        /\ Live(y) /\ heap[y].next = list["pubs"] /\ y \in Entries
        /\ \A e \in L : e < y
    BY <1>1, <1>2, <2>2 DEF PubFlush, Live
  <2> PICK K \in SUBSET Entries : K = L \cup {y}
    BY <2>4
  <2>5. Start = list["pubs"] /\ Start' = y /\ ~Adding /\ ~Adding'
    BY <1>1, <1>3, <1>4, <1>5, <1>6 DEF Start, Adding
  <2>6. PubList(K, d)'
    <3>1. d = 0 \/ FreedAt(d)'
      BY <1>1, <1>9, <2>2 DEF PubList
    <3>2. \A e \in L : e < y /\ e \in Entries' /\ heap'[e] = heap[e]
      BY <1>9, <2>3, <2>4
    <3>3. heap'[y].next = Start /\ Live(y)'
      BY <1>9, <2>4, <2>5
    <3> QED
      BY <1>0, <2>2, <2>5, <3>1, <3>2, <3>3, PubListPush
  <2>7. PubFlush(K, d)'
    <3>1. FreshBefore(K, at)
      <4>1. ~(y < at)
        BY <2>4
      <4> QED
        BY <2>4, <4>1 DEF FreshBefore
    <3>2. StaleIn(K)' /\ FreshBefore(K, at)'
      BY <1>5, <2>4, <3>1, SameFresh
    <3> QED
      BY <1>4, <1>6, <2>4, <3>2 DEF PubFlush
  <2>8. PubApp(K)' /\ PubTried(K)'
    BY <1>3, <1>6, <2>5 DEF PubApp, PubTried
  <2>9. PubClean(K, d)'
    <3> SUFFICES ASSUME "pubs" \notin raced'
                 PROVE  PubClean(K, d)'
      BY DEF PubClean
    <3>1. d = 0 /\ \A n \in Entries : Live(n) => n \in K
      BY <1>1, <1>6, <2>2, <2>5 DEF PubClean
    <3> QED
      BY <1>4, <1>5, <1>6, <1>9, <2>5, <3>1 DEF PubClean
  <2>10. PubAll(K, d)' /\ K \in SUBSET Entries' /\ d \in 0 .. Len(heap')
    BY <1>9, <2>6, <2>7, <2>8, <2>9 DEF PubAll
  <2> QED
    BY <2>10, Zenon DEF PubInv
<1>13. QueuedUntilOffered'
  BY <1>0, <1>5, <1>6, <1>9, QueuedKept DEF Publications, Typed
<1>14. Publications'
  BY <1>10, <1>11, <1>12, <1>13 DEF Publications
<1>15. /\ r.at <= Len(heap') /\ r.new <= Len(heap') /\ list'["pubs"] <= Len(heap')
       /\ accepted' \in Seq(Messages) /\ sent' \in Seq(Messages) /\ queued' \subseteq Messages
       /\ refused' \subseteq Messages
       /\ mqtt_connected' \in BOOLEAN /\ client' \in {"none", "offline", "online"}
  BY <1>0, <1>4, <1>5, TaskIs DEF Typed
<1> QED
  BY <1>0, <1>2, <1>4, <1>5, <1>7, <1>8, <1>14, <1>15, SamePubs, ClientPubStep

(* mqtt_publications_free                                                  *)
LEMMA FlushFreeTake ==
    ASSUME IInv, FreeTake("mqtt"), M.call = "CONNECTED"
    PROVE  IInv'
<1>0. Typed /\ Control /\ FlagInv /\ KindPub
  BY DEF IInv, Publications
<1>1. M.pc = "take" /\ ListOfTask("mqtt") = "pubs" /\ Flushing
  BY DEF FreeTake, At, M, ListOfTask, ListOf, Flushing
<1> PICK n \in Nat : n = list["pubs"]
  BY <1>0, TaskIs
<1> PICK r : r = [M EXCEPT !.at = n, !.pc = IF n = Null THEN "reset" ELSE "advance"]
  OBVIOUS
<1>2. /\ r \in Locals /\ r.call = M.call /\ r.arg = M.arg /\ r.at = n /\ r.new = M.new
      /\ r.pc = (IF n = 0 THEN "reset" ELSE "advance")
  BY <1>0, TaskIs DEF Locals, Pcs, Frees, Null
<1>3. Becomes("mqtt", r) /\ UNCHANGED <<heap, list>> /\ Sound
  BY <1>1 DEF FreeTake, M
<1>4. M' = r /\ A' = A /\ raced \subseteq raced' /\ Flushing'
  BY <1>0, <1>1, <1>2, <1>3, ClientMoves DEF Flushing
<1>5. Control'
  BY <1>0, <1>1, <1>2, <1>4 DEF Control, ClientPcs, Events, Frees
<1>6. FlagInv'
  BY <1>0, <1>1, <1>2, <1>3, <1>4 DEF FlagInv, Sound
<1>7. ASSUME NEW L \in SUBSET Entries, NEW d \in 0 .. Len(heap), PubAll(L, d)
      PROVE  PubFlush(L, d)' /\ PubTried(L)'
  <2>1. PubList(L, d) /\ PubFlush(L, d) /\ PubTried(L) /\ Start = n
    BY <1>1, <1>7 DEF PubAll, Start
  <2>2. n = 0 => L = {} /\ d = 0
    BY <1>0, <2>1, ListedPubs
  <2>3. d # 0 \/ StaleIn(L)'
    <3>1. d # 0 \/ StaleIn(L)
      BY <1>1, <2>1 DEF PubFlush
    <3> QED
      BY <1>3, <3>1, SameFresh DEF Sound, histories
  <2>4. PubFlush(L, d)'
    <3>1. CASE n = 0
      <4>1. StaleIn({})'
        BY <2>2, <2>3, <3>1
      <4> QED
        BY <1>2, <1>4, <3>1, <4>1 DEF PubFlush
    <3>2. CASE n # 0
      BY <1>2, <1>4, <2>3, <3>2 DEF PubFlush
    <3> QED
      BY <3>1, <3>2
  <2>5. PubTried(L)'
    <3>1. "pubs" \notin raced' /\ "flag" \notin raced' => \A e \in L : Tried(e)'
      <4>1. "pubs" \notin raced /\ "flag" \notin raced => \A e \in L : Tried(e)
        BY <1>1, <2>1 DEF PubTried, Frees
      <4> QED
        BY <1>3, <1>4, <4>1, SameFresh DEF Sound, histories
    <3> QED
      BY <1>2, <1>4, <3>1 DEF PubTried, Frees
  <2> QED
    BY <2>4, <2>5
<1>8. /\ r.at <= Len(heap) /\ r.new <= Len(heap) /\ PubPtr(r.at) /\ PubPtr(r.new)
      /\ mqtt_connected' \in BOOLEAN /\ client' \in {"none", "offline", "online"}
      /\ r.pc \notin {"free", "add_link"} /\ r.pc \in Frees
      /\ r.pc = "advance" => r.at = list["pubs"]
      /\ r.pc = "reset" => list["pubs"] = 0
  BY <1>0, <1>1, <1>2, <1>3, TaskIs DEF KindPub, Typed, Sound, Frees
<1> QED
  BY <1>1, <1>2, <1>3, <1>5, <1>6, <1>7, <1>8, FlushMove DEF Sound, histories

LEMMA PubListPop ==
    ASSUME Typed, NEW L, NEW d, PubList(L, d), NEW n \in L, Start = n, UNCHANGED heap,
           Start' = heap[n].next,
           d = 0 \/ FreedAt(d)' \/ (Flushing' /\ M'.pc = "free" /\ d = M'.at)
    PROVE  PubList(L \ {n}, d)'
<1> PICK K : K = L \ {n}
  OBVIOUS
<1>1. \A e \in L : Live(e) /\ e \in Nat /\ e # 0
  BY PubEntries
<1>2. \A e \in K : Live(e)' /\ heap'[e] = heap[e]
  BY <1>1, SameHeap
<1>3. \A f \in L : f <= n
  BY <1>1 DEF PubList
<1>4. \A f \in K : f < n
  BY <1>1, <1>3
<1>5. \/ heap[n].next \in K /\ \A f \in K : f <= heap[n].next
      \/ heap[n].next = d /\ K = {}
  <2>1. CASE /\ heap[n].next \in L /\ heap[n].next < n
             /\ \A f \in L : f < n => f <= heap[n].next
    <3>1. heap[n].next # n
      BY <1>1, <2>1
    <3> QED
      BY <1>4, <2>1, <3>1
  <2>2. CASE heap[n].next = d /\ \A f \in L : n <= f
    <3>1. \A f \in L : f = n
      BY <1>1, <1>3, <2>2
    <3> QED
      BY <2>2, <3>1
  <2> QED
    BY <2>1, <2>2 DEF PubList
<1>6. ASSUME NEW e \in K
      PROVE  \/ /\ heap[e].next \in K /\ heap[e].next < e
                /\ \A f \in K : f < e => f <= heap[e].next
             \/ heap[e].next = d /\ \A f \in K : e <= f
  <2>1. CASE /\ heap[e].next \in L /\ heap[e].next < e
             /\ \A f \in L : f < e => f <= heap[e].next
    <3>1. heap[e].next # n
      BY <1>1, <1>4, <2>1
    <3> QED
      BY <2>1, <3>1
  <2>2. CASE heap[e].next = d /\ \A f \in L : e <= f
    BY <2>2
  <2> QED
    BY <2>1, <2>2 DEF PubList
<1>7. PubList(K, d)'
  BY <1>2, <1>5, <1>6 DEF PubList
<1> QED
  BY <1>7

LEMMA FlushFreeAdvance ==
    ASSUME IInv, FreeAdvance("mqtt"), M.call = "CONNECTED"
    PROVE  IInv'
<1>0. Typed /\ Control /\ FlagInv /\ Publications /\ HeapTyped
  BY DEF IInv, Typed
<1>1. /\ M.pc = "advance" /\ ListOfTask("mqtt") = "pubs" /\ Flushing /\ InUse(M.at)
      /\ ~ClientOnSubs
  BY DEF FreeAdvance, At, M, ListOfTask, ListOf, Flushing, ClientOnSubs
<1> PICK n \in Nat : n = M.at
  BY <1>0, TaskIs
<1>2. Live(n) /\ n \in Entries /\ n # 0
  BY <1>0, <1>1, FlushAt, TaskIs
<1> PICK k \in Nat : k = heap[n].next
  BY <1>0, <1>2, CellIs
<1>3. PubPtr(k) /\ k <= Len(heap)
  BY <1>0, <1>2 DEF Publications, KindPub, HeapTyped
<1> PICK r : r = [M EXCEPT !.pc = "free"]
  OBVIOUS
<1>4. /\ r \in Locals /\ r.call = M.call /\ r.arg = M.arg /\ r.at = n /\ r.new = M.new
      /\ r.pc = "free"
  BY <1>0, TaskIs DEF Locals, Pcs, Frees
<1>5. /\ Becomes("mqtt", r)
      /\ UNCHANGED <<heap, mqtt_connected, client, accepted, sent, queued, ub, refused>>
      /\ list' \in [Lists -> Nat] /\ list'["pubs"] = k /\ list'["subs"] = list["subs"]
  BY <1>0, <1>1 DEF FreeAdvance, M, GoesTo, Typed, Lists, Sound, histories
<1>6. M' = r /\ A' = A /\ raced \subseteq raced' /\ Flushing'
  BY <1>0, <1>1, <1>4, <1>5, ClientMoves DEF Flushing
<1>7. Control'
  BY <1>0, <1>1, <1>2, <1>4, <1>6 DEF Control, ClientPcs, Events, Frees, Flushing
<1>8. FlagInv'
  BY <1>0, <1>1, <1>4, <1>5, <1>6 DEF FlagInv
<1>9. /\ \A j : (Live(j)' <=> Live(j)) /\ (FreedAt(j)' <=> FreedAt(j)) /\ (PubPtr(j)' <=> PubPtr(j))
      /\ Entries' = Entries
  BY <1>5, SameHeap
<1>10. KindPub'
  <2>1. KindPub
    BY <1>0 DEF Publications
  <2>2. PubPtr(list["pubs"])' /\ PubPtr(M.at)' /\ PubPtr(M.new)' /\ (A'.call = "publish" => PubPtr(A.new)')
    BY <1>1, <1>3, <1>4, <1>5, <1>6, <1>9, <2>1 DEF KindPub
  <2> QED
    BY <1>5, <2>1, <2>2, KindPubSame
<1>11. OnceInv' /\ PubPending'
  BY <1>0, <1>4, <1>5, <1>6, <1>9 DEF Publications, OnceInv, PubPending
<1>12. PubInv'
  <2>1. PICK L \in SUBSET Entries, d \in 0 .. Len(heap) : PubAll(L, d)
    BY <1>0 DEF Publications, PubInv
  <2>2. PubList(L, d) /\ PubFlush(L, d) /\ PubApp(L) /\ PubClean(L, d) /\ PubTried(L)
    BY <2>1 DEF PubAll
  <2>3. Start = n /\ Start' = k /\ (Adding' <=> Adding)
    BY <1>1, <1>4, <1>5, <1>6 DEF Start, Adding
  <2>4. n \in L
    BY <1>1, <1>2, <2>2, <2>3 DEF PubList, Live, FreedAt
  <2> PICK K \in SUBSET Entries : K = L \ {n}
    OBVIOUS
  <2>5. PubList(K, d)'
    <3>1. d = 0 \/ FreedAt(d)'
      BY <1>1, <1>9, <2>2 DEF PubList
    <3> QED
      BY <1>0, <1>5, <2>2, <2>3, <2>4, <3>1, PubListPop
  <2>6. PubFlush(K, d)'
    <3>1. d # 0 \/ StaleIn(L)'
      BY <1>1, <1>5, <2>2, SameFresh DEF PubFlush
    <3>2. K \cup {n} = L /\ n \notin K
      BY <2>4
    <3>3. d # 0 \/ StaleIn(K \cup {n})'
      BY <3>1, <3>2
    <3> QED
      BY <1>4, <1>6, <3>2, <3>3 DEF PubFlush
  <2>7. PubApp(K)'
    <3> SUFFICES ASSUME Adding
                 PROVE  PubApp(K)'
      BY <2>3 DEF PubApp
    <3> PICK a : a = A.new
      OBVIOUS
    <3>1. /\ Live(a) /\ a \notin L /\ Fresh(a) /\ \A e \in L : e < a
          /\ heap[a].next = list["pubs"] \/ FreedAt(heap[a].next)
      BY <1>1, <2>2 DEF PubApp
    <3>2. list["pubs"] = n
      BY <1>0, <1>1 DEF Publications, PubPending, Pending, Adding
    <3>3. Live(a)' /\ Fresh(a)' /\ a # n /\ a \notin K /\ \A e \in K : e < a
      BY <1>5, <1>9, <2>4, <3>1, SameFresh
    <3>4. heap'[a].next = n \/ FreedAt(heap[a].next)'
      BY <1>5, <1>9, <3>1, <3>2
    <3> QED
      BY <1>4, <1>6, <3>3, <3>4 DEF PubApp, Frees
  <2>8. PubClean(K, d)'
    <3> SUFFICES ASSUME "pubs" \notin raced'
                 PROVE  PubClean(K, d)'
      BY DEF PubClean
    <3>1. ~Adding /\ "pubs" \notin raced
      BY <1>0, <1>1, <1>6, PubsAlone DEF Pending, Adding
    <3>2. d = 0 /\ \A j \in Entries : Live(j) => j \in L
      BY <1>1, <2>2, <3>1 DEF PubClean
    <3> QED
      BY <1>2, <1>4, <1>5, <1>6, <1>9, <2>3, <3>1, <3>2 DEF PubClean
  <2>9. PubTried(K)'
    <3> SUFFICES ASSUME "pubs" \notin raced', "flag" \notin raced'
                 PROVE  PubTried(K)'
      BY DEF PubTried
    <3>1. \A e \in L : Tried(e)
      BY <1>1, <1>6, <2>2 DEF PubTried, Frees
    <3>2. Tried(n)' /\ \A e \in K : Tried(e)'
      BY <1>5, <2>4, <3>1, SameFresh
    <3> QED
      BY <1>4, <1>6, <3>2 DEF PubTried, Frees
  <2>10. PubAll(K, d)' /\ K \in SUBSET Entries' /\ d \in 0 .. Len(heap')
    BY <1>5, <1>9, <2>5, <2>6, <2>7, <2>8, <2>9 DEF PubAll
  <2> QED
    BY <2>10, Zenon DEF PubInv
<1>13. QueuedUntilOffered'
  BY <1>0, <1>5, <1>6, <1>9, QueuedKept DEF Publications, Typed
<1>14. Publications'
  BY <1>10, <1>11, <1>12, <1>13 DEF Publications
<1>15. /\ r.at <= Len(heap') /\ r.new <= Len(heap') /\ list'["pubs"] <= Len(heap')
       /\ accepted' \in Seq(Messages) /\ sent' \in Seq(Messages) /\ queued' \subseteq Messages
       /\ refused' \subseteq Messages
       /\ mqtt_connected' \in BOOLEAN /\ client' \in {"none", "offline", "online"}
       /\ r.call = "CONNECTED"
  BY <1>0, <1>1, <1>3, <1>4, <1>5, TaskIs DEF Typed
<1> QED
  BY <1>0, <1>1, <1>4, <1>5, <1>7, <1>8, <1>14, <1>15, SamePubs, ClientPubStep

LEMMA FlushFreeEntry ==
    ASSUME IInv, FreeEntry("mqtt"), M.call = "CONNECTED"
    PROVE  IInv'
<1>0. Typed /\ Control /\ FlagInv /\ Publications /\ HeapTyped
  BY DEF IInv, Typed
<1>1. M.pc = "free" /\ Flushing /\ InUse(M.at) /\ ~ClientOnSubs
  BY DEF FreeEntry, At, M, Flushing, ClientOnSubs
<1> PICK k \in Nat : k = M.at
  BY <1>0, TaskIs
<1>2. Live(k) /\ k \in Entries /\ k # 0
  BY <1>0, <1>1, FlushAt, TaskIs
<1> PICK r : r = [M EXCEPT !.pc = "take", !.at = 0]
  OBVIOUS
<1>3. /\ r \in Locals /\ r.call = M.call /\ r.arg = M.arg /\ r.at = 0 /\ r.new = M.new
      /\ r.pc = "take"
  BY <1>0, TaskIs DEF Locals, Pcs, Frees
<1>4. /\ Becomes("mqtt", r) /\ heap' = [heap EXCEPT ![k] = Freed]
      /\ UNCHANGED <<list, mqtt_connected, client, accepted, sent, queued, ub, refused>>
  BY DEF FreeEntry, M, Null, Sound, histories
<1>5. M' = r /\ A' = A /\ raced \subseteq raced' /\ Flushing'
  BY <1>0, <1>1, <1>3, <1>4, ClientMoves DEF Flushing
<1>6. Control'
  BY <1>0, <1>1, <1>3, <1>5 DEF Control, ClientPcs, Events, Frees, Flushing
<1>7. FlagInv'
  BY <1>0, <1>1, <1>3, <1>4, <1>5 DEF FlagInv
<1>8. /\ HeapTyped' /\ Len(heap') = Len(heap) /\ Entries' = Entries
      /\ \A n \in Entries : n # k => heap'[n] = heap[n]
      /\ ~heap'[k].used
  BY <1>0, <1>2, <1>4, HeapFree
<1>9. /\ \A n : Live(n)' <=> Live(n) /\ n # k
      /\ \A n : FreedAt(n) => FreedAt(n)'
      /\ FreedAt(k)'
      /\ \A n : Live(n) /\ n # k => heap'[n] = heap[n]
  BY <1>2, <1>8 DEF Live, FreedAt
<1>10. \A n : PubPtr(n) => PubPtr(n)'
  BY <1>9 DEF PubPtr
<1>11. \A n : n # k /\ Live(n) => (Fresh(n) => Fresh(n)') /\ (Tried(n) => Tried(n)')
  <2> SUFFICES ASSUME NEW n, n # k, Live(n)
               PROVE  (Fresh(n) => Fresh(n)') /\ (Tried(n) => Tried(n)')
    OBVIOUS
  <2>1. heap'[n] = heap[n]
    BY <1>9
  <2>2. Tried(n) => Tried(n)'
    BY <1>4, <2>1 DEF Tried
  <2>3. Fresh(n) => Fresh(n)'
    BY <1>4, <1>8, <1>9, <2>1 DEF Fresh
  <2> QED
    BY <2>2, <2>3
<1>12. KindPub'
  <2>1. KindPub
    BY <1>0 DEF Publications
  <2>2. \A n \in Entries' : Live(n)' => PubPtr(heap[n].next)'
    BY <1>8, <1>9, <1>10, <2>1 DEF KindPub
  <2>3. PubPtr(M.at)' /\ PubPtr(M.new)'
    BY <1>1, <1>3, <1>5, <1>10, <2>1 DEF KindPub, PubPtr
  <2> QED
    BY <1>4, <1>5, <1>10, <2>1, <2>2, <2>3 DEF KindPub
<1>13. OnceInv'
  <2>1. OnceInv
    BY <1>0 DEF Publications
  <2> QED
    BY <1>4, <1>5, <1>8, <1>9, <2>1 DEF OnceInv
<1>14. PubPending'
  BY <1>3, <1>5 DEF PubPending
<1>15. PICK L \in SUBSET Entries, d \in 0 .. Len(heap) : PubAll(L, d)
  BY <1>0 DEF Publications, PubInv
<1>16. PubList(L, d) /\ PubFlush(L, d) /\ PubApp(L) /\ PubClean(L, d) /\ PubTried(L)
  BY <1>15 DEF PubAll
<1>17. \A e \in L : Live(e) /\ e \in Nat /\ e # 0 /\ e \in Entries
  BY <1>0, <1>16, PubEntries
<1>18. k \notin L /\ (d # 0 \/ StaleIn(L \cup {k}))
  BY <1>1, <1>16 DEF PubFlush
<1>19. Start = list["pubs"] /\ Start' = list["pubs"] /\ (Adding' <=> Adding)
  BY <1>1, <1>3, <1>4, <1>5 DEF Start, Adding
<1>20. PubList(L, d)'
  <2>1. d = 0 \/ FreedAt(d)'
    BY <1>9, <1>16 DEF PubList
  <2>2. \A e \in L : e \in Entries' /\ heap'[e] = heap[e]
    BY <1>8, <1>17, <1>18
  <2> QED
    BY <1>16, <1>19, <2>1, <2>2, PubListSame
<1>21. PubFlush(L, d)'
  <2>1. StaleIn(L \cup {k}) => StaleIn(L)'
    BY <1>8, <1>9, <1>11 DEF StaleIn
  <2> QED
    BY <1>3, <1>5, <1>18, <2>1 DEF PubFlush
<1>22. PubApp(L)'
  <2> SUFFICES ASSUME Adding
               PROVE  PubApp(L)'
    BY <1>19 DEF PubApp
  <2> PICK a : a = A.new
    OBVIOUS
  <2>1. /\ Live(a) /\ a \notin L /\ Fresh(a) /\ a # k /\ \A e \in L : e < a
        /\ heap[a].next \in {list["pubs"], k} \/ FreedAt(heap[a].next)
    BY <1>1, <1>16 DEF PubApp
  <2>2. Live(a)' /\ Fresh(a)' /\ heap'[a] = heap[a]
    BY <1>9, <1>11, <2>1
  <2>3. heap'[a].next = list'["pubs"] \/ FreedAt(heap[a].next)'
    BY <1>4, <1>9, <2>1, <2>2
  <2> QED
    BY <1>3, <1>5, <2>1, <2>2, <2>3 DEF PubApp, Frees
<1>23. PubClean(L, d)'
  <2> SUFFICES ASSUME "pubs" \notin raced'
               PROVE  PubClean(L, d)'
    BY DEF PubClean
  <2>1. ~Adding /\ "pubs" \notin raced
    BY <1>0, <1>1, <1>5, PubsAlone DEF Pending, Adding
  <2>2. d = 0 /\ \A j \in Entries : Live(j) => j \in L \/ j = k
    BY <1>1, <1>16, <2>1 DEF PubClean
  <2>3. \A j \in Entries' : Live(j)' => j \in L
    BY <1>8, <1>9, <2>2
  <2>4. Start' = list'["pubs"] /\ M'.pc = "take"
    BY <1>3, <1>4, <1>5, <1>19
  <2> QED
    BY <1>19, <2>1, <2>2, <2>3, <2>4 DEF PubClean
<1>24. "pubs" \notin raced' /\ "flag" \notin raced' => Tried(k) /\ \A e \in L : Tried(e)
  BY <1>1, <1>5, <1>16 DEF PubTried, Frees
<1>25. PubTried(L)'
  BY <1>3, <1>5, <1>11, <1>17, <1>18, <1>24 DEF PubTried, Frees
<1>26. PubInv'
  <2>1. PubAll(L, d)' /\ L \in SUBSET Entries' /\ d \in 0 .. Len(heap')
    BY <1>8, <1>20, <1>21, <1>22, <1>23, <1>25 DEF PubAll
  <2> QED
    BY <2>1, Zenon DEF PubInv
<1>27. QueuedUntilOffered'
  <2>1. ASSUME NEW n \in Entries, heap[n].used, raced' \cap {"pubs", "flag"} = {}
        PROVE  \/ n \in Entries' /\ heap'[n].used /\ heap'[n].what = heap[n].what
               \/ heap[n].what \in ToSet(sent') \cup refused'
    BY <1>4, <1>8, <1>24, <2>1 DEF Tried
  <2> QED
    BY <1>0, <1>4, <1>5, <2>1, QueuedKept DEF Publications, Typed
<1>28. Publications'
  BY <1>12, <1>13, <1>14, <1>26, <1>27 DEF Publications
<1>29. PubsOnly
  <2>1. Len(heap) <= Len(heap')
    BY <1>0, <1>8 DEF HeapTyped
  <2> QED
    BY <1>2, <1>8, <2>1 DEF PubsOnly
<1>30. /\ r.at <= Len(heap') /\ r.new <= Len(heap') /\ list'["pubs"] <= Len(heap')
       /\ list' \in [Lists -> Nat] /\ list'["subs"] = list["subs"]
       /\ accepted' \in Seq(Messages) /\ sent' \in Seq(Messages) /\ queued' \subseteq Messages
       /\ refused' \subseteq Messages
       /\ mqtt_connected' \in BOOLEAN /\ client' \in {"none", "offline", "online"}
       /\ r.call = "CONNECTED"
  BY <1>0, <1>3, <1>4, <1>8, TaskIs DEF Typed
<1> QED
  BY <1>1, <1>3, <1>4, <1>6, <1>7, <1>28, <1>29, <1>30, ClientPubStep

LEMMA FlushFreeReset ==
    ASSUME IInv, FreeReset("mqtt"), M.call = "CONNECTED"
    PROVE  IInv'
<1>0. Typed /\ Control /\ FlagInv /\ Publications
  BY DEF IInv
<1>1. M.pc = "reset" /\ ListOfTask("mqtt") = "pubs" /\ Flushing /\ ~ClientOnSubs
  BY DEF FreeReset, At, M, ListOfTask, ListOf, Flushing, ClientOnSubs
<1>2. /\ Becomes("mqtt", Idle)
      /\ UNCHANGED <<heap, mqtt_connected, client, accepted, sent, queued, ub, refused>>
      /\ list' \in [Lists -> Nat] /\ list'["pubs"] = 0 /\ list'["subs"] = list["subs"]
  BY <1>0, <1>1 DEF FreeReset, M, Null, Typed, Lists, Sound, histories
<1>3. M' = Idle /\ A' = A /\ raced \subseteq raced' /\ ~Flushing'
  BY <1>0, <1>2, IdleTyped, ClientMoves DEF Flushing
<1>4. Control'
  BY <1>0, <1>3, IdleTyped DEF Control
<1>5. FlagInv'
  BY <1>3, IdleTyped DEF FlagInv
<1>6. /\ \A j : (Live(j)' <=> Live(j)) /\ (FreedAt(j)' <=> FreedAt(j)) /\ (PubPtr(j)' <=> PubPtr(j))
      /\ Entries' = Entries
  BY <1>2, SameHeap
<1>7. KindPub'
  <2>1. KindPub
    BY <1>0 DEF Publications
  <2>2. PubPtr(list["pubs"])' /\ (A'.call = "publish" => PubPtr(A.new)')
    BY <1>2, <1>3, <1>6, <2>1 DEF KindPub, PubPtr
  <2> QED
    BY <1>2, <1>3, <2>1, <2>2, KindPubSame
<1>8. OnceInv' /\ PubPending'
  BY <1>0, <1>2, <1>3, <1>6 DEF Publications, OnceInv, PubPending
<1>9. PubInv'
  <2>1. PICK L \in SUBSET Entries, d \in 0 .. Len(heap) : PubAll(L, d)
    BY <1>0 DEF Publications, PubInv
  <2>2. PubFlush(L, d) /\ PubApp(L) /\ PubClean(L, d)
    BY <2>1 DEF PubAll
  <2>3. Start' = 0 /\ (Adding' <=> Adding)
    BY <1>2, <1>3 DEF Start, Adding
  <2>4. PubList({}, 0)'
    BY <2>3 DEF PubList
  <2>5. PubFlush({}, 0)'
    <3>1. StaleIn({})
      BY <1>1, <2>2 DEF PubFlush
    <3>2. StaleIn({})'
      BY <1>2, <3>1, SameFresh
    <3> QED
      BY <1>3, <3>2 DEF PubFlush
  <2>6. PubApp({})'
    <3> SUFFICES ASSUME Adding
                 PROVE  PubApp({})'
      BY <2>3 DEF PubApp
    <3> PICK a : a = A.new
      OBVIOUS
    <3>1. /\ Live(a) /\ Fresh(a)
          /\ heap[a].next = list["pubs"] \/ FreedAt(heap[a].next)
      BY <1>1, <2>2 DEF PubApp
    <3>2. list["pubs"] = 0
      BY <1>0, <1>1 DEF Publications, PubPending, Pending, Adding
    <3>3. Live(a)' /\ Fresh(a)' /\ (heap'[a].next = list'["pubs"] \/ FreedAt(heap[a].next)')
      BY <1>2, <1>6, <3>1, <3>2, SameFresh
    <3> QED
      BY <1>2, <1>3, <3>3 DEF PubApp
  <2>7. PubClean({}, 0)'
    <3> SUFFICES ASSUME "pubs" \notin raced'
                 PROVE  PubClean({}, 0)'
      BY DEF PubClean
    <3>1. ~Adding /\ "pubs" \notin raced
      BY <1>0, <1>1, <1>3, PubsAlone DEF Pending, Adding
    <3>2. \A j \in Entries : ~Live(j)
      BY <1>1, <2>2, <3>1 DEF PubClean
    <3> QED
      BY <1>2, <1>3, <1>6, <2>3, <3>1, <3>2 DEF PubClean
  <2>8. PubTried({})'
    BY <1>3 DEF PubTried
  <2>9. PubAll({}, 0)'
    BY <2>4, <2>5, <2>6, <2>7, <2>8 DEF PubAll
  <2>10. {} \in SUBSET Entries' /\ 0 \in 0 .. Len(heap')
    BY <1>0, <1>2 DEF Typed, HeapTyped
  <2> QED
    BY <2>9, <2>10, Zenon DEF PubInv
<1>10. QueuedUntilOffered'
  BY <1>0, <1>2, <1>3, <1>6, QueuedKept DEF Publications, Typed
<1>11. Publications'
  BY <1>7, <1>8, <1>9, <1>10 DEF Publications
<1>12. /\ Idle.at <= Len(heap') /\ Idle.new <= Len(heap') /\ list'["pubs"] <= Len(heap')
       /\ accepted' \in Seq(Messages) /\ sent' \in Seq(Messages) /\ queued' \subseteq Messages
       /\ refused' \subseteq Messages
       /\ mqtt_connected' \in BOOLEAN /\ client' \in {"none", "offline", "online"}
  BY <1>0, <1>2, TaskIs, IdleTyped DEF Typed
<1> QED
  BY <1>0, <1>1, <1>2, <1>4, <1>5, <1>11, <1>12, IdleTyped, SamePubs, ClientPubStep

LEMMA ClientFreeAll ==
    ASSUME IInv, FreeAll("mqtt")
    PROVE  IInv'
<1>1. ASSUME NEW pc \in {"advance", "free"}, Corrupts("mqtt", pc, task["mqtt"].at)
      PROVE  IInv'
  <2>1. M.pc = pc /\ ~InUse(M.at)
    BY <1>1 DEF Corrupts, At, M
  <2>2. M.call \in {"CONNECTED", "DISCONNECTED"}
    BY <2>1, ClientCallIs DEF IInv, Frees
  <2>3. ListOfTask("mqtt") \in raced /\ "mqtt" \in Tasks
    BY <2>1, <2>2, PubsUsed, ClientSubsUsed, ClientOnList DEF IInv, Flushing
  <2> QED
    BY <1>1, <2>3, CorruptsRaced
<1>2. CASE M.call = "CONNECTED"
  BY <1>1, <1>2, FlushFreeTake, FlushFreeAdvance, FlushFreeEntry, FlushFreeReset
     DEF FreeAll, FreeCorrupts
<1>3. CASE M.call # "CONNECTED"
  BY <1>1, <1>3, ClientFreeTake, ClientFreeAdvance, ClientFreeEntry, ClientFreeReset
     DEF FreeAll, FreeCorrupts
<1> QED
  BY <1>2, <1>3

LEMMA FlushStep ==
    ASSUME IInv, Flush
    PROVE  IInv'
<1>1. ASSUME NEW m \in Messages, M.arg = {m}, AddPublication("mqtt", m, "next")
      PROVE  IInv'
  BY <1>1, MqttAdd, MqttLink DEF AddPublication, M
<1>2. ASSUME NEW pc \in {"publish", "next"}, Corrupts("mqtt", pc, task["mqtt"].at)
      PROVE  IInv'
  <2>1. M.pc = pc /\ ~InUse(M.at)
    BY <1>2 DEF Corrupts, At, M
  <2>2. M.call = "CONNECTED"
    BY <2>1, ClientCallIs DEF IInv
  <2>3. ListOfTask("mqtt") \in raced /\ "mqtt" \in Tasks
    BY <2>1, <2>2, PubsUsed, ClientOnList DEF IInv, Flushing
  <2> QED
    BY <1>2, <2>3, CorruptsRaced
<1> QED
  BY <1>1, <1>2, FlushStartStep, FlushPublishStep, FlushNextStep DEF Flush, M

----------------------------------------------------------------------------
(* Every step                                                              *)
LEMMA AppStep ==
    ASSUME IInv, App
    PROVE  IInv'
<1>1. ASSUME NEW m \in Messages, A.arg = {m}, AddPublication("app", m, "idle")
      PROVE  IInv'
  BY <1>1, AppAdd, AppLink DEF AddPublication, A
<1>2. ASSUME NEW ts \in SUBSET Topics \ {{}}, Unsubscribe(ts)
      PROVE  IInv'
  BY <1>2, UnsubscribeStep
<1> QED
  BY <1>1, <1>2, SubscribeStep, SubscriptionAddStep, SubscriptionRemoveStep, PublishStep,
     ClientPublishStep, ConnectStep, DisconnectStep, AppFreeAll, ClientDestroyStep DEF App, A

LEMMA ClientStep ==
    ASSUME IInv, Client
    PROVE  IInv'
BY MqttConnectedStep, FlushStep, MqttDisconnectedStep, MqttDataStep, MessageStep,
   ClientFreeAll DEF Client

LEMMA StutterStep ==
    ASSUME IInv, UNCHANGED vars
    PROVE  IInv'
<1>0. Typed /\ Control /\ FlagInv /\ Publications /\ Subscriptions /\ UbInv
  BY DEF IInv
<1>1. UNCHANGED <<heap, list, mqtt_connected, client, task, accepted, queued, sent, ub, raced, refused>>
  BY DEF vars
<1>2. A' = A /\ M' = M /\ Overlap' = Overlap /\ Entries' = Entries
  BY <1>1 DEF A, M, Overlap, Touches, Entries
<1>3. Typed'
  BY <1>0, <1>1, <1>2 DEF Typed, HeapTyped
<1>4. Control' /\ FlagInv' /\ UbInv'
  BY <1>0, <1>1, <1>2 DEF Control, FlagInv, Flushing, UbInv
<1>5. \A k \in Entries : k \in Nat /\ k # 0
  BY <1>0, TaskIs
<1>6. \A k : (Live(k)' <=> Live(k)) /\ (LiveSub(k)' <=> LiveSub(k)) /\ (FreedAt(k)' <=> FreedAt(k))
  BY <1>1, SameHeap
<1>7. PubSame
  <2>1. Len(heap) \in Nat /\ Len(heap') \in Nat /\ Len(heap) <= Len(heap')
    BY <1>0, <1>1, TaskIs
  <2> QED
    BY <1>1, <1>2, <1>5, <1>6, <2>1 DEF PubSame
<1>8. SubSame
  BY <1>1, <1>2, <1>5, <1>6 DEF SubSame
<1> QED
  BY <1>0, <1>3, <1>4, <1>7, <1>8, PubFrame, SubFrame DEF IInv

LEMMA InitIInv ==
    ASSUME Init
    PROVE  IInv
<1>1. /\ heap = <<>> /\ list["pubs"] = 0 /\ list["subs"] = 0 /\ mqtt_connected = FALSE
      /\ client = "none" /\ A = Idle /\ M = Idle /\ accepted = <<>> /\ queued = {}
      /\ sent = <<>> /\ refused = {} /\ ub = "none" /\ raced = {}
  BY DEF Init, A, M, Lists, Tasks, Null
<1>2. Len(heap) = 0 /\ Entries = {} /\ heap \in Seq(Cells)
  BY <1>1 DEF Entries
<1>3. HeapTyped
  BY <1>2, Constants DEF HeapTyped
<1>4. Overlap = {}
  BY <1>1, IdleTyped DEF Overlap, Touches, A, M
<1>5. Typed
  <2>1. list \in [Lists -> Nat] /\ \A l \in Lists : list[l] <= Len(heap)
    BY <1>2 DEF Init, Null
  <2>2. task \in [Tasks -> Locals] /\ \A p \in Tasks : task[p] = Idle
    BY IdleTyped DEF Init
  <2>3. \A p \in Tasks : task[p].at <= Len(heap) /\ task[p].new <= Len(heap)
    BY <1>2, <2>2, IdleTyped
  <2>4. mqtt_connected \in BOOLEAN
    BY <1>1
  <2>5. accepted \in Seq(Messages) /\ sent \in Seq(Messages) /\ queued \subseteq Messages
        /\ refused \subseteq Messages
    BY <1>1
  <2> QED
    BY <1>1, <1>3, <1>4, <2>1, <2>2, <2>3, <2>4, <2>5 DEF Typed
<1>6. Control /\ FlagInv /\ UbInv
  BY <1>1, IdleTyped DEF Control, FlagInv, Flushing, UbInv
<1>7. KindPub /\ OnceInv /\ PubPending
  <2>1. ToSet(sent) = {}
    BY <1>1 DEF ToSet
  <2> QED
    BY <1>1, <1>2, <2>1, IdleTyped DEF KindPub, OnceInv, PubPending, PubPtr, Flushing
<1>8. PubInv
  <2>1. Start = 0 /\ ~Flushing /\ ~Adding
    BY <1>1, IdleTyped DEF Start, Flushing, Adding
  <2>2. PubList({}, 0) /\ PubFlush({}, 0) /\ PubApp({}) /\ PubClean({}, 0) /\ PubTried({})
    BY <1>1, <1>2, <2>1 DEF PubList, PubFlush, PubApp, PubClean, PubTried, StaleIn
  <2>3. PubAll({}, 0)
    BY <2>2 DEF PubAll
  <2>4. {} \in SUBSET Entries /\ 0 \in 0 .. Len(heap)
    BY <1>2
  <2> QED
    BY <2>3, <2>4, Zenon DEF PubInv
<1>9. QueuedUntilOffered
  BY <1>1 DEF QueuedUntilOffered, Waiting
<1>10. Subscriptions
  <2>1. KindSub
    BY <1>1, <1>2, IdleTyped DEF KindSub, SubPtr, OnSubs, ClientOnSubs
  <2>2. SubAll({})
    BY <1>1, <1>2, IdleTyped
       DEF SubAll, SubList, SubApp, SubClient, SubClean, Unsubscribing, Unsubscribes
  <2>3. SubInv
    BY <2>2, Zenon DEF SubInv
  <2> QED
    BY <2>1, <2>3 DEF Subscriptions
<1> QED
  BY <1>5, <1>6, <1>7, <1>8, <1>9, <1>10 DEF IInv, Publications

(* The inductive invariant holds in every state.                           *)
THEOREM Invariance == Spec => []IInv
<1>1. IInv /\ [Next]_vars => IInv'
  BY AppStep, ClientStep, StutterStep DEF Next
<1> QED
  BY InitIInv, <1>1, PTL DEF Spec

(* Every variable has its type, and no pointer leaves the heap.            *)
THEOREM TypeCorrect == Spec => []TypeOK
<1>1. IInv => TypeOK
  <2> SUFFICES ASSUME IInv
               PROVE  TypeOK
    OBVIOUS
  <2>0. Typed /\ HeapTyped
    BY DEF IInv, Typed
  <2> PICK Pointers : Pointers = 0 .. Len(heap)
    OBVIOUS
  <2> PICK C : C = [used : {TRUE}, next : Pointers, what : Topics \cup Messages] \cup {Freed}
    OBVIOUS
  <2>1. heap \in Seq(C)
    <3>1. heap \in [1 .. Len(heap) -> Cells] /\ Len(heap) \in Nat
      BY <2>0 DEF HeapTyped
    <3>2. ASSUME NEW n \in 1 .. Len(heap)
          PROVE  heap[n] \in C
      <4>1. heap[n] \in Cells /\ heap[n].next <= Len(heap) /\ heap[n].next \in Nat
        BY <2>0, <3>2, CellIs DEF HeapTyped, Entries
      <4>2. heap[n].next \in Pointers
        BY <3>1, <4>1
      <4> QED
        BY <4>1, <4>2 DEF Cells
    <3>3. heap \in [1 .. Len(heap) -> C]
      BY <3>1, <3>2
    <3>4. \E n \in Nat : heap \in [1 .. n -> C]
      BY <3>1, <3>3
    <3>5. heap \in UNION {[1 .. n -> C] : n \in Nat}
      BY <3>4
    <3> QED
      BY <3>5, SeqDef, ZenonT(40)
  <2>2. \A n \in Nat : n <= Len(heap) => n \in Pointers
    BY <2>0 DEF HeapTyped
  <2>3. list \in [Lists -> Pointers]
    BY <2>0, <2>2 DEF Typed
  <2>4. \A p \in Tasks : task[p].at \in Pointers /\ task[p].new \in Pointers
    BY <2>0, <2>2 DEF Typed, Locals
  <2> QED
    BY <2>0, <2>1, <2>3, <2>4 DEF TypeOK, Typed, HeapTyped
<1> QED
  BY <1>1, Invariance, PTL

(* Every non-empty set of naturals has a least element.                    *)
LEMMA LeastExists ==
    ASSUME NEW S \in SUBSET Nat, S # {}
    PROVE  \E x \in S : \A y \in S : x <= y
<1>1. PICK x \in S : \A y \in S : ~(<<y, x>> \in OpToRel(<, Nat))
  BY NatLessThanWellFounded, WFMin
<1>2. \A y \in S : ~(y < x)
  BY <1>1 DEF OpToRel
<1> QED BY <1>2

(* And every non-empty set of entries a last one.                          *)
LEMMA LastExists ==
    ASSUME NEW N \in Nat, NEW S \in SUBSET (0 .. N), S # {}
    PROVE  \E x \in S : \A y \in S : y <= x
<1> DEFINE R == {N - x : x \in S}
<1>1. R \in SUBSET Nat /\ R # {}
  <2>1. \A x \in S : N - x \in Nat
    OBVIOUS
  <2> QED
    BY <2>1
<1>2. PICK r \in R : \A y \in R : r <= y
  BY <1>1, LeastExists
<1>3. PICK x \in S : r = N - x
  BY <1>2
<1>4. ASSUME NEW y \in S PROVE y <= x
  <2>1. N - x <= N - y
    BY <1>2, <1>3
  <2> QED
    BY <2>1
<1> QED
  BY <1>4

(* An entry of a list is pointed to.                                       *)
LEMMA PubPointed ==
    ASSUME Typed, NEW L, PubList(L, 0), NEW n \in L, Start # n
    PROVE  \E e \in L : heap[e].next = n
<1>1. \A e \in L : Live(e) /\ e \in Nat /\ e # 0 /\ e \in Entries
  BY PubEntries
<1> DEFINE S == {e \in L : n < e}
<1>2. S \in SUBSET Nat /\ S # {}
  <2>1. Start \in L /\ \A f \in L : f <= Start
    BY DEF PubList
  <2>2. Start \in S
    BY <1>1, <2>1
  <2> QED
    BY <1>1, <2>2
<1>3. PICK e \in S : \A f \in S : e <= f
  BY <1>2, LeastExists
<1>4. e \in L /\ n < e /\ e \in Nat /\ n \in Nat
  BY <1>1, <1>3
<1>5. ~(\A f \in L : e <= f)
  BY <1>4
<1>6. heap[e].next \in L /\ heap[e].next < e /\ n <= heap[e].next
  BY <1>4, <1>5 DEF PubList
<1>7. heap[e].next \notin S
  BY <1>1, <1>3, <1>4, <1>6
<1>8. heap[e].next = n
  BY <1>1, <1>4, <1>6, <1>7
<1> QED
  BY <1>4, <1>8

LEMMA SubPointed ==
    ASSUME Typed, NEW L, SubList(L), NEW n \in L, list["subs"] # n
    PROVE  \E e \in L : heap[e].next = n
<1>1. \A e \in L : LiveSub(e) /\ e \in Nat /\ e # 0 /\ e \in Entries /\ e \in 0 .. Len(heap)
  BY SubEntries, TaskIs DEF Entries
<1> DEFINE S == {e \in L : e < n}
<1>2. S \in SUBSET (0 .. Len(heap)) /\ S # {} /\ Len(heap) \in Nat
  <2>1. list["subs"] \in L /\ \A f \in L : list["subs"] <= f
    BY DEF SubList
  <2>2. list["subs"] \in S
    BY <1>1, <2>1
  <2> QED
    BY <1>1, <2>2, TaskIs
<1>3. PICK e \in S : \A f \in S : f <= e
  BY <1>2, LastExists
<1>4. e \in L /\ e < n /\ e \in Nat /\ n \in Nat
  BY <1>1, <1>3
<1>5. ~(\A f \in L : f <= e)
  BY <1>4
<1>6. heap[e].next \in L /\ e < heap[e].next /\ heap[e].next <= n
  <2>1. \/ /\ heap[e].next \in L /\ e < heap[e].next
           /\ \A f \in L : e < f => heap[e].next <= f
        \/ heap[e].next = 0 /\ \A f \in L : f <= e
    BY <1>4 DEF SubList
  <2> QED
    BY <1>4, <1>5, <2>1
<1>7. PICK k \in Nat : k = heap[e].next
  BY <1>1, <1>6
<1>8. k \notin S
  <2>1. k \in S => k <= e
    BY <1>3
  <2> QED
    BY <1>4, <1>6, <1>7, <2>1
<1>9. k = n
  <2>1. ~(k < n)
    BY <1>6, <1>7, <1>8
  <2> QED
    BY <1>4, <1>6, <1>7, <2>1
<1> QED
  BY <1>4, <1>7, <1>9

(* The unlocked lists are corrupted, by access to a freed entry or by      *)
(* losing one, only when two calls that free or relink entries of the same *)
(* list have overlapped.                                                   *)
THEOREM MemorySafe == Spec => []MemorySound
<1>1. IInv => MemorySound
  <2> SUFFICES ASSUME IInv, "subs" \notin raced, "pubs" \notin raced,
                      NEW n \in Entries, Leaked(n)
               PROVE  FALSE
    <3>1. IInv => (ub # "none" => ub \in raced)
      BY DEF IInv, UbInv
    <3> QED
      BY <3>1 DEF MemorySound, Lists
  <2>0. Typed
    BY DEF IInv
  <2>1. /\ heap[n].used /\ list["subs"] # n /\ list["pubs"] # n
        /\ \A m \in Entries : heap[m].used => heap[m].next # n
        /\ A.at # n /\ A.new # n /\ M.at # n /\ M.new # n
    BY DEF Leaked, Lists, Tasks, A, M
  <2>2. CASE LiveSub(n)
    <3>1. PICK L \in SUBSET Entries : SubAll(L)
      BY DEF IInv, Subscriptions, SubInv
    <3>2. n \in L /\ SubList(L)
      BY <2>1, <2>2, <3>1 DEF SubAll, SubClean
    <3>3. \A e \in L : e \in Entries /\ heap[e].used
      BY <3>2 DEF SubList, LiveSub
    <3> QED
      BY <2>0, <2>1, <3>2, <3>3, SubPointed
  <2>3. CASE Live(n)
    <3>1. PICK L \in SUBSET Entries, d \in 0 .. Len(heap) : PubAll(L, d)
      BY DEF IInv, Publications, PubInv
    <3>2. n \in L /\ PubList(L, 0) /\ Start = list["pubs"]
      BY <2>1, <2>3, <3>1 DEF PubAll, PubClean
    <3>3. \A e \in L : e \in Entries /\ heap[e].used
      BY <3>2 DEF PubList, Live
    <3> QED
      BY <2>0, <2>1, <3>2, <3>3, PubPointed
  <2> QED
    BY <2>0, <2>1, <2>2, <2>3, CellIs DEF Typed, Live, LiveSub
<1> QED
  BY <1>1, Invariance, PTL

(* A message reaches every subscriber that was on the list when it         *)
(* arrived, while mqtt_subscribe appends to that list.                     *)
THEOREM MessageReaches == Spec => []MessageReachesSubscribers
<1>1. IInv => MessageReachesSubscribers
  <2> SUFFICES ASSUME IInv, M.pc = "done", "subs" \notin raced
               PROVE  M.todo = {}
    BY DEF MessageReachesSubscribers, M
  <2>1. PICK L \in SUBSET Entries : SubAll(L)
    BY DEF IInv, Subscriptions, SubInv
  <2>2. M.call = "DATA"
    BY ClientCallIs DEF IInv
  <2> QED
    BY <2>1, <2>2 DEF SubAll, SubClient
<1> QED
  BY <1>1, Invariance, PTL

(* What mqtt_publish has queued stays in an entry until a flush has handed *)
(* it to the client, which may fail with it, unless a publication or       *)
(* mqtt_disconnect overlaps a flush.                                       *)
THEOREM QueueKeptUntilOffered == Spec => []QueuedUntilOffered
<1>1. IInv => QueuedUntilOffered
  BY DEF IInv, Publications
<1> QED
  BY <1>1, Invariance, PTL

(* However the two tasks interleave, the module implements Outbox: what    *)
(* leaves was given to mqtt_publish, and leaves once.                      *)
THEOREM PublishedOnce == Spec => PublishesAtMostOnce
<1>1. Init => Box!Init
  BY DEF Init, Box!Init, ToSet
<1>2. ASSUME IInv, NEW m \in Messages, Publish(m)
      PROVE  Box!Accept(m)
  <2>1. accepted \in Seq(Messages) /\ accepted' = Append(accepted, m) /\ m \notin ToSet(accepted)
    BY <1>2 DEF Publish, IInv, Typed
  <2>2. ToSet(accepted') = ToSet(accepted) \cup {m}
    BY <2>1, ToSetAppend
  <2> QED
    BY <1>2, <2>1, <2>2 DEF Box!Accept, Publish
<1>3. ASSUME IInv, NEW m \in Messages, ClientPublish(m)
      PROVE  Box!Deliver(m) \/ UNCHANGED <<accepted, sent>>
  <2>1. A.arg = {m} /\ A.pc = "client_publish" /\ A.call = "publish"
    BY <1>3, AppCallIs DEF ClientPublish, At, A, IInv
  <2>2. m \in ToSet(accepted) /\ m \notin ToSet(sent)
    BY <1>3, <2>1 DEF IInv, Publications, OnceInv
  <2>3. UNCHANGED accepted /\ (sent' = Append(sent, m) \/ sent' = sent)
    BY <1>3 DEF ClientPublish, ClientSends
  <2> QED
    BY <2>2, <2>3 DEF Box!Deliver, Box!ToSet, ToSet
<1>4. ASSUME IInv, FlushPublish
      PROVE  (\E m \in Messages : Box!Deliver(m)) \/ UNCHANGED <<accepted, sent>>
  <2>1. M.pc = "publish" /\ InUse(M.at) /\ UNCHANGED accepted
        /\ (sent' = Append(sent, heap[M.at].what) \/ UNCHANGED sent)
    BY <1>4 DEF FlushPublish, ClientSends, At, M
  <2>2. M.call = "CONNECTED" /\ Flushing
    BY <1>4, <2>1, ClientCallIs DEF IInv, Flushing
  <2>3. Live(M.at)
    BY <1>4, <2>1, <2>2, FlushAt
  <2> PICK m \in Messages : m = heap[M.at].what
    BY <2>3 DEF Live
  <2>4. m \in ToSet(accepted)
    BY <1>4, <2>3 DEF IInv, Publications, OnceInv, Live
  <2>5. m \notin ToSet(sent)
    <3>1. PICK L \in SUBSET Entries, d \in 0 .. Len(heap) : PubAll(L, d)
      BY <1>4 DEF IInv, Publications, PubInv
    <3>2. PubList(L, d) /\ PubFlush(L, d)
      BY <3>1 DEF PubAll
    <3>3. M.at \in L
      BY <1>4, <2>1, <2>2, <3>2, FlushAt
    <3>4. Fresh(M.at)
      BY <2>1, <2>2, <3>2, <3>3 DEF PubFlush
    <3> QED
      BY <3>4 DEF Fresh
  <2> QED
    BY <2>1, <2>4, <2>5 DEF Box!Deliver, Box!ToSet, ToSet
<1>5. ASSUME IInv, [Next]_vars
      PROVE  [Box!Next]_<<ToSet(accepted), sent>>
  <2>1. CASE \E m \in Messages : Publish(m) \/ ClientPublish(m)
    <3>1. ASSUME UNCHANGED <<accepted, sent>> PROVE UNCHANGED <<ToSet(accepted), sent>>
      BY <3>1
    <3> QED
      BY <1>2, <1>3, <1>5, <2>1, <3>1 DEF Box!Next
  <2>2. CASE FlushPublish
    <3>1. ASSUME UNCHANGED <<accepted, sent>> PROVE UNCHANGED <<ToSet(accepted), sent>>
      BY <3>1
    <3> QED
      BY <1>4, <1>5, <2>2, <3>1 DEF Box!Next
  <2>3. CASE UNCHANGED <<accepted, sent>>
    BY <2>3
  <2>4. ASSUME App, ~(\E m \in Messages : Publish(m) \/ ClientPublish(m))
        PROVE  UNCHANGED <<accepted, sent>>
    BY <2>4 DEF App, Subscribe, SubscriptionAdd, Unsubscribe, SubscriptionRemove, AddPublication,
       Connect, Disconnect, FreeAll, FreeTake, FreeAdvance, FreeEntry, FreeReset, FreeCorrupts,
       ClientDestroy, Corrupts, Sound, histories
  <2>5. ASSUME Client, ~FlushPublish
        PROVE  UNCHANGED <<accepted, sent>>
    BY <2>5 DEF Client, MqttConnected, Flush, FlushStart, FlushNext, AddPublication,
       MqttDisconnected, MqttData, Message, MessageMatch, MessageNext, MessageDone,
       FreeAll, FreeTake, FreeAdvance, FreeEntry, FreeReset, FreeCorrupts,
       Corrupts, Sound, histories
  <2> QED
    BY <1>5, <2>1, <2>2, <2>3, <2>4, <2>5 DEF Next, vars
<1> QED
  BY <1>1, <1>5, Invariance, PTL DEF Spec, PublishesAtMostOnce, Box!Spec
=============================================================================
