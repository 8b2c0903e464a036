-------------------------------- MODULE Mqtt --------------------------------
(***************************************************************************)
(* The MQTT module (main/bgs_mqtt.c) at the grain of its pointers: its two *)
(* unlocked linked lists, the mqtt_connected flag and the client, used by  *)
(* the application's task, which calls the functions of bgs_mqtt.h, and by *)
(* the client's task, which calls mqtt_event_cb.                           *)
(*                                                                         *)
(* A step is one access of memory the two tasks share.  Entries are        *)
(* numbered in the order of their malloc and numbers are not used again,   *)
(* so that every access of a freed entry is noticed: it ends the behaviour *)
(* with ub naming the list.                                                *)
(***************************************************************************)
EXTENDS Integers, Sequences, FiniteSets, SequencesExt

CONSTANTS
    Topics,
    Messages,       \* publications; mqtt_publish is called once with each
    MaxEntries      \* bound: how often malloc is called for an entry

ASSUME MaxEntriesAssumption == MaxEntries \in Nat

(* Subscriptions and publications are entries of two types.                *)
ASSUME KindsAssumption == Topics \cap Messages = {}

VARIABLES
    heap,               \* entries: in use?, next, topic or message
    list,               \* subscription_list and publications_list
    mqtt_connected,
    client,             \* mqtt_handle: "none", or the state of its session
    task,               \* the two tasks: call, next step, locals
    accepted,           \* history: messages given to mqtt_publish, in order
    queued,             \* history: those put on publications_list
    sent,               \* history: messages published to the server
    refused,            \* history: messages esp_mqtt_client_publish failed with
    ub,                 \* list whose freed entry was accessed, or "none"
    raced               \* history: what calls of the two tasks overlapped on

vars == <<heap, list, mqtt_connected, client, task, accepted, queued, sent,
          refused, ub, raced>>
histories == <<accepted, queued, sent, refused>>

Null == 0
Entries == 1 .. Len(heap)
Tasks == {"app", "mqtt"}
Lists == {"subs", "pubs"}

AppCalls == {"subscribe", "unsubscribe", "unsubscribe_prefix", "publish",
             "disconnect"}
Events == {"CONNECTED", "DISCONNECTED", "DATA"}

Idle == [call |-> "none", pc |-> "idle", arg |-> {}, at |-> Null,
         new |-> Null, todo |-> {}]

ListOf(call) == IF call \in {"publish", "CONNECTED"} THEN "pubs" ELSE "subs"
ListOfTask(p) == ListOf(task[p].call)

----------------------------------------------------------------------------
(* Memory.  A place is where a pointer is kept: 0 is the head of a list,   *)
(* n the next field of entry n.                                            *)
InUse(n) == n # Null /\ heap[n].used
Valid(place) == place = 0 \/ InUse(place)
Deref(l, place) == IF place = 0 THEN list[l] ELSE heap[place].next

Store(l, place, p) ==
    IF place = 0 THEN list' = [list EXCEPT ![l] = p] /\ UNCHANGED heap
    ELSE heap' = [heap EXCEPT ![place].next = p] /\ UNCHANGED list

(* Bug: next is left as malloc returned it.                                *)
EntryUninitialized(w, next) ==
    [used |-> TRUE, next |-> Len(heap) + 2, what |-> w]

Entry(w, next) == [used |-> TRUE, next |-> next, what |-> w]
Freed == [used |-> FALSE, next |-> Null, what |-> {}]
CanAllocate == Len(heap) < MaxEntries
Allocated == Len(heap) + 1

(* The overlaps of two calls that the module does not survive: they free   *)
(* or relink the entries of a list the other one is on, or clear the flag  *)
(* the other one relies on.                                                *)
Touches(p) == task[p].pc \notin {"idle", "client_publish", "destroy"}

Overlap ==
    IF ~(Touches("app") /\ Touches("mqtt")) THEN {}
    ELSE LET a == task["app"].call
             e == task["mqtt"].call IN
         CASE a = "subscribe" /\ e = "DISCONNECTED" -> {"subs"}
           [] a \in {"unsubscribe", "unsubscribe_prefix", "disconnect"}
                /\ e \in {"DISCONNECTED", "DATA"} -> {"subs"}
           [] a = "publish" /\ e = "CONNECTED" -> {"pubs"}
           [] a = "disconnect" /\ e = "CONNECTED" -> {"flag"}
           [] OTHER -> {}

(* Task p is at pc, and goes on with its locals changed as in t.           *)
At(p, pc) == ub = "none" /\ task[p].pc = pc
Becomes(p, t) ==
    /\ task' = [task EXCEPT ![p] = t]
    /\ raced' = raced \cup Overlap'
GoesTo(p, pc) == Becomes(p, [task[p] EXCEPT !.pc = pc])

(* The access is not made: the entry it goes to has been freed.            *)
Corrupts(p, pc, n) ==
    /\ At(p, pc)
    /\ ~InUse(n)
    /\ ub' = ListOfTask(p)
    /\ UNCHANGED <<heap, list, mqtt_connected, client, task, histories, raced>>

(* What both tasks leave alone in a step on a list.                        *)
Sound == UNCHANGED <<mqtt_connected, client, histories, ub>>

(* The client's lock is held by its task during a callback.                *)
ClientFree == task["mqtt"] = Idle

(* esp_mqtt_client_publish: it fails without a session, and may fail with  *)
(* one.  Neither mqtt_publish's callers nor the flush look at the result.  *)
ClientSends(m) ==
    \/ /\ client = "online"
       /\ sent' = Append(sent, m)
       /\ UNCHANGED refused
    \/ /\ refused' = refused \cup {m}
       /\ UNCHANGED sent

----------------------------------------------------------------------------
Init ==
    /\ heap = <<>>
    /\ list = [l \in Lists |-> Null]
    /\ mqtt_connected = FALSE
    /\ client = "none"
    /\ task = [p \in Tasks |-> Idle]
    /\ accepted = <<>> /\ queued = {} /\ sent = <<>> /\ refused = {}
    /\ ub = "none"
    /\ raced = {}

----------------------------------------------------------------------------
(* mqtt_subscriptions_free and mqtt_publications_free, by either task.     *)
FreeTake(p) ==
    /\ At(p, "take")
    /\ LET n == list[ListOfTask(p)] IN
       Becomes(p, [task[p] EXCEPT !.at = n,
                                  !.pc = IF n = Null THEN "reset" ELSE "advance"])
    /\ UNCHANGED <<heap, list>> /\ Sound

FreeAdvance(p) ==
    /\ At(p, "advance") /\ InUse(task[p].at)
    /\ list' = [list EXCEPT ![ListOfTask(p)] = heap[task[p].at].next]
    /\ GoesTo(p, "free")
    /\ UNCHANGED heap /\ Sound

(* Bug: the entries are unlinked and not freed.                            *)
FreeEntryForgets(p) ==
    /\ At(p, "free") /\ InUse(task[p].at)
    /\ Becomes(p, [task[p] EXCEPT !.pc = "take", !.at = Null])
    /\ UNCHANGED <<heap, list>> /\ Sound

FreeEntry(p) ==
    /\ At(p, "free") /\ InUse(task[p].at)
    /\ heap' = [heap EXCEPT ![task[p].at] = Freed]
    /\ Becomes(p, [task[p] EXCEPT !.pc = "take", !.at = Null])
    /\ UNCHANGED list /\ Sound

FreeReset(p) ==
    /\ At(p, "reset")
    /\ list' = [list EXCEPT ![ListOfTask(p)] = Null]
    /\ Becomes(p, IF task[p].call = "disconnect"
                  THEN [task[p] EXCEPT !.pc = "destroy"] ELSE Idle)
    /\ UNCHANGED heap /\ Sound

FreeCorrupts(p) ==
    \E pc \in {"advance", "free"} : Corrupts(p, pc, task[p].at)

FreeAll(p) ==
    FreeTake(p) \/ FreeAdvance(p) \/ FreeEntry(p) \/ FreeReset(p)
        \/ FreeCorrupts(p)

(* mqtt_publication_add, by either task: next is read, then the head is    *)
(* written.                                                                *)
AddPublication(p, m, then) ==
    \/ /\ At(p, "add") /\ CanAllocate
       /\ heap' = Append(heap, Entry(m, list["pubs"]))
       /\ Becomes(p, [task[p] EXCEPT !.pc = "add_link", !.new = Allocated])
       /\ UNCHANGED list /\ Sound
    \/ /\ At(p, "add_link")
       /\ list' = [list EXCEPT !["pubs"] = task[p].new]
       /\ Becomes(p, IF then = "idle" THEN Idle
                     ELSE [task[p] EXCEPT !.pc = then, !.new = Null])
       /\ UNCHANGED heap /\ Sound

----------------------------------------------------------------------------
(* The application's task                                                  *)
AppFree == At("app", "idle")
Begin(call, pc, arg) ==
    Becomes("app", [Idle EXCEPT !.call = call, !.pc = pc, !.arg = arg])

(* mqtt_subscribe: what is refused changes nothing.                        *)
Subscribe(t) ==
    /\ AppFree /\ mqtt_connected
    /\ ClientFree /\ client = "online"
    /\ CanAllocate
    /\ heap' = Append(heap, Entry(t, Null))
    /\ Becomes("app", [Idle EXCEPT !.call = "subscribe", !.pc = "append",
                                   !.new = Allocated])
    /\ UNCHANGED list /\ Sound

(* mqtt_subscription_add: walk to the last next field, then write it.      *)
SubscriptionAdd ==
    \/ /\ At("app", "append") /\ Valid(task["app"].at)
       /\ LET n == Deref("subs", task["app"].at) IN
          Becomes("app", IF n = Null THEN [task["app"] EXCEPT !.pc = "append_link"]
                         ELSE [task["app"] EXCEPT !.at = n])
       /\ UNCHANGED <<heap, list>> /\ Sound
    \/ /\ At("app", "append_link") /\ Valid(task["app"].at)
       /\ Store("subs", task["app"].at, task["app"].new)
       /\ Becomes("app", Idle)
       /\ Sound
    \/ \E pc \in {"append", "append_link"} :
          task["app"].at # 0 /\ Corrupts("app", pc, task["app"].at)

(* mqtt_unsubscribe removes the first entry of a topic,                    *)
(* mqtt_unsubscribe_topic_prefix each entry of the topics with a prefix.   *)
(* Their calls on the client change nothing here.                          *)
Unsubscribe(ts) ==
    /\ AppFree
    /\ \/ Cardinality(ts) = 1 /\ Begin("unsubscribe", "find", ts)
       \/ Begin("unsubscribe_prefix", "find", ts)
    /\ UNCHANGED <<heap, list>> /\ Sound

SubscriptionRemove ==
    LET t == task["app"]
        n == Deref("subs", t.at)
    IN
    \/ /\ At("app", "find") /\ Valid(t.at)
       /\ \/ n = Null /\ Becomes("app", Idle)
          \/ InUse(n) /\ heap[n].what \notin t.arg
                /\ Becomes("app", [t EXCEPT !.at = n])
          \/ InUse(n) /\ heap[n].what \in t.arg
                /\ Becomes("app", [t EXCEPT !.pc = "unlink", !.new = n])
       /\ UNCHANGED <<heap, list>> /\ Sound
    \/ /\ At("app", "unlink") /\ Valid(t.at) /\ InUse(n)
       /\ Store("subs", t.at, heap[n].next)
       /\ GoesTo("app", "remove")
       /\ Sound
    \/ /\ At("app", "remove") /\ InUse(t.new)
       /\ heap' = [heap EXCEPT ![t.new] = Freed]
       /\ Becomes("app", IF t.call = "unsubscribe" THEN Idle
                         ELSE [t EXCEPT !.pc = "find", !.new = Null])
       /\ UNCHANGED list /\ Sound
    \/ \E pc \in {"find", "unlink"} :
          \/ t.at # 0 /\ Corrupts("app", pc, t.at)
          \/ Valid(t.at) /\ (pc = "unlink" \/ n # Null) /\ Corrupts("app", pc, n)
    \/ Corrupts("app", "remove", t.new)

(* mqtt_publish: the flag decides between the client and the list.         *)
Publish(m) ==
    /\ AppFree
    /\ m \notin ToSet(accepted)
    /\ accepted' = Append(accepted, m)
    /\ queued' = IF mqtt_connected THEN queued ELSE queued \cup {m}
    /\ Begin("publish", IF mqtt_connected THEN "client_publish" ELSE "add", {m})
    /\ UNCHANGED <<heap, list, mqtt_connected, client, sent, refused, ub>>

ClientPublish(m) ==
    /\ At("app", "client_publish") /\ ClientFree /\ task["app"].arg = {m}
    /\ ClientSends(m)
    /\ Becomes("app", Idle)
    /\ UNCHANGED <<heap, list, mqtt_connected, client, accepted, queued, ub>>

(* mqtt_connect replaces the client and leaves the flag and the lists.     *)
Connect ==
    /\ AppFree /\ ClientFree
    /\ client' \in {"offline", "none"}
    /\ UNCHANGED <<heap, list, mqtt_connected, task, histories, ub, raced>>

Disconnect ==
    /\ AppFree
    /\ mqtt_connected' = FALSE
    /\ Begin("disconnect", "take", {})
    /\ UNCHANGED <<heap, list, client, histories, ub>>

ClientDestroy ==
    /\ At("app", "destroy") /\ ClientFree
    /\ client' = "none"
    /\ Becomes("app", Idle)
    /\ UNCHANGED <<heap, list, mqtt_connected, histories, ub>>

App ==
    \/ \E t \in Topics : Subscribe(t)
    \/ SubscriptionAdd
    \/ \E ts \in SUBSET Topics \ {{}} : Unsubscribe(ts)
    \/ SubscriptionRemove
    \/ \E m \in Messages :
          \/ Publish(m) \/ ClientPublish(m)
          \/ task["app"].arg = {m} /\ AddPublication("app", m, "idle")
    \/ Connect \/ Disconnect \/ FreeAll("app") \/ ClientDestroy

----------------------------------------------------------------------------
(* The client's task: mqtt_event_cb                                        *)
Handle(event, pc) ==
    Becomes("mqtt", [Idle EXCEPT !.call = event, !.pc = pc])

(* Bug: the flag is not set before the queue is flushed.                   *)
MqttConnectedUnflagged ==
    /\ At("mqtt", "idle") /\ client = "offline"
    /\ client' = "online"
    /\ Handle("CONNECTED", "flush")
    /\ UNCHANGED <<heap, list, mqtt_connected, histories, ub>>

MqttConnected ==
    /\ At("mqtt", "idle") /\ client = "offline"
    /\ client' = "online"
    /\ mqtt_connected' = TRUE
    /\ Handle("CONNECTED", "flush")
    /\ UNCHANGED <<heap, list, histories, ub>>

(* mqtt_publications_publish: mqtt_publish for each entry, then            *)
(* mqtt_publications_free.                                                 *)
FlushStart ==
    /\ At("mqtt", "flush")
    /\ Becomes("mqtt", [task["mqtt"] EXCEPT
                           !.at = list["pubs"],
                           !.pc = IF list["pubs"] = Null THEN "take" ELSE "publish"])
    /\ UNCHANGED <<heap, list>> /\ Sound

FlushPublish ==
    LET n == task["mqtt"].at IN
    /\ At("mqtt", "publish") /\ InUse(n)
    /\ \/ /\ mqtt_connected
          /\ ClientSends(heap[n].what)
          /\ GoesTo("mqtt", "next")
       \/ /\ ~mqtt_connected
          /\ UNCHANGED <<sent, refused>>
          /\ Becomes("mqtt", [task["mqtt"] EXCEPT !.pc = "add",
                                                  !.arg = {heap[n].what}])
    /\ UNCHANGED <<heap, list, mqtt_connected, client, accepted, queued, ub>>

(* Bug: the queue is published and not freed.                              *)
FlushNextKeeps ==
    LET n == task["mqtt"].at IN
    /\ At("mqtt", "next") /\ InUse(n)
    /\ Becomes("mqtt", IF heap[n].next = Null THEN Idle
                       ELSE [task["mqtt"] EXCEPT !.at = heap[n].next, !.pc = "publish"])
    /\ UNCHANGED <<heap, list>> /\ Sound

FlushNext ==
    LET n == task["mqtt"].at IN
    /\ At("mqtt", "next") /\ InUse(n)
    /\ Becomes("mqtt", [task["mqtt"] EXCEPT
                           !.at = heap[n].next,
                           !.pc = IF heap[n].next = Null THEN "take" ELSE "publish"])
    /\ UNCHANGED <<heap, list>> /\ Sound

Flush ==
    \/ FlushStart \/ FlushPublish \/ FlushNext
    \/ \E m \in Messages :
          task["mqtt"].arg = {m} /\ AddPublication("mqtt", m, "next")
    \/ \E pc \in {"publish", "next"} : Corrupts("mqtt", pc, task["mqtt"].at)

MqttDisconnected ==
    /\ At("mqtt", "idle") /\ client # "none"
    /\ client' = "offline"
    /\ mqtt_connected' = FALSE
    /\ Handle("DISCONNECTED", "take")
    /\ UNCHANGED <<heap, list, histories, ub>>

(* The entries that mqtt_message_cb should call for topic t: those in the  *)
(* list, which the entry under construction is not.                        *)
Subscribers(t) ==
    {n \in Entries : heap[n].used /\ heap[n].what = t /\ n # task["app"].new}

MqttData(t) ==
    /\ At("mqtt", "idle") /\ client = "online"
    /\ Becomes("mqtt", [Idle EXCEPT !.call = "DATA", !.arg = {t},
                           !.pc = IF list["subs"] = Null THEN "done" ELSE "match",
                           !.at = list["subs"], !.todo = Subscribers(t)])
    /\ UNCHANGED <<heap, list>> /\ Sound

(* Bug: the search ends at the first entry of the topic.                   *)
MessageMatchFirst ==
    LET n == task["mqtt"].at IN
    /\ At("mqtt", "match") /\ InUse(n)
    /\ Becomes("mqtt", IF heap[n].what \in task["mqtt"].arg
                       THEN [task["mqtt"] EXCEPT !.pc = "done", !.todo = @ \ {n}]
                       ELSE [task["mqtt"] EXCEPT !.pc = "move"])
    /\ UNCHANGED <<heap, list>> /\ Sound

(* mqtt_message_cb: an entry's topic is compared and its callback, which   *)
(* waits for a place in the event queue, called before next is read.       *)
MessageMatch ==
    LET n == task["mqtt"].at IN
    /\ At("mqtt", "match") /\ InUse(n)
    /\ Becomes("mqtt", [task["mqtt"] EXCEPT
                           !.pc = "move",
                           !.todo = IF heap[n].what \in task["mqtt"].arg
                                    THEN @ \ {n} ELSE @])
    /\ UNCHANGED <<heap, list>> /\ Sound

MessageNext ==
    LET n == task["mqtt"].at IN
    /\ At("mqtt", "move") /\ InUse(n)
    /\ Becomes("mqtt", [task["mqtt"] EXCEPT
                           !.at = heap[n].next,
                           !.pc = IF heap[n].next = Null THEN "done" ELSE "match"])
    /\ UNCHANGED <<heap, list>> /\ Sound

MessageDone ==
    /\ At("mqtt", "done")
    /\ Becomes("mqtt", Idle)
    /\ UNCHANGED <<heap, list>> /\ Sound

Message ==
    \/ MessageMatch \/ MessageNext \/ MessageDone
    \/ \E pc \in {"match", "move"} : Corrupts("mqtt", pc, task["mqtt"].at)

Client ==
    \/ MqttConnected \/ Flush \/ MqttDisconnected
    \/ \E t \in Topics : MqttData(t)
    \/ Message \/ FreeAll("mqtt")

----------------------------------------------------------------------------
Next == App \/ Client

Spec == Init /\ [][Next]_vars

----------------------------------------------------------------------------
(* Properties                                                              *)

(* Every variable holds a value of its kind; pointers stay on the heap.    *)
TypeOK ==
    LET Pointers == 0 .. Len(heap) IN
    /\ heap \in Seq([used : {TRUE}, next : Pointers, what : Topics \cup Messages]
                        \cup {Freed})
    /\ Len(heap) <= MaxEntries
    /\ list \in [Lists -> Pointers]
    /\ mqtt_connected \in BOOLEAN
    /\ client \in {"none", "offline", "online"}
    /\ \A p \in Tasks : task[p].at \in Pointers /\ task[p].new \in Pointers
    /\ accepted \in Seq(Messages) /\ sent \in Seq(Messages)
    /\ queued \subseteq Messages /\ refused \subseteq Messages
    /\ ub \in Lists \cup {"none"}
    /\ raced \subseteq {"subs", "pubs", "flag"}

(* An entry in use that nothing points to any more.                        *)
Leaked(n) ==
    /\ heap[n].used
    /\ \A l \in Lists : list[l] # n
    /\ \A m \in Entries : heap[m].used => heap[m].next # n
    /\ \A p \in Tasks : n \notin {task[p].at, task[p].new}

(* The lists are not locked.  They are corrupted, by access to a freed     *)
(* entry or by losing one, only when two calls that free or relink entries *)
(* of the same list have overlapped: mqtt_subscribe during a message's     *)
(* callbacks, for one, is safe, and so is everything done in turn.         *)
MemorySound ==
    /\ ub # "none" => ub \in raced
    /\ (\E n \in Entries : Leaked(n)) => raced \cap Lists # {}

(* A message reaches each subscriber of its topic that was on the list     *)
(* when it arrived, whatever mqtt_subscribe appends meanwhile.             *)
MessageReachesSubscribers ==
    task["mqtt"].pc = "done" => task["mqtt"].todo = {} \/ "subs" \in raced

Waiting(m) ==
    \/ \E n \in Entries : heap[n].used /\ heap[n].what = m
    \/ task["app"].pc = "add" /\ task["app"].arg = {m}

(* A publication queued while there was no session is kept, through failed *)
(* attempts to connect and new sessions, until a flush has handed it to    *)
(* the client, unless a call of mqtt_publish or mqtt_disconnect overlaps   *)
(* the flush.  What the client refuses then is freed unpublished, as the   *)
(* flush ignores the result.                                               *)
QueuedUntilOffered ==
    ub = "none" /\ raced \cap {"pubs", "flag"} = {} =>
        \A m \in queued : Waiting(m) \/ m \in ToSet(sent) \cup refused

(* However the calls overlap, mqtt_publish implements Outbox: at most one  *)
(* delivery of each publication (the flush of mqtt_event_cb included).     *)
Box == INSTANCE Outbox WITH accepted <- ToSet(accepted), delivered <- sent
PublishesAtMostOnce == Box!Spec

(* "Publishing from queue" (bgs_mqtt.c): publications that waited for a    *)
(* session leave in the order they came.                                   *)
QueueKeepsOrder ==
    \A i, j \in 1 .. Len(sent) :
        i < j /\ {sent[i], sent[j]} \subseteq queued =>
            \E k, l \in 1 .. Len(accepted) :
                k < l /\ accepted[k] = sent[i] /\ accepted[l] = sent[j]
=============================================================================
