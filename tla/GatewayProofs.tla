--------------------------- MODULE GatewayProofs ---------------------------
(***************************************************************************)
(* Proofs about Gateway for every length of the event queue: its types,    *)
(* and that BLE scanning and the subscriptions follow the MQTT session     *)
(* (ScanFollowsSession).  The argument is about the verdicts in flight:    *)
(* the MQTT_CONNECTED and MQTT_DISCONNECTED events that the client's task  *)
(* has raised and blegw_task has not taken yet.                            *)
(***************************************************************************)
EXTENDS Gateway, SequencesExt, TLAPS, WellFoundedInduction, SequenceTheorems

----------------------------------------------------------------------------
(* Sequences that stand for C lists: what RemoveFirst (the unlinking of    *)
(* the first matching entry) and Append return.                            *)

(* Every non-empty set of naturals has a least element.                    *)
LEMMA MinExists ==
    ASSUME NEW S \in SUBSET Nat, S # {}
    PROVE  \E x \in S : \A y \in S : x <= y
<1>1. PICK x \in S : \A y \in S : ~(<<y, x>> \in OpToRel(<, Nat))
  BY NatLessThanWellFounded, WFMin
<1>2. \A y \in S : ~(y < x)
  BY <1>1 DEF OpToRel
<1> QED BY <1>2

(* The sequence without its element k, when k is the first that equals t.  *)
LEMMA RemoveFirstAt ==
    ASSUME NEW T, NEW s \in Seq(T), NEW t, NEW k \in 1 .. Len(s),
           s[k] = t, \A j \in 1 .. Len(s) : s[j] = t => k <= j
    PROVE  /\ RemoveFirst(s, t) \in Seq(T)
           /\ Len(RemoveFirst(s, t)) = Len(s) - 1
           /\ \A i \in 1 .. Len(s) - 1 :
                 RemoveFirst(s, t)[i] = IF i < k THEN s[i] ELSE s[i + 1]
<1> DEFINE I == {i \in 1 .. Len(s) : s[i] = t}
           m == Min(I)
<1>1. m = k
  <2>1. k \in I /\ \A y \in I : k <= y /\ y \in Nat
    OBVIOUS
  <2> QED BY <2>1 DEF Min
<1>2. RemoveFirst(s, t) = SubSeq(s, 1, m - 1) \o SubSeq(s, m + 1, Len(s))
  <2>1. \E i \in 1 .. Len(s) : s[i] = t
    OBVIOUS
  <2> QED
    BY <2>1 DEF RemoveFirst, RemoveAt, SelectInSeq
<1> HIDE DEF m
<1> DEFINE a == SubSeq(s, 1, k - 1)
           b == SubSeq(s, k + 1, Len(s))
<1>3. a \in Seq(T) /\ Len(a) = k - 1 /\ \A i \in 1 .. k - 1 : a[i] = s[i]
  OBVIOUS
<1>4. b \in Seq(T) /\ Len(b) = Len(s) - k /\ \A i \in 1 .. Len(s) - k : b[i] = s[k + i]
  OBVIOUS
<1>5. RemoveFirst(s, t) = a \o b
  BY <1>1, <1>2
<1> HIDE DEF a, b
<1> DEFINE c == a \o b
<1>6. /\ c \in Seq(T)
      /\ Len(c) = Len(a) + Len(b)
      /\ \A i \in 1 .. Len(a) + Len(b) : c[i] = IF i <= Len(a) THEN a[i] ELSE b[i - Len(a)]
  BY <1>3, <1>4, ConcatProperties
<1> HIDE DEF c
<1>7. Len(a) + Len(b) = Len(s) - 1 /\ Len(a) = k - 1
  BY <1>3, <1>4
<1>8. ASSUME NEW i \in 1 .. Len(s) - 1 PROVE c[i] = IF i < k THEN s[i] ELSE s[i + 1]
  <2>1. CASE i < k
    <3>1. c[i] = a[i] /\ i \in 1 .. k - 1
      BY <1>6, <1>7, <2>1
    <3> QED BY <1>3, <2>1, <3>1
  <2>2. CASE ~(i < k)
    <3>1. c[i] = b[i - (k - 1)] /\ i - (k - 1) \in 1 .. Len(s) - k
      BY <1>6, <1>7, <2>2
    <3>2. b[i - (k - 1)] = s[k + (i - (k - 1))] /\ k + (i - (k - 1)) = i + 1
      BY <1>4, <3>1
    <3> QED BY <2>2, <3>1, <3>2
  <2> QED BY <2>1, <2>2
<1> QED BY <1>5, <1>6, <1>7, <1>8 DEF c

(* Removing an element keeps the type of a sequence.                       *)
LEMMA RemoveFirstType ==
    ASSUME NEW T, NEW s \in Seq(T), NEW t
    PROVE  RemoveFirst(s, t) \in Seq(T)
<1>1. CASE \E i \in 1 .. Len(s) : s[i] = t
  <2>1. {i \in 1 .. Len(s) : s[i] = t} \in SUBSET Nat /\ {i \in 1 .. Len(s) : s[i] = t} # {}
    BY <1>1
  <2>2. PICK k \in {i \in 1 .. Len(s) : s[i] = t} :
            \A j \in {i \in 1 .. Len(s) : s[i] = t} : k <= j
    BY <2>1, MinExists
  <2> QED BY <2>2, RemoveFirstAt
<1>2. CASE ~\E i \in 1 .. Len(s) : s[i] = t
  BY <1>2 DEF RemoveFirst
<1> QED BY <1>1, <1>2

(* The sequences of at most two different elements.                        *)
LEMMA RemoveFirstSmall ==
    ASSUME NEW T, NEW x \in T, NEW y \in T, x # y
    PROVE  /\ RemoveFirst(<<>>, x) = <<>>
           /\ RemoveFirst(<<x>>, x) = <<>>
           /\ RemoveFirst(<<y>>, x) = <<y>>
           /\ RemoveFirst(<<x, y>>, x) = <<y>>
<1>1. RemoveFirst(<<>>, x) = <<>>
  BY DEF RemoveFirst
<1>2. RemoveFirst(<<y>>, x) = <<y>>
  <2>1. ~\E i \in 1 .. Len(<<y>>) : <<y>>[i] = x
    OBVIOUS
  <2> QED BY <2>1 DEF RemoveFirst
<1>3. RemoveFirst(<<x>>, x) = <<>>
  <2>1. <<x>> \in Seq(T) /\ Len(<<x>>) = 1 /\ <<x>>[1] = x
    OBVIOUS
  <2> DEFINE s == <<x>>
  <2>3. s \in Seq(T) /\ 1 \in 1 .. Len(s) /\ s[1] = x /\ \A j \in 1 .. Len(s) : s[j] = x => 1 <= j
    BY <2>1
  <2> HIDE DEF s
  <2>4. RemoveFirst(s, x) \in Seq(T) /\ Len(RemoveFirst(s, x)) = Len(s) - 1
    BY <2>3, RemoveFirstAt
  <2>2. RemoveFirst(<<x>>, x) \in Seq(T) /\ Len(RemoveFirst(<<x>>, x)) = 0
    BY <2>1, <2>4 DEF s
  <2> QED BY <2>2
<1>4. RemoveFirst(<<x, y>>, x) = <<y>>
  <2>1. <<x, y>> \in Seq(T) /\ Len(<<x, y>>) = 2 /\ <<x, y>>[1] = x /\ <<x, y>>[2] = y
    OBVIOUS
  <2> DEFINE s == <<x, y>>
             r == RemoveFirst(s, x)
  <2>2. s \in Seq(T) /\ 1 \in 1 .. Len(s) /\ s[1] = x /\ Len(s) = 2 /\ s[2] = y
        /\ \A j \in 1 .. Len(s) : s[j] = x => 1 <= j
    BY <2>1
  <2> HIDE DEF s
  <2>3. r \in Seq(T) /\ Len(r) = Len(s) - 1
        /\ \A i \in 1 .. Len(s) - 1 : r[i] = IF i < 1 THEN s[i] ELSE s[i + 1]
    BY <2>2, RemoveFirstAt
  <2> HIDE DEF r
  <2>4. Len(r) = 1 /\ r[1] = y
    BY <2>2, <2>3
  <2>5. r = <<y>>
    BY <2>3, <2>4
  <2> QED BY <2>5 DEF r, s
<1> QED BY <1>1, <1>2, <1>3, <1>4

(* Append, element by element.                                              *)
LEMMA AppendAny ==
    ASSUME NEW T, NEW s \in Seq(T), NEW y \in T
    PROVE  /\ Append(s, y) \in Seq(T)
           /\ Len(Append(s, y)) = Len(s) + 1
           /\ \A i \in 1 .. Len(s) : Append(s, y)[i] = s[i]
           /\ Append(s, y)[Len(s) + 1] = y
<1>1. Append(s, y) \in Seq(T) /\ Len(Append(s, y)) = Len(s) + 1
  OBVIOUS
<1>2. \A i \in 1 .. Len(s) : Append(s, y)[i] = s[i]
  OBVIOUS
<1>3. Append(s, y)[Len(s) + 1] = y
  OBVIOUS
<1> QED
  BY <1>1, <1>2, <1>3

(* Sequences of one and of two elements built by Append.                   *)
LEMMA AppendSmall ==
    ASSUME NEW T, NEW x \in T, NEW y \in T
    PROVE  Append(<<>>, x) = <<x>> /\ Append(<<x>>, y) = <<x, y>>
<1>1. Append(<<>>, x) = <<x>>
  OBVIOUS
<1>2. Append(<<x>>, y) = <<x, y>>
  <2> DEFINE s == <<x>>
  <2>1. s \in Seq(T) /\ Len(s) = 1 /\ s[1] = x
    OBVIOUS
  <2> HIDE DEF s
  <2> DEFINE r == Append(s, y)
             u == <<x, y>>
  <2>2. /\ r \in Seq(T)
        /\ Len(r) = Len(s) + 1
        /\ \A i \in 1 .. Len(s) : r[i] = s[i]
        /\ r[Len(s) + 1] = y
    <3>1. s \in Seq(T)
      BY <2>1
    <3> QED
      BY <3>1, AppendAny, Zenon
  <2> HIDE DEF r
  <2>3. Len(r) = 2 /\ r[1] = x /\ r[2] = y
    BY <2>1, <2>2
  <2>4. u \in Seq(T) /\ Len(u) = 2 /\ u[1] = x /\ u[2] = y
    OBVIOUS
  <2> HIDE DEF u
  <2>5. Len(r) = Len(u) /\ \A i \in 1 .. Len(r) : r[i] = u[i]
    BY <2>3, <2>4
  <2>6. r = u
    BY <2>2, <2>4, <2>5, SeqEqual
  <2> QED
    BY <2>6 DEF r, s, u
<1> QED
  BY <1>1, <1>2

----------------------------------------------------------------------------

C == "MQTT_CONNECTED"
D == "MQTT_DISCONNECTED"
Verdict == {C, D}

(* s holds no verdict.                                                     *)
NoVerdict(s) == \A i \in 1 .. Len(s) : s[i] \notin Verdict

(* The first, or the last, verdict of s is v.                              *)
FirstIs(s, v) ==
    \E i \in 1 .. Len(s) :
        s[i] = v /\ \A j \in 1 .. Len(s) : j < i => s[j] \notin Verdict
LastIs(s, v) ==
    \E i \in 1 .. Len(s) :
        s[i] = v /\ \A j \in 1 .. Len(s) : i < j => s[j] \notin Verdict

(* Every connection in s is followed by a disconnection.                   *)
Closed(s) ==
    \A i \in 1 .. Len(s) : s[i] = C => \E k \in 1 .. Len(s) : i < k /\ s[k] = D

(* Between two connections of s there is a disconnection.                  *)
Alternates(s) ==
    \A i, j \in 1 .. Len(s) :
        i < j /\ s[i] = C /\ s[j] = C
            => \E k \in 1 .. Len(s) : i < k /\ k < j /\ s[k] = D

----------------------------------------------------------------------------
(* The verdicts in flight: those of the queue, then the one being posted.  *)
None == NoVerdict(queue) /\ mq \notin Verdict
ConnectedFirst == FirstIs(queue, C) \/ (NoVerdict(queue) /\ mq = C)

Subscribing == gw \in {"subscribe_own", "add_own", "subscribe_all", "add_all",
                       "ble_scan_start"}
Cleaning == gw \in {"ble_disconnect_all", "ble_scan_stop", "unsubscribe_own",
                    "client_unsubscribe_own", "unsubscribe_all",
                    "client_unsubscribe_all"}

Clean == subs = <<>> /\ broker = {} /\ ~scan_requested
Complete == subs = <<"own", "all">> /\ broker = Topics /\ scan_requested

(* Until ble_initialize and mqtt_connect have run, nothing of a session    *)
(* exists.                                                                 *)
Fresh ==
    /\ client = "none" /\ ~mqtt_connected /\ mq = "idle" /\ Clean
    /\ NoVerdict(queue)

FreshInv ==
    /\ main # "running" => gw = "idle" /\ bt # "client"
    /\ bt # "client" =>
        Fresh /\ gw \in {"idle", "ble_initialize", "mqtt_disconnect",
                         "mqtt_destroy", "ble_disconnect_all", "restart"}
    /\ gw = "mqtt_connect" => Fresh

(* How far a handler has got while the client lives.                       *)
SubsInv ==
    /\ subs \in {<<>>, <<"own">>, <<"all">>, <<"own", "all">>}
    /\ gw \in {"subscribe_own", "add_own"} => subs = <<>>
    /\ gw \in {"subscribe_all", "add_all"} => subs \in {<<>>, <<"own">>}
    /\ gw = "client_unsubscribe_own" => subs \in {<<>>, <<"all">>}
    /\ gw = "unsubscribe_all" => subs \in {<<>>, <<"all">>} /\ "own" \notin broker
    /\ gw = "client_unsubscribe_all" => subs = <<>> /\ "own" \notin broker
    /\ gw \in {"unsubscribe_own", "client_unsubscribe_own", "unsubscribe_all",
               "client_unsubscribe_all"} => ~scan_requested

(* What the verdicts in flight say of the session.                         *)
FlightInv ==
    /\ Alternates(queue)
    /\ mq = C => client = "online" /\ Closed(queue)
    /\ mq = D => client = "offline"
    /\ mq \notin Verdict /\ client = "offline" => Closed(queue)
    /\ mq \notin Verdict /\ client = "online" => ~LastIs(queue, D)
    /\ mqtt_connected = (client = "online")
    /\ client = "offline" => broker = {}

(* What blegw_task has made of the verdicts it took.                       *)
TakenInv ==
    /\ Subscribing => ~ConnectedFirst
    /\ ~Subscribing /\ ~Cleaning /\ ConnectedFirst => Clean
    /\ None /\ Subscribing =>
        /\ client = "online"
        /\ gw = "subscribe_own" => broker = {}
        /\ gw = "add_own" => broker = {"own"}
        /\ gw = "subscribe_all" => subs = <<"own">> /\ broker = {"own"}
        /\ gw = "add_all" => subs = <<"own">> /\ broker = Topics
        /\ gw = "ble_scan_start" => subs = <<"own", "all">> /\ broker = Topics
    /\ None /\ Cleaning => client = "offline"
    /\ None /\ ~Subscribing /\ ~Cleaning =>
        IF client = "online" THEN Complete ELSE Clean

SessionInv ==
    client # "none" /\ gw # "mqtt_destroy" => SubsInv /\ FlightInv /\ TakenInv

IInv == TypeOK /\ FreshInv /\ SessionInv

----------------------------------------------------------------------------
(* What the queue's operations do to its verdicts                          *)

(* Appending anything but a verdict changes nothing.                       *)
LEMMA AppendOther ==
    ASSUME NEW s \in Seq(EventTypes), NEW e \in EventTypes \ Verdict
    PROVE  /\ NoVerdict(Append(s, e)) <=> NoVerdict(s)
           /\ FirstIs(Append(s, e), C) <=> FirstIs(s, C)
           /\ LastIs(Append(s, e), D) <=> LastIs(s, D)
           /\ Closed(s) => Closed(Append(s, e))
           /\ Alternates(s) => Alternates(Append(s, e))
<1> DEFINE t == Append(s, e)
<1>1. Len(t) = Len(s) + 1 /\ Len(s) \in Nat
  OBVIOUS
<1>2. \A i \in 1 .. Len(s) : t[i] = s[i]
  OBVIOUS
<1>3. t[Len(s) + 1] = e /\ e # C /\ e # D
  BY DEF Verdict
<1> HIDE DEF t
<1>4. NoVerdict(t) <=> NoVerdict(s)
  BY <1>1, <1>2, <1>3 DEF NoVerdict, Verdict
<1>5. FirstIs(t, C) <=> FirstIs(s, C)
  BY <1>1, <1>2, <1>3 DEF FirstIs, Verdict
<1>6. LastIs(t, D) <=> LastIs(s, D)
  BY <1>1, <1>2, <1>3 DEF LastIs, Verdict
<1>7. Closed(s) => Closed(t)
  BY <1>1, <1>2, <1>3 DEF Closed
<1>8. Alternates(s) => Alternates(t)
  BY <1>1, <1>2, <1>3 DEF Alternates
<1> QED
  BY <1>4, <1>5, <1>6, <1>7, <1>8 DEF t

(* Appending a connection to a sequence whose connections are all closed.  *)
LEMMA AppendConnected ==
    ASSUME NEW s \in Seq(EventTypes)
    PROVE  /\ ~NoVerdict(Append(s, C))
           /\ FirstIs(Append(s, C), C) <=> FirstIs(s, C) \/ NoVerdict(s)
           /\ ~LastIs(Append(s, C), D)
           /\ Closed(s) /\ Alternates(s) => Alternates(Append(s, C))
<1> DEFINE t == Append(s, C)
<1>1. Len(t) = Len(s) + 1 /\ Len(s) \in Nat
  OBVIOUS
<1>2. \A i \in 1 .. Len(s) : t[i] = s[i]
  OBVIOUS
<1>3. t[Len(s) + 1] = C /\ C # D
  BY DEF C, D
<1> HIDE DEF t
<1>4. ~NoVerdict(t)
  BY <1>1, <1>3 DEF NoVerdict, Verdict
<1>5. FirstIs(t, C) <=> FirstIs(s, C) \/ NoVerdict(s)
  BY <1>1, <1>2, <1>3 DEF FirstIs, NoVerdict, Verdict
<1>6. ~LastIs(t, D)
  BY <1>1, <1>2, <1>3 DEF LastIs, Verdict
<1>7. Closed(s) /\ Alternates(s) => Alternates(t)
  BY <1>1, <1>2, <1>3 DEF Closed, Alternates
<1> QED
  BY <1>4, <1>5, <1>6, <1>7 DEF t

(* Appending a disconnection closes every connection.                      *)
LEMMA AppendDisconnected ==
    ASSUME NEW s \in Seq(EventTypes)
    PROVE  /\ ~NoVerdict(Append(s, D))
           /\ FirstIs(Append(s, D), C) <=> FirstIs(s, C)
           /\ Closed(Append(s, D))
           /\ Alternates(s) => Alternates(Append(s, D))
<1> DEFINE t == Append(s, D)
<1>1. Len(t) = Len(s) + 1 /\ Len(s) \in Nat
  OBVIOUS
<1>2. \A i \in 1 .. Len(s) : t[i] = s[i]
  OBVIOUS
<1>3. t[Len(s) + 1] = D /\ C # D
  BY DEF C, D
<1> HIDE DEF t
<1>4. ~NoVerdict(t)
  BY <1>1, <1>3 DEF NoVerdict, Verdict
<1>5. FirstIs(t, C) <=> FirstIs(s, C)
  BY <1>1, <1>2, <1>3 DEF FirstIs, Verdict
<1>6. Closed(t)
  BY <1>1, <1>2, <1>3 DEF Closed
<1>7. Alternates(s) => Alternates(t)
  BY <1>1, <1>2, <1>3 DEF Alternates
<1> QED
  BY <1>4, <1>5, <1>6, <1>7 DEF t

(* Taking the head of the queue.                                           *)
LEMMA TakeHead ==
    ASSUME NEW s \in Seq(EventTypes), s # <<>>
    PROVE  /\ Closed(s) => Closed(Tail(s))
           /\ Alternates(s) => Alternates(Tail(s))
           /\ NoVerdict(s) => NoVerdict(Tail(s))
           /\ LastIs(Tail(s), D) => LastIs(s, D)
           /\ Head(s) \notin Verdict =>
                /\ NoVerdict(Tail(s)) <=> NoVerdict(s)
                /\ FirstIs(Tail(s), C) <=> FirstIs(s, C)
           /\ Head(s) = C =>
                /\ FirstIs(s, C)
                /\ Alternates(s) => ~FirstIs(Tail(s), C)
                /\ NoVerdict(Tail(s)) => ~Closed(s)
                /\ ~NoVerdict(s)
                /\ Closed(s) => ~NoVerdict(Tail(s))
           /\ Head(s) = D =>
                /\ NoVerdict(Tail(s)) => LastIs(s, D)
                /\ ~NoVerdict(s)
<1> DEFINE t == Tail(s)
<1>1. Len(t) = Len(s) - 1 /\ Len(s) \in Nat \ {0}
  OBVIOUS
<1>2. \A i \in 1 .. Len(t) : t[i] = s[i + 1]
  OBVIOUS
<1>3. Head(s) = s[1] /\ C # D
  BY DEF C, D
<1>4. \A i \in 2 .. Len(s) : i - 1 \in 1 .. Len(t) /\ s[i] = t[i - 1]
  BY <1>1, <1>2
<1> HIDE DEF t
<1>5. Closed(s) => Closed(t)
  <2>1. SUFFICES ASSUME Closed(s), NEW i \in 1 .. Len(t), t[i] = C
                 PROVE  \E k \in 1 .. Len(t) : i < k /\ t[k] = D
    BY DEF Closed
  <2>2. i + 1 \in 1 .. Len(s) /\ s[i + 1] = C
    BY <1>1, <1>2, <2>1
  <2>3. PICK k \in 1 .. Len(s) : i + 1 < k /\ s[k] = D
    BY <2>1, <2>2 DEF Closed
  <2>4. k - 1 \in 1 .. Len(t) /\ i < k - 1 /\ t[k - 1] = D
    BY <1>1, <1>4, <2>3
  <2> QED
    BY <2>4
<1>6. Alternates(s) => Alternates(t)
  <2>1. SUFFICES ASSUME Alternates(s), NEW i \in 1 .. Len(t), NEW j \in 1 .. Len(t),
                        i < j, t[i] = C, t[j] = C
                 PROVE  \E k \in 1 .. Len(t) : i < k /\ k < j /\ t[k] = D
    BY DEF Alternates
  <2>2. /\ i + 1 \in 1 .. Len(s) /\ s[i + 1] = C
        /\ j + 1 \in 1 .. Len(s) /\ s[j + 1] = C
        /\ i + 1 < j + 1
    BY <1>1, <1>2, <2>1
  <2>3. PICK k \in 1 .. Len(s) : i + 1 < k /\ k < j + 1 /\ s[k] = D
    BY <2>1, <2>2 DEF Alternates
  <2>4. k - 1 \in 1 .. Len(t) /\ i < k - 1 /\ k - 1 < j /\ t[k - 1] = D
    BY <1>1, <1>4, <2>3
  <2> QED
    BY <2>4
<1>7. NoVerdict(s) => NoVerdict(t)
  BY <1>1, <1>2 DEF NoVerdict
<1>8. LastIs(t, D) => LastIs(s, D)
  <2>1. SUFFICES ASSUME LastIs(t, D) PROVE LastIs(s, D)
    OBVIOUS
  <2>2. PICK i \in 1 .. Len(t) :
             t[i] = D /\ \A j \in 1 .. Len(t) : i < j => t[j] \notin Verdict
    BY <2>1 DEF LastIs
  <2>3. i + 1 \in 1 .. Len(s) /\ s[i + 1] = D
    BY <1>1, <1>2, <2>2
  <2>4. ASSUME NEW j \in 1 .. Len(s), i + 1 < j PROVE s[j] \notin Verdict
    <3>1. j - 1 \in 1 .. Len(t) /\ i < j - 1 /\ s[j] = t[j - 1]
      BY <1>1, <1>4, <2>4
    <3> QED
      BY <2>2, <3>1
  <2> QED
    BY <2>3, <2>4 DEF LastIs
<1>9. ASSUME Head(s) \notin Verdict
      PROVE  (NoVerdict(t) <=> NoVerdict(s)) /\ (FirstIs(t, C) <=> FirstIs(s, C))
  <2>1. NoVerdict(t) <=> NoVerdict(s)
    BY <1>1, <1>2, <1>3, <1>4, <1>9 DEF NoVerdict
  <2>2. ASSUME FirstIs(t, C) PROVE FirstIs(s, C)
    <3>1. PICK i \in 1 .. Len(t) :
               t[i] = C /\ \A j \in 1 .. Len(t) : j < i => t[j] \notin Verdict
      BY <2>2 DEF FirstIs
    <3>2. i + 1 \in 1 .. Len(s) /\ s[i + 1] = C
      BY <1>1, <1>2, <3>1
    <3>3. ASSUME NEW j \in 1 .. Len(s), j < i + 1 PROVE s[j] \notin Verdict
      <4>1. CASE j = 1
        BY <1>3, <1>9, <4>1
      <4>2. CASE j # 1
        <5>1. j - 1 \in 1 .. Len(t) /\ j - 1 < i /\ s[j] = t[j - 1]
          BY <1>1, <1>4, <3>3, <4>2
        <5> QED
          BY <3>1, <5>1
      <4> QED
        BY <4>1, <4>2
    <3> QED
      BY <3>2, <3>3 DEF FirstIs
  <2>3. ASSUME FirstIs(s, C) PROVE FirstIs(t, C)
    <3>1. PICK i \in 1 .. Len(s) :
               s[i] = C /\ \A j \in 1 .. Len(s) : j < i => s[j] \notin Verdict
      BY <2>3 DEF FirstIs
    <3>2. i # 1
      BY <1>3, <1>9, <3>1 DEF Verdict
    <3>3. i - 1 \in 1 .. Len(t) /\ t[i - 1] = C
      BY <1>1, <1>4, <3>1, <3>2
    <3>4. ASSUME NEW j \in 1 .. Len(t), j < i - 1 PROVE t[j] \notin Verdict
      BY <1>1, <1>2, <3>1, <3>4
    <3> QED
      BY <3>3, <3>4 DEF FirstIs
  <2> QED
    BY <2>1, <2>2, <2>3
<1>10. ASSUME Head(s) = C
       PROVE  /\ FirstIs(s, C)
              /\ Alternates(s) => ~FirstIs(t, C)
              /\ NoVerdict(t) => ~Closed(s)
              /\ ~NoVerdict(s)
              /\ Closed(s) => ~NoVerdict(t)
  <2>1. FirstIs(s, C) /\ ~NoVerdict(s)
    BY <1>1, <1>3, <1>10 DEF FirstIs, NoVerdict, Verdict
  <2>2. ASSUME Alternates(s), FirstIs(t, C) PROVE FALSE
    <3>1. PICK i \in 1 .. Len(t) :
               t[i] = C /\ \A j \in 1 .. Len(t) : j < i => t[j] \notin Verdict
      BY <2>2 DEF FirstIs
    <3>2. 1 \in 1 .. Len(s) /\ i + 1 \in 1 .. Len(s) /\ 1 < i + 1 /\ s[i + 1] = C
      BY <1>1, <1>2, <3>1
    <3>3. PICK k \in 1 .. Len(s) : 1 < k /\ k < i + 1 /\ s[k] = D
      BY <1>3, <1>10, <2>2, <3>2 DEF Alternates
    <3>4. k - 1 \in 1 .. Len(t) /\ k - 1 < i /\ t[k - 1] = D
      BY <1>1, <1>4, <3>3
    <3> QED
      BY <3>1, <3>4 DEF Verdict
  <2>3. ASSUME NoVerdict(t), Closed(s) PROVE FALSE
    <3>1. PICK k \in 1 .. Len(s) : 1 < k /\ s[k] = D
      BY <1>1, <1>3, <1>10, <2>3 DEF Closed
    <3>2. k - 1 \in 1 .. Len(t) /\ t[k - 1] = D
      BY <1>1, <1>4, <3>1
    <3> QED
      BY <2>3, <3>2 DEF NoVerdict, Verdict
  <2> QED
    BY <2>1, <2>2, <2>3
<1>11. ASSUME Head(s) = D
       PROVE  (NoVerdict(t) => LastIs(s, D)) /\ ~NoVerdict(s)
  <2>1. 1 \in 1 .. Len(s) /\ s[1] = D
    BY <1>1, <1>3, <1>11
  <2>2. ASSUME NoVerdict(t), NEW j \in 1 .. Len(s), 1 < j PROVE s[j] \notin Verdict
    <3>1. j - 1 \in 1 .. Len(t) /\ s[j] = t[j - 1]
      BY <1>1, <1>4, <2>2
    <3> QED
      BY <2>2, <3>1 DEF NoVerdict
  <2> QED
    BY <2>1, <2>2 DEF LastIs, NoVerdict, Verdict
<1> QED
  BY <1>5, <1>6, <1>7, <1>8, <1>9, <1>10, <1>11 DEF t

----------------------------------------------------------------------------
(* Types                                                                   *)

(* Appending to the queue where there is room keeps its type and bound.    *)
LEMMA PostType ==
    ASSUME TypeOK, NEW e \in EventTypes, Post(e)
    PROVE  queue' \in Seq(EventTypes) /\ Len(queue') <= QueueLen
  BY QueueLenAssumption DEF TypeOK, Post, Room

(* The empty queue and the empty subscription list.                        *)
LEMMA EmptyType ==
    /\ <<>> \in Seq(EventTypes) /\ Len(<<>>) <= QueueLen
    /\ <<>> \in Seq(Topics)
    /\ {} \in SUBSET Topics
  BY QueueLenAssumption

(* The program starts well typed.                                          *)
LEMMA TypeInit == Init => TypeOK
  BY EmptyType DEF Init, TypeOK, Calls

(* No step of any task leaves the types.                                   *)
LEMMA TypeStep == TypeOK /\ [Next]_vars => TypeOK'
<1> SUFFICES ASSUME TypeOK, [Next]_vars PROVE TypeOK'
  OBVIOUS
<1> USE DEF netVars, mqttVars
<1>1. CASE Main
  BY <1>1 DEF TypeOK, Main, BlufiStart, BlufiStarted, StartBlegwTask, Runs
<1>2. CASE Network
  <2>1. CASE GotIp
    BY <2>1 DEF TypeOK, GotIp, Runs, NetworkEvents
  <2>2. CASE StaDisconnected
    BY <2>2 DEF TypeOK, StaDisconnected, Runs, NetworkEvents
  <2>3. CASE NetworkPost
    <3>1. ev \in EventTypes
      BY <2>3 DEF NetworkPost, TypeOK, EventTypes
    <3>2. queue' \in Seq(EventTypes) /\ Len(queue') <= QueueLen
      BY <2>3, <3>1, PostType DEF NetworkPost
    <3> QED
      BY <2>3, <3>2 DEF TypeOK, NetworkPost, Runs
  <2>4. CASE NetworkPostNoQueue
    BY <2>4 DEF TypeOK, NetworkPostNoQueue, Fail
  <2> QED
    BY <1>2, <2>1, <2>2, <2>3, <2>4 DEF Network
<1>3. CASE Mqtt
  <2>1. CASE MqttConnected
    BY <2>1 DEF TypeOK, MqttConnected, Runs, MqttEvents
  <2>2. CASE MqttDisconnected
    BY <2>2, EmptyType DEF TypeOK, MqttDisconnected, Runs, MqttEvents
  <2>3. CASE MqttData
    BY <2>3 DEF TypeOK, MqttData, Runs, MqttEvents
  <2>4. CASE MqttPost
    <3>1. mq \in EventTypes
      BY <2>4 DEF MqttPost, TypeOK, EventTypes
    <3>2. queue' \in Seq(EventTypes) /\ Len(queue') <= QueueLen
      BY <2>4, <3>1, PostType DEF MqttPost
    <3> QED
      BY <2>4, <3>2 DEF TypeOK, MqttPost, Runs
  <2> QED
    BY <1>3, <2>1, <2>2, <2>3, <2>4 DEF Mqtt
<1>4. CASE Heartbeat
  <2>1. queue' \in Seq(EventTypes) /\ Len(queue') <= QueueLen
    BY <1>4, PostType DEF Heartbeat, EventTypes
  <2> QED
    BY <1>4, <2>1 DEF TypeOK, Heartbeat, Runs
<1>5. CASE ScanResult
  <2>1. queue' \in Seq(EventTypes) /\ Len(queue') <= QueueLen
    BY <1>5, PostType DEF ScanResult, EventTypes
  <2> QED
    BY <1>5, <2>1 DEF TypeOK, ScanResult, Runs
<1>6. CASE BlegwTask
  <2>1. CASE Receive
    <3>1. Handler(Head(queue)) \in Calls
      BY DEF Handler, Calls
    <3>2. Tail(queue) \in Seq(EventTypes) /\ Len(Tail(queue)) <= QueueLen
      BY <2>1, QueueLenAssumption DEF Receive, TypeOK
    <3> QED
      BY <2>1, <3>1, <3>2 DEF TypeOK, Receive, Runs
  <2>2. CASE Restart \/ BleInitializeFails \/ BleDisconnectAllFails
    BY <2>2 DEF TypeOK, Restart, BleInitializeFails, BleDisconnectAllFails, Fail
  <2>3. CASE BleInitialize
    BY <2>3 DEF TypeOK, BleInitialize, Runs, Calls
  <2>4. CASE MqttConnect
    BY <2>4 DEF TypeOK, MqttConnect, Runs, Calls
  <2>5. CASE MqttDisconnect
    <3>1. subs' \in Seq(Topics) /\ mqtt_connected' \in BOOLEAN
      BY <2>5, EmptyType DEF MqttDisconnect
    <3>2. UNCHANGED <<netVars, queue, client, mq, broker, scan_requested, abort>>
      BY <2>5 DEF MqttDisconnect, Runs
    <3>3. gw' \in Calls
      BY <2>5 DEF MqttDisconnect, Calls
    <3> QED
      BY <3>1, <3>2, <3>3 DEF TypeOK
  <2>6. CASE MqttDestroy
    BY <2>6 DEF TypeOK, MqttDestroy, Runs, Calls
  <2>7. CASE BleDisconnectAll \/ BleScanStop \/ BleScanStart
    BY <2>7 DEF TypeOK, BleDisconnectAll, BleScanStop, BleScanStart, Runs, Calls
  <2>8. CASE ManagementUnsubscribe
    <3>1. RemoveFirst(subs, "own") \in Seq(Topics) /\ RemoveFirst(subs, "all") \in Seq(Topics)
      BY RemoveFirstType DEF TypeOK
    <3> QED
      BY <2>8, <3>1 DEF TypeOK, ManagementUnsubscribe, Unsubscribe, ClientUnsubscribe,
                        Runs, Calls
  <2>9. CASE ManagementSubscribe
    <3>1. Append(subs, "own") \in Seq(Topics) /\ Append(subs, "all") \in Seq(Topics)
      BY DEF TypeOK, Topics
    <3>2. "own" \in Topics /\ "all" \in Topics
      BY DEF Topics
    <3> QED
      BY <2>9, <3>1, <3>2 DEF TypeOK, ManagementSubscribe, SubscribeRefused,
                              ClientSubscribe, SubscriptionAdd, Runs, Calls
  <2> QED
    BY <1>6, <2>1, <2>2, <2>3, <2>4, <2>5, <2>6, <2>7, <2>8, <2>9 DEF BlegwTask
<1>7. CASE Reboot
  BY <1>7, EmptyType DEF TypeOK, Reboot, Calls
<1>8. CASE UNCHANGED vars
  BY <1>8 DEF TypeOK, vars
<1> QED
  BY <1>1, <1>2, <1>3, <1>4, <1>5, <1>6, <1>7, <1>8 DEF Next

(* Every reachable state is well typed, and the queue never exceeds its    *)
(* length, for every length.                                               *)
THEOREM TypeCorrect == Spec => []TypeOK
  BY TypeInit, TypeStep, PTL DEF Spec

----------------------------------------------------------------------------
(* Scanning follows the session                                            *)

(* A queue without verdicts promises nothing.                              *)
LEMMA NoVerdictFacts ==
    ASSUME NEW s, NoVerdict(s)
    PROVE  Closed(s) /\ Alternates(s) /\ ~FirstIs(s, C) /\ ~LastIs(s, D)
  BY DEF NoVerdict, Closed, Alternates, FirstIs, LastIs, Verdict

(* The empty queue holds no verdict.                                       *)
LEMMA EmptyNoVerdict == NoVerdict(<<>>)
  BY DEF NoVerdict

(* A step that raises no verdict, takes none, and leaves the session and   *)
(* the handler where they are.                                             *)
LEMMA StutterStep ==
    ASSUME IInv, UNCHANGED <<client, mqtt_connected, mq, subs, broker,
                             scan_requested, gw, queue>>,
           bt' = "client" <=> bt = "client",
           main = "running" => main' = "running"
    PROVE  FreshInv' /\ SessionInv'
  BY DEF IInv, FreshInv, SessionInv, SubsInv, FlightInv, TakenInv, Fresh,
         Clean, Complete, None, ConnectedFirst, Subscribing, Cleaning

(* So does queueing any other event.                                       *)
LEMMA PostOtherStep ==
    ASSUME IInv, NEW e \in EventTypes \ Verdict, queue' = Append(queue, e),
           mq' = mq \/ (mq = e /\ mq' = "idle"),
           UNCHANGED <<client, mqtt_connected, subs, broker,
                       scan_requested, gw, bt, main>>
    PROVE  FreshInv' /\ SessionInv'
<1>1. /\ NoVerdict(queue') <=> NoVerdict(queue)
      /\ FirstIs(queue', C) <=> FirstIs(queue, C)
      /\ LastIs(queue', D) <=> LastIs(queue, D)
      /\ Closed(queue) => Closed(queue')
      /\ Alternates(queue) => Alternates(queue')
  BY AppendOther DEF IInv, TypeOK
<1>2. e # C /\ e # D /\ "idle" \notin Verdict
  BY DEF Verdict, C, D
<1>3. FreshInv'
  BY <1>1, <1>2 DEF IInv, FreshInv, Fresh, Clean
<1>4. SessionInv'
  BY <1>1, <1>2 DEF IInv, SessionInv, SubsInv, FlightInv, TakenInv, Clean,
         Complete, None, ConnectedFirst, Subscribing, Cleaning, Verdict
<1> QED
  BY <1>3, <1>4

(* A reset establishes the invariant.                                      *)
LEMMA InvInit == Init => IInv
<1> SUFFICES ASSUME Init PROVE IInv
  OBVIOUS
<1>1. TypeOK
  BY TypeInit
<1>2. NoVerdict(queue)
  BY EmptyNoVerdict DEF Init
<1> QED
  BY <1>1, <1>2 DEF Init, IInv, FreshInv, SessionInv, Fresh, Clean

(* A reset leaves the initial state.                                       *)
LEMMA RebootStep == Reboot => Init'
  BY DEF Reboot, Init

(* app_main's steps.                                                       *)
LEMMA MainStep ==
    ASSUME IInv, Main PROVE FreshInv' /\ SessionInv'
<1> USE DEF netVars, mqttVars, Runs
<1>1. CASE BlufiStart
  <2>1. bt # "client"
    BY <1>1 DEF BlufiStart, IInv, FreshInv
  <2> QED
    BY <1>1, <2>1, StutterStep DEF BlufiStart
<1>2. CASE BlufiStarted
  BY <1>2, StutterStep DEF BlufiStarted
<1>3. CASE StartBlegwTask
  BY <1>3, StutterStep DEF StartBlegwTask
<1> QED
  BY <1>1, <1>2, <1>3 DEF Main

(* The event loop task: its events are not verdicts.                       *)
LEMMA NetworkStep ==
    ASSUME IInv, Network PROVE FreshInv' /\ SessionInv'
<1> USE DEF netVars, mqttVars, Runs
<1>1. CASE GotIp
  BY <1>1, StutterStep DEF GotIp
<1>2. CASE StaDisconnected
  BY <1>2, StutterStep DEF StaDisconnected
<1>3. CASE NetworkPost
  <2>1. ev \in EventTypes \ Verdict
    BY <1>3 DEF NetworkPost, IInv, TypeOK, EventTypes, NetworkEvents, Verdict, C, D
  <2> QED
    BY <1>3, <2>1, PostOtherStep DEF NetworkPost, Post
<1>4. CASE NetworkPostNoQueue
  BY <1>4, StutterStep DEF NetworkPostNoQueue, Fail
<1> QED
  BY <1>1, <1>2, <1>3, <1>4 DEF Network

(* A new session: its connection joins the verdicts in flight, and the     *)
(* disconnection before it is still among them or has been handled.        *)
LEMMA MqttConnectedStep ==
    ASSUME IInv, MqttConnected PROVE FreshInv' /\ SessionInv'
<1> USE DEF netVars, mqttVars, Runs
<1>1. bt = "client" /\ main = "running" /\ gw # "mqtt_connect"
  BY DEF MqttConnected, IInv, FreshInv, Fresh
<1>2. FreshInv'
  BY <1>1 DEF MqttConnected, FreshInv
<1>3. ASSUME gw # "mqtt_destroy" PROVE SubsInv' /\ FlightInv' /\ TakenInv'
  <2>1. SubsInv /\ FlightInv /\ TakenInv
    BY <1>3 DEF MqttConnected, IInv, SessionInv
  <2>2. SubsInv'
    BY <2>1 DEF MqttConnected, SubsInv
  <2>3. Closed(queue)
    BY <2>1 DEF MqttConnected, FlightInv, Verdict, C, D
  <2>4. FlightInv'
    BY <2>1, <2>3 DEF MqttConnected, FlightInv, Verdict, C, D
  <2>5. NoVerdict(queue) => None
    BY DEF MqttConnected, None, Verdict, C, D
  <2>6. NoVerdict(queue) => ~Subscribing
    BY <2>1, <2>5 DEF MqttConnected, TakenInv
  <2>7. NoVerdict(queue) /\ ~Cleaning => Clean
    BY <2>1, <2>5, <2>6 DEF MqttConnected, TakenInv
  <2>8. UNCHANGED <<subs, scan_requested, gw, queue>> /\ broker' = {} /\ mq' = C
    BY DEF MqttConnected, C
  <2>9. TakenInv'
    BY <2>1, <2>6, <2>7, <2>8 DEF TakenInv, None, ConnectedFirst, Subscribing,
       Cleaning, Clean, Verdict
  <2> QED
    BY <2>2, <2>4, <2>9
<1> QED
  BY <1>2, <1>3 DEF SessionInv, MqttConnected

(* The end of a session, or of an attempt: the list is emptied at once.    *)
LEMMA MqttDisconnectedStep ==
    ASSUME IInv, MqttDisconnected PROVE FreshInv' /\ SessionInv'
<1> USE DEF netVars, mqttVars, Runs
<1>1. bt = "client" /\ main = "running" /\ gw # "mqtt_connect"
  BY DEF MqttDisconnected, IInv, FreshInv, Fresh
<1>2. FreshInv'
  BY <1>1 DEF MqttDisconnected, FreshInv
<1>3. ASSUME gw # "mqtt_destroy" PROVE SubsInv' /\ FlightInv' /\ TakenInv'
  <2>1. SubsInv /\ FlightInv /\ TakenInv
    BY <1>3 DEF MqttDisconnected, IInv, SessionInv
  <2>2. /\ UNCHANGED <<scan_requested, gw, queue>>
        /\ broker' = {} /\ subs' = <<>> /\ mq' = D /\ mq \notin Verdict
        /\ client' = "offline" /\ mqtt_connected' = FALSE /\ C # D
    BY DEF MqttDisconnected, C, D, Verdict
  <2>3. SubsInv'
    BY <2>1, <2>2 DEF SubsInv
  <2>4. FlightInv'
    BY <2>1, <2>2 DEF FlightInv, Verdict
  <2>5. FirstIs(queue, C) => ConnectedFirst
    BY DEF ConnectedFirst
  <2>6. TakenInv'
    BY <2>1, <2>2, <2>5 DEF TakenInv, None, ConnectedFirst, Subscribing,
       Cleaning, Clean, Verdict
  <2> QED
    BY <2>3, <2>4, <2>6
<1> QED
  BY <1>2, <1>3 DEF SessionInv, MqttDisconnected

(* A restart command is no verdict.                                        *)
LEMMA MqttDataStep ==
    ASSUME IInv, MqttData PROVE FreshInv' /\ SessionInv'
<1> USE DEF netVars, mqttVars, Runs
<1>1. bt = "client" /\ main = "running" /\ gw # "mqtt_connect"
  BY DEF MqttData, IInv, FreshInv, Fresh
<1>2. FreshInv'
  BY <1>1 DEF MqttData, FreshInv
<1>3. mq \notin Verdict /\ mq' \notin Verdict /\ C \in Verdict /\ D \in Verdict
  BY DEF MqttData, Verdict, C, D
<1>4. SessionInv'
  BY <1>3 DEF MqttData, IInv, SessionInv, SubsInv, FlightInv, TakenInv, Clean,
         Complete, None, ConnectedFirst, Subscribing, Cleaning
<1> QED
  BY <1>2, <1>4

(* A verdict moves from the callback to the queue.                         *)
LEMMA MqttPostStep ==
    ASSUME IInv, MqttPost PROVE FreshInv' /\ SessionInv'
<1> USE DEF netVars, mqttVars, Runs
<1>1. bt = "client" /\ main = "running" /\ gw # "mqtt_connect"
  BY DEF MqttPost, IInv, FreshInv, Fresh
<1>2. FreshInv'
  BY <1>1 DEF MqttPost, FreshInv
<1>3. CASE mq \notin Verdict
  <2>1. mq \in EventTypes \ Verdict
    BY <1>3 DEF MqttPost, IInv, TypeOK, EventTypes
  <2> QED
    BY <2>1, PostOtherStep DEF MqttPost, Post
<1>4. queue' = Append(queue, mq) /\ mq' \notin Verdict /\ C \in Verdict /\ D \in Verdict
      /\ C # D /\ mq' # C /\ mq' # D
      /\ UNCHANGED <<gw, client, mqtt_connected, subs, broker, scan_requested>>
  BY DEF MqttPost, Post, Verdict, C, D
<1>5. queue \in Seq(EventTypes)
  BY DEF IInv, TypeOK
<1>6. CASE mq = C
  <2>1. /\ ~NoVerdict(queue')
        /\ FirstIs(queue', C) <=> FirstIs(queue, C) \/ NoVerdict(queue)
        /\ ~LastIs(queue', D)
        /\ Closed(queue) /\ Alternates(queue) => Alternates(queue')
    BY <1>4, <1>5, <1>6, AppendConnected
  <2>2. SessionInv'
    BY <1>4, <1>6, <2>1 DEF IInv, SessionInv, SubsInv, FlightInv, TakenInv, Clean,
         None, ConnectedFirst, Subscribing, Cleaning
  <2> QED
    BY <1>2, <2>2
<1>7. CASE mq = D
  <2>1. /\ ~NoVerdict(queue')
        /\ FirstIs(queue', C) <=> FirstIs(queue, C)
        /\ Closed(queue')
        /\ Alternates(queue) => Alternates(queue')
    BY <1>4, <1>5, <1>7, AppendDisconnected
  <2>2. SessionInv'
    BY <1>4, <1>7, <2>1 DEF IInv, SessionInv, SubsInv, FlightInv, TakenInv, Clean,
         None, ConnectedFirst, Subscribing, Cleaning
  <2> QED
    BY <1>2, <2>2
<1> QED
  BY <1>3, <1>6, <1>7 DEF Verdict

----------------------------------------------------------------------------
(* blegw_task's steps                                                      *)

(* Taking a verdict: what TakeHead says of the queue is what the handler   *)
(* starts from.                                                            *)
LEMMA ReceiveStep ==
    ASSUME IInv, Receive PROVE FreshInv' /\ SessionInv'
<1> USE DEF netVars, mqttVars, Runs
<1> DEFINE e == Head(queue)
<1>1. /\ Closed(queue) => Closed(queue')
      /\ Alternates(queue) => Alternates(queue')
      /\ NoVerdict(queue) => NoVerdict(queue')
      /\ LastIs(queue', D) => LastIs(queue, D)
      /\ e \notin Verdict =>
            /\ NoVerdict(queue') <=> NoVerdict(queue)
            /\ FirstIs(queue', C) <=> FirstIs(queue, C)
      /\ e = C =>
            /\ FirstIs(queue, C)
            /\ Alternates(queue) => ~FirstIs(queue', C)
            /\ NoVerdict(queue') => ~Closed(queue)
            /\ ~NoVerdict(queue)
            /\ Closed(queue) => ~NoVerdict(queue')
      /\ e = D =>
            /\ NoVerdict(queue') => LastIs(queue, D)
            /\ ~NoVerdict(queue)
  BY TakeHead DEF Receive, IInv, TypeOK
<1>2. /\ main = "running" /\ gw = "idle" /\ gw' = Handler(e)
      /\ UNCHANGED <<main, bt, client, mqtt_connected, mq, subs, broker,
                     scan_requested>>
  BY DEF Receive
<1>3. e \in EventTypes
  BY DEF Receive, IInv, TypeOK
<1>4. /\ e \notin Verdict => gw' \in {"idle", "ble_initialize", "mqtt_disconnect",
                                     "restart"}
      /\ e = C => gw' = "subscribe_own"
      /\ e = D => gw' = "ble_disconnect_all"
      /\ C \in Verdict /\ D \in Verdict
  BY <1>2, <1>3 DEF Handler, EventTypes, MqttEvents, NetworkEvents, Verdict, C, D
<1>5. NoVerdict(queue) => e \notin Verdict
  BY <1>1 DEF Verdict
<1> HIDE DEF e
<1>6. FreshInv'
  BY <1>1, <1>2, <1>4, <1>5 DEF IInv, FreshInv, Fresh, Clean, Verdict
<1>7. ASSUME client # "none" PROVE SubsInv' /\ FlightInv' /\ TakenInv'
  <2>1. SubsInv /\ FlightInv /\ TakenInv
    BY <1>2, <1>7 DEF IInv, SessionInv
  <2>2. ~Subscribing /\ ~Cleaning
    BY <1>2 DEF Subscribing, Cleaning
  <2>3. FlightInv'
    BY <1>1, <1>2, <2>1 DEF FlightInv
  <2>4. client = "offline" \/ client = "online"
    BY <1>7 DEF IInv, TypeOK
  <2>5. CASE e \notin Verdict
    <3>1. SubsInv'
      BY <1>2, <1>4, <2>1, <2>5 DEF SubsInv
    <3>2. TakenInv'
      BY <1>1, <1>2, <1>4, <2>1, <2>5 DEF TakenInv, None, ConnectedFirst,
         Subscribing, Cleaning, Clean, Complete
    <3> QED
      BY <2>3, <3>1, <3>2
  <2>6. CASE e = C
    <3>1. Clean
      BY <1>1, <2>1, <2>2, <2>6 DEF TakenInv, ConnectedFirst
    <3>2. SubsInv'
      BY <1>2, <1>4, <2>1, <2>6, <3>1 DEF SubsInv, Clean
    <3>3. TakenInv'
      BY <1>1, <1>2, <1>4, <2>1, <2>4, <2>6, <3>1 DEF TakenInv, FlightInv, None,
         ConnectedFirst, Subscribing, Cleaning, Clean
    <3> QED
      BY <2>3, <3>2, <3>3
  <2>7. CASE e = D
    <3>1. SubsInv'
      BY <1>2, <1>4, <2>1, <2>7 DEF SubsInv
    <3>2. TakenInv'
      BY <1>1, <1>2, <1>4, <2>1, <2>4, <2>7 DEF TakenInv, FlightInv, None,
         ConnectedFirst, Subscribing, Cleaning
    <3> QED
      BY <2>3, <3>1, <3>2
  <2> QED
    BY <2>5, <2>6, <2>7 DEF Verdict
<1> QED
  BY <1>2, <1>6, <1>7 DEF SessionInv

(* Starting, stopping and failing: the client is created or destroyed.     *)
LEMMA ClientStep ==
    ASSUME IInv, \/ Restart \/ BleInitialize \/ BleInitializeFails
                 \/ MqttConnect \/ MqttDisconnect \/ MqttDestroy
                 \/ BleDisconnectAllFails
    PROVE  FreshInv' /\ SessionInv'
<1> USE DEF netVars, mqttVars, Runs
<1>1. CASE Restart \/ BleInitializeFails \/ BleDisconnectAllFails
  BY <1>1, StutterStep DEF Restart, BleInitializeFails, BleDisconnectAllFails, Fail
<1>2. CASE BleInitialize
  <2>1. Fresh /\ main = "running"
    BY <1>2 DEF BleInitialize, IInv, FreshInv
  <2> QED
    BY <1>2, <2>1 DEF BleInitialize, FreshInv, SessionInv, Fresh, Clean
<1>3. CASE MqttConnect
  <2>1. Fresh /\ main = "running" /\ bt = "client"
    BY <1>3 DEF MqttConnect, IInv, FreshInv
  <2>2. /\ gw' = "idle" /\ client' \in {"offline", "none"} /\ broker' = {}
        /\ UNCHANGED <<main, bt, queue, mqtt_connected, mq, subs, scan_requested>>
    BY <1>3 DEF MqttConnect
  <2>3. Closed(queue) /\ Alternates(queue) /\ ~FirstIs(queue, C) /\ ~LastIs(queue, D)
    BY <2>1, NoVerdictFacts DEF Fresh
  <2>4. "idle" \notin Verdict /\ mqtt_connected = FALSE
    BY <2>1 DEF Verdict, C, D, Fresh, IInv, TypeOK
  <2>5. FreshInv'
    BY <2>1, <2>2 DEF FreshInv
  <2>6. (SubsInv' /\ FlightInv' /\ TakenInv') \/ client' = "none"
    BY <2>1, <2>2, <2>3, <2>4 DEF SubsInv, FlightInv, TakenInv, Fresh, Clean, None,
       ConnectedFirst, Subscribing, Cleaning, Verdict
  <2> QED
    BY <2>5, <2>6 DEF SessionInv
<1>4. CASE MqttDisconnect
  BY <1>4 DEF MqttDisconnect, IInv, FreshInv, SessionInv, Fresh, Clean
<1>5. CASE MqttDestroy
  BY <1>5 DEF MqttDestroy, IInv, FreshInv, SessionInv, Fresh, Clean
<1> QED
  BY <1>1, <1>2, <1>3, <1>4, <1>5

(* cleanup: what the last session left is undone.                          *)
LEMMA CleanupStep ==
    ASSUME IInv, BleDisconnectAll \/ BleScanStop \/ ManagementUnsubscribe
    PROVE  FreshInv' /\ SessionInv'
<1> USE DEF netVars, mqttVars, Runs
<1>1. bt # "client" => gw # "ble_scan_stop"
  BY DEF IInv, FreshInv
<1>2. CASE BleDisconnectAll
  BY <1>2 DEF BleDisconnectAll, IInv, FreshInv, SessionInv, SubsInv, FlightInv,
     TakenInv, None, ConnectedFirst, Subscribing, Cleaning
<1>3. CASE BleScanStop
  BY <1>1, <1>3 DEF BleScanStop, IInv, FreshInv, SessionInv, SubsInv, FlightInv,
     TakenInv, None, ConnectedFirst, Subscribing, Cleaning
<1>4. CASE ManagementUnsubscribe
  <2>1. bt = "client" /\ main = "running"
    BY <1>4 DEF ManagementUnsubscribe, Unsubscribe, ClientUnsubscribe, IInv, FreshInv
  <2>2. FreshInv'
    BY <1>4, <2>1 DEF ManagementUnsubscribe, Unsubscribe, ClientUnsubscribe, FreshInv
  <2>3. ASSUME client # "none" PROVE SubsInv' /\ FlightInv' /\ TakenInv'
    <3>1. SubsInv /\ FlightInv /\ TakenInv /\ Cleaning
      BY <1>4, <2>3 DEF ManagementUnsubscribe, Unsubscribe, ClientUnsubscribe, IInv,
         SessionInv, Cleaning
    <3>2. /\ RemoveFirst(<<>>, "own") = <<>> /\ RemoveFirst(<<>>, "all") = <<>>
          /\ RemoveFirst(<<"own">>, "own") = <<>>
          /\ RemoveFirst(<<"all">>, "all") = <<>>
          /\ RemoveFirst(<<"all">>, "own") = <<"all">>
          /\ RemoveFirst(<<"own", "all">>, "own") = <<"all">>
      <4>1. "own" \in Topics /\ "all" \in Topics /\ "own" # "all"
        BY DEF Topics
      <4> QED
        BY <4>1, RemoveFirstSmall
    <3>3. UNCHANGED <<queue, client, mqtt_connected, mq, scan_requested>>
      BY <1>4 DEF ManagementUnsubscribe, Unsubscribe, ClientUnsubscribe
    <3>4. client = "offline" => broker = {} /\ ~mqtt_connected
      BY <3>1 DEF FlightInv
    <3>5. (client = "offline" \/ client = "online") /\ broker \subseteq {"own", "all"}
      BY <2>3 DEF IInv, TypeOK, Topics
    <3>6. FlightInv'
      BY <1>4, <3>1, <3>3 DEF FlightInv, ManagementUnsubscribe, Unsubscribe,
         ClientUnsubscribe
    <3>7. SubsInv'
      BY <1>4, <3>1, <3>2, <3>3, <3>4, <3>5 DEF SubsInv, FlightInv,
         ManagementUnsubscribe, Unsubscribe, ClientUnsubscribe
    <3>8. (None' <=> None) /\ (ConnectedFirst' <=> ConnectedFirst)
      BY <3>3 DEF None, ConnectedFirst
    <3>9. ~Subscribing' /\ (~Cleaning' => gw' = "idle")
      BY <1>4 DEF ManagementUnsubscribe, Unsubscribe, ClientUnsubscribe,
         Subscribing, Cleaning
    <3>10. gw' = "idle" => Clean'
      <4>1. CASE gw = "unsubscribe_all" /\ gw' = "idle"
        <5>1. subs' = RemoveFirst(subs, "all") /\ broker' = broker /\ broker = {}
          BY <1>4, <3>1, <3>4, <3>5, <4>1 DEF FlightInv, ManagementUnsubscribe,
             Unsubscribe, ClientUnsubscribe
        <5> QED
          BY <3>1, <3>2, <3>3, <4>1, <5>1 DEF SubsInv, Clean
      <4>2. CASE gw = "client_unsubscribe_all" /\ gw' = "idle"
        <5>1. subs' = subs /\ broker' = broker \ {"all"}
          BY <1>4, <4>2 DEF ManagementUnsubscribe, Unsubscribe, ClientUnsubscribe
        <5> QED
          BY <3>1, <3>3, <3>5, <4>2, <5>1 DEF SubsInv, Clean
      <4> QED
        BY <1>4, <4>1, <4>2 DEF ManagementUnsubscribe, Unsubscribe, ClientUnsubscribe
    <3>11. None => client' = "offline"
      BY <3>1, <3>3 DEF TakenInv
    <3>12. TakenInv'
      BY <3>8, <3>9, <3>10, <3>11 DEF TakenInv
    <3> QED
      BY <3>6, <3>7, <3>12
  <2> QED
    BY <1>4, <2>2, <2>3 DEF SessionInv, ManagementUnsubscribe, Unsubscribe,
       ClientUnsubscribe
<1> QED
  BY <1>2, <1>3, <1>4

(* MQTT_CONNECTED's handler: while no newer verdict is in flight the       *)
(* session is up and each call succeeds.                                   *)
LEMMA SubscribeStep ==
    ASSUME IInv, ManagementSubscribe \/ BleScanStart
    PROVE  FreshInv' /\ SessionInv'
<1> USE DEF netVars, mqttVars, Runs
<1>1. bt = "client" /\ main = "running" /\ Subscribing /\ ~Cleaning
      /\ gw # "mqtt_destroy"
  BY DEF ManagementSubscribe, SubscribeRefused, ClientSubscribe, SubscriptionAdd,
     BleScanStart, IInv, FreshInv, Subscribing, Cleaning
<1>2. FreshInv'
  BY <1>1 DEF ManagementSubscribe, SubscribeRefused, ClientSubscribe,
     SubscriptionAdd, BleScanStart, FreshInv
<1>3. ASSUME client # "none" PROVE SubsInv' /\ FlightInv' /\ TakenInv'
  <2>1. SubsInv /\ FlightInv /\ TakenInv
    BY <1>1, <1>3 DEF IInv, SessionInv
  <2>2. UNCHANGED <<queue, client, mqtt_connected, mq>>
    BY DEF ManagementSubscribe, SubscribeRefused, ClientSubscribe,
       SubscriptionAdd, BleScanStart
  <2>3. /\ Append(<<>>, "own") = <<"own">> /\ Append(<<>>, "all") = <<"all">>
        /\ Append(<<"own">>, "all") = <<"own", "all">>
    BY AppendSmall, "own" \in Topics, "all" \in Topics DEF Topics
  <2>4. FlightInv'
    BY <2>1, <2>2 DEF FlightInv, ManagementSubscribe, SubscribeRefused,
       ClientSubscribe, SubscriptionAdd, BleScanStart
  <2>5. SubsInv'
    BY <2>1, <2>2, <2>3 DEF SubsInv, ManagementSubscribe, SubscribeRefused,
       ClientSubscribe, SubscriptionAdd, BleScanStart
  <2>6. (None' <=> None) /\ (ConnectedFirst' <=> ConnectedFirst)
    BY <2>2 DEF None, ConnectedFirst
  <2>7. ~ConnectedFirst
    BY <1>1, <2>1 DEF TakenInv
  <2>8. ~Cleaning'
    BY DEF ManagementSubscribe, SubscribeRefused, ClientSubscribe,
       SubscriptionAdd, BleScanStart, Cleaning
  <2>9. ASSUME None
        PROVE  IF Subscribing' THEN
                   /\ client' = "online"
                   /\ gw' = "subscribe_own" => broker' = {}
                   /\ gw' = "add_own" => broker' = {"own"}
                   /\ gw' = "subscribe_all" => subs' = <<"own">> /\ broker' = {"own"}
                   /\ gw' = "add_all" => subs' = <<"own">> /\ broker' = Topics
                   /\ gw' = "ble_scan_start" =>
                        subs' = <<"own", "all">> /\ broker' = Topics
               ELSE client = "online" /\ Complete'
    <3>1. /\ client = "online" /\ mqtt_connected
          /\ gw = "subscribe_own" => broker = {}
          /\ gw = "add_own" => broker = {"own"}
          /\ gw = "subscribe_all" => subs = <<"own">> /\ broker = {"own"}
          /\ gw = "add_all" => subs = <<"own">> /\ broker = Topics
          /\ gw = "ble_scan_start" => subs = <<"own", "all">> /\ broker = Topics
      BY <1>1, <2>1, <2>9 DEF TakenInv, FlightInv
    <3>2. gw \in {"subscribe_own", "add_own"} => subs = <<>>
      BY <2>1 DEF SubsInv
    <3>3. Topics = {"own"} \cup {"all"} /\ {} \cup {"own"} = {"own"}
      BY DEF Topics
    <3>4. CASE BleScanStart
      BY <2>2, <3>1, <3>4 DEF BleScanStart, Subscribing, Complete
    <3>5. CASE ManagementSubscribe
      BY <2>2, <2>3, <3>1, <3>2, <3>3, <3>5 DEF ManagementSubscribe,
         SubscribeRefused, ClientSubscribe, SubscriptionAdd, Subscribing
    <3> QED
      BY <3>4, <3>5
  <2>10. ~Subscribing' => gw' = "idle"
    BY DEF ManagementSubscribe, SubscribeRefused, ClientSubscribe,
       SubscriptionAdd, BleScanStart, Subscribing
  <2>11. TakenInv'
    BY <2>2, <2>6, <2>7, <2>8, <2>9 DEF TakenInv
  <2> QED
    BY <2>4, <2>5, <2>11
<1> QED
  BY <1>2, <1>3 DEF SessionInv, ManagementSubscribe, SubscribeRefused,
     ClientSubscribe, SubscriptionAdd, BleScanStart

(* Every step of every task keeps the invariant.                           *)
LEMMA InvStep == IInv /\ [Next]_vars => IInv'
<1> SUFFICES ASSUME IInv, [Next]_vars PROVE IInv'
  OBVIOUS
<1>1. TypeOK'
  BY TypeStep DEF IInv
<1>2. CASE Main
  BY <1>1, <1>2, MainStep DEF IInv
<1>3. CASE Network
  BY <1>1, <1>3, NetworkStep DEF IInv
<1>4. CASE Mqtt
  BY <1>1, <1>4, MqttConnectedStep, MqttDisconnectedStep, MqttDataStep, MqttPostStep
     DEF IInv, Mqtt
<1>5. CASE Heartbeat \/ ScanResult
  <2>1. {"HEARTBEAT_TIMER", "BLE_DEVICE_DISCOVERED"} \subseteq EventTypes \ Verdict
    BY DEF EventTypes, Verdict, C, D
  <2>2. FreshInv' /\ SessionInv'
    BY <1>5, <2>1, PostOtherStep DEF Heartbeat, ScanResult, Post, Runs, netVars, mqttVars
  <2> QED
    BY <1>1, <2>2 DEF IInv
<1>6. CASE BlegwTask
  BY <1>1, <1>6, ReceiveStep, ClientStep, CleanupStep, SubscribeStep
     DEF IInv, BlegwTask
<1>7. CASE Reboot
  <2>1. (Init => IInv)'
    BY InvInit, PTL
  <2> QED
    BY <1>7, <2>1, RebootStep
<1>8. CASE UNCHANGED vars
  BY <1>1, <1>8, StutterStep DEF IInv, vars
<1> QED
  BY <1>2, <1>3, <1>4, <1>5, <1>6, <1>7, <1>8 DEF Next

(* The invariant holds in every reachable state.                           *)
LEMMA Invariance == Spec => []IInv
  BY InvInit, InvStep, PTL DEF Spec

(* When every event has been handled, BLE scanning, the subscription list  *)
(* and the server's subscriptions agree with the MQTT session, for every   *)
(* length of the event queue (mqtt_event_cb, blegw_handle_event, cleanup). *)
THEOREM SessionFollowed == Spec => []ScanFollowsSession
<1>1. IInv => ScanFollowsSession
  <2>1. SUFFICES ASSUME IInv, Quiescent, client # "none" PROVE ScanFollowsSession
    BY DEF ScanFollowsSession
  <2>2. /\ SubsInv /\ FlightInv /\ TakenInv
        /\ client \in {"offline", "online"}
        /\ mqtt_connected \in BOOLEAN /\ scan_requested \in BOOLEAN
    BY <2>1 DEF IInv, SessionInv, Quiescent, TypeOK
  <2>3. None /\ ~Subscribing /\ ~Cleaning
    BY <2>1, EmptyNoVerdict DEF Quiescent, None, Subscribing, Cleaning, Verdict, C, D
  <2>4. IF client = "online" THEN Complete ELSE Clean
    BY <2>2, <2>3 DEF TakenInv
  <2>5. mqtt_connected = (client = "online")
    BY <2>2 DEF FlightInv
  <2>6. CASE client = "online"
    BY <2>2, <2>4, <2>5, <2>6 DEF ScanFollowsSession, Complete
  <2>7. CASE client = "offline"
    BY <2>2, <2>4, <2>5, <2>7 DEF ScanFollowsSession, Clean
  <2> QED
    BY <2>2, <2>6, <2>7
<1> QED
  BY <1>1, Invariance, PTL
----------------------------------------------------------------------------
(* No client without the station                                           *)

(* s holds no network event; the last one of s is a disconnection.         *)
NoNetwork(s) == \A i \in 1 .. Len(s) : s[i] \notin NetworkEvents
DownLast(s) ==
    \E i \in 1 .. Len(s) :
        /\ s[i] = "NETWORK_DISCONNECTED"
        /\ \A j \in 1 .. Len(s) : i < j => s[j] \notin NetworkEvents

(* What the last loss of the station has come to while the station is not  *)
(* up: it is being posted, it is the last network event of the queue, or   *)
(* blegw_task has taken it, and with it every connection before it.        *)
Handled ==
    /\ NoNetwork(queue)
    /\ gw \notin {"ble_initialize", "mqtt_connect"}
    /\ client = "none" \/ gw \in {"mqtt_disconnect", "mqtt_destroy"}

DownInv ==
    station # "up" =>
        \/ ev = "NETWORK_DISCONNECTED"
        \/ ev = "idle" /\ (DownLast(queue) \/ Handled)

(* Appending an event that is not about the network.                       *)
LEMMA AppendOtherNetwork ==
    ASSUME NEW s \in Seq(EventTypes), NEW e \in EventTypes \ NetworkEvents
    PROVE  /\ NoNetwork(s) => NoNetwork(Append(s, e))
           /\ DownLast(s) => DownLast(Append(s, e))
<1> DEFINE t == Append(s, e)
<1>1. Len(t) = Len(s) + 1 /\ Len(s) \in Nat
  OBVIOUS
<1>2. \A i \in 1 .. Len(s) : t[i] = s[i]
  OBVIOUS
<1>3. t[Len(s) + 1] = e
  OBVIOUS
<1> HIDE DEF t
<1>4. NoNetwork(s) => NoNetwork(t)
  BY <1>1, <1>2, <1>3 DEF NoNetwork
<1>5. DownLast(s) => DownLast(t)
  BY <1>1, <1>2, <1>3 DEF DownLast
<1> QED
  BY <1>4, <1>5 DEF t

(* Appending a disconnection.                                              *)
LEMMA AppendDown ==
    ASSUME NEW s \in Seq(EventTypes)
    PROVE  DownLast(Append(s, "NETWORK_DISCONNECTED"))
<1> DEFINE t == Append(s, "NETWORK_DISCONNECTED")
<1>1. /\ Len(t) = Len(s) + 1 /\ Len(s) \in Nat
      /\ t[Len(s) + 1] = "NETWORK_DISCONNECTED"
  BY DEF EventTypes, NetworkEvents
<1> HIDE DEF t
<1>2. DownLast(t)
  BY <1>1 DEF DownLast
<1> QED
  BY <1>2 DEF t

(* Taking the head: the last disconnection stays, unless it was the head.  *)
LEMMA TakeNetwork ==
    ASSUME NEW s \in Seq(EventTypes), s # <<>>
    PROVE  /\ NoNetwork(s) => NoNetwork(Tail(s)) /\ Head(s) \notin NetworkEvents
           /\ DownLast(s) => \/ DownLast(Tail(s))
                             \/ /\ Head(s) = "NETWORK_DISCONNECTED"
                                /\ NoNetwork(Tail(s))
<1> DEFINE t == Tail(s)
<1>1. Len(t) = Len(s) - 1 /\ Len(s) \in Nat \ {0} /\ Head(s) = s[1]
  OBVIOUS
<1>2. \A i \in 1 .. Len(t) : t[i] = s[i + 1]
  OBVIOUS
<1> HIDE DEF t
<1>3. NoNetwork(s) => NoNetwork(t) /\ Head(s) \notin NetworkEvents
  BY <1>1, <1>2 DEF NoNetwork
<1>4. ASSUME DownLast(s)
      PROVE  DownLast(t) \/ (Head(s) = "NETWORK_DISCONNECTED" /\ NoNetwork(t))
  <2>1. PICK i \in 1 .. Len(s) :
             /\ s[i] = "NETWORK_DISCONNECTED"
             /\ \A j \in 1 .. Len(s) : i < j => s[j] \notin NetworkEvents
    BY <1>4 DEF DownLast
  <2>2. \A j \in 1 .. Len(t) : i < j + 1 => t[j] \notin NetworkEvents
    BY <1>1, <1>2, <2>1
  <2>3. CASE i = 1
    BY <1>1, <2>1, <2>2, <2>3 DEF NoNetwork
  <2>4. CASE i # 1
    <3>1. i - 1 \in 1 .. Len(t) /\ t[i - 1] = "NETWORK_DISCONNECTED"
      BY <1>1, <1>2, <2>1, <2>4
    <3>2. \A j \in 1 .. Len(t) : i - 1 < j => t[j] \notin NetworkEvents
      BY <1>1, <2>2
    <3> QED
      BY <3>1, <3>2 DEF DownLast
  <2> QED
    BY <2>3, <2>4
<1> QED
  BY <1>3, <1>4 DEF t

LEMMA DownInit == Init => DownInv
<1>1. NoNetwork(<<>>)
  BY DEF NoNetwork
<1> QED
  BY <1>1 DEF Init, DownInv, Handled

(* The event loop task raises and posts the network events.                *)
LEMMA DownNetwork ==
    ASSUME TypeOK, DownInv, Network PROVE DownInv'
<1>1. CASE GotIp \/ StaDisconnected
  BY <1>1 DEF GotIp, StaDisconnected, DownInv
<1>2. CASE NetworkPost
  <2>1. queue \in Seq(EventTypes) /\ queue' = Append(queue, ev) /\ ev' = "idle"
    BY <1>2 DEF NetworkPost, Post, TypeOK
  <2>2. station' # "up" => station # "up"
    BY <1>2 DEF NetworkPost
  <2>3. ev # "idle"
    BY <1>2 DEF NetworkPost
  <2> QED
    BY <2>1, <2>2, <2>3, AppendDown DEF DownInv
<1>3. CASE NetworkPostNoQueue
  BY <1>3 DEF NetworkPostNoQueue, Fail, netVars, mqttVars, DownInv, Handled
<1> QED
  BY <1>1, <1>2, <1>3 DEF Network

(* Every other event that is posted is none of them.                       *)
LEMMA DownPost ==
    ASSUME TypeOK, DownInv, NEW e \in EventTypes \ NetworkEvents,
           queue' = Append(queue, e), UNCHANGED <<station, ev, gw, client>>
    PROVE  DownInv'
<1>1. queue \in Seq(EventTypes)
  BY DEF TypeOK
<1> QED
  BY <1>1, AppendOtherNetwork DEF DownInv, Handled

(* blegw_task: NETWORK_DISCONNECTED starts what destroys the client, and   *)
(* only NETWORK_CONNECTED what creates one.                                *)
LEMMA DownBlegw ==
    ASSUME TypeOK, DownInv, BlegwTask PROVE DownInv'
<1> USE DEF netVars, mqttVars, Runs
<1>1. CASE Receive
  <2>1. /\ queue \in Seq(EventTypes) /\ queue # <<>> /\ queue' = Tail(queue)
        /\ gw = "idle" /\ gw' = Handler(Head(queue))
        /\ UNCHANGED <<station, ev, client>>
    BY <1>1 DEF Receive, TypeOK
  <2>2. /\ Handler("NETWORK_DISCONNECTED") = "mqtt_disconnect"
        /\ Head(queue) \notin NetworkEvents =>
             Handler(Head(queue)) \notin {"ble_initialize", "mqtt_connect"}
    BY DEF Handler, NetworkEvents
  <2>3. CASE Handled
    <3>1. NoNetwork(queue') /\ Head(queue) \notin NetworkEvents
      BY <2>1, <2>3, TakeNetwork DEF Handled
    <3>2. client = "none"
      BY <2>1, <2>3 DEF Handled
    <3> QED
      BY <2>1, <2>2, <3>1, <3>2, <2>3 DEF DownInv, Handled
  <2>4. CASE DownLast(queue)
    <3>1. DownLast(queue') \/ (gw' = "mqtt_disconnect" /\ NoNetwork(queue'))
      BY <2>1, <2>2, <2>4, TakeNetwork
    <3> QED
      BY <2>1, <3>1 DEF DownInv, Handled
  <2> QED
    BY <2>1, <2>3, <2>4 DEF DownInv
<1>2. CASE UNCHANGED <<station, ev, queue>> /\ (Handled => Handled')
  BY <1>2 DEF DownInv
<1>3. CASE Restart \/ BleInitializeFails \/ BleDisconnectAllFails
  BY <1>2, <1>3 DEF Restart, BleInitializeFails, BleDisconnectAllFails, Fail,
     Handled
<1>4. CASE BleInitialize \/ MqttConnect
  BY <1>2, <1>4 DEF BleInitialize, MqttConnect, Handled
<1>5. CASE MqttDisconnect \/ MqttDestroy
  BY <1>2, <1>5 DEF MqttDisconnect, MqttDestroy, Handled
<1>6. CASE BleDisconnectAll \/ BleScanStop \/ BleScanStart
  BY <1>2, <1>6 DEF BleDisconnectAll, BleScanStop, BleScanStart, Handled
<1>7. CASE ManagementUnsubscribe \/ ManagementSubscribe
  BY <1>2, <1>7 DEF ManagementUnsubscribe, Unsubscribe, ClientUnsubscribe,
     ManagementSubscribe, SubscribeRefused, ClientSubscribe, SubscriptionAdd,
     Handled
<1> QED
  BY <1>1, <1>3, <1>4, <1>5, <1>6, <1>7 DEF BlegwTask

LEMMA DownStep == TypeOK /\ DownInv /\ [Next]_vars => DownInv'
<1> SUFFICES ASSUME TypeOK, DownInv, [Next]_vars PROVE DownInv'
  OBVIOUS
<1> USE DEF netVars, mqttVars, Runs
<1>1. CASE Main
  BY <1>1 DEF Main, BlufiStart, BlufiStarted, StartBlegwTask, DownInv, Handled
<1>2. CASE Network
  BY <1>2, DownNetwork
<1>3. CASE MqttConnected \/ MqttDisconnected \/ MqttData
  BY <1>3 DEF MqttConnected, MqttDisconnected, MqttData, DownInv, Handled
<1>4. CASE MqttPost \/ Heartbeat \/ ScanResult
  <2>1. /\ MqttEvents \subseteq EventTypes \ NetworkEvents
        /\ {"HEARTBEAT_TIMER", "BLE_DEVICE_DISCOVERED"}
               \subseteq EventTypes \ NetworkEvents
    BY DEF EventTypes, MqttEvents, NetworkEvents
  <2>2. \E e \in EventTypes \ NetworkEvents : queue' = Append(queue, e)
    BY <1>4, <2>1 DEF MqttPost, Heartbeat, ScanResult, Post, TypeOK
  <2>3. UNCHANGED <<station, ev, gw, client>>
    BY <1>4 DEF MqttPost, Heartbeat, ScanResult
  <2> QED
    BY <2>2, <2>3, DownPost
<1>5. CASE BlegwTask
  BY <1>5, DownBlegw
<1>6. CASE Reboot
  <2>1. (Init => DownInv)'
    BY DownInit, PTL
  <2> QED
    BY <1>6, <2>1, RebootStep
<1>7. CASE UNCHANGED vars
  BY <1>7 DEF vars, DownInv, Handled
<1> QED
  BY <1>1, <1>2, <1>3, <1>4, <1>5, <1>6, <1>7 DEF Next, Mqtt

(* Once every event has been handled, no MQTT client is left without an    *)
(* address, for every length of the event queue: whatever was queued       *)
(* before it, the last NETWORK_DISCONNECTED is handled after the last      *)
(* NETWORK_CONNECTED (network_on_disconnected, blegw_handle_event).        *)
THEOREM ClientNeedsStation == Spec => []NoClientWithoutStation
<1>1. Spec => []DownInv
  BY DownInit, DownStep, TypeCorrect, PTL DEF Spec
<1>2. TypeOK /\ DownInv => NoClientWithoutStation
  <2>1. DownLast(<<>>) => FALSE
    BY DEF DownLast
  <2> QED
    BY <2>1 DEF DownInv, Handled, NoClientWithoutStation, Quiescent
<1> QED
  BY <1>1, <1>2, TypeCorrect, PTL
=============================================================================
