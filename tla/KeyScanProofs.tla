---------------------------- MODULE KeyScanProofs ----------------------------
(***************************************************************************)
(* Proofs about KeyScan, for every length of the queue, every latency that *)
(* is shorter than a long press and every range of an int: the task knows  *)
(* the key's level once it has caught up, and what it returns is how long  *)
(* the key was held.                                                       *)
(*                                                                         *)
(* The second is about a time tp, at which the task has read the clock     *)
(* while the key was down: backup_time is that time as an int.             *)
(***************************************************************************)
EXTENDS KeyScan, TLAPS

Places == {"xQueueReceive", "gpio_get_level", "pressed", "lifted", "esp_restart"}

Typed ==
    /\ level \in 0 .. 1 /\ edges \in 0 .. QueueLen /\ pc \in Places
    /\ press_key \in BOOLEAN /\ backup_time \in Int
    /\ key \in {"none", "KEY_LONG_PRESS", "KEY_SHORT_PRESS"}
    /\ time \in Nat /\ late \in 0 .. Latency
    /\ downAt \in Nat \cup {-1} /\ downAt <= time
    /\ longest \in Nat /\ bounced \in BOOLEAN
    /\ key # "none" <=> pc = "esp_restart"

(* A key that is down since the chip started has made no edge.             *)
HeldInv == level = 0 /\ downAt < 0 => Waits /\ ~press_key

(* A level that was read is the key's, or an edge waits that will tell.    *)
FollowInv ==
    /\ Waits => late = 0
    /\ pc \in {"pressed", "lifted"} => press_key
    /\ pc = "pressed" /\ edges = 0 => level = 0

(* The task has read the clock at tp: the key is still down, or it was     *)
(* down then, or not more than late ticks have passed since.  Without a    *)
(* bounce the reading was in time for the press.                           *)
Measures(tp) ==
    /\ backup_time = AsInt(tp)
    /\ IF Waits THEN downAt <= tp ELSE time - tp <= longest + late
    /\ ~bounced => IF level = 0 THEN tp - downAt <= Latency /\ longest <= Latency
                                ELSE longest <= time - tp + Latency
Measuring == press_key /\ pc \in {"xQueueReceive", "gpio_get_level", "lifted"}
TimeInv == Measuring => \E tp \in 0 .. time : Measures(tp)

(* Without a bounce: the presses the task has missed ended while it was    *)
(* late, and one it has not read yet has the only edge there is.           *)
CleanInv ==
    ~bounced =>
        /\ ~press_key \/ pc = "pressed" => longest <= Latency
        /\ level = 0 /\ downAt >= 0 =>
             \/ press_key /\ edges = 0 /\ pc = "xQueueReceive"
             \/ /\ time - downAt <= late
                /\ \/ press_key /\ pc = "pressed" /\ edges = 0
                   \/ ~press_key /\ pc = "xQueueReceive" /\ edges = 1
                   \/ ~press_key /\ pc = "gpio_get_level" /\ edges = 0

IInv ==
    /\ Typed /\ HeldInv /\ FollowInv /\ TimeInv /\ CleanInv
    /\ KeyFollowed /\ ResultMatchesHold

----------------------------------------------------------------------------
(* An int                                                                  *)

LEMMA Constants ==
    /\ QueueLen \in Nat \ {0} /\ LongPress \in Nat \ {0} /\ Half \in Nat \ {0}
    /\ Latency \in Nat \ {0} /\ MaxTime \in Nat \ {0} /\ Latency < LongPress
  BY KeyAssumption

(* AsInt leaves x in the range of an int, a multiple of 2 * Half away.     *)
LEMMA AsIntIs ==
    ASSUME NEW x \in Int
    PROVE  /\ AsInt(x) \in Int /\ -Half <= AsInt(x) /\ AsInt(x) < Half
           /\ \E q \in Int : AsInt(x) = x - q * (2 * Half)
<1> DEFINE m == 2 * Half
<1>1. m \in Nat \ {0} /\ Half \in Nat \ {0}
  BY Constants
<1>2. PICK y \in Int : y = x + Half
  BY <1>1
<1> HIDE DEF m
<1>3. y % m \in 0 .. (m - 1) /\ y \div m \in Int /\ y = (y \div m) * m + (y % m)
  BY <1>1
<1>4. PICK q \in Int, r \in 0 .. (m - 1) : q = y \div m /\ r = y % m /\ y = q * m + r
  BY <1>1, <1>3
<1>5. AsInt(x) = r - Half
  BY <1>2, <1>4 DEF AsInt, m
<1>6. q * m \in Int
  BY <1>1
<1>7. AsInt(x) = x - q * m
  BY <1>1, <1>2, <1>4, <1>5, <1>6
<1>8. AsInt(x) \in Int /\ -Half <= AsInt(x) /\ AsInt(x) < Half
  BY <1>1, <1>4, <1>5 DEF m
<1> QED
  BY <1>7, <1>8 DEF m

(* The difference of two times as an int: never more than the difference,  *)
(* and the difference itself unless that is too long for an int.           *)
LEMMA Difference ==
    ASSUME NEW t \in Nat, NEW tp \in 0 .. t
    PROVE  LET d == AsInt(t - AsInt(tp)) IN
           d \in Int /\ d <= t - tp /\ (t - tp < Half => d = t - tp)
<1>1. PICK b \in Int, q \in Int : b = AsInt(tp) /\ b = tp - q * (2 * Half)
  BY AsIntIs
<1>2. t - b \in Int
  OBVIOUS
<1>3. PICK d \in Int, r \in Int : /\ d = AsInt(t - b) /\ d = (t - b) - r * (2 * Half)
                                   /\ -Half <= d /\ d < Half
  BY <1>2, AsIntIs
<1>4. PICK k \in Int : k = q - r
  OBVIOUS
<1>5. Half \in Nat \ {0}
  BY Constants
<1>6. d = (t - tp) + k * (2 * Half)
  <2>1. k * (2 * Half) = q * (2 * Half) - r * (2 * Half)
    BY <1>4, <1>5
  <2>2. PICK x \in Int, y \in Int, z \in Int :
            x = q * (2 * Half) /\ y = r * (2 * Half) /\ z = k * (2 * Half)
    BY <1>5
  <2>3. b = tp - x /\ d = (t - b) - y /\ z = x - y
    BY <1>1, <1>3, <2>1, <2>2
  <2>4. d = (t - tp) + z
    BY ONLY <2>3, t \in Nat, tp \in 0 .. t, x \in Int, y \in Int, z \in Int
  <2> QED
    BY <2>2, <2>4
<1>7. k <= 0
  <2> SUFFICES ASSUME k >= 1
               PROVE  FALSE
    OBVIOUS
  <2>1. k * (2 * Half) >= 2 * Half
    BY <1>5
  <2> QED
    BY <1>3, <1>5, <1>6, <2>1
<1>8. k * (2 * Half) <= 0 /\ (k < 0 => k * (2 * Half) <= -(2 * Half))
  BY <1>5, <1>7
<1>9. d <= t - tp /\ (t - tp < Half => d = t - tp)
  <2>1. PICK z \in Int : z = k * (2 * Half)
    BY <1>5
  <2>2. k = 0 => z = 0
    BY <1>5, <2>1
  <2>3. PICK h \in Int : h = 2 * Half
    BY <1>5
  <2>4. z = 0 \/ z <= -h
    BY <1>7, <1>8, <2>1, <2>2, <2>3
  <2>5. d = (t - tp) + z
    BY <1>6, <2>1
  <2>6. h = Half + Half /\ -Half <= d
    BY <1>3, <1>5, <2>3
  <2> QED
    BY ONLY <1>5, <2>4, <2>5, <2>6, t \in Nat, tp \in 0 .. t, z \in Int, h \in Int, d \in Int
<1> QED
  BY <1>1, <1>3, <1>9

----------------------------------------------------------------------------
(* The steps                                                               *)
LEMMA InitIInv == Init => IInv
<1> SUFFICES ASSUME Init
             PROVE  IInv
  OBVIOUS
<1>1. /\ level \in 0 .. 1 /\ edges = 0 /\ pc = "xQueueReceive" /\ press_key = FALSE
      /\ backup_time = 0 /\ key = "none" /\ time = 0 /\ late = 0 /\ downAt = -1
      /\ longest = 0 /\ bounced = FALSE
  BY DEF Init
<1>2. edges \in 0 .. QueueLen /\ late \in 0 .. Latency
  BY <1>1, Constants
<1>3. Typed
  <2>1. downAt \in Nat \cup {-1} /\ downAt <= time /\ backup_time \in Int
    BY <1>1
  <2>2. press_key \in BOOLEAN /\ bounced \in BOOLEAN
    BY <1>1
  <2>3. time \in Nat /\ longest \in Nat /\ pc \in Places /\ (key # "none" <=> pc = "esp_restart")
    BY <1>1 DEF Places
  <2> QED
    BY <1>1, <1>2, <2>1, <2>2, <2>3 DEF Typed
<1>4. HeldInv /\ FollowInv /\ TimeInv
  BY <1>1 DEF HeldInv, FollowInv, TimeInv, Measuring, Waits
<1>5. CleanInv
  BY <1>1, Constants DEF CleanInv
<1>6. KeyFollowed
  <2>1. ~(level = 0 /\ downAt >= 0)
    BY <1>1
  <2> QED
    BY <1>1, <2>1 DEF KeyFollowed
<1>7. ResultMatchesHold
  BY <1>1 DEF ResultMatchesHold
<1> QED
  BY <1>3, <1>4, <1>5, <1>6, <1>7 DEF IInv

(* A press that is no bounce comes while the task waits for it.            *)
LEMMA PressStep ==
    ASSUME IInv, Press
    PROVE  IInv'
<1>1. /\ level = 1 /\ level' = 0 /\ downAt' = time /\ key = "none"
      /\ bounced' = (bounced \/ ~Waits)
      /\ edges' = IF edges < QueueLen THEN edges + 1 ELSE edges
      /\ UNCHANGED <<pc, press_key, backup_time, key, longest, time, late>>
  BY DEF Press, bgs_gpio_isr_handler, taskVars
<1>2. edges' > 0 /\ edges' \in 0 .. QueueLen /\ ~Waits' /\ (edges = 0 => edges' = 1)
  BY <1>1, Constants DEF IInv, Typed, Waits
<1>3. bounced' \in BOOLEAN /\ (~bounced' => ~bounced /\ Waits)
  BY <1>1 DEF IInv, Typed
<1>4. Typed'
  BY <1>1, <1>2, <1>3 DEF IInv, Typed
<1>5. HeldInv' /\ FollowInv' /\ KeyFollowed'
  BY <1>1, <1>2 DEF IInv, Typed, HeldInv, FollowInv, KeyFollowed
<1>6. TimeInv'
  <2> SUFFICES ASSUME Measuring'
               PROVE  \E tp \in 0 .. time' : Measures(tp)'
    BY DEF TimeInv
  <2>1. PICK tp \in 0 .. time : Measures(tp)
    BY <1>1 DEF IInv, TimeInv, Measuring
  <2>2. ~Waits
    <3>1. press_key /\ level # 0
      BY <1>1 DEF Measuring
    <3> QED
      BY <3>1 DEF IInv, KeyFollowed
  <2>3. bounced'
    BY <1>3, <2>2
  <2> QED
    BY <1>1, <1>2, <2>1, <2>2, <2>3 DEF Measures
<1>7. CleanInv'
  BY <1>1, <1>2, <1>3 DEF IInv, Typed, CleanInv, KeyFollowed, Waits
<1>8. ResultMatchesHold'
  BY <1>1 DEF IInv, Typed, ResultMatchesHold
<1> QED
  BY <1>4, <1>5, <1>6, <1>7, <1>8 DEF IInv

LEMMA ReleaseStep ==
    ASSUME IInv, Release
    PROVE  IInv'
<1>1. /\ level = 0 /\ level' = 1 /\ key = "none"
      /\ longest' = IF downAt >= 0 /\ time - downAt > longest THEN time - downAt ELSE longest
      /\ edges' = IF edges < QueueLen THEN edges + 1 ELSE edges
      /\ UNCHANGED <<pc, press_key, backup_time, key, downAt, bounced, time, late>>
  BY DEF Release, bgs_gpio_isr_handler, taskVars
<1>2. edges' > 0 /\ edges' \in 0 .. QueueLen /\ ~Waits'
  BY <1>1, Constants DEF IInv, Typed, Waits
<1>3. /\ longest' \in Nat /\ longest' >= longest /\ (downAt >= 0 => longest' >= time - downAt)
      /\ longest' = longest \/ (downAt >= 0 /\ longest' = time - downAt)
  BY <1>1 DEF IInv, Typed
<1>4. Typed'
  BY <1>1, <1>2, <1>3 DEF IInv, Typed
<1>5. HeldInv' /\ FollowInv' /\ KeyFollowed'
  BY <1>1, <1>2 DEF IInv, Typed, HeldInv, FollowInv, KeyFollowed
<1>6. TimeInv'
  <2> SUFFICES ASSUME Measuring'
               PROVE  \E tp \in 0 .. time' : Measures(tp)'
    BY DEF TimeInv
  <2>1. PICK tp \in 0 .. time : Measures(tp)
    BY <1>1 DEF IInv, TimeInv, Measuring
  <2>2. downAt >= 0
    BY <1>1 DEF IInv, Typed, HeldInv, Measuring
  <2>3. time - tp <= longest' + late
    <3>1. time \in Nat /\ late \in Nat /\ longest \in Nat /\ downAt \in Int /\ tp \in Int
      BY Constants DEF IInv, Typed
    <3>0. PICK n \in Nat : n = longest' /\ n >= longest /\ n >= time - downAt
      BY <1>3, <2>2
    <3>2. n \in Int /\ n >= longest /\ n >= time - downAt
      BY <3>0
    <3>3. CASE Waits
      <4>1. downAt <= tp
        BY <2>1, <3>3 DEF Measures
      <4>2. time - tp <= n + late
        BY ONLY <3>1, <3>2, <4>1
      <4> QED
        BY <3>0, <4>2
    <3>4. CASE ~Waits
      <4>1. time - tp <= longest + late
        BY <2>1, <3>4 DEF Measures
      <4>2. time - tp <= n + late
        BY ONLY <3>1, <3>2, <4>1
      <4> QED
        BY <3>0, <4>2
    <3> QED
      BY <3>3, <3>4
  <2>4. ~bounced => longest' <= time - tp + Latency
    BY <1>1, <1>3, <2>1, Constants DEF Measures, IInv, Typed
  <2> QED
    BY <1>1, <1>2, <2>1, <2>3, <2>4 DEF Measures
<1>7. CleanInv'
  <2> SUFFICES ASSUME ~bounced', ~press_key' \/ pc' = "pressed"
               PROVE  longest' <= Latency
    BY <1>1 DEF CleanInv
  <2>1. downAt >= 0 => time - downAt <= late
    BY <1>1 DEF IInv, CleanInv
  <2>2. longest <= Latency
    BY <1>1 DEF IInv, CleanInv
  <2> QED
    BY <1>3, <2>1, <2>2, Constants DEF IInv, Typed
<1>8. ResultMatchesHold'
  BY <1>1 DEF IInv, Typed, ResultMatchesHold
<1> QED
  BY <1>4, <1>5, <1>6, <1>7, <1>8 DEF IInv

LEMMA TickStep ==
    ASSUME IInv, Tick
    PROVE  IInv'
<1>1. /\ key = "none" /\ time' = time + 1 /\ (Waits \/ late < Latency)
      /\ late' = IF Waits THEN late ELSE late + 1
      /\ UNCHANGED <<pc, press_key, backup_time, key>>
      /\ UNCHANGED <<level, edges, downAt, longest, bounced>>
  BY DEF Tick, taskVars, keyVars
<1>2. Waits' <=> Waits
  BY <1>1 DEF Waits
<1>3. Typed'
  BY <1>1, Constants DEF IInv, Typed
<1>4. HeldInv' /\ FollowInv' /\ KeyFollowed'
  BY <1>1, <1>2 DEF IInv, HeldInv, FollowInv, KeyFollowed
<1>5. TimeInv'
  <2> SUFFICES ASSUME Measuring'
               PROVE  \E tp \in 0 .. time' : Measures(tp)'
    BY DEF TimeInv
  <2>1. PICK tp \in 0 .. time : Measures(tp)
    BY <1>1 DEF IInv, TimeInv, Measuring
  <2>2. AsInt(tp)' = AsInt(tp)
    BY DEF AsInt
  <2>3. tp \in 0 .. time'
    BY <1>1 DEF IInv, Typed
  <2>4. Measures(tp)'
    BY <1>1, <1>2, <2>1, <2>2, Constants DEF Measures, IInv, Typed
  <2> QED
    BY <2>3, <2>4
<1>6. CleanInv'
  BY <1>1, <1>2 DEF IInv, Typed, CleanInv, Waits
<1>7. ResultMatchesHold'
  BY <1>1 DEF IInv, Typed, ResultMatchesHold
<1> QED
  BY <1>3, <1>4, <1>5, <1>6, <1>7 DEF IInv

LEMMA ReceiveStep ==
    ASSUME IInv, Receive
    PROVE  IInv'
<1>1. /\ pc = "xQueueReceive" /\ edges > 0 /\ edges' = edges - 1 /\ pc' = "gpio_get_level"
      /\ UNCHANGED <<press_key, backup_time, key, level, downAt, longest, bounced, time, late>>
  BY DEF Receive
<1>2. ~Waits /\ ~Waits'
  BY <1>1 DEF Waits
<1>3. Typed'
  <2>1. edges' \in 0 .. QueueLen
    BY <1>1, Constants DEF IInv, Typed
  <2>2. key = "none" /\ key' = "none" /\ pc' # "esp_restart" /\ pc' \in Places
    BY <1>1 DEF IInv, Typed, Places
  <2> QED
    BY <1>1, <2>1, <2>2 DEF IInv, Typed
<1>4. HeldInv' /\ FollowInv' /\ KeyFollowed'
  BY <1>1, <1>2 DEF IInv, HeldInv, FollowInv, KeyFollowed
<1>5. TimeInv'
  <2> SUFFICES ASSUME Measuring'
               PROVE  \E tp \in 0 .. time' : Measures(tp)'
    BY DEF TimeInv
  <2>1. PICK tp \in 0 .. time : Measures(tp)
    BY <1>1 DEF IInv, TimeInv, Measuring
  <2> QED
    BY <1>1, <1>2, <2>1 DEF Measures
<1>6. CleanInv'
  BY <1>1, <1>2 DEF IInv, Typed, CleanInv
<1>7. ResultMatchesHold'
  BY <1>1 DEF IInv, Typed, ResultMatchesHold
<1> QED
  BY <1>3, <1>4, <1>5, <1>6, <1>7 DEF IInv

LEMMA ReadLevelStep ==
    ASSUME IInv, ReadLevel
    PROVE  IInv'
<1>1. /\ pc = "gpio_get_level" /\ press_key' = (press_key \/ level = 0)
      /\ UNCHANGED <<backup_time, key, level, edges, downAt, longest, bounced, time>>
  BY DEF ReadLevel, keyVars
<1>2. ~Waits /\ press_key' \in BOOLEAN /\ (press_key' <=> press_key \/ level = 0)
  BY <1>1 DEF Waits
<1>3. CASE level = 0 /\ pc' = "pressed" /\ UNCHANGED late
  <2>1. Typed'
    BY <1>1, <1>2, <1>3 DEF IInv, Typed, Places
  <2>2. HeldInv' /\ FollowInv' /\ KeyFollowed' /\ TimeInv'
    BY <1>1, <1>2, <1>3 DEF IInv, HeldInv, FollowInv, KeyFollowed, TimeInv, Measuring, Waits
  <2>3. CleanInv'
    BY <1>1, <1>2, <1>3 DEF IInv, Typed, HeldInv, CleanInv
  <2>4. ResultMatchesHold'
    BY <1>1 DEF IInv, ResultMatchesHold
  <2> QED
    BY <2>1, <2>2, <2>3, <2>4 DEF IInv
<1>4. CASE level = 1 /\ press_key /\ pc' = "lifted" /\ UNCHANGED late
  <2>1. Typed'
    BY <1>1, <1>2, <1>4 DEF IInv, Typed, Places
  <2>2. HeldInv' /\ FollowInv' /\ KeyFollowed'
    BY <1>1, <1>2, <1>4 DEF IInv, HeldInv, FollowInv, KeyFollowed, Waits
  <2>3. TimeInv'
    <3>1. PICK tp \in 0 .. time : Measures(tp)
      BY <1>1, <1>4 DEF IInv, TimeInv, Measuring
    <3>2. ~Waits'
      BY <1>4 DEF Waits
    <3>3. Measures(tp)'
      BY <1>1, <1>2, <1>4, <3>1, <3>2 DEF Measures
    <3> QED
      BY <1>1, <3>3 DEF TimeInv
  <2>4. CleanInv'
    BY <1>1, <1>2, <1>4 DEF CleanInv
  <2>5. ResultMatchesHold'
    BY <1>1 DEF IInv, ResultMatchesHold
  <2> QED
    BY <2>1, <2>2, <2>3, <2>4, <2>5 DEF IInv
<1>5. CASE level = 1 /\ ~press_key /\ WaitsAgain
  <2>1. pc' = "xQueueReceive" /\ late' = IF edges = 0 THEN 0 ELSE late
    BY <1>5 DEF WaitsAgain
  <2>2. Typed'
    BY <1>1, <1>2, <1>5, <2>1, Constants DEF IInv, Typed, Places
  <2>3. HeldInv' /\ FollowInv' /\ KeyFollowed' /\ TimeInv'
    BY <1>1, <1>2, <1>5, <2>1
       DEF IInv, Typed, HeldInv, FollowInv, KeyFollowed, TimeInv, Measuring, Waits
  <2>4. CleanInv'
    BY <1>1, <1>2, <1>5 DEF IInv, CleanInv
  <2>5. ResultMatchesHold'
    BY <1>1 DEF IInv, ResultMatchesHold
  <2> QED
    BY <2>2, <2>3, <2>4, <2>5 DEF IInv
<1> QED
  BY <1>3, <1>4, <1>5 DEF ReadLevel

(* The task reads the clock: tp is now.                                    *)
LEMMA PressedStep ==
    ASSUME IInv, Pressed
    PROVE  IInv'
<1>1. /\ pc = "pressed" /\ backup_time' = AsInt(time)
      /\ pc' = "xQueueReceive" /\ late' = IF edges = 0 THEN 0 ELSE late
      /\ UNCHANGED <<press_key, key, level, edges, downAt, longest, bounced, time>>
  BY DEF Pressed, WaitsAgain, keyVars
<1>2. ~Waits /\ press_key /\ (edges = 0 => level = 0) /\ (Waits' <=> edges = 0)
  BY <1>1 DEF IInv, FollowInv, Waits
<1>3. AsInt(time) \in Int
  BY AsIntIs DEF IInv, Typed
<1>4. Typed'
  BY <1>1, <1>3, Constants DEF IInv, Typed, Places
<1>5. level = 0 => downAt >= 0
  BY <1>2 DEF IInv, HeldInv, Typed
<1>6. HeldInv' /\ FollowInv' /\ KeyFollowed'
  BY <1>1, <1>2, <1>5 DEF IInv, Typed, HeldInv, FollowInv, KeyFollowed
<1>7. TimeInv'
  <2>1. time \in 0 .. time'
    BY <1>1 DEF IInv, Typed
  <2>2. IF Waits' THEN downAt <= time ELSE time - time <= longest + late
    BY DEF IInv, Typed
  <2>3. ~bounced => IF level = 0 THEN time - downAt <= Latency /\ longest <= Latency
                                 ELSE longest <= time - time + Latency
    BY <1>1, <1>2, <1>5, Constants DEF IInv, Typed, CleanInv
  <2>4. late' = late \/ Waits'
    BY <1>1, <1>2
  <2>5. Measures(time)'
    BY <1>1, <2>2, <2>3, <2>4 DEF Measures, AsInt
  <2> QED
    BY <1>1, <2>1, <2>5 DEF TimeInv
<1>8. CleanInv'
  BY <1>1, <1>2, <1>5 DEF IInv, CleanInv
<1>9. ResultMatchesHold'
  BY <1>1 DEF IInv, ResultMatchesHold
<1> QED
  BY <1>4, <1>6, <1>7, <1>8, <1>9 DEF IInv

(* The result.                                                             *)
LEMMA LiftedStep ==
    ASSUME IInv, Lifted
    PROVE  IInv'
<1> DEFINE d == AsInt(time - backup_time)
<1>1. /\ pc = "lifted" /\ pc' = "esp_restart" /\ backup_time' = d
      /\ key' = IF d > LongPress THEN "KEY_LONG_PRESS" ELSE "KEY_SHORT_PRESS"
      /\ UNCHANGED <<press_key, level, edges, downAt, longest, bounced, time, late>>
  BY DEF Lifted, keyVars
<1>2. press_key /\ ~Waits /\ ~Waits'
  BY <1>1 DEF IInv, FollowInv, Waits
<1>3. PICK tp \in 0 .. time : Measures(tp)
  BY <1>1, <1>2 DEF IInv, TimeInv, Measuring
<1>4. /\ d \in Int /\ d <= time - tp /\ (time - tp < Half => d = time - tp)
  BY <1>3, Difference DEF Measures, IInv, Typed
<1> HIDE DEF d
<1>5. Typed'
  BY <1>1, <1>4 DEF IInv, Typed, Places
<1>6. HeldInv' /\ FollowInv' /\ KeyFollowed' /\ TimeInv'
  BY <1>1, <1>2 DEF IInv, HeldInv, FollowInv, KeyFollowed, TimeInv, Measuring
<1>7. CleanInv'
  BY <1>1, <1>2 DEF IInv, CleanInv
<1>8. time - tp <= longest + late /\ late <= Latency
  BY <1>2, <1>3 DEF Measures, IInv, Typed
<1>9. ~bounced => level = 1 /\ longest <= time - tp + Latency
  <2>1. ~bounced => level = 1
    BY <1>1, <1>2 DEF IInv, Typed, HeldInv, CleanInv
  <2> QED
    BY <1>3, <2>1 DEF Measures
<1>10. ResultMatchesHold'
  <2>1. CASE d > LongPress
    <3>1. longest > LongPress - Latency
      BY <1>4, <1>8, <2>1, Constants DEF IInv, Typed
    <3> QED
      BY <1>1, <2>1, <3>1 DEF ResultMatchesHold
  <2>2. CASE ~(d > LongPress)
    <3>1. longest <= LongPress + Latency \/ bounced \/ longest >= Half - Latency
      BY <1>4, <1>8, <1>9, <2>2, Constants DEF IInv, Typed
    <3> QED
      BY <1>1, <2>2, <3>1 DEF ResultMatchesHold
  <2> QED
    BY <2>1, <2>2
<1> QED
  BY <1>5, <1>6, <1>7, <1>10 DEF IInv

LEMMA StutterStep ==
    ASSUME IInv, UNCHANGED vars
    PROVE  IInv'
<1>1. /\ UNCHANGED <<pc, press_key, backup_time, key, time, late>>
      /\ UNCHANGED <<level, edges, downAt, longest, bounced>>
  BY DEF vars, taskVars, keyVars
<1> QED
  BY <1>1 DEF IInv, Typed, HeldInv, FollowInv, TimeInv, Measuring, Measures, CleanInv,
              KeyFollowed, ResultMatchesHold, Waits, AsInt

----------------------------------------------------------------------------
(* Theorems                                                                *)

(* The inductive invariant holds in every state.                           *)
THEOREM Invariance == Spec => []IInv
<1>1. IInv /\ [Next]_vars => IInv'
  BY PressStep, ReleaseStep, TickStep, ReceiveStep, ReadLevelStep, PressedStep, LiftedStep,
     StutterStep DEF Next
<1> QED
  BY InitIInv, <1>1, PTL DEF Spec

(* For every length of gpio_evt_queue: whatever edges it has dropped, the  *)
(* task that has caught up knows whether the key is down.                  *)
THEOREM KeyKnown == Spec => []KeyFollowed
<1>1. IInv => KeyFollowed
  BY DEF IInv
<1> QED
  BY <1>1, Invariance, PTL

(* For every latency below a long press and every range of an int: a reset *)
(* to the factory's parameters was asked for by a long press, and a long   *)
(* press gets one, but for bounces and times beyond an int.                *)
THEOREM ResultTrue == Spec => []ResultMatchesHold
<1>1. IInv => ResultMatchesHold
  BY DEF IInv
<1> QED
  BY <1>1, Invariance, PTL
=============================================================================
