------------------------------ MODULE KeyScan ------------------------------
(***************************************************************************)
(* The reset key (soc01/bgs_socket_util.c): an interrupt at each edge puts *)
(* the pin's number in gpio_evt_queue; the task of bgs_key_trigger takes   *)
(* it and, in bgs_key_scan, only then reads the pin and the clock.  A      *)
(* short press restarts the chip, a long one resets it to the factory's    *)
(* parameters first (Params has ixe_reset_factory).                        *)
(*                                                                         *)
(* Time is in ticks.  The task may be kept from running, for Latency ticks *)
(* at most from the moment it has something to do.                         *)
(***************************************************************************)
EXTENDS Integers

CONSTANTS
    QueueLen,       \* slots of gpio_evt_queue (10 in the code)
    LongPress,      \* longest short press (2 s in the code)
    Half,           \* an int is in -Half .. Half - 1 (2^31 microseconds in the code)
    Latency,        \* bound: the longest the task is late
    MaxTime         \* bound: ticks since the chip started

ASSUME KeyAssumption ==
    /\ {QueueLen, LongPress, Half, Latency, MaxTime} \subseteq Nat \ {0}
    /\ Latency < LongPress

VARIABLES
    level,          \* of the pin: 0 while the key is down
    edges,          \* entries of gpio_evt_queue
    pc,             \* where the task is
    press_key,
    backup_time,
    key,            \* what bgs_key_scan has returned, or "none"
    time,           \* esp_timer_get_time
    late,           \* ticks since the task has had something to do
    downAt,         \* history: when the key went down, or -1: before the chip started
    longest,        \* history: the longest the key was down, of what ended
    bounced         \* history: the key went down again before the task had caught up

taskVars == <<pc, press_key, backup_time, key>>
keyVars == <<level, edges, downAt, longest, bounced>>
vars == <<taskVars, keyVars, time, late>>

(* What an assignment to an int keeps of x.                                *)
AsInt(x) == ((x + Half) % (2 * Half)) - Half

Waits == pc = "xQueueReceive" /\ edges = 0

(* The chip starts, the key down or not; it starts again, with or without  *)
(* the reset to the factory's parameters, once bgs_key_scan has returned.  *)
Init ==
    /\ level \in 0..1
    /\ edges = 0
    /\ pc = "xQueueReceive"
    /\ press_key = FALSE
    /\ backup_time = 0
    /\ key = "none"
    /\ time = 0
    /\ late = 0
    /\ downAt = -1
    /\ longest = 0
    /\ bounced = FALSE

----------------------------------------------------------------------------
(* The key.  bgs_gpio_isr_handler: a full queue drops the edge.            *)
bgs_gpio_isr_handler == edges' = IF edges < QueueLen THEN edges + 1 ELSE edges

Press ==
    /\ key = "none" /\ level = 1
    /\ level' = 0
    /\ downAt' = time
    /\ bounced' = (bounced \/ ~Waits)
    /\ bgs_gpio_isr_handler
    /\ UNCHANGED <<taskVars, longest, time, late>>

Release ==
    /\ key = "none" /\ level = 0
    /\ level' = 1
    /\ longest' = IF downAt >= 0 /\ time - downAt > longest THEN time - downAt ELSE longest
    /\ bgs_gpio_isr_handler
    /\ UNCHANGED <<taskVars, downAt, bounced, time, late>>

Tick ==
    /\ key = "none" /\ time < MaxTime
    /\ Waits \/ late < Latency
    /\ time' = time + 1
    /\ late' = IF Waits THEN late ELSE late + 1
    /\ UNCHANGED <<taskVars, keyVars>>

----------------------------------------------------------------------------
(* The task.                                                               *)
WaitsAgain ==
    /\ pc' = "xQueueReceive"
    /\ late' = IF edges = 0 THEN 0 ELSE late

Receive ==
    /\ pc = "xQueueReceive" /\ edges > 0
    /\ edges' = edges - 1
    /\ pc' = "gpio_get_level"
    /\ UNCHANGED <<press_key, backup_time, key, level, downAt, longest, bounced, time, late>>

ReadLevelUnguarded ==       \* Bug: a release counts without its press
    /\ pc = "gpio_get_level"
    /\ press_key' = (level = 0)
    /\ pc' = IF level = 0 THEN "pressed" ELSE "lifted"
    /\ UNCHANGED <<backup_time, key, keyVars, time, late>>

ReadLevel ==
    /\ pc = "gpio_get_level"
    /\ press_key' = (press_key \/ level = 0)
    /\ \/ level = 0 /\ pc' = "pressed" /\ UNCHANGED late
       \/ level = 1 /\ press_key /\ pc' = "lifted" /\ UNCHANGED late
       \/ level = 1 /\ ~press_key /\ WaitsAgain
    /\ UNCHANGED <<backup_time, key, keyVars, time>>

PressedDrains ==            \* Bug: what has come in meanwhile is dropped as bouncing
    /\ pc = "pressed"
    /\ backup_time' = AsInt(time)
    /\ edges' = 0
    /\ pc' = "xQueueReceive"
    /\ late' = 0
    /\ UNCHANGED <<press_key, key, level, downAt, longest, bounced, time>>

(* backup_time = esp_timer_get_time();                                     *)
Pressed ==
    /\ pc = "pressed"
    /\ backup_time' = AsInt(time)
    /\ WaitsAgain
    /\ UNCHANGED <<press_key, key, keyVars, time>>

(* backup_time = esp_timer_get_time() - backup_time; and the result.       *)
Lifted ==
    /\ pc = "lifted"
    /\ backup_time' = AsInt(time - backup_time)
    /\ key' = IF backup_time' > LongPress THEN "KEY_LONG_PRESS" ELSE "KEY_SHORT_PRESS"
    /\ pc' = "esp_restart"
    /\ UNCHANGED <<press_key, keyVars, time, late>>

Next == Press \/ Release \/ Tick \/ Receive \/ ReadLevel \/ Pressed \/ Lifted

Spec == Init /\ [][Next]_vars

----------------------------------------------------------------------------
(* Properties                                                              *)

(* However edges come in, and are dropped, while the task reads a level    *)
(* that is no longer the edge's: once it has caught up it knows whether    *)
(* the key is down.  The exception is a key held since the chip started.   *)
KeyFollowed == Waits => press_key = (level = 0 /\ downAt >= 0)

(* What the chip does was asked for: a reset to the factory's parameters   *)
(* by a key held for LongPress, to within the task's latency; a mere       *)
(* restart by no longer a press, unless the key bounced, or was held for   *)
(* so long that the difference of two times is negative as an int.         *)
ResultMatchesHold ==
    /\ key = "KEY_LONG_PRESS" => longest > LongPress - Latency
    /\ key = "KEY_SHORT_PRESS" =>
           longest <= LongPress + Latency \/ bounced \/ longest >= Half - Latency
=============================================================================
