------------------------- MODULE ProvisioningProofs -------------------------
(***************************************************************************)
(* Proofs about Provisioning for every length of the two queues: the       *)
(* types, and that the users of the Bluetooth stack do not take it from    *)
(* each other.  Nothing locks the stack; the argument is that each call    *)
(* moves it by one from exactly one value, so that of two functions that   *)
(* bring it up or down only one gets through and the other is refused.     *)
(***************************************************************************)
EXTENDS Provisioning, TLAPS

MainPlaces == {"app_main", "ixe_blufi_start", "start_blegw_task", "poll",
               "ixe_blufi_stop", "ixe_ble_ota"}
LoopPlaces == {"idle", "got_ip", "ixe_blufi_stop", "_network_on_connected",
               "_network_on_disconnected"}
BtPlaces == {"idle", "get_wifi_list", "scan"}
GwPlaces == {"idle", "ble_initialize"}
Places == MainPlaces \cup LoopPlaces \cup BtPlaces \cup GwPlaces

(* Each task is in one of its functions, at one of its calls or behind the *)
(* last.                                                                   *)
PcInv ==
    /\ pc \in [Tasks -> [in : Places, call : Nat \ {0}]]
    /\ pc["main"].in \in MainPlaces /\ pc["loop"].in \in LoopPlaces
    /\ pc["bt"].in \in BtPlaces /\ pc["gw"].in \in GwPlaces

(* A scan is the Bluetooth task's, and has a place for its end.            *)
ScanInv ==
    /\ scanning => In("bt", "scan")
    /\ ~In("bt", "idle") => Len(events) < LoopLen

Is(c, h) == stack.controller = c /\ stack.host = h

(* Before start_blegw_task only app_main uses the stack, for BLUFI, except *)
(* for a stop of BLUFI once its start is over.                             *)
BootInv ==
    /\ ~QueueExists =>
           queue = <<>> /\ In("gw", "idle") /\ user \in {"none", "blufi"}
    /\ pc["main"].in \in {"app_main", "ixe_blufi_start"} =>
           ~ixe_blufi_started /\ ~In("loop", "ixe_blufi_stop")
    /\ In("main", "app_main") => Is(0, 0)
    /\ In("main", "ixe_blufi_start") =>
           LET k == pc["main"].call IN
           /\ k = 1 => Is(0, 0)
           /\ k = 2 => Is(0, 0) \/ Is(1, 0)
           /\ k = 3 => Is(2, 0)
           /\ k = 4 => Is(2, 1)
           /\ k > 4 => Is(2, 2)

(* A task in the middle of bringing the stack up, or down: it has moved it *)
(* and will move it again.  There is one at most, and the stack is where   *)
(* it has left it.                                                         *)
Rising(t) == pc[t].in \in {"ixe_ble_ota", "ble_initialize"} /\ pc[t].call \in 2 .. 4
Falling(t) == In(t, "ixe_blufi_stop") /\ pc[t].call \in 3 .. 5
Moves(t) == Rising(t) \/ Falling(t)
Between(t) ==
    /\ Rising(t) /\ pc[t].call = 2 => Is(1, 0)
    /\ Rising(t) /\ pc[t].call = 3 => Is(2, 0)
    /\ Rising(t) /\ pc[t].call = 4 => Is(2, 1)
    /\ Falling(t) /\ pc[t].call = 3 => Is(2, 1)
    /\ Falling(t) /\ pc[t].call = 4 => Is(2, 0)
    /\ Falling(t) /\ pc[t].call = 5 => Is(1, 0)

MoverInv ==
    /\ stack.host > 0 => stack.controller = 2
    /\ \A t \in Tasks : Moves(t) => Between(t) /\ \A u \in Tasks : Moves(u) => u = t

(* ixe_blufi_started: nobody else has begun to bring the stack up, for it  *)
(* has not been down, or the stop that brought it down is at its end.      *)
FlagInv ==
    ixe_blufi_started =>
        \/ \E t \in {"main", "loop"} : Done(t, "ixe_blufi_stop")
        \/ /\ user \in {"none", "blufi"}
           /\ stack.controller > 0
           /\ In("main", "ixe_ble_ota") => pc["main"].call = 1
           /\ In("gw", "ble_initialize") => pc["gw"].call = 1

(* The event loop stops BLUFI while the flag is up: it comes down under it *)
(* only at the end of the stop of app_main, which then overlaps.           *)
OverlapInv ==
    In("loop", "ixe_blufi_stop") =>
        overlapped \/ (ixe_blufi_started /\ ~In("main", "ixe_blufi_stop"))

UseInv == BootInv /\ MoverInv /\ FlagInv /\ OverlapInv /\ UserHasStack

IInv == TypeOK /\ PcInv /\ ScanInv /\ UseInv

----------------------------------------------------------------------------
(* The functions and their calls                                           *)
Ups == {"ixe_blufi_start", "ixe_ble_ota", "ble_initialize"}

LEMMA CallsAre ==
    /\ DOMAIN Calls = Ups \cup {"ixe_blufi_stop"}
    /\ Len(Calls["ixe_blufi_start"]) = 6 /\ Len(Calls["ixe_blufi_stop"]) = 5
    /\ Len(Calls["ixe_ble_ota"]) = 5 /\ Len(Calls["ble_initialize"]) = 5
    /\ \A f \in Ups :
         /\ Calls[f][1] = "controller_init" /\ Calls[f][2] = "controller_enable"
         /\ Calls[f][3] = "bluedroid_init" /\ Calls[f][4] = "bluedroid_enable"
         /\ Calls[f][5] = "register"
    /\ Calls["ixe_blufi_start"][6] = "profile_init"
    /\ Calls["ixe_blufi_stop"][1] = "profile_deinit"
    /\ Calls["ixe_blufi_stop"][2] = "bluedroid_disable"
    /\ Calls["ixe_blufi_stop"][3] = "bluedroid_deinit"
    /\ Calls["ixe_blufi_stop"][4] = "controller_disable"
    /\ Calls["ixe_blufi_stop"][5] = "controller_deinit"
  BY DEF Calls, Enable, Ups

(* Going to a function, and to the next call of one.                       *)
LEMMA GoesIs ==
    ASSUME PcInv, NEW t \in Tasks, NEW f \in Places, Goes(t, f)
    PROVE  /\ pc' \in [Tasks -> [in : Places, call : Nat \ {0}]]
           /\ pc'[t].in = f /\ pc'[t].call = 1
           /\ \A u \in Tasks \ {t} : pc'[u] = pc[u]
  BY DEF Goes, At, PcInv

LEMMA NextCallIs ==
    ASSUME PcInv, NEW t \in Tasks, NextCall(t)
    PROVE  /\ pc' \in [Tasks -> [in : Places, call : Nat \ {0}]]
           /\ pc'[t].in = pc[t].in /\ pc'[t].call = pc[t].call + 1
           /\ \A u \in Tasks \ {t} : pc'[u] = pc[u]
  BY DEF NextCall, PcInv

LEMMA FreshIs ==
    /\ Fresh \in [Tasks -> [in : Places, call : Nat \ {0}]]
    /\ \A t \in Tasks : Fresh[t].call = 1
    /\ Fresh["main"].in = "app_main" /\ Fresh["loop"].in = "idle"
    /\ Fresh["bt"].in = "idle" /\ Fresh["gw"].in = "idle"
  BY DEF Fresh, At, Tasks, Places, MainPlaces, BtPlaces

(* What a call that succeeds does to the stack.                            *)
LEMMA MoveIs ==
    ASSUME stack \in [controller : 0..2, host : 0..2],
           NEW t, NEW c, Succeeds(t, c)
    PROVE  /\ c = "controller_init" =>
                Is(0, stack.host) /\ stack' = [controller |-> 1, host |-> stack.host]
           /\ c = "controller_enable" =>
                Is(1, stack.host) /\ stack' = [controller |-> 2, host |-> stack.host]
           /\ c = "controller_disable" =>
                Is(2, stack.host) /\ stack' = [controller |-> 1, host |-> stack.host]
           /\ c = "controller_deinit" =>
                Is(1, stack.host) /\ stack' = [controller |-> 0, host |-> stack.host]
           /\ c = "bluedroid_init" => Is(2, 0) /\ stack' = [controller |-> 2, host |-> 1]
           /\ c = "bluedroid_enable" =>
                stack.host = 1 /\ stack' = [controller |-> stack.controller, host |-> 2]
           /\ c = "bluedroid_disable" =>
                stack.host = 2 /\ stack' = [controller |-> stack.controller, host |-> 1]
           /\ c = "bluedroid_deinit" =>
                stack.host = 1 /\ stack' = [controller |-> stack.controller, host |-> 0]
           /\ c \in {"register", "profile_init", "profile_deinit"} =>
                stack.host = 2 /\ stack' = stack
<1>1. Allowed(c) /\ stack' = IF c \in DOMAIN Move
                             THEN [stack EXCEPT ![Move[c].of] = Move[c].to] ELSE stack
  BY DEF Succeeds
<1>2. ASSUME c = "controller_init"
      PROVE  Is(0, stack.host) /\ stack' = [controller |-> 1, host |-> stack.host]
  BY <1>1, <1>2 DEF Allowed, Move, Is
<1>3. ASSUME c = "controller_enable"
      PROVE  Is(1, stack.host) /\ stack' = [controller |-> 2, host |-> stack.host]
  BY <1>1, <1>3 DEF Allowed, Move, Is
<1>4. ASSUME c = "controller_disable"
      PROVE  Is(2, stack.host) /\ stack' = [controller |-> 1, host |-> stack.host]
  BY <1>1, <1>4 DEF Allowed, Move, Is
<1>5. ASSUME c = "controller_deinit"
      PROVE  Is(1, stack.host) /\ stack' = [controller |-> 0, host |-> stack.host]
  BY <1>1, <1>5 DEF Allowed, Move, Is
<1>6. ASSUME c = "bluedroid_init"
      PROVE  Is(2, 0) /\ stack' = [controller |-> 2, host |-> 1]
  BY <1>1, <1>6 DEF Allowed, Move, Is
<1>7. ASSUME c = "bluedroid_enable"
      PROVE  stack.host = 1 /\ stack' = [controller |-> stack.controller, host |-> 2]
  BY <1>1, <1>7 DEF Allowed, Move, Is
<1>8. ASSUME c = "bluedroid_disable"
      PROVE  stack.host = 2 /\ stack' = [controller |-> stack.controller, host |-> 1]
  BY <1>1, <1>8 DEF Allowed, Move, Is
<1>9. ASSUME c = "bluedroid_deinit"
      PROVE  stack.host = 1 /\ stack' = [controller |-> stack.controller, host |-> 0]
  BY <1>1, <1>9 DEF Allowed, Move, Is
<1>10. ASSUME c \in {"register", "profile_init", "profile_deinit"}
       PROVE  stack.host = 2 /\ stack' = stack
  BY <1>1, <1>10 DEF Allowed, Move, Is
<1> QED
  BY <1>2, <1>3, <1>4, <1>5, <1>6, <1>7, <1>8, <1>9, <1>10
(* A move of the stack, and what the call k of function f comes to when it *)
(* succeeds, in a state of the invariant.                                  *)
Turns(c, h, d, i) == Is(c, h) /\ stack' = [controller |-> d, host |-> i]

Effect(f, k) ==
    \/ /\ user' = user
       /\ \/ f \in Ups /\ k = 1 /\ Turns(0, 0, 1, 0)
          \/ f \in Ups /\ k = 2 /\ Turns(1, 0, 2, 0)
          \/ f \in Ups /\ k = 3 /\ Turns(2, 0, 2, 1)
          \/ f \in Ups /\ k = 4 /\ Turns(2, 1, 2, 2)
          \/ f = "ixe_blufi_stop" /\ k = 3 /\ Turns(2, 1, 2, 0)
          \/ f = "ixe_blufi_stop" /\ k = 4 /\ Turns(2, 0, 1, 0)
          \/ f = "ixe_blufi_stop" /\ k = 5 /\ Turns(1, 0, 0, 0)
    \/ /\ Is(2, 2) /\ stack' = stack
       /\ \/ f = "ixe_blufi_start" /\ k = 5 /\ user' = user
          \/ f = "ixe_ble_ota" /\ k = 5 /\ user' = "server"
          \/ f = "ble_initialize" /\ k = 5 /\ user' = "client"
          \/ f = "ixe_blufi_start" /\ k = 6 /\ user' = "blufi"
          \/ f = "ixe_blufi_stop" /\ k = 1 /\ user' = IF user = "blufi" THEN "none" ELSE user
    \/ f = "ixe_blufi_stop" /\ k = 2 /\ user' = "none" /\ Turns(2, 2, 2, 1)

Advances(t) ==
    /\ Effect(pc[t].in, pc[t].call)
    /\ pc'[t].in = pc[t].in /\ pc'[t].call = pc[t].call + 1

(* A refusal ends a function, but for two calls of ixe_blufi_start.        *)
Returns(t) ==
    /\ UNCHANGED <<stack, user>>
    /\ \/ pc'[t].in = ErrorExit(t) /\ pc'[t].call = 1
       \/ /\ In(t, "ixe_blufi_start") /\ pc[t].call \in {1, 6}
          /\ pc'[t].in = pc[t].in /\ pc'[t].call = pc[t].call + 1

(* Where the stack is called from.                                         *)
LEMMA CallersAre ==
    ASSUME PcInv, NEW t \in Tasks, Calling(t)
    PROVE  /\ \/ t = "main" /\ pc[t].in \in {"ixe_blufi_start", "ixe_blufi_stop", "ixe_ble_ota"}
              \/ t = "loop" /\ In(t, "ixe_blufi_stop")
              \/ t = "gw" /\ In(t, "ble_initialize")
           /\ pc[t].call \in 1 .. 6
           /\ pc[t].call = 6 => In(t, "ixe_blufi_start")
<1>1. pc[t].in \in DOMAIN Calls /\ pc[t].call <= Len(Calls[pc[t].in])
  BY DEF Calling
<1>2. pc[t].call \in Nat \ {0}
  BY DEF PcInv
<1>3. \/ t = "main" /\ pc[t].in \in {"ixe_blufi_start", "ixe_blufi_stop", "ixe_ble_ota"}
      \/ t = "loop" /\ In(t, "ixe_blufi_stop")
      \/ t = "gw" /\ In(t, "ble_initialize")
  <2>1. pc[t].in \in {"ixe_blufi_start", "ixe_ble_ota", "ble_initialize", "ixe_blufi_stop"}
    BY <1>1, CallsAre DEF Ups
  <2>2. CASE t = "main"
    BY <2>1, <2>2 DEF PcInv, MainPlaces
  <2>3. CASE t = "loop"
    BY <2>1, <2>3 DEF PcInv, LoopPlaces, In
  <2>4. CASE t = "bt"
    BY <2>1, <2>4 DEF PcInv, BtPlaces
  <2>5. CASE t = "gw"
    BY <2>1, <2>5 DEF PcInv, GwPlaces, In
  <2> QED
    BY <2>2, <2>3, <2>4, <2>5 DEF Tasks
<1>4. Len(Calls[pc[t].in]) = IF In(t, "ixe_blufi_start") THEN 6 ELSE 5
  <2>1. pc[t].in \in {"ixe_blufi_start", "ixe_blufi_stop", "ixe_ble_ota", "ble_initialize"}
    BY <1>3 DEF In
  <2>2. CASE pc[t].in = "ixe_blufi_start"
    BY <2>2, CallsAre DEF In
  <2>3. CASE pc[t].in = "ixe_blufi_stop"
    BY <2>3, CallsAre DEF In
  <2>4. CASE pc[t].in = "ixe_ble_ota"
    BY <2>4, CallsAre DEF In
  <2>5. CASE pc[t].in = "ble_initialize"
    BY <2>5, CallsAre DEF In
  <2> QED
    BY <2>1, <2>2, <2>3, <2>4, <2>5
<1> QED
  BY <1>1, <1>2, <1>3, <1>4

LEMMA SucceedsAdvances ==
    ASSUME TypeOK, PcInv, MoverInv, NEW t \in Tasks, Calling(t),
           Succeeds(t, Calls[pc[t].in][pc[t].call])
    PROVE  Advances(t)
<1> DEFINE f == pc[t].in
           k == pc[t].call
           c == Calls[f][k]
<1>1. pc'[t].in = f /\ pc'[t].call = k + 1
  BY NextCallIs DEF Succeeds
<1>2. stack \in [controller : 0..2, host : 0..2]
  BY DEF TypeOK
<1>3. user' = UserAfter(c, f)
  BY DEF Succeeds
<1>4. /\ \/ f \in Ups
         \/ f = "ixe_blufi_stop"
      /\ k \in 1 .. 6 /\ (k = 6 => f = "ixe_blufi_start")
  BY CallersAre DEF In, Ups
<1>5. stack.host > 0 => stack.controller = 2
  BY DEF MoverInv
<1>6. stack.controller \in 0..2 /\ stack.host \in 0..2
      /\ stack = [controller |-> stack.controller, host |-> stack.host]
  BY <1>2
<1>7. ASSUME f \in Ups, k = 1 PROVE Effect(f, k)
  <2>1. c = "controller_init"
    BY <1>7, CallsAre
  <2>2. user' = user
    BY <1>3, <2>1 DEF UserAfter
  <2>3. Turns(0, 0, 1, 0)
    BY <1>2, <1>5, <1>6, <2>1, MoveIs DEF Is, Turns
  <2> QED
    BY <1>7, <2>2, <2>3 DEF Effect
<1>8. ASSUME f \in Ups, k = 2 PROVE Effect(f, k)
  <2>1. c = "controller_enable"
    BY <1>8, CallsAre
  <2>2. user' = user
    BY <1>3, <2>1 DEF UserAfter
  <2>3. Turns(1, 0, 2, 0)
    BY <1>2, <1>5, <1>6, <2>1, MoveIs DEF Is, Turns
  <2> QED
    BY <1>8, <2>2, <2>3 DEF Effect
<1>9. ASSUME f \in Ups, k = 3 PROVE Effect(f, k)
  <2>1. c = "bluedroid_init"
    BY <1>9, CallsAre
  <2>2. user' = user
    BY <1>3, <2>1 DEF UserAfter
  <2>3. Turns(2, 0, 2, 1)
    BY <1>2, <1>5, <1>6, <2>1, MoveIs DEF Is, Turns
  <2> QED
    BY <1>9, <2>2, <2>3 DEF Effect
<1>10. ASSUME f \in Ups, k = 4 PROVE Effect(f, k)
  <2>1. c = "bluedroid_enable"
    BY <1>10, CallsAre
  <2>2. user' = user
    BY <1>3, <2>1 DEF UserAfter
  <2>3. Turns(2, 1, 2, 2)
    BY <1>2, <1>5, <1>6, <2>1, MoveIs DEF Is, Turns
  <2> QED
    BY <1>10, <2>2, <2>3 DEF Effect
<1>11. ASSUME f \in Ups, k = 5 PROVE Effect(f, k)
  <2>1. c = "register"
    BY <1>11, CallsAre
  <2>2. Is(2, 2) /\ stack' = stack
    BY <1>2, <1>5, <1>6, <2>1, MoveIs DEF Is
  <2>3. \/ f = "ixe_blufi_start" /\ user' = user
        \/ f = "ixe_ble_ota" /\ user' = "server"
        \/ f = "ble_initialize" /\ user' = "client"
    BY <1>3, <1>11, <2>1 DEF UserAfter, Ups
  <2> QED
    BY <1>11, <2>2, <2>3 DEF Effect
<1>12. ASSUME k = 6 PROVE Effect(f, k)
  <2>1. f = "ixe_blufi_start" /\ c = "profile_init"
    BY <1>4, <1>12, CallsAre
  <2>2. Is(2, 2) /\ stack' = stack
    BY <1>2, <1>5, <1>6, <2>1, MoveIs DEF Is
  <2>3. user' = "blufi"
    BY <1>3, <2>1 DEF UserAfter
  <2> QED
    BY <1>12, <2>1, <2>2, <2>3 DEF Effect
<1>13. ASSUME f = "ixe_blufi_stop", k = 1 PROVE Effect(f, k)
  <2>1. c = "profile_deinit"
    BY <1>13, CallsAre
  <2>2. Is(2, 2) /\ stack' = stack
    BY <1>2, <1>5, <1>6, <2>1, MoveIs DEF Is
  <2>3. user' = IF user = "blufi" THEN "none" ELSE user
    BY <1>3, <2>1 DEF UserAfter
  <2> QED
    BY <1>13, <2>2, <2>3 DEF Effect
<1>14. ASSUME f = "ixe_blufi_stop", k = 2 PROVE Effect(f, k)
  <2>1. c = "bluedroid_disable"
    BY <1>14, CallsAre
  <2>2. Turns(2, 2, 2, 1)
    BY <1>2, <1>5, <1>6, <2>1, MoveIs DEF Is, Turns
  <2>3. user' = "none"
    BY <1>3, <2>1 DEF UserAfter
  <2> QED
    BY <1>14, <2>2, <2>3 DEF Effect
<1>15. ASSUME f = "ixe_blufi_stop", k = 3 PROVE Effect(f, k)
  <2>1. c = "bluedroid_deinit"
    BY <1>15, CallsAre
  <2>2. user' = user
    BY <1>3, <2>1 DEF UserAfter
  <2>3. Turns(2, 1, 2, 0)
    BY <1>2, <1>5, <1>6, <2>1, MoveIs DEF Is, Turns
  <2> QED
    BY <1>15, <2>2, <2>3 DEF Effect
<1>16. ASSUME f = "ixe_blufi_stop", k = 4 PROVE Effect(f, k)
  <2>1. c = "controller_disable"
    BY <1>16, CallsAre
  <2>2. user' = user
    BY <1>3, <2>1 DEF UserAfter
  <2>3. Is(2, 0)
    BY <1>16 DEF MoverInv, Moves, Falling, Between, In
  <2>4. Turns(2, 0, 1, 0)
    BY <1>2, <2>1, <2>3, MoveIs DEF Is, Turns
  <2> QED
    BY <1>16, <2>2, <2>4 DEF Effect
<1>17. ASSUME f = "ixe_blufi_stop", k = 5 PROVE Effect(f, k)
  <2>1. c = "controller_deinit"
    BY <1>17, CallsAre
  <2>2. user' = user
    BY <1>3, <2>1 DEF UserAfter
  <2>3. Turns(1, 0, 0, 0)
    BY <1>2, <1>5, <1>6, <2>1, MoveIs DEF Is, Turns
  <2> QED
    BY <1>17, <2>2, <2>3 DEF Effect
<1> HIDE DEF c
<1>18. Effect(f, k)
  BY <1>4, <1>7, <1>8, <1>9, <1>10, <1>11, <1>12, <1>13, <1>14, <1>15, <1>16, <1>17
<1> QED
  BY <1>1, <1>18 DEF Advances

LEMMA RefusedReturns ==
    ASSUME PcInv, NEW t \in Tasks, Calling(t), t # "gw",
           Refused(t, Calls[pc[t].in][pc[t].call])
    PROVE  Returns(t) /\ (\A u \in Tasks \ {t} : pc'[u] = pc[u])
           /\ pc' \in [Tasks -> [in : Places, call : Nat \ {0}]]
<1> DEFINE c == Calls[pc[t].in][pc[t].call]
<1>1. UNCHANGED <<stack, user>>
  BY DEF Refused
<1>2. CASE GoesOn(t, c)
  <2>1. NextCall(t)
    BY <1>2 DEF Refused
  <2>2. In(t, "ixe_blufi_start") /\ c \in {"controller_init", "profile_init"}
    BY <1>2 DEF GoesOn
  <2>3. pc[t].call \in {1, 6}
    <3>1. pc[t].call \in 1 .. 6
      BY CallersAre
    <3>2. c = Calls["ixe_blufi_start"][pc[t].call] /\ "ixe_blufi_start" \in Ups
      BY <2>2 DEF In, Ups
    <3> HIDE DEF c
    <3> QED
      BY <2>2, <3>1, <3>2, CallsAre
  <2> QED
    BY <1>1, <2>1, <2>2, <2>3, NextCallIs DEF Returns
<1>3. CASE ~GoesOn(t, c)
  <2>1. Goes(t, ErrorExit(t))
    BY <1>3 DEF Refused
  <2>2. ErrorExit(t) \in Places
    BY CallersAre DEF ErrorExit, AfterStop, In, Places, MainPlaces, LoopPlaces
  <2> QED
    BY <1>1, <2>1, <2>2, GoesIs DEF Returns
<1> QED
  BY <1>2, <1>3

(* A call of the stack: what it may change.                                *)
LEMMA CallStep ==
    ASSUME TypeOK, PcInv, MoverInv, NEW t \in Tasks, StackCall(t)
    PROVE  /\ Calling(t)
           /\ Advances(t) \/ (t # "gw" /\ Returns(t))
           /\ \A u \in Tasks \ {t} : pc'[u] = pc[u]
           /\ pc' \in [Tasks -> [in : Places, call : Nat \ {0}]]
           /\ UNCHANGED <<ixe_blufi_started, ble_ota_flag, wifiVars, events, queue,
                          initialized, abort>>
<1> DEFINE c == Calls[pc[t].in][pc[t].call]
<1>1. Calling(t)
  BY DEF StackCall
<1>2. CASE Succeeds(t, c)
  <2>1. Advances(t)
    BY <1>1, <1>2, SucceedsAdvances
  <2>2. NextCall(t)
    BY <1>2 DEF Succeeds
  <2> QED
    BY <1>1, <1>2, <2>1, <2>2, NextCallIs DEF Succeeds
<1>3. CASE t # "gw" /\ Refused(t, c)
  BY <1>1, <1>3, RefusedReturns DEF Refused
<1> QED
  BY <1>2, <1>3 DEF StackCall

----------------------------------------------------------------------------
(* Every step is of one of six kinds, as far as the stack is concerned: a  *)
(* reset, a step that leaves it and its callers alone, a caller that goes  *)
(* from one function to another, the end of ixe_blufi_start and of         *)
(* ixe_blufi_stop, and a call.                                             *)
PcType == [Tasks -> [in : Places, call : Nat \ {0}]]

Keeps ==
    /\ UNCHANGED <<stack, user, ixe_blufi_started>>
    /\ queue' = queue \/ QueueExists
    /\ Alive => Alive'

Rests ==
    /\ Keeps
    /\ pc' \in PcType /\ pc'["bt"].in \in BtPlaces
    /\ \A u \in Tasks \ {"bt"} : pc'[u] = pc[u]

Route(t) ==
    LET from == pc[t].in
        to == pc'[t].in
    IN  \/ t = "main" /\ from = "app_main" /\ to \in {"ixe_blufi_start", "start_blegw_task"}
        \/ t = "main" /\ from = "start_blegw_task" /\ to = "poll"
        \/ t = "main" /\ from = "poll" /\ to = "ixe_blufi_stop"
        \/ t = "main" /\ from = "ixe_ble_ota" /\ to = "poll"
        \/ t = "loop" /\ from # "ixe_blufi_stop" /\ to \in LoopPlaces \ {"ixe_blufi_stop"}
        \/ t = "loop" /\ from = "got_ip" /\ to = "ixe_blufi_stop" /\ ixe_blufi_started
        \/ t = "gw" /\ from = "idle" /\ to = "ble_initialize" /\ queue # <<>>
        \/ t = "gw" /\ from = "ble_initialize" /\ to = "idle"

Walks(t) ==
    /\ Keeps
    /\ t = "main" => queue' = queue
    /\ pc' \in PcType /\ pc'[t].call = 1
    /\ \A u \in Tasks \ {t} : pc'[u] = pc[u]
    /\ Route(t)

Users == {"main", "loop", "gw"}

LEMMA RestIs ==
    ASSUME PcInv, UNCHANGED <<pc, btVars>>, queue' = queue \/ QueueExists, Alive => Alive'
    PROVE  Rests
  BY DEF PcInv, Rests, Keeps, btVars, PcType

LEMMA DriverKind ==
    ASSUME PcInv, Driver
    PROVE  Rests
<1>1. UNCHANGED <<pc, btVars, queue, abort>>
  BY DEF Driver, Associated, StationLost
<1> QED
  BY <1>1, RestIs DEF Alive

LEMMA MainKind ==
    ASSUME PcInv, Main
    PROVE  Rests \/ Walks("main") \/ BlufiStarted \/ BlufiStopped("main") \/ StackCall("main")
<1> "main" \in Tasks
  BY DEF Tasks
<1>1. CASE Reboot
  BY <1>1, RestIs DEF Reboot, Alive
<1>2. CASE StartBlufi
  <2>1. PICK f \in {"ixe_blufi_start", "start_blegw_task"} : Goes("main", f)
    BY <1>2 DEF StartBlufi
  <2> QED
    BY <1>2, <2>1, GoesIs
       DEF StartBlufi, Walks, Keeps, Route, PcType, In, btVars, Alive, Places, MainPlaces
<1>3. CASE StartBlegwTask
  BY <1>3, GoesIs
     DEF StartBlegwTask, Walks, Keeps, Route, PcType, In, btVars, Alive, Places, MainPlaces
<1>4. CASE Poll
  BY <1>4, GoesIs DEF Poll, Walks, Keeps, Route, PcType, In, btVars, Alive, Places, MainPlaces
<1>5. CASE BleOtaStarted
  BY <1>5, GoesIs
     DEF BleOtaStarted, Done, Walks, Keeps, Route, PcType, In, btVars, Alive, Places, MainPlaces
<1> QED
  BY <1>1, <1>2, <1>3, <1>4, <1>5 DEF Main

LEMMA LoopKind ==
    ASSUME PcInv, Loop
    PROVE  \/ Rests \/ Walks("loop") \/ (\E cause \in Aborts : Fail(cause))
           \/ BlufiStopped("loop") \/ StackCall("loop")
<1> "loop" \in Tasks
  BY DEF Tasks
<1>1. CASE ConnectOn("STA_START") \/ ConnectOn("SCAN_DONE") \/ NothingFound
  BY <1>1, RestIs DEF ConnectOn, NothingFound, Alive
<1>2. CASE StaDisconnected
  BY <1>2, GoesIs DEF StaDisconnected, Take, Walks, Keeps, Route, PcType, In, btVars, Alive,
     Places, LoopPlaces
<1>3. CASE GotIp
  BY <1>3, GoesIs DEF GotIp, Take, Walks, Keeps, Route, PcType, In, btVars, Alive,
     Places, LoopPlaces
<1>4. CASE GotIpStopsBlufi
  BY <1>4, GoesIs DEF GotIpStopsBlufi, Walks, Keeps, Route, PcType, In, btVars, Alive,
     Places, LoopPlaces
<1>5. CASE OnConnected \/ OnDisconnected
  <2>1. CASE NoQueue
    BY <2>1 DEF NoQueue, Aborts
  <2>2. ASSUME NEW e, Post(e), pc["loop"].in # "ixe_blufi_stop" PROVE Walks("loop")
    BY <2>2, GoesIs DEF Post, Walks, Keeps, Route, PcType, btVars, Alive, Places, LoopPlaces
  <2> QED
    BY <1>5, <2>1, <2>2 DEF OnConnected, OnDisconnected, In
<1> QED
  BY <1>1, <1>2, <1>3, <1>4, <1>5 DEF Loop

LEMMA BtKind ==
    ASSUME PcInv, PhoneSends \/ BtTask
    PROVE  Rests \/ (\E cause \in Aborts : Fail(cause))
<1>1. ASSUME NEW f \in BtPlaces, Goes("bt", f), UNCHANGED <<btVars, queue, abort>>
      PROVE  Rests
  BY <1>1, GoesIs DEF Rests, Keeps, PcType, btVars, Alive, Places, BtPlaces, Tasks
<1>2. CASE SetConfig \/ RequestConnect \/ SetWifiStart \/ SetWifiConnect \/ ResetFactory
             \/ SetBleOta
  <2>1. UNCHANGED <<pc, btVars, queue, abort>>
    BY <1>2 DEF SetConfig, RequestConnect, SetWifiStart, SetWifiConnect, ResetFactory, SetBleOta
  <2> QED
    BY <2>1, RestIs DEF Alive
<1>3. ASSUME NEW next \in {"idle", "get_wifi_list"}, Disconnect(next) PROVE Rests
  BY <1>1, <1>3 DEF Disconnect, BtPlaces
<1>4. CASE ScanStart
  BY <1>1, <1>4 DEF ScanStart, BtPlaces, Aborts
<1>5. ASSUME NEW found \in BOOLEAN, ScanEnds(found) PROVE Rests
  BY <1>1, <1>5 DEF ScanEnds, BtPlaces
<1> QED
  BY <1>2, <1>3, <1>4, <1>5 DEF PhoneSends, BtTask

LEMMA GwKind ==
    ASSUME PcInv, BootInv, Gw
    PROVE  \/ Rests \/ Walks("gw") \/ (\E cause \in Aborts : Fail(cause)) \/ StackCall("gw")
<1> "gw" \in Tasks
  BY DEF Tasks
<1>1. CASE NetworkConnected
  <2>1. QueueExists
    BY <1>1 DEF NetworkConnected, BootInv
  <2> QED
    BY <1>1, <2>1, GoesIs
       DEF NetworkConnected, Walks, Keeps, Route, PcType, In, btVars, Alive, Places, GwPlaces
<1>2. CASE BleInitialized
  BY <1>2, GoesIs
     DEF BleInitialized, Done, Walks, Keeps, Route, PcType, In, btVars, Alive, Places, GwPlaces
<1>3. CASE NetworkDisconnected
  <2>1. QueueExists
    BY <1>3 DEF NetworkDisconnected, BootInv
  <2> QED
    BY <1>3, <2>1, RestIs DEF NetworkDisconnected, Aborts, Alive
<1>4. CASE EspErrorCheck
  BY <1>4 DEF EspErrorCheck, Aborts
<1> QED
  BY <1>1, <1>2, <1>3, <1>4 DEF Gw

LEMMA Kinds ==
    ASSUME PcInv, BootInv, Step
    PROVE  \/ \E cause \in Aborts : Fail(cause)
           \/ Rests
           \/ \E t \in Users : Walks(t)
           \/ BlufiStarted
           \/ \E t \in {"main", "loop"} : BlufiStopped(t)
           \/ \E t \in Users : StackCall(t)
  BY DriverKind, MainKind, LoopKind, BtKind, GwKind DEF Step, Users

(* Where a function that was refused leads its caller.                     *)
Leads(t) ==
    /\ UNCHANGED <<stack, user>>
    /\ \/ /\ t = "main" /\ In(t, "ixe_blufi_start") /\ pc[t].call \in {1, 6}
          /\ pc'[t].in = "ixe_blufi_start" /\ pc'[t].call = pc[t].call + 1
       \/ /\ pc'[t].call = 1
          /\ \/ t = "main" /\ In(t, "ixe_blufi_start") /\ pc'[t].in = "start_blegw_task"
             \/ t = "main" /\ In(t, "ixe_blufi_stop") /\ pc'[t].in = "ixe_ble_ota"
             \/ t = "main" /\ In(t, "ixe_ble_ota") /\ pc'[t].in = "poll"
             \/ t = "loop" /\ In(t, "ixe_blufi_stop") /\ pc'[t].in = "_network_on_connected"

LEMMA ReturnsLeads ==
    ASSUME PcInv, NEW t \in Users, Calling(t), t # "gw", Returns(t)
    PROVE  Leads(t)
<1> t \in Tasks
  BY DEF Users, Tasks
<1>1. CASE pc'[t].in = ErrorExit(t) /\ pc'[t].call = 1
  <2>1. CASE t = "main" /\ In(t, "ixe_blufi_start")
    BY <1>1, <2>1 DEF Returns, Leads, ErrorExit, In
  <2>2. CASE In(t, "ixe_blufi_stop")
    BY <1>1, <2>2, CallersAre DEF Returns, Leads, ErrorExit, AfterStop, In
  <2>3. CASE t = "main" /\ In(t, "ixe_ble_ota")
    BY <1>1, <2>3 DEF Returns, Leads, ErrorExit, In
  <2> QED
    BY <2>1, <2>2, <2>3, CallersAre DEF In
<1>2. CASE ~(pc'[t].in = ErrorExit(t) /\ pc'[t].call = 1)
  BY <1>2, CallersAre DEF Returns, Leads, In
<1> QED
  BY <1>1, <1>2

(* The ends of the two functions of BLUFI.                                 *)
LEMMA StartedIs ==
    ASSUME PcInv, BlufiStarted
    PROVE  /\ Done("main", "ixe_blufi_start") /\ ixe_blufi_started' = TRUE
           /\ UNCHANGED <<stack, user, queue, abort>>
           /\ pc' \in PcType /\ pc'["main"].in = "start_blegw_task" /\ pc'["main"].call = 1
           /\ \A u \in Tasks \ {"main"} : pc'[u] = pc[u]
  BY GoesIs DEF BlufiStarted, PcType, Tasks, Places, MainPlaces

LEMMA StoppedIs ==
    ASSUME PcInv, NEW t \in {"main", "loop"}, BlufiStopped(t)
    PROVE  /\ Done(t, "ixe_blufi_stop") /\ ixe_blufi_started' = FALSE
           /\ UNCHANGED <<stack, user, queue, abort>>
           /\ pc' \in PcType /\ pc'[t].in = AfterStop(t) /\ pc'[t].call = 1
           /\ \A u \in Tasks \ {t} : pc'[u] = pc[u]
<1>1. t \in Tasks /\ AfterStop(t) \in Places
  BY DEF Tasks, AfterStop, Places, MainPlaces, LoopPlaces
<1> QED
  BY <1>1, GoesIs DEF BlufiStopped, PcType

LEMMA PcStep ==
    ASSUME TypeOK, PcInv, BootInv, MoverInv, Step
    PROVE  PcInv'
<1> "main" \in Tasks /\ "loop" \in Tasks /\ "bt" \in Tasks /\ "gw" \in Tasks /\ Users \subseteq Tasks
  BY DEF Tasks, Users
<1>1. ASSUME NEW cause \in Aborts, Fail(cause) PROVE PcInv'
  BY <1>1, FreshIs DEF Fail, PcInv, MainPlaces, LoopPlaces, BtPlaces, GwPlaces
<1>2. CASE Rests
  BY <1>2 DEF Rests, PcInv, PcType
<1>3. ASSUME NEW t \in Users, Walks(t) PROVE PcInv'
  <2>1. pc' \in PcType /\ \A u \in Tasks \ {t} : pc'[u] = pc[u]
    BY <1>3 DEF Walks
  <2>2. CASE t = "main"
    <3>1. pc'["main"].in \in MainPlaces
      BY <1>3, <2>2 DEF Walks, Route, MainPlaces
    <3> QED
      BY <2>1, <2>2, <3>1 DEF PcInv, PcType
  <2>3. CASE t = "loop"
    <3>1. pc'["loop"].in \in LoopPlaces
      BY <1>3, <2>3 DEF Walks, Route, LoopPlaces
    <3> QED
      BY <2>1, <2>3, <3>1 DEF PcInv, PcType
  <2>4. CASE t = "gw"
    <3>1. pc'["gw"].in \in GwPlaces
      BY <1>3, <2>4 DEF Walks, Route, GwPlaces
    <3> QED
      BY <2>1, <2>4, <3>1 DEF PcInv, PcType
  <2> QED
    BY <2>2, <2>3, <2>4 DEF Users
<1>4. CASE BlufiStarted
  BY <1>4, StartedIs DEF PcInv, PcType, MainPlaces
<1>5. ASSUME NEW t \in {"main", "loop"}, BlufiStopped(t) PROVE PcInv'
  BY <1>5, StoppedIs DEF PcInv, PcType, AfterStop, MainPlaces, LoopPlaces
<1>6. ASSUME NEW t \in Users, StackCall(t) PROVE PcInv'
  <2>1. /\ Calling(t)
        /\ Advances(t) \/ (t # "gw" /\ Returns(t))
        /\ \A u \in Tasks \ {t} : pc'[u] = pc[u]
        /\ pc' \in PcType
    BY <1>6, CallStep DEF PcType
  <2>2. CASE Advances(t)
    BY <2>1, <2>2 DEF Advances, PcInv, PcType, Users
  <2>3. CASE t # "gw" /\ Returns(t)
    <3>1. Leads(t)
      BY <2>1, <2>3, ReturnsLeads
    <3>2. CASE t = "main"
      BY <2>1, <3>1, <3>2 DEF Leads, PcInv, PcType, MainPlaces
    <3>3. CASE t = "loop"
      BY <2>1, <3>1, <3>3 DEF Leads, PcInv, PcType, LoopPlaces
    <3> QED
      BY <2>3, <3>2, <3>3 DEF Users
  <2> QED
    BY <2>1, <2>2, <2>3
<1> QED
  BY <1>1, <1>2, <1>3, <1>4, <1>5, <1>6, Kinds

----------------------------------------------------------------------------
(* The stack's users, step by step                                         *)

LEMMA BootStep ==
    ASSUME TypeOK, PcInv, BootInv, MoverInv, Step
    PROVE  BootInv'
<1> "main" \in Tasks /\ "loop" \in Tasks /\ "bt" \in Tasks /\ "gw" \in Tasks /\ Users \subseteq Tasks
  BY DEF Tasks, Users
<1>1. ASSUME NEW cause \in Aborts, Fail(cause) PROVE BootInv'
  BY <1>1, FreshIs DEF Fail, BootInv, QueueExists, Is, In, Down
<1>2. CASE Rests
  BY <1>2 DEF Rests, Keeps, BootInv, QueueExists, Is, In
<1>3. ASSUME NEW t \in Users, Walks(t) PROVE BootInv'
  <2>1. CASE t = "main"
    BY <1>3, <2>1 DEF Walks, Keeps, Route, BootInv, QueueExists, Is, In
  <2>2. CASE t = "loop"
    BY <1>3, <2>2 DEF Walks, Keeps, Route, BootInv, QueueExists, Is, In
  <2>3. CASE t = "gw"
    BY <1>3, <2>3 DEF Walks, Keeps, Route, BootInv, QueueExists, Is, In
  <2> QED
    BY <2>1, <2>2, <2>3 DEF Users
<1>4. CASE BlufiStarted
  BY <1>4, StartedIs DEF Done, BootInv, QueueExists, Is, In
<1>5. ASSUME NEW t \in {"main", "loop"}, BlufiStopped(t) PROVE BootInv'
  <2>1. CASE t = "main"
    BY <1>5, <2>1, StoppedIs DEF Done, AfterStop, BootInv, QueueExists, Is, In
  <2>2. CASE t = "loop"
    BY <1>5, <2>2, StoppedIs DEF Done, AfterStop, BootInv, QueueExists, Is, In
  <2> QED
    BY <2>1, <2>2
<1>6. ASSUME NEW t \in Users, StackCall(t) PROVE BootInv'
  <2>1. /\ Calling(t)
        /\ Advances(t) \/ (t # "gw" /\ Returns(t))
        /\ \A u \in Tasks \ {t} : pc'[u] = pc[u]
        /\ UNCHANGED <<ixe_blufi_started, queue>>
    BY <1>6, CallStep
  <2>2. pc[t].call \in 1 .. 6
    BY <2>1, CallersAre
  <2>3. CASE t = "main" /\ In(t, "ixe_blufi_start")
    <3>1. CASE Advances(t)
      <4>1. /\ pc["main"].call = 1 => stack'.controller = 1 /\ stack'.host = 0
            /\ pc["main"].call = 2 => stack'.controller = 2 /\ stack'.host = 0
            /\ pc["main"].call = 3 => stack'.controller = 2 /\ stack'.host = 1
            /\ pc["main"].call > 3 => stack'.controller = 2 /\ stack'.host = 2
        BY <2>2, <2>3, <3>1 DEF Advances, Effect, Turns, Is, Ups, In
      <4>2. user' = user \/ user' = "blufi"
        BY <2>2, <2>3, <3>1 DEF Advances, Effect, In
      <4>3. pc'["main"].in = "ixe_blufi_start" /\ pc'["main"].call = pc["main"].call + 1
        BY <2>3, <3>1 DEF Advances, In
      <4> QED
        BY <2>1, <2>2, <2>3, <4>1, <4>2, <4>3 DEF BootInv, QueueExists, Is, In
    <3>2. CASE Returns(t)
      <4>1. Leads(t)
        BY <2>1, <2>3, <3>2, ReturnsLeads
      <4> QED
        BY <2>1, <2>2, <2>3, <4>1 DEF Leads, BootInv, QueueExists, Is, In
    <3> QED
      BY <2>1, <3>1, <3>2
  <2>4. CASE t = "main" /\ ~In(t, "ixe_blufi_start")
    <3>1. pc["main"].in \in {"ixe_blufi_stop", "ixe_ble_ota"}
      BY <2>1, <2>4, CallersAre DEF In
    <3>2. pc'["main"].in \in {"ixe_blufi_stop", "ixe_ble_ota", "poll"}
      <4>1. CASE Advances(t)
        BY <2>4, <3>1, <4>1 DEF Advances
      <4>2. CASE Returns(t)
        BY <2>1, <2>4, <3>1, <4>2, ReturnsLeads DEF Leads, In
      <4> QED
        BY <2>1, <4>1, <4>2
    <3> QED
      BY <3>2 DEF BootInv, QueueExists, In
  <2>5. CASE t = "loop"
    <3>1. In("loop", "ixe_blufi_stop")
      BY <2>1, <2>5, CallersAre
    <3>2. user' = user \/ user' = "none"
      <4>1. CASE Advances(t)
        BY <2>2, <2>5, <3>1, <4>1 DEF Advances, Effect, Ups, In
      <4>2. CASE Returns(t)
        BY <4>2 DEF Returns
      <4> QED
        BY <2>1, <4>1, <4>2
    <3> QED
      BY <2>1, <2>5, <3>1, <3>2 DEF BootInv, QueueExists, In
  <2>6. CASE t = "gw"
    <3>1. QueueExists
      BY <2>1, <2>6, CallersAre DEF BootInv, In
    <3> QED
      BY <2>1, <2>6, <3>1 DEF BootInv, QueueExists, In
  <2> QED
    BY <2>3, <2>4, <2>5, <2>6 DEF Users
<1> QED
  BY <1>1, <1>2, <1>3, <1>4, <1>5, <1>6, Kinds

(* A call that succeeds finds nobody else in the middle of a move: it is   *)
(* the mover's, or finds the stack down or whole.                          *)
LEMMA AdvancesAlone ==
    ASSUME PcInv, BootInv, MoverInv, NEW t \in Users, Calling(t), Advances(t)
    PROVE  \A u \in Tasks \ {t} : ~Moves(u)
<1> SUFFICES ASSUME NEW u \in Tasks \ {t}, Moves(u)
             PROVE  FALSE
  OBVIOUS
<1> t \in Tasks
  BY DEF Users, Tasks
<1>1. Between(u) /\ ~Moves(t)
  BY DEF MoverInv
<1>2. ~Is(0, 0) /\ ~Is(2, 2)
  <2>1. \/ Rising(u) /\ pc[u].call \in {2, 3, 4}
        \/ Falling(u) /\ pc[u].call \in {3, 4, 5}
    BY DEF Moves, Rising, Falling
  <2> QED
    BY <1>1, <2>1 DEF Between, Is
<1>3. ~In(t, "ixe_blufi_start")
  <2>1. ASSUME In(t, "ixe_blufi_start") PROVE FALSE
    <3>1. t = "main"
      BY <2>1, CallersAre DEF In
    <3>2. In("gw", "idle") /\ ~In("loop", "ixe_blufi_stop")
      BY <2>1, <3>1 DEF BootInv, QueueExists, In
    <3> QED
      BY <3>1, <3>2 DEF Moves, Rising, Falling, PcInv, BtPlaces, LoopPlaces, Tasks, In
  <2> QED
    BY <2>1
<1>4. pc[t].call \in 1 .. 6 /\ pc[t].in \in {"ixe_blufi_stop", "ixe_ble_ota", "ble_initialize"}
      /\ pc[t].call # 6
  BY <1>3, CallersAre DEF In
<1>5. CASE pc[t].in = "ixe_blufi_stop"
  <2>1. pc[t].call \in {1, 2}
    BY <1>1, <1>4, <1>5 DEF Moves, Falling, In
  <2>2. Is(2, 2)
    BY <1>5, <2>1 DEF Advances, Effect, Turns, Ups
  <2> QED
    BY <1>2, <2>2
<1>6. CASE pc[t].in \in {"ixe_ble_ota", "ble_initialize"}
  <2>1. pc[t].call \in {1, 5}
    BY <1>1, <1>4, <1>6 DEF Moves, Rising
  <2>2. Is(0, 0) \/ Is(2, 2)
    BY <1>6, <2>1 DEF Advances, Effect, Turns, Ups
  <2> QED
    BY <1>2, <2>2
<1> QED
  BY <1>4, <1>5, <1>6

(* A task that has not moved since, on a stack that has not moved.         *)
LEMMA MoverFrame ==
    ASSUME MoverInv, UNCHANGED stack,
           \A t \in Tasks : pc'[t] = pc[t] \/ pc'[t].call = 1 \/ pc'[t].in = "ixe_blufi_start"
    PROVE  MoverInv'
<1>1. \A t \in Tasks : Moves(t)' => Moves(t) /\ pc'[t] = pc[t]
  BY DEF Moves, Rising, Falling, In
<1>2. \A t \in Tasks : Moves(t)' => Between(t)'
  <2> SUFFICES ASSUME NEW t \in Tasks, Moves(t)'
               PROVE  Between(t)'
    OBVIOUS
  <2>1. Between(t) /\ pc'[t] = pc[t]
    BY <1>1 DEF MoverInv
  <2> QED
    BY <2>1 DEF Between, Rising, Falling, Is, In
<1> QED
  BY <1>1, <1>2 DEF MoverInv

LEMMA MoverStep ==
    ASSUME TypeOK, PcInv, BootInv, MoverInv, Step
    PROVE  MoverInv'
<1> Users \subseteq Tasks
  BY DEF Tasks, Users
<1>1. ASSUME NEW cause \in Aborts, Fail(cause) PROVE MoverInv'
  <2>1. \A t \in Tasks : pc'[t].call = 1
    BY <1>1, FreshIs DEF Fail
  <2>2. \A t \in Tasks : ~Moves(t)'
    BY <2>1 DEF Moves, Rising, Falling
  <2>3. stack'.host = 0
    BY <1>1 DEF Fail, Down
  <2> QED
    BY <2>2, <2>3 DEF MoverInv
<1>2. CASE Rests
  <2>1. \A t \in Tasks : pc'[t] = pc[t] \/ t = "bt"
    BY <1>2 DEF Rests
  <2>2. ~Moves("bt")' /\ stack' = stack
    BY <1>2 DEF Rests, Keeps, Moves, Rising, Falling, In, BtPlaces
  <2>3. \A t \in Tasks : Moves(t)' => t # "bt"
    BY <2>2
  <2>4. \A t \in Tasks : Moves(t)' => Moves(t) /\ pc'[t] = pc[t]
    BY <2>1, <2>3 DEF Moves, Rising, Falling, In
  <2>5. ASSUME NEW t \in Tasks, Moves(t)' PROVE Between(t)'
    <3>1. Between(t) /\ pc'[t] = pc[t]
      BY <2>4, <2>5 DEF MoverInv
    <3> QED
      BY <2>2, <3>1 DEF Between, Rising, Falling, Is, In
  <2> QED
    BY <2>2, <2>4, <2>5 DEF MoverInv
<1>3. ASSUME NEW t \in Users, Walks(t) PROVE MoverInv'
  BY <1>3, MoverFrame DEF Walks, Keeps
<1>4. CASE BlufiStarted
  BY <1>4, StartedIs, MoverFrame
<1>5. ASSUME NEW t \in {"main", "loop"}, BlufiStopped(t) PROVE MoverInv'
  BY <1>5, StoppedIs, MoverFrame
<1>6. ASSUME NEW t \in Users, StackCall(t) PROVE MoverInv'
  <2>1. /\ Calling(t)
        /\ Advances(t) \/ (t # "gw" /\ Returns(t))
        /\ \A u \in Tasks \ {t} : pc'[u] = pc[u]
    BY <1>6, CallStep
  <2>2. CASE t # "gw" /\ Returns(t)
    <3>1. Leads(t)
      BY <2>1, <2>2, ReturnsLeads
    <3> QED
      BY <2>1, <3>1, MoverFrame DEF Leads
  <2>3. CASE Advances(t)
    <3>1. \A u \in Tasks \ {t} : ~Moves(u)'
      BY <2>1, <2>3, AdvancesAlone DEF Moves, Rising, Falling, In
    <3>2. pc[t].call \in 1 .. 6
      BY <2>1, CallersAre
    <3>3. Effect(pc[t].in, pc[t].call) /\ pc'[t].in = pc[t].in /\ pc'[t].call = pc[t].call + 1
      BY <2>3 DEF Advances
    <3>4. stack'.host > 0 => stack'.controller = 2
      BY <3>3 DEF Effect, Turns, MoverInv, Is
    <3>5. ASSUME pc[t].in \in {"ixe_ble_ota", "ble_initialize"} PROVE Between(t)'
      <4>1. /\ pc[t].call = 1 => stack'.controller = 1 /\ stack'.host = 0
            /\ pc[t].call = 2 => stack'.controller = 2 /\ stack'.host = 0
            /\ pc[t].call = 3 => stack'.controller = 2 /\ stack'.host = 1
        BY <3>2, <3>3, <3>5 DEF Effect, Turns, Ups
      <4> QED
        BY <3>2, <3>3, <3>5, <4>1 DEF Between, Rising, Falling, Is, In
    <3>6. ASSUME pc[t].in = "ixe_blufi_stop" PROVE Between(t)'
      <4>1. /\ pc[t].call = 2 => stack'.controller = 2 /\ stack'.host = 1
            /\ pc[t].call = 3 => stack'.controller = 2 /\ stack'.host = 0
            /\ pc[t].call = 4 => stack'.controller = 1 /\ stack'.host = 0
        BY <3>2, <3>3, <3>6 DEF Effect, Turns, Ups
      <4> QED
        BY <3>2, <3>3, <3>6, <4>1 DEF Between, Rising, Falling, Is, In
    <3>7. Moves(t)' => Between(t)'
      BY <3>3, <3>5, <3>6 DEF Moves, Rising, Falling, In
    <3> QED
      BY <3>1, <3>4, <3>7 DEF MoverInv
  <2> QED
    BY <2>1, <2>2, <2>3
<1> QED
  BY <1>1, <1>2, <1>3, <1>4, <1>5, <1>6, Kinds

(* Done is a place that only its own task leaves, but for a reset.         *)
LEMMA FlagStep ==
    ASSUME TypeOK, PcInv, BootInv, MoverInv, FlagInv, Step
    PROVE  FlagInv'
<1> "main" \in Tasks /\ "loop" \in Tasks /\ "gw" \in Tasks /\ Users \subseteq Tasks
  BY DEF Tasks, Users
<1>1. ASSUME NEW cause \in Aborts, Fail(cause) PROVE FlagInv'
  BY <1>1 DEF Fail, FlagInv
<1>2. ASSUME NEW t \in {"main", "loop"}, BlufiStopped(t) PROVE FlagInv'
  BY <1>2, StoppedIs DEF FlagInv
<1>3. CASE BlufiStarted
  <2>1. /\ In("main", "ixe_blufi_start") /\ pc["main"].call > 6
        /\ UNCHANGED <<stack, user>>
        /\ pc'["main"].in = "start_blegw_task" /\ pc'["gw"] = pc["gw"]
    BY <1>3, StartedIs, CallsAre DEF Done
  <2>2. stack.controller = 2 /\ In("gw", "idle") /\ user \in {"none", "blufi"}
    BY <2>1, PcInv DEF BootInv, QueueExists, Is, In, PcInv
  <2> QED
    BY <2>1, <2>2 DEF FlagInv, In
<1>4. CASE Rests
  BY <1>4 DEF Rests, Keeps, FlagInv, Done, In, Alive
<1>5. ASSUME NEW t \in Users, Walks(t) PROVE FlagInv'
  <2> SUFFICES ASSUME ixe_blufi_started'
               PROVE  FlagInv'
    BY DEF FlagInv
  <2>1. /\ UNCHANGED <<stack, user, ixe_blufi_started>> /\ (Alive => Alive')
        /\ pc'[t].call = 1 /\ \A u \in Tasks \ {t} : pc'[u] = pc[u]
        /\ ~In(t, "ixe_blufi_stop")
    BY <1>5 DEF Walks, Keeps, Route, In
  <2>2. ASSUME NEW u \in {"main", "loop"}, Done(u, "ixe_blufi_stop") PROVE FlagInv'
    <3>1. pc'[u] = pc[u] /\ Alive'
      BY <2>1, <2>2 DEF Done
    <3> QED
      BY <2>2, <3>1 DEF FlagInv, Done, In
  <2>3. CASE \A u \in {"main", "loop"} : ~Done(u, "ixe_blufi_stop")
    BY <2>1, <2>3 DEF FlagInv, In
  <2> QED
    BY <2>2, <2>3
<1>6. ASSUME NEW t \in Users, StackCall(t) PROVE FlagInv'
  <2> SUFFICES ASSUME ixe_blufi_started'
               PROVE  FlagInv'
    BY DEF FlagInv
  <2>1. /\ Calling(t)
        /\ Advances(t) \/ (t # "gw" /\ Returns(t))
        /\ \A u \in Tasks \ {t} : pc'[u] = pc[u]
        /\ UNCHANGED <<ixe_blufi_started, abort>>
    BY <1>6, CallStep
  <2>2. ASSUME NEW u \in {"main", "loop"}, Done(u, "ixe_blufi_stop") PROVE FlagInv'
    <3>1. u # t
      BY <2>1, <2>2, PcInv DEF Calling, Done, In, PcInv
    <3>2. pc'[u] = pc[u] /\ Alive'
      BY <2>1, <2>2, <3>1 DEF Done, Alive
    <3> QED
      BY <2>2, <3>2 DEF FlagInv, Done, In
  <2>3. CASE \A u \in {"main", "loop"} : ~Done(u, "ixe_blufi_stop")
    <3>1. /\ user \in {"none", "blufi"} /\ stack.controller > 0
          /\ In("main", "ixe_ble_ota") => pc["main"].call = 1
          /\ In("gw", "ble_initialize") => pc["gw"].call = 1
      BY <2>1, <2>3 DEF FlagInv
    <3>2. CASE t # "gw" /\ Returns(t)
      <4>1. Leads(t)
        BY <2>1, <3>2, ReturnsLeads
      <4> QED
        BY <2>1, <3>1, <3>2, <4>1 DEF Leads, FlagInv, Users, In
    <3>3. CASE Advances(t)
      <4>1. pc[t].call \in 1 .. 6 /\ Effect(pc[t].in, pc[t].call)
            /\ pc'[t].in = pc[t].in /\ pc'[t].call = pc[t].call + 1
        BY <2>1, <3>3, CallersAre DEF Advances
      <4>2. In(t, "ixe_blufi_stop") /\ t \in {"main", "loop"}
        <5>1. ~In(t, "ixe_blufi_start")
          BY <2>1, CallersAre DEF BootInv, In
        <5>2. ASSUME In(t, "ixe_ble_ota") \/ In(t, "ble_initialize") PROVE FALSE
          <6>1. pc[t].call = 1
            BY <2>1, <3>1, <5>2, CallersAre DEF In
          <6>2. Is(0, 0)
            BY <4>1, <5>2, <6>1 DEF Effect, Turns, Ups, In
          <6> QED
            BY <3>1, <6>2 DEF Is
        <5> QED
          BY <2>1, <5>1, <5>2, CallersAre DEF In
      <4>3. user' \in {"none", "blufi"}
        BY <3>1, <4>1, <4>2 DEF Effect, Ups, In
      <4>4. CASE pc[t].call < 5
        <5>1. stack'.controller > 0
          BY <3>1, <4>1, <4>2, <4>4 DEF Effect, Turns, Ups, In
        <5> QED
          BY <2>1, <3>1, <4>1, <4>2, <4>3, <5>1 DEF FlagInv, In
      <4>5. CASE pc[t].call >= 5
        <5>1. pc'[t].call > 5
          BY <4>1, <4>5
        <5>2. Done(t, "ixe_blufi_stop")'
          BY <2>1, <4>1, <4>2, <5>1, CallsAre DEF Done, In, Calling, Alive
        <5> QED
          BY <4>2, <5>2 DEF FlagInv
      <4> QED
        BY <4>1, <4>4, <4>5
    <3> QED
      BY <2>1, <3>2, <3>3
  <2> QED
    BY <2>2, <2>3
<1> QED
  BY <1>1, <1>2, <1>3, <1>4, <1>5, <1>6, Kinds

(* The event loop's stop, beside that of app_main.                         *)
LEMMA OverlapStep ==
    ASSUME TypeOK, PcInv, BootInv, MoverInv, OverlapInv, Next
    PROVE  OverlapInv'
<1> Users \subseteq Tasks /\ "loop" \in Tasks /\ "main" \in Tasks
  BY DEF Tasks, Users
<1> SUFFICES ASSUME In("loop", "ixe_blufi_stop")', ~overlapped'
             PROVE  ixe_blufi_started' /\ ~In("main", "ixe_blufi_stop")'
  BY DEF OverlapInv
<1>1. Step /\ ~overlapped /\ ~In("main", "ixe_blufi_stop")'
  BY DEF Next, Overlaps, In
<1>2. In("loop", "ixe_blufi_stop") => ixe_blufi_started /\ ~In("main", "ixe_blufi_stop")
  BY <1>1 DEF OverlapInv
<1>3. ASSUME NEW cause \in Aborts, Fail(cause) PROVE FALSE
  BY <1>3, FreshIs DEF Fail, In
<1>4. CASE Rests
  BY <1>1, <1>2, <1>4 DEF Rests, Keeps, In
<1>5. ASSUME NEW t \in Users, Walks(t) PROVE ixe_blufi_started'
  <2>1. CASE t = "loop"
    BY <1>5, <2>1 DEF Walks, Keeps, Route, In
  <2>2. CASE t # "loop"
    BY <1>2, <1>5, <2>2 DEF Walks, Keeps, In
  <2> QED
    BY <2>1, <2>2
<1>6. CASE BlufiStarted
  <2>1. ixe_blufi_started' = TRUE
    BY <1>6 DEF BlufiStarted
  <2> QED
    BY <1>1, <2>1, Zenon
<1>7. ASSUME NEW t \in {"main", "loop"}, BlufiStopped(t) PROVE FALSE
  <2>1. CASE t = "main"
    BY <1>2, <1>7, <2>1, StoppedIs DEF Done, In
  <2>2. CASE t = "loop"
    BY <1>7, <2>2, StoppedIs DEF AfterStop, In
  <2> QED
    BY <2>1, <2>2
<1>8. ASSUME NEW t \in Users, StackCall(t) PROVE ixe_blufi_started'
  <2>1. /\ Calling(t) /\ ixe_blufi_started' = ixe_blufi_started
        /\ \A u \in Tasks \ {t} : pc'[u] = pc[u]
    BY <1>8, CallStep
  <2>2. In("loop", "ixe_blufi_stop")
    BY <2>1, CallersAre DEF In
  <2> QED
    BY <1>2, <2>1, <2>2
<1> QED
  BY <1>1, <1>3, <1>4, <1>5, <1>6, <1>7, <1>8, Kinds

(* What a step does to the user of the host: only a registration, the end  *)
(* of a profile and a reset change it, and then on a whole stack.          *)
LEMMA UserChange ==
    ASSUME TypeOK, PcInv, BootInv, MoverInv, Step
    PROVE  \/ \E cause \in Aborts : Fail(cause)
           \/ user' = user /\ (stack' = stack \/ ~Is(2, 2))
           \/ stack' = stack /\ Is(2, 2) /\
              \/ In("main", "ixe_ble_ota")
              \/ In("gw", "ble_initialize") /\ user' = "client"
              \/ In("main", "ixe_blufi_start")
              \/ user = "blufi"
           \/ /\ user' = "none"
              /\ \E t \in {"main", "loop"} : In(t, "ixe_blufi_stop") /\ pc[t].call = 2
<1> Users \subseteq Tasks
  BY DEF Tasks, Users
<1>1. ASSUME NEW t \in Users, StackCall(t), ~UNCHANGED <<stack, user>>
      PROVE  \/ user' = user /\ ~Is(2, 2)
             \/ stack' = stack /\ Is(2, 2) /\
                \/ In("main", "ixe_ble_ota")
                \/ In("gw", "ble_initialize") /\ user' = "client"
                \/ In("main", "ixe_blufi_start")
                \/ user = "blufi"
             \/ /\ user' = "none"
                /\ \E u \in {"main", "loop"} : In(u, "ixe_blufi_stop") /\ pc[u].call = 2
  <2>1. Calling(t) /\ Advances(t)
    BY <1>1, CallStep DEF Returns
  <2>2. Effect(pc[t].in, pc[t].call)
    BY <2>1 DEF Advances
  <2>3. \/ t = "main" /\ pc[t].in \in {"ixe_blufi_start", "ixe_blufi_stop", "ixe_ble_ota"}
        \/ t = "loop" /\ In(t, "ixe_blufi_stop")
        \/ t = "gw" /\ In(t, "ble_initialize")
    BY <2>1, CallersAre
  <2>4. CASE user' = user /\ ~Is(2, 2)
    BY <2>4
  <2>5. CASE Is(2, 2) /\ stack' = stack
    BY <1>1, <2>2, <2>3, <2>5 DEF Effect, Turns, Is, In
  <2>6. CASE user' = "none" /\ pc[t].in = "ixe_blufi_stop" /\ pc[t].call = 2
    BY <2>3, <2>6 DEF In
  <2> QED
    BY <2>2, <2>4, <2>5, <2>6 DEF Effect, Turns, Is
<1>2. CASE Rests \/ (\E t \in Users : Walks(t))
  BY <1>2 DEF Rests, Walks, Keeps
<1>3. CASE BlufiStarted
  BY <1>3 DEF BlufiStarted
<1>4. ASSUME NEW t \in {"main", "loop"}, BlufiStopped(t) PROVE UNCHANGED <<stack, user>>
  BY <1>4 DEF BlufiStopped
<1> QED
  BY <1>1, <1>2, <1>3, <1>4, Kinds

LEMMA UserStep ==
    ASSUME TypeOK, PcInv, BootInv, MoverInv, UserHasStack, Step
    PROVE  UserHasStack'
<1> SUFFICES ASSUME user' # "none"
             PROVE  stack' = [controller |-> 2, host |-> 2]
  BY DEF UserHasStack
<1>1. \A cause \in Aborts : ~Fail(cause)
  BY DEF Fail
<1>2. CASE user' = user /\ (stack' = stack \/ ~Is(2, 2))
  BY <1>2 DEF UserHasStack, Is
<1>3. CASE stack' = stack /\ Is(2, 2)
  BY <1>3 DEF TypeOK, Is
<1> QED
  BY <1>1, <1>2, <1>3, UserChange

----------------------------------------------------------------------------
(* The types, and room for the end of a scan                               *)
Waiting == events \in Seq(Events) /\ Len(events) <= LoopLen /\ ScanInv

LEMMA RaiseIs ==
    ASSUME Waiting, NEW e \in Events, Raise(e)
    PROVE  /\ events' \in Seq(Events) /\ Len(events') <= LoopLen
           /\ ~In("bt", "idle") => Len(events') < LoopLen
  BY LengthsAssumption DEF Waiting, Raise

LEMMA LeaveIs ==
    ASSUME Waiting, NEW to, Leave(to)
    PROVE  /\ events' \in Seq(Events) /\ Len(events') <= LoopLen
           /\ ~In("bt", "idle") => Len(events') < LoopLen
<1>1. CASE Raise("DISCONNECTED")
  BY <1>1, RaiseIs DEF Events
<1>2. CASE UNCHANGED events
  BY <1>2 DEF Waiting, ScanInv
<1> QED
  BY <1>1, <1>2 DEF Leave

LEMMA TakeIs ==
    ASSUME Waiting, NEW e, Take(e)
    PROVE  /\ events' \in Seq(Events) /\ Len(events') <= LoopLen
           /\ ~In("bt", "idle") => Len(events') < LoopLen
  BY LengthsAssumption DEF Waiting, ScanInv, Take

LEMMA WaitingFrame ==
    ASSUME Waiting, UNCHANGED <<events, scanning>>, pc'["bt"] = pc["bt"]
    PROVE  Waiting'
  BY DEF Waiting, ScanInv, In

LEMMA BtElsewhere ==
    ASSUME PcInv, NEW t \in Tasks \ {"bt"}, NEW f, Goes(t, f)
    PROVE  pc'["bt"] = pc["bt"]
  BY DEF PcInv, Goes

LEMMA WaitingStep ==
    ASSUME TypeOK, PcInv, MoverInv, ScanInv, Step
    PROVE  Waiting'
<1> Users \subseteq Tasks \ {"bt"} /\ "bt" \in Tasks
    /\ "loop" \in Tasks \ {"bt"} /\ "main" \in Tasks \ {"bt"} /\ "gw" \in Tasks \ {"bt"}
  BY DEF Tasks, Users
<1>1. Waiting
  BY DEF TypeOK, Waiting
<1>2. ASSUME NEW cause \in Aborts, Fail(cause) PROVE Waiting'
  <2>1. events' = <<"STA_START">> /\ scanning' = FALSE /\ pc'["bt"].in = "idle"
    BY <1>2, FreshIs DEF Fail
  <2>2. events' \in Seq(Events) /\ Len(events') = 1
    BY <2>1 DEF Events
  <2> QED
    BY <2>1, <2>2, LengthsAssumption DEF Waiting, ScanInv, In
<1>3. CASE Driver
  <2>1. UNCHANGED <<pc, scanning>>
    BY <1>3 DEF Driver, Associated, StationLost
  <2>2. CASE Associated
    BY <1>1, <2>1, <2>2, RaiseIs DEF Associated, Events, Waiting, ScanInv, In
  <2>3. CASE StationLost
    BY <1>1, <2>1, <2>3, LeaveIs DEF StationLost, Waiting, ScanInv, In
  <2> QED
    BY <1>3, <2>2, <2>3 DEF Driver
<1>4. ASSUME NEW t \in Users, StackCall(t) PROVE Waiting'
  BY <1>1, <1>4, CallStep, WaitingFrame DEF wifiVars
<1>5. ASSUME NEW t \in {"main", "loop"}, BlufiStopped(t) PROVE Waiting'
  BY <1>1, <1>5, StoppedIs, WaitingFrame DEF BlufiStopped, wifiVars
<1>6. CASE Main
  <2>1. CASE Reboot
    BY <1>1, <2>1, WaitingFrame DEF Reboot, wifiVars
  <2>2. CASE StartBlufi \/ BlufiStarted \/ StartBlegwTask \/ Poll \/ BleOtaStarted
    <3>1. UNCHANGED <<events, scanning>> /\ \E f : Goes("main", f)
      BY <2>2 DEF StartBlufi, BlufiStarted, StartBlegwTask, Poll, BleOtaStarted, wifiVars
    <3> QED
      BY <1>1, <3>1, BtElsewhere, WaitingFrame
  <2> QED
    BY <1>4, <1>5, <1>6, <2>1, <2>2 DEF Main, Users
<1>7. CASE Loop
  <2>1. ASSUME NEW e, Take(e), scanning' = scanning, pc'["bt"] = pc["bt"] PROVE Waiting'
    BY <1>1, <2>1, TakeIs DEF Waiting, ScanInv, In
  <2>2. CASE ConnectOn("STA_START") \/ ConnectOn("SCAN_DONE") \/ NothingFound
    BY <2>1, <2>2 DEF ConnectOn, NothingFound, wifiVars
  <2>3. CASE StaDisconnected \/ GotIp
    BY <2>1, <2>3, BtElsewhere DEF StaDisconnected, GotIp, wifiVars
  <2>4. CASE GotIpStopsBlufi
    BY <1>1, <2>4, BtElsewhere, WaitingFrame DEF GotIpStopsBlufi, wifiVars
  <2>5. CASE OnConnected \/ OnDisconnected
    <3>1. CASE NoQueue
      BY <1>2, <3>1 DEF NoQueue, Aborts
    <3>2. ASSUME NEW e, Post(e) PROVE Waiting'
      BY <1>1, <3>2, BtElsewhere, WaitingFrame DEF Post
    <3> QED
      BY <2>5, <3>1, <3>2 DEF OnConnected, OnDisconnected
  <2> QED
    BY <1>4, <1>5, <1>7, <2>2, <2>3, <2>4, <2>5 DEF Loop, Users
<1>8. CASE PhoneSends
  <2>1. In("bt", "idle") /\ ~scanning
    BY <1>8 DEF PhoneSends, SetConfig, RequestConnect, Disconnect, SetWifiStart, SetWifiConnect,
       ResetFactory, SetBleOta, Phone, ScanInv, In
  <2>2. CASE SetConfig \/ SetWifiConnect \/ SetBleOta
    BY <1>1, <2>2, WaitingFrame DEF SetConfig, SetWifiConnect, SetBleOta, wifiVars
  <2>3. CASE RequestConnect \/ ResetFactory
    BY <1>1, <2>1, <2>3, LeaveIs DEF RequestConnect, ResetFactory, Waiting, ScanInv, In
  <2>4. CASE SetWifiStart
    BY <1>1, <2>1, <2>4, RaiseIs DEF SetWifiStart, Events, Waiting, ScanInv, In
  <2>5. ASSUME NEW next \in {"idle", "get_wifi_list"}, Disconnect(next) PROVE Waiting'
    <3>1. events' \in Seq(Events) /\ Len(events') <= LoopLen
      BY <1>1, <2>5, LeaveIs DEF Disconnect
    <3>2. pc'["bt"].in = next /\ scanning' = scanning
      BY <2>5, GoesIs DEF Disconnect, Places, BtPlaces
    <3>3. next = "get_wifi_list" => Len(events') < LoopLen
      BY <2>5 DEF Disconnect
    <3> QED
      BY <2>1, <3>1, <3>2, <3>3 DEF Waiting, ScanInv, In
  <2> QED
    BY <1>8, <2>2, <2>3, <2>4, <2>5 DEF PhoneSends
<1>9. CASE BtTask
  <2>1. CASE ScanStart
    <3>1. CASE Fail("scan_refused")
      BY <1>2, <3>1 DEF Aborts
    <3>2. CASE Goes("bt", "scan") /\ UNCHANGED events
      <4>1. pc'["bt"].in = "scan"
        BY <3>2, GoesIs DEF Places, BtPlaces
      <4>2. Len(events) < LoopLen
        BY <2>1 DEF ScanStart, ScanInv, In
      <4> QED
        BY <1>1, <3>2, <4>1, <4>2 DEF Waiting, ScanInv, In
    <3> QED
      BY <2>1, <3>1, <3>2 DEF ScanStart
  <2>2. ASSUME NEW found \in BOOLEAN, ScanEnds(found) PROVE Waiting'
    <3>1. Len(events) < LoopLen
      BY <2>2 DEF ScanEnds, ScanInv, In
    <3>2. pc'["bt"].in = "idle" /\ scanning' = FALSE
      BY <2>2, GoesIs DEF ScanEnds, Places, BtPlaces
    <3>3. PICK e \in Events : events' = Append(events, e)
      BY <2>2 DEF ScanEnds, Events
    <3>4. events' \in Seq(Events) /\ Len(events') <= LoopLen
      BY <1>1, <3>1, <3>3, LengthsAssumption DEF Waiting
    <3> QED
      BY <3>2, <3>4 DEF Waiting, ScanInv, In
  <2> QED
    BY <1>9, <2>1, <2>2 DEF BtTask
<1>10. CASE Gw
  <2>1. CASE NetworkConnected \/ BleInitialized
    BY <1>1, <2>1, BtElsewhere, WaitingFrame DEF NetworkConnected, BleInitialized, wifiVars
  <2>2. CASE EspErrorCheck
    BY <1>2, <2>2 DEF EspErrorCheck, Aborts
  <2>3. CASE NetworkDisconnected
    BY <1>1, <1>2, <2>3, WaitingFrame DEF NetworkDisconnected, Aborts, wifiVars
  <2> QED
    BY <1>4, <1>10, <2>1, <2>2, <2>3 DEF Gw, Users
<1> QED
  BY <1>3, <1>6, <1>7, <1>8, <1>9, <1>10 DEF Step

NetworkEvents == {"NETWORK_CONNECTED", "NETWORK_DISCONNECTED"}

(* The events that wait for the gateway.                                   *)
LEMMA QueueStep ==
    ASSUME TypeOK, PcInv, BootInv, MoverInv, Step
    PROVE  queue' \in Seq(NetworkEvents) /\ Len(queue') <= QueueLen
<1> Users \subseteq Tasks
  BY DEF Tasks, Users
<1> DEFINE Kept == queue' \in Seq(NetworkEvents) /\ Len(queue') <= QueueLen
<1>1. queue \in Seq(NetworkEvents) /\ Len(queue) <= QueueLen
  BY DEF TypeOK, NetworkEvents
<1>2. ASSUME UNCHANGED queue PROVE Kept
  BY <1>1, <1>2
<1>3. ASSUME NEW cause \in Aborts, Fail(cause) PROVE Kept
  BY <1>3, LengthsAssumption DEF Fail
<1>4. ASSUME NEW t \in Users, StackCall(t) PROVE Kept
  BY <1>2, <1>4, CallStep
<1>5. CASE Driver
  BY <1>2, <1>5 DEF Driver, Associated, StationLost
<1>6. CASE Main
  BY <1>2, <1>4, <1>6 DEF Main, Users, Reboot, StartBlufi, BlufiStarted, StartBlegwTask, Poll,
     BleOtaStarted, BlufiStopped
<1>7. CASE Loop
  <2>1. ASSUME NEW e \in NetworkEvents, Post(e) PROVE Kept
    BY <1>1, <2>1, LengthsAssumption DEF Post, Room
  <2>2. CASE NoQueue
    BY <1>3, <2>2 DEF NoQueue, Aborts
  <2>3. CASE OnConnected \/ OnDisconnected
    BY <2>1, <2>2, <2>3 DEF OnConnected, OnDisconnected, NetworkEvents
  <2> QED
    BY <1>2, <1>4, <1>7, <2>3 DEF Loop, Users, ConnectOn, NothingFound, StaDisconnected, GotIp,
       GotIpStopsBlufi, BlufiStopped
<1>8. CASE PhoneSends
  BY <1>2, <1>8 DEF PhoneSends, SetConfig, RequestConnect, Disconnect, SetWifiStart,
     SetWifiConnect, ResetFactory, SetBleOta
<1>9. CASE BtTask
  BY <1>2, <1>3, <1>9 DEF BtTask, ScanStart, ScanEnds, Aborts
<1>10. CASE Gw
  <2>1. ASSUME queue # <<>>, queue' = Tail(queue) PROVE Kept
    BY <1>1, <2>1, LengthsAssumption
  <2>2. CASE NetworkConnected
    BY <2>1, <2>2 DEF NetworkConnected
  <2>3. CASE NetworkDisconnected
    BY <1>3, <2>1, <2>3 DEF NetworkDisconnected, Aborts
  <2>4. CASE EspErrorCheck
    BY <1>3, <2>4 DEF EspErrorCheck, Aborts
  <2>5. CASE BleInitialized
    BY <1>2, <2>5 DEF BleInitialized
  <2> QED
    BY <1>4, <1>10, <2>2, <2>3, <2>4, <2>5 DEF Gw, Users
<1> QED
  BY <1>5, <1>6, <1>7, <1>8, <1>9, <1>10 DEF Step

(* The flags, the station, and the reason of a reset.                      *)
Flags == {ixe_blufi_started, ble_ota_flag, configured, scanning, initialized, failed}

FlagsOK ==
    /\ Flags \subseteq BOOLEAN
    /\ station \in {"off", "idle", "connecting", "connected"}
    /\ abort \in Aborts \cup {"none"}

LEMMA ConnectIs ==
    ASSUME FlagsOK, Connect
    PROVE  station' \in {"off", "idle", "connecting", "connected"}
  BY DEF FlagsOK, Connect

LEMMA FlagsStep ==
    ASSUME TypeOK, PcInv, MoverInv, Step
    PROVE  FlagsOK'
<1> Users \subseteq Tasks
  BY DEF Tasks, Users
<1>1. FlagsOK
  BY DEF TypeOK, FlagsOK, Flags
<1>2. ASSUME NEW cause \in Aborts, Fail(cause) PROVE FlagsOK'
  <2>1. Flags' \subseteq BOOLEAN
    BY <1>1, <1>2, Zenon DEF FlagsOK, Flags, Fail
  <2>2. station' = "idle" /\ abort' \in Aborts
    BY <1>2 DEF Fail
  <2> QED
    BY <2>1, <2>2 DEF FlagsOK
<1>3. /\ ixe_blufi_started \in BOOLEAN /\ ble_ota_flag \in BOOLEAN /\ configured \in BOOLEAN
      /\ scanning \in BOOLEAN /\ initialized \in BOOLEAN /\ failed \in BOOLEAN
      /\ station \in {"off", "idle", "connecting", "connected"}
      /\ abort \in Aborts \cup {"none"}
  BY <1>1 DEF FlagsOK, Flags
<1>4. ASSUME ixe_blufi_started' \in BOOLEAN, ble_ota_flag' \in BOOLEAN,
             configured' \in BOOLEAN, scanning' \in BOOLEAN,
             initialized' \in BOOLEAN, failed' \in BOOLEAN,
             station' \in {"off", "idle", "connecting", "connected"},
             abort' \in Aborts \cup {"none"}
      PROVE  FlagsOK'
  <2>1. Flags' \subseteq BOOLEAN
    BY <1>4, Zenon DEF Flags
  <2> QED
    BY <1>4, <2>1 DEF FlagsOK
<1>5. ASSUME NEW t \in Users, StackCall(t) PROVE FlagsOK'
  <2>1. UNCHANGED <<ixe_blufi_started, ble_ota_flag, configured, scanning, initialized, station, abort>>
    BY <1>5, CallStep DEF wifiVars
  <2>2. failed' \in BOOLEAN
    BY <1>3, <1>5 DEF StackCall, Succeeds, Refused, Allowed
  <2> QED
    BY <1>3, <1>4, <2>1, <2>2
<1>6. CASE Driver
  BY <1>3, <1>4, <1>6 DEF Driver, Associated, StationLost, Leave, btVars
<1>7. CASE Main
  BY <1>3, <1>4, <1>5, <1>7 DEF Main, Users, Reboot, StartBlufi, BlufiStarted, StartBlegwTask,
     Poll, BleOtaStarted, BlufiStopped, btVars, wifiVars
<1>8. CASE Loop
  <2>1. CASE ConnectOn("STA_START") \/ ConnectOn("SCAN_DONE")
    BY <1>1, <1>3, <1>4, <2>1, ConnectIs DEF ConnectOn, btVars
  <2>2. CASE NoQueue
    BY <1>2, <2>2 DEF NoQueue, Aborts
  <2>3. CASE OnConnected
    BY <1>3, <1>4, <2>2, <2>3 DEF OnConnected, Post, btVars
  <2>4. CASE OnDisconnected
    BY <1>1, <1>3, <1>4, <2>2, <2>4, ConnectIs DEF OnDisconnected, Post, btVars
  <2>5. CASE NothingFound \/ StaDisconnected \/ GotIp \/ GotIpStopsBlufi \/ BlufiStopped("loop")
    BY <1>3, <1>4, <2>5 DEF NothingFound, StaDisconnected, GotIp, GotIpStopsBlufi,
       BlufiStopped, btVars, wifiVars
  <2> QED
    BY <1>5, <1>8, <2>1, <2>3, <2>4, <2>5 DEF Loop, Users
<1>9. CASE PhoneSends
  <2>1. CASE SetWifiConnect
    BY <1>1, <1>3, <1>4, <2>1, ConnectIs DEF SetWifiConnect, btVars
  <2>2. CASE SetConfig \/ SetWifiStart \/ SetBleOta
    BY <1>3, <1>4, <2>2 DEF SetConfig, SetWifiStart, SetBleOta, btVars, wifiVars
  <2>3. CASE RequestConnect \/ ResetFactory \/ \E next \in {"idle", "get_wifi_list"} : Disconnect(next)
    BY <1>3, <1>4, <2>3 DEF RequestConnect, ResetFactory, Disconnect, Leave, btVars
  <2> QED
    BY <1>9, <2>1, <2>2, <2>3 DEF PhoneSends
<1>10. CASE BtTask
  BY <1>2, <1>3, <1>4, <1>10 DEF BtTask, ScanStart, ScanEnds, btVars, Aborts
<1>11. CASE Gw
  <2>1. CASE EspErrorCheck
    BY <1>2, <2>1 DEF EspErrorCheck, Aborts
  <2>2. CASE NetworkDisconnected
    BY <1>2, <1>3, <1>4, <2>2 DEF NetworkDisconnected, Aborts, btVars, wifiVars
  <2>3. CASE NetworkConnected \/ BleInitialized
    BY <1>3, <1>4, <2>3 DEF NetworkConnected, BleInitialized, btVars, wifiVars
  <2> QED
    BY <1>5, <1>11, <2>1, <2>2, <2>3 DEF Gw, Users
<1> QED
  BY <1>6, <1>7, <1>8, <1>9, <1>10, <1>11 DEF Step

(* The stack and the user of its host.                                     *)
LEMMA StackStep ==
    ASSUME TypeOK, PcInv, BootInv, MoverInv, Step
    PROVE  /\ stack' \in [controller : 0..2, host : 0..2]
           /\ user' \in {"none", "blufi", "client", "server"}
<1> Users \subseteq Tasks
  BY DEF Tasks, Users
<1>1. stack \in [controller : 0..2, host : 0..2] /\ user \in {"none", "blufi", "client", "server"}
  BY DEF TypeOK
<1>2. ASSUME NEW t \in Users, StackCall(t), ~UNCHANGED <<stack, user>>
      PROVE  /\ stack' \in [controller : 0..2, host : 0..2]
             /\ user' \in {"none", "blufi", "client", "server"}
  <2>1. Advances(t)
    BY <1>2, CallStep DEF Returns
  <2>2. Effect(pc[t].in, pc[t].call)
    BY <2>1 DEF Advances
  <2>3. user' \in {"none", "blufi", "client", "server"}
    BY <1>1, <2>2 DEF Effect
  <2>4. stack' \in [controller : 0..2, host : 0..2]
    BY <1>1, <2>2 DEF Effect, Turns
  <2> QED
    BY <2>3, <2>4
<1>3. CASE Rests \/ (\E t \in Users : Walks(t))
  BY <1>1, <1>3 DEF Rests, Walks, Keeps
<1>4. CASE BlufiStarted
  BY <1>1, <1>4 DEF BlufiStarted
<1>5. ASSUME NEW t \in {"main", "loop"}, BlufiStopped(t) PROVE UNCHANGED <<stack, user>>
  BY <1>5 DEF BlufiStopped
<1>6. ASSUME NEW cause \in Aborts, Fail(cause)
      PROVE  /\ stack' \in [controller : 0..2, host : 0..2]
             /\ user' \in {"none", "blufi", "client", "server"}
  BY <1>6 DEF Fail, Down
<1> QED
  BY <1>1, <1>2, <1>3, <1>4, <1>5, <1>6, Kinds

----------------------------------------------------------------------------
(* The inductive invariant                                                 *)
LEMMA InitIInv == Init => IInv
<1> SUFFICES ASSUME Init PROVE IInv
  OBVIOUS
<1> "main" \in Tasks /\ "loop" \in Tasks /\ "bt" \in Tasks /\ "gw" \in Tasks
  BY DEF Tasks
<1>1. PcInv /\ \A t \in Tasks : pc[t].call = 1
  BY FreshIs DEF Init, PcInv, MainPlaces, LoopPlaces, BtPlaces, GwPlaces
<1>2. In("main", "app_main") /\ In("loop", "idle") /\ In("bt", "idle") /\ In("gw", "idle")
  BY FreshIs DEF Init, In
<1>3. TypeOK
  <2>1. {ixe_blufi_started, ble_ota_flag, configured, scanning, initialized, failed, overlapped}
            \subseteq BOOLEAN
    BY Zenon DEF Init
  <2>2. events \in Seq(Events) /\ Len(events) <= LoopLen
    BY LengthsAssumption DEF Init, Events
  <2>3. queue \in Seq({"NETWORK_CONNECTED", "NETWORK_DISCONNECTED"}) /\ Len(queue) <= QueueLen
    BY LengthsAssumption DEF Init
  <2>4. DOMAIN pc = Tasks
    BY <1>1 DEF PcInv
  <2> QED
    BY <2>1, <2>2, <2>3, <2>4 DEF Init, TypeOK, Down
<1>4. ScanInv
  BY <1>2 DEF Init, ScanInv, In
<1>5. BootInv
  BY <1>2 DEF Init, BootInv, QueueExists, Is, In, Down
<1>6. MoverInv
  BY <1>1 DEF Init, MoverInv, Moves, Rising, Falling, Down
<1>7. FlagInv /\ OverlapInv /\ UserHasStack
  BY <1>2 DEF Init, FlagInv, OverlapInv, UserHasStack, In
<1> QED
  BY <1>1, <1>3, <1>4, <1>5, <1>6, <1>7 DEF IInv, UseInv

LEMMA NextIInv == IInv /\ [Next]_<<vars, overlapped>> => IInv'
<1> SUFFICES ASSUME IInv, [Next]_<<vars, overlapped>> PROVE IInv'
  OBVIOUS
<1>1. TypeOK /\ PcInv /\ ScanInv /\ BootInv /\ MoverInv /\ FlagInv /\ OverlapInv /\ UserHasStack
  BY DEF IInv, UseInv
<1>2. CASE Next
  <2>1. Step /\ Overlaps
    BY <1>2 DEF Next
  <2>2. PcInv' /\ BootInv' /\ MoverInv' /\ FlagInv' /\ OverlapInv' /\ UserHasStack'
    BY <1>1, <1>2, <2>1, PcStep, BootStep, MoverStep, FlagStep, OverlapStep, UserStep
  <2>3. Waiting' /\ FlagsOK' /\ queue' \in Seq(NetworkEvents) /\ Len(queue') <= QueueLen
    BY <1>1, <2>1, WaitingStep, FlagsStep, QueueStep
  <2>4. /\ stack' \in [controller : 0..2, host : 0..2]
        /\ user' \in {"none", "blufi", "client", "server"}
    BY <1>1, <2>1, StackStep
  <2>5. {ixe_blufi_started, ble_ota_flag, configured, scanning, initialized, failed, overlapped}'
            \subseteq BOOLEAN
    <3>1. overlapped' \in BOOLEAN
      BY <2>1 DEF Overlaps
    <3>2. Flags' \subseteq BOOLEAN
      BY <2>3 DEF FlagsOK
    <3> QED
      BY <3>1, <3>2, Zenon DEF Flags
  <2>6. DOMAIN pc' = Tasks
    BY <2>2 DEF PcInv
  <2>7. TypeOK' /\ ScanInv'
    BY <2>3, <2>4, <2>5, <2>6 DEF TypeOK, Waiting, FlagsOK, NetworkEvents
  <2> QED
    BY <2>2, <2>7 DEF IInv, UseInv
<1>3. CASE UNCHANGED <<vars, overlapped>>
  <2>1. TypeOK'
    BY <1>1, <1>3 DEF TypeOK, vars, btVars, wifiVars
  <2>2. PcInv' /\ ScanInv'
    BY <1>1, <1>3 DEF PcInv, ScanInv, In, vars, btVars, wifiVars
  <2>3. BootInv' /\ MoverInv'
    BY <1>1, <1>3 DEF BootInv, QueueExists, MoverInv, Moves, Rising, Falling, Between, Is, In,
       vars, btVars
  <2>4. FlagInv' /\ OverlapInv' /\ UserHasStack'
    BY <1>1, <1>3 DEF FlagInv, Done, Alive, OverlapInv, UserHasStack, In, vars, btVars
  <2> QED
    BY <2>1, <2>2, <2>3, <2>4 DEF IInv, UseInv
<1> QED
  BY <1>2, <1>3

THEOREM Invariance == Spec => []IInv
  BY InitIInv, NextIInv, PTL DEF Spec

----------------------------------------------------------------------------
(* The results                                                             *)

(* Every variable holds a value of its kind, and the two queues never hold *)
(* more than their lengths: the end of a scan always finds room.           *)
THEOREM TypeCorrect == Spec => []TypeOK
<1>1. IInv => TypeOK
  BY DEF IInv
<1> QED
  BY <1>1, Invariance, PTL

(* Whatever fails in ixe_blufi_start, ixe_blufi_stop, ixe_ble_ota and      *)
(* ble_initialize, and however their calls interleave, a profile in use    *)
(* has the controller and the host enabled under it.                       *)
THEOREM WholeStack == Spec => []UserHasStack
<1>1. IInv => UserHasStack
  BY DEF IInv, UseInv
<1> QED
  BY <1>1, Invariance, PTL

(* ixe_blufi_started is not up while the client or the update's server has *)
(* the stack, but at the last line of ixe_blufi_stop, which lowers it.     *)
THEOREM FlagTrue == Spec => []FlagIsBlufis
<1>1. IInv => FlagIsBlufis
  BY DEF IInv, UseInv, FlagInv, FlagIsBlufis
<1> QED
  BY <1>1, Invariance, PTL

(* Nobody takes the stack from the client or the update's server, but the  *)
(* update itself, a reset, and the two late steps that the property names. *)
THEOREM OwnerKeeps == Spec => OwnerKeepsBluetooth
<1>1. ASSUME IInv, Next, user \in {"client", "server"}
      PROVE  \/ user' = user \/ ~Alive'
             \/ In("main", "ixe_blufi_stop") \/ In("main", "ixe_ble_ota")
             \/ overlapped
             \/ user = "server" /\ In("gw", "ble_initialize")
  <2>1. TypeOK /\ PcInv /\ BootInv /\ MoverInv /\ FlagInv /\ OverlapInv /\ Step
    BY <1>1 DEF IInv, UseInv, Next
  <2>2. ASSUME NEW cause \in Aborts, Fail(cause) PROVE ~Alive'
    BY <2>2 DEF Fail, Alive, Aborts
  <2>3. ~In("main", "ixe_blufi_start")
    BY <1>1, <2>1 DEF BootInv, QueueExists, In
  <2>4. ASSUME In("loop", "ixe_blufi_stop"), pc["loop"].call = 2, ~overlapped,
               ~In("main", "ixe_blufi_stop")
        PROVE  FALSE
    <3>1. ixe_blufi_started
      BY <2>1, <2>4 DEF OverlapInv
    <3>2. \A t \in {"main", "loop"} : ~Done(t, "ixe_blufi_stop")
      BY <2>4, CallsAre DEF Done, In
    <3> QED
      BY <1>1, <2>1, <3>1, <3>2 DEF FlagInv
  <2> QED
    BY <1>1, <2>1, <2>2, <2>3, <2>4, UserChange
<1>2. IInv /\ [Next]_<<vars, overlapped>> =>
          [(user \in {"client", "server"}) =>
                \/ user' = user \/ ~Alive'
                \/ In("main", "ixe_blufi_stop") \/ In("main", "ixe_ble_ota")
                \/ overlapped
                \/ user = "server" /\ In("gw", "ble_initialize")]_vars
  BY <1>1 DEF vars
<1> QED
  BY <1>2, Invariance, PTL DEF Spec, OwnerKeepsBluetooth
=============================================================================
