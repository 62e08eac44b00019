----------------------------- MODULE LoRaWanApp -----------------------------
(***************************************************************************)
(* A whole device: the sketch's loop over deviceState, the application     *)
(* layer of ESP32_LoRaWAN.cpp, Mcu.sleep with its deep sleep, and the      *)
(* timer list, over an abstract MAC.  Of the MAC it keeps what the others  *)
(* see: whether it is idle, which request is open, its confirms and        *)
(* indications, and its timers.  LoRaMac.tla is the MAC in detail.         *)
(*                                                                         *)
(* There is one thread.  The MAC's callbacks and the timer callbacks run   *)
(* inside LoRaWAN.sleep only, and pc tells how far a call of it has come.  *)
(***************************************************************************)
EXTENDS TimerList

CONSTANTS
  Devices,      \* pairs of loraWanClass and the sketch that is running
  DutyCycles,   \* txDutyCycleTime, in ticks
  RejoinDelay,  \* 30 s in ticks
  Delays,       \* the ticks a frame may be put off by the duty cycle
  DeepSleepTicks, \* a sleep of this many ticks or fewer is not worth it
  CALLS,        \* calls of Mcu.sleep before the first deep sleep: 5
  MaxLate       \* bound: ticks the loop comes too late for its timers

(* StateCheck, TxDelayed and Window are timers of the MAC, Window standing *)
(* for those of the receive windows and the acknowledgement.               *)
ASSUME TimerAssumption ==
  TimerIds = {"TxNextPacket", "StateCheck", "TxDelayed", "Window"}

ASSUME DeviceAssumption == Devices \subseteq {"A", "C"} \X {"OTAA", "MAKE_SURE"}

ASSUME TimeAssumption ==
  /\ DutyCycles \subseteq Nat \ {0}
  /\ Delays \subseteq Nat \ {0}
  /\ RejoinDelay \in Nat \ {0}
  /\ DeepSleepTicks \in Nat
  /\ CALLS \in Nat
  /\ MaxLate \in Nat

VARIABLES
  device,  \* loraWanClass and the sketch: chosen when it is compiled
  node,    \* the statics of the device and its timers
  pc       \* "LOOP", or within LoRaWAN.sleep: "MCU" after Radio.IrqProcess,
           \* "TIMERS" within TimerIrqHandler

vars == <<device, node, pc>>

(* LoRaMacInitialization empties the confirm queue, and resets the rest of *)
(* the MAC unless the device has joined.                                   *)
LoRaMacInitialization(n) ==
  LET emptied == [n EXCEPT !.queued = FALSE]
  IN  IF n.joined
      THEN emptied
      ELSE [emptied EXCEPT !.busy = FALSE, !.mcps = FALSE, !.mlme = FALSE]

(* What setup() leaves, at power-on or after a deep sleep, which keeps the *)
(* RTC memory alone: IsLoRaMacNetworkJoined, LoRaMacState and the flags.   *)
(* MAKE_SURE has called init in setup, and joins in any case.              *)
Boot(n) ==
  LET begun == [n EXCEPT !.nextTx = TRUE, !.timers = NoTimers, !.calls = 0]
  IN  IF device[2] = "OTAA"
      THEN [begun EXCEPT !.state = "INIT", !.queued = FALSE]
      ELSE [LoRaMacInitialization(begun) EXCEPT !.state = "JOIN"]

(* state: deviceState; nextTx: NextTx; busy: LoRaMacState is not idle;     *)
(* joined: IsLoRaMacNetworkJoined; mcps, mlme: the flags McpsReq and       *)
(* MlmeReq; queued: the join request is in the confirm queue; calls:       *)
(* toDeepSleep.                                                            *)
PowerOn ==
  [state |-> "INIT", nextTx |-> TRUE, timers |-> NoTimers, busy |-> FALSE,
   joined |-> FALSE, mcps |-> FALSE, mlme |-> FALSE, queued |-> FALSE,
   calls |-> 0]

Init ==
  /\ device \in Devices
  /\ node = Boot(PowerOn)
  /\ pc = "LOOP"

-----------------------------------------------------------------------------
(* Requests to the MAC.                                                    *)

Start(n, id, value) == [n EXCEPT !.timers = Rearm(@, id, value)]
Stop(n, id) == [n EXCEPT !.timers = TimerStop(@, id)]

(* A frame is sent at once (0), or put off by so many ticks.               *)
Transmit(n, delay) ==
  IF delay = 0
  THEN [Start(n, "StateCheck", 1) EXCEPT !.busy = TRUE]
  ELSE [Start(n, "TxDelayed", delay) EXCEPT !.busy = TRUE]

(* MLME_JOIN, as join() and OnTxNextPacketTimerEvent ask for it.           *)
MlmeJoin(n, delay) ==
  IF n.busy
  THEN [n EXCEPT !.state = "CYCLE"]
  ELSE [Transmit([n EXCEPT !.joined = FALSE, !.mlme = TRUE, !.queued = TRUE],
                 delay) EXCEPT !.state = "SLEEP"]

(* SendFrame's result is the next NextTx: FALSE if the MAC took the frame. *)
(* `refused': it cannot be sent (the server has switched the device off).  *)
SendFrame(n, refused, delay) ==
  IF n.busy \/ ~n.joined \/ refused
  THEN [n EXCEPT !.nextTx = TRUE]
  ELSE [Transmit([n EXCEPT !.mcps = TRUE], delay) EXCEPT !.nextTx = FALSE]

-----------------------------------------------------------------------------
(* The callbacks of the application layer.                                 *)

\* Mutant: a device that is not joined waits for its join to be confirmed.
TxNextIfJoined(n, delay) ==
  LET stopped == Stop(n, "TxNextPacket")
  IN  IF n.joined
      THEN [stopped EXCEPT !.state = "SEND", !.nextTx = TRUE]
      ELSE [stopped EXCEPT !.state = "SLEEP"]

OnTxNextPacketTimerEvent(n, delay) ==
  LET stopped == Stop(n, "TxNextPacket")
  IN  IF n.joined
      THEN [stopped EXCEPT !.state = "SEND", !.nextTx = TRUE]
      ELSE MlmeJoin(stopped, delay)

\* Mutant: NextTx is left to the send timer.
ConfirmIgnored(n) == n

McpsConfirm(n) == [n EXCEPT !.nextTx = TRUE]

\* Mutant: a failed join is not tried again.
JoinConfirmOnly(n) ==
  IF n.joined THEN [n EXCEPT !.state = "SEND", !.nextTx = TRUE]
  ELSE [n EXCEPT !.nextTx = TRUE]

(* The confirm of a join: after a failure the send timer tries again.      *)
MlmeConfirm(n) ==
  IF n.joined THEN [n EXCEPT !.state = "SEND", !.nextTx = TRUE]
  ELSE [Start(n, "TxNextPacket", RejoinDelay) EXCEPT !.nextTx = TRUE]

-----------------------------------------------------------------------------
(* What the MAC does.  A report r says what its state check finds: `over': *)
(* the procedure is over; `accepted': a join accept has come; `sticky': an *)
(* answer must be repeated, which calls for an uplink; `pending': a        *)
(* downlink came with FramePending; `delay': for what is sent now.         *)
Reports == [over : BOOLEAN, accepted : BOOLEAN, sticky : BOOLEAN,
            pending : BOOLEAN, delay : Delays \cup {0}]

(* A delayed frame is not over.  A join accept comes for a join request,   *)
(* or, to a class C device, after it was reported as failed.  Answers are  *)
(* repeated, and pending data announced, in a session, but a class C       *)
(* device keeps the keys of the last session while it joins.               *)
MayReport(n, r) ==
  /\ r.over => "TxDelayed" \notin Armed(n.timers)
  /\ r.accepted => /\ ~n.joined
                   /\ IF n.busy THEN n.mlme /\ r.over ELSE device[1] = "C"
  /\ r.sticky => n.joined /\ ~n.mlme
  /\ r.pending => ~r.accepted /\ (n.joined \/ device[1] = "C")

Confirmed(n) ==
  LET data == IF n.mcps THEN McpsConfirm([n EXCEPT !.mcps = FALSE]) ELSE n
      join == IF data.mlme /\ data.queued THEN MlmeConfirm(data) ELSE data
  IN  [join EXCEPT !.mlme = FALSE, !.queued = FALSE]

Indicated(n, r) == IF r.pending THEN OnTxNextPacketTimerEvent(n, r.delay) ELSE n

\* Mutant: the state check does not start its timer again.
CheckOnce(n, r) ==
  LET stopped == [Stop(n, "StateCheck") EXCEPT !.joined = @ \/ r.accepted]
      ended   == Confirmed([stopped EXCEPT !.busy = FALSE])
  IN  IF n.busy /\ ~r.over
      THEN Indicated(stopped, r)
      ELSE Indicated(IF r.sticky THEN OnTxNextPacketTimerEvent(ended, r.delay)
                     ELSE ended, r)

(* OnMacStateCheckTimerEvent: the procedure goes on, perhaps with another  *)
(* transmission, or it ends and is reported.                               *)
OnMacStateCheck(n, r) ==
  LET stopped == [Stop(n, "StateCheck") EXCEPT !.joined = @ \/ r.accepted]
      ended   == Confirmed([stopped EXCEPT !.busy = FALSE])
  IN  IF n.busy /\ ~r.over
      THEN Indicated(Start(Transmit(stopped, r.delay), "StateCheck", 1), r)
      ELSE Indicated(IF r.sticky THEN OnTxNextPacketTimerEvent(ended, r.delay)
                     ELSE ended, r)

-----------------------------------------------------------------------------
(* The sketch's loop.                                                      *)

LoopIn(state) == pc = "LOOP" /\ node.state = state

LoopInit ==
  /\ LoopIn("INIT")
  /\ node' = LET begun == Stop(LoRaMacInitialization(node), "TxNextPacket")
             IN  [begun EXCEPT !.state = IF node.joined THEN "SEND" ELSE "JOIN"]
  /\ UNCHANGED <<device, pc>>

LoopJoin(delay) ==
  /\ LoopIn("JOIN")
  /\ node' = MlmeJoin(node, delay)
  /\ UNCHANGED <<device, pc>>

LoopSend(refused, delay) ==
  /\ LoopIn("SEND")
  /\ node' = [IF node.nextTx THEN SendFrame(node, refused, delay) ELSE node
              EXCEPT !.state = "CYCLE"]
  /\ UNCHANGED <<device, pc>>

LoopCycle(dutyCycle) ==
  /\ LoopIn("CYCLE")
  /\ node' = [Start(node, "TxNextPacket", dutyCycle) EXCEPT !.state = "SLEEP"]
  /\ UNCHANGED <<device, pc>>

(* LoRaWAN.sleep calls Radio.IrqProcess, which finds no event, the end of  *)
(* a transmission, which starts the windows, or one that ends in a state   *)
(* check.  A class C device receives at rest too.                          *)
RadioQuiet ==
  /\ LoopIn("SLEEP")
  /\ pc' = "MCU"
  /\ UNCHANGED <<device, node>>

RadioTxDone ==
  /\ LoopIn("SLEEP")
  /\ node.busy /\ "TxDelayed" \notin Armed(node.timers)
  /\ node' = Start(node, "Window", 1)
  /\ pc' = "MCU"
  /\ UNCHANGED device

RadioChecks(r) ==
  /\ LoopIn("SLEEP")
  /\ node.busy \/ device[1] = "C"
  /\ MayReport(node, r)
  /\ node' = OnMacStateCheck(node, r)
  /\ pc' = "MCU"
  /\ UNCHANGED device

-----------------------------------------------------------------------------
(* Mcu.sleep.                                                              *)

(* Only the send timer of a joined class A device is left.                 *)
MayDeepSleep ==
  /\ device[1] = "A" /\ node.joined
  /\ Armed(node.timers) = {"TxNextPacket"}

(* The first calls return at once.                                         *)
McuAwake ==
  /\ pc = "MCU" /\ MayDeepSleep /\ node.calls < CALLS
  /\ node' = [node EXCEPT !.calls = @ + 1]
  /\ pc' = "LOOP"
  /\ UNCHANGED device

(* The device sleeps until the alarm and starts from setup().              *)
DeepSleep ==
  /\ pc = "MCU" /\ MayDeepSleep /\ node.calls >= CALLS
  /\ node.timers.alarm > DeepSleepTicks
  /\ node' = Boot(node)
  /\ pc' = "LOOP"
  /\ UNCHANGED device

(* TimerIrqHandler is called when the alarm is due.                        *)
McuTimers ==
  /\ pc = "MCU"
  /\ MayDeepSleep => /\ node.calls >= CALLS
                     /\ node.timers.alarm <= DeepSleepTicks
  /\ IF node.timers.list # <<>> /\ node.timers.alarm <= 0
     THEN node' = [node EXCEPT !.timers = IrqBegin(@)] /\ pc' = "TIMERS"
     ELSE pc' = "LOOP" /\ UNCHANGED node
  /\ UNCHANGED device

(* The timer at the front is due: it is taken out and called.              *)
Fire(id) ==
  /\ pc = "TIMERS" /\ HeadDue(node.timers) /\ node.timers.list[1].id = id
  /\ UNCHANGED <<device, pc>>

Fired == [node EXCEPT !.timers = TakeHead(@)]

FireTxNextPacket(delay) ==
  Fire("TxNextPacket") /\ node' = OnTxNextPacketTimerEvent(Fired, delay)

FireStateCheck(r) ==
  /\ Fire("StateCheck")
  /\ MayReport(node, r)
  /\ r.accepted => node.busy
  /\ node' = OnMacStateCheck(Fired, r)

FireTxDelayed(delay) ==
  Fire("TxDelayed") /\ node' = Transmit(Fired, delay)

FireWindow == Fire("Window") /\ node' = Fired

TimersDone ==
  /\ pc = "TIMERS" /\ ~HeadDue(node.timers)
  /\ node' = [node EXCEPT !.timers = IrqEnd(@)]
  /\ pc' = "LOOP"
  /\ UNCHANGED device

(* The loop may be late for a timer, but not for ever.                     *)
TimePasses ==
  /\ node.timers.list # <<>>
  /\ Overdue(node.timers) => node.timers.late < MaxLate
  /\ node' = [node EXCEPT !.timers = Tick(@)]
  /\ UNCHANGED <<device, pc>>

Loop ==
  \/ LoopInit
  \/ \E delay \in Delays \cup {0} :
       \/ LoopJoin(delay)
       \/ \E refused \in BOOLEAN : LoopSend(refused, delay)
  \/ \E dutyCycle \in DutyCycles : LoopCycle(dutyCycle)
  \/ RadioQuiet
  \/ RadioTxDone
  \/ \E r \in Reports : RadioChecks(r)

Mcu ==
  \/ McuAwake
  \/ DeepSleep
  \/ McuTimers
  \/ \E delay \in Delays \cup {0} : FireTxNextPacket(delay) \/ FireTxDelayed(delay)
  \/ \E r \in Reports : FireStateCheck(r)
  \/ FireWindow
  \/ TimersDone

Next == Loop \/ Mcu \/ TimePasses

Spec == Init /\ [][Next]_vars

(* The loop runs and time passes.  A procedure that is checked again and   *)
(* again ends (McpsConfirmed and MlmeConfirmed of LoRaMac), and a frame    *)
(* that is put off again and again goes out.                               *)
Fairness ==
  /\ WF_vars(Loop) /\ WF_vars(Mcu) /\ WF_vars(TimePasses)
  /\ SF_vars(\E r \in Reports : r.over /\ FireStateCheck(r))
  /\ SF_vars(FireTxDelayed(0))

FairSpec == Spec /\ Fairness

-----------------------------------------------------------------------------
Nodes ==
  [state : {"INIT", "JOIN", "SEND", "CYCLE", "SLEEP"}, nextTx : BOOLEAN,
   timers : [list : Seq([id : TimerIds, ts : Nat]), running : BOOLEAN,
             elapsed : Nat, alarm : Int, left : [TimerIds -> Int], late : Nat],
   busy : BOOLEAN, joined : BOOLEAN, mcps : BOOLEAN, mlme : BOOLEAN,
   queued : BOOLEAN, calls : Nat]

(* The statics and the timer list have their types; no time in the list is *)
(* negative, though the code subtracts unsigned numbers.                   *)
TypeOK == node \in Nodes /\ pc \in {"LOOP", "MCU", "TIMERS"}

(* Whatever is started, stopped and fired, and however late the loop is:   *)
(* each timer is in the list once, expires no earlier than the time it was *)
(* started with and no later than that and the lateness, and outside       *)
(* TimerIrqHandler the alarm is programmed for the head of the list.       *)
OnTime ==
  /\ Kept(node.timers)
  /\ pc # "TIMERS" => AlarmOfHead(node.timers)

(* A sketch that sleeps will be woken: its send timer runs, or a join is   *)
(* open, whose confirm sends or starts the timer.                          *)
Wakes ==
  node.state = "SLEEP" =>
    \/ "TxNextPacket" \in Armed(node.timers)
    \/ node.mlme /\ node.queued /\ node.busy

(* NextTx blocks the sketch only while the MAC carries its data request,   *)
(* whose confirm clears it; and a busy MAC has a timer of its own.         *)
Unblocked ==
  /\ ~node.nextTx => node.mcps /\ node.busy
  /\ node.busy => Armed(node.timers) \cap {"StateCheck", "TxDelayed"} # {}

(* A deep sleep, which forgets the confirm queue and the timers but not    *)
(* LoRaMacState and the flags, never comes while the MAC is busy or a      *)
(* request is open.                                                        *)
SleepsAtRest ==
  [][DeepSleep => ~node.busy /\ ~node.mcps /\ ~node.mlme]_vars

(* The device goes on for ever: again and again it sends, or asks to join. *)
KeepsTrying == []<>(node.state = "SEND" \/ node.mlme)
=============================================================================
