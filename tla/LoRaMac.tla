------------------------------ MODULE LoRaMac ------------------------------
(***************************************************************************)
(* The MAC layer of the ESP32_LoRaWAN library (LoRaMac.c) over an SX1276.  *)
(* The statics of LoRaMac.c, the state of the radio driver and the set of  *)
(* running timers are one record, `mac'; an operator below is a C function *)
(* or a block of one, from the record it finds to the record it leaves,    *)
(* and an action is one whole callback: a request of the application, a    *)
(* timer event or a radio event.  RadioIrqProcess and the timer list run   *)
(* callbacks to the end, one at a time.                                    *)
(***************************************************************************)
EXTENDS ConfirmQueueOps

CONSTANTS
  Class,          \* LoRaMacDeviceClass: "A" or "C"
  NbRep,          \* LoRaMacParams.ChannelsNbRep
  NbTrials,       \* NbTrials of a confirmed request
  MaxJoinTrials,  \* NbTrials of a join request
  MinDr, MaxDr,   \* the region's uplink datarates
  DefaultDr,      \* the default datarate, and the one a request asks for
  LongDr,         \* the least datarate at which a long payload fits
  JoinDatarates,  \* what RegionAlternateDr may return
  AdrOn,          \* AdrCtrlOn
  Waits,          \* may the duty cycle delay a frame: a subset of BOOLEAN
  TxTimeouts,     \* may the TX timeout of the radio fire during a frame
  Services,       \* the MLME services the application requests
  McpsTypes,      \* the MCPS services the application requests
  Downlinks,      \* the frames the radio may receive
  MaxRequests,    \* bound: MCPS requests accepted
  MaxSessions,    \* bound: activations by a join accept
  MaxUpLink       \* bound: UpLinkCounter at which no more frames are received
                  \* and no more continuous waves asked for

MaxAckRetries == 8   \* MAX_ACK_RETRIES

Datarates == MinDr .. MaxDr

(* RegionNextChannel finds a free band or tells how long to wait;          *)
(* RegionAlternateDr gives the datarate of a join trial.  `ackAt': where   *)
(* the acknowledgement timer, if armed, stands in the list of timers, in   *)
(* which the radio driver and the application have theirs.  timer.S marks  *)
(* only the first with IsRunning.  With another timer of the MAC in the    *)
(* list, ALONE means no more than FIRST.                                   *)
Choices == [wait : Waits, joinDr : JoinDatarates,
            ackAt : {"ALONE", "FIRST", "LATER"}]

(* A downlink: its MType and how OnRadioRxDone judges it (ALIEN fails the  *)
(* address, MIC, size or gap check, REPEATED is an old unconfirmed frame), *)
(* its ACK bit, `skip' for a frame whose indication is suppressed, `bad'   *)
(* for port 0 together with FOpts, and the MAC command it carries.         *)
Frames == [kind : {"JOIN_ACCEPT", "BAD_JOIN_ACCEPT", "DATA", "REPEATED",
                   "ALIEN", "PROPRIETARY", "UNKNOWN"},
           ack : BOOLEAN, skip : BOOLEAN, bad : BOOLEAN,
           cmd : {"NONE", "LINK_CHECK_ANS", "DUTY_CYCLE_OFF", "ADR_LOWEST"}]

ASSUME ClassAssumption == Class \in {"A", "C"}

ASSUME CountAssumption ==
  /\ NbRep \in Nat \ {0}
  /\ NbTrials \in Nat \ {0}
  /\ MaxJoinTrials \in Nat \ {0}
  /\ MaxRequests \in Nat
  /\ MaxSessions \in Nat
  /\ MaxUpLink \in Nat

ASSUME DatarateAssumption ==
  /\ MinDr \in Nat
  /\ MaxDr \in Nat
  /\ DefaultDr \in Datarates
  /\ LongDr \in Nat
  /\ JoinDatarates \subseteq Datarates

ASSUME ChoiceAssumption ==
  /\ AdrOn \in BOOLEAN
  /\ Waits \subseteq BOOLEAN
  /\ TxTimeouts \in BOOLEAN
  /\ Services \subseteq {"JOIN", "LINK_CHECK", "TXCW"}
  /\ McpsTypes \subseteq {"UNCONFIRMED", "CONFIRMED", "PROPRIETARY"}
  /\ Downlinks \subseteq Frames

ASSUME QueueAssumption ==
  /\ {"JOIN", "LINK_CHECK", "TXCW"} \subseteq Requests
  /\ {"OK", "ERROR", "TX_TIMEOUT", "RX_FAIL", "JOIN_FAIL", "DR_SIZE"}
       \subseteq Statuses

VARIABLES
  mac,   \* LoRaMac.c, the radio state of sx1276.c and the running timers
  hist   \* what has gone on the air and been asked for: history only

vars == <<mac, hist>>

NoFrame == [kind |-> "NONE", fcnt |-> 0, req |-> 0, long |-> FALSE]

(* LoRaMacInitialization; a class C device has then been switched by       *)
(* SwitchClass, which opens its continuous window.  McpsConfirm and        *)
(* MlmeConfirm are zero, and zero is MLME_JOIN.                            *)
Init ==
  /\ mac = [state |-> {}, flags |-> {}, timers |-> {},
            radio |-> IF Class = "C" THEN "RX_CONTINUOUS" ELSE "IDLE",
            slot |-> IF Class = "C" THEN "CLASS_C" ELSE "WIN_1",
            cut |-> FALSE, joined |-> FALSE, nodeAck |-> FALSE,
            retry |-> FALSE, ackStale |-> FALSE, ackRetries |-> 1, ackCnt |-> 1,
            nbRep |-> 0, joinTrials |-> 0, maxJoin |-> 0, upCnt |-> 0,
            dr |-> DefaultDr, off |-> FALSE, frame |-> NoFrame,
            confirm |-> [type |-> "UNCONFIRMED", status |-> "OK",
                         ack |-> FALSE, dr |-> 0],
            mlme |-> [request |-> "JOIN", status |-> "OK"],
            queue |-> EmptyQueue]
  /\ hist = [session |-> 0, reqs |-> 0, kind |-> "NONE", aired |-> {},
             drs |-> <<>>, acked |-> FALSE]

-----------------------------------------------------------------------------
(* The flags and timers.                                                   *)

Raise(m, flags) == [m EXCEPT !.flags = @ \cup flags]
Stop(m, timers) == [m EXCEPT !.timers = @ \ timers]
Start(m, timers) == [m EXCEPT !.timers = @ \cup timers]
StopRunning(m) == [m EXCEPT !.state = @ \ {"TX_RUNNING"}]

Requested(m) == m.flags \cap {"MlmeReq", "McpsReq"} # {}
\* Mutant: the stale request in MlmeConfirm is taken for an open one.
LastMlmeWasJoin(m) == m.mlme.request = "JOIN"

JoinRequested(m) == "MlmeReq" \in m.flags /\ m.mlme.request = "JOIN"

(* The radio leaves whatever it does; `cut' remembers that a transmission  *)
(* was going on.                                                           *)
RadioTo(m, radio) ==
  [m EXCEPT !.radio = radio, !.cut = @ \/ m.radio \in {"TX", "CW"}]

-----------------------------------------------------------------------------
(* Sending.                                                                *)

ResetMacParameters(m) ==
  [m EXCEPT !.joined = FALSE, !.upCnt = 0, !.nbRep = 0, !.ackRetries = 1,
            !.ackCnt = 1, !.retry = FALSE, !.off = FALSE, !.nodeAck = FALSE,
            !.dr = DefaultDr]

(* PrepareFrame: the frame takes the counter of this moment.  A data frame *)
(* is refused before it is built when the device has not joined.           *)
Buildable(m, kind) == kind \in {"JOIN", "PROPRIETARY"} \/ m.joined

PrepareFrame(m, kind, req, long) ==
  [m EXCEPT !.nodeAck = (kind = "CONFIRMED"),
            !.frame = IF Buildable(m, kind)
                      THEN [kind |-> kind, fcnt |-> m.upCnt, req |-> req,
                            long |-> long]
                      ELSE NoFrame]

SendFrameOnChannel(m) ==
  LET sent == RadioTo(m, "TX")
  IN  [sent EXCEPT !.queue = SetStatusCmn(@, "ERROR"),
                   !.confirm.status = "ERROR",
                   !.confirm.dr = m.dr,
                   !.timers = @ \cup {"StateCheck"},
                   !.joinTrials = IF m.joined THEN @ ELSE @ + 1,
                   !.state = @ \cup {"TX_RUNNING"}]

(* ScheduleTx refuses when the server has switched the device off and when *)
(* the payload does not fit the datarate; else it sends now or arms the    *)
(* delay timer.                                                            *)
Sendable(m) == ~m.off /\ (m.joined /\ m.frame.long => m.dr >= LongDr)

ScheduleTx(m, c) ==
  IF ~Sendable(m)
  THEN m
  ELSE IF c.wait
       THEN [m EXCEPT !.state = @ \cup {"TX_DELAYED"},
                      !.timers = @ \cup {"TxDelayed"}]
       ELSE SendFrameOnChannel(m)

(* A join trial is prepared anew, any other frame is sent as it is.  The   *)
(* result of ScheduleTx is not looked at.                                  *)
PrepareJoin(m, c) ==
  PrepareFrame([ResetMacParameters(m) EXCEPT !.dr = c.joinDr], "JOIN", 0, FALSE)

\* Mutant: LORAMAC_TX_DELAYED is not cleared.
DelayMarkKept(m, c) ==
  LET due == Stop(m, {"TxDelayed"})
  IN  ScheduleTx(IF JoinRequested(due) THEN PrepareJoin(due, c) ELSE due, c)

OnTxDelayed(m, c) ==
  LET due == [Stop(m, {"TxDelayed"}) EXCEPT !.state = @ \ {"TX_DELAYED"}]
  IN  ScheduleTx(IF JoinRequested(due) THEN PrepareJoin(due, c) ELSE due, c)

-----------------------------------------------------------------------------
(* Receive windows.  RegionRxConfig accepts only an idle radio.            *)

RxWindow1(m) ==
  LET ready == IF Class = "C" THEN RadioTo(m, "IDLE") ELSE m
  IN  [RadioTo(ready, "RX_SINGLE") EXCEPT !.timers = @ \ {"Rx1"},
                                          !.slot = "WIN_1"]

RxWindow2(m) ==
  IF m.radio # "IDLE"
  THEN Stop(m, {"Rx2"})
  ELSE [Stop(m, {"Rx2"}) EXCEPT
          !.radio = IF Class = "C" THEN "RX_CONTINUOUS" ELSE "RX_SINGLE",
          !.slot = "WIN_2"]

OpenContinuousRx2(m) == [RxWindow2(m) EXCEPT !.slot = "CLASS_C"]

(* The radio sleeps, or listens again in class C.                          *)
Rest(m) == IF Class = "C" THEN OpenContinuousRx2(m) ELSE m

(* TimerStop(&AckTimeoutTimer).  A timer that is alone in the list is      *)
(* taken off it, but keeps its IsRunning until TimerStart clears it; any   *)
(* other first timer loses it.                                             *)
AckAlone(m, c) == m.timers = {"AckTimeout"} /\ c.ackAt = "ALONE"

StopAck(m, c) ==
  [Stop(m, {"AckTimeout"}) EXCEPT !.ackStale = @ \/ AckAlone(m, c)]

AckTimeoutIsRunning(m, c) ==
  IF "AckTimeout" \in m.timers THEN c.ackAt # "LATER" ELSE m.ackStale

\* Mutant: the timeout of an open acknowledgement asks for no retry.
AckTimeoutIgnored(m) == IF Class = "C" THEN Raise(m, {"MacDone"}) ELSE m

(* What OnAckTimeoutTimerEvent does once the timer is off the list: an     *)
(* expired one has been taken off, with its IsRunning cleared, before.     *)
OnAckTimeout(m) ==
  LET over == [m EXCEPT !.retry = @ \/ m.nodeAck]
  IN  IF Class = "C" THEN Raise(over, {"MacDone"}) ELSE over

-----------------------------------------------------------------------------
(* OnMacStateCheckTimerEvent, block by block.                              *)

\* Mutant: LORAMAC_RX_ABORT is not cleared.
AbortMarkKept(m) == IF "RX_ABORT" \in m.state THEN StopRunning(m) ELSE m

AbortBlock(m) ==
  IF "RX_ABORT" \in m.state
  THEN [m EXCEPT !.state = @ \ {"RX_ABORT", "TX_RUNNING"}]
  ELSE m

(* noTx: a request is open and its transmission timed out.                 *)
TxTimedOut(m) ==
  Requested(m) /\ "TX_TIMEOUT" \in {m.confirm.status, m.queue.cmn}

TxTimeoutBlock(m) ==
  LET seen == IF Requested(m)
              THEN [m EXCEPT !.mlme.status = m.queue.cmn]
              ELSE m
  IN  IF TxTimedOut(m)
      THEN [StopRunning(seen) EXCEPT !.confirm.ack = FALSE]
      ELSE seen

SendAgain(m, c) == OnTxDelayed([m EXCEPT !.flags = @ \ {"MacDone"}], c)

JoinBlock(m, c) ==
  IF GetStatus(m.queue, "JOIN") = "OK"
  THEN [StopRunning(m) EXCEPT !.upCnt = 0, !.nbRep = 0]
  ELSE IF m.joinTrials >= m.maxJoin
       THEN StopRunning(m)
       ELSE SendAgain(m, c)

RepetitionBlock(m, c) ==
  IF m.nbRep >= NbRep \/ "McpsInd" \in m.flags
  THEN [StopRunning(m) EXCEPT !.nbRep = 0, !.upCnt = @ + 1]
  ELSE SendAgain(m, c)

UnacknowledgedBlock(m, c) ==
  IF m.nodeAck \/ TxTimedOut(m) \/ ~Requested(m)
  THEN m
  ELSE IF JoinRequested(m) THEN JoinBlock(m, c) ELSE RepetitionBlock(m, c)

ReceivedBlock(m) ==
  IF /\ "McpsInd" \in m.flags
     /\ m.confirm.ack \/ m.ackCnt > m.ackRetries
  THEN [StopRunning(m) EXCEPT !.retry = FALSE, !.nodeAck = FALSE,
                              !.upCnt = @ + 1]
  ELSE m

\* Mutant: the frame counter of the given-up frame is used again.
GiveUpSameCounter(m) ==
  [StopRunning(m) EXCEPT !.nodeAck = FALSE, !.confirm.ack = FALSE]

\* Mutant: NodeAckRequested stays set.
GiveUpStillWaiting(m) ==
  [StopRunning(m) EXCEPT !.confirm.ack = FALSE, !.upCnt = @ + 1]

(* The retransmission is given up: the counter moves on.                   *)
GiveUp(m) ==
  [StopRunning(m) EXCEPT !.nodeAck = FALSE, !.confirm.ack = FALSE,
                         !.upCnt = @ + 1]

\* Mutants: no lowest datarate, and one that is one too high.
LowerDrUnbounded(dr) == dr - 1

LowerDrStopsEarly(dr) == IF dr <= MinDr + 1 THEN dr ELSE dr - 1

NextLowerDr(dr) == IF dr = MinDr THEN dr ELSE dr - 1

(* The datarate goes down after every second transmission.                 *)
NextTry(m) ==
  [m EXCEPT !.retry = FALSE,
            !.ackCnt = @ + 1,
            !.dr = IF (m.ackCnt + 1) % 2 = 1 THEN NextLowerDr(@) ELSE @]

(* The payload does not fit the lower datarate.                            *)
GiveUpTooLong(m) ==
  [GiveUp(m) EXCEPT !.confirm = [@ EXCEPT !.status = "DR_SIZE", !.dr = m.dr]]

RetryBlock(m, c) ==
  IF ~m.retry \/ "TX_DELAYED" \in m.state
  THEN m
  ELSE IF m.ackCnt >= m.ackRetries \/ m.ackCnt > MaxAckRetries
       THEN GiveUp([m EXCEPT !.retry = FALSE])
       ELSE IF Sendable(NextTry(m))
            THEN [ScheduleTx(NextTry(m), c) EXCEPT !.flags = @ \ {"MacDone"}]
            ELSE GiveUpTooLong(NextTry(m))

\* Mutant: McpsReq stays set after the confirm.
McpsReqKept(m) == [m EXCEPT !.flags = @ \ {"MacDone"}]

(* The callbacks to the application, once nothing is going on.             *)
ConfirmMcps(m) == [m EXCEPT !.flags = @ \ {"McpsReq", "MacDone"}]

ConfirmMlme(m) ==
  LET done == HandleCb(m.queue, m.mlme)
  IN  IF "MlmeReq" \notin m.flags
      THEN m
      ELSE [m EXCEPT !.queue = done.queue,
                     !.mlme = done.conf,
                     !.flags = IF done.queue.cnt > 0
                               THEN @ ELSE @ \ {"MlmeReq"}]

\* Mutant: the state check timer is not restarted.
CheckOnce(m) == IF m.state # {} THEN m ELSE ConfirmMlme(ConfirmMcps(m))

EventBlock(m) ==
  IF m.state # {}
  THEN Start(m, {"StateCheck"})
  ELSE ConfirmMlme(ConfirmMcps(m))

IndicationBlock(m) ==
  IF "McpsInd" \in m.flags
  THEN Rest([m EXCEPT !.flags = @ \ {"McpsInd", "McpsIndSkip"}])
  ELSE m

DoneBlock(m, c) ==
  RetryBlock(
    ReceivedBlock(UnacknowledgedBlock(TxTimeoutBlock(AbortBlock(m)), c)), c)

\* Mutant: MacDone is not asked for.
CheckWithoutDone(m, c) ==
  IndicationBlock(EventBlock(DoneBlock(Stop(m, {"StateCheck"}), c)))

OnMacStateCheck(m, c) ==
  LET stopped == Stop(m, {"StateCheck"})
  IN  IndicationBlock(EventBlock(IF "MacDone" \in m.flags
                                 THEN DoneBlock(stopped, c)
                                 ELSE stopped))

-----------------------------------------------------------------------------
(* OnRadioRxDone, block by block.                                          *)

\* Mutant: an aborted frame indicates nothing.
AbortSilently(m, c) ==
  LET aborted == [m EXCEPT !.state = @ \cup {"RX_ABORT"}]
      retried == IF m.nodeAck THEN OnAckTimeout(StopAck(aborted, c))
                 ELSE aborted
  IN  OnMacStateCheck(Raise(retried, {"MacDone"}), c)

RxDoneAbort(m, c) ==
  LET aborted == [m EXCEPT !.state = @ \cup {"RX_ABORT"}]
      retried == IF m.nodeAck THEN OnAckTimeout(StopAck(aborted, c))
                 ELSE aborted
  IN  OnMacStateCheck(Raise(retried, {"McpsInd", "MacDone"}), c)

(* The acknowledgement timer stops for a class C uplink that asked for     *)
(* none, for an ACK, and after the last retry.                             *)
CheckToDisableAckTimeout(m, c) ==
  IF \/ ~m.nodeAck /\ Class = "C"
     \/ m.nodeAck /\ (m.confirm.ack \/ m.ackCnt > m.ackRetries)
  THEN StopAck(m, c)
  ELSE m

(* The end of OnRadioRxDone: the state check, unless the acknowledgement   *)
(* timer has IsRunning set: it heads the list of timers, or was alone in   *)
(* it when it was last stopped.                                            *)
RxEnd(m, c) ==
  LET kept == CheckToDisableAckTimeout(m, c)
  IN  IF AckTimeoutIsRunning(kept, c)
      THEN kept
      ELSE OnMacStateCheck(Raise(kept, {"MacDone"}), c)

JoinAccepted(m, f) ==
  f.kind = "JOIN_ACCEPT" /\ ~m.joined /\ IsCmdActive(m.queue, "JOIN")

\* Mutant: the waiting join request does not get its status.
JoinedUnmarked(m, f) ==
  IF JoinAccepted(m, f) THEN [m EXCEPT !.joined = TRUE] ELSE m

RxJoinAccept(m, f) ==
  IF JoinAccepted(m, f)
  THEN [m EXCEPT !.queue = SetStatus(@, "JOIN", "OK"), !.joined = TRUE]
  ELSE IF IsCmdActive(m.queue, "JOIN")
       THEN [m EXCEPT !.queue = SetStatus(@, "JOIN", "JOIN_FAIL")]
       ELSE m

ProcessMacCommands(m, cmd) ==
  CASE cmd = "LINK_CHECK_ANS" ->
         [m EXCEPT !.queue = IF IsCmdActive(@, "LINK_CHECK")
                             THEN SetStatus(@, "LINK_CHECK", "OK") ELSE @]
    [] cmd = "DUTY_CYCLE_OFF" -> [m EXCEPT !.off = TRUE]
    [] cmd = "ADR_LOWEST"     -> [m EXCEPT !.dr = MinDr]
    [] OTHER                  -> m

\* Mutant: any downlink is taken for the acknowledgement.
AnyDownlinkAcks(m, f) ==
  [m EXCEPT
     !.confirm = [@ EXCEPT !.status = "OK",
                           !.ack = m.confirm.type = "CONFIRMED"],
     !.flags = @ \cup {"McpsInd"}
                 \cup (IF f.skip \/ f.bad THEN {"McpsIndSkip"} ELSE {})]

(* The frame is believed: its ACK bit answers the last request, and an     *)
(* indication is due.                                                      *)
Taken(m, f) ==
  [m EXCEPT
     !.confirm = [@ EXCEPT !.status = "OK",
                           !.ack = /\ m.confirm.type = "CONFIRMED"
                                   /\ f.ack /\ ~f.bad],
     !.flags = @ \cup {"McpsInd"}
                 \cup (IF f.skip \/ f.bad THEN {"McpsIndSkip"} ELSE {})]

RxData(m, f) ==
  IF f.bad THEN Taken(m, f) ELSE ProcessMacCommands(Taken(m, f), f.cmd)

(* The prologue: the radio sleeps, the second window is not opened.        *)
Heard(m) == [Stop(m, {"Rx2"}) EXCEPT !.radio = "IDLE", !.confirm.ack = FALSE]

OnRadioRxDone(m, f, c) ==
  CASE f.kind \in {"JOIN_ACCEPT", "BAD_JOIN_ACCEPT"} ->
         IF m.joined THEN RxDoneAbort(Heard(m), c)
         ELSE RxEnd(RxJoinAccept(Heard(m), f), c)
    [] f.kind = "DATA" -> RxEnd(RxData(Heard(m), f), c)
    [] f.kind = "REPEATED" ->
         RxDoneAbort([Heard(m) EXCEPT !.confirm.status = "OK"], c)
    [] f.kind = "ALIEN" -> RxDoneAbort(Heard(m), c)
    [] f.kind = "PROPRIETARY" -> RxEnd(Raise(Heard(m), {"McpsInd"}), c)
    \* the default label aborts, breaks and falls into the common end
    [] f.kind = "UNKNOWN" -> RxEnd(RxDoneAbort(Heard(m), c), c)

-----------------------------------------------------------------------------
(* Requests of the application.  A busy MAC refuses them and changes       *)
(* nothing.                                                                *)

Enqueue(m, service, status) ==
  [Raise(m, {"MlmeReq"}) EXCEPT !.queue = Add(@, service, status, FALSE)]

MlmeAllowed(service) ==
  service \in Services /\ mac.state = {} /\ ~IsFull(mac.queue)

JoinRequest(c) ==
  /\ MlmeAllowed("JOIN")
  /\ mac' = ScheduleTx(
               PrepareJoin([Enqueue(mac, "JOIN", "JOIN_FAIL") EXCEPT
                              !.joinTrials = 0, !.maxJoin = MaxJoinTrials,
                              !.confirm.ack = FALSE], c), c)
  /\ UNCHANGED hist

\* Mutant: a refused link check takes MlmeReq with it, whatever else waits.
RefusalDropsMlmeReq(room) ==
  /\ MlmeAllowed("LINK_CHECK")
  /\ LET asked == Enqueue(mac, "LINK_CHECK", "ERROR")
     IN  mac' = IF room
                THEN asked
                ELSE [asked EXCEPT !.nodeAck = FALSE, !.queue = RemoveLast(@),
                                   !.flags = @ \ {"MlmeReq"}]
  /\ UNCHANGED hist

(* The command goes out with the next data frame, if the command buffer    *)
(* has room; if not, the entry is taken back.                              *)
LinkCheckRequest(room) ==
  /\ MlmeAllowed("LINK_CHECK")
  /\ LET asked == Enqueue(mac, "LINK_CHECK", "ERROR")
         back  == RemoveLast(asked.queue)
     IN  mac' = IF room
                THEN asked
                ELSE [asked EXCEPT
                        !.nodeAck = FALSE,
                        !.queue = back,
                        !.flags = IF back.cnt = 0 THEN @ \ {"MlmeReq"} ELSE @]
  /\ UNCHANGED hist

ContinuousWaveRequest ==
  /\ MlmeAllowed("TXCW")
  /\ mac.upCnt < MaxUpLink
  /\ mac' = [Start(RadioTo(Enqueue(mac, "TXCW", "ERROR"), "CW"),
                   {"StateCheck"}) EXCEPT !.state = @ \cup {"TX_RUNNING"}]
  /\ UNCHANGED hist

McpsRequest(type, long, c) ==
  LET fresh == [mac EXCEPT
                  !.confirm = [type |-> "UNCONFIRMED", status |-> "ERROR",
                               ack |-> FALSE, dr |-> 0],
                  !.ackCnt = 1,
                  !.ackRetries = IF type = "CONFIRMED" THEN NbTrials ELSE 1,
                  !.dr = IF AdrOn THEN @ ELSE DefaultDr]
      built == PrepareFrame(fresh, type, hist.reqs + 1, long)
  IN  /\ mac.state \cap {"TX_RUNNING", "TX_DELAYED"} = {}
      /\ hist.reqs < MaxRequests
      /\ IF Buildable(fresh, type) /\ Sendable(built)
         THEN /\ mac' = [Raise(ScheduleTx(built, c), {"McpsReq"}) EXCEPT
                           !.confirm.type = type]
              /\ hist' = [hist EXCEPT !.reqs = @ + 1, !.kind = type,
                                      !.drs = <<>>, !.acked = FALSE]
         ELSE /\ mac' = [built EXCEPT !.nodeAck = FALSE]
              /\ UNCHANGED hist

-----------------------------------------------------------------------------
(* Radio events.                                                           *)

OnRadioTxDone ==
  /\ mac.radio = "TX"
  /\ mac' = [Rest([mac EXCEPT !.radio = "IDLE"]) EXCEPT
               !.timers = @ \cup {"Rx1"}
                  \cup (IF Class = "A" THEN {"Rx2"} ELSE {})
                  \cup (IF Class = "C" \/ mac.nodeAck
                        THEN {"AckTimeout"} ELSE {}),
               !.ackStale = @ /\ ~(Class = "C" \/ mac.nodeAck),
               !.confirm.status = IF mac.nodeAck THEN @ ELSE "OK",
               !.nbRep = IF mac.nodeAck THEN @ ELSE @ + 1]
  /\ hist' = IF mac.frame.kind \in {"CONFIRMED", "UNCONFIRMED"}
             THEN [hist EXCEPT
                     !.aired = @ \cup {[session |-> hist.session,
                                        fcnt |-> mac.frame.fcnt,
                                        req |-> mac.frame.req]},
                     !.drs = Append(@, mac.confirm.dr)]
             ELSE hist

(* The transmit timer of the radio: it ends a continuous wave, and a frame *)
(* whose TxDone never comes.                                               *)
OnRadioTxTimeout ==
  /\ \/ mac.radio = "CW"
     \/ mac.radio = "TX" /\ TxTimeouts
  /\ mac' = [Raise(Rest([mac EXCEPT !.radio = "IDLE"]), {"MacDone"}) EXCEPT
               !.confirm.status = "TX_TIMEOUT",
               !.queue = SetStatusCmn(@, "TX_TIMEOUT")]
  /\ UNCHANGED hist

(* OnRadioRxTimeout and OnRadioRxError: nothing, or nothing readable, was  *)
(* received.  `idle': the driver has left the receive state (a class A     *)
(* callback puts the radio to sleep anyway, a continuous window goes on).  *)
(* `late': RxWindow2Delay has elapsed since the transmission, as it has    *)
(* when the second window's timer has fired.                               *)
OnRadioRxFailed(idle, late) ==
  LET over   == mac.slot # "WIN_1" \/ late
      failed == [mac EXCEPT
                   !.radio = IF idle THEN "IDLE" ELSE @,
                   !.confirm.status = IF mac.nodeAck THEN "RX_FAIL" ELSE @,
                   !.queue = SetStatusCmn(@, "RX_FAIL")]
  IN  /\ mac.radio \in {"RX_SINGLE", "RX_CONTINUOUS"}
      /\ Class = "A" => idle
      /\ mac.radio = "RX_CONTINUOUS" => ~idle
      /\ late \/ "Rx2" \in mac.timers
      /\ mac' = IF Class = "C"
                THEN OpenContinuousRx2(failed)
                ELSE IF ~over
                     THEN failed
                     ELSE Raise(IF mac.slot = "WIN_1"
                                THEN Stop(failed, {"Rx2"})
                                ELSE failed, {"MacDone"})
      /\ UNCHANGED hist

(* A frame of the air.  Only a server the device has joined can send it a  *)
(* frame it believes, and to a class A device only as the answer to a data *)
(* frame (the windows of a join request are seconds apart from those).     *)
ServerMayAnswer ==
  /\ hist.session > 0
  /\ Class = "A" => mac.frame.kind \in {"CONFIRMED", "UNCONFIRMED"}

OnRadioRxDoneEvent(f, c) ==
  /\ mac.radio \in {"RX_SINGLE", "RX_CONTINUOUS"}
  /\ f.kind \in {"DATA", "REPEATED"} => ServerMayAnswer
  /\ f.kind = "JOIN_ACCEPT" => hist.session < MaxSessions
  /\ mac.upCnt < MaxUpLink
  /\ mac' = OnRadioRxDone(mac, f, c)
  /\ hist' = [hist EXCEPT
                !.session = IF JoinAccepted(mac, f) THEN @ + 1 ELSE @,
                !.acked = @ \/ /\ f.kind = "DATA" /\ f.ack /\ ~f.bad
                               /\ mac.confirm.type = "CONFIRMED"]

-----------------------------------------------------------------------------
(* Timer events.  A transmission starts its window and acknowledgement     *)
(* timers together, so they fire in the order of their delays.             *)

OnRxWindow1TimerEvent ==
  /\ "Rx1" \in mac.timers
  /\ mac' = RxWindow1(mac)
  /\ UNCHANGED hist

OnRxWindow2TimerEvent ==
  /\ "Rx2" \in mac.timers /\ "Rx1" \notin mac.timers
  /\ mac' = RxWindow2(mac)
  /\ UNCHANGED hist

OnAckTimeoutTimerEvent ==
  /\ "AckTimeout" \in mac.timers
  /\ mac.timers \cap {"Rx1", "Rx2"} = {}
  /\ mac' = OnAckTimeout(Stop(mac, {"AckTimeout"}))
  /\ UNCHANGED hist

(* Bound: a stale MacDone can restart a delayed frame, and raise a counter *)
(* each time, for ever; the delay timer fires within these limits.         *)
WithinBounds == mac.joinTrials <= MaxJoinTrials /\ mac.upCnt <= MaxUpLink

OnTxDelayedTimerEvent(c) ==
  /\ "TxDelayed" \in mac.timers
  /\ WithinBounds
  /\ mac' = OnTxDelayed(mac, c)
  /\ UNCHANGED hist

OnMacStateCheckTimerEvent(c) ==
  /\ "StateCheck" \in mac.timers
  /\ mac' = OnMacStateCheck(mac, c)
  /\ UNCHANGED hist

Next ==
  \/ \E c \in Choices : JoinRequest(c)
  \/ \E room \in BOOLEAN : LinkCheckRequest(room)
  \/ ContinuousWaveRequest
  \/ \E type \in McpsTypes, long \in BOOLEAN, c \in Choices :
       McpsRequest(type, long, c)
  \/ OnRadioTxDone
  \/ OnRadioTxTimeout
  \/ \E idle, late \in BOOLEAN : OnRadioRxFailed(idle, late)
  \/ \E f \in Downlinks, c \in Choices : OnRadioRxDoneEvent(f, c)
  \/ OnRxWindow1TimerEvent
  \/ OnRxWindow2TimerEvent
  \/ OnAckTimeoutTimerEvent
  \/ \E c \in Choices : OnTxDelayedTimerEvent(c)
  \/ \E c \in Choices : OnMacStateCheckTimerEvent(c)

Spec == Init /\ [][Next]_vars

(* The state check is armed and would do something.                        *)
CheckDue == /\ "StateCheck" \in mac.timers
            /\ \E c \in Choices : OnMacStateCheck(mac, c) # mac

(* What the hardware and the timer list guarantee: a started transmission  *)
(* ends, a single receive window ends, and an armed timer fires.  The      *)
(* delay timer runs for the time RegionNextChannel asked for, so a frame   *)
(* is not put off for ever.  The last two conjuncts are weak fairness with *)
(* the enabling condition written out, which TLC evaluates much faster.    *)
Fairness ==
  /\ WF_vars(OnRadioTxDone \/ OnRadioTxTimeout)
  /\ WF_vars(\E idle, late \in BOOLEAN : OnRadioRxFailed(idle, late))
  /\ WF_vars(OnRxWindow1TimerEvent)
  /\ WF_vars(OnRxWindow2TimerEvent)
  /\ WF_vars(OnAckTimeoutTimerEvent)
  /\ \/ []<>("TxDelayed" \notin mac.timers \/ FALSE \notin Waits)
     \/ []<><<\E c \in Choices : ~c.wait /\ OnTxDelayedTimerEvent(c)>>_vars
  /\ \/ []<>(~CheckDue)
     \/ []<><<\E c \in Choices : OnMacStateCheckTimerEvent(c)>>_vars

FairSpec == Spec /\ Fairness

-----------------------------------------------------------------------------
States == {"TX_RUNNING", "TX_DELAYED", "RX_ABORT"}
Flags  == {"McpsReq", "McpsInd", "McpsIndSkip", "MlmeReq", "MacDone"}
Timers == {"StateCheck", "TxDelayed", "Rx1", "Rx2", "AckTimeout"}
Radios == {"IDLE", "TX", "CW", "RX_SINGLE", "RX_CONTINUOUS"}

McpsKinds == {"UNCONFIRMED", "CONFIRMED", "PROPRIETARY"}

TxFrames == [kind : McpsKinds \cup {"NONE", "JOIN"},
             fcnt : Nat, req : Nat, long : BOOLEAN]

McpsConfirms == [type : McpsKinds, status : Statuses, ack : BOOLEAN,
                 dr : Nat]

MlmeConfirms == [request : Requests \cup {Unset},
                 status : Statuses \cup {Unset}]

MacTypes ==
  [state : SUBSET States, flags : SUBSET Flags, timers : SUBSET Timers,
   radio : Radios, slot : {"WIN_1", "WIN_2", "CLASS_C"},
   cut : BOOLEAN, joined : BOOLEAN, nodeAck : BOOLEAN, retry : BOOLEAN,
   ackStale : BOOLEAN, ackRetries : Nat, ackCnt : Nat, nbRep : Nat, joinTrials : Nat,
   maxJoin : Nat, upCnt : Nat, dr : Datarates, off : BOOLEAN,
   frame : TxFrames, confirm : McpsConfirms, mlme : MlmeConfirms,
   queue : Queues]

HistTypes ==
  [session : Nat, reqs : Nat,
   kind : McpsKinds \cup {"NONE"},
   aired : SUBSET [session : Nat, fcnt : Nat, req : Nat],
   drs : Seq(Nat), acked : BOOLEAN]

(* The statics of the MAC and the history have their types.                *)
TypeOK == mac \in MacTypes /\ hist \in HistTypes

(* While a transmission procedure runs, the state check timer is armed:    *)
(* every way through OnMacStateCheckTimerEvent that leaves LoRaMacState    *)
(* busy restarts the timer it stopped on entry, nested sends included.     *)
StateChecked == "TX_RUNNING" \in mac.state => "StateCheck" \in mac.timers

(* The MAC is in the delayed state exactly while the delay timer runs, so  *)
(* a frame put off by the duty cycle is neither forgotten nor sent twice.  *)
DelayTimed == "TX_DELAYED" \in mac.state <=> "TxDelayed" \in mac.timers

(* No callback leaves the abort mark of PrepareRxDoneAbort behind: what    *)
(* McpsRequest and MlmeRequest take for a busy MAC is the same.            *)
AbortCleared == "RX_ABORT" \notin mac.state

(* An open data request is being sent or is delayed.  So a new one, which  *)
(* LoRaMacMcpsRequest accepts whenever neither is the case, never replaces *)
(* a request that has not been confirmed.                                  *)
RequestCarried ==
  "McpsReq" \in mac.flags =>
    mac.state \cap {"TX_RUNNING", "TX_DELAYED"} # {}

(* The flag that makes the state check call HandleCb is up exactly while   *)
(* the confirm queue holds a request.                                      *)
ConfirmsPending == "MlmeReq" \in mac.flags <=> mac.queue.cnt > 0

(* An acknowledgement is awaited only for an open confirmed request, the   *)
(* one in the transmit buffer.                                             *)
AckAwaited ==
  mac.nodeAck => /\ "McpsReq" \in mac.flags
                 /\ mac.confirm.type = "CONFIRMED"
                 /\ mac.frame.kind = "CONFIRMED"

(* No callback puts the radio into standby, reception or a new             *)
(* transmission while a frame is on the air.                               *)
NothingCut == ~mac.cut

(* Once a class C device has sent a data frame in its session, whatever it *)
(* hears or fails to hear, and however its requests end, it listens or     *)
(* sends whenever the MAC is idle: every path of the callbacks that puts   *)
(* the radio to sleep opens the continuous window again.  (From a join     *)
(* accept to the first data frame it does not listen.)  One state is       *)
(* excepted, in which the code leaves the device deaf: OnRadioRxDone found *)
(* IsRunning left set in a timer that TimerStop had taken off alone, and   *)
(* the indication that would open the window is still due.                 *)
ListensAtRest ==
  /\ Class = "C" /\ mac.state = {}
  /\ mac.joined /\ \E a \in hist.aired : a.session = hist.session
  /\ ~(mac.ackStale /\ "McpsInd" \in mac.flags)
  => mac.radio # "IDLE"

(* Within a session, frames of different requests carry different frame    *)
(* counters, growing in the order of the requests, and a repetition or     *)
(* retransmission carries the counter of its request.                      *)
CountersFollowRequests ==
  \A a, b \in hist.aired :
    a.session = b.session => (a.req < b.req <=> a.fcnt < b.fcnt)

(* A request is sent at most as often as asked, and the datarate of the    *)
(* n-th transmission of a confirmed one is that of the table above         *)
(* McpsReqConfirmed_t.NbTrials in LoRaMac.h.                               *)
RetryTable ==
  LET base == hist.drs[1]
      n    == Len(hist.drs)
  IN  n > 0 =>
        IF hist.kind = "CONFIRMED"
        THEN /\ n <= NbTrials
             /\ \A i \in 1 .. n :
                  hist.drs[i] = IF base - (i - 1) \div 2 > MinDr
                                THEN base - (i - 1) \div 2 ELSE MinDr
        ELSE n <= NbRep

(* The join service reports success exactly when the device has joined.    *)
JoinReported ==
  [][Waiting(mac.queue, "JOIN") /\ ~Waiting(mac'.queue, "JOIN")
       => (mac'.mlme = [request |-> "JOIN", status |-> "OK"]
             <=> mac'.joined)]_vars

(* A confirmed request is reported as acknowledged exactly when a valid    *)
(* downlink with the ACK bit has arrived since it was made.                *)
AckReported ==
  [][(/\ "McpsReq" \in mac.flags /\ "McpsReq" \notin mac'.flags
      /\ mac.confirm.type = "CONFIRMED")
       => (mac'.confirm.ack <=> hist'.acked)]_vars

(* The device becomes joined only by an answer to a waiting join request.  *)
JoinedOnRequest ==
  [][~mac.joined /\ mac'.joined => Waiting(mac.queue, "JOIN")]_vars

(* The session ends only when the application asks for a new join.         *)
SessionKept ==
  [][mac.joined /\ ~mac'.joined => \E c \in Choices : JoinRequest(c)]_vars

(* Every data request is confirmed in the end (LoRaMac.c:1102, "Procedure  *)
(* is completed when the AckTimeoutTimer is not running anymore").         *)
McpsConfirmed == "McpsReq" \in mac.flags ~> "McpsReq" \notin mac.flags

(* Every management request is confirmed in the end; a link check, once a  *)
(* frame carries it.                                                       *)
MlmeConfirmed ==
  "MlmeReq" \in mac.flags /\ mac.state # {} ~> "MlmeReq" \notin mac.flags
=============================================================================
