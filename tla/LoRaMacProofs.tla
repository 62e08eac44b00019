--------------------------- MODULE LoRaMacProofs ---------------------------
(***************************************************************************)
(* Type correctness of the MAC, and the four invariants that keep its      *)
(* callbacks alive, for every class, region, request and downlink.  The    *)
(* lemmas follow the blocks of LoRaMac.c: each says what a block leaves    *)
(* of the flags, the timers and the confirm queue it found.  Then, for a   *)
(* device of either class whose frames are sent at once: it listens, and   *)
(* its data requests are carried and acknowledged as they should be.       *)
(***************************************************************************)
EXTENDS LoRaMac, ConfirmQueueOpsProofs

(* Every block keeps this, in the middle of a callback too.                *)
Sound(m) ==
  /\ m \in MacTypes
  /\ Contiguous(m.queue)
  /\ ("MlmeReq" \in m.flags) <=> (m.queue.cnt > 0)
  /\ ("TX_DELAYED" \in m.state) <=> ("TxDelayed" \in m.timers)

(* No abort mark is left.                                                  *)
Calm(m) == "RX_ABORT" \notin m.state

(* A running transmission is being watched.                                *)
Watched(m) == ("TX_RUNNING" \in m.state) => ("StateCheck" \in m.timers)

(* What holds between two callbacks.                                       *)
Settled(m) == Sound(m) /\ Calm(m) /\ Watched(m)

(* A block leaves the state, the flags, the timers and the queue alone.    *)
Alike(r, m) ==
  /\ r \in MacTypes
  /\ r.state = m.state
  /\ r.flags = m.flags
  /\ r.timers = m.timers
  /\ r.queue = m.queue

LEMMA AlikeKeeps ==
  ASSUME NEW m, NEW r, Alike(r, m)
  PROVE  /\ Sound(m) => Sound(r)
         /\ Calm(m) <=> Calm(r)
         /\ Watched(m) <=> Watched(r)
BY DEF Alike, Sound, Calm, Watched

-----------------------------------------------------------------------------
(* Flags, timers and the radio.                                            *)

LEMMA RadioToAlike ==
  ASSUME NEW m \in MacTypes, NEW radio \in Radios
  PROVE  Alike(RadioTo(m, radio), m)
BY DEF RadioTo, MacTypes, Alike

LEMMA RaiseSound ==
  ASSUME NEW m, Sound(m), NEW flags \in SUBSET (Flags \ {"MlmeReq"})
  PROVE  /\ Sound(Raise(m, flags))
         /\ Raise(m, flags).state = m.state
         /\ Raise(m, flags).timers = m.timers
         /\ Raise(m, flags).flags = m.flags \cup flags
         /\ Raise(m, flags).queue = m.queue
<1>1. m.flags \cup flags \in SUBSET Flags
  BY DEF Sound, MacTypes
<1>2. /\ Raise(m, flags) \in MacTypes
      /\ Raise(m, flags).state = m.state
      /\ Raise(m, flags).timers = m.timers
      /\ Raise(m, flags).flags = m.flags \cup flags
      /\ Raise(m, flags).queue = m.queue
  BY <1>1 DEF Raise, Sound, MacTypes
<1> QED
  BY <1>2 DEF Sound

LEMMA StopSound ==
  ASSUME NEW m, Sound(m), NEW timers \in SUBSET (Timers \ {"TxDelayed"})
  PROVE  /\ Sound(Stop(m, timers))
         /\ Stop(m, timers).state = m.state
         /\ Stop(m, timers).timers = m.timers \ timers
         /\ Stop(m, timers).flags = m.flags
         /\ Stop(m, timers).queue = m.queue
<1>1. m.timers \ timers \in SUBSET Timers
  BY DEF Sound, MacTypes
<1>2. /\ Stop(m, timers) \in MacTypes
      /\ Stop(m, timers).state = m.state
      /\ Stop(m, timers).timers = m.timers \ timers
      /\ Stop(m, timers).flags = m.flags
      /\ Stop(m, timers).queue = m.queue
  BY <1>1 DEF Stop, Sound, MacTypes
<1> QED
  BY <1>2 DEF Sound

LEMMA StartSound ==
  ASSUME NEW m, Sound(m)
  PROVE  /\ Sound(Start(m, {"StateCheck"}))
         /\ Start(m, {"StateCheck"}).state = m.state
         /\ Watched(Start(m, {"StateCheck"}))
<1> DEFINE r == Start(m, {"StateCheck"})
<1>1. m.timers \cup {"StateCheck"} \in SUBSET Timers
  BY DEF Sound, MacTypes, Timers
<1>2. /\ r \in MacTypes
      /\ r.state = m.state
      /\ r.timers = m.timers \cup {"StateCheck"}
      /\ r.flags = m.flags
      /\ r.queue = m.queue
  BY <1>1 DEF Start, Sound, MacTypes
<1> HIDE DEF r
<1>3. Sound(r) /\ Watched(r)
  BY <1>2 DEF Sound, Watched
<1> QED
  BY <1>2, <1>3 DEF r

LEMMA StopRunningSound ==
  ASSUME NEW m, Sound(m)
  PROVE  /\ Sound(StopRunning(m))
         /\ Calm(m) => Calm(StopRunning(m))
<1>1. /\ StopRunning(m) \in MacTypes
      /\ StopRunning(m).state = m.state \ {"TX_RUNNING"}
      /\ StopRunning(m).timers = m.timers
      /\ StopRunning(m).flags = m.flags
      /\ StopRunning(m).queue = m.queue
  BY DEF StopRunning, Sound, MacTypes
<1> QED
  BY <1>1 DEF Sound, Calm

-----------------------------------------------------------------------------
(* Sending.                                                                *)

LEMMA DatarateIsNat ==
  ASSUME NEW dr \in Datarates
  PROVE  dr \in Nat
BY DatarateAssumption DEF Datarates

LEMMA ResetAlike ==
  ASSUME NEW m \in MacTypes
  PROVE  Alike(ResetMacParameters(m), m)
<1>1. DefaultDr \in Datarates
  BY DatarateAssumption
<1> QED
  BY <1>1 DEF ResetMacParameters, MacTypes, Alike

LEMMA PrepareFrameAlike ==
  ASSUME NEW m \in MacTypes, NEW kind \in McpsKinds \cup {"JOIN"},
         NEW req \in Nat, NEW long \in BOOLEAN
  PROVE  Alike(PrepareFrame(m, kind, req, long), m)
<1> DEFINE frame == IF Buildable(m, kind)
                    THEN [kind |-> kind, fcnt |-> m.upCnt, req |-> req,
                          long |-> long]
                    ELSE NoFrame
           ack == kind = "CONFIRMED"
<1>1. m.upCnt \in Nat
  BY DEF MacTypes
<1>2. frame \in TxFrames /\ ack \in BOOLEAN
  BY <1>1 DEF TxFrames, NoFrame
<1>3. PrepareFrame(m, kind, req, long) =
        [m EXCEPT !.nodeAck = ack, !.frame = frame]
  BY DEF PrepareFrame
<1> HIDE DEF frame, ack
<1> DEFINE r == [m EXCEPT !.nodeAck = ack, !.frame = frame]
<1>4. r \in MacTypes
  BY <1>2 DEF MacTypes
<1>5. /\ r.state = m.state /\ r.flags = m.flags
      /\ r.timers = m.timers /\ r.queue = m.queue
  BY DEF MacTypes
<1> HIDE DEF r
<1> QED
  BY <1>3, <1>4, <1>5 DEF Alike, r

LEMMA SendFrameSound ==
  ASSUME NEW m, Sound(m)
  PROVE  /\ Sound(SendFrameOnChannel(m))
         /\ Calm(m) => Calm(SendFrameOnChannel(m))
         /\ Watched(SendFrameOnChannel(m))
<1> DEFINE s == RadioTo(m, "TX")
           queue == SetStatusCmn(s.queue, "ERROR")
           confirm == [s.confirm EXCEPT !.status = "ERROR", !.dr = m.dr]
           trials == IF m.joined THEN s.joinTrials ELSE s.joinTrials + 1
           r == [s EXCEPT !.queue = queue, !.confirm = confirm,
                          !.timers = @ \cup {"StateCheck"},
                          !.joinTrials = trials,
                          !.state = @ \cup {"TX_RUNNING"}]
<1>1. SendFrameOnChannel(m) = r
  BY DEF SendFrameOnChannel
<1>2. m \in MacTypes /\ Alike(s, m) /\ s \in MacTypes
  BY RadioToAlike DEF Sound, Radios, Alike
<1>3. /\ queue \in Queues
      /\ queue.cnt = s.queue.cnt
      /\ Contiguous(queue)
  <2>1. s.queue \in Queues /\ Contiguous(s.queue)
    BY <1>2 DEF Sound, Alike, MacTypes
  <2>2. "ERROR" \in Statuses
    BY QueueAssumption
  <2> HIDE DEF s
  <2> QED
    BY <2>1, <2>2, SetStatusCmnTypes
<1>4. confirm \in McpsConfirms
  <2>1. m.dr \in Nat /\ s.confirm \in McpsConfirms
    BY <1>2, DatarateIsNat DEF MacTypes
  <2> HIDE DEF s
  <2> QED
    BY <2>1, QueueAssumption DEF McpsConfirms
<1>5. trials \in Nat
  BY <1>2 DEF MacTypes
<1> HIDE DEF s, queue, confirm, trials
<1>6. /\ s.state \cup {"TX_RUNNING"} \in SUBSET States
      /\ s.timers \cup {"StateCheck"} \in SUBSET Timers
  BY <1>2 DEF MacTypes, States, Timers
<1>7. /\ r \in MacTypes
      /\ r.state = s.state \cup {"TX_RUNNING"}
      /\ r.timers = s.timers \cup {"StateCheck"}
      /\ r.flags = s.flags
      /\ r.queue = queue
  BY <1>2, <1>3, <1>4, <1>5, <1>6 DEF MacTypes
<1> HIDE DEF r
<1>8. Sound(r) /\ Watched(r) /\ (Calm(m) => Calm(r))
  BY <1>2, <1>3, <1>7 DEF Sound, Watched, Calm, Alike
<1> QED
  BY <1>1, <1>8

LEMMA ScheduleTxSound ==
  ASSUME NEW m, Sound(m), NEW c \in Choices
  PROVE  /\ Sound(ScheduleTx(m, c))
         /\ Calm(m) => Calm(ScheduleTx(m, c))
         /\ Watched(m) => Watched(ScheduleTx(m, c))
<1> DEFINE r == [m EXCEPT !.state = @ \cup {"TX_DELAYED"},
                          !.timers = @ \cup {"TxDelayed"}]
<1>1. Sound(r) /\ (Calm(m) => Calm(r)) /\ (Watched(m) => Watched(r))
  <2>1. /\ m.state \cup {"TX_DELAYED"} \in SUBSET States
        /\ m.timers \cup {"TxDelayed"} \in SUBSET Timers
    BY DEF Sound, MacTypes, States, Timers
  <2>2. /\ r \in MacTypes
        /\ r.state = m.state \cup {"TX_DELAYED"}
        /\ r.timers = m.timers \cup {"TxDelayed"}
        /\ r.flags = m.flags
        /\ r.queue = m.queue
    BY <2>1 DEF Sound, MacTypes
  <2> HIDE DEF r
  <2> QED
    BY <2>2 DEF Sound, Calm, Watched
<1>2. ScheduleTx(m, c) \in {m, r, SendFrameOnChannel(m)}
  BY DEF ScheduleTx
<1> HIDE DEF r
<1> QED
  BY <1>1, <1>2, SendFrameSound

LEMMA PrepareJoinAlike ==
  ASSUME NEW m \in MacTypes, NEW c \in Choices
  PROVE  Alike(PrepareJoin(m, c), m)
<1> DEFINE reset == ResetMacParameters(m)
           r == [reset EXCEPT !.dr = c.joinDr]
<1>1. Alike(reset, m)
  BY ResetAlike
<1>2. c.joinDr \in Datarates
  BY DatarateAssumption DEF Choices
<1> HIDE DEF reset
<1>3. Alike(r, m)
  BY <1>1, <1>2 DEF Alike, MacTypes
<1>4. PrepareJoin(m, c) = PrepareFrame(r, "JOIN", 0, FALSE)
  BY DEF PrepareJoin, reset
<1> HIDE DEF r
<1>5. Alike(PrepareFrame(r, "JOIN", 0, FALSE), r)
  BY <1>3, PrepareFrameAlike DEF Alike
<1> QED
  BY <1>3, <1>4, <1>5 DEF Alike

(* The delay is over: both its mark and its timer are gone before the      *)
(* frame is scheduled, which may set both again.                           *)
LEMMA OnTxDelayedSound ==
  ASSUME NEW m, Sound(m), NEW c \in Choices
  PROVE  /\ Sound(OnTxDelayed(m, c))
         /\ Calm(m) => Calm(OnTxDelayed(m, c))
         /\ Watched(m) => Watched(OnTxDelayed(m, c))
<1> DEFINE due == [Stop(m, {"TxDelayed"}) EXCEPT !.state = @ \ {"TX_DELAYED"}]
           frame == IF JoinRequested(due) THEN PrepareJoin(due, c) ELSE due
<1>1. Sound(due) /\ (Calm(m) => Calm(due)) /\ (Watched(m) => Watched(due))
  <2>1. /\ m.state \ {"TX_DELAYED"} \in SUBSET States
        /\ m.timers \ {"TxDelayed"} \in SUBSET Timers
    BY DEF Sound, MacTypes
  <2>2. /\ due \in MacTypes
        /\ due.state = m.state \ {"TX_DELAYED"}
        /\ due.timers = m.timers \ {"TxDelayed"}
        /\ due.flags = m.flags
        /\ due.queue = m.queue
    BY <2>1 DEF Sound, MacTypes, Stop
  <2> HIDE DEF due
  <2> QED
    BY <2>2 DEF Sound, Calm, Watched
<1>2. OnTxDelayed(m, c) = ScheduleTx(frame, c)
  BY DEF OnTxDelayed
<1> HIDE DEF due
<1>3. frame = due \/ Alike(frame, due)
  BY <1>1, PrepareJoinAlike DEF Sound
<1> HIDE DEF frame
<1>4. Sound(frame) /\ (Calm(m) => Calm(frame)) /\ (Watched(m) => Watched(frame))
  BY <1>1, <1>3, AlikeKeeps
<1> QED
  BY <1>2, <1>4, ScheduleTxSound

-----------------------------------------------------------------------------
(* Receive windows and the acknowledgement timeout.                        *)

(* A block that changes neither the state nor the length of the queue,     *)
(* stops no delay or state check timer, starts none, and raises flags      *)
(* other than MlmeReq.                                                     *)
Mild(r, m) ==
  /\ r \in MacTypes
  /\ r.state = m.state
  /\ r.queue.cnt = m.queue.cnt
  /\ Contiguous(m.queue) => Contiguous(r.queue)
  /\ r.timers \subseteq m.timers
  /\ m.timers \cap {"StateCheck", "TxDelayed"} \subseteq r.timers
  /\ m.flags \subseteq r.flags
  /\ "MlmeReq" \in r.flags => "MlmeReq" \in m.flags

LEMMA MildKeeps ==
  ASSUME NEW m, NEW r, Mild(r, m)
  PROVE  /\ Sound(m) => Sound(r)
         /\ Calm(m) => Calm(r)
         /\ Watched(m) => Watched(r)
         /\ Settled(m) => Settled(r)
BY DEF Mild, Sound, Calm, Watched, Settled

LEMMA MildTransitive ==
  ASSUME NEW m, NEW r, NEW s, Mild(r, m), Mild(s, r)
  PROVE  Mild(s, m)
BY DEF Mild

LEMMA AlikeMild ==
  ASSUME NEW m, NEW r, Alike(r, m)
  PROVE  Mild(r, m)
BY DEF Alike, Mild

LEMMA RxWindow1Mild ==
  ASSUME NEW m \in MacTypes
  PROVE  Mild(RxWindow1(m), m)
<1> DEFINE ready == IF Class = "C" THEN RadioTo(m, "IDLE") ELSE m
           open == RadioTo(ready, "RX_SINGLE")
           r == [open EXCEPT !.timers = @ \ {"Rx1"}, !.slot = "WIN_1"]
<1>1. Alike(ready, m)
  BY RadioToAlike DEF Radios, Alike
<1> HIDE DEF ready
<1>2. Alike(open, m)
  BY <1>1, RadioToAlike DEF Radios, Alike
<1> HIDE DEF open
<1>3. r \in MacTypes /\ r.timers = open.timers \ {"Rx1"}
      /\ r.state = open.state /\ r.flags = open.flags /\ r.queue = open.queue
  BY <1>2 DEF MacTypes, Alike
<1>4. RxWindow1(m) = r
  BY DEF RxWindow1, open, ready
<1> HIDE DEF r
<1> QED
  BY <1>2, <1>3, <1>4 DEF Mild, Alike

LEMMA RxWindow2Mild ==
  ASSUME NEW m \in MacTypes
  PROVE  Mild(RxWindow2(m), m)
<1> DEFINE s == Stop(m, {"Rx2"})
           radio == IF Class = "C" THEN "RX_CONTINUOUS" ELSE "RX_SINGLE"
           r == [s EXCEPT !.radio = radio, !.slot = "WIN_2"]
<1>1. /\ s \in MacTypes
      /\ s.timers = m.timers \ {"Rx2"}
      /\ s.state = m.state
      /\ s.flags = m.flags
      /\ s.queue = m.queue
  BY DEF Stop, MacTypes
<1>2. radio \in Radios
  BY DEF Radios
<1>3. RxWindow2(m) \in {s, r}
  BY DEF RxWindow2
<1> HIDE DEF s, radio
<1>4. /\ r \in MacTypes
      /\ r.timers = s.timers
      /\ r.state = s.state
      /\ r.flags = s.flags
      /\ r.queue = s.queue
  BY <1>1, <1>2 DEF MacTypes
<1> HIDE DEF r
<1> QED
  BY <1>1, <1>3, <1>4 DEF Mild

LEMMA RestMild ==
  ASSUME NEW m \in MacTypes
  PROVE  Mild(OpenContinuousRx2(m), m) /\ Mild(Rest(m), m)
<1> DEFINE w == RxWindow2(m)
           r == [w EXCEPT !.slot = "CLASS_C"]
<1>1. Mild(w, m)
  BY RxWindow2Mild
<1>2. OpenContinuousRx2(m) = r
  BY DEF OpenContinuousRx2
<1> HIDE DEF w
<1>3. Mild(r, m)
  BY <1>1 DEF Mild, MacTypes
<1>4. Mild(m, m)
  BY DEF Mild
<1> HIDE DEF r
<1> QED
  BY <1>2, <1>3, <1>4 DEF Rest

LEMMA OnAckTimeoutMild ==
  ASSUME NEW m \in MacTypes
  PROVE  Mild(OnAckTimeout(m), m)
<1> DEFINE retry == m.retry \/ m.nodeAck
           over == [m EXCEPT !.retry = retry]
<1>1. retry \in BOOLEAN
  OBVIOUS
<1>2. OnAckTimeout(m) \in {over, Raise(over, {"MacDone"})}
  BY DEF OnAckTimeout
<1> HIDE DEF retry
<1>3. Mild(over, m)
  BY <1>1 DEF MacTypes, Mild
<1> HIDE DEF over
<1>4. Mild(Raise(over, {"MacDone"}), over)
  BY <1>3 DEF Raise, Mild, MacTypes, Flags
<1> QED
  BY <1>2, <1>3, <1>4, MildTransitive

(* What TimerStop leaves of the acknowledgement timer.                     *)
LEMMA StopAckFields ==
  ASSUME NEW m \in MacTypes, NEW c
  PROVE  LET r == StopAck(m, c)
         IN  /\ Mild(r, m)
             /\ r = [m EXCEPT !.timers = m.timers \ {"AckTimeout"},
                              !.ackStale = r.ackStale]
             /\ r.timers = m.timers \ {"AckTimeout"}
             /\ r.ackStale <=> m.ackStale \/ AckAlone(m, c)
             /\ r.state = m.state /\ r.flags = m.flags
             /\ r.queue = m.queue /\ r.radio = m.radio
             /\ r.confirm = m.confirm /\ r.frame = m.frame
             /\ r.nodeAck = m.nodeAck /\ r.joined = m.joined
             /\ r.retry = m.retry
<1> DEFINE timers == m.timers \ {"AckTimeout"}
           stale == m.ackStale \/ AckAlone(m, c)
           r == [m EXCEPT !.timers = timers, !.ackStale = stale]
<1>1. StopAck(m, c) = r
  BY DEF StopAck, Stop, MacTypes
<1>2. timers \in SUBSET Timers /\ stale \in BOOLEAN
  BY DEF MacTypes, AckAlone
<1>3. m.timers \cap {"StateCheck", "TxDelayed"} \subseteq timers
  OBVIOUS
<1>4. timers \subseteq m.timers
  OBVIOUS
<1> HIDE DEF timers, stale
<1>5. /\ r \in MacTypes
      /\ r.timers = timers /\ r.ackStale = stale
      /\ r.state = m.state /\ r.flags = m.flags
      /\ r.queue = m.queue /\ r.radio = m.radio
      /\ r.confirm = m.confirm /\ r.frame = m.frame
      /\ r.nodeAck = m.nodeAck /\ r.joined = m.joined
      /\ r.retry = m.retry
  BY <1>2 DEF MacTypes
<1>6. r = [m EXCEPT !.timers = timers, !.ackStale = r.ackStale]
  BY <1>5
<1> HIDE DEF r
<1>7. Mild(r, m)
  BY <1>3, <1>4, <1>5 DEF Mild
<1> QED
  BY <1>1, <1>5, <1>6, <1>7 DEF timers, stale

-----------------------------------------------------------------------------
(* OnMacStateCheckTimerEvent, block by block.  The timer has been stopped, *)
(* so a running transmission is not watched until the event block.         *)

LEMMA AbortBlockCalm ==
  ASSUME NEW m, Sound(m)
  PROVE  Sound(AbortBlock(m)) /\ Calm(AbortBlock(m))
<1> DEFINE r == [m EXCEPT !.state = @ \ {"RX_ABORT", "TX_RUNNING"}]
<1>1. CASE Calm(m)
  BY <1>1 DEF AbortBlock, Calm
<1>2. CASE ~Calm(m)
  <2>1. AbortBlock(m) = r
    BY <1>2 DEF AbortBlock, Calm
  <2>2. /\ r \in MacTypes
        /\ r.state = m.state \ {"RX_ABORT", "TX_RUNNING"}
        /\ r.flags = m.flags
        /\ r.timers = m.timers
        /\ r.queue = m.queue
    BY DEF Sound, MacTypes
  <2> HIDE DEF r
  <2> QED
    BY <2>1, <2>2 DEF Sound, Calm
<1> QED
  BY <1>1, <1>2

LEMMA TxTimeoutBlockSound ==
  ASSUME NEW m, Sound(m)
  PROVE  /\ Sound(TxTimeoutBlock(m))
         /\ Calm(m) => Calm(TxTimeoutBlock(m))
<1> DEFINE mlme == [m.mlme EXCEPT !.status = m.queue.cmn]
           seen == IF Requested(m)
                   THEN [m EXCEPT !.mlme = mlme]
                   ELSE m
           stopped == StopRunning(seen)
           confirm == [stopped.confirm EXCEPT !.ack = FALSE]
           r == [stopped EXCEPT !.confirm = confirm]
<1>1. mlme \in MlmeConfirms
  BY DEF Sound, MacTypes, MlmeConfirms, Queues
<1>2. Alike(seen, m)
  <2> HIDE DEF mlme
  <2> QED
    BY <1>1 DEF Alike, MacTypes, Sound
<1>3. TxTimeoutBlock(m) \in {seen, r}
  BY DEF TxTimeoutBlock
<1> HIDE DEF seen, mlme
<1>4. Sound(seen) /\ (Calm(m) => Calm(seen))
  BY <1>2, AlikeKeeps
<1>5. Sound(stopped) /\ (Calm(m) => Calm(stopped))
  BY <1>4, StopRunningSound
<1> HIDE DEF stopped
<1>6. confirm \in McpsConfirms
  BY <1>5 DEF Sound, MacTypes, McpsConfirms
<1> HIDE DEF confirm
<1>7. Alike(r, stopped)
  BY <1>5, <1>6 DEF Alike, Sound, MacTypes
<1> HIDE DEF r
<1> QED
  BY <1>3, <1>4, <1>5, <1>7, AlikeKeeps

LEMMA SendAgainSound ==
  ASSUME NEW m, Sound(m), NEW c \in Choices
  PROVE  /\ Sound(SendAgain(m, c))
         /\ Calm(m) => Calm(SendAgain(m, c))
<1> DEFINE r == [m EXCEPT !.flags = @ \ {"MacDone"}]
<1>1. /\ r \in MacTypes
      /\ r.flags = m.flags \ {"MacDone"}
      /\ r.state = m.state
      /\ r.timers = m.timers
      /\ r.queue = m.queue
  BY DEF Sound, MacTypes
<1>2. SendAgain(m, c) = OnTxDelayed(r, c)
  BY DEF SendAgain
<1> HIDE DEF r
<1>3. Sound(r) /\ (Calm(m) => Calm(r))
  BY <1>1 DEF Sound, Calm
<1> QED
  BY <1>2, <1>3, OnTxDelayedSound

(* Counters and marks change, and nothing else.                            *)
LEMMA JoinBlockSound ==
  ASSUME NEW m, Sound(m), NEW c \in Choices
  PROVE  /\ Sound(JoinBlock(m, c))
         /\ Calm(m) => Calm(JoinBlock(m, c))
<1> DEFINE s == StopRunning(m)
           r == [s EXCEPT !.upCnt = 0, !.nbRep = 0]
<1>1. Sound(s) /\ (Calm(m) => Calm(s))
  BY StopRunningSound
<1>2. JoinBlock(m, c) \in {r, s, SendAgain(m, c)}
  BY DEF JoinBlock
<1> HIDE DEF s
<1>3. Alike(r, s)
  BY <1>1 DEF Alike, Sound, MacTypes
<1> HIDE DEF r
<1> QED
  BY <1>1, <1>2, <1>3, AlikeKeeps, SendAgainSound

LEMMA RepetitionBlockSound ==
  ASSUME NEW m, Sound(m), NEW c \in Choices
  PROVE  /\ Sound(RepetitionBlock(m, c))
         /\ Calm(m) => Calm(RepetitionBlock(m, c))
<1> DEFINE s == StopRunning(m)
           upCnt == s.upCnt + 1
           r == [s EXCEPT !.nbRep = 0, !.upCnt = upCnt]
<1>1. Sound(s) /\ (Calm(m) => Calm(s)) /\ upCnt \in Nat
  BY StopRunningSound DEF Sound, MacTypes
<1>2. RepetitionBlock(m, c) \in {r, SendAgain(m, c)}
  BY DEF RepetitionBlock
<1> HIDE DEF s, upCnt
<1>3. Alike(r, s)
  BY <1>1 DEF Alike, Sound, MacTypes
<1> HIDE DEF r
<1> QED
  BY <1>1, <1>2, <1>3, AlikeKeeps, SendAgainSound

LEMMA UnacknowledgedBlockSound ==
  ASSUME NEW m, Sound(m), NEW c \in Choices
  PROVE  /\ Sound(UnacknowledgedBlock(m, c))
         /\ Calm(m) => Calm(UnacknowledgedBlock(m, c))
<1>1. UnacknowledgedBlock(m, c) \in {m, JoinBlock(m, c), RepetitionBlock(m, c)}
  BY DEF UnacknowledgedBlock
<1> QED
  BY <1>1, JoinBlockSound, RepetitionBlockSound

LEMMA ReceivedBlockSound ==
  ASSUME NEW m, Sound(m)
  PROVE  /\ Sound(ReceivedBlock(m))
         /\ Calm(m) => Calm(ReceivedBlock(m))
<1> DEFINE s == StopRunning(m)
           upCnt == s.upCnt + 1
           r == [s EXCEPT !.retry = FALSE, !.nodeAck = FALSE, !.upCnt = upCnt]
<1>1. Sound(s) /\ (Calm(m) => Calm(s)) /\ upCnt \in Nat
  BY StopRunningSound DEF Sound, MacTypes
<1>2. ReceivedBlock(m) \in {r, m}
  BY DEF ReceivedBlock
<1> HIDE DEF s, upCnt
<1>3. Alike(r, s)
  BY <1>1 DEF Alike, Sound, MacTypes
<1> HIDE DEF r
<1> QED
  BY <1>1, <1>2, <1>3, AlikeKeeps

LEMMA GiveUpSound ==
  ASSUME NEW m, Sound(m)
  PROVE  /\ Sound(GiveUp(m))
         /\ Calm(m) => Calm(GiveUp(m))
<1> DEFINE s == StopRunning(m)
           confirm == [s.confirm EXCEPT !.ack = FALSE]
           upCnt == s.upCnt + 1
           r == [s EXCEPT !.nodeAck = FALSE, !.confirm = confirm,
                          !.upCnt = upCnt]
<1>1. Sound(s) /\ (Calm(m) => Calm(s)) /\ upCnt \in Nat
  BY StopRunningSound DEF Sound, MacTypes
<1>2. GiveUp(m) = r
  BY DEF GiveUp
<1> HIDE DEF s
<1>3. confirm \in McpsConfirms
  BY <1>1 DEF Sound, MacTypes, McpsConfirms
<1> HIDE DEF confirm, upCnt
<1>4. Alike(r, s)
  BY <1>1, <1>3 DEF Alike, Sound, MacTypes
<1> HIDE DEF r
<1> QED
  BY <1>1, <1>2, <1>4, AlikeKeeps

(* The lowest datarate is a floor.                                         *)
LEMMA NextLowerDrInRange ==
  ASSUME NEW dr \in Datarates
  PROVE  NextLowerDr(dr) \in Datarates
BY DatarateAssumption DEF NextLowerDr, Datarates

LEMMA NextTryAlike ==
  ASSUME NEW m \in MacTypes
  PROVE  Alike(NextTry(m), m)
<1> DEFINE cnt == m.ackCnt + 1
           dr == IF cnt % 2 = 1 THEN NextLowerDr(m.dr) ELSE m.dr
<1>1. NextTry(m) = [m EXCEPT !.retry = FALSE, !.ackCnt = cnt, !.dr = dr]
  BY DEF NextTry
<1>2. cnt \in Nat /\ m.dr \in Datarates
  BY DEF MacTypes
<1> HIDE DEF cnt
<1>3. dr \in Datarates
  BY <1>2, NextLowerDrInRange
<1> HIDE DEF dr
<1> DEFINE due == [m EXCEPT !.retry = FALSE, !.ackCnt = cnt]
<1>4. NextTry(m) \in MacTypes
  <2>1. due \in MacTypes
    BY <1>2 DEF MacTypes
  <2>2. NextTry(m) = [due EXCEPT !.dr = dr]
    BY <1>1
  <2> HIDE DEF due
  <2> QED
    BY <1>3, <2>1, <2>2 DEF MacTypes
<1>5. /\ NextTry(m).state = m.state /\ NextTry(m).flags = m.flags
      /\ NextTry(m).timers = m.timers /\ NextTry(m).queue = m.queue
  BY <1>1 DEF MacTypes
<1> QED
  BY <1>4, <1>5 DEF Alike

LEMMA GiveUpTooLongSound ==
  ASSUME NEW m, Sound(m)
  PROVE  /\ Sound(GiveUpTooLong(m))
         /\ Calm(m) => Calm(GiveUpTooLong(m))
<1> DEFINE s == GiveUp(m)
           confirm == [s.confirm EXCEPT !.status = "DR_SIZE", !.dr = m.dr]
           r == [s EXCEPT !.confirm = confirm]
<1>1. Sound(s) /\ (Calm(m) => Calm(s)) /\ m.dr \in Nat
  BY GiveUpSound, DatarateIsNat DEF Sound, MacTypes
<1>2. GiveUpTooLong(m) = r
  BY DEF GiveUpTooLong
<1> HIDE DEF s
<1>3. s.confirm \in McpsConfirms
  BY <1>1 DEF Sound, MacTypes
<1>4. confirm \in McpsConfirms
  BY <1>1, <1>3, QueueAssumption DEF McpsConfirms
<1> HIDE DEF confirm
<1>5. Alike(r, s)
  BY <1>1, <1>4 DEF Alike, Sound, MacTypes
<1> HIDE DEF r
<1> QED
  BY <1>1, <1>2, <1>5, AlikeKeeps

LEMMA RetryBlockSound ==
  ASSUME NEW m, Sound(m), NEW c \in Choices
  PROVE  /\ Sound(RetryBlock(m, c))
         /\ Calm(m) => Calm(RetryBlock(m, c))
<1> DEFINE due   == [m EXCEPT !.retry = FALSE]
           next  == NextTry(m)
           sent  == ScheduleTx(next, c)
           again == [sent EXCEPT !.flags = @ \ {"MacDone"}]
<1>1. RetryBlock(m, c) \in {m, GiveUp(due), again, GiveUpTooLong(next)}
  BY DEF RetryBlock
<1>2. Alike(due, m)
  BY DEF Alike, Sound, MacTypes
<1>3. Alike(next, m)
  BY NextTryAlike DEF Sound
<1> HIDE DEF due, next
<1>4. /\ Sound(due) /\ (Calm(m) => Calm(due))
      /\ Sound(next) /\ (Calm(m) => Calm(next))
  BY <1>2, <1>3, AlikeKeeps
<1>5. Sound(sent) /\ (Calm(m) => Calm(sent))
  BY <1>4, ScheduleTxSound
<1> HIDE DEF sent
<1>6. Sound(again) /\ (Calm(sent) => Calm(again))
  <2>1. /\ again \in MacTypes
        /\ again.flags = sent.flags \ {"MacDone"}
        /\ again.state = sent.state
        /\ again.timers = sent.timers
        /\ again.queue = sent.queue
    BY <1>5 DEF Sound, MacTypes
  <2> HIDE DEF again
  <2> QED
    BY <1>5, <2>1 DEF Sound, Calm
<1> HIDE DEF again
<1> QED
  BY <1>1, <1>4, <1>5, <1>6, GiveUpSound, GiveUpTooLongSound

LEMMA ConfirmMcpsSound ==
  ASSUME NEW m, Sound(m)
  PROVE  /\ Sound(ConfirmMcps(m))
         /\ ConfirmMcps(m).state = m.state
<1> DEFINE r == ConfirmMcps(m)
<1>1. /\ r \in MacTypes
      /\ r.flags = m.flags \ {"McpsReq", "MacDone"}
      /\ r.state = m.state
      /\ r.timers = m.timers
      /\ r.queue = m.queue
  BY DEF Sound, MacTypes, ConfirmMcps
<1> HIDE DEF r
<1>2. Sound(r)
  BY <1>1 DEF Sound
<1> QED
  BY <1>1, <1>2 DEF r

(* The flag comes down exactly when HandleCb has emptied the queue.        *)
LEMMA ConfirmMlmeSound ==
  ASSUME NEW m, Sound(m)
  PROVE  /\ Sound(ConfirmMlme(m))
         /\ ConfirmMlme(m).state = m.state
<1> DEFINE done == HandleCb(m.queue, m.mlme)
           flags == IF done.queue.cnt > 0 THEN m.flags ELSE m.flags \ {"MlmeReq"}
           r == [m EXCEPT !.queue = done.queue, !.mlme = done.conf,
                          !.flags = flags]
<1>1. CASE "MlmeReq" \notin m.flags
  BY <1>1 DEF ConfirmMlme
<1>2. CASE "MlmeReq" \in m.flags
  <2>1. ConfirmMlme(m) = r
    BY <1>2 DEF ConfirmMlme
  <2>2. m.queue \in Queues /\ Contiguous(m.queue) /\ m.mlme \in Confs
    BY DEF Sound, MacTypes, Confs, MlmeConfirms
  <2>3. done \in Passes
    BY <2>2, HandleCbTypes
  <2> HIDE DEF done
  <2>4. /\ done.queue \in Queues
        /\ Contiguous(done.queue)
        /\ done.conf \in MlmeConfirms
    BY <2>3 DEF Passes, Confs, MlmeConfirms
  <2>5. flags \in SUBSET Flags /\ ("MlmeReq" \in flags <=> done.queue.cnt > 0)
    BY <1>2 DEF Sound, MacTypes
  <2> HIDE DEF flags
  <2>6. /\ r \in MacTypes
        /\ r.flags = flags
        /\ r.state = m.state
        /\ r.timers = m.timers
        /\ r.queue = done.queue
    BY <2>4, <2>5 DEF Sound, MacTypes
  <2> HIDE DEF r
  <2>7. Sound(r)
    BY <2>4, <2>5, <2>6 DEF Sound
  <2> QED
    BY <2>1, <2>6, <2>7
<1> QED
  BY <1>1, <1>2

LEMMA EventBlockSettled ==
  ASSUME NEW m, Sound(m), Calm(m)
  PROVE  Settled(EventBlock(m))
<1>1. CASE m.state # {}
  <2>1. EventBlock(m) = Start(m, {"StateCheck"})
    BY <1>1 DEF EventBlock
  <2> QED
    BY <2>1, StartSound DEF Settled, Calm
<1>2. CASE m.state = {}
  <2> DEFINE r == ConfirmMcps(m)
             s == ConfirmMlme(r)
  <2>1. EventBlock(m) = s
    BY <1>2 DEF EventBlock
  <2>2. Sound(r) /\ r.state = {}
    BY <1>2, ConfirmMcpsSound
  <2> HIDE DEF r
  <2>3. Sound(s) /\ s.state = {}
    BY <2>2, ConfirmMlmeSound
  <2> HIDE DEF s
  <2> QED
    BY <2>1, <2>3 DEF Settled, Calm, Watched
<1> QED
  BY <1>1, <1>2

LEMMA IndicationBlockSettled ==
  ASSUME NEW m, Settled(m)
  PROVE  Settled(IndicationBlock(m))
<1> DEFINE r == [m EXCEPT !.flags = @ \ {"McpsInd", "McpsIndSkip"}]
<1>1. IndicationBlock(m) \in {m, Rest(r)}
  BY DEF IndicationBlock
<1>2. /\ r \in MacTypes
      /\ r.flags = m.flags \ {"McpsInd", "McpsIndSkip"}
      /\ r.state = m.state
      /\ r.timers = m.timers
      /\ r.queue = m.queue
  BY DEF Settled, Sound, MacTypes
<1> HIDE DEF r
<1>3. Settled(r)
  BY <1>2 DEF Settled, Sound, Calm, Watched
<1>4. Mild(Rest(r), r)
  BY <1>2, RestMild
<1>5. Settled(Rest(r))
  BY <1>3, <1>4, MildKeeps DEF Settled
<1> QED
  BY <1>1, <1>5

LEMMA DoneBlockSound ==
  ASSUME NEW m, Sound(m), NEW c \in Choices
  PROVE  Sound(DoneBlock(m, c)) /\ Calm(DoneBlock(m, c))
<1> DEFINE m1 == AbortBlock(m)
           m2 == TxTimeoutBlock(m1)
           m3 == UnacknowledgedBlock(m2, c)
           m4 == ReceivedBlock(m3)
<1>1. Sound(m1) /\ Calm(m1)
  BY AbortBlockCalm
<1> HIDE DEF m1
<1>2. Sound(m2) /\ Calm(m2)
  BY <1>1, TxTimeoutBlockSound
<1> HIDE DEF m2
<1>3. Sound(m3) /\ Calm(m3)
  BY <1>2, UnacknowledgedBlockSound
<1> HIDE DEF m3
<1>4. Sound(m4) /\ Calm(m4)
  BY <1>3, ReceivedBlockSound
<1> HIDE DEF m4
<1>5. Sound(RetryBlock(m4, c)) /\ Calm(RetryBlock(m4, c))
  BY <1>4, RetryBlockSound
<1> QED
  BY <1>5 DEF DoneBlock, m1, m2, m3, m4

(* The whole callback: an abort mark is gone if MacDone came with it.      *)
LEMMA OnMacStateCheckSettled ==
  ASSUME NEW m, Sound(m), Calm(m) \/ "MacDone" \in m.flags, NEW c \in Choices
  PROVE  Settled(OnMacStateCheck(m, c))
<1> DEFINE stopped == Stop(m, {"StateCheck"})
           done == IF "MacDone" \in m.flags
                   THEN DoneBlock(stopped, c) ELSE stopped
<1>1. Sound(stopped) /\ (Calm(m) => Calm(stopped))
  BY StopSound DEF Timers, Calm
<1> HIDE DEF stopped
<1>2. Sound(done) /\ Calm(done)
  BY <1>1, DoneBlockSound
<1>3. OnMacStateCheck(m, c) = IndicationBlock(EventBlock(done))
  BY DEF OnMacStateCheck, stopped
<1> HIDE DEF done
<1>4. Settled(EventBlock(done))
  BY <1>2, EventBlockSettled
<1> QED
  BY <1>3, <1>4, IndicationBlockSettled

-----------------------------------------------------------------------------
(* OnRadioRxDone, block by block.                                          *)

(* PrepareRxDoneAbort marks the state and runs the check that clears it.   *)
LEMMA RxDoneAbortSettled ==
  ASSUME NEW m, Sound(m), NEW c \in Choices
  PROVE  Settled(RxDoneAbort(m, c))
<1> DEFINE aborted == [m EXCEPT !.state = @ \cup {"RX_ABORT"}]
           stopped == StopAck(aborted, c)
           retried == IF m.nodeAck THEN OnAckTimeout(stopped) ELSE aborted
           raised  == Raise(retried, {"McpsInd", "MacDone"})
<1>1. Sound(aborted)
  <2>1. /\ aborted \in MacTypes
        /\ aborted.state = m.state \cup {"RX_ABORT"}
        /\ aborted.flags = m.flags
        /\ aborted.timers = m.timers
        /\ aborted.queue = m.queue
    BY DEF Sound, MacTypes, States
  <2> HIDE DEF aborted
  <2> QED
    BY <2>1 DEF Sound
<1>2. RxDoneAbort(m, c) = OnMacStateCheck(raised, c)
  BY DEF RxDoneAbort
<1> HIDE DEF aborted
<1>3. Sound(stopped)
  BY <1>1, StopAckFields, MildKeeps DEF Sound
<1> HIDE DEF stopped
<1>4. Sound(retried)
  BY <1>1, <1>3, OnAckTimeoutMild, MildKeeps DEF Sound
<1> HIDE DEF retried
<1>5. Sound(raised) /\ "MacDone" \in raised.flags
  BY <1>4, RaiseSound DEF Flags
<1> HIDE DEF raised
<1> QED
  BY <1>2, <1>5, OnMacStateCheckSettled

LEMMA RxEndSettled ==
  ASSUME NEW m, Settled(m), NEW c \in Choices
  PROVE  Settled(RxEnd(m, c))
<1> DEFINE stopped == StopAck(m, c)
<1>1. Settled(stopped)
  BY StopAckFields, MildKeeps DEF Settled, Sound
<1>2. \E kept \in {m, stopped} :
         RxEnd(m, c) \in {kept, OnMacStateCheck(Raise(kept, {"MacDone"}), c)}
  BY DEF RxEnd, CheckToDisableAckTimeout
<1> HIDE DEF stopped
<1>3. ASSUME NEW kept, Settled(kept)
      PROVE  Settled(OnMacStateCheck(Raise(kept, {"MacDone"}), c))
  <2> DEFINE r == Raise(kept, {"MacDone"})
  <2>1. Sound(r) /\ "MacDone" \in r.flags
    BY <1>3, RaiseSound DEF Settled, Flags
  <2> HIDE DEF r
  <2>2. Settled(OnMacStateCheck(r, c))
    BY <2>1, OnMacStateCheckSettled
  <2> QED
    BY <2>2 DEF r
<1> QED
  BY <1>1, <1>2, <1>3

(* The statuses of the queue change, and its elements stay.                *)
LEMMA SetStatusMild ==
  ASSUME NEW m \in MacTypes, NEW req, NEW status \in Statuses
  PROVE  /\ Mild([m EXCEPT !.queue = SetStatus(@, req, status)], m)
         /\ Mild([m EXCEPT !.queue = SetStatusCmn(@, status)], m)
<1>1. m.queue \in Queues
  BY DEF MacTypes
<1>2. ASSUME NEW q \in Queues, q.cnt = m.queue.cnt,
             Contiguous(m.queue) => Contiguous(q)
      PROVE  Mild([m EXCEPT !.queue = q], m)
  BY <1>2 DEF Mild, MacTypes
<1> QED
  BY <1>1, <1>2, SetStatusTypes, SetStatusCmnTypes

LEMMA RxJoinAcceptMild ==
  ASSUME NEW m \in MacTypes, NEW f \in Frames
  PROVE  Mild(RxJoinAccept(m, f), m)
<1> DEFINE ok == [m EXCEPT !.queue = SetStatus(@, "JOIN", "OK")]
           joined == [m EXCEPT !.queue = SetStatus(@, "JOIN", "OK"),
                               !.joined = TRUE]
           failed == [m EXCEPT !.queue = SetStatus(@, "JOIN", "JOIN_FAIL")]
<1>1. Mild(ok, m) /\ Mild(failed, m) /\ Mild(m, m)
  <2>1. Mild(ok, m) /\ Mild(failed, m)
    BY SetStatusMild, QueueAssumption
  <2>2. Mild(m, m)
    BY DEF Mild
  <2> QED
    BY <2>1, <2>2
<1>2. RxJoinAccept(m, f) \in {m, joined, failed}
  BY DEF RxJoinAccept
<1>3. joined = [ok EXCEPT !.joined = TRUE]
  BY DEF MacTypes
<1> HIDE DEF ok, failed, joined
<1>4. Mild(joined, ok)
  BY <1>1, <1>3 DEF Mild, MacTypes
<1> QED
  BY <1>1, <1>2, <1>4, MildTransitive

LEMMA ProcessMacCommandsMild ==
  ASSUME NEW m \in MacTypes, NEW cmd
  PROVE  Mild(ProcessMacCommands(m, cmd), m)
<1> DEFINE queue == IF IsCmdActive(m.queue, "LINK_CHECK")
                    THEN SetStatus(m.queue, "LINK_CHECK", "OK") ELSE m.queue
           answered == [m EXCEPT !.queue = queue]
           off == [m EXCEPT !.off = TRUE]
           lowest == [m EXCEPT !.dr = MinDr]
<1>1. ProcessMacCommands(m, cmd) \in {answered, off, lowest, m}
  <2>1. CASE cmd = "LINK_CHECK_ANS"
    BY <2>1 DEF ProcessMacCommands
  <2>2. CASE cmd = "DUTY_CYCLE_OFF"
    BY <2>2 DEF ProcessMacCommands
  <2>3. CASE cmd = "ADR_LOWEST"
    BY <2>3 DEF ProcessMacCommands
  <2>4. CASE cmd \notin {"LINK_CHECK_ANS", "DUTY_CYCLE_OFF", "ADR_LOWEST"}
    BY <2>4 DEF ProcessMacCommands
  <2> QED
    BY <2>1, <2>2, <2>3, <2>4
<1>2. Mild(answered, m)
  <2>1. /\ queue \in Queues /\ queue.cnt = m.queue.cnt
        /\ Contiguous(m.queue) => Contiguous(queue)
    <3>1. m.queue \in Queues /\ "OK" \in Statuses
      BY QueueAssumption DEF MacTypes
    <3> QED
      BY <3>1, SetStatusTypes
  <2> HIDE DEF queue
  <2> QED
    BY <2>1 DEF Mild, MacTypes
<1>3. Mild(off, m) /\ Mild(m, m)
  BY DEF Mild, MacTypes
<1>4. Mild(lowest, m)
  <2>1. MinDr \in Datarates
    BY DatarateAssumption DEF Datarates
  <2> QED
    BY <2>1 DEF Mild, MacTypes
<1> HIDE DEF answered, off, lowest
<1> QED
  BY <1>1, <1>2, <1>3, <1>4

LEMMA TakenMild ==
  ASSUME NEW m \in MacTypes, NEW f \in Frames
  PROVE  Mild(Taken(m, f), m)
<1> DEFINE ack == m.confirm.type = "CONFIRMED" /\ f.ack /\ ~f.bad
           confirm == [m.confirm EXCEPT !.status = "OK", !.ack = ack]
           skip == IF f.skip \/ f.bad THEN {"McpsIndSkip"} ELSE {}
           flags == m.flags \cup {"McpsInd"} \cup skip
           taken == [m EXCEPT !.confirm = confirm, !.flags = flags]
<1>1. Taken(m, f) = taken
  BY DEF Taken
<1>2. ack \in BOOLEAN /\ m.confirm \in McpsConfirms /\ "OK" \in Statuses
  BY QueueAssumption DEF Frames, MacTypes
<1> HIDE DEF ack
<1>3. confirm \in McpsConfirms
  BY <1>2 DEF McpsConfirms
<1>4. /\ flags \in SUBSET Flags
      /\ m.flags \subseteq flags
      /\ "MlmeReq" \in flags => "MlmeReq" \in m.flags
  BY DEF MacTypes, Flags
<1> HIDE DEF confirm, flags
<1>5. taken \in MacTypes
  BY <1>3, <1>4 DEF MacTypes
<1>6. /\ taken.state = m.state /\ taken.queue = m.queue
      /\ taken.timers = m.timers /\ taken.flags = flags
  BY DEF MacTypes
<1> HIDE DEF taken
<1> QED
  BY <1>1, <1>4, <1>5, <1>6 DEF Mild

LEMMA RxDataMild ==
  ASSUME NEW m \in MacTypes, NEW f \in Frames
  PROVE  Mild(RxData(m, f), m)
<1> DEFINE taken == Taken(m, f)
<1>1. RxData(m, f) \in {taken, ProcessMacCommands(taken, f.cmd)}
  BY DEF RxData
<1>2. Mild(taken, m)
  BY TakenMild
<1> HIDE DEF taken
<1>3. Mild(ProcessMacCommands(taken, f.cmd), taken)
  BY <1>2, ProcessMacCommandsMild DEF Mild
<1> QED
  BY <1>1, <1>2, <1>3, MildTransitive

LEMMA OnRadioRxDoneSettled ==
  ASSUME NEW m, Settled(m), NEW f \in Frames, NEW c \in Choices
  PROVE  Settled(OnRadioRxDone(m, f, c))
<1> DEFINE s == Stop(m, {"Rx2"})
           confirm == [s.confirm EXCEPT !.ack = FALSE]
           heard == Heard(m)
           repeated == [heard.confirm EXCEPT !.status = "OK"]
           old == [heard EXCEPT !.confirm = repeated]
<1>1. OnRadioRxDone(m, f, c) \in
        {RxDoneAbort(heard, c), RxEnd(RxJoinAccept(heard, f), c),
         RxEnd(RxData(heard, f), c), RxDoneAbort(old, c),
         RxEnd(Raise(heard, {"McpsInd"}), c), RxEnd(RxDoneAbort(heard, c), c)}
  <2> HIDE DEF heard
  <2>1. f.kind \in {"JOIN_ACCEPT", "BAD_JOIN_ACCEPT", "DATA", "REPEATED",
                    "ALIEN", "PROPRIETARY", "UNKNOWN"}
    BY DEF Frames
  <2>2. CASE f.kind \in {"JOIN_ACCEPT", "BAD_JOIN_ACCEPT"}
    BY <2>2 DEF OnRadioRxDone, heard
  <2>3. CASE f.kind = "DATA"
    BY <2>3 DEF OnRadioRxDone, heard
  <2>4. CASE f.kind = "REPEATED"
    BY <2>4 DEF OnRadioRxDone, heard
  <2>5. CASE f.kind = "ALIEN"
    BY <2>5 DEF OnRadioRxDone, heard
  <2>6. CASE f.kind = "PROPRIETARY"
    BY <2>6 DEF OnRadioRxDone, heard
  <2>7. CASE f.kind = "UNKNOWN"
    BY <2>7 DEF OnRadioRxDone, heard
  <2> QED
    BY <2>1, <2>2, <2>3, <2>4, <2>5, <2>6, <2>7
<1>2. Settled(s)
  BY StopSound DEF Settled, Timers, Calm, Watched
<1> HIDE DEF s
<1>3. confirm \in McpsConfirms
  BY <1>2 DEF Settled, Sound, MacTypes, McpsConfirms
<1> HIDE DEF confirm
<1>4. Alike(heard, s)
  <2>1. heard = [s EXCEPT !.radio = "IDLE", !.confirm = confirm]
    BY DEF Heard, s, confirm
  <2> HIDE DEF heard
  <2> QED
    BY <1>2, <1>3, <2>1 DEF Alike, Settled, Sound, MacTypes, Radios
<1> HIDE DEF heard
<1>5. Settled(heard) /\ heard \in MacTypes
  BY <1>2, <1>4, AlikeKeeps DEF Settled, Alike
<1>6. repeated \in McpsConfirms
  BY <1>5, QueueAssumption DEF MacTypes, McpsConfirms
<1> HIDE DEF repeated
<1>7. Alike(old, heard)
  BY <1>5, <1>6 DEF Alike, MacTypes
<1> HIDE DEF old
<1>8. Sound(heard) /\ Sound(old)
  BY <1>5, <1>7, AlikeKeeps DEF Settled
<1>9. Settled(RxDoneAbort(heard, c)) /\ Settled(RxDoneAbort(old, c))
  BY <1>8, RxDoneAbortSettled
<1>10. Settled(RxEnd(RxDoneAbort(heard, c), c))
  BY <1>9, RxEndSettled
<1>11. Settled(RxEnd(RxJoinAccept(heard, f), c))
  BY <1>5, RxJoinAcceptMild, MildKeeps, RxEndSettled
<1>12. Settled(RxEnd(RxData(heard, f), c))
  BY <1>5, RxDataMild, MildKeeps, RxEndSettled
<1>13. Settled(RxEnd(Raise(heard, {"McpsInd"}), c))
  <2>1. Settled(Raise(heard, {"McpsInd"}))
    BY <1>5, RaiseSound DEF Settled, Flags, Calm, Watched
  <2> QED
    BY <2>1, RxEndSettled
<1> QED
  BY <1>1, <1>9, <1>10, <1>11, <1>12, <1>13

-----------------------------------------------------------------------------
(* Requests of the application.                                            *)

(* The entry and the flag arrive together.                                 *)
LEMMA EnqueueSettled ==
  ASSUME NEW m, Settled(m), ~IsFull(m.queue), NEW service \in Requests,
         NEW status \in Statuses
  PROVE  Settled(Enqueue(m, service, status))
<1> DEFINE queue == Add(m.queue, service, status, FALSE)
           s == Raise(m, {"MlmeReq"})
           r == [s EXCEPT !.queue = queue]
<1>1. m.queue \in Queues /\ Contiguous(m.queue) /\ m.queue.cnt \in Nat
  BY QueueLenAssumption DEF Settled, Sound, MacTypes, Queues
<1>2. queue \in Queues /\ Contiguous(queue) /\ queue.cnt = m.queue.cnt + 1
  <2>1. m.queue.cnt # QueueLen
    BY <1>1, QueueLenAssumption DEF IsFull
  <2> QED
    BY <1>1, <2>1, AddTypes
<1>3. /\ s \in MacTypes
      /\ s.flags = m.flags \cup {"MlmeReq"}
      /\ s.state = m.state
      /\ s.timers = m.timers
      /\ s.queue = m.queue
  BY DEF Settled, Sound, Raise, MacTypes, Flags
<1>4. Enqueue(m, service, status) = r
  <2> DEFINE t == Add(s.queue, service, status, FALSE)
  <2>1. Enqueue(m, service, status) = [s EXCEPT !.queue = t]
    BY DEF Enqueue
  <2>2. t = queue
    BY <1>3
  <2> QED
    BY <2>1, <2>2
<1> HIDE DEF queue, s
<1>5. /\ r \in MacTypes
      /\ r.flags = s.flags
      /\ r.state = s.state
      /\ r.timers = s.timers
      /\ r.queue = queue
  BY <1>2, <1>3 DEF MacTypes
<1> HIDE DEF r
<1>6. Settled(r)
  BY <1>1, <1>2, <1>3, <1>5 DEF Settled, Sound, Calm, Watched
<1> QED
  BY <1>4, <1>6

LEMMA JoinRequestSettled ==
  ASSUME Settled(mac), NEW c \in Choices, JoinRequest(c)
  PROVE  Settled(mac')
<1> DEFINE q == Enqueue(mac, "JOIN", "JOIN_FAIL")
           confirm == [q.confirm EXCEPT !.ack = FALSE]
           r == [q EXCEPT !.joinTrials = 0, !.maxJoin = MaxJoinTrials,
                          !.confirm = confirm]
           p == PrepareJoin(r, c)
<1>1. mac' = ScheduleTx(p, c) /\ ~IsFull(mac.queue)
  BY DEF JoinRequest, MlmeAllowed
<1>2. Settled(q)
  BY <1>1, EnqueueSettled, QueueAssumption
<1> HIDE DEF q
<1>3. confirm \in McpsConfirms
  BY <1>2 DEF Settled, Sound, MacTypes, McpsConfirms
<1>4. MaxJoinTrials \in Nat
  BY CountAssumption
<1> HIDE DEF confirm
<1>5. Alike(r, q)
  BY <1>2, <1>3, <1>4 DEF Alike, Settled, Sound, MacTypes
<1> HIDE DEF r
<1>6. Alike(p, r)
  BY <1>5, PrepareJoinAlike DEF Alike
<1> HIDE DEF p
<1>7. Sound(p) /\ Calm(p) /\ Watched(p)
  BY <1>2, <1>5, <1>6, AlikeKeeps DEF Settled
<1> QED
  BY <1>1, <1>7, ScheduleTxSound DEF Settled

(* Without room for the command the entry just added is taken back, and    *)
(* the flag with it if the queue is empty again.                           *)
LEMMA LinkCheckRequestSettled ==
  ASSUME Settled(mac), NEW room \in BOOLEAN, LinkCheckRequest(room)
  PROVE  Settled(mac')
<1> DEFINE asked == Enqueue(mac, "LINK_CHECK", "ERROR")
           back == RemoveLast(asked.queue)
           flags == IF back.cnt = 0 THEN asked.flags \ {"MlmeReq"}
                    ELSE asked.flags
           r == [asked EXCEPT !.nodeAck = FALSE, !.queue = back,
                              !.flags = flags]
<1>1. mac' \in {asked, r} /\ ~IsFull(mac.queue)
  BY DEF LinkCheckRequest, MlmeAllowed
<1>2. Settled(asked)
  BY <1>1, EnqueueSettled, QueueAssumption
<1> HIDE DEF asked
<1>3. back \in Queues /\ Contiguous(back) /\ back.cnt \in Nat
  <2>1. asked.queue \in Queues /\ Contiguous(asked.queue)
    BY <1>2 DEF Settled, Sound, MacTypes
  <2>2. back \in Queues /\ Contiguous(back)
    BY <2>1, RemoveLastTypes
  <2> QED
    BY <2>2, QueueLenAssumption DEF Queues
<1>4. back.cnt > 0 => "MlmeReq" \in asked.flags
  <2>1. /\ asked.queue \in Queues
        /\ asked.queue.cnt \in Nat
        /\ "MlmeReq" \in asked.flags <=> asked.queue.cnt > 0
    BY <1>2, QueueLenAssumption DEF Settled, Sound, MacTypes, Queues
  <2>2. back.cnt = IF asked.queue.cnt = 0 THEN 0 ELSE asked.queue.cnt - 1
    BY <2>1, RemoveLastTypes
  <2> QED
    BY <2>1, <2>2
<1> HIDE DEF back
<1>5. flags \in SUBSET Flags /\ ("MlmeReq" \in flags <=> back.cnt > 0)
  BY <1>2, <1>3, <1>4 DEF Settled, Sound, MacTypes
<1> HIDE DEF flags
<1>6. /\ r \in MacTypes
      /\ r.flags = flags
      /\ r.queue = back
      /\ r.state = asked.state
      /\ r.timers = asked.timers
  BY <1>2, <1>3, <1>5 DEF Settled, Sound, MacTypes
<1> HIDE DEF r
<1>7. Settled(r)
  BY <1>2, <1>3, <1>5, <1>6 DEF Settled, Sound, Calm, Watched
<1> QED
  BY <1>1, <1>2, <1>7

LEMMA ContinuousWaveRequestSettled ==
  ASSUME Settled(mac), ContinuousWaveRequest
  PROVE  Settled(mac')
<1> DEFINE q == Enqueue(mac, "TXCW", "ERROR")
           w == RadioTo(q, "CW")
           s == Start(w, {"StateCheck"})
           r == [s EXCEPT !.state = @ \cup {"TX_RUNNING"}]
<1>1. mac' = r /\ ~IsFull(mac.queue)
  BY DEF ContinuousWaveRequest, MlmeAllowed
<1>2. Settled(q)
  BY <1>1, EnqueueSettled, QueueAssumption
<1> HIDE DEF q
<1>3. Alike(w, q)
  BY <1>2, RadioToAlike DEF Settled, Sound, Radios
<1> HIDE DEF w
<1>4. Sound(w) /\ Calm(w)
  BY <1>2, <1>3, AlikeKeeps DEF Settled
<1>5. s \in MacTypes /\ Sound(s) /\ Calm(s) /\ "StateCheck" \in s.timers
  BY <1>4, StartSound DEF Sound, Calm, Start, MacTypes
<1> HIDE DEF s
<1>6. /\ r \in MacTypes
      /\ r.state = s.state \cup {"TX_RUNNING"}
      /\ r.timers = s.timers
      /\ r.flags = s.flags
      /\ r.queue = s.queue
  BY <1>5 DEF MacTypes, States
<1> HIDE DEF r
<1>7. Settled(r)
  BY <1>5, <1>6 DEF Settled, Sound, Calm, Watched
<1> QED
  BY <1>1, <1>7

LEMMA McpsRequestSettled ==
  ASSUME Settled(mac), hist \in HistTypes, NEW type \in McpsTypes,
         NEW long \in BOOLEAN, NEW c \in Choices, McpsRequest(type, long, c)
  PROVE  Settled(mac') /\ hist' \in HistTypes
<1> DEFINE confirm == [type |-> "UNCONFIRMED", status |-> "ERROR",
                       ack |-> FALSE, dr |-> 0]
           retries == IF type = "CONFIRMED" THEN NbTrials ELSE 1
           dr == IF AdrOn THEN mac.dr ELSE DefaultDr
           fresh == [mac EXCEPT !.confirm = confirm, !.ackCnt = 1,
                                !.ackRetries = retries, !.dr = dr]
           built == PrepareFrame(fresh, type, hist.reqs + 1, long)
           sent  == Raise(ScheduleTx(built, c), {"McpsReq"})
           typed == [sent.confirm EXCEPT !.type = type]
           ok    == [sent EXCEPT !.confirm = typed]
           no    == [built EXCEPT !.nodeAck = FALSE]
           asked == [hist EXCEPT !.reqs = @ + 1, !.kind = type,
                                 !.drs = <<>>, !.acked = FALSE]
<1>1. \/ mac' = ok /\ hist' = asked
      \/ mac' = no /\ hist' = hist
  BY DEF McpsRequest
<1>2. /\ mac \in MacTypes
      /\ type \in McpsKinds
      /\ hist.reqs + 1 \in Nat
  BY ChoiceAssumption DEF Settled, Sound, McpsKinds, HistTypes
<1>3. asked \in HistTypes
  <2>1. <<>> \in Seq(Nat)
    OBVIOUS
  <2> DEFINE none == <<>>
             reqs == hist.reqs + 1
  <2>2. none \in Seq(Nat) /\ reqs \in Nat
    BY <1>2, <2>1
  <2> HIDE DEF none, reqs
  <2>3. [hist EXCEPT !.reqs = reqs, !.kind = type, !.drs = none,
                     !.acked = FALSE] \in HistTypes
    BY <1>2, <2>2 DEF HistTypes
  <2> QED
    BY <2>3 DEF none, reqs
<1> HIDE DEF asked
<1>4. confirm \in McpsConfirms
  BY QueueAssumption DEF McpsConfirms, McpsKinds
<1>5. retries \in Nat /\ dr \in Datarates
  BY <1>2, CountAssumption, DatarateAssumption DEF MacTypes
<1> HIDE DEF confirm, retries, dr
<1>6. Alike(fresh, mac)
  BY <1>2, <1>4, <1>5 DEF Alike, MacTypes
<1> HIDE DEF fresh
<1>7. Alike(built, fresh)
  BY <1>2, <1>6, PrepareFrameAlike DEF Alike
<1> HIDE DEF built
<1>8. Settled(built)
  BY <1>6, <1>7, AlikeKeeps DEF Settled
<1>9. Settled(sent)
  <2> DEFINE x == ScheduleTx(built, c)
  <2>1. Settled(x)
    BY <1>8, ScheduleTxSound DEF Settled
  <2> HIDE DEF x
  <2>2. Settled(Raise(x, {"McpsReq"}))
    BY <2>1, RaiseSound DEF Settled, Flags, Calm, Watched
  <2> QED
    BY <2>2 DEF x
<1> HIDE DEF sent
<1>10. typed \in McpsConfirms
  BY <1>2, <1>9 DEF Settled, Sound, MacTypes, McpsConfirms
<1> HIDE DEF typed
<1>11. Alike(ok, sent) /\ Alike(no, built)
  BY <1>8, <1>9, <1>10 DEF Settled, Sound, MacTypes, Alike
<1> HIDE DEF ok, no
<1>12. Settled(ok) /\ Settled(no)
  BY <1>8, <1>9, <1>11, AlikeKeeps DEF Settled
<1> QED
  BY <1>1, <1>3, <1>12

-----------------------------------------------------------------------------
(* Radio events.                                                           *)

LEMMA OnRadioTxDoneSettled ==
  ASSUME Settled(mac), hist \in HistTypes, OnRadioTxDone
  PROVE  Settled(mac') /\ hist' \in HistTypes
<1> DEFINE idle == [mac EXCEPT !.radio = "IDLE"]
           s == Rest(idle)
           timers == s.timers \cup {"Rx1"}
                       \cup (IF Class = "A" THEN {"Rx2"} ELSE {})
                       \cup (IF Class = "C" \/ mac.nodeAck
                             THEN {"AckTimeout"} ELSE {})
           status == IF mac.nodeAck THEN s.confirm.status ELSE "OK"
           confirm == [s.confirm EXCEPT !.status = status]
           nbRep == IF mac.nodeAck THEN s.nbRep ELSE s.nbRep + 1
           stale == s.ackStale /\ ~(Class = "C" \/ mac.nodeAck)
           r == [s EXCEPT !.timers = timers, !.ackStale = stale,
                          !.confirm = confirm, !.nbRep = nbRep]
           aired == hist.aired \cup {[session |-> hist.session,
                                      fcnt |-> mac.frame.fcnt,
                                      req |-> mac.frame.req]}
           drs == Append(hist.drs, mac.confirm.dr)
<1>1. mac' = r
  BY DEF OnRadioTxDone
<1>2. hist' \in {hist, [hist EXCEPT !.aired = aired, !.drs = drs]}
  BY DEF OnRadioTxDone
<1>3. mac \in MacTypes
  BY DEF Settled, Sound
<1>4. aired \in SUBSET [session : Nat, fcnt : Nat, req : Nat]
  BY <1>3 DEF HistTypes, MacTypes, TxFrames
<1>5. drs \in Seq(Nat)
  BY <1>3 DEF HistTypes, MacTypes, McpsConfirms
<1> HIDE DEF aired, drs
<1>6. hist' \in HistTypes
  BY <1>2, <1>4, <1>5 DEF HistTypes
<1>7. Alike(idle, mac)
  BY <1>3 DEF Alike, MacTypes, Radios
<1> HIDE DEF idle
<1>8. Settled(s)
  BY <1>7, AlikeMild, RestMild, MildTransitive, MildKeeps DEF Alike
<1> HIDE DEF s
<1>9. s \in MacTypes /\ s.confirm \in McpsConfirms
  BY <1>8 DEF Settled, Sound, MacTypes
<1>10. /\ timers \in SUBSET Timers
       /\ "StateCheck" \in s.timers => "StateCheck" \in timers
       /\ "TxDelayed" \in timers <=> "TxDelayed" \in s.timers
  BY <1>9 DEF MacTypes, Timers
<1>11. status \in Statuses
  BY <1>9, QueueAssumption DEF McpsConfirms
<1> HIDE DEF status
<1>12. confirm \in McpsConfirms
  BY <1>9, <1>11 DEF McpsConfirms
<1>13. nbRep \in Nat /\ stale \in BOOLEAN
  BY <1>9 DEF MacTypes
<1> HIDE DEF timers, confirm, nbRep, stale
<1>14. /\ r \in MacTypes
       /\ r.timers = timers
       /\ r.state = s.state
       /\ r.flags = s.flags
       /\ r.queue = s.queue
  BY <1>9, <1>10, <1>12, <1>13 DEF MacTypes
<1> HIDE DEF r
<1>15. Settled(r)
  BY <1>8, <1>10, <1>14 DEF Settled, Sound, Calm, Watched
<1> QED
  BY <1>1, <1>6, <1>15

LEMMA OnRadioTxTimeoutSettled ==
  ASSUME Settled(mac), OnRadioTxTimeout
  PROVE  Settled(mac')
<1> DEFINE idle == [mac EXCEPT !.radio = "IDLE"]
           w == Rest(idle)
           s == Raise(w, {"MacDone"})
           confirm == [s.confirm EXCEPT !.status = "TX_TIMEOUT"]
           t == [s EXCEPT !.confirm = confirm]
           r == [t EXCEPT !.queue = SetStatusCmn(@, "TX_TIMEOUT")]
<1>1. mac' = [s EXCEPT !.confirm = confirm,
                       !.queue = SetStatusCmn(s.queue, "TX_TIMEOUT")]
  BY DEF OnRadioTxTimeout
<1>2. Alike(idle, mac)
  BY DEF Settled, Sound, Alike, MacTypes, Radios
<1> HIDE DEF idle
<1>3. Settled(w)
  BY <1>2, AlikeMild, RestMild, MildTransitive, MildKeeps DEF Alike
<1> HIDE DEF w
<1>4. Settled(s)
  BY <1>3, RaiseSound DEF Settled, Flags, Calm, Watched
<1> HIDE DEF s
<1>5. confirm \in McpsConfirms
  BY <1>4, QueueAssumption DEF Settled, Sound, MacTypes, McpsConfirms
<1> HIDE DEF confirm
<1>6. Alike(t, s) /\ t \in MacTypes /\ t.queue = s.queue
  BY <1>4, <1>5 DEF Alike, Settled, Sound, MacTypes
<1>7. mac' = r
  BY <1>1, <1>4 DEF Settled, Sound, MacTypes
<1> HIDE DEF t
<1>8. Mild(r, t)
  BY <1>6, SetStatusMild, QueueAssumption
<1>9. Settled(t)
  BY <1>4, <1>6, AlikeKeeps DEF Settled
<1> QED
  BY <1>7, <1>8, <1>9, MildKeeps

LEMMA OnRadioRxFailedSettled ==
  ASSUME Settled(mac), NEW idle \in BOOLEAN, NEW late \in BOOLEAN,
         OnRadioRxFailed(idle, late)
  PROVE  Settled(mac')
<1> DEFINE radio == IF idle THEN "IDLE" ELSE mac.radio
           status == IF mac.nodeAck THEN "RX_FAIL" ELSE mac.confirm.status
           confirm == [mac.confirm EXCEPT !.status = status]
           s == [mac EXCEPT !.radio = radio, !.confirm = confirm]
           failed == [s EXCEPT !.queue = SetStatusCmn(@, "RX_FAIL")]
           direct == [mac EXCEPT !.radio = radio, !.confirm = confirm,
                                 !.queue = SetStatusCmn(mac.queue, "RX_FAIL")]
           stopped == Stop(failed, {"Rx2"})
<1>1. mac \in MacTypes
  BY DEF Settled, Sound
<1>2. mac' \in {OpenContinuousRx2(direct), direct, Raise(direct, {"MacDone"}),
                Raise(Stop(direct, {"Rx2"}), {"MacDone"})}
  BY DEF OnRadioRxFailed
<1>3. radio \in Radios /\ status \in Statuses /\ mac.confirm \in McpsConfirms
  BY <1>1, QueueAssumption DEF MacTypes, Radios, McpsConfirms
<1> HIDE DEF radio, status
<1>4. confirm \in McpsConfirms
  BY <1>3 DEF McpsConfirms
<1> HIDE DEF confirm
<1>5. Alike(s, mac) /\ s \in MacTypes /\ s.queue = mac.queue
  BY <1>1, <1>3, <1>4 DEF Alike, MacTypes
<1>6. failed = direct
  BY <1>1, <1>5 DEF MacTypes
<1> HIDE DEF s, direct
<1>7. Mild(failed, s) /\ failed \in MacTypes
  BY <1>5, SetStatusMild, QueueAssumption DEF Mild
<1> HIDE DEF failed
<1>8. Settled(failed)
  BY <1>5, <1>7, AlikeKeeps, MildKeeps DEF Settled
<1>9. Settled(OpenContinuousRx2(failed))
  BY <1>7, <1>8, RestMild, MildKeeps
<1>10. Settled(stopped)
  BY <1>8, StopSound DEF Settled, Timers, Calm, Watched
<1> HIDE DEF stopped
<1>11. ASSUME NEW m, Settled(m)
       PROVE  Settled(Raise(m, {"MacDone"}))
  BY <1>11, RaiseSound DEF Settled, Flags, Calm, Watched
<1> QED
  BY <1>2, <1>6, <1>8, <1>9, <1>10, <1>11 DEF stopped

LEMMA OnRadioRxDoneEventSettled ==
  ASSUME Settled(mac), hist \in HistTypes, NEW f \in Downlinks,
         NEW c \in Choices, OnRadioRxDoneEvent(f, c)
  PROVE  Settled(mac') /\ hist' \in HistTypes
<1> DEFINE session == IF JoinAccepted(mac, f) THEN hist.session + 1
                      ELSE hist.session
           acked == hist.acked \/ /\ f.kind = "DATA" /\ f.ack /\ ~f.bad
                                  /\ mac.confirm.type = "CONFIRMED"
<1>1. f \in Frames
  BY ChoiceAssumption
<1>2. /\ mac' = OnRadioRxDone(mac, f, c)
      /\ hist' = [hist EXCEPT !.session = session, !.acked = acked]
  BY DEF OnRadioRxDoneEvent
<1>3. session \in Nat /\ acked \in BOOLEAN
  BY DEF HistTypes
<1> HIDE DEF session, acked
<1>4. hist' \in HistTypes
  BY <1>2, <1>3 DEF HistTypes
<1> QED
  BY <1>1, <1>2, <1>4, OnRadioRxDoneSettled

-----------------------------------------------------------------------------
(* The inductive invariant.                                                *)

Inv == Settled(mac) /\ hist \in HistTypes

LEMMA InitInv == Init => Inv
<1> SUFFICES ASSUME Init
             PROVE  Inv
  OBVIOUS
<1> DEFINE confirm == [type |-> "UNCONFIRMED", status |-> "OK",
                       ack |-> FALSE, dr |-> 0]
           mlme == [request |-> "JOIN", status |-> "OK"]
<1>1. confirm \in McpsConfirms
  BY QueueAssumption DEF McpsConfirms, McpsKinds
<1>2. mlme \in MlmeConfirms
  BY QueueAssumption DEF MlmeConfirms
<1>3. NoFrame \in TxFrames
  BY DEF NoFrame, TxFrames
<1>4. EmptyQueue \in Queues /\ Contiguous(EmptyQueue) /\ EmptyQueue.cnt = 0
  BY EmptyRing DEF Ring
<1>5. mac \in MacTypes
  BY <1>1, <1>2, <1>3, <1>4, DatarateAssumption DEF Init, MacTypes, Radios
<1>6. /\ mac.state = {}
      /\ mac.flags = {}
      /\ mac.timers = {}
      /\ mac.queue = EmptyQueue
  BY DEF Init
<1>7. Settled(mac)
  BY <1>4, <1>5, <1>6 DEF Settled, Sound, Calm, Watched
<1>8. hist \in HistTypes
  BY DEF Init, HistTypes
<1> QED
  BY <1>7, <1>8 DEF Inv

LEMMA NextInv == Inv /\ [Next]_vars => Inv'
<1> SUFFICES ASSUME Inv, [Next]_vars
             PROVE  Inv'
  OBVIOUS
<1>1. Settled(mac) /\ hist \in HistTypes /\ mac \in MacTypes
  BY DEF Inv, Settled, Sound
<1>2. ASSUME NEW m, Mild(m, mac)
      PROVE  Settled(m)
  BY <1>1, <1>2, MildKeeps
<1>3. ASSUME NEW c \in Choices, JoinRequest(c)
      PROVE  Inv'
  BY <1>1, <1>3, JoinRequestSettled DEF Inv, JoinRequest
<1>4. ASSUME NEW room \in BOOLEAN, LinkCheckRequest(room)
      PROVE  Inv'
  BY <1>1, <1>4, LinkCheckRequestSettled DEF Inv, LinkCheckRequest
<1>5. CASE ContinuousWaveRequest
  BY <1>1, <1>5, ContinuousWaveRequestSettled DEF Inv, ContinuousWaveRequest
<1>6. ASSUME NEW type \in McpsTypes, NEW long \in BOOLEAN, NEW c \in Choices,
             McpsRequest(type, long, c)
      PROVE  Inv'
  BY <1>1, <1>6, McpsRequestSettled DEF Inv
<1>7. CASE OnRadioTxDone
  BY <1>1, <1>7, OnRadioTxDoneSettled DEF Inv
<1>8. CASE OnRadioTxTimeout
  BY <1>1, <1>8, OnRadioTxTimeoutSettled DEF Inv, OnRadioTxTimeout
<1>9. ASSUME NEW idle \in BOOLEAN, NEW late \in BOOLEAN,
             OnRadioRxFailed(idle, late)
      PROVE  Inv'
  BY <1>1, <1>9, OnRadioRxFailedSettled DEF Inv, OnRadioRxFailed
<1>10. ASSUME NEW f \in Downlinks, NEW c \in Choices, OnRadioRxDoneEvent(f, c)
       PROVE  Inv'
  BY <1>1, <1>10, OnRadioRxDoneEventSettled DEF Inv
<1>11. CASE OnRxWindow1TimerEvent
  BY <1>1, <1>2, <1>11, RxWindow1Mild DEF Inv, OnRxWindow1TimerEvent
<1>12. CASE OnRxWindow2TimerEvent
  BY <1>1, <1>2, <1>12, RxWindow2Mild DEF Inv, OnRxWindow2TimerEvent
<1>13. CASE OnAckTimeoutTimerEvent
  <2> DEFINE s == Stop(mac, {"AckTimeout"})
  <2>1. /\ s \in MacTypes /\ s.state = mac.state
        /\ "StateCheck" \in mac.timers => "StateCheck" \in s.timers
        /\ Sound(s)
    BY <1>1, StopSound DEF Inv, Settled, Sound, Timers
  <2>2. Settled(s)
    BY <1>1, <2>1 DEF Inv, Settled, Calm, Watched
  <2> HIDE DEF s
  <2>3. Settled(OnAckTimeout(s))
    BY <2>1, <2>2, OnAckTimeoutMild, MildKeeps
  <2> QED
    BY <1>1, <1>2, <1>13, <2>3 DEF Inv, OnAckTimeoutTimerEvent, s
<1>14. ASSUME NEW c \in Choices, OnTxDelayedTimerEvent(c)
       PROVE  Inv'
  BY <1>1, <1>14, OnTxDelayedSound DEF Inv, Settled, OnTxDelayedTimerEvent
<1>15. ASSUME NEW c \in Choices, OnMacStateCheckTimerEvent(c)
       PROVE  Inv'
  BY <1>1, <1>15, OnMacStateCheckSettled
     DEF Inv, Settled, OnMacStateCheckTimerEvent
<1>16. CASE UNCHANGED vars
  BY <1>1, <1>16 DEF vars, Inv
<1> QED
  BY <1>3, <1>4, <1>5, <1>6, <1>7, <1>8, <1>9, <1>10, <1>11, <1>12, <1>13,
     <1>14, <1>15, <1>16 DEF Next

(* Between two callbacks the MAC is settled.                               *)
THEOREM Invariance == Spec => []Inv
<1> QED
  BY InitInv, NextInv, PTL DEF Spec

(* The statics of LoRaMac.c, the confirm queue among them, keep their      *)
(* types: the datarate stays in the region's range however often a         *)
(* retransmission lowers it.                                               *)
THEOREM TypeCorrect == Spec => []TypeOK
<1>1. Inv => TypeOK
  BY DEF Inv, Settled, Sound, TypeOK
<1> QED
  BY <1>1, Invariance, PTL

(* A running transmission never loses the state check timer, on which      *)
(* every confirm of the MAC depends.                                       *)
THEOREM StateCheckKept == Spec => []StateChecked
<1>1. Inv => StateChecked
  BY DEF Inv, Settled, Watched, StateChecked
<1> QED
  BY <1>1, Invariance, PTL

(* A frame put off by the duty cycle keeps its timer, and a timer that     *)
(* runs has a frame to send.                                               *)
THEOREM DelayKept == Spec => []DelayTimed
<1>1. Inv => DelayTimed
  BY DEF Inv, Settled, Sound, DelayTimed
<1> QED
  BY <1>1, Invariance, PTL

(* The abort mark lives within one callback.                               *)
THEOREM AbortNeverLeft == Spec => []AbortCleared
<1>1. Inv => AbortCleared
  BY DEF Inv, Settled, Calm, AbortCleared
<1> QED
  BY <1>1, Invariance, PTL

(* The MlmeReq flag and the confirm queue never disagree, so no management *)
(* request waits in a queue that is no longer looked at.                   *)
THEOREM PendingKept == Spec => []ConfirmsPending
<1>1. Inv => ConfirmsPending
  BY DEF Inv, Settled, Sound, ConfirmsPending
<1> QED
  BY <1>1, Invariance, PTL

-----------------------------------------------------------------------------
(* What sending a frame changes.                                           *)

(* The fields that scheduling a frame leaves alone.                        *)
SameRequest(r, m) ==
  /\ r.flags = m.flags
  /\ r.ackStale = m.ackStale
  /\ r.slot = m.slot
  /\ r.joined = m.joined
  /\ r.nodeAck = m.nodeAck
  /\ r.retry = m.retry
  /\ r.ackCnt = m.ackCnt
  /\ r.ackRetries = m.ackRetries
  /\ r.off = m.off
  /\ r.dr = m.dr
  /\ r.frame = m.frame
  /\ r.confirm.type = m.confirm.type
  /\ r.confirm.ack = m.confirm.ack

OnAir(r, m) ==
  /\ SameRequest(r, m)
  /\ r.radio = "TX"
  /\ r.cut = (m.cut \/ m.radio \in {"TX", "CW"})
  /\ r.state = m.state \cup {"TX_RUNNING"}
  /\ r.timers = m.timers \cup {"StateCheck"}
  /\ r.confirm.status = "ERROR"
  /\ r.queue.cmn = "ERROR"

PutOff(r, m) ==
  /\ SameRequest(r, m)
  /\ r.radio = m.radio
  /\ r.cut = m.cut
  /\ r.state = m.state \cup {"TX_DELAYED"}
  /\ r.timers = m.timers \cup {"TxDelayed"}
  /\ r.confirm.status = m.confirm.status
  /\ r.queue.cmn = m.queue.cmn

LEMMA SendFrameOnAir ==
  ASSUME NEW m \in MacTypes
  PROVE  OnAir(SendFrameOnChannel(m), m)
<1> DEFINE s == RadioTo(m, "TX")
           confirm == [s.confirm EXCEPT !.status = "ERROR", !.dr = m.dr]
           queue == SetStatusCmn(s.queue, "ERROR")
           r == [s EXCEPT !.queue = queue,
                          !.confirm = confirm,
                          !.timers = @ \cup {"StateCheck"},
                          !.joinTrials = IF m.joined THEN @ ELSE @ + 1,
                          !.state = @ \cup {"TX_RUNNING"}]
<1>1. SendFrameOnChannel(m) = r
  BY DEF SendFrameOnChannel
<1>2. s \in MacTypes
  <2>1. "TX" \in Radios
    BY DEF Radios
  <2>2. Alike(RadioTo(m, "TX"), m)
    BY <2>1, RadioToAlike
  <2> QED
    BY <2>2 DEF Alike
<1>4. queue.cmn = "ERROR"
  BY <1>2 DEF MacTypes, SetStatusCmn, Queues
<1>5. /\ SameRequest(s, m)
      /\ s.radio = "TX"
      /\ s.cut = (m.cut \/ m.radio \in {"TX", "CW"})
      /\ s.state = m.state
      /\ s.timers = m.timers
  <2> DEFINE cut == m.cut \/ m.radio \in {"TX", "CW"}
  <2>1. s = [m EXCEPT !.radio = "TX", !.cut = cut]
    BY DEF RadioTo
  <2> HIDE DEF s
  <2>2. s.cut = cut
    BY <2>1 DEF MacTypes
  <2> HIDE DEF cut
  <2>3. SameRequest(s, m)
    BY <2>1 DEF MacTypes, SameRequest
  <2>4. s.radio = "TX" /\ s.state = m.state /\ s.timers = m.timers
    BY <2>1 DEF MacTypes
  <2> QED
    BY <2>2, <2>3, <2>4 DEF cut
<1> HIDE DEF s
<1>6. /\ confirm.status = "ERROR"
      /\ confirm.type = m.confirm.type
      /\ confirm.ack = m.confirm.ack
  BY <1>2, <1>5 DEF MacTypes, McpsConfirms, SameRequest
<1> HIDE DEF confirm, queue
<1>7. OnAir(r, m)
  BY <1>2, <1>4, <1>5, <1>6 DEF MacTypes, OnAir, SameRequest
<1> QED
  BY <1>1, <1>7

LEMMA ScheduleTxCases ==
  ASSUME NEW m \in MacTypes, NEW c \in Choices
  PROVE  /\ ~Sendable(m) => ScheduleTx(m, c) = m
         /\ Sendable(m) => \/ OnAir(ScheduleTx(m, c), m)
                           \/ PutOff(ScheduleTx(m, c), m)
<1> DEFINE r == [m EXCEPT !.state = @ \cup {"TX_DELAYED"},
                          !.timers = @ \cup {"TxDelayed"}]
<1>1. PutOff(r, m)
  BY DEF MacTypes, PutOff, SameRequest
<1>2. Sendable(m) => ScheduleTx(m, c) \in {r, SendFrameOnChannel(m)}
  BY DEF ScheduleTx
<1> HIDE DEF r
<1> QED
  BY <1>1, <1>2, SendFrameOnAir DEF ScheduleTx

(* What PrepareJoin leaves.                                                *)
LEMMA PrepareJoinFields ==
  ASSUME NEW m \in MacTypes, NEW c \in Choices
  PROVE  LET r == PrepareJoin(m, c)
         IN  /\ r \in MacTypes
             /\ r.state = m.state
             /\ r.flags = m.flags
             /\ r.timers = m.timers
             /\ r.queue = m.queue
             /\ r.radio = m.radio
             /\ r.cut = m.cut
             /\ r.slot = m.slot
             /\ r.confirm = m.confirm
             /\ r.ackStale = m.ackStale
             /\ ~r.nodeAck /\ ~r.retry /\ r.ackCnt = r.ackRetries
             /\ ~r.joined
             /\ r.frame.kind = "JOIN"
             /\ Sendable(r)
<1> DEFINE r == [m EXCEPT
                   !.joined = FALSE, !.upCnt = 0, !.nbRep = 0,
                   !.ackRetries = 1, !.ackCnt = 1, !.retry = FALSE,
                   !.off = FALSE, !.nodeAck = FALSE, !.dr = c.joinDr]
           frame == [kind |-> "JOIN", fcnt |-> r.upCnt, req |-> 0,
                     long |-> FALSE]
           p == [r EXCEPT !.nodeAck = FALSE, !.frame = frame]
<1>1. [ResetMacParameters(m) EXCEPT !.dr = c.joinDr] = r
  BY DEF ResetMacParameters, MacTypes
<1>2. PrepareJoin(m, c) = p
  BY <1>1 DEF PrepareJoin, PrepareFrame, Buildable
<1>3. PrepareJoin(m, c) \in MacTypes
  BY PrepareJoinAlike DEF Alike
<1>4. /\ r.state = m.state
      /\ r.flags = m.flags
      /\ r.timers = m.timers
      /\ r.queue = m.queue
      /\ r.radio = m.radio
      /\ r.cut = m.cut
      /\ r.slot = m.slot
      /\ r.confirm = m.confirm
      /\ r.ackStale = m.ackStale
      /\ ~r.retry /\ ~r.off /\ ~r.joined /\ r.ackCnt = r.ackRetries
      /\ DOMAIN r = DOMAIN m
  BY DEF MacTypes
<1>5. frame.kind = "JOIN"
  OBVIOUS
<1> HIDE DEF frame, r
<1>6. /\ p.state = r.state
      /\ p.flags = r.flags
      /\ p.timers = r.timers
      /\ p.queue = r.queue
      /\ p.radio = r.radio
      /\ p.cut = r.cut
      /\ p.slot = r.slot
      /\ p.confirm = r.confirm
      /\ p.ackStale = r.ackStale
      /\ p.retry = r.retry /\ p.off = r.off /\ p.joined = r.joined
      /\ p.ackCnt = r.ackCnt /\ p.ackRetries = r.ackRetries
      /\ p.frame = frame
      /\ ~p.nodeAck
  BY <1>4 DEF MacTypes
<1> HIDE DEF p
<1> QED
  BY <1>2, <1>3, <1>4, <1>5, <1>6 DEF Sendable

LEMMA NextTryFields ==
  ASSUME NEW m \in MacTypes
  PROVE  /\ NextTry(m).radio = m.radio /\ NextTry(m).cut = m.cut
         /\ NextTry(m).slot = m.slot /\ NextTry(m).confirm = m.confirm
         /\ NextTry(m).frame = m.frame /\ NextTry(m).nodeAck = m.nodeAck
         /\ NextTry(m).off = m.off /\ NextTry(m).joined = m.joined
         /\ NextTry(m).ackStale = m.ackStale
         /\ ~NextTry(m).retry
<1> DEFINE cnt == m.ackCnt + 1
           dr == IF cnt % 2 = 1 THEN NextLowerDr(m.dr) ELSE m.dr
<1>1. NextTry(m) = [m EXCEPT !.retry = FALSE, !.ackCnt = cnt, !.dr = dr]
  BY DEF NextTry
<1> HIDE DEF cnt, dr
<1> QED
  BY <1>1 DEF MacTypes

-----------------------------------------------------------------------------
(* Frames that are sent at once: what then holds of a device of either     *)
(* class, whatever it asks for and whatever it hears.  A frame that waits  *)
(* for its channel, or that the radio gives up, may be overtaken by the    *)
(* windows and the acknowledgement timer of the one before.                *)

SentAtOnce == TRUE \notin Waits /\ ~TxTimeouts

(* The way of a record through the blocks of the state check.              *)
Drift(r, m) ==
  /\ r.ackStale = m.ackStale
  /\ r.timers \subseteq m.timers \cup {"StateCheck"}
  /\ r.state \subseteq m.state \cup {"TX_RUNNING"}
  /\ r.flags \subseteq m.flags /\ m.flags \ {"MacDone"} \subseteq r.flags
  /\ r.confirm.type = m.confirm.type
  /\ r.confirm.ack => m.confirm.ack
  /\ r.nodeAck => m.nodeAck
  /\ r.joined => m.joined
  /\ r.radio \in {m.radio, "TX"}

LEMMA DriftTransitive ==
  ASSUME NEW m, NEW r, NEW s, Drift(r, m), Drift(s, r)
  PROVE  Drift(s, m)
BY DEF Drift

LEMMA DriftStays ==
  ASSUME NEW m \in MacTypes
  PROVE  Drift(m, m)
BY DEF Drift

LEMMA StopRunningDrift ==
  ASSUME NEW m \in MacTypes
  PROVE  StopRunning(m) \in MacTypes /\ Drift(StopRunning(m), m)
BY DEF StopRunning, MacTypes, Drift

LEMMA AbortBlockDrift ==
  ASSUME NEW m \in MacTypes
  PROVE  Drift(AbortBlock(m), m)
<1> DEFINE r == [m EXCEPT !.state = @ \ {"RX_ABORT", "TX_RUNNING"}]
<1>1. AbortBlock(m) \in {m, r}
  BY DEF AbortBlock
<1>2. Drift(r, m)
  BY DEF MacTypes, Drift
<1> HIDE DEF r
<1> QED
  BY <1>1, <1>2, DriftStays

LEMMA TxTimeoutBlockDrift ==
  ASSUME NEW m \in MacTypes
  PROVE  Drift(TxTimeoutBlock(m), m)
<1> DEFINE mlme == [m.mlme EXCEPT !.status = m.queue.cmn]
           seen == IF Requested(m) THEN [m EXCEPT !.mlme = mlme] ELSE m
           stopped == StopRunning(seen)
           confirm == [stopped.confirm EXCEPT !.ack = FALSE]
           r == [stopped EXCEPT !.confirm = confirm]
<1>1. TxTimeoutBlock(m) \in {seen, r}
  BY DEF TxTimeoutBlock
<1>2. mlme \in MlmeConfirms
  BY DEF MacTypes, MlmeConfirms, Queues
<1> HIDE DEF mlme
<1>3. seen \in MacTypes /\ Drift(seen, m)
  BY <1>2 DEF MacTypes, Drift
<1> HIDE DEF seen
<1>4. stopped \in MacTypes /\ Drift(stopped, seen)
  BY <1>3, StopRunningDrift
<1> HIDE DEF stopped
<1>5. confirm.type = stopped.confirm.type /\ ~confirm.ack
  BY <1>4 DEF MacTypes, McpsConfirms
<1> HIDE DEF confirm
<1>6. Drift(r, stopped)
  BY <1>4, <1>5 DEF MacTypes, Drift
<1> HIDE DEF r
<1> QED
  BY <1>1, <1>3, <1>4, <1>6, DriftTransitive

LEMMA NoWait ==
  ASSUME SentAtOnce, NEW c \in Choices
  PROVE  ~c.wait
BY ChoiceAssumption DEF SentAtOnce, Choices

(* The frame is on the air in the end, or could not be sent.               *)
LEMMA ScheduledAtOnce ==
  ASSUME SentAtOnce, NEW m \in MacTypes, NEW c \in Choices
  PROVE  IF Sendable(m) THEN OnAir(ScheduleTx(m, c), m)
                        ELSE ScheduleTx(m, c) = m
<1>1. Sendable(m) => ScheduleTx(m, c) = SendFrameOnChannel(m)
  BY NoWait DEF ScheduleTx
<1>2. ~Sendable(m) => ScheduleTx(m, c) = m
  BY DEF ScheduleTx
<1> QED
  BY <1>1, <1>2, SendFrameOnAir

LEMMA ScheduleTxDrift ==
  ASSUME SentAtOnce, NEW m \in MacTypes, NEW c \in Choices
  PROVE  Drift(ScheduleTx(m, c), m)
<1>1. OnAir(ScheduleTx(m, c), m) => Drift(ScheduleTx(m, c), m)
  BY DEF OnAir, SameRequest, Drift
<1> QED
  BY <1>1, ScheduledAtOnce, DriftStays

LEMMA OnTxDelayedDrift ==
  ASSUME SentAtOnce, NEW m \in MacTypes, NEW c \in Choices
  PROVE  Drift(OnTxDelayed(m, c), m)
<1> DEFINE state == m.state \ {"TX_DELAYED"}
           timers == m.timers \ {"TxDelayed"}
           due == [m EXCEPT !.timers = timers, !.state = state]
           frame == IF JoinRequested(due) THEN PrepareJoin(due, c) ELSE due
<1>1. OnTxDelayed(m, c) = ScheduleTx(frame, c)
  BY DEF OnTxDelayed, Stop, MacTypes
<1>2. /\ state \in SUBSET States /\ timers \in SUBSET Timers
      /\ state \subseteq m.state /\ timers \subseteq m.timers
  BY DEF MacTypes
<1> HIDE DEF state, timers
<1>3. due \in MacTypes /\ Drift(due, m)
  BY <1>2 DEF MacTypes, Drift
<1> HIDE DEF due
<1>4. frame \in MacTypes /\ Drift(frame, due)
  <2>1. PrepareJoin(due, c) \in MacTypes /\ Drift(PrepareJoin(due, c), due)
    BY <1>3, PrepareJoinFields DEF Drift
  <2> QED
    BY <1>3, <2>1, DriftStays
<1> HIDE DEF frame
<1>5. Drift(ScheduleTx(frame, c), frame)
  BY <1>4, ScheduleTxDrift
<1> QED
  BY <1>1, <1>3, <1>4, <1>5, DriftTransitive

LEMMA UnacknowledgedBlockDrift ==
  ASSUME SentAtOnce, NEW m \in MacTypes, NEW c \in Choices
  PROVE  Drift(UnacknowledgedBlock(m, c), m)
<1> DEFINE s == StopRunning(m)
           joined == [s EXCEPT !.upCnt = 0, !.nbRep = 0]
           sent == [s EXCEPT !.nbRep = 0, !.upCnt = @ + 1]
           due == [m EXCEPT !.flags = @ \ {"MacDone"}]
<1>1. UnacknowledgedBlock(m, c) \in {m, s, joined, sent, OnTxDelayed(due, c)}
  BY DEF UnacknowledgedBlock, JoinBlock, RepetitionBlock, SendAgain
<1>2. s \in MacTypes /\ Drift(s, m)
  BY StopRunningDrift
<1> HIDE DEF s
<1>3. Drift(joined, s) /\ Drift(sent, s)
  BY <1>2 DEF MacTypes, Drift
<1>4. due \in MacTypes /\ Drift(due, m)
  BY DEF MacTypes, Drift
<1> HIDE DEF joined, sent, due
<1>5. Drift(OnTxDelayed(due, c), due)
  BY <1>4, OnTxDelayedDrift
<1> QED
  BY <1>1, <1>2, <1>3, <1>4, <1>5, DriftTransitive, DriftStays

LEMMA ReceivedBlockDrift ==
  ASSUME NEW m \in MacTypes
  PROVE  Drift(ReceivedBlock(m), m)
<1> DEFINE s == StopRunning(m)
           r == [s EXCEPT !.retry = FALSE, !.nodeAck = FALSE, !.upCnt = @ + 1]
<1>1. ReceivedBlock(m) \in {r, m}
  BY DEF ReceivedBlock
<1>2. s \in MacTypes /\ Drift(s, m)
  BY StopRunningDrift
<1> HIDE DEF s
<1>3. Drift(r, s)
  BY <1>2 DEF MacTypes, Drift
<1> HIDE DEF r
<1> QED
  BY <1>1, <1>2, <1>3, DriftTransitive, DriftStays

(* The end of the retransmissions.                                         *)
LEMMA GivenUp ==
  ASSUME NEW m \in MacTypes, NEW r \in {GiveUp(m), GiveUpTooLong(m)}
  PROVE  /\ Drift(r, m)
         /\ ~r.nodeAck /\ ~r.confirm.ack /\ "TX_RUNNING" \notin r.state
<1> DEFINE s == StopRunning(m)
           confirm == [s.confirm EXCEPT !.ack = FALSE]
           no == [s EXCEPT !.nodeAck = FALSE, !.confirm = confirm,
                           !.upCnt = @ + 1]
           refused == [no.confirm EXCEPT !.status = "DR_SIZE", !.dr = m.dr]
           long == [no EXCEPT !.confirm = refused]
<1>1. r \in {no, long}
  BY DEF GiveUp, GiveUpTooLong
<1>2. s \in MacTypes /\ Drift(s, m) /\ "TX_RUNNING" \notin s.state
  BY StopRunningDrift DEF StopRunning, MacTypes
<1> HIDE DEF s
<1>3. confirm.type = s.confirm.type /\ ~confirm.ack /\ confirm \in McpsConfirms
  BY <1>2 DEF MacTypes, McpsConfirms
<1> HIDE DEF confirm
<1>4. /\ Drift(no, s) /\ ~no.nodeAck /\ no.state = s.state
      /\ no.confirm = confirm
      /\ DOMAIN no = DOMAIN s
  BY <1>2, <1>3 DEF MacTypes, Drift
<1>5. refused.type = s.confirm.type /\ ~refused.ack
  BY <1>3, <1>4 DEF McpsConfirms
<1>6. /\ Drift(long, s) /\ ~long.nodeAck /\ long.state = s.state
      /\ ~long.confirm.ack
  <2> HIDE DEF refused
  <2> QED
    BY <1>2, <1>5 DEF MacTypes, Drift
<1> HIDE DEF no, long
<1> QED
  BY <1>1, <1>2, <1>3, <1>4, <1>6, DriftTransitive

(* A retransmission, on the air.                                           *)
Resent(r, m) ==
  /\ Drift(r, m)
  /\ "TX_RUNNING" \in r.state
  /\ r.nodeAck = m.nodeAck
  /\ r.frame = m.frame
  /\ r.confirm.ack = m.confirm.ack
  /\ r.confirm.status = "ERROR" /\ r.queue.cmn = "ERROR"
  /\ r.radio = "TX"

LEMMA RetryBlockAtOnce ==
  ASSUME SentAtOnce, NEW m \in MacTypes, NEW c \in Choices
  PROVE  LET r == RetryBlock(m, c)
         IN  /\ Drift(r, m)
             /\ ~m.retry => r = m
             /\ \/ r = m /\ ~(m.retry /\ "TX_DELAYED" \notin m.state)
                \/ Resent(r, m)
                \/ ~r.nodeAck /\ ~r.confirm.ack /\ "TX_RUNNING" \notin r.state
<1> DEFINE due   == [m EXCEPT !.retry = FALSE]
           next  == NextTry(m)
           sent  == ScheduleTx(next, c)
           again == [sent EXCEPT !.flags = @ \ {"MacDone"}]
           r     == RetryBlock(m, c)
<1>1. \/ r = m /\ ~(m.retry /\ "TX_DELAYED" \notin m.state)
      \/ m.retry /\ r = GiveUp(due)
      \/ m.retry /\ r = GiveUpTooLong(next)
      \/ m.retry /\ r = again /\ Sendable(next)
  BY DEF RetryBlock
<1> HIDE DEF r
<1>2. due \in MacTypes /\ Drift(due, m)
  BY DEF MacTypes, Drift
<1>3. /\ next \in MacTypes /\ Drift(next, m)
      /\ next.nodeAck = m.nodeAck /\ next.frame = m.frame
      /\ next.confirm = m.confirm
  BY NextTryAlike, NextTryFields DEF Alike, Drift
<1> HIDE DEF due, next
<1>4. CASE r \in {GiveUp(due), GiveUpTooLong(next)} /\ m.retry
  <2>1. /\ Drift(r, due) \/ Drift(r, next)
        /\ ~r.nodeAck /\ ~r.confirm.ack /\ "TX_RUNNING" \notin r.state
    BY <1>2, <1>3, <1>4, GivenUp
  <2> QED
    BY <1>2, <1>3, <1>4, <2>1, DriftTransitive DEF r
<1>5. CASE r = again /\ Sendable(next) /\ m.retry
  <2>1. OnAir(sent, next)
    BY <1>3, <1>5, ScheduledAtOnce
  <2>2. Sound(next) => sent \in MacTypes
    BY ScheduleTxSound DEF Sound
  <2> HIDE DEF sent
  <2>3. Resent(again, next)
    <3>1. /\ again.state = sent.state /\ again.nodeAck = sent.nodeAck
          /\ again.frame = sent.frame /\ again.confirm = sent.confirm
          /\ again.queue = sent.queue /\ again.radio = sent.radio
          /\ again.joined = sent.joined /\ again.timers = sent.timers
          /\ again.ackStale = sent.ackStale
          /\ again.flags = sent.flags \ {"MacDone"}
      OBVIOUS
    <3> HIDE DEF again
    <3> QED
      BY <2>1, <3>1 DEF OnAir, SameRequest, Resent, Drift
  <2> HIDE DEF again
  <2>4. Resent(again, m)
    BY <1>3, <2>3, DriftTransitive DEF Resent
  <2> QED
    BY <1>5, <2>4 DEF Resent, r
<1>6. CASE r = m /\ ~(m.retry /\ "TX_DELAYED" \notin m.state)
  BY <1>6, DriftStays DEF r
<1> QED
  BY <1>1, <1>4, <1>5, <1>6

LEMMA DoneBlockDrift ==
  ASSUME SentAtOnce, NEW m, Sound(m), NEW c \in Choices
  PROVE  Drift(DoneBlock(m, c), m)
<1> DEFINE m1 == AbortBlock(m)
           m2 == TxTimeoutBlock(m1)
           m3 == UnacknowledgedBlock(m2, c)
           m4 == ReceivedBlock(m3)
           m5 == RetryBlock(m4, c)
<1>1. Sound(m1) /\ Drift(m1, m)
  BY AbortBlockCalm, AbortBlockDrift DEF Sound
<1> HIDE DEF m1
<1>2. Sound(m2) /\ Drift(m2, m1)
  BY <1>1, TxTimeoutBlockSound, TxTimeoutBlockDrift DEF Sound
<1> HIDE DEF m2
<1>3. Sound(m3) /\ Drift(m3, m2)
  BY <1>2, UnacknowledgedBlockSound, UnacknowledgedBlockDrift DEF Sound
<1> HIDE DEF m3
<1>4. Sound(m4) /\ Drift(m4, m3)
  BY <1>3, ReceivedBlockSound, ReceivedBlockDrift DEF Sound
<1> HIDE DEF m4
<1>5. Drift(m5, m4)
  BY <1>4, RetryBlockAtOnce DEF Sound
<1>6. DoneBlock(m, c) = m5
  BY DEF DoneBlock, m1, m2, m3, m4
<1> HIDE DEF m5
<1> QED
  BY <1>1, <1>2, <1>3, <1>4, <1>5, <1>6, DriftTransitive

-----------------------------------------------------------------------------
(* A request that waits for its acknowledgement.                           *)

(* The open request is the confirmed one in the transmit buffer, and       *)
(* nothing but that frame has been on the air since.                       *)
Awaiting(m) ==
  /\ "McpsReq" \in m.flags
  /\ m.confirm.type = "CONFIRMED" /\ m.frame.kind = "CONFIRMED"
  /\ m.confirm.status # "TX_TIMEOUT" /\ m.queue.cmn # "TX_TIMEOUT"
  /\ m.radio # "CW"

(* In the state check: the frame is being sent, or a retry is due.  An     *)
(* acknowledgement comes with its indication.                              *)
Owed(m) ==
  /\ m \in MacTypes
  /\ m.nodeAck /\ Awaiting(m)
  /\ m.retry \/ "TX_RUNNING" \in m.state
  /\ "TX_DELAYED" \notin m.state
  /\ m.confirm.ack => "McpsInd" \in m.flags

(* Told of the acknowledgement as found, the request is closed or goes on. *)
Ruled(r, m) ==
  /\ r.confirm.ack <=> m.confirm.ack
  /\ IF r.nodeAck
     THEN Awaiting(r) /\ ~r.confirm.ack /\ "TX_RUNNING" \in r.state
     ELSE "TX_RUNNING" \notin r.state

LEMMA AbortBlockOwed ==
  ASSUME NEW m \in MacTypes, m.nodeAck, Awaiting(m),
         IF "RX_ABORT" \in m.state THEN m.retry ELSE "TX_RUNNING" \in m.state,
         "TX_DELAYED" \notin m.state,
         m.confirm.ack => "McpsInd" \in m.flags
  PROVE  Owed(AbortBlock(m)) /\ AbortBlock(m).confirm = m.confirm
<1> DEFINE state == m.state \ {"RX_ABORT", "TX_RUNNING"}
           r == [m EXCEPT !.state = state]
<1>1. AbortBlock(m) = IF "RX_ABORT" \in m.state THEN r ELSE m
  BY DEF AbortBlock
<1>2. state \in SUBSET States /\ "TX_DELAYED" \notin state
  BY DEF MacTypes
<1> HIDE DEF state
<1>3. /\ r \in MacTypes
      /\ r.state = state /\ r.nodeAck = m.nodeAck /\ r.retry = m.retry
      /\ r.flags = m.flags /\ r.confirm = m.confirm /\ r.frame = m.frame
      /\ r.queue = m.queue /\ r.radio = m.radio
  BY <1>2 DEF MacTypes
<1> HIDE DEF r
<1> QED
  BY <1>1, <1>2, <1>3 DEF Owed, Awaiting

(* Neither the transmission nor a request timed out.                       *)
LEMMA TxTimeoutBlockOwed ==
  ASSUME NEW m, Owed(m)
  PROVE  Owed(TxTimeoutBlock(m)) /\ TxTimeoutBlock(m).confirm = m.confirm
<1> DEFINE mlme == [m.mlme EXCEPT !.status = m.queue.cmn]
           r == [m EXCEPT !.mlme = mlme]
<1>1. TxTimeoutBlock(m) \in {m, r}
  BY DEF TxTimeoutBlock, TxTimedOut, Owed, Awaiting
<1>2. mlme \in MlmeConfirms
  BY DEF Owed, MacTypes, MlmeConfirms, Queues
<1> HIDE DEF mlme
<1>3. /\ r \in MacTypes
      /\ r.state = m.state /\ r.nodeAck = m.nodeAck /\ r.retry = m.retry
      /\ r.flags = m.flags /\ r.confirm = m.confirm /\ r.frame = m.frame
      /\ r.queue = m.queue /\ r.radio = m.radio
  BY <1>2 DEF Owed, MacTypes
<1> HIDE DEF r
<1> QED
  BY <1>1, <1>3 DEF Owed, Awaiting

LEMMA ReceivedBlockOwed ==
  ASSUME NEW m, Owed(m)
  PROVE  LET r == ReceivedBlock(m)
         IN  /\ r \in MacTypes
             /\ r.confirm = m.confirm
             /\ \/ r = m /\ ~m.confirm.ack
                \/ ~r.nodeAck /\ ~r.retry /\ "TX_RUNNING" \notin r.state
<1> DEFINE s == StopRunning(m)
           upCnt == s.upCnt + 1
           r == [s EXCEPT !.retry = FALSE, !.nodeAck = FALSE, !.upCnt = upCnt]
<1>1. \/ ReceivedBlock(m) = m /\ ~m.confirm.ack
      \/ ReceivedBlock(m) = r
  BY DEF ReceivedBlock, Owed, MacTypes, McpsConfirms
<1>2. m \in MacTypes
  BY DEF Owed
<1>3. /\ s \in MacTypes /\ s.confirm = m.confirm
      /\ "TX_RUNNING" \notin s.state /\ upCnt \in Nat
  BY <1>2 DEF StopRunning, MacTypes
<1> HIDE DEF s, upCnt
<1>4. /\ r \in MacTypes /\ r.confirm = s.confirm /\ r.state = s.state
      /\ ~r.nodeAck /\ ~r.retry
  BY <1>3 DEF MacTypes
<1> HIDE DEF r
<1> QED
  BY <1>1, <1>2, <1>3, <1>4

LEMMA DoneBlockRuled ==
  ASSUME SentAtOnce, NEW m, Owed(AbortBlock(m)),
         AbortBlock(m).confirm = m.confirm, NEW c \in Choices
  PROVE  Ruled(DoneBlock(m, c), m)
<1> DEFINE m1 == AbortBlock(m)
           m2 == TxTimeoutBlock(m1)
           m4 == ReceivedBlock(m2)
           r  == RetryBlock(m4, c)
<1>1. Owed(m1) /\ m1.confirm = m.confirm
  OBVIOUS
<1> HIDE DEF m1
<1>2. Owed(m2) /\ m2.confirm = m.confirm
  BY <1>1, TxTimeoutBlockOwed
<1> HIDE DEF m2
<1>3. UnacknowledgedBlock(m2, c) = m2
  BY <1>2 DEF Owed, UnacknowledgedBlock
<1>4. DoneBlock(m, c) = r
  BY <1>3 DEF DoneBlock, m1, m2
<1>5. /\ m4 \in MacTypes /\ m4.confirm = m.confirm
      /\ \/ m4 = m2 /\ ~m2.confirm.ack
         \/ ~m4.nodeAck /\ ~m4.retry /\ "TX_RUNNING" \notin m4.state
  BY <1>2, ReceivedBlockOwed
<1> HIDE DEF m4
<1>6. /\ Drift(r, m4)
      /\ ~m4.retry => r = m4
      /\ \/ r = m4 /\ ~(m4.retry /\ "TX_DELAYED" \notin m4.state)
         \/ Resent(r, m4)
         \/ ~r.nodeAck /\ ~r.confirm.ack /\ "TX_RUNNING" \notin r.state
  BY <1>5, RetryBlockAtOnce
<1> HIDE DEF r
<1>7. CASE ~m4.nodeAck /\ ~m4.retry /\ "TX_RUNNING" \notin m4.state
  BY <1>4, <1>5, <1>6, <1>7 DEF Ruled
<1>8. CASE m4 = m2 /\ ~m2.confirm.ack
  <2>1. CASE r = m4 /\ ~(m4.retry /\ "TX_DELAYED" \notin m4.state)
    BY <1>2, <1>4, <1>8, <2>1 DEF Ruled, Owed
  <2>2. CASE Resent(r, m4)
    <3>1. Awaiting(r)
      BY <1>2, <1>8, <2>2 DEF Resent, Drift, Owed, Awaiting
    <3> QED
      BY <1>2, <1>4, <1>8, <2>2, <3>1 DEF Ruled, Owed, Resent
  <2>3. CASE ~r.nodeAck /\ ~r.confirm.ack /\ "TX_RUNNING" \notin r.state
    <3>1. r.confirm.ack <=> m.confirm.ack
      BY <1>2, <1>8, <2>3
    <3> QED
      BY <1>4, <2>3, <3>1 DEF Ruled
  <2> QED
    BY <1>6, <2>1, <2>2, <2>3
<1> QED
  BY <1>5, <1>7, <1>8

-----------------------------------------------------------------------------
(* The whole state check.                                                  *)

OpenConfirmed(m) == "McpsReq" \in m.flags /\ m.confirm.type = "CONFIRMED"

(* What holds between two callbacks.                                       *)
Held(m) ==
  /\ m.state \subseteq {"TX_RUNNING"}
  /\ "McpsReq" \in m.flags => "TX_RUNNING" \in m.state
  /\ m.nodeAck => Awaiting(m)
  /\ OpenConfirmed(m) => m.nodeAck /\ ~m.confirm.ack

(* IsRunning is left set only in class C, with no window planned, and the  *)
(* next request finds it so only until its frame has been sent.            *)
Fresh(m) ==
  m.ackStale => /\ Class = "C" /\ "Rx1" \notin m.timers
                /\ "McpsReq" \in m.flags => m.radio = "TX"

(* What the state check finds.                                             *)
Checkable(m) ==
  /\ "TX_DELAYED" \notin m.state
  /\ m.nodeAck =>
       /\ Awaiting(m)
       /\ IF "RX_ABORT" \in m.state THEN m.retry ELSE "TX_RUNNING" \in m.state
  /\ OpenConfirmed(m) => m.nodeAck
  /\ OpenConfirmed(m) /\ m.confirm.ack =>
       {"McpsInd", "MacDone"} \subseteq m.flags

(* What it is about to end.                                                *)
Decided(r, m) ==
  /\ Sound(r) /\ Drift(r, m)
  /\ r.state \subseteq {"TX_RUNNING"}
  /\ r.nodeAck => Awaiting(r) /\ "TX_RUNNING" \in r.state
  /\ OpenConfirmed(r) /\ "TX_RUNNING" \in r.state => r.nodeAck /\ ~r.confirm.ack
  /\ OpenConfirmed(m) => (r.confirm.ack <=> m.confirm.ack)

LEMMA DoneBlockDecided ==
  ASSUME SentAtOnce, NEW m, Sound(m), Checkable(m), "MacDone" \in m.flags,
         NEW c \in Choices
  PROVE  Decided(DoneBlock(m, c), m)
<1> DEFINE r == DoneBlock(m, c)
<1>1. Drift(r, m) /\ Sound(r) /\ Calm(r)
  BY DoneBlockDrift, DoneBlockSound
<1>2. r.state \subseteq {"TX_RUNNING"}
  <2>1. r.state \subseteq States
    BY <1>1 DEF Sound, MacTypes
  <2> HIDE DEF r
  <2> QED
    BY <1>1, <2>1 DEF Drift, Calm, States, Checkable
<1>3. OpenConfirmed(r) => OpenConfirmed(m)
  BY <1>1 DEF Drift, OpenConfirmed
<1>4. CASE m.nodeAck
  <2>1. Owed(AbortBlock(m)) /\ AbortBlock(m).confirm = m.confirm
    <3>1. m \in MacTypes
      BY DEF Sound
    <3>2. m.confirm.ack => "McpsInd" \in m.flags
      BY <1>4 DEF Checkable, OpenConfirmed, Awaiting
    <3> QED
      BY <1>4, <3>1, <3>2, AbortBlockOwed DEF Checkable
  <2>2. Ruled(r, m)
    BY <2>1, DoneBlockRuled
  <2> HIDE DEF r
  <2> QED
    BY <1>1, <1>2, <2>2 DEF Ruled, Decided, r
<1>5. CASE ~m.nodeAck
  <2>1. ~r.nodeAck /\ ~OpenConfirmed(r) /\ ~OpenConfirmed(m)
    BY <1>1, <1>3, <1>5 DEF Drift, Checkable
  <2> QED
    BY <1>1, <1>2, <2>1 DEF Decided
<1> QED
  BY <1>4, <1>5

(* The callback's way out.                                                 *)
EventFields(r, m) ==
  /\ r.state = m.state
  /\ r.nodeAck = m.nodeAck
  /\ r.confirm = m.confirm
  /\ r.frame = m.frame
  /\ r.joined = m.joined
  /\ r.radio = m.radio
  /\ r.ackStale = m.ackStale
  /\ r.timers \subseteq m.timers \cup {"StateCheck"}
  /\ IF m.state = {}
     THEN /\ r.flags \subseteq m.flags \ {"McpsReq"}
          /\ "McpsInd" \in m.flags => "McpsInd" \in r.flags
     ELSE r.flags = m.flags /\ r.queue = m.queue

LEMMA EventBlockFields ==
  ASSUME NEW m \in MacTypes
  PROVE  EventFields(EventBlock(m), m)
<1>1. CASE m.state # {}
  <2> DEFINE timers == m.timers \cup {"StateCheck"}
             r == [m EXCEPT !.timers = timers]
  <2>1. EventBlock(m) = r
    BY <1>1 DEF EventBlock, Start
  <2>2. timers \subseteq m.timers \cup {"StateCheck"}
    OBVIOUS
  <2> HIDE DEF timers
  <2>3. EventFields(r, m)
    BY <1>1, <2>2 DEF MacTypes, EventFields
  <2> QED
    BY <2>1, <2>3
<1>2. CASE m.state = {}
  <2> DEFINE flags == m.flags \ {"McpsReq", "MacDone"}
             r == [m EXCEPT !.flags = flags]
             done == HandleCb(r.queue, r.mlme)
             left == IF done.queue.cnt > 0 THEN r.flags
                     ELSE r.flags \ {"MlmeReq"}
             s == [r EXCEPT !.queue = done.queue, !.mlme = done.conf,
                            !.flags = left]
  <2>1. EventBlock(m) \in {r, s}
    BY <1>2 DEF EventBlock, ConfirmMcps, ConfirmMlme
  <2>2. /\ r.flags = flags /\ r.state = m.state /\ r.nodeAck = m.nodeAck
        /\ r.confirm = m.confirm /\ r.frame = m.frame /\ r.joined = m.joined
        /\ r.radio = m.radio /\ r.ackStale = m.ackStale
        /\ r.timers = m.timers /\ DOMAIN r = DOMAIN m
    BY DEF MacTypes
  <2> HIDE DEF r
  <2>3. left \subseteq r.flags /\ ("McpsInd" \in r.flags => "McpsInd" \in left)
    OBVIOUS
  <2> HIDE DEF done, left
  <2>4. /\ s.flags = left /\ s.state = r.state /\ s.nodeAck = r.nodeAck
        /\ s.confirm = r.confirm /\ s.frame = r.frame /\ s.joined = r.joined
        /\ s.radio = r.radio /\ s.ackStale = r.ackStale
        /\ s.timers = r.timers
    BY <2>2 DEF MacTypes
  <2> HIDE DEF s
  <2> QED
    BY <1>2, <2>1, <2>2, <2>3, <2>4 DEF EventFields
<1> QED
  BY <1>1, <1>2

(* Class C listens again after an indication.                              *)
IndicationFields(r, m) ==
  /\ r.state = m.state
  /\ r.nodeAck = m.nodeAck
  /\ r.confirm = m.confirm
  /\ r.frame = m.frame
  /\ r.joined = m.joined
  /\ r.queue = m.queue
  /\ r.flags \subseteq m.flags
  /\ m.flags \ {"McpsInd", "McpsIndSkip"} \subseteq r.flags
  /\ r.ackStale = m.ackStale
  /\ r.timers \subseteq m.timers
  /\ r.radio # m.radio => m.radio = "IDLE" /\ r.radio = "RX_CONTINUOUS"
  /\ Class = "C" /\ "McpsInd" \in m.flags => r.radio # "IDLE"

(* OpenContinuousRx2 opens the window of an idle radio.                    *)
LEMMA OpenContinuousRx2Fields ==
  ASSUME Class = "C", NEW m \in MacTypes
  PROVE  LET r == OpenContinuousRx2(m)
         IN  /\ r.radio = IF m.radio = "IDLE" THEN "RX_CONTINUOUS" ELSE m.radio
             /\ r.state = m.state /\ r.flags = m.flags
             /\ r.nodeAck = m.nodeAck /\ r.joined = m.joined
             /\ r.confirm = m.confirm /\ r.frame = m.frame
             /\ r.queue = m.queue /\ r.nbRep = m.nbRep
             /\ r.ackStale = m.ackStale /\ r.timers \subseteq m.timers
             /\ DOMAIN r = DOMAIN m
<1> DEFINE timers == m.timers \ {"Rx2"}
           r == [m EXCEPT !.timers = timers, !.slot = "CLASS_C"]
           s == [m EXCEPT !.timers = timers, !.radio = "RX_CONTINUOUS",
                          !.slot = "CLASS_C"]
<1>1. OpenContinuousRx2(m) = IF m.radio # "IDLE" THEN r ELSE s
  BY DEF OpenContinuousRx2, RxWindow2, Stop, MacTypes
<1>2. timers \subseteq m.timers
  OBVIOUS
<1> HIDE DEF timers
<1> QED
  BY <1>1, <1>2 DEF MacTypes

LEMMA IndicationBlockFields ==
  ASSUME NEW m \in MacTypes
  PROVE  IndicationFields(IndicationBlock(m), m)
<1> DEFINE flags == m.flags \ {"McpsInd", "McpsIndSkip"}
           r == [m EXCEPT !.flags = flags]
<1>1. IndicationBlock(m) = IF "McpsInd" \in m.flags THEN Rest(r) ELSE m
  BY DEF IndicationBlock
<1>2. r \in MacTypes /\ r.flags = flags
      /\ r.state = m.state /\ r.nodeAck = m.nodeAck /\ r.joined = m.joined
      /\ r.confirm = m.confirm /\ r.frame = m.frame /\ r.queue = m.queue
      /\ r.radio = m.radio /\ r.ackStale = m.ackStale /\ r.timers = m.timers
  BY DEF MacTypes
<1>3. flags \subseteq m.flags
  OBVIOUS
<1> HIDE DEF r
<1>4. CASE "McpsInd" \notin m.flags
  BY <1>1, <1>4 DEF IndicationFields
<1>5. CASE "McpsInd" \in m.flags /\ Class # "C"
  BY <1>1, <1>2, <1>3, <1>5 DEF IndicationFields, Rest
<1>6. CASE "McpsInd" \in m.flags /\ Class = "C"
  BY <1>1, <1>2, <1>3, <1>6, OpenContinuousRx2Fields
     DEF IndicationFields, Rest
<1> QED
  BY <1>4, <1>5, <1>6

(* The acknowledgement timer keeps its mark, and no window is planned.     *)
SameTimers(r, m) ==
  /\ r.ackStale = m.ackStale
  /\ r.timers \subseteq m.timers \cup {"StateCheck"}

(* What a callback tells of the request it found.                          *)
Ends(r, m) ==
  /\ r.confirm.type = m.confirm.type
  /\ r.confirm.ack => m.confirm.ack
  /\ OpenConfirmed(m) /\ m.confirm.ack => r.confirm.ack
  /\ "McpsReq" \in r.flags => "McpsReq" \in m.flags
  /\ r.joined => m.joined

LEMMA OnMacStateCheckHeld ==
  ASSUME SentAtOnce, NEW m, Sound(m), Calm(m) \/ "MacDone" \in m.flags,
         Checkable(m), NEW c \in Choices
  PROVE  LET r == OnMacStateCheck(m, c)
         IN  /\ Held(r) /\ Ends(r, m) /\ SameTimers(r, m)
             /\ m.radio = "TX" => r.radio = "TX"
             /\ (Class = "C" /\ (m.radio # "IDLE" \/ "McpsInd" \in m.flags))
                  => r.radio # "IDLE"
<1> DEFINE s == Stop(m, {"StateCheck"})
           d == IF "MacDone" \in m.flags THEN DoneBlock(s, c) ELSE s
           e == EventBlock(d)
           r == IndicationBlock(e)
<1>1. /\ Sound(s) /\ s.state = m.state /\ s.flags = m.flags
      /\ s.queue = m.queue /\ s.nodeAck = m.nodeAck /\ s.retry = m.retry
      /\ s.confirm = m.confirm /\ s.frame = m.frame /\ s.radio = m.radio
      /\ s.joined = m.joined /\ s.ackStale = m.ackStale
      /\ s.timers \subseteq m.timers
  <2>1. /\ Sound(s) /\ s.state = m.state /\ s.flags = m.flags
        /\ s.queue = m.queue /\ s.timers \subseteq m.timers
    BY StopSound DEF Timers
  <2>2. /\ s.nodeAck = m.nodeAck /\ s.retry = m.retry
        /\ s.confirm = m.confirm /\ s.frame = m.frame /\ s.radio = m.radio
        /\ s.joined = m.joined /\ s.ackStale = m.ackStale
    BY DEF Stop, Sound, MacTypes
  <2> QED
    BY <2>1, <2>2
<1>2. OnMacStateCheck(m, c) = r
  BY DEF OnMacStateCheck
<1> HIDE DEF s
<1>3. Checkable(s)
  BY <1>1 DEF Checkable, Awaiting, OpenConfirmed
<1>4. Decided(d, s)
  <2>1. CASE "MacDone" \in m.flags
    BY <1>1, <1>3, <2>1, DoneBlockDecided
  <2>2. CASE "MacDone" \notin m.flags
    <3>1. s.state \subseteq {"TX_RUNNING"}
      BY <1>1, <1>3, <2>2 DEF Checkable, Calm, Sound, MacTypes, States
    <3>2. Drift(s, s)
      BY <1>1, DriftStays DEF Sound
    <3>3. s.nodeAck => Awaiting(s) /\ "TX_RUNNING" \in s.state
      BY <1>3, <3>1 DEF Checkable
    <3>4. OpenConfirmed(s) => s.nodeAck /\ ~s.confirm.ack
      BY <1>1, <1>3, <2>2 DEF Checkable
    <3> QED
      BY <1>1, <2>2, <3>1, <3>2, <3>3, <3>4 DEF Decided
  <2> QED
    BY <2>1, <2>2
<1> HIDE DEF d
<1>5. EventFields(e, d) /\ e \in MacTypes
  <2>1. Calm(d)
    BY <1>4 DEF Decided, Calm
  <2> QED
    BY <1>4, <2>1, EventBlockFields, EventBlockSettled
       DEF Decided, Sound, Settled
<1> HIDE DEF e
<1>6. IndicationFields(r, e)
  BY <1>5, IndicationBlockFields
<1> HIDE DEF r
<1>7. Held(r)
  <2>1. r.state \subseteq {"TX_RUNNING"} /\ r.state = d.state
    BY <1>4, <1>5, <1>6 DEF Decided, EventFields, IndicationFields
  <2>2. "McpsReq" \in r.flags =>
          /\ "TX_RUNNING" \in r.state /\ "McpsReq" \in d.flags
    BY <1>5, <1>6, <2>1 DEF EventFields, IndicationFields
  <2>3. r.nodeAck => Awaiting(r)
    <3> SUFFICES ASSUME r.nodeAck
                 PROVE  Awaiting(r)
      OBVIOUS
    <3>1. Awaiting(d) /\ d.state # {}
      BY <1>4, <1>5, <1>6 DEF Decided, EventFields, IndicationFields
    <3> QED
      BY <1>5, <1>6, <3>1 DEF Awaiting, EventFields, IndicationFields
  <2>4. OpenConfirmed(r) => r.nodeAck /\ ~r.confirm.ack
    <3> SUFFICES ASSUME OpenConfirmed(r)
                 PROVE  r.nodeAck /\ ~r.confirm.ack
      OBVIOUS
    <3>1. OpenConfirmed(d) /\ "TX_RUNNING" \in d.state
      BY <1>5, <1>6, <2>1, <2>2
         DEF OpenConfirmed, EventFields, IndicationFields
    <3> QED
      BY <1>4, <1>5, <1>6, <3>1 DEF Decided, EventFields, IndicationFields
  <2> QED
    BY <2>1, <2>2, <2>3, <2>4 DEF Held
<1>8. Drift(d, s) /\ (OpenConfirmed(s) => (d.confirm.ack <=> s.confirm.ack))
  BY <1>4 DEF Decided
<1>9. Ends(r, m)
  <2>1. /\ r.confirm = d.confirm /\ r.joined = d.joined
        /\ "McpsReq" \in r.flags => "McpsReq" \in d.flags
    BY <1>5, <1>6 DEF EventFields, IndicationFields
  <2>2. OpenConfirmed(s) <=> OpenConfirmed(m)
    BY <1>1 DEF OpenConfirmed
  <2> QED
    BY <1>1, <1>8, <2>1, <2>2 DEF Ends, Drift
<1>10. (Class = "C" /\ (m.radio # "IDLE" \/ "McpsInd" \in m.flags))
         => r.radio # "IDLE"
  <2>1. CASE Class = "C" /\ "McpsInd" \in m.flags
    <3>1. "McpsInd" \in e.flags
      BY <1>1, <1>5, <1>8, <2>1 DEF Drift, EventFields
    <3> QED
      BY <1>6, <2>1, <3>1 DEF IndicationFields
  <2>2. CASE m.radio # "IDLE"
    <3>1. e.radio # "IDLE"
      BY <1>1, <1>5, <1>8, <2>2 DEF Drift, EventFields
    <3> QED
      BY <1>6, <3>1 DEF IndicationFields
  <2> QED
    BY <2>1, <2>2
<1>11. m.radio = "TX" => r.radio = "TX"
  BY <1>1, <1>5, <1>6, <1>8 DEF Drift, EventFields, IndicationFields
<1>12. SameTimers(r, m)
  BY <1>1, <1>5, <1>6, <1>8
     DEF SameTimers, Drift, EventFields, IndicationFields
<1> QED
  BY <1>2, <1>7, <1>9, <1>10, <1>11, <1>12

-----------------------------------------------------------------------------
(* OnRadioRxDone.                                                          *)

(* In the callback: the ACK bit, if it answered the open request, has come *)
(* with an indication.                                                     *)
Hearing(m) ==
  /\ m.state \subseteq {"TX_RUNNING"}
  /\ "McpsReq" \in m.flags => "TX_RUNNING" \in m.state
  /\ m.nodeAck => Awaiting(m)
  /\ OpenConfirmed(m) => m.nodeAck
  /\ OpenConfirmed(m) /\ m.confirm.ack => "McpsInd" \in m.flags

(* The radio is at work, or an indication is due that will open the        *)
(* window: with the procedure that goes on, or, if IsRunning was left set, *)
(* with the next one.                                                      *)
Listening(m) ==
  \/ m.radio # "IDLE"
  \/ "McpsInd" \in m.flags /\ ("TX_RUNNING" \in m.state \/ m.ackStale)

(* In the callback: IsRunning is left set only in class C, and when no     *)
(* request is open.                                                        *)
Still(m) ==
  m.ackStale => /\ Class = "C" /\ "Rx1" \notin m.timers
                /\ "McpsReq" \notin m.flags

LEMMA StillStays ==
  ASSUME NEW m, Still(m), NEW r, SameTimers(r, m),
         "McpsReq" \in r.flags => "McpsReq" \in m.flags
  PROVE  Still(r)
BY DEF Still, SameTimers

(* A timer stopped in the middle of a procedure is not alone: the state    *)
(* check is armed.                                                         *)
LEMMA StopAckStill ==
  ASSUME NEW m, Settled(m), Hearing(m), Still(m), NEW c,
         m.nodeAck \/ Class = "C"
  PROVE  Still(StopAck(m, c)) /\ (m.nodeAck => ~AckAlone(m, c))
<1> DEFINE r == StopAck(m, c)
<1>1. /\ r.timers \subseteq m.timers /\ r.flags = m.flags
      /\ r.ackStale <=> m.ackStale \/ AckAlone(m, c)
  BY StopAckFields DEF Settled, Sound, Mild
<1> HIDE DEF r
<1>2. AckAlone(m, c) => /\ "Rx1" \notin m.timers
                        /\ "StateCheck" \notin m.timers
  BY DEF AckAlone
<1>3. AckAlone(m, c) => "McpsReq" \notin m.flags /\ ~m.nodeAck
  BY <1>2 DEF Settled, Watched, Hearing, Awaiting
<1> QED
  BY <1>1, <1>2, <1>3 DEF Still, r

LEMMA RxDoneAbortHeld ==
  ASSUME SentAtOnce, NEW m, Settled(m), Hearing(m), Still(m),
         ~m.confirm.ack, NEW c \in Choices
  PROVE  LET r == RxDoneAbort(m, c)
         IN  /\ Held(r) /\ Ends(r, m) /\ Still(r)
             /\ Class = "C" => r.radio # "IDLE"
<1> DEFINE state == m.state \cup {"RX_ABORT"}
           aborted == [m EXCEPT !.state = state]
           stopped == StopAck(aborted, c)
           timers == m.timers \ {"AckTimeout"}
           over == [aborted EXCEPT !.timers = timers, !.retry = TRUE]
           retried == IF m.nodeAck
                      THEN IF Class = "C" THEN Raise(over, {"MacDone"})
                                          ELSE over
                      ELSE aborted
           r == Raise(retried, {"McpsInd", "MacDone"})
<1>1. m \in MacTypes /\ Sound(m)
  BY DEF Settled, Sound
<1>2. RxDoneAbort(m, c) = OnMacStateCheck(r, c)
  <2>1. m.nodeAck => stopped = [aborted EXCEPT !.timers = timers]
    <3> SUFFICES ASSUME m.nodeAck
                 PROVE  stopped = [aborted EXCEPT !.timers = timers]
      OBVIOUS
    <3>1. ~AckAlone(m, c)
      BY StopAckStill
    <3>2. ~AckAlone(aborted, c)
      BY <1>1, <3>1 DEF AckAlone, MacTypes
    <3>3. (aborted.ackStale \/ AckAlone(aborted, c)) = aborted.ackStale
      BY <1>1, <3>2 DEF MacTypes
    <3>4. stopped = [aborted EXCEPT !.timers = timers,
                                    !.ackStale = aborted.ackStale]
      BY <1>1, <3>3 DEF StopAck, Stop, MacTypes
    <3> QED
      BY <1>1, <3>4 DEF MacTypes
  <2>2. m.nodeAck => OnAckTimeout(stopped)
                       = IF Class = "C" THEN Raise(over, {"MacDone"}) ELSE over
    BY <1>1, <2>1 DEF OnAckTimeout, MacTypes
  <2> QED
    BY <2>2 DEF RxDoneAbort
<1>3. state \in SUBSET States /\ timers \in SUBSET Timers
  BY <1>1 DEF MacTypes, States
<1>4. /\ "RX_ABORT" \in state /\ timers \subseteq m.timers
      /\ "TX_DELAYED" \in state <=> "TX_DELAYED" \in m.state
      /\ "TxDelayed" \in timers <=> "TxDelayed" \in m.timers
  OBVIOUS
<1> HIDE DEF state, timers
<1>5. /\ aborted \in MacTypes /\ over \in MacTypes
      /\ \A x \in {aborted, over} :
           /\ x.state = state /\ x.timers \in {m.timers, timers}
           /\ x.flags = m.flags /\ x.radio = m.radio /\ x.queue = m.queue
           /\ x.confirm = m.confirm /\ x.frame = m.frame
           /\ x.nodeAck = m.nodeAck /\ x.joined = m.joined
           /\ x.ackStale = m.ackStale
      /\ over.retry
  BY <1>1, <1>3 DEF MacTypes
<1>6. Sound(aborted) /\ Sound(over)
  BY <1>1, <1>4, <1>5 DEF Sound
<1> HIDE DEF aborted, over
<1>7. /\ Sound(retried)
      /\ retried.flags \in {m.flags, m.flags \cup {"MacDone"}}
      /\ retried.state = state /\ retried.radio = m.radio
      /\ retried.queue = m.queue /\ retried.confirm = m.confirm
      /\ retried.frame = m.frame /\ retried.nodeAck = m.nodeAck
      /\ retried.joined = m.joined /\ retried.ackStale = m.ackStale
      /\ retried.timers \subseteq m.timers
      /\ m.nodeAck => retried.retry
  <2> DEFINE x == Raise(over, {"MacDone"})
  <2>1. Sound(x)
    BY <1>6, RaiseSound DEF Flags
  <2>2. /\ x.flags = m.flags \cup {"MacDone"} /\ x.state = state
        /\ x.radio = m.radio /\ x.queue = m.queue /\ x.confirm = m.confirm
        /\ x.frame = m.frame /\ x.nodeAck = m.nodeAck /\ x.joined = m.joined
        /\ x.ackStale = m.ackStale /\ x.timers = over.timers
        /\ x.retry
    BY <1>5 DEF Raise, MacTypes
  <2> HIDE DEF x
  <2>3. retried \in {x, over, aborted} /\ (m.nodeAck => retried \in {x, over})
    BY DEF x
  <2> QED
    BY <1>4, <1>5, <1>6, <2>1, <2>2, <2>3
<1> HIDE DEF retried
<1>8. /\ Sound(r)
      /\ r.flags = m.flags \cup {"McpsInd", "MacDone"}
      /\ r.state = state /\ r.radio = m.radio /\ r.queue = m.queue
      /\ r.confirm = m.confirm /\ r.frame = m.frame
      /\ r.nodeAck = m.nodeAck /\ r.joined = m.joined
      /\ r.ackStale = m.ackStale /\ r.timers \subseteq m.timers
      /\ m.nodeAck => r.retry
  <2>1. Sound(r) /\ r.flags = m.flags \cup {"McpsInd", "MacDone"}
    BY <1>7, RaiseSound DEF Flags
  <2>2. /\ r.state = state /\ r.radio = m.radio /\ r.queue = m.queue
        /\ r.confirm = m.confirm /\ r.frame = m.frame
        /\ r.nodeAck = m.nodeAck /\ r.joined = m.joined
        /\ r.ackStale = m.ackStale /\ r.timers \subseteq m.timers
        /\ m.nodeAck => r.retry
    BY <1>7 DEF Raise, Sound, MacTypes
  <2> QED
    BY <2>1, <2>2
<1> HIDE DEF r
<1>9. Checkable(r)
  BY <1>4, <1>8 DEF Hearing, Checkable, Awaiting, OpenConfirmed
<1>10. /\ Held(OnMacStateCheck(r, c)) /\ Ends(OnMacStateCheck(r, c), r)
       /\ SameTimers(OnMacStateCheck(r, c), r)
       /\ Class = "C" => OnMacStateCheck(r, c).radio # "IDLE"
  BY <1>8, <1>9, OnMacStateCheckHeld
<1>11. Ends(OnMacStateCheck(r, c), m)
  BY <1>8, <1>10 DEF Ends, OpenConfirmed
<1>12. Still(OnMacStateCheck(r, c))
  BY <1>8, <1>10 DEF Still, SameTimers, Ends
<1> QED
  BY <1>2, <1>10, <1>11, <1>12

LEMMA RxEndHeld ==
  ASSUME SentAtOnce, NEW m, Settled(m), Hearing(m), Still(m),
         NEW c \in Choices
  PROVE  LET r == RxEnd(m, c)
         IN  /\ Held(r) /\ Ends(r, m) /\ Still(r)
             /\ (Class = "C" /\ (m.radio # "IDLE" \/ "McpsInd" \in m.flags))
                  => Listening(r)
<1> DEFINE stopped == StopAck(m, c)
           kept == CheckToDisableAckTimeout(m, c)
           r == Raise(kept, {"MacDone"})
<1>1. m \in MacTypes /\ Sound(m)
  BY DEF Settled, Sound
<1>2. /\ kept = m \/ (kept = stopped /\ (m.nodeAck \/ Class = "C"))
      /\ (\/ ~m.nodeAck /\ Class = "C"
          \/ m.nodeAck /\ m.confirm.ack) => kept = stopped
  BY DEF CheckToDisableAckTimeout
<1>3. \/ RxEnd(m, c) = kept /\ "AckTimeout" \in kept.timers
      \/ RxEnd(m, c) = kept /\ kept.ackStale
      \/ RxEnd(m, c) = OnMacStateCheck(r, c)
  BY DEF RxEnd, AckTimeoutIsRunning
<1> HIDE DEF kept
<1>4. m.nodeAck \/ Class = "C" => Still(stopped)
  BY StopAckStill
<1>5. /\ Sound(stopped)
      /\ stopped.state = m.state /\ stopped.flags = m.flags
      /\ stopped.radio = m.radio /\ stopped.queue = m.queue
      /\ stopped.confirm = m.confirm /\ stopped.frame = m.frame
      /\ stopped.nodeAck = m.nodeAck /\ stopped.joined = m.joined
      /\ "AckTimeout" \notin stopped.timers
  BY <1>1, StopAckFields, MildKeeps
<1> HIDE DEF stopped
<1>6. /\ Sound(kept) /\ Still(kept)
      /\ kept.state = m.state /\ kept.flags = m.flags
      /\ kept.radio = m.radio /\ kept.queue = m.queue
      /\ kept.confirm = m.confirm /\ kept.frame = m.frame
      /\ kept.nodeAck = m.nodeAck /\ kept.joined = m.joined
  BY <1>1, <1>2, <1>4, <1>5
<1>7. CASE RxEnd(m, c) = kept /\ "AckTimeout" \in kept.timers
  <2>1. kept = m /\ ~(m.nodeAck /\ m.confirm.ack)
        /\ (Class = "C" => m.nodeAck)
    BY <1>2, <1>5, <1>7
  <2>2. Held(m)
    BY <2>1 DEF Hearing, Held
  <2>3. Ends(m, m)
    BY DEF Ends
  <2>4. (Class = "C" /\ (m.radio # "IDLE" \/ "McpsInd" \in m.flags))
          => Listening(m)
    BY <2>1 DEF Hearing, Awaiting, Listening
  <2> QED
    BY <1>7, <2>1, <2>2, <2>3, <2>4
<1>8. CASE RxEnd(m, c) = kept /\ kept.ackStale
  <2>1. "McpsReq" \notin kept.flags /\ ~kept.nodeAck
    BY <1>6, <1>8 DEF Still, Hearing, Awaiting
  <2>2. Held(kept)
    BY <1>6, <2>1 DEF Hearing, Held, OpenConfirmed
  <2>3. Ends(kept, m)
    BY <1>6 DEF Ends
  <2>4. (m.radio # "IDLE" \/ "McpsInd" \in m.flags) => Listening(kept)
    BY <1>6, <1>8 DEF Listening
  <2> QED
    BY <1>6, <1>8, <2>2, <2>3, <2>4
<1>9. CASE RxEnd(m, c) = OnMacStateCheck(r, c)
  <2>1. /\ Sound(r)
        /\ r.state = m.state /\ r.flags = m.flags \cup {"MacDone"}
        /\ r.radio = m.radio /\ r.queue = m.queue
        /\ r.confirm = m.confirm /\ r.frame = m.frame
        /\ r.nodeAck = m.nodeAck /\ r.joined = m.joined
        /\ SameTimers(r, kept)
    <3>1. Sound(r) /\ r.flags = m.flags \cup {"MacDone"}
      BY <1>6, RaiseSound DEF Flags
    <3>2. /\ r.state = m.state /\ r.radio = m.radio /\ r.queue = m.queue
          /\ r.confirm = m.confirm /\ r.frame = m.frame
          /\ r.nodeAck = m.nodeAck /\ r.joined = m.joined
          /\ r.timers = kept.timers /\ r.ackStale = kept.ackStale
      BY <1>6 DEF Raise, Sound, MacTypes
    <3> QED
      BY <3>1, <3>2 DEF SameTimers
  <2> HIDE DEF r
  <2>2. Checkable(r)
    <3>1. "RX_ABORT" \notin m.state /\ "TX_DELAYED" \notin m.state
      BY DEF Hearing
    <3> QED
      BY <2>1, <3>1 DEF Hearing, Checkable, Awaiting, OpenConfirmed
  <2>3. /\ Held(OnMacStateCheck(r, c)) /\ Ends(OnMacStateCheck(r, c), r)
        /\ SameTimers(OnMacStateCheck(r, c), r)
        /\ (Class = "C" /\ (r.radio # "IDLE" \/ "McpsInd" \in r.flags))
             => OnMacStateCheck(r, c).radio # "IDLE"
    BY <2>1, <2>2, OnMacStateCheckHeld
  <2>4. Ends(OnMacStateCheck(r, c), m)
    BY <2>1, <2>3 DEF Ends, OpenConfirmed
  <2>5. Still(OnMacStateCheck(r, c))
    BY <1>6, <2>1, <2>3 DEF Still, SameTimers, Ends
  <2> QED
    BY <1>9, <2>1, <2>3, <2>4, <2>5 DEF Listening
<1> QED
  BY <1>3, <1>7, <1>8, <1>9

(* What the blocks of OnRadioRxDone leave alone.                           *)
SameOrder(r, m) ==
  /\ r.ackStale = m.ackStale
  /\ r.timers \subseteq m.timers
  /\ r.state = m.state
  /\ r.nodeAck = m.nodeAck
  /\ r.frame = m.frame
  /\ r.confirm.type = m.confirm.type
  /\ r.queue.cmn = m.queue.cmn

LEMMA HeardFields ==
  ASSUME NEW m, Settled(m), Held(m)
  PROVE  LET r == Heard(m)
         IN  /\ Settled(r) /\ Hearing(r) /\ SameOrder(r, m)
             /\ Fresh(m) /\ m.radio # "TX" => Still(r)
             /\ r.flags = m.flags /\ r.joined = m.joined /\ r.queue = m.queue
             /\ ~r.confirm.ack
<1> DEFINE timers == m.timers \ {"Rx2"}
           confirm == [m.confirm EXCEPT !.ack = FALSE]
           r == [m EXCEPT !.timers = timers, !.radio = "IDLE",
                          !.confirm = confirm]
<1>1. m \in MacTypes /\ m.confirm \in McpsConfirms
  BY DEF Settled, Sound, MacTypes
<1>2. Heard(m) = r
  BY <1>1 DEF Heard, Stop, MacTypes
<1>3. /\ confirm \in McpsConfirms /\ confirm.type = m.confirm.type
      /\ confirm.status = m.confirm.status /\ ~confirm.ack
  BY <1>1 DEF McpsConfirms
<1>4. /\ timers \in SUBSET Timers /\ timers \subseteq m.timers
      /\ "StateCheck" \in m.timers => "StateCheck" \in timers
      /\ "TxDelayed" \in timers <=> "TxDelayed" \in m.timers
  BY <1>1 DEF MacTypes
<1> HIDE DEF timers, confirm
<1>5. /\ r \in MacTypes /\ r.ackStale = m.ackStale
      /\ r.state = m.state /\ r.flags = m.flags /\ r.timers = timers
      /\ r.queue = m.queue /\ r.nodeAck = m.nodeAck /\ r.frame = m.frame
      /\ r.joined = m.joined /\ r.confirm = confirm /\ r.radio = "IDLE"
  BY <1>1, <1>3, <1>4 DEF MacTypes, Radios
<1> HIDE DEF r
<1>6. Settled(r)
  BY <1>4, <1>5 DEF Settled, Sound, Calm, Watched
<1>7. Hearing(r) /\ SameOrder(r, m)
  BY <1>3, <1>4, <1>5 DEF Held, Hearing, Awaiting, OpenConfirmed, SameOrder
<1>8. Fresh(m) /\ m.radio # "TX" => Still(r)
  BY <1>4, <1>5 DEF Fresh, Still
<1> QED
  BY <1>2, <1>3, <1>5, <1>6, <1>7, <1>8

LEMMA RxJoinAcceptFields ==
  ASSUME NEW m \in MacTypes, NEW f
  PROVE  LET r == RxJoinAccept(m, f)
         IN  /\ SameOrder(r, m) /\ r.radio = m.radio
             /\ r.flags = m.flags /\ r.confirm = m.confirm
             /\ r.joined => m.joined \/ JoinAccepted(m, f)
<1> DEFINE ok == SetStatus(m.queue, "JOIN", "OK")
           no == SetStatus(m.queue, "JOIN", "JOIN_FAIL")
           joined == [m EXCEPT !.queue = ok, !.joined = TRUE]
           failed == [m EXCEPT !.queue = no]
<1>1. \/ RxJoinAccept(m, f) = joined /\ JoinAccepted(m, f)
      \/ RxJoinAccept(m, f) = failed
      \/ RxJoinAccept(m, f) = m
  BY DEF RxJoinAccept
<1>2. ok.cmn = m.queue.cmn /\ no.cmn = m.queue.cmn
  BY DEF SetStatus, MacTypes, Queues
<1> HIDE DEF ok, no
<1>3. /\ SameOrder(joined, m) /\ joined.radio = m.radio
      /\ joined.flags = m.flags /\ joined.confirm = m.confirm
  BY <1>2 DEF MacTypes, SameOrder
<1>4. /\ SameOrder(failed, m) /\ failed.radio = m.radio
      /\ failed.flags = m.flags /\ failed.confirm = m.confirm
      /\ failed.joined = m.joined
  BY <1>2 DEF MacTypes, SameOrder
<1>5. SameOrder(m, m)
  BY DEF SameOrder
<1> HIDE DEF joined, failed
<1>6. CASE RxJoinAccept(m, f) = joined /\ JoinAccepted(m, f)
  BY <1>3, <1>6
<1>7. CASE RxJoinAccept(m, f) = failed
  BY <1>4, <1>7
<1>8. CASE RxJoinAccept(m, f) = m
  BY <1>5, <1>8
<1> QED
  BY <1>1, <1>6, <1>7, <1>8

LEMMA TakenFields ==
  ASSUME NEW m \in MacTypes, NEW f \in Frames
  PROVE  LET r == Taken(m, f)
         IN  /\ SameOrder(r, m) /\ r.radio = m.radio /\ r.joined = m.joined
             /\ r.confirm.status = "OK"
             /\ r.confirm.ack <=> /\ m.confirm.type = "CONFIRMED"
                                  /\ f.ack /\ ~f.bad
             /\ "McpsInd" \in r.flags
             /\ "McpsReq" \in r.flags <=> "McpsReq" \in m.flags
<1> DEFINE ack == m.confirm.type = "CONFIRMED" /\ f.ack /\ ~f.bad
           confirm == [m.confirm EXCEPT !.status = "OK", !.ack = ack]
           skip == IF f.skip \/ f.bad THEN {"McpsIndSkip"} ELSE {}
           flags == m.flags \cup {"McpsInd"} \cup skip
           taken == [m EXCEPT !.confirm = confirm, !.flags = flags]
<1>1. Taken(m, f) = taken
  BY DEF Taken
<1>2. m.confirm \in McpsConfirms
  BY DEF MacTypes
<1>3. /\ confirm.type = m.confirm.type /\ confirm.status = "OK"
      /\ confirm.ack <=> ack
  <2> HIDE DEF ack
  <2> QED
    BY <1>2 DEF McpsConfirms
<1>4. /\ "McpsInd" \in flags
      /\ "McpsReq" \in flags <=> "McpsReq" \in m.flags
  OBVIOUS
<1> HIDE DEF confirm, flags
<1>5. /\ taken.state = m.state /\ taken.queue = m.queue
      /\ taken.nodeAck = m.nodeAck /\ taken.frame = m.frame
      /\ taken.radio = m.radio /\ taken.joined = m.joined
      /\ taken.confirm = confirm /\ taken.flags = flags
      /\ taken.ackStale = m.ackStale /\ taken.timers = m.timers
  BY DEF MacTypes
<1> HIDE DEF taken
<1> QED
  BY <1>1, <1>3, <1>4, <1>5 DEF SameOrder

LEMMA ProcessMacCommandsFields ==
  ASSUME NEW m \in MacTypes, NEW cmd
  PROVE  LET r == ProcessMacCommands(m, cmd)
         IN  /\ SameOrder(r, m) /\ r.radio = m.radio /\ r.joined = m.joined
             /\ r.confirm = m.confirm /\ r.flags = m.flags
<1> DEFINE queue == IF IsCmdActive(m.queue, "LINK_CHECK")
                    THEN SetStatus(m.queue, "LINK_CHECK", "OK") ELSE m.queue
           answered == [m EXCEPT !.queue = queue]
           off == [m EXCEPT !.off = TRUE]
           lowest == [m EXCEPT !.dr = MinDr]
<1>1. ProcessMacCommands(m, cmd) \in {answered, off, lowest, m}
  <2>1. CASE cmd = "LINK_CHECK_ANS"
    BY <2>1 DEF ProcessMacCommands
  <2>2. CASE cmd = "DUTY_CYCLE_OFF"
    BY <2>2 DEF ProcessMacCommands
  <2>3. CASE cmd = "ADR_LOWEST"
    BY <2>3 DEF ProcessMacCommands
  <2>4. CASE cmd \notin {"LINK_CHECK_ANS", "DUTY_CYCLE_OFF", "ADR_LOWEST"}
    BY <2>4 DEF ProcessMacCommands
  <2> QED
    BY <2>1, <2>2, <2>3, <2>4
<1>2. queue.cmn = m.queue.cmn
  BY DEF SetStatus, MacTypes, Queues
<1> HIDE DEF queue
<1>3. ASSUME NEW x \in {answered, off, lowest, m}
      PROVE  /\ SameOrder(x, m) /\ x.radio = m.radio /\ x.joined = m.joined
             /\ x.confirm = m.confirm /\ x.flags = m.flags
  BY <1>2, <1>3 DEF MacTypes, SameOrder
<1> HIDE DEF answered, off, lowest
<1> QED
  BY <1>1, <1>3

LEMMA RxDataFields ==
  ASSUME NEW m \in MacTypes, NEW f \in Frames
  PROVE  LET r == RxData(m, f)
         IN  /\ SameOrder(r, m) /\ r.radio = m.radio /\ r.joined = m.joined
             /\ r.confirm.status = "OK"
             /\ r.confirm.ack <=> /\ m.confirm.type = "CONFIRMED"
                                  /\ f.ack /\ ~f.bad
             /\ "McpsInd" \in r.flags
             /\ "McpsReq" \in r.flags <=> "McpsReq" \in m.flags
<1> DEFINE t == Taken(m, f)
           r == ProcessMacCommands(t, f.cmd)
<1>1. RxData(m, f) \in {t, r}
  BY DEF RxData
<1>2. t \in MacTypes
  BY TakenMild DEF Mild
<1>3. /\ SameOrder(t, m) /\ t.radio = m.radio /\ t.joined = m.joined
      /\ t.confirm.status = "OK"
      /\ t.confirm.ack <=> /\ m.confirm.type = "CONFIRMED"
                           /\ f.ack /\ ~f.bad
      /\ "McpsInd" \in t.flags
      /\ "McpsReq" \in t.flags <=> "McpsReq" \in m.flags
  BY TakenFields
<1> HIDE DEF t
<1>4. /\ SameOrder(r, t) /\ r.radio = t.radio /\ r.joined = t.joined
      /\ r.confirm = t.confirm /\ r.flags = t.flags
  BY <1>2, ProcessMacCommandsFields
<1> HIDE DEF r
<1>5. SameOrder(r, m)
  BY <1>3, <1>4 DEF SameOrder
<1> QED
  BY <1>1, <1>3, <1>4, <1>5

(* What a frame of the air leaves: the request it found is answered or     *)
(* goes on, and a class C device that has joined listens.                  *)
Replied(r, m, f) ==
  /\ Held(r) /\ Still(r)
  /\ r.confirm.type = m.confirm.type
  /\ "McpsReq" \in r.flags => "McpsReq" \in m.flags
  /\ r.joined => m.joined \/ JoinAccepted(m, f)
  /\ OpenConfirmed(m) =>
       (r.confirm.ack <=> (f.kind = "DATA" /\ f.ack /\ ~f.bad))
  /\ Class = "C" /\ m.joined => Listening(r)

LEMMA HearingKept ==
  ASSUME NEW m, Hearing(m), NEW r, SameOrder(r, m), r.radio = m.radio,
         "McpsReq" \in r.flags <=> "McpsReq" \in m.flags,
         r.confirm.status \in {m.confirm.status, "OK"},
         r.confirm.ack => "McpsInd" \in r.flags
  PROVE  Hearing(r) /\ (Still(m) => Still(r))
BY DEF Hearing, Awaiting, OpenConfirmed, SameOrder, Still

LEMMA OnRadioRxDoneHeld ==
  ASSUME SentAtOnce, NEW m, Settled(m), Held(m), Fresh(m), m.radio # "TX",
         NEW f \in Frames, NEW c \in Choices
  PROVE  Replied(OnRadioRxDone(m, f, c), m, f)
<1> DEFINE h == Heard(m)
           j == RxJoinAccept(h, f)
           d == RxData(h, f)
           o == [h EXCEPT !.confirm.status = "OK"]
           p == Raise(h, {"McpsInd"})
           a == RxDoneAbort(h, c)
           r == OnRadioRxDone(m, f, c)
<1> SUFFICES Replied(r, m, f)
  OBVIOUS
<1>1. /\ f.kind \in {"JOIN_ACCEPT", "BAD_JOIN_ACCEPT"} =>
           r = IF m.joined THEN a ELSE RxEnd(j, c)
      /\ f.kind = "DATA" => r = RxEnd(d, c)
      /\ f.kind = "REPEATED" => r = RxDoneAbort(o, c)
      /\ f.kind = "ALIEN" => r = a
      /\ f.kind = "PROPRIETARY" => r = RxEnd(p, c)
      /\ f.kind = "UNKNOWN" => r = RxEnd(a, c)
  BY DEF OnRadioRxDone
<1> HIDE DEF r
<1>2. /\ Settled(h) /\ Hearing(h) /\ SameOrder(h, m) /\ Still(h)
      /\ h.flags = m.flags /\ h.joined = m.joined /\ h.queue = m.queue
      /\ ~h.confirm.ack
  BY HeardFields
<1> HIDE DEF h
<1>3. h \in MacTypes /\ Sound(h)
  BY <1>2 DEF Settled, Sound
<1>4. JoinAccepted(h, f) <=> JoinAccepted(m, f)
  BY <1>2 DEF JoinAccepted
<1>5. OpenConfirmed(h) <=> OpenConfirmed(m)
  BY <1>2 DEF OpenConfirmed, SameOrder
<1>6. CASE f.kind # "DATA" /\ r = a
  <2>1. /\ Held(a) /\ Ends(a, h) /\ Still(a)
        /\ Class = "C" => a.radio # "IDLE"
    BY <1>2, <1>3, RxDoneAbortHeld
  <2> HIDE DEF a
  <2> QED
    BY <1>2, <1>5, <1>6, <2>1 DEF Replied, Ends, Listening, SameOrder
<1>7. CASE f.kind = "REPEATED"
  <2> DEFINE confirm == [h.confirm EXCEPT !.status = "OK"]
  <2>1. /\ confirm \in McpsConfirms /\ confirm.status = "OK"
        /\ confirm.type = h.confirm.type /\ ~confirm.ack
    BY <1>2, <1>3, QueueAssumption DEF MacTypes, McpsConfirms
  <2>2. o = [h EXCEPT !.confirm = confirm]
    BY <1>3 DEF MacTypes
  <2> HIDE DEF confirm, o
  <2>3. /\ Alike(o, h) /\ SameOrder(o, h) /\ o.radio = h.radio
        /\ o.flags = h.flags /\ o.joined = h.joined /\ o.confirm = confirm
    BY <1>3, <2>1, <2>2 DEF Alike, MacTypes, SameOrder
  <2>4. Settled(o)
    BY <1>2, <2>3, AlikeKeeps DEF Settled
  <2>4a. Hearing(o) /\ Still(o)
    BY <1>2, <2>1, <2>3, HearingKept
  <2>5. /\ Held(r) /\ Ends(r, o) /\ Still(r)
        /\ Class = "C" => r.radio # "IDLE"
    BY <1>1, <1>7, <2>1, <2>3, <2>4, <2>4a, RxDoneAbortHeld
  <2> QED
    BY <1>2, <1>5, <1>7, <2>1, <2>3, <2>5
       DEF Replied, Ends, Listening, SameOrder
<1>8. CASE f.kind \in {"JOIN_ACCEPT", "BAD_JOIN_ACCEPT"} /\ ~m.joined
  <2>1. /\ SameOrder(j, h) /\ j.radio = h.radio
        /\ j.flags = h.flags /\ j.confirm = h.confirm
        /\ j.joined => h.joined \/ JoinAccepted(h, f)
    BY <1>3, RxJoinAcceptFields
  <2>2. Settled(j)
    BY <1>2, <1>3, RxJoinAcceptMild, MildKeeps
  <2> HIDE DEF j
  <2>3. Hearing(j) /\ Still(j)
    BY <1>2, <2>1, HearingKept
  <2>4. Held(r) /\ Ends(r, j) /\ Still(r)
    BY <1>1, <1>8, <2>2, <2>3, RxEndHeld
  <2> QED
    BY <1>2, <1>4, <1>5, <1>8, <2>1, <2>4 DEF Replied, Ends, SameOrder
<1>9. CASE f.kind = "DATA"
  <2>1. /\ SameOrder(d, h) /\ d.radio = h.radio /\ d.joined = h.joined
        /\ d.confirm.status = "OK"
        /\ d.confirm.ack <=> (h.confirm.type = "CONFIRMED" /\ f.ack /\ ~f.bad)
        /\ "McpsInd" \in d.flags
        /\ "McpsReq" \in d.flags <=> "McpsReq" \in h.flags
    BY <1>3, RxDataFields
  <2>2. Settled(d)
    BY <1>2, <1>3, RxDataMild, MildKeeps
  <2> HIDE DEF d
  <2>3. Hearing(d) /\ Still(d)
    BY <1>2, <2>1, HearingKept
  <2>4. /\ Held(r) /\ Ends(r, d) /\ Still(r)
        /\ Class = "C" => Listening(r)
    BY <1>1, <1>9, <2>1, <2>2, <2>3, RxEndHeld
  <2>5. OpenConfirmed(m) => (r.confirm.ack <=> (f.ack /\ ~f.bad))
    <3>1. OpenConfirmed(m) => OpenConfirmed(d) /\ h.confirm.type = "CONFIRMED"
      BY <1>2, <2>1 DEF OpenConfirmed, SameOrder
    <3> QED
      BY <2>1, <2>4, <3>1 DEF Ends
  <2> QED
    BY <1>2, <1>9, <2>1, <2>4, <2>5 DEF Replied, Ends, SameOrder
<1>10. CASE f.kind = "PROPRIETARY"
  <2>1. /\ SameOrder(p, h) /\ p.radio = h.radio /\ p.joined = h.joined
        /\ p.confirm = h.confirm /\ p.flags = h.flags \cup {"McpsInd"}
    BY <1>3 DEF Raise, MacTypes, SameOrder
  <2>2. Settled(p)
    BY <1>2, RaiseSound DEF Settled, Flags, Calm, Watched
  <2> HIDE DEF p
  <2>3. Hearing(p) /\ Still(p)
    BY <1>2, <2>1, HearingKept
  <2>4. /\ Held(r) /\ Ends(r, p) /\ Still(r)
        /\ Class = "C" => Listening(r)
    BY <1>1, <1>10, <2>1, <2>2, <2>3, RxEndHeld
  <2> QED
    BY <1>2, <1>5, <1>10, <2>1, <2>4 DEF Replied, Ends, SameOrder
<1>11. CASE f.kind = "UNKNOWN"
  <2>1. /\ Held(a) /\ Ends(a, h) /\ Still(a)
        /\ Class = "C" => a.radio # "IDLE"
    BY <1>2, <1>3, RxDoneAbortHeld
  <2>2. Settled(a)
    BY <1>3, RxDoneAbortSettled
  <2> HIDE DEF a
  <2>3. Hearing(a)
    BY <2>1 DEF Held, Hearing
  <2>4. /\ Held(r) /\ Ends(r, a) /\ Still(r)
        /\ Class = "C" => Listening(r)
    BY <1>1, <1>11, <2>1, <2>2, <2>3, RxEndHeld
  <2> QED
    BY <1>2, <1>5, <1>11, <2>1, <2>4 DEF Replied, Ends, SameOrder
<1>12. f.kind \in {"JOIN_ACCEPT", "BAD_JOIN_ACCEPT", "DATA", "REPEATED",
                   "ALIEN", "PROPRIETARY", "UNKNOWN"}
  BY DEF Frames
<1> QED
  BY <1>1, <1>6, <1>7, <1>8, <1>9, <1>10, <1>11, <1>12

-----------------------------------------------------------------------------
(* The other steps, as far as an open request and the radio go.            *)

Steady(r, m) ==
  /\ r.state = m.state
  /\ r.nodeAck = m.nodeAck
  /\ r.frame = m.frame
  /\ r.confirm.type = m.confirm.type
  /\ r.confirm.ack = m.confirm.ack
  /\ r.joined = m.joined
  /\ r.flags \ {"MacDone", "MlmeReq"} = m.flags \ {"MacDone", "MlmeReq"}
  /\ m.nodeAck => /\ r.confirm.status # "TX_TIMEOUT"
                  /\ r.queue.cmn # "TX_TIMEOUT"
                  /\ r.radio # "CW"

LEMMA SteadyHeld ==
  ASSUME NEW m, Held(m), NEW r, Steady(r, m)
  PROVE  /\ Held(r)
         /\ "McpsReq" \in r.flags <=> "McpsReq" \in m.flags
         /\ OpenConfirmed(r) <=> OpenConfirmed(m)
         /\ r.radio = m.radio /\ r.ackStale = m.ackStale /\ Listening(m)
              => Listening(r)
<1>1. /\ "McpsReq" \in r.flags <=> "McpsReq" \in m.flags
      /\ "McpsInd" \in r.flags <=> "McpsInd" \in m.flags
  BY DEF Steady
<1> QED
  BY <1>1 DEF Steady, Held, Awaiting, OpenConfirmed, Listening

LEMMA RadioToFields ==
  ASSUME NEW m \in MacTypes, NEW radio \in Radios
  PROVE  LET r == RadioTo(m, radio)
         IN  /\ r.radio = radio /\ r.state = m.state /\ r.flags = m.flags
             /\ r.nodeAck = m.nodeAck /\ r.joined = m.joined
             /\ r.confirm = m.confirm /\ r.frame = m.frame
             /\ r.queue = m.queue
             /\ r.ackStale = m.ackStale /\ r.timers = m.timers
             /\ r \in MacTypes
<1> DEFINE cut == m.cut \/ m.radio \in {"TX", "CW"}
           r == [m EXCEPT !.radio = radio, !.cut = cut]
<1>1. RadioTo(m, radio) = r
  BY DEF RadioTo
<1>2. r \in MacTypes
  BY <1>1, RadioToAlike DEF Alike
<1> HIDE DEF cut
<1> QED
  BY <1>1, <1>2 DEF MacTypes

LEMMA RxWindow1Steady ==
  ASSUME NEW m \in MacTypes, Held(m)
  PROVE  /\ Steady(RxWindow1(m), m) /\ RxWindow1(m).radio = "RX_SINGLE"
         /\ RxWindow1(m).ackStale = m.ackStale
<1> DEFINE ready == IF Class = "C" THEN RadioTo(m, "IDLE") ELSE m
           s == RadioTo(ready, "RX_SINGLE")
           r == [s EXCEPT !.timers = @ \ {"Rx1"}, !.slot = "WIN_1"]
<1>1. RxWindow1(m) = r
  BY DEF RxWindow1
<1>2. /\ ready \in MacTypes /\ ready.state = m.state /\ ready.flags = m.flags
      /\ ready.nodeAck = m.nodeAck /\ ready.joined = m.joined
      /\ ready.confirm = m.confirm /\ ready.frame = m.frame
      /\ ready.queue = m.queue /\ ready.ackStale = m.ackStale
  BY RadioToFields DEF Radios
<1> HIDE DEF ready
<1>3. /\ s.radio = "RX_SINGLE" /\ s.state = m.state /\ s.flags = m.flags
      /\ s.nodeAck = m.nodeAck /\ s.joined = m.joined
      /\ s.confirm = m.confirm /\ s.frame = m.frame
      /\ s.queue = m.queue /\ s.ackStale = m.ackStale
      /\ s \in MacTypes
  BY <1>2, RadioToFields DEF Radios
<1> HIDE DEF s
<1>4. /\ r.radio = s.radio /\ r.state = s.state /\ r.flags = s.flags
      /\ r.nodeAck = s.nodeAck /\ r.joined = s.joined
      /\ r.confirm = s.confirm /\ r.frame = s.frame /\ r.queue = s.queue
      /\ r.ackStale = s.ackStale
  BY <1>3 DEF MacTypes
<1> HIDE DEF r
<1> QED
  BY <1>1, <1>3, <1>4 DEF Steady, Held, Awaiting

LEMMA RxWindow2Fields ==
  ASSUME NEW m \in MacTypes
  PROVE  LET r == RxWindow2(m)
         IN  /\ r.radio = IF m.radio # "IDLE" THEN m.radio
                          ELSE IF Class = "C" THEN "RX_CONTINUOUS"
                          ELSE "RX_SINGLE"
             /\ r.state = m.state /\ r.flags = m.flags
             /\ r.nodeAck = m.nodeAck /\ r.joined = m.joined
             /\ r.confirm = m.confirm /\ r.frame = m.frame
             /\ r.queue = m.queue
             /\ r.ackStale = m.ackStale /\ r.timers \subseteq m.timers
<1> DEFINE timers == m.timers \ {"Rx2"}
           radio == IF Class = "C" THEN "RX_CONTINUOUS" ELSE "RX_SINGLE"
           r == [m EXCEPT !.timers = timers]
           s == [m EXCEPT !.timers = timers, !.radio = radio, !.slot = "WIN_2"]
<1>1. RxWindow2(m) = IF m.radio # "IDLE" THEN r ELSE s
  BY DEF RxWindow2, Stop, MacTypes
<1>2. timers \subseteq m.timers
  OBVIOUS
<1> HIDE DEF timers, radio
<1>3. /\ r.radio = m.radio /\ s.radio = radio
      /\ \A x \in {r, s} :
           /\ x.state = m.state /\ x.flags = m.flags
           /\ x.nodeAck = m.nodeAck /\ x.joined = m.joined
           /\ x.confirm = m.confirm /\ x.frame = m.frame
           /\ x.queue = m.queue
           /\ x.ackStale = m.ackStale /\ x.timers = timers
  BY DEF MacTypes
<1> HIDE DEF r, s
<1> QED
  BY <1>1, <1>2, <1>3 DEF radio

LEMMA OnAckTimeoutSteady ==
  ASSUME NEW m \in MacTypes, Held(m)
  PROVE  LET r == OnAckTimeout(Stop(m, {"AckTimeout"}))
         IN  /\ Steady(r, m) /\ r.radio = m.radio
             /\ r.ackStale = m.ackStale /\ r.timers \subseteq m.timers
<1> DEFINE retry == m.retry \/ m.nodeAck
           timers == m.timers \ {"AckTimeout"}
           flags == m.flags \cup {"MacDone"}
           r == [m EXCEPT !.timers = timers, !.retry = retry]
           s == [m EXCEPT !.timers = timers, !.retry = retry, !.flags = flags]
           x == OnAckTimeout(Stop(m, {"AckTimeout"}))
<1>1. x = IF Class = "C" THEN s ELSE r
  BY DEF OnAckTimeout, Stop, Raise, MacTypes
<1>2. timers \subseteq m.timers
  OBVIOUS
<1> HIDE DEF retry, timers, x
<1>3. flags \ {"MacDone", "MlmeReq"} = m.flags \ {"MacDone", "MlmeReq"}
  OBVIOUS
<1> HIDE DEF flags
<1>4. /\ Steady(r, m) /\ r.radio = m.radio
      /\ Steady(s, m) /\ s.radio = m.radio
      /\ r.ackStale = m.ackStale /\ r.timers = timers
      /\ s.ackStale = m.ackStale /\ s.timers = timers
  BY <1>3 DEF MacTypes, Steady, Held, Awaiting
<1> QED
  BY <1>1, <1>2, <1>4 DEF x

LEMMA EnqueueFields ==
  ASSUME NEW m, Settled(m), ~IsFull(m.queue), NEW service \in Requests,
         NEW status \in Statuses
  PROVE  LET r == Enqueue(m, service, status)
         IN  /\ Settled(r)
             /\ r.state = m.state /\ r.flags = m.flags \cup {"MlmeReq"}
             /\ r.nodeAck = m.nodeAck /\ r.joined = m.joined
             /\ r.confirm = m.confirm /\ r.frame = m.frame
             /\ r.radio = m.radio
             /\ r.ackStale = m.ackStale /\ r.timers = m.timers
<1> DEFINE s == Raise(m, {"MlmeReq"})
           queue == Add(s.queue, service, status, FALSE)
           r == [s EXCEPT !.queue = queue]
<1>1. Enqueue(m, service, status) = r
  BY DEF Enqueue
<1>2. /\ s \in MacTypes
      /\ s.state = m.state /\ s.flags = m.flags \cup {"MlmeReq"}
      /\ s.nodeAck = m.nodeAck /\ s.joined = m.joined
      /\ s.confirm = m.confirm /\ s.frame = m.frame
      /\ s.radio = m.radio
      /\ s.ackStale = m.ackStale /\ s.timers = m.timers
  BY DEF Settled, Sound, Raise, MacTypes, Flags
<1> HIDE DEF s, queue
<1>3. /\ r.state = s.state /\ r.flags = s.flags
      /\ r.nodeAck = s.nodeAck /\ r.joined = s.joined
      /\ r.confirm = s.confirm /\ r.frame = s.frame
      /\ r.radio = s.radio
      /\ r.ackStale = s.ackStale /\ r.timers = s.timers
  BY <1>2 DEF MacTypes
<1> QED
  BY <1>1, <1>2, <1>3, EnqueueSettled

(* What holds between two steps: no acknowledgement has come for the open  *)
(* confirmed request, and a class C device that has sent in its session    *)
(* listens.                                                                *)
SentInSession == \E a \in hist.aired : a.session = hist.session

Prompt ==
  /\ Held(mac)
  /\ Fresh(mac)
  /\ OpenConfirmed(mac) => ~hist.acked
  /\ \A a \in hist.aired : a.session <= hist.session
  /\ Class = "C" /\ mac.joined /\ SentInSession => Listening(mac)

(* What a step tells of the confirmed request it ends.                     *)
ToldRightly ==
  /\ "McpsReq" \in mac.flags /\ "McpsReq" \notin mac'.flags
  /\ mac.confirm.type = "CONFIRMED"
  => (mac'.confirm.ack <=> hist'.acked)

LEMMA FreshKept ==
  ASSUME NEW m, Fresh(m), NEW r, r.ackStale = m.ackStale,
         "Rx1" \in r.timers => "Rx1" \in m.timers,
         "McpsReq" \notin r.flags \/ r.radio = "TX"
  PROVE  Fresh(r)
BY DEF Fresh

LEMMA SteadyPrompt ==
  ASSUME Prompt, Steady(mac', mac), UNCHANGED hist,
         \/ mac'.radio = mac.radio
         \/ Class = "C" => mac'.radio # "IDLE",
         mac'.ackStale = mac.ackStale,
         "Rx1" \in mac'.timers => "Rx1" \in mac.timers,
         mac.ackStale /\ mac.radio = "TX" => mac'.radio = "TX"
  PROVE  Prompt' /\ ToldRightly
<1>1. /\ Held(mac')
      /\ "McpsReq" \in mac'.flags <=> "McpsReq" \in mac.flags
      /\ OpenConfirmed(mac') <=> OpenConfirmed(mac)
      /\ mac'.radio = mac.radio /\ Listening(mac) => Listening(mac')
  BY SteadyHeld DEF Prompt
<1>2. mac'.joined <=> mac.joined
  BY DEF Steady
<1>3. Class = "C" /\ Listening(mac) => Listening(mac')
  BY <1>1 DEF Listening
<1>4. SentInSession' <=> SentInSession
  BY DEF SentInSession
<1>5. Fresh(mac')
  BY <1>1 DEF Prompt, Fresh
<1> QED
  BY <1>1, <1>2, <1>3, <1>4, <1>5 DEF Prompt, ToldRightly

LEMMA IdlePrompt ==
  ASSUME Prompt, mac.state = {}
  PROVE  "McpsReq" \notin mac.flags /\ ~mac.nodeAck
BY DEF Prompt, Held, Awaiting

LEMMA JoinRequestPrompt ==
  ASSUME SentAtOnce, Settled(mac), Prompt, NEW c \in Choices, JoinRequest(c)
  PROVE  Prompt' /\ ToldRightly
<1> DEFINE q == Enqueue(mac, "JOIN", "JOIN_FAIL")
           confirm == [q.confirm EXCEPT !.ack = FALSE]
           r == [q EXCEPT !.joinTrials = 0, !.maxJoin = MaxJoinTrials,
                          !.confirm = confirm]
           p == PrepareJoin(r, c)
<1>1. /\ mac' = ScheduleTx(p, c) /\ UNCHANGED hist
      /\ ~IsFull(mac.queue) /\ mac.state = {}
  BY DEF JoinRequest, MlmeAllowed
<1>2. "McpsReq" \notin mac.flags /\ ~mac.nodeAck
  BY <1>1, IdlePrompt
<1>3. /\ Settled(q) /\ q.state = {} /\ "McpsReq" \notin q.flags
      /\ q.ackStale = mac.ackStale /\ q.timers = mac.timers
  BY <1>1, <1>2, EnqueueFields, QueueAssumption
<1> HIDE DEF q
<1>4. confirm \in McpsConfirms /\ MaxJoinTrials \in Nat
  BY <1>3, CountAssumption DEF Settled, Sound, MacTypes, McpsConfirms
<1> HIDE DEF confirm
<1>5. /\ r \in MacTypes /\ r.state = {} /\ "McpsReq" \notin r.flags
      /\ r.ackStale = mac.ackStale /\ r.timers = mac.timers
  BY <1>3, <1>4 DEF Settled, Sound, MacTypes
<1> HIDE DEF r
<1>6. /\ p \in MacTypes /\ Sendable(p)
      /\ p.state = {} /\ "McpsReq" \notin p.flags
      /\ ~p.nodeAck /\ ~p.joined
      /\ p.ackStale = mac.ackStale /\ p.timers = mac.timers
  BY <1>5, PrepareJoinFields
<1> HIDE DEF p
<1>7. OnAir(mac', p)
  BY <1>1, <1>6, ScheduledAtOnce
<1>8. /\ mac'.state = {"TX_RUNNING"} /\ "McpsReq" \notin mac'.flags
      /\ ~mac'.nodeAck /\ ~mac'.joined
      /\ mac'.ackStale = mac.ackStale
      /\ mac'.timers = mac.timers \cup {"StateCheck"}
  BY <1>6, <1>7 DEF OnAir, SameRequest
<1>9. Held(mac') /\ ~OpenConfirmed(mac')
  BY <1>8 DEF Held, OpenConfirmed
<1>10. Fresh(mac')
  BY <1>8, FreshKept DEF Prompt
<1> QED
  BY <1>1, <1>2, <1>8, <1>9, <1>10 DEF Prompt, ToldRightly

LEMMA LinkCheckRequestPrompt ==
  ASSUME Settled(mac), Prompt, NEW room \in BOOLEAN, LinkCheckRequest(room)
  PROVE  Prompt' /\ ToldRightly
<1> DEFINE asked == Enqueue(mac, "LINK_CHECK", "ERROR")
           back == RemoveLast(asked.queue)
           flags == IF back.cnt = 0 THEN asked.flags \ {"MlmeReq"}
                    ELSE asked.flags
           r == [asked EXCEPT !.nodeAck = FALSE, !.queue = back,
                              !.flags = flags]
<1>1. /\ mac' \in {asked, r} /\ UNCHANGED hist
      /\ ~IsFull(mac.queue) /\ mac.state = {}
  BY DEF LinkCheckRequest, MlmeAllowed
<1>2. "McpsReq" \notin mac.flags /\ ~mac.nodeAck
  BY <1>1, IdlePrompt
<1>3. /\ Settled(asked)
      /\ asked.state = mac.state /\ asked.flags = mac.flags \cup {"MlmeReq"}
      /\ asked.nodeAck = mac.nodeAck /\ asked.joined = mac.joined
      /\ asked.confirm = mac.confirm /\ asked.frame = mac.frame
      /\ asked.radio = mac.radio
      /\ asked.ackStale = mac.ackStale /\ asked.timers = mac.timers
  BY <1>1, EnqueueFields, QueueAssumption
<1> HIDE DEF asked, back
<1>4. flags \ {"MlmeReq"} = asked.flags \ {"MlmeReq"}
  OBVIOUS
<1> HIDE DEF flags
<1>5. /\ r.flags = flags /\ r.nodeAck = FALSE
      /\ r.state = asked.state /\ r.joined = asked.joined
      /\ r.confirm = asked.confirm /\ r.frame = asked.frame
      /\ r.radio = asked.radio
      /\ r.ackStale = asked.ackStale /\ r.timers = asked.timers
  BY <1>3 DEF Settled, Sound, MacTypes
<1> HIDE DEF r
<1>6. /\ Steady(mac', mac) /\ mac'.radio = mac.radio
      /\ mac'.ackStale = mac.ackStale /\ mac'.timers = mac.timers
  <2>1. CASE mac' = asked
    BY <1>2, <1>3, <2>1 DEF Steady
  <2>2. CASE mac' = r
    <3>1. r.flags \ {"MacDone", "MlmeReq"} = mac.flags \ {"MacDone", "MlmeReq"}
      BY <1>3, <1>4, <1>5
    <3>2. r.nodeAck = mac.nodeAck
      BY <1>2, <1>3, <1>5 DEF Settled, Sound, MacTypes
    <3> QED
      BY <1>2, <1>3, <1>5, <2>2, <3>1, <3>2 DEF Steady
  <2> QED
    BY <1>1, <2>1, <2>2
<1> QED
  BY <1>1, <1>6, SteadyPrompt

LEMMA ContinuousWaveRequestPrompt ==
  ASSUME Settled(mac), Prompt, ContinuousWaveRequest
  PROVE  Prompt' /\ ToldRightly
<1> DEFINE q == Enqueue(mac, "TXCW", "ERROR")
           w == RadioTo(q, "CW")
           s == Start(w, {"StateCheck"})
           state == s.state \cup {"TX_RUNNING"}
           r == [s EXCEPT !.state = state]
<1>1. /\ mac' = r /\ UNCHANGED hist
      /\ ~IsFull(mac.queue) /\ mac.state = {}
  BY DEF ContinuousWaveRequest, MlmeAllowed
<1>2. "McpsReq" \notin mac.flags /\ ~mac.nodeAck
  BY <1>1, IdlePrompt
<1>3. /\ Settled(q) /\ q.state = {}
      /\ "McpsReq" \notin q.flags /\ ~q.nodeAck
      /\ q.ackStale = mac.ackStale /\ q.timers = mac.timers
  BY <1>1, <1>2, EnqueueFields, QueueAssumption
<1> HIDE DEF q
<1>4. /\ w \in MacTypes /\ w.state = {} /\ w.radio = "CW"
      /\ "McpsReq" \notin w.flags /\ ~w.nodeAck
      /\ w.ackStale = mac.ackStale /\ w.timers = mac.timers
  BY <1>3, RadioToFields DEF Settled, Sound, Radios
<1> HIDE DEF w
<1>5. /\ s.state = {} /\ s.radio = "CW" /\ DOMAIN s = DOMAIN w
      /\ "McpsReq" \notin s.flags /\ ~s.nodeAck
      /\ s.ackStale = mac.ackStale
      /\ s.timers = mac.timers \cup {"StateCheck"}
  BY <1>4 DEF Start, MacTypes
<1>6. state = {"TX_RUNNING"}
  BY <1>5
<1> HIDE DEF s, state
<1>7. /\ r.state = state /\ r.radio = s.radio
      /\ r.flags = s.flags /\ r.nodeAck = s.nodeAck
      /\ r.ackStale = s.ackStale /\ r.timers = s.timers
  BY <1>4, <1>5 DEF MacTypes
<1> HIDE DEF r
<1>8. Held(r) /\ ~OpenConfirmed(r) /\ Listening(r)
  BY <1>5, <1>6, <1>7 DEF Held, OpenConfirmed, Listening
<1>9. Fresh(r)
  BY <1>5, <1>7, FreshKept DEF Prompt
<1> QED
  BY <1>1, <1>2, <1>8, <1>9 DEF Prompt, ToldRightly

LEMMA McpsRequestPrompt ==
  ASSUME SentAtOnce, Settled(mac), hist \in HistTypes, Prompt,
         NEW type \in McpsTypes, NEW long \in BOOLEAN, NEW c \in Choices,
         McpsRequest(type, long, c)
  PROVE  Prompt' /\ ToldRightly
<1> DEFINE confirm == [type |-> "UNCONFIRMED", status |-> "ERROR",
                       ack |-> FALSE, dr |-> 0]
           retries == IF type = "CONFIRMED" THEN NbTrials ELSE 1
           dr == IF AdrOn THEN mac.dr ELSE DefaultDr
           fresh == [mac EXCEPT !.confirm = confirm, !.ackCnt = 1,
                                !.ackRetries = retries, !.dr = dr]
           req == hist.reqs + 1
           built == PrepareFrame(fresh, type, req, long)
           sent  == ScheduleTx(built, c)
           raised == Raise(sent, {"McpsReq"})
           typed == [raised.confirm EXCEPT !.type = type]
           ok    == [raised EXCEPT !.confirm = typed]
           no    == [built EXCEPT !.nodeAck = FALSE]
<1>1. /\ mac.state \cap {"TX_RUNNING", "TX_DELAYED"} = {}
      /\ \/ /\ Buildable(fresh, type) /\ Sendable(built) /\ mac' = ok
            /\ hist' = [hist EXCEPT !.reqs = @ + 1, !.kind = type,
                                    !.drs = <<>>, !.acked = FALSE]
         \/ mac' = no /\ UNCHANGED hist
  BY DEF McpsRequest
<1>2. mac.state = {}
  BY <1>1 DEF Prompt, Held
<1>3. "McpsReq" \notin mac.flags /\ ~mac.nodeAck
  BY <1>2, IdlePrompt
<1>4. type \in McpsKinds /\ req \in Nat /\ mac \in MacTypes
  BY ChoiceAssumption DEF Settled, Sound, McpsKinds, HistTypes
<1>5. /\ confirm \in McpsConfirms /\ confirm.type = "UNCONFIRMED"
      /\ ~confirm.ack
  BY QueueAssumption DEF McpsConfirms, McpsKinds
<1>6. retries \in Nat /\ dr \in Datarates
  BY <1>4, CountAssumption, DatarateAssumption DEF MacTypes
<1> HIDE DEF confirm, retries, dr, req
<1>7. /\ fresh \in MacTypes
      /\ fresh.state = {} /\ fresh.flags = mac.flags
      /\ fresh.joined = mac.joined /\ fresh.radio = mac.radio
      /\ fresh.confirm = confirm /\ Alike(fresh, mac)
      /\ fresh.ackStale = mac.ackStale /\ fresh.timers = mac.timers
  BY <1>2, <1>4, <1>5, <1>6 DEF MacTypes, Alike
<1> HIDE DEF fresh
<1>8. /\ built \in MacTypes
      /\ built.state = {} /\ built.flags = mac.flags
      /\ built.joined = mac.joined /\ built.radio = mac.radio
      /\ built.confirm = confirm
      /\ built.ackStale = mac.ackStale /\ built.timers = mac.timers
      /\ built.nodeAck <=> type = "CONFIRMED"
      /\ Buildable(fresh, type) => built.frame.kind = type
  <2> DEFINE node == type = "CONFIRMED"
             frame == IF Buildable(fresh, type)
                      THEN [kind |-> type, fcnt |-> fresh.upCnt, req |-> req,
                            long |-> long]
                      ELSE NoFrame
  <2>1. built = [fresh EXCEPT !.nodeAck = node, !.frame = frame]
    BY DEF PrepareFrame
  <2>2. Buildable(fresh, type) => frame.kind = type
    OBVIOUS
  <2>3. built \in MacTypes
    BY <1>4, <1>7, PrepareFrameAlike DEF Alike
  <2> HIDE DEF built, node, frame
  <2>4. /\ built.state = fresh.state /\ built.flags = fresh.flags
        /\ built.joined = fresh.joined /\ built.radio = fresh.radio
        /\ built.confirm = fresh.confirm
        /\ built.ackStale = fresh.ackStale /\ built.timers = fresh.timers
        /\ built.nodeAck = node /\ built.frame = frame
    BY <1>7, <2>1 DEF MacTypes
  <2> QED
    BY <1>7, <2>2, <2>3, <2>4 DEF node
<1>9. CASE /\ Buildable(fresh, type) /\ Sendable(built) /\ mac' = ok
           /\ hist' = [hist EXCEPT !.reqs = @ + 1, !.kind = type,
                                   !.drs = <<>>, !.acked = FALSE]
  <2>1. OnAir(sent, built)
    BY <1>8, <1>9, ScheduledAtOnce
  <2>2. sent \in MacTypes
    <3>1. Alike(built, fresh)
      BY <1>4, <1>7, PrepareFrameAlike
    <3>2. Sound(built)
      BY <1>7, <3>1, AlikeKeeps DEF Settled
    <3> QED
      BY <3>2, ScheduleTxSound DEF Sound
  <2> HIDE DEF sent, built
  <2>3. /\ raised \in MacTypes
        /\ raised.flags = sent.flags \cup {"McpsReq"}
        /\ raised.state = sent.state /\ raised.radio = sent.radio
        /\ raised.joined = sent.joined /\ raised.nodeAck = sent.nodeAck
        /\ raised.frame = sent.frame /\ raised.confirm = sent.confirm
        /\ raised.queue = sent.queue
        /\ raised.ackStale = sent.ackStale /\ raised.timers = sent.timers
    BY <2>2 DEF Raise, MacTypes, Flags
  <2> HIDE DEF raised
  <2>4. /\ typed.type = type /\ typed.ack = raised.confirm.ack
        /\ typed.status = raised.confirm.status
    BY <2>3 DEF MacTypes, McpsConfirms
  <2> HIDE DEF typed
  <2>5. /\ ok.confirm = typed
        /\ ok.flags = raised.flags /\ ok.state = raised.state
        /\ ok.radio = raised.radio /\ ok.joined = raised.joined
        /\ ok.nodeAck = raised.nodeAck /\ ok.frame = raised.frame
        /\ ok.queue = raised.queue
        /\ ok.ackStale = raised.ackStale /\ ok.timers = raised.timers
    BY <2>3 DEF MacTypes
  <2> HIDE DEF ok
  <2>6. /\ ok.state = {"TX_RUNNING"} /\ ok.radio = "TX"
        /\ "McpsReq" \in ok.flags
        /\ ok.nodeAck <=> type = "CONFIRMED"
        /\ ok.frame.kind = type /\ ok.confirm.type = type
        /\ ok.confirm.status = "ERROR" /\ ok.queue.cmn = "ERROR"
        /\ ~ok.confirm.ack
    BY <1>5, <1>8, <1>9, <2>1, <2>3, <2>4, <2>5 DEF OnAir, SameRequest
  <2>7. Held(ok) /\ Listening(ok)
    BY <2>6 DEF Held, Awaiting, OpenConfirmed, Listening
  <2>8. /\ ~hist'.acked /\ hist'.aired = hist.aired
        /\ hist'.session = hist.session
    BY <1>9 DEF HistTypes
  <2>9. /\ ok.ackStale = mac.ackStale
        /\ ok.timers = mac.timers \cup {"StateCheck"}
    BY <1>8, <2>1, <2>3, <2>5 DEF OnAir, SameRequest
  <2>10. Fresh(ok)
    BY <2>6, <2>9, FreshKept DEF Prompt
  <2> QED
    BY <1>3, <1>9, <2>7, <2>8, <2>10 DEF Prompt, ToldRightly
<1>10. CASE mac' = no /\ UNCHANGED hist
  <2> HIDE DEF built
  <2>1. /\ no.state = {} /\ no.flags = mac.flags /\ ~no.nodeAck
        /\ no.joined = mac.joined /\ no.radio = mac.radio
        /\ no.ackStale = mac.ackStale /\ no.timers = mac.timers
    BY <1>8 DEF MacTypes
  <2> HIDE DEF no
  <2>2. Held(no) /\ ~OpenConfirmed(no)
    BY <1>3, <2>1 DEF Held, OpenConfirmed
  <2>3. Fresh(no)
    BY <1>3, <2>1, FreshKept DEF Prompt
  <2>4. Listening(mac) => Listening(no)
    BY <1>2, <2>1 DEF Listening
  <2> QED
    BY <1>3, <1>10, <2>1, <2>2, <2>3, <2>4
       DEF Prompt, ToldRightly, SentInSession
<1> QED
  BY <1>1, <1>9, <1>10

(* Class C listens at once, class A in its windows.                        *)
LEMMA RestFields ==
  ASSUME NEW m \in MacTypes
  PROVE  LET r == Rest(m)
         IN  /\ r \in MacTypes
             /\ r.state = m.state /\ r.flags = m.flags
             /\ r.nodeAck = m.nodeAck /\ r.joined = m.joined
             /\ r.confirm = m.confirm /\ r.frame = m.frame
             /\ r.queue = m.queue /\ r.nbRep = m.nbRep
             /\ r.ackStale = m.ackStale /\ r.timers \subseteq m.timers
             /\ Class = "C" => r.radio # "IDLE"
             /\ m.radio # "CW" => r.radio # "CW"
<1>1. Rest(m) \in MacTypes
  BY RestMild DEF Mild
<1>2. CASE Class = "C"
  BY <1>1, <1>2, OpenContinuousRx2Fields DEF Rest
<1>3. CASE Class # "C"
  BY <1>1, <1>3 DEF Rest
<1> QED
  BY <1>2, <1>3

LEMMA OnRadioTxDonePrompt ==
  ASSUME mac \in MacTypes, hist \in HistTypes, Prompt, OnRadioTxDone
  PROVE  Prompt' /\ ToldRightly
<1> DEFINE idle == [mac EXCEPT !.radio = "IDLE"]
           s == Rest(idle)
           timers == s.timers \cup {"Rx1"}
                       \cup (IF Class = "A" THEN {"Rx2"} ELSE {})
                       \cup (IF Class = "C" \/ mac.nodeAck
                             THEN {"AckTimeout"} ELSE {})
           status == IF mac.nodeAck THEN s.confirm.status ELSE "OK"
           confirm == [s.confirm EXCEPT !.status = status]
           nbRep == IF mac.nodeAck THEN s.nbRep ELSE s.nbRep + 1
           stale == s.ackStale /\ ~(Class = "C" \/ mac.nodeAck)
           r == [s EXCEPT !.timers = timers, !.ackStale = stale,
                          !.confirm = confirm, !.nbRep = nbRep]
           sending == [session |-> hist.session, fcnt |-> mac.frame.fcnt,
                       req |-> mac.frame.req]
           drs == Append(hist.drs, mac.confirm.dr)
<1>1. mac' = r
  BY DEF OnRadioTxDone
<1>2. \/ hist' = hist
      \/ hist' = [hist EXCEPT !.aired = @ \cup {sending}, !.drs = drs]
  BY DEF OnRadioTxDone
<1>3. /\ idle \in MacTypes /\ idle.radio = "IDLE"
      /\ idle.state = mac.state /\ idle.flags = mac.flags
      /\ idle.nodeAck = mac.nodeAck /\ idle.joined = mac.joined
      /\ idle.confirm = mac.confirm /\ idle.frame = mac.frame
      /\ idle.queue = mac.queue /\ idle.ackStale = mac.ackStale
  BY DEF MacTypes, Radios
<1> HIDE DEF idle
<1>4. /\ s \in MacTypes
      /\ s.state = mac.state /\ s.flags = mac.flags
      /\ s.nodeAck = mac.nodeAck /\ s.joined = mac.joined
      /\ s.confirm = mac.confirm /\ s.frame = mac.frame
      /\ s.queue = mac.queue /\ s.ackStale = mac.ackStale
      /\ Class = "C" => s.radio # "IDLE"
      /\ s.radio # "CW"
  BY <1>3, RestFields
<1> HIDE DEF s
<1>5. /\ confirm.type = mac.confirm.type /\ confirm.ack = mac.confirm.ack
      /\ confirm.status = status
  <2> HIDE DEF status
  <2> QED
    BY <1>4 DEF MacTypes, McpsConfirms
<1>5a. ~stale
  BY <1>4 DEF Prompt, Fresh
<1> HIDE DEF confirm, timers, nbRep, stale
<1>6. /\ r.state = s.state /\ r.flags = s.flags
      /\ r.ackStale = stale
      /\ r.nodeAck = s.nodeAck /\ r.joined = s.joined
      /\ r.confirm = confirm /\ r.frame = s.frame
      /\ r.queue = s.queue /\ r.radio = s.radio
  BY <1>4 DEF MacTypes
<1> HIDE DEF r
<1>7. Steady(r, mac)
  BY <1>4, <1>5, <1>6 DEF Steady, Prompt, Held, Awaiting
<1>8. /\ Held(r)
      /\ "McpsReq" \in r.flags <=> "McpsReq" \in mac.flags
      /\ OpenConfirmed(r) <=> OpenConfirmed(mac)
  BY <1>7, SteadyHeld DEF Prompt
<1>9. Class = "C" => Listening(r)
  BY <1>4, <1>6 DEF Listening
<1>10. /\ hist'.acked = hist.acked /\ hist'.session = hist.session
       /\ hist'.aired \subseteq hist.aired \cup {sending}
  <2> HIDE DEF sending, drs
  <2> QED
    BY <1>2 DEF HistTypes
<1>11. hist.session <= hist.session
  BY DEF HistTypes
<1>12. Fresh(r)
  BY <1>5a, <1>6 DEF Fresh
<1> QED
  BY <1>1, <1>8, <1>9, <1>10, <1>11, <1>12 DEF Prompt, ToldRightly

LEMMA OnRadioTxTimeoutPrompt ==
  ASSUME SentAtOnce, mac \in MacTypes, Prompt, OnRadioTxTimeout
  PROVE  Prompt' /\ ToldRightly
<1> DEFINE idle == [mac EXCEPT !.radio = "IDLE"]
           w == Rest(idle)
           s == Raise(w, {"MacDone"})
           confirm == [s.confirm EXCEPT !.status = "TX_TIMEOUT"]
           queue == SetStatusCmn(s.queue, "TX_TIMEOUT")
           r == [s EXCEPT !.confirm = confirm, !.queue = queue]
<1>1. mac' = r /\ UNCHANGED hist /\ mac.radio = "CW"
  BY DEF OnRadioTxTimeout, SentAtOnce
<1>2. ~mac.nodeAck
  BY <1>1 DEF Prompt, Held, Awaiting
<1>3. /\ idle \in MacTypes
      /\ idle.state = mac.state /\ idle.flags = mac.flags
      /\ idle.nodeAck = mac.nodeAck /\ idle.joined = mac.joined
      /\ idle.confirm = mac.confirm /\ idle.frame = mac.frame
      /\ idle.ackStale = mac.ackStale /\ idle.timers = mac.timers
  BY DEF MacTypes, Radios
<1> HIDE DEF idle
<1>4. /\ w \in MacTypes
      /\ w.state = mac.state /\ w.flags = mac.flags
      /\ w.nodeAck = mac.nodeAck /\ w.joined = mac.joined
      /\ w.confirm = mac.confirm /\ w.frame = mac.frame
      /\ w.ackStale = mac.ackStale /\ w.timers \subseteq mac.timers
      /\ Class = "C" => w.radio # "IDLE"
  BY <1>3, RestFields
<1> HIDE DEF w
<1>5. /\ s \in MacTypes
      /\ s.state = mac.state /\ s.flags = mac.flags \cup {"MacDone"}
      /\ s.nodeAck = mac.nodeAck /\ s.joined = mac.joined
      /\ s.confirm = mac.confirm /\ s.frame = mac.frame
      /\ s.radio = w.radio
      /\ s.ackStale = mac.ackStale /\ s.timers = w.timers
  BY <1>4 DEF Raise, MacTypes, Flags
<1> HIDE DEF s
<1>6. confirm.type = mac.confirm.type /\ confirm.ack = mac.confirm.ack
  BY <1>5 DEF MacTypes, McpsConfirms
<1> HIDE DEF confirm, queue
<1>7. /\ r.state = s.state /\ r.flags = s.flags
      /\ r.nodeAck = s.nodeAck /\ r.joined = s.joined
      /\ r.confirm = confirm /\ r.frame = s.frame /\ r.radio = s.radio
      /\ r.ackStale = s.ackStale /\ r.timers = s.timers
  BY <1>5 DEF MacTypes
<1> HIDE DEF r
<1>8. r.flags \ {"MacDone", "MlmeReq"} = mac.flags \ {"MacDone", "MlmeReq"}
  BY <1>5, <1>7
<1>9. Steady(r, mac)
  BY <1>2, <1>5, <1>6, <1>7, <1>8 DEF Steady
<1>10. Class = "C" => r.radio # "IDLE"
  BY <1>4, <1>5, <1>7
<1>11. r.ackStale = mac.ackStale /\ r.timers \subseteq mac.timers
  BY <1>4, <1>5, <1>7
<1> QED
  BY <1>1, <1>9, <1>10, <1>11, SteadyPrompt

LEMMA OnRadioRxFailedPrompt ==
  ASSUME mac \in MacTypes, Prompt, NEW idle \in BOOLEAN, NEW late \in BOOLEAN,
         OnRadioRxFailed(idle, late)
  PROVE  Prompt' /\ ToldRightly
<1> DEFINE radio == IF idle THEN "IDLE" ELSE mac.radio
           status == IF mac.nodeAck THEN "RX_FAIL" ELSE mac.confirm.status
           confirm == [mac.confirm EXCEPT !.status = status]
           queue == SetStatusCmn(mac.queue, "RX_FAIL")
           failed == [mac EXCEPT !.radio = radio, !.confirm = confirm,
                                 !.queue = queue]
           kept == IF mac.slot = "WIN_1" THEN Stop(failed, {"Rx2"}) ELSE failed
<1>1. /\ UNCHANGED hist /\ mac.radio \in {"RX_SINGLE", "RX_CONTINUOUS"}
      /\ IF Class = "C" THEN mac' = OpenContinuousRx2(failed)
                        ELSE mac' \in {failed, Raise(kept, {"MacDone"})}
  BY DEF OnRadioRxFailed
<1>2. /\ confirm \in McpsConfirms
      /\ confirm.type = mac.confirm.type /\ confirm.ack = mac.confirm.ack
      /\ mac.nodeAck => confirm.status = "RX_FAIL"
  BY QueueAssumption DEF MacTypes, McpsConfirms
<1>3. queue \in Queues /\ queue.cmn = "RX_FAIL"
  BY SetStatusCmnTypes, QueueAssumption DEF MacTypes
<1>4. radio \in Radios /\ radio # "CW"
  BY <1>1 DEF Radios
<1> HIDE DEF radio, confirm, queue
<1>5. /\ failed \in MacTypes
      /\ failed.state = mac.state /\ failed.flags = mac.flags
      /\ failed.nodeAck = mac.nodeAck /\ failed.joined = mac.joined
      /\ failed.confirm = confirm /\ failed.frame = mac.frame
      /\ failed.queue = queue /\ failed.radio = radio
      /\ failed.ackStale = mac.ackStale /\ failed.timers = mac.timers
  BY <1>2, <1>3, <1>4 DEF MacTypes
<1> HIDE DEF failed
<1>6. Steady(failed, mac)
  BY <1>2, <1>3, <1>4, <1>5 DEF Steady
<1>7. CASE Class = "C"
  <2> DEFINE r == OpenContinuousRx2(failed)
  <2>1. /\ r.state = mac.state /\ r.flags = mac.flags
        /\ r.nodeAck = mac.nodeAck /\ r.joined = mac.joined
        /\ r.confirm = confirm /\ r.frame = mac.frame
        /\ r.queue = queue
        /\ r.radio = IF radio = "IDLE" THEN "RX_CONTINUOUS" ELSE radio
        /\ r.ackStale = mac.ackStale /\ r.timers \subseteq mac.timers
    BY <1>5, <1>7, OpenContinuousRx2Fields
  <2> HIDE DEF r
  <2>2. Steady(r, mac) /\ r.radio # "IDLE"
    BY <1>2, <1>3, <1>4, <2>1 DEF Steady
  <2> QED
    BY <1>1, <1>7, <2>1, <2>2, SteadyPrompt DEF r
<1>8. CASE Class # "C"
  <2> DEFINE timers == failed.timers \ {"Rx2"}
             s == [failed EXCEPT !.timers = timers]
             r == Raise(kept, {"MacDone"})
  <2>1. kept \in {failed, s}
    BY DEF Stop, MacTypes
  <2> HIDE DEF kept
  <2>2. timers \in SUBSET Timers /\ timers \subseteq mac.timers
    BY <1>5 DEF MacTypes
  <2> HIDE DEF timers
  <2>3. /\ kept \in MacTypes
        /\ kept.state = mac.state /\ kept.flags = mac.flags
        /\ kept.nodeAck = mac.nodeAck /\ kept.joined = mac.joined
        /\ kept.confirm = confirm /\ kept.frame = mac.frame
        /\ kept.queue = queue /\ kept.radio = radio
        /\ kept.ackStale = mac.ackStale /\ kept.timers \subseteq mac.timers
    BY <1>5, <2>1, <2>2 DEF MacTypes
  <2>4. /\ r.state = mac.state /\ r.flags = mac.flags \cup {"MacDone"}
        /\ r.nodeAck = mac.nodeAck /\ r.joined = mac.joined
        /\ r.confirm = confirm /\ r.frame = mac.frame
        /\ r.queue = queue /\ r.radio = radio
        /\ r.ackStale = mac.ackStale /\ r.timers \subseteq mac.timers
    BY <2>3 DEF Raise, MacTypes
  <2> HIDE DEF r
  <2>5. r.flags \ {"MacDone", "MlmeReq"} = mac.flags \ {"MacDone", "MlmeReq"}
    BY <2>4
  <2>6. Steady(r, mac)
    BY <1>2, <1>3, <1>4, <2>4, <2>5 DEF Steady
  <2>7. mac' \in {failed, r}
    BY <1>1, <1>8 DEF r
  <2> QED
    BY <1>1, <1>5, <1>6, <1>8, <2>4, <2>6, <2>7, SteadyPrompt
<1> QED
  BY <1>7, <1>8

(* A join accept opens a session in which nothing has been sent.           *)
LEMMA OnRadioRxDoneEventPrompt ==
  ASSUME SentAtOnce, Settled(mac), hist \in HistTypes, Prompt,
         NEW f \in Downlinks, NEW c \in Choices, OnRadioRxDoneEvent(f, c)
  PROVE  Prompt' /\ ToldRightly
<1> DEFINE session == IF JoinAccepted(mac, f) THEN hist.session + 1
                      ELSE hist.session
           answer == f.kind = "DATA" /\ f.ack /\ ~f.bad
           acked == hist.acked \/ (answer /\ mac.confirm.type = "CONFIRMED")
<1>1. f \in Frames
  BY ChoiceAssumption
<1>2. /\ mac' = OnRadioRxDone(mac, f, c)
      /\ hist' = [hist EXCEPT !.session = session, !.acked = acked]
  BY DEF OnRadioRxDoneEvent
<1>3. /\ hist'.session = session /\ hist'.aired = hist.aired
      /\ hist'.acked <=> acked
  <2> HIDE DEF session, acked
  <2> QED
    BY <1>2 DEF HistTypes
<1>4. Replied(mac', mac, f)
  BY <1>1, <1>2, OnRadioRxDoneHeld DEF Prompt, OnRadioRxDoneEvent
<1>4a. Fresh(mac')
  BY <1>4 DEF Replied, Still, Fresh
<1>5. \A a \in hist.aired : a.session \in Nat /\ a.session <= hist.session
  BY DEF HistTypes, Prompt
<1>6. hist.session \in Nat
  BY DEF HistTypes
<1>7. \A a \in hist'.aired : a.session <= hist'.session
  BY <1>3, <1>5, <1>6
<1>8. OpenConfirmed(mac') => OpenConfirmed(mac)
  BY <1>4 DEF Replied, OpenConfirmed
<1>9. OpenConfirmed(mac) => (mac'.confirm.ack <=> hist'.acked)
  <2>1. OpenConfirmed(mac) => (mac'.confirm.ack <=> answer)
    BY <1>4 DEF Replied
  <2>2. OpenConfirmed(mac) => ~hist.acked /\ mac.confirm.type = "CONFIRMED"
    BY DEF Prompt, OpenConfirmed
  <2> QED
    BY <1>3, <2>1, <2>2
<1>10. OpenConfirmed(mac') => ~hist'.acked
  BY <1>4, <1>8, <1>9 DEF Replied, Held
<1>11. Class = "C" /\ mac'.joined /\ SentInSession' => Listening(mac')
  <2>1. CASE JoinAccepted(mac, f)
    <3>1. ~SentInSession'
      BY <1>3, <1>5, <1>6, <2>1 DEF SentInSession
    <3> QED
      BY <3>1
  <2>2. CASE ~JoinAccepted(mac, f)
    BY <1>4, <2>2 DEF Replied
  <2> QED
    BY <2>1, <2>2
<1> QED
  BY <1>4, <1>4a, <1>7, <1>9, <1>10, <1>11
     DEF Replied, Prompt, ToldRightly, OpenConfirmed

LEMMA OnMacStateCheckPrompt ==
  ASSUME SentAtOnce, Settled(mac), Prompt, NEW c \in Choices,
         mac' = OnMacStateCheck(mac, c), UNCHANGED hist
  PROVE  Prompt' /\ ToldRightly
<1>1. Checkable(mac)
  BY DEF Prompt, Held, Awaiting, Checkable
<1>2. /\ Held(mac') /\ Ends(mac', mac)
      /\ (Class = "C" /\ (mac.radio # "IDLE" \/ "McpsInd" \in mac.flags))
           => mac'.radio # "IDLE"
      /\ SameTimers(mac', mac)
      /\ mac.radio = "TX" => mac'.radio = "TX"
  BY <1>1, OnMacStateCheckHeld DEF Settled
<1>2a. Fresh(mac')
  BY <1>2 DEF Prompt, Fresh, SameTimers, Ends
<1>3. OpenConfirmed(mac') => OpenConfirmed(mac)
  BY <1>2 DEF Ends, OpenConfirmed
<1>4. OpenConfirmed(mac) => ~mac'.confirm.ack /\ ~hist.acked
  BY <1>2 DEF Ends, Prompt, Held
<1>5. Class = "C" /\ mac'.joined /\ SentInSession' => Listening(mac')
  BY <1>2 DEF Ends, Prompt, Listening, SentInSession
<1> QED
  BY <1>2, <1>2a, <1>3, <1>4, <1>5 DEF Prompt, ToldRightly, OpenConfirmed

-----------------------------------------------------------------------------
(* The inductive invariant of a device whose frames are sent at once.      *)

InvP == Inv /\ Prompt

LEMMA InitPrompt == Init => InvP
<1> SUFFICES ASSUME Init
             PROVE  Prompt
  BY InitInv DEF InvP
<1>1. /\ mac.state = {} /\ mac.flags = {} /\ ~mac.nodeAck /\ ~mac.joined
      /\ hist.aired = {} /\ ~mac.ackStale
  BY DEF Init
<1> QED
  BY <1>1 DEF Prompt, Held, Fresh, OpenConfirmed

LEMMA NextPrompt ==
  ASSUME SentAtOnce, InvP, [Next]_vars
  PROVE  InvP' /\ ToldRightly
<1>1. Inv /\ Settled(mac) /\ mac \in MacTypes /\ hist \in HistTypes /\ Prompt
  BY DEF InvP, Inv, Settled, Sound
<1>2. Inv'
  BY <1>1, NextInv
<1> SUFFICES Prompt' /\ ToldRightly
  BY <1>2 DEF InvP
<1>3. ASSUME NEW c \in Choices, JoinRequest(c)
      PROVE  Prompt' /\ ToldRightly
  BY <1>1, <1>3, JoinRequestPrompt
<1>4. ASSUME NEW room \in BOOLEAN, LinkCheckRequest(room)
      PROVE  Prompt' /\ ToldRightly
  BY <1>1, <1>4, LinkCheckRequestPrompt
<1>5. CASE ContinuousWaveRequest
  BY <1>1, <1>5, ContinuousWaveRequestPrompt
<1>6. ASSUME NEW type \in McpsTypes, NEW long \in BOOLEAN, NEW c \in Choices,
             McpsRequest(type, long, c)
      PROVE  Prompt' /\ ToldRightly
  BY <1>1, <1>6, McpsRequestPrompt
<1>7. CASE OnRadioTxDone
  BY <1>1, <1>7, OnRadioTxDonePrompt
<1>8. CASE OnRadioTxTimeout
  BY <1>1, <1>8, OnRadioTxTimeoutPrompt
<1>9. ASSUME NEW idle \in BOOLEAN, NEW late \in BOOLEAN,
             OnRadioRxFailed(idle, late)
      PROVE  Prompt' /\ ToldRightly
  BY <1>1, <1>9, OnRadioRxFailedPrompt
<1>10. ASSUME NEW f \in Downlinks, NEW c \in Choices, OnRadioRxDoneEvent(f, c)
       PROVE  Prompt' /\ ToldRightly
  BY <1>1, <1>10, OnRadioRxDoneEventPrompt
<1>11. CASE OnRxWindow1TimerEvent
  <2>1. /\ Steady(RxWindow1(mac), mac) /\ RxWindow1(mac).radio = "RX_SINGLE"
        /\ RxWindow1(mac).ackStale = mac.ackStale
    BY <1>1, RxWindow1Steady DEF Prompt
  <2>2. ~mac.ackStale /\ "Rx1" \in mac.timers
    BY <1>1, <1>11 DEF Prompt, Fresh, OnRxWindow1TimerEvent
  <2> QED
    BY <1>1, <1>11, <2>1, <2>2, SteadyPrompt DEF OnRxWindow1TimerEvent
<1>12. CASE OnRxWindow2TimerEvent
  <2> DEFINE r == RxWindow2(mac)
  <2>1. /\ r.radio = IF mac.radio # "IDLE" THEN mac.radio
                     ELSE IF Class = "C" THEN "RX_CONTINUOUS" ELSE "RX_SINGLE"
        /\ r.state = mac.state /\ r.flags = mac.flags
        /\ r.nodeAck = mac.nodeAck /\ r.joined = mac.joined
        /\ r.confirm = mac.confirm /\ r.frame = mac.frame
        /\ r.queue = mac.queue
        /\ r.ackStale = mac.ackStale /\ r.timers \subseteq mac.timers
    BY <1>1, RxWindow2Fields
  <2> HIDE DEF r
  <2>2. Steady(r, mac) /\ (Class = "C" => r.radio # "IDLE")
    BY <1>1, <2>1 DEF Steady, Prompt, Held, Awaiting
  <2> QED
    BY <1>1, <1>12, <2>1, <2>2, SteadyPrompt DEF OnRxWindow2TimerEvent, r
<1>13. CASE OnAckTimeoutTimerEvent
  <2>1. LET r == OnAckTimeout(Stop(mac, {"AckTimeout"}))
        IN  /\ Steady(r, mac) /\ r.radio = mac.radio
            /\ r.ackStale = mac.ackStale /\ r.timers \subseteq mac.timers
    BY <1>1, OnAckTimeoutSteady DEF Prompt
  <2> QED
    BY <1>1, <1>13, <2>1, SteadyPrompt DEF OnAckTimeoutTimerEvent
<1>14. ASSUME NEW c \in Choices, OnTxDelayedTimerEvent(c)
       PROVE  Prompt' /\ ToldRightly
  <2>1. "TxDelayed" \notin mac.timers
    BY <1>1 DEF Settled, Sound, Prompt, Held
  <2> QED
    BY <1>14, <2>1 DEF OnTxDelayedTimerEvent
<1>15. ASSUME NEW c \in Choices, OnMacStateCheckTimerEvent(c)
       PROVE  Prompt' /\ ToldRightly
  BY <1>1, <1>15, OnMacStateCheckPrompt DEF OnMacStateCheckTimerEvent
<1>16. CASE UNCHANGED vars
  BY <1>1, <1>16
     DEF vars, Prompt, Held, Fresh, Awaiting, OpenConfirmed, SentInSession,
         Listening, ToldRightly
<1> QED
  BY <1>3, <1>4, <1>5, <1>6, <1>7, <1>8, <1>9, <1>10, <1>11, <1>12, <1>13,
     <1>14, <1>15, <1>16 DEF Next

(* Between two callbacks of such a device the state check runs while a     *)
(* request is open, and a confirmed request is one that waits.             *)
THEOREM PromptKept ==
  ASSUME SentAtOnce
  PROVE  Spec => []InvP
<1>1. InvP /\ [Next]_vars => InvP'
  BY NextPrompt
<1> QED
  BY <1>1, InitPrompt, PTL DEF Spec

(* A class C device that sends its frames at once, and whose radio ends    *)
(* each of them, listens or sends whenever the MAC is idle, from the first *)
(* frame of a session to the next join: aborted, repeated and unreadable   *)
(* frames, receive errors, lost acknowledgements and continuous waves      *)
(* included.  The one exception, which ListensAtRest names, is an          *)
(* indication that OnRadioRxDone leaves to the next procedure because it   *)
(* found IsRunning set in a timer that TimerStop had stopped.              *)
THEOREM ListensThroughout ==
  ASSUME SentAtOnce
  PROVE  Spec => []ListensAtRest
<1>1. InvP => ListensAtRest
  BY DEF InvP, Prompt, Listening, SentInSession, ListensAtRest
<1> QED
  BY <1>1, PromptKept, PTL

(* Its open data request, whatever its class, is never one that the MAC    *)
(* has stopped working on, so that a new request cannot replace it.        *)
THEOREM RequestCarriedAtOnce ==
  ASSUME SentAtOnce
  PROVE  Spec => []RequestCarried
<1>1. InvP => RequestCarried
  BY DEF InvP, Prompt, Held, RequestCarried
<1> QED
  BY <1>1, PromptKept, PTL

(* It awaits an acknowledgement only for the open confirmed request.       *)
THEOREM AckAwaitedAtOnce ==
  ASSUME SentAtOnce
  PROVE  Spec => []AckAwaited
<1>1. InvP => AckAwaited
  BY DEF InvP, Prompt, Held, Awaiting, AckAwaited
<1> QED
  BY <1>1, PromptKept, PTL

(* In class C too, where the acknowledgement may come in the continuous    *)
(* window at any time, a confirmed request is reported as acknowledged     *)
(* exactly when a valid downlink with the ACK bit has come.                *)
THEOREM AckToldAtOnce ==
  ASSUME SentAtOnce
  PROVE  Spec => AckReported
<1>1. InvP /\ [Next]_vars =>
        [(/\ "McpsReq" \in mac.flags /\ "McpsReq" \notin mac'.flags
          /\ mac.confirm.type = "CONFIRMED")
           => (mac'.confirm.ack <=> hist'.acked)]_vars
  BY NextPrompt DEF ToldRightly
<1> QED
  BY <1>1, PromptKept, PTL DEF Spec, AckReported
=============================================================================
