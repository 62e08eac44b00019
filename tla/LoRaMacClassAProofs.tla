------------------------ MODULE LoRaMacClassAProofs ------------------------
(***************************************************************************)
(* What holds of a class A device whose transmissions end by TxDone, which *)
(* sends no continuous wave and hears no frame of an unknown type: no      *)
(* transmission is cut short, an open request is always being carried, an  *)
(* acknowledgement is awaited for the right request, and reported if and   *)
(* only if it came.  If it asks for no link check either, the frame        *)
(* counters follow the requests, a session ends only by a new join request *)
(* and a join is reported as it went; and if its server does not change    *)
(* the datarate, the retries follow the table of LoRaMac.h.                *)
(*                                                                         *)
(* All of them rest on the windows: while the radio sends, or a window is  *)
(* open or to come, nothing else of the MAC is due.                        *)
(***************************************************************************)
EXTENDS LoRaMacProofs

ClassAOnly ==
  /\ Class = "A"
  /\ ~TxTimeouts
  /\ "TXCW" \notin Services
  /\ \A f \in Downlinks : f.kind # "UNKNOWN"

(* The radio does nothing and no window is to come.                        *)
Quiet(m) == m.radio = "IDLE" /\ m.timers \cap {"Rx1", "Rx2"} = {}

Busy(m) == m.state \cap {"TX_RUNNING", "TX_DELAYED"} # {}

(* The radio: while it sends no window is to come, and an open window is   *)
(* the last one armed or the first of two.                                 *)
Aired(m) ==
  /\ m.radio \in {"IDLE", "TX", "RX_SINGLE"}
  /\ ~m.cut
  /\ m.radio = "TX" => m.timers \cap {"Rx1", "Rx2"} = {}
  /\ m.radio = "RX_SINGLE" => "Rx1" \notin m.timers
  /\ m.radio = "RX_SINGLE" /\ m.slot # "WIN_1" => "Rx2" \notin m.timers

(* The state check has work to do, or a frame waits, or nothing is sent:   *)
(* only when the windows are over.                                         *)
InTurn(m) ==
  /\ \/ "MacDone" \in m.flags
     \/ "TX_DELAYED" \in m.state
     \/ "TX_RUNNING" \notin m.state
     => Quiet(m)
  /\ "MacDone" \in m.flags => "TX_DELAYED" \notin m.state
  /\ "TX_DELAYED" \in m.state => Sendable(m)

NoTimeout(m) ==
  m.confirm.status # "TX_TIMEOUT" /\ m.queue.cmn # "TX_TIMEOUT"

(* Whose acknowledgement is awaited.                                       *)
Owned(m) ==
  /\ m.retry => m.nodeAck
  /\ m.nodeAck => /\ "McpsReq" \in m.flags
                  /\ m.confirm.type = "CONFIRMED"
                  /\ m.frame.kind = "CONFIRMED"
  /\ m.confirm.type = "CONFIRMED" => m.frame.kind \in {"CONFIRMED", "JOIN"}
  /\ Busy(m) /\ m.frame.kind = "CONFIRMED" => m.nodeAck

(* Every block of a callback leaves this.                                  *)
Kept(m) == Aired(m) /\ InTurn(m) /\ NoTimeout(m) /\ Owned(m)

(* The ACK bit has answered the request that waits, in this callback.      *)
Answered(m) == m.confirm.ack => m.nodeAck /\ "McpsInd" \in m.flags

(* What holds between two callbacks.                                       *)
Between(m) ==
  /\ Kept(m)
  /\ "McpsReq" \in m.flags => Busy(m)
  /\ Busy(m) => ~m.confirm.ack
  /\ m.flags \cap {"MacDone", "McpsInd"} # {} =>
       "TX_RUNNING" \in m.state /\ "TX_DELAYED" \notin m.state

-----------------------------------------------------------------------------
(* The IsRunning of the acknowledgement timer: only TimerStop can leave it *)
(* set, and only TxDone clears it.                                         *)

SameMark(r, m) == DOMAIN r = DOMAIN m /\ r.ackStale = m.ackStale

LEMMA MarkedTransitive ==
  ASSUME NEW x, NEW y, NEW z, SameMark(x, y), SameMark(y, z)
  PROVE  SameMark(x, z)
BY DEF SameMark

LEMMA SendFrameMarked ==
  ASSUME NEW m, "ackStale" \in DOMAIN m
  PROVE  SameMark(SendFrameOnChannel(m), m)
<1> DEFINE s == RadioTo(m, "TX")
<1>1. SameMark(s, m)
  BY DEF RadioTo, SameMark
<1> HIDE DEF s
<1>2. SameMark(SendFrameOnChannel(m), s)
  BY <1>1 DEF SendFrameOnChannel, SameMark, s
<1> QED
  BY <1>1, <1>2, MarkedTransitive

LEMMA ScheduleTxMarked ==
  ASSUME NEW m, "ackStale" \in DOMAIN m, NEW c
  PROVE  SameMark(ScheduleTx(m, c), m)
BY SendFrameMarked DEF ScheduleTx, SameMark

LEMMA PrepareFrameMarked ==
  ASSUME NEW m, "ackStale" \in DOMAIN m, NEW kind, NEW req, NEW long
  PROVE  SameMark(PrepareFrame(m, kind, req, long), m)
BY DEF PrepareFrame, SameMark

LEMMA PrepareJoinMarked ==
  ASSUME NEW m, "ackStale" \in DOMAIN m, NEW c
  PROVE  SameMark(PrepareJoin(m, c), m)
<1> DEFINE s == [ResetMacParameters(m) EXCEPT !.dr = c.joinDr]
<1>1. SameMark(s, m)
  BY DEF ResetMacParameters, SameMark
<1> HIDE DEF s
<1>2. SameMark(PrepareFrame(s, "JOIN", 0, FALSE), s)
  BY <1>1, PrepareFrameMarked DEF SameMark
<1>3. PrepareJoin(m, c) = PrepareFrame(s, "JOIN", 0, FALSE)
  BY DEF PrepareJoin, s
<1> QED
  BY <1>1, <1>2, <1>3, MarkedTransitive

LEMMA OnTxDelayedMarked ==
  ASSUME NEW m, "ackStale" \in DOMAIN m, NEW c
  PROVE  SameMark(OnTxDelayed(m, c), m)
<1> DEFINE due == [Stop(m, {"TxDelayed"}) EXCEPT !.state = @ \ {"TX_DELAYED"}]
           p == IF JoinRequested(due) THEN PrepareJoin(due, c) ELSE due
<1>1. OnTxDelayed(m, c) = ScheduleTx(p, c)
  BY DEF OnTxDelayed
<1>2. SameMark(due, m)
  BY DEF Stop, SameMark
<1> HIDE DEF due
<1>3. SameMark(p, due)
  BY <1>2, PrepareJoinMarked DEF SameMark
<1> HIDE DEF p
<1>4. SameMark(ScheduleTx(p, c), p)
  BY <1>2, <1>3, ScheduleTxMarked DEF SameMark
<1> QED
  BY <1>1, <1>2, <1>3, <1>4, MarkedTransitive

LEMMA UnacknowledgedBlockMarked ==
  ASSUME NEW m, "ackStale" \in DOMAIN m, NEW c
  PROVE  SameMark(UnacknowledgedBlock(m, c), m)
<1> DEFINE s == [m EXCEPT !.flags = @ \ {"MacDone"}]
           over == StopRunning(m)
<1>1. SameMark(m, m) /\ SameMark(s, m) /\ SameMark(over, m)
  BY DEF StopRunning, SameMark
<1>2. SameMark(SendAgain(m, c), m)
  <2>1. SendAgain(m, c) = OnTxDelayed(s, c)
    BY DEF SendAgain
  <2> HIDE DEF s
  <2>2. SameMark(OnTxDelayed(s, c), s)
    BY <1>1, OnTxDelayedMarked DEF SameMark
  <2> QED
    BY <1>1, <2>1, <2>2, MarkedTransitive
<1> HIDE DEF over, s
<1>3. /\ SameMark([over EXCEPT !.upCnt = 0, !.nbRep = 0], m)
      /\ SameMark([over EXCEPT !.nbRep = 0, !.upCnt = @ + 1], m)
  BY <1>1 DEF SameMark
<1>4. SameMark(JoinBlock(m, c), m)
  BY <1>1, <1>2, <1>3 DEF JoinBlock, over
<1>5. SameMark(RepetitionBlock(m, c), m)
  BY <1>2, <1>3 DEF RepetitionBlock, over
<1> QED
  BY <1>1, <1>4, <1>5 DEF UnacknowledgedBlock

LEMMA RetryBlockMarked ==
  ASSUME NEW m, "ackStale" \in DOMAIN m, NEW c
  PROVE  SameMark(RetryBlock(m, c), m)
<1> DEFINE n == NextTry(m)
           last == [m EXCEPT !.retry = FALSE]
           sent == ScheduleTx(n, c)
<1>1. SameMark(m, m) /\ SameMark(n, m) /\ SameMark(last, m)
  BY DEF NextTry, SameMark
<1> HIDE DEF n, last
<1>2. /\ SameMark(GiveUp(last), last)
      /\ SameMark(GiveUp(n), n)
  BY <1>1 DEF GiveUp, StopRunning, SameMark
<1>3. SameMark(GiveUpTooLong(n), GiveUp(n))
  BY <1>1, <1>2 DEF GiveUpTooLong, SameMark
<1>4. SameMark(sent, n)
  BY <1>1, ScheduleTxMarked DEF SameMark
<1> HIDE DEF sent
<1>5. SameMark([sent EXCEPT !.flags = @ \ {"MacDone"}], sent)
  BY <1>1, <1>4 DEF SameMark
<1>6. RetryBlock(m, c) \in {m, GiveUp(last), GiveUpTooLong(n),
                            [sent EXCEPT !.flags = @ \ {"MacDone"}]}
  BY DEF RetryBlock, n, last, sent
<1> QED
  BY <1>1, <1>2, <1>3, <1>4, <1>5, <1>6, MarkedTransitive

LEMMA DoneBlockMarked ==
  ASSUME NEW m, "ackStale" \in DOMAIN m, NEW c
  PROVE  SameMark(DoneBlock(m, c), m)
<1> DEFINE a == AbortBlock(m)
           t == TxTimeoutBlock(a)
           u == UnacknowledgedBlock(t, c)
           d == ReceivedBlock(u)
<1>1. SameMark(a, m)
  BY DEF AbortBlock, SameMark
<1> HIDE DEF a
<1>2. SameMark(t, a)
  BY <1>1 DEF TxTimeoutBlock, StopRunning, SameMark
<1> HIDE DEF t
<1>3. SameMark(u, t)
  BY <1>1, <1>2, UnacknowledgedBlockMarked DEF SameMark
<1> HIDE DEF u
<1>4. SameMark(d, u)
  BY <1>1, <1>2, <1>3 DEF ReceivedBlock, StopRunning, SameMark
<1>5. DoneBlock(m, c) = RetryBlock(d, c)
  BY DEF DoneBlock, a, t, u
<1> HIDE DEF d
<1>6. SameMark(RetryBlock(d, c), d)
  BY <1>1, <1>2, <1>3, <1>4, RetryBlockMarked DEF SameMark
<1> QED
  BY <1>1, <1>2, <1>3, <1>4, <1>5, <1>6 DEF SameMark

LEMMA OnMacStateCheckMarked ==
  ASSUME Class = "A", NEW m, "ackStale" \in DOMAIN m, NEW c
  PROVE  SameMark(OnMacStateCheck(m, c), m)
<1> DEFINE s == Stop(m, {"StateCheck"})
           d == IF "MacDone" \in m.flags THEN DoneBlock(s, c) ELSE s
           e == EventBlock(d)
           r == IndicationBlock(e)
<1>1. SameMark(s, m)
  BY DEF Stop, SameMark
<1>2. OnMacStateCheck(m, c) = r
  BY DEF OnMacStateCheck
<1> HIDE DEF s
<1>3. SameMark(d, s)
  BY <1>1, DoneBlockMarked DEF SameMark
<1> HIDE DEF d
<1>4. SameMark(e, d)
  <2> DEFINE x == ConfirmMcps(d)
  <2>1. SameMark(Start(d, {"StateCheck"}), d) /\ SameMark(x, d)
    BY <1>1, <1>3 DEF Start, ConfirmMcps, SameMark
  <2> HIDE DEF x
  <2>2. SameMark(ConfirmMlme(x), x)
    BY <1>1, <1>3, <2>1 DEF ConfirmMlme, SameMark
  <2> QED
    BY <2>1, <2>2, MarkedTransitive DEF EventBlock, x
<1> HIDE DEF e
<1>5. SameMark(r, e)
  BY <1>1, <1>3, <1>4 DEF IndicationBlock, Rest, SameMark
<1> QED
  BY <1>1, <1>2, <1>3, <1>4, <1>5 DEF SameMark

-----------------------------------------------------------------------------
(* Sending.                                                                *)

(* A frame of the right request, scheduled when nothing is on, leaves all  *)
(* as it must be, if MacDone is cleared before or after.                   *)
LEMMA ScheduledKept ==
  ASSUME NEW m, NEW r, OnAir(r, m) \/ PutOff(r, m),
         Quiet(m), ~m.cut, NoTimeout(m), Sendable(m),
         "TX_DELAYED" \notin m.state
  PROVE  /\ Aired(r) /\ NoTimeout(r)
         /\ Busy(r)
         /\ r.radio = "TX" \/ "TX_DELAYED" \in r.state
         /\ r.radio = "TX" => /\ "TX_RUNNING" \in r.state
                              /\ "TX_DELAYED" \notin r.state
         /\ r.radio # "TX" => Quiet(r)
         /\ Sendable(r)
BY DEF OnAir, PutOff, SameRequest, Quiet, NoTimeout, Aired, Busy, Sendable

-----------------------------------------------------------------------------
(* The confirm queue: only SetStatusCmn changes the common status.         *)

LEMMA QueueKeepsCmn ==
  ASSUME NEW q \in Queues, NEW req, NEW status, NEW restrict \in BOOLEAN
  PROVE  /\ Add(q, req, status, restrict).cmn = q.cmn
         /\ RemoveLast(q).cmn = q.cmn
         /\ RemoveFirst(q).cmn = q.cmn
BY DEF Queues, Add, RemoveLast, RemoveFirst

LEMMA HandleOneCmn ==
  ASSUME NEW h \in Passes
  PROVE  HandleOne(h) \in Passes /\ HandleOne(h).queue.cmn = h.queue.cmn
<1>1. h.queue \in Queues
  BY DEF Passes
<1>2. RemoveFirst(h.queue) \in Queues
  BY <1>1, RemoveFirstTypes
<1>3. HandleOne(h).queue \in {RemoveFirst(h.queue),
                              AddAgain(RemoveFirst(h.queue), First(h.queue))}
  <2>1. ReportFirst(h).queue = RemoveFirst(h.queue)
    BY DEF ReportFirst, Passed
  <2>2. MoveFirstBack(h).queue
          = AddAgain(RemoveFirst(h.queue), First(h.queue))
    BY DEF MoveFirstBack, Passed
  <2> QED
    BY <2>1, <2>2 DEF HandleOne
<1>4. AddAgain(RemoveFirst(h.queue), First(h.queue)).cmn = h.queue.cmn
  <2>1. First(h.queue).restrict \in BOOLEAN
    BY <1>1 DEF Queues, Elements, First
  <2> QED
    BY <1>1, <1>2, <2>1, QueueKeepsCmn DEF AddAgain
<1> QED
  BY <1>1, <1>3, <1>4, QueueKeepsCmn, HandleOneTypes

LEMMA HandleCbCmn ==
  ASSUME NEW q \in Queues, Contiguous(q), NEW conf \in Confs
  PROVE  HandleCb(q, conf).queue.cmn = q.cmn
<1> DEFINE Pass(n, h) == IF n <= q.cnt THEN HandleOne(h) ELSE h
           h0 == Passed(q, <<>>, conf)
           Ok(h) == h \in Passes /\ h.queue.cmn = q.cmn
<1>1. Ok(h0)
  BY DEF Passes, Passed
<1>2. ASSUME NEW n, NEW h, Ok(h)
      PROVE  Ok(Pass(n, h))
  BY <1>2, HandleOneCmn
<1>3. HandleCb(q, conf) = Pass(5, Pass(4, Pass(3, Pass(2, Pass(1, h0)))))
  BY DEF HandleCb
<1> HIDE DEF Pass, h0, Ok
<1>4. Ok(Pass(5, Pass(4, Pass(3, Pass(2, Pass(1, h0))))))
  BY <1>1, <1>2
<1> QED
  BY <1>3, <1>4 DEF Ok

-----------------------------------------------------------------------------
(* Sending again.                                                          *)

(* OnTxDelayed, on a quiet radio: a join trial is prepared anew, any other *)
(* frame goes out as it is, if it still can.                               *)
LEMMA SentAgain ==
  ASSUME NEW m \in MacTypes, NEW c \in Choices, Quiet(m), ~m.cut,
         NoTimeout(m), "MacDone" \notin m.flags
  PROVE  LET r == OnTxDelayed(m, c)
         IN  /\ Aired(r) /\ InTurn(r) /\ NoTimeout(r)
             /\ r.flags = m.flags
             /\ r.confirm.type = m.confirm.type
             /\ r.confirm.ack = m.confirm.ack
             /\ IF JoinRequested(m)
                THEN /\ Busy(r) /\ ~r.nodeAck /\ ~r.retry
                     /\ r.ackCnt = r.ackRetries /\ r.frame.kind = "JOIN"
                ELSE /\ Sendable(m) => Busy(r)
                     /\ Busy(r) /\ ~Sendable(m) => "TX_RUNNING" \in m.state
                     /\ r.nodeAck = m.nodeAck
                     /\ r.retry = m.retry
                     /\ r.frame = m.frame
<1> DEFINE state == m.state \ {"TX_DELAYED"}
           timers == m.timers \ {"TxDelayed"}
           due == [m EXCEPT !.timers = timers, !.state = state]
           frame == IF JoinRequested(due) THEN PrepareJoin(due, c) ELSE due
           r == ScheduleTx(frame, c)
<1>1. OnTxDelayed(m, c) = r
  BY DEF OnTxDelayed, Stop, MacTypes
<1>2. /\ state \in SUBSET States /\ timers \in SUBSET Timers
      /\ "TX_DELAYED" \notin state
      /\ "TX_RUNNING" \in state => "TX_RUNNING" \in m.state
      /\ timers \cap {"Rx1", "Rx2"} = m.timers \cap {"Rx1", "Rx2"}
  BY DEF MacTypes
<1> HIDE DEF state, timers
<1>3. /\ due \in MacTypes
      /\ SameRequest(due, m)
      /\ due.state = state
      /\ due.timers = timers
      /\ due.radio = m.radio
      /\ due.cut = m.cut
      /\ due.confirm = m.confirm
      /\ due.queue = m.queue
      /\ due.mlme = m.mlme
  BY <1>2 DEF MacTypes, SameRequest
<1>4. JoinRequested(due) <=> JoinRequested(m)
  BY <1>3 DEF JoinRequested, SameRequest
<1>5. Sendable(due) <=> Sendable(m)
  BY <1>3 DEF Sendable, SameRequest
<1> HIDE DEF due
<1>6. /\ frame \in MacTypes
      /\ frame.state = state
      /\ frame.flags = m.flags
      /\ frame.radio = m.radio
      /\ frame.cut = m.cut
      /\ frame.timers = timers
      /\ frame.confirm = m.confirm
      /\ frame.queue = m.queue
      /\ IF JoinRequested(m)
         THEN /\ ~frame.nodeAck /\ ~frame.retry
              /\ frame.ackCnt = frame.ackRetries
              /\ frame.frame.kind = "JOIN"
              /\ Sendable(frame)
         ELSE /\ frame.nodeAck = m.nodeAck
              /\ frame.retry = m.retry
              /\ frame.frame = m.frame
              /\ Sendable(frame) <=> Sendable(m)
  BY <1>3, <1>4, <1>5, PrepareJoinFields DEF SameRequest
<1> HIDE DEF frame
<1>7. Quiet(frame) /\ ~frame.cut /\ NoTimeout(frame)
  BY <1>2, <1>6 DEF Quiet, NoTimeout
<1>8. CASE ~Sendable(frame)
  <2>1. r = frame
    BY <1>6, <1>8, ScheduleTxCases
  <2>2. Aired(r) /\ InTurn(r) /\ NoTimeout(r)
    BY <1>2, <1>6, <1>7, <2>1 DEF Aired, InTurn, Quiet
  <2>3. Busy(r) => "TX_RUNNING" \in m.state
    BY <1>2, <1>6, <2>1 DEF Busy
  <2> HIDE DEF r
  <2> QED
    BY <1>1, <1>6, <1>8, <2>1, <2>2, <2>3
<1>9. CASE Sendable(frame)
  <2>1. OnAir(r, frame) \/ PutOff(r, frame)
    BY <1>6, <1>9, ScheduleTxCases
  <2> HIDE DEF r
  <2>2. "TX_DELAYED" \notin frame.state
    BY <1>2, <1>6
  <2>3. /\ Aired(r) /\ NoTimeout(r)
        /\ Busy(r)
        /\ r.radio = "TX" \/ "TX_DELAYED" \in r.state
        /\ r.radio = "TX" => /\ "TX_RUNNING" \in r.state
                             /\ "TX_DELAYED" \notin r.state
        /\ r.radio # "TX" => Quiet(r)
        /\ Sendable(r)
    BY <1>7, <1>9, <2>1, <2>2, ScheduledKept
  <2>4. SameRequest(r, frame)
    BY <2>1 DEF OnAir, PutOff
  <2>5. InTurn(r)
    BY <1>6, <2>3, <2>4 DEF InTurn, SameRequest
  <2> QED
    BY <1>1, <1>6, <1>9, <2>3, <2>4, <2>5 DEF SameRequest
<1> QED
  BY <1>8, <1>9

-----------------------------------------------------------------------------
(* OnMacStateCheckTimerEvent with MacDone, block by block.                 *)

(* What the callback finds: a transmission that is over.                   *)
Due(m) ==
  /\ Sound(m)
  /\ Kept(m)
  /\ Answered(m)
  /\ "MacDone" \in m.flags
  /\ "TX_RUNNING" \in m.state
  /\ "RX_ABORT" \in m.state =>
       "McpsInd" \in m.flags /\ (m.nodeAck => m.retry)

Midway(m) ==
  /\ Sound(m)
  /\ Calm(m)
  /\ Kept(m)
  /\ Answered(m)
  /\ "MacDone" \in m.flags
  /\ m.nodeAck => Busy(m) \/ m.retry
  /\ "McpsInd" \in m.flags \/ Busy(m)

LEMMA AbortBlockMidway ==
  ASSUME NEW m, Due(m)
  PROVE  Midway(AbortBlock(m))
<1> DEFINE state == m.state \ {"RX_ABORT", "TX_RUNNING"}
           r == [m EXCEPT !.state = state]
<1>1. Sound(AbortBlock(m)) /\ Calm(AbortBlock(m))
  BY AbortBlockCalm DEF Due
<1>2. CASE "RX_ABORT" \notin m.state
  BY <1>1, <1>2 DEF AbortBlock, Due, Midway, Busy
<1>3. CASE "RX_ABORT" \in m.state
  <2>1. /\ m \in MacTypes
        /\ "TX_DELAYED" \notin m.state
        /\ Quiet(m)
    BY DEF Due, Sound, Kept, InTurn
  <2>2. state = {}
    BY <2>1 DEF MacTypes, States
  <2>3. AbortBlock(m) = r
    BY <1>3 DEF AbortBlock
  <2> HIDE DEF state
  <2>4. /\ r.state = {}
        /\ r.radio = m.radio /\ r.timers = m.timers /\ r.cut = m.cut
        /\ r.slot = m.slot /\ r.flags = m.flags /\ r.confirm = m.confirm
        /\ r.queue = m.queue /\ r.retry = m.retry /\ r.nodeAck = m.nodeAck
        /\ r.frame = m.frame
    BY <2>1, <2>2 DEF MacTypes
  <2> HIDE DEF r
  <2>5. Kept(r)
    BY <2>1, <2>4 DEF Due, Kept, Aired, InTurn, NoTimeout, Owned, Busy, Quiet
  <2> QED
    BY <1>1, <1>3, <2>3, <2>4, <2>5 DEF Due, Midway, Answered
<1> QED
  BY <1>2, <1>3

(* No transmission has timed out: only the status of MlmeConfirm changes.  *)
LEMMA TxTimeoutBlockMidway ==
  ASSUME NEW m, Midway(m)
  PROVE  Midway(TxTimeoutBlock(m))
<1> DEFINE mlme == [m.mlme EXCEPT !.status = m.queue.cmn]
           r == [m EXCEPT !.mlme = mlme]
<1>1. Sound(TxTimeoutBlock(m)) /\ Calm(TxTimeoutBlock(m))
  BY TxTimeoutBlockSound DEF Midway
<1>2. ~TxTimedOut(m)
  BY DEF TxTimedOut, Midway, Kept, NoTimeout
<1>3. TxTimeoutBlock(m) \in {m, r}
  BY <1>2 DEF TxTimeoutBlock
<1> HIDE DEF mlme
<1>4. /\ r.state = m.state
      /\ r.radio = m.radio /\ r.timers = m.timers /\ r.cut = m.cut
      /\ r.slot = m.slot /\ r.flags = m.flags /\ r.confirm = m.confirm
      /\ r.queue = m.queue /\ r.retry = m.retry /\ r.nodeAck = m.nodeAck
      /\ r.frame = m.frame /\ r.off = m.off /\ r.joined = m.joined
      /\ r.dr = m.dr
  BY DEF Midway, Sound, MacTypes
<1> HIDE DEF r
<1>5. Kept(r)
  BY <1>4 DEF Midway, Kept, Aired, InTurn, NoTimeout, Owned, Busy, Quiet,
              Sendable
<1>6. CASE TxTimeoutBlock(m) = m
  BY <1>6
<1>7. CASE TxTimeoutBlock(m) = r
  BY <1>1, <1>4, <1>5, <1>7 DEF Midway, Answered, Busy
<1> QED
  BY <1>3, <1>6, <1>7

(* After the block for what is not acknowledged: the transmission is still *)
(* to be judged, or its repetition is on the way.                          *)
Judged(m) ==
  /\ Sound(m)
  /\ Calm(m)
  /\ Kept(m)
  /\ Answered(m)
  /\ m.nodeAck => Busy(m) \/ m.retry
  /\ \/ "MacDone" \in m.flags
     \/ /\ ~m.nodeAck /\ ~m.retry
        /\ "McpsInd" \in m.flags => ~(m.ackCnt > m.ackRetries)

(* A transmission is over: nothing of it stays.                            *)
LEMMA StoppedJudged ==
  ASSUME NEW m, Midway(m), ~m.nodeAck, NEW r, Sound(r), Calm(r),
         r.state = m.state \ {"TX_RUNNING"},
         r.radio = m.radio, r.timers = m.timers, r.cut = m.cut,
         r.slot = m.slot, r.flags = m.flags, r.confirm = m.confirm,
         r.queue = m.queue, r.retry = m.retry, r.nodeAck = m.nodeAck,
         r.frame = m.frame
  PROVE  Judged(r)
<1>1. Quiet(m) /\ "TX_DELAYED" \notin m.state /\ "MacDone" \in m.flags
  BY DEF Midway, Kept, InTurn
<1>2. ~Busy(r)
  BY <1>1 DEF Busy
<1>3. Kept(r)
  BY <1>1, <1>2 DEF Midway, Kept, Aired, InTurn, NoTimeout, Owned, Quiet
<1> QED
  BY <1>1, <1>3 DEF Judged, Midway, Answered

LEMMA SendAgainJudged ==
  ASSUME NEW m, Midway(m), ~m.nodeAck, NEW c \in Choices,
         JoinRequested(m) \/ "McpsInd" \notin m.flags
  PROVE  Judged(SendAgain(m, c))
<1> DEFINE flags == m.flags \ {"MacDone"}
           s == [m EXCEPT !.flags = flags]
           r == OnTxDelayed(s, c)
<1>1. SendAgain(m, c) = r /\ Sound(r) /\ Calm(r)
  BY SendAgainSound DEF SendAgain, Midway
<1>2. /\ s \in MacTypes
      /\ s.flags = flags
      /\ s.state = m.state /\ s.radio = m.radio /\ s.timers = m.timers
      /\ s.cut = m.cut /\ s.confirm = m.confirm /\ s.queue = m.queue
      /\ s.retry = m.retry /\ s.nodeAck = m.nodeAck /\ s.frame = m.frame
      /\ s.mlme = m.mlme /\ s.off = m.off /\ s.joined = m.joined
      /\ s.dr = m.dr
  BY DEF Midway, Sound, MacTypes
<1> HIDE DEF s
<1>3. Quiet(s) /\ ~s.cut /\ NoTimeout(s) /\ "MacDone" \notin s.flags
  BY <1>2 DEF Midway, Kept, Aired, InTurn, NoTimeout, Quiet
<1>4. JoinRequested(s) <=> JoinRequested(m)
  BY <1>2 DEF JoinRequested
<1>5. ~m.retry /\ ~m.confirm.ack
  BY DEF Midway, Kept, Owned, Answered
<1>6. /\ Aired(r) /\ InTurn(r) /\ NoTimeout(r)
      /\ r.flags = flags
      /\ r.confirm.type = m.confirm.type
      /\ r.confirm.ack = m.confirm.ack
      /\ IF JoinRequested(m)
         THEN /\ ~r.nodeAck /\ ~r.retry
              /\ r.ackCnt = r.ackRetries /\ r.frame.kind = "JOIN"
         ELSE /\ r.nodeAck = m.nodeAck
              /\ r.retry = m.retry
              /\ r.frame = m.frame
  BY <1>2, <1>3, <1>4, SentAgain
<1>7. r.ackCnt \in Nat
  BY <1>1 DEF Sound, MacTypes
<1> HIDE DEF r
<1>8. CASE JoinRequested(m)
  BY <1>1, <1>5, <1>6, <1>7, <1>8 DEF Judged, Kept, Owned, Answered
<1>9. CASE ~JoinRequested(m)
  <2>1. m.frame.kind # "CONFIRMED"
    BY <1>9 DEF Midway, Kept, Owned
  <2>2. Owned(r)
    BY <1>5, <1>6, <1>9, <2>1 DEF Midway, Kept, Owned
  <2> QED
    BY <1>1, <1>5, <1>6, <1>9, <2>2 DEF Judged, Kept, Answered
<1> QED
  BY <1>8, <1>9

LEMMA UnacknowledgedBlockJudged ==
  ASSUME NEW m, Midway(m), NEW c \in Choices
  PROVE  Judged(UnacknowledgedBlock(m, c))
<1> DEFINE s == StopRunning(m)
           joined == [s EXCEPT !.upCnt = 0, !.nbRep = 0]
           upCnt == s.upCnt + 1
           repeated == [s EXCEPT !.upCnt = upCnt, !.nbRep = 0]
<1>1. CASE m.nodeAck \/ TxTimedOut(m) \/ ~Requested(m)
  BY <1>1 DEF UnacknowledgedBlock, Midway, Judged
<1>2. CASE ~m.nodeAck /\ Requested(m) /\ ~TxTimedOut(m)
  <2>1. /\ s \in MacTypes
        /\ s.state = m.state \ {"TX_RUNNING"}
        /\ s.radio = m.radio /\ s.timers = m.timers /\ s.cut = m.cut
        /\ s.slot = m.slot /\ s.flags = m.flags /\ s.confirm = m.confirm
        /\ s.queue = m.queue /\ s.retry = m.retry /\ s.nodeAck = m.nodeAck
        /\ s.frame = m.frame
    BY DEF Midway, Sound, MacTypes, StopRunning
  <2>2. Sound(s) /\ Calm(s)
    BY StopRunningSound DEF Midway
  <2>3. upCnt \in Nat
    BY <2>1 DEF MacTypes
  <2>4. JoinRequested(m) =>
          UnacknowledgedBlock(m, c) \in {joined, s, SendAgain(m, c)}
    BY <1>2 DEF UnacknowledgedBlock, JoinBlock
  <2>5. ~JoinRequested(m) =>
          \/ UnacknowledgedBlock(m, c) = repeated
          \/ /\ UnacknowledgedBlock(m, c) = SendAgain(m, c)
             /\ "McpsInd" \notin m.flags
    BY <1>2 DEF UnacknowledgedBlock, RepetitionBlock
  <2> HIDE DEF s, upCnt
  <2>6. Judged(s)
    BY <1>2, <2>1, <2>2, StoppedJudged
  <2>7. ASSUME NEW n \in Nat
        PROVE  Judged([s EXCEPT !.upCnt = n, !.nbRep = 0])
    <3> DEFINE r == [s EXCEPT !.upCnt = n, !.nbRep = 0]
    <3>1. /\ r.state = m.state \ {"TX_RUNNING"}
          /\ r.radio = m.radio /\ r.timers = m.timers /\ r.cut = m.cut
          /\ r.slot = m.slot /\ r.flags = m.flags /\ r.confirm = m.confirm
          /\ r.queue = m.queue /\ r.retry = m.retry /\ r.nodeAck = m.nodeAck
          /\ r.frame = m.frame
          /\ r \in MacTypes
      BY <2>1 DEF MacTypes
    <3> HIDE DEF r
    <3>2. Sound(r) /\ Calm(r)
      BY <2>1, <2>2, <3>1 DEF Sound, Calm
    <3>3. Judged(r)
      BY <1>2, <3>1, <3>2, StoppedJudged
    <3> QED
      BY <3>3 DEF r
  <2>8. JoinRequested(m) \/ "McpsInd" \notin m.flags
          => Judged(SendAgain(m, c))
    BY <1>2, SendAgainJudged
  <2>9. Judged(joined) /\ Judged(repeated)
    BY <2>3, <2>7
  <2> HIDE DEF joined, repeated
  <2> QED
    BY <2>4, <2>5, <2>6, <2>8, <2>9
<1> QED
  BY <1>1, <1>2

(* After the block for what was received: an acknowledged request is over. *)
Heeded(m) ==
  /\ Sound(m)
  /\ Calm(m)
  /\ Kept(m)
  /\ m.confirm.ack => ~Busy(m) /\ ~m.retry
  /\ m.nodeAck => Busy(m) \/ m.retry
  /\ m.retry => "MacDone" \in m.flags

LEMMA ReceivedBlockHeeded ==
  ASSUME NEW m, Judged(m)
  PROVE  Heeded(ReceivedBlock(m))
<1> DEFINE s == StopRunning(m)
           upCnt == s.upCnt + 1
           r == [s EXCEPT !.retry = FALSE, !.nodeAck = FALSE, !.upCnt = upCnt]
           received == /\ "McpsInd" \in m.flags
                       /\ m.confirm.ack \/ m.ackCnt > m.ackRetries
<1>1. Sound(ReceivedBlock(m)) /\ Calm(ReceivedBlock(m))
  BY ReceivedBlockSound DEF Judged
<1>2. CASE ~received
  <2>1. ReceivedBlock(m) = m
    BY <1>2 DEF ReceivedBlock
  <2>2. ~m.confirm.ack
    BY <1>2 DEF Judged, Answered
  <2> QED
    BY <2>1, <2>2 DEF Judged, Heeded
<1>3. CASE received
  <2>1. ReceivedBlock(m) = r
    BY <1>3 DEF ReceivedBlock
  <2>2. /\ s \in MacTypes
        /\ s.state = m.state \ {"TX_RUNNING"}
        /\ s.radio = m.radio /\ s.timers = m.timers /\ s.cut = m.cut
        /\ s.slot = m.slot /\ s.flags = m.flags /\ s.confirm = m.confirm
        /\ s.queue = m.queue /\ s.frame = m.frame
    BY DEF Judged, Sound, MacTypes, StopRunning
  <2> HIDE DEF s, upCnt
  <2>3. /\ r.state = m.state \ {"TX_RUNNING"}
        /\ r.radio = m.radio /\ r.timers = m.timers /\ r.cut = m.cut
        /\ r.slot = m.slot /\ r.flags = m.flags /\ r.confirm = m.confirm
        /\ r.queue = m.queue /\ r.frame = m.frame
        /\ ~r.nodeAck /\ ~r.retry
    BY <2>2 DEF MacTypes
  <2> HIDE DEF r
  <2>4. "MacDone" \in m.flags
    BY <1>3 DEF Judged, Answered
  <2>5. Quiet(m) /\ "TX_DELAYED" \notin m.state
    BY <2>4 DEF Judged, Kept, InTurn
  <2>6. ~Busy(r)
    BY <2>3, <2>5 DEF Busy
  <2>7. Kept(r)
    BY <2>3, <2>5, <2>6
       DEF Judged, Kept, Aired, InTurn, NoTimeout, Owned, Quiet
  <2> QED
    BY <1>1, <2>1, <2>3, <2>6, <2>7 DEF Heeded
<1> HIDE DEF received
<1> QED
  BY <1>2, <1>3

(* After the retry: who awaits an acknowledgement is sending or waiting.   *)
Finished(m) ==
  /\ Sound(m)
  /\ Calm(m)
  /\ Kept(m)
  /\ Busy(m) => ~m.confirm.ack
  /\ m.nodeAck => Busy(m)

(* A retransmission is given up.                                           *)
LEMMA GiveUpFinished ==
  ASSUME NEW m, Sound(m), Calm(m), Aired(m), NoTimeout(m), Quiet(m),
         "TX_DELAYED" \notin m.state, ~m.retry,
         m.confirm.type = "CONFIRMED" => m.frame.kind \in {"CONFIRMED", "JOIN"}
  PROVE  /\ Finished(GiveUp(m))
         /\ Finished(GiveUpTooLong(m))
<1> DEFINE state == m.state \ {"TX_RUNNING"}
           upCnt == m.upCnt + 1
           no == [m.confirm EXCEPT !.ack = FALSE]
           long == [no EXCEPT !.status = "DR_SIZE", !.dr = m.dr]
           r == [m EXCEPT !.state = state, !.nodeAck = FALSE,
                          !.confirm = no, !.upCnt = upCnt]
           t == [r EXCEPT !.confirm = long]
<1>1. m \in MacTypes /\ m.confirm \in McpsConfirms
  BY DEF Sound, MacTypes
<1>2. GiveUp(m) = r /\ GiveUpTooLong(m) = t
  BY <1>1 DEF GiveUp, GiveUpTooLong, StopRunning, MacTypes, McpsConfirms
<1>3. /\ Sound(GiveUp(m)) /\ Calm(GiveUp(m))
      /\ Sound(GiveUpTooLong(m)) /\ Calm(GiveUpTooLong(m))
  BY GiveUpSound, GiveUpTooLongSound
<1>4. /\ no.status = m.confirm.status /\ no.type = m.confirm.type
      /\ long.status = "DR_SIZE" /\ long.type = m.confirm.type
  BY <1>1 DEF McpsConfirms
<1>5. state \cap {"TX_RUNNING", "TX_DELAYED"} = {}
  OBVIOUS
<1> HIDE DEF state, upCnt, no, long
<1>6. ASSUME NEW s \in {r, t}
      PROVE  /\ s.state = state
             /\ s.radio = m.radio /\ s.timers = m.timers /\ s.cut = m.cut
             /\ s.slot = m.slot /\ s.flags = m.flags /\ s.queue = m.queue
             /\ s.frame = m.frame /\ s.retry = m.retry /\ ~s.nodeAck
             /\ s.confirm \in {no, long}
  <2>1. /\ r.state = state
        /\ r.radio = m.radio /\ r.timers = m.timers /\ r.cut = m.cut
        /\ r.slot = m.slot /\ r.flags = m.flags /\ r.queue = m.queue
        /\ r.frame = m.frame /\ r.retry = m.retry /\ ~r.nodeAck
        /\ r.confirm = no
    BY <1>1 DEF MacTypes
  <2>2. /\ t.state = state
        /\ t.radio = m.radio /\ t.timers = m.timers /\ t.cut = m.cut
        /\ t.slot = m.slot /\ t.flags = m.flags /\ t.queue = m.queue
        /\ t.frame = m.frame /\ t.retry = m.retry /\ ~t.nodeAck
        /\ t.confirm = long
    BY <1>1 DEF MacTypes
  <2> HIDE DEF r, t
  <2> QED
    BY <1>6, <2>1, <2>2
<1> HIDE DEF r, t
<1>7. ASSUME NEW s \in {r, t}
      PROVE  ~Busy(s) /\ Kept(s) /\ ~s.nodeAck
  BY <1>4, <1>5, <1>6, <1>7
     DEF Busy, Kept, Aired, InTurn, NoTimeout, Owned, Quiet
<1> QED
  BY <1>2, <1>3, <1>7 DEF Finished

(* The frame is sent once more.                                            *)
LEMMA ResentFinished ==
  ASSUME NEW m, Heeded(m), m.retry, "TX_DELAYED" \notin m.state,
         NEW c \in Choices, Sendable(NextTry(m)),
         NEW r, Sound(r), Calm(r),
         r = [ScheduleTx(NextTry(m), c) EXCEPT !.flags = @ \ {"MacDone"}]
  PROVE  Finished(r)
<1> DEFINE next == NextTry(m)
           sent == ScheduleTx(next, c)
           flags == sent.flags \ {"MacDone"}
<1>1. /\ next \in MacTypes
      /\ next.state = m.state /\ next.flags = m.flags
      /\ next.timers = m.timers /\ next.queue = m.queue
  BY NextTryAlike DEF Alike, Heeded, Sound
<1>2. /\ next.radio = m.radio /\ next.cut = m.cut /\ next.slot = m.slot
      /\ next.confirm = m.confirm /\ next.frame = m.frame
      /\ next.nodeAck = m.nodeAck /\ ~next.retry
      /\ next.off = m.off /\ next.joined = m.joined
  <2>1. m \in MacTypes
    BY DEF Heeded, Sound
  <2> QED
    BY <2>1, NextTryFields
<1>3. "MacDone" \in m.flags /\ Quiet(m) /\ m.nodeAck /\ ~m.confirm.ack
  BY DEF Heeded, Kept, InTurn, Owned
<1>4. /\ "McpsReq" \in m.flags /\ m.confirm.type = "CONFIRMED"
      /\ m.frame.kind = "CONFIRMED"
  BY <1>3 DEF Heeded, Kept, Owned
<1> HIDE DEF next
<1>5. OnAir(sent, next) \/ PutOff(sent, next)
  BY <1>1, ScheduleTxCases DEF next
<1>6. sent \in MacTypes
  <2>1. Sound(next)
    BY NextTryAlike, AlikeKeeps DEF Heeded, Sound, next
  <2> QED
    BY <2>1, ScheduleTxSound DEF Sound
<1> HIDE DEF sent
<1>7. /\ Quiet(next) /\ ~next.cut /\ NoTimeout(next)
      /\ "TX_DELAYED" \notin next.state
  BY <1>1, <1>2, <1>3 DEF Quiet, Heeded, Kept, Aired, NoTimeout
<1>8. /\ Aired(sent) /\ NoTimeout(sent)
      /\ Busy(sent)
      /\ sent.radio = "TX" \/ "TX_DELAYED" \in sent.state
      /\ sent.radio = "TX" => /\ "TX_RUNNING" \in sent.state
                              /\ "TX_DELAYED" \notin sent.state
      /\ sent.radio # "TX" => Quiet(sent)
      /\ Sendable(sent)
  BY <1>5, <1>7, ScheduledKept DEF next
<1>9. SameRequest(sent, next)
  BY <1>5 DEF OnAir, PutOff
<1>10. /\ r.flags = flags
       /\ r.state = sent.state /\ r.radio = sent.radio
       /\ r.timers = sent.timers /\ r.cut = sent.cut /\ r.slot = sent.slot
       /\ r.confirm = sent.confirm /\ r.queue = sent.queue
       /\ r.retry = sent.retry /\ r.nodeAck = sent.nodeAck
       /\ r.frame = sent.frame /\ r.off = sent.off
       /\ r.joined = sent.joined /\ r.dr = sent.dr
  BY <1>6 DEF MacTypes, next, sent
<1>11. /\ ~r.retry /\ r.nodeAck /\ ~r.confirm.ack
       /\ r.confirm.type = "CONFIRMED" /\ r.frame.kind = "CONFIRMED"
       /\ "McpsReq" \in r.flags /\ "MacDone" \notin r.flags
  BY <1>1, <1>2, <1>3, <1>4, <1>9, <1>10 DEF SameRequest
<1> HIDE DEF flags
<1>12. Kept(r) /\ Busy(r)
  BY <1>8, <1>10, <1>11
     DEF Kept, Aired, InTurn, NoTimeout, Owned, Busy, Quiet, Sendable
<1> QED
  BY <1>11, <1>12 DEF Finished

LEMMA RetryBlockFinished ==
  ASSUME NEW m, Heeded(m), NEW c \in Choices
  PROVE  Finished(RetryBlock(m, c))
<1> DEFINE due   == [m EXCEPT !.retry = FALSE]
           next  == NextTry(m)
           again == [ScheduleTx(next, c) EXCEPT !.flags = @ \ {"MacDone"}]
<1>1. CASE ~m.retry \/ "TX_DELAYED" \in m.state
  <2>1. RetryBlock(m, c) = m
    BY <1>1 DEF RetryBlock
  <2> QED
    BY <1>1, <2>1 DEF Heeded, Finished, Busy
<1>2. CASE m.retry /\ "TX_DELAYED" \notin m.state
  <2>1. /\ Quiet(m) /\ Aired(m) /\ NoTimeout(m)
        /\ m.confirm.type = "CONFIRMED" => m.frame.kind \in {"CONFIRMED", "JOIN"}
    BY <1>2 DEF Heeded, Kept, InTurn, Owned
  <2>2. Sound(RetryBlock(m, c)) /\ Calm(RetryBlock(m, c))
    BY RetryBlockSound DEF Heeded
  <2>3. \/ RetryBlock(m, c) = GiveUp(due)
        \/ RetryBlock(m, c) = GiveUpTooLong(next)
        \/ RetryBlock(m, c) = again /\ Sendable(next)
    BY <1>2 DEF RetryBlock
  <2>4. Alike(due, m) /\ Alike(next, m)
    BY NextTryAlike DEF Heeded, Sound, MacTypes, Alike
  <2>5. ASSUME NEW r \in {due, next}
        PROVE  /\ r.radio = m.radio /\ r.cut = m.cut /\ r.slot = m.slot
               /\ r.confirm = m.confirm /\ r.frame = m.frame /\ ~r.retry
    <3>1. m \in MacTypes
      BY DEF Heeded, Sound
    <3>2. /\ due.radio = m.radio /\ due.cut = m.cut /\ due.slot = m.slot
          /\ due.confirm = m.confirm /\ due.frame = m.frame /\ ~due.retry
      BY <3>1 DEF MacTypes
    <3> HIDE DEF due, next
    <3> QED
      BY <2>5, <3>1, <3>2, NextTryFields DEF next
  <2> HIDE DEF due, next
  <2>6. ASSUME NEW r \in {due, next}
        PROVE  Finished(GiveUp(r)) /\ Finished(GiveUpTooLong(r))
    <3>1. Sound(r) /\ Calm(r)
      BY <2>4, AlikeKeeps DEF Heeded
    <3>2. r.state = m.state /\ r.timers = m.timers /\ r.queue = m.queue
      BY <2>4 DEF Alike
    <3>3. Aired(r) /\ NoTimeout(r) /\ Quiet(r)
      BY <2>1, <2>5, <3>2 DEF Aired, NoTimeout, Quiet
    <3> QED
      BY <1>2, <2>1, <2>5, <3>1, <3>2, <3>3, GiveUpFinished
  <2>7. CASE RetryBlock(m, c) = again /\ Sendable(next)
    BY <1>2, <2>2, <2>7, ResentFinished DEF next
  <2> QED
    BY <2>3, <2>6, <2>7
<1> QED
  BY <1>1, <1>2

(* A busy MAC is checked again, an idle one has confirmed its requests.    *)
Checked(m) ==
  /\ Sound(m)
  /\ Calm(m)
  /\ Kept(m)
  /\ Busy(m) => ~m.confirm.ack
  /\ "McpsReq" \in m.flags => Busy(m)
  /\ "MacDone" \in m.flags => Busy(m)

LEMMA EventBlockChecked ==
  ASSUME NEW m, Finished(m)
  PROVE  Checked(EventBlock(m))
<1>1. Sound(EventBlock(m)) /\ Calm(EventBlock(m))
  BY EventBlockSettled DEF Finished, Settled
<1>2. CASE m.state # {}
  <2> DEFINE r == Start(m, {"StateCheck"})
  <2>1. EventBlock(m) = r
    BY <1>2 DEF EventBlock
  <2>2. /\ r.timers = m.timers \cup {"StateCheck"}
        /\ r.state = m.state /\ r.flags = m.flags /\ r.radio = m.radio
        /\ r.cut = m.cut /\ r.slot = m.slot /\ r.confirm = m.confirm
        /\ r.queue = m.queue /\ r.retry = m.retry /\ r.nodeAck = m.nodeAck
        /\ r.frame = m.frame /\ r.off = m.off /\ r.joined = m.joined
        /\ r.dr = m.dr
    BY DEF Finished, Sound, MacTypes, Start
  <2> HIDE DEF r
  <2>3. Busy(m)
    BY <1>2 DEF Finished, Sound, Calm, MacTypes, States, Busy
  <2>4. Kept(r) /\ Busy(r)
    BY <2>2, <2>3 DEF Finished, Kept, Aired, InTurn, NoTimeout, Owned, Busy,
                      Quiet, Sendable
  <2> QED
    BY <1>1, <2>1, <2>2, <2>3, <2>4 DEF Checked, Finished
<1>3. CASE m.state = {}
  <2> DEFINE flags == m.flags \ {"McpsReq", "MacDone"}
             r == [m EXCEPT !.flags = flags]
             done == HandleCb(r.queue, r.mlme)
             left == IF done.queue.cnt > 0 THEN r.flags ELSE r.flags \ {"MlmeReq"}
             s == [r EXCEPT !.queue = done.queue, !.mlme = done.conf,
                            !.flags = left]
  <2>1. EventBlock(m) \in {r, s}
    BY <1>3 DEF EventBlock, ConfirmMcps, ConfirmMlme
  <2>2. Sound(r)
    BY ConfirmMcpsSound DEF Finished, ConfirmMcps
  <2>3. /\ r.flags = flags
        /\ r.state = {} /\ r.radio = m.radio /\ r.timers = m.timers
        /\ r.cut = m.cut /\ r.slot = m.slot /\ r.confirm = m.confirm
        /\ r.queue = m.queue /\ r.retry = m.retry /\ r.nodeAck = m.nodeAck
        /\ r.frame = m.frame
    BY <1>3 DEF Finished, Sound, MacTypes
  <2> HIDE DEF r
  <2>4. done.queue.cmn = m.queue.cmn
    <3>1. r.queue \in Queues /\ Contiguous(r.queue) /\ r.mlme \in Confs
      BY <2>2 DEF Sound, MacTypes, Confs, MlmeConfirms
    <3> QED
      BY <2>3, <3>1, HandleCbCmn
  <2>5. left \subseteq r.flags
    OBVIOUS
  <2> HIDE DEF done, left
  <2>6. /\ s.flags = left
        /\ s.state = {} /\ s.radio = m.radio /\ s.timers = m.timers
        /\ s.cut = m.cut /\ s.slot = m.slot /\ s.confirm = m.confirm
        /\ s.queue = done.queue /\ s.retry = m.retry /\ s.nodeAck = m.nodeAck
        /\ s.frame = m.frame
    BY <2>2, <2>3 DEF Sound, MacTypes
  <2> HIDE DEF s
  <2>7. ~m.nodeAck /\ ~m.retry /\ Quiet(m)
    BY <1>3 DEF Finished, Busy, Kept, Owned, InTurn
  <2>8. ASSUME NEW x \in {r, s}
        PROVE  /\ x.flags \subseteq flags
               /\ x.state = {} /\ x.radio = m.radio /\ x.timers = m.timers
               /\ x.cut = m.cut /\ x.slot = m.slot /\ x.confirm = m.confirm
               /\ x.queue.cmn = m.queue.cmn /\ x.retry = m.retry
               /\ x.nodeAck = m.nodeAck /\ x.frame = m.frame
    BY <2>3, <2>4, <2>5, <2>6, <2>8
  <2>9. ASSUME NEW x \in {r, s}
        PROVE  Kept(x) /\ ~Busy(x) /\ x.flags \cap {"McpsReq", "MacDone"} = {}
    BY <2>7, <2>8, <2>9 DEF Finished, Kept, Aired, InTurn, NoTimeout, Owned,
                            Busy, Quiet
  <2> QED
    BY <1>1, <2>1, <2>9 DEF Checked
<1> QED
  BY <1>2, <1>3

(* A class A device has no continuous window to open again.                *)
LEMMA IndicationBlockBetween ==
  ASSUME NEW m, Checked(m), Class = "A"
  PROVE  Between(IndicationBlock(m))
<1> DEFINE flags == m.flags \ {"McpsInd", "McpsIndSkip"}
           r == [m EXCEPT !.flags = flags]
<1>1. "McpsInd" \notin m.flags => IndicationBlock(m) = m
  BY DEF IndicationBlock
<1>2. "McpsInd" \in m.flags => IndicationBlock(m) = r
  BY DEF IndicationBlock, Rest
<1>3. /\ r.flags = flags
      /\ r.timers = m.timers /\ r.state = m.state /\ r.radio = m.radio
      /\ r.cut = m.cut /\ r.slot = m.slot /\ r.confirm = m.confirm
      /\ r.queue = m.queue /\ r.retry = m.retry /\ r.nodeAck = m.nodeAck
      /\ r.frame = m.frame /\ r.off = m.off /\ r.joined = m.joined
      /\ r.dr = m.dr
  BY DEF Checked, Sound, MacTypes
<1> HIDE DEF r
<1>4. "MacDone" \in m.flags =>
        "TX_RUNNING" \in m.state /\ "TX_DELAYED" \notin m.state
  BY DEF Checked, Kept, InTurn, Busy
<1>5. CASE "McpsInd" \notin m.flags
  BY <1>1, <1>4, <1>5 DEF Checked, Between
<1>6. CASE "McpsInd" \in m.flags
  <2>1. Kept(r)
    BY <1>3 DEF Checked, Kept, Aired, InTurn, NoTimeout, Owned, Busy, Quiet,
                Sendable
  <2> QED
    BY <1>2, <1>3, <1>4, <1>6, <2>1 DEF Checked, Between, Busy
<1> QED
  BY <1>5, <1>6

LEMMA DoneBlockFinished ==
  ASSUME NEW m, Due(m), NEW c \in Choices
  PROVE  Finished(DoneBlock(m, c))
<1> DEFINE m1 == AbortBlock(m)
           m2 == TxTimeoutBlock(m1)
           m3 == UnacknowledgedBlock(m2, c)
           m4 == ReceivedBlock(m3)
<1>1. Midway(m1)
  BY AbortBlockMidway
<1> HIDE DEF m1
<1>2. Midway(m2)
  BY <1>1, TxTimeoutBlockMidway
<1> HIDE DEF m2
<1>3. Judged(m3)
  BY <1>2, UnacknowledgedBlockJudged
<1> HIDE DEF m3
<1>4. Heeded(m4)
  BY <1>3, ReceivedBlockHeeded
<1> HIDE DEF m4
<1>5. Finished(RetryBlock(m4, c))
  BY <1>4, RetryBlockFinished
<1> QED
  BY <1>5 DEF DoneBlock, m1, m2, m3, m4

(* The whole callback, when there is something to judge and when not.      *)
LEMMA OnMacStateCheckBetween ==
  ASSUME Class = "A", NEW m, NEW c \in Choices,
         Due(m) \/ ("MacDone" \notin m.flags /\ Settled(m) /\ Between(m))
  PROVE  Between(OnMacStateCheck(m, c))
<1> DEFINE timers == m.timers \ {"StateCheck"}
           s == [m EXCEPT !.timers = timers]
<1>1. Stop(m, {"StateCheck"}) = s
  BY DEF Stop
<1>2. Sound(m)
  BY DEF Due, Settled
<1>3. Sound(s)
  BY <1>1, <1>2, StopSound DEF Timers
<1>4. timers \cap {"Rx1", "Rx2"} = m.timers \cap {"Rx1", "Rx2"}
  OBVIOUS
<1> HIDE DEF timers
<1>5. /\ s.timers = timers
      /\ s.flags = m.flags /\ s.state = m.state /\ s.radio = m.radio
      /\ s.cut = m.cut /\ s.slot = m.slot /\ s.confirm = m.confirm
      /\ s.queue = m.queue /\ s.retry = m.retry /\ s.nodeAck = m.nodeAck
      /\ s.frame = m.frame /\ s.off = m.off /\ s.joined = m.joined
      /\ s.dr = m.dr
  BY <1>2 DEF Sound, MacTypes
<1>6. ASSUME Kept(m)
      PROVE  Kept(s)
  BY <1>4, <1>5, <1>6 DEF Kept, Aired, InTurn, NoTimeout, Owned, Busy, Quiet,
                          Sendable
<1>7. OnMacStateCheck(m, c) =
        IndicationBlock(EventBlock(IF "MacDone" \in m.flags
                                   THEN DoneBlock(s, c) ELSE s))
  BY <1>1 DEF OnMacStateCheck
<1> HIDE DEF s
<1>8. CASE Due(m)
  <2>1. Due(s)
    BY <1>3, <1>5, <1>6, <1>8 DEF Due, Answered
  <2> QED
    BY <1>7, <1>8, <2>1, DoneBlockFinished, EventBlockChecked,
       IndicationBlockBetween DEF Due
<1>9. CASE "MacDone" \notin m.flags /\ Settled(m) /\ Between(m)
  <2>1. Finished(s)
    BY <1>3, <1>5, <1>6, <1>9
       DEF Finished, Settled, Calm, Between, Busy, Kept, Owned
  <2> QED
    BY <1>7, <1>9, <2>1, EventBlockChecked, IndicationBlockBetween
<1> QED
  BY <1>8, <1>9

-----------------------------------------------------------------------------
(* Who is told what: a callback passes on the ACK bit as it is.            *)

Told(r, m) ==
  /\ r.confirm.type = m.confirm.type
  /\ r.confirm.ack = m.confirm.ack
  /\ "McpsReq" \in r.flags => "McpsReq" \in m.flags

LEMMA UnacknowledgedBlockTold ==
  ASSUME NEW m, Midway(m), NEW c \in Choices
  PROVE  Told(UnacknowledgedBlock(m, c), m)
<1> DEFINE s == StopRunning(m)
           joined == [s EXCEPT !.upCnt = 0, !.nbRep = 0]
           upCnt == s.upCnt + 1
           repeated == [s EXCEPT !.nbRep = 0, !.upCnt = upCnt]
           flags == m.flags \ {"MacDone"}
           undone == [m EXCEPT !.flags = flags]
           again == OnTxDelayed(undone, c)
<1>1. UnacknowledgedBlock(m, c) \in {m, s, joined, repeated, again}
  BY DEF UnacknowledgedBlock, JoinBlock, RepetitionBlock, SendAgain
<1>2. m \in MacTypes
  BY DEF Midway, Sound
<1>3. s.confirm = m.confirm /\ s.flags = m.flags /\ s \in MacTypes
  BY <1>2 DEF StopRunning, MacTypes
<1> HIDE DEF s, upCnt
<1>4. /\ joined.confirm = m.confirm /\ joined.flags = m.flags
      /\ repeated.confirm = m.confirm /\ repeated.flags = m.flags
  BY <1>3 DEF MacTypes
<1> HIDE DEF joined, repeated
<1>5. Told(again, m)
  <2>1. /\ undone \in MacTypes
        /\ undone.flags = flags /\ undone.confirm = m.confirm
        /\ undone.radio = m.radio /\ undone.timers = m.timers
        /\ undone.cut = m.cut /\ undone.queue = m.queue
    BY <1>2 DEF MacTypes
  <2> HIDE DEF undone
  <2>2. Quiet(undone) /\ ~undone.cut /\ NoTimeout(undone)
    BY <2>1 DEF Midway, Kept, Aired, InTurn, NoTimeout, Quiet
  <2>3. /\ again.flags = undone.flags
        /\ again.confirm.type = undone.confirm.type
        /\ again.confirm.ack = undone.confirm.ack
    BY <2>1, <2>2, SentAgain
  <2> QED
    BY <2>1, <2>3 DEF Told
<1> HIDE DEF again
<1> QED
  BY <1>1, <1>3, <1>4, <1>5 DEF Told

LEMMA RetryBlockTold ==
  ASSUME NEW m, Heeded(m), NEW c \in Choices
  PROVE  Told(RetryBlock(m, c), m)
<1> DEFINE due   == [m EXCEPT !.retry = FALSE]
           next  == NextTry(m)
           sent  == ScheduleTx(next, c)
           flags == sent.flags \ {"MacDone"}
           again == [sent EXCEPT !.flags = flags]
<1>1. m \in MacTypes /\ Sound(m)
  BY DEF Heeded, Sound
<1>2. CASE ~m.retry
  BY <1>2 DEF RetryBlock, Told
<1>3. CASE m.retry
  <2>1. m.confirm.ack = FALSE
    BY <1>1, <1>3 DEF Heeded, MacTypes, McpsConfirms
  <2>2. RetryBlock(m, c) \in {m, GiveUp(due), GiveUpTooLong(next), again}
    BY DEF RetryBlock
  <2>3. /\ due \in MacTypes /\ due.confirm = m.confirm /\ due.flags = m.flags
        /\ next \in MacTypes /\ next.confirm = m.confirm
        /\ next.flags = m.flags
    <3>1. next.confirm = m.confirm
      BY <1>1 DEF NextTry, MacTypes
    <3>2. next \in MacTypes /\ next.flags = m.flags
      BY <1>1, NextTryAlike DEF Alike
    <3> HIDE DEF next
    <3> QED
      BY <1>1, <3>1, <3>2 DEF MacTypes
  <2>4. Sound(next)
    BY <1>1, NextTryAlike, AlikeKeeps
  <2> HIDE DEF due, next
  <2>5. ASSUME NEW r \in MacTypes
        PROVE  /\ GiveUp(r).confirm.type = r.confirm.type
               /\ GiveUp(r).confirm.ack = FALSE
               /\ GiveUp(r).flags = r.flags
               /\ GiveUpTooLong(r).confirm.type = r.confirm.type
               /\ GiveUpTooLong(r).confirm.ack = FALSE
               /\ GiveUpTooLong(r).flags = r.flags
    <3> DEFINE state == r.state \ {"TX_RUNNING"}
               upCnt == r.upCnt + 1
               no == [r.confirm EXCEPT !.ack = FALSE]
               long == [no EXCEPT !.status = "DR_SIZE", !.dr = r.dr]
               given == [r EXCEPT !.state = state, !.nodeAck = FALSE,
                                  !.confirm = no, !.upCnt = upCnt]
               late == [given EXCEPT !.confirm = long]
    <3>1. GiveUp(r) = given /\ GiveUpTooLong(r) = late
      BY DEF GiveUp, GiveUpTooLong, StopRunning, MacTypes, McpsConfirms
    <3>2. /\ no.type = r.confirm.type /\ no.ack = FALSE
          /\ long.type = r.confirm.type /\ long.ack = FALSE
      BY DEF MacTypes, McpsConfirms
    <3> HIDE DEF state, upCnt, no, long
    <3>3. /\ given.confirm = no /\ given.flags = r.flags
          /\ late.confirm = long /\ late.flags = r.flags
      BY DEF MacTypes
    <3> QED
      BY <3>1, <3>2, <3>3
  <2>6. Told(again, m)
    <3>1. sent \in MacTypes
      BY <2>4, ScheduleTxSound DEF Sound
    <3>2. sent = next \/ SameRequest(sent, next)
      BY <2>3, ScheduleTxCases DEF OnAir, PutOff
    <3> HIDE DEF sent
    <3>3. again.confirm = sent.confirm /\ again.flags = flags
      BY <3>1 DEF MacTypes
    <3> HIDE DEF again
    <3> QED
      BY <2>3, <3>2, <3>3 DEF SameRequest, Told
  <2>7. Told(GiveUp(due), m) /\ Told(GiveUpTooLong(next), m)
    BY <2>1, <2>3, <2>5 DEF Told
  <2> HIDE DEF again
  <2> QED
    BY <2>2, <2>6, <2>7 DEF Told
<1> QED
  BY <1>2, <1>3

LEMMA ToldTransitive ==
  ASSUME NEW m, NEW r, NEW s, Told(r, m), Told(s, r)
  PROVE  Told(s, m)
BY DEF Told

LEMMA DoneBlockTold ==
  ASSUME NEW m, Due(m), NEW c \in Choices
  PROVE  Told(DoneBlock(m, c), m)
<1> DEFINE m1 == AbortBlock(m)
           m2 == TxTimeoutBlock(m1)
           m3 == UnacknowledgedBlock(m2, c)
           m4 == ReceivedBlock(m3)
<1>1. Midway(m1) /\ Told(m1, m)
  <2>1. m \in MacTypes
    BY DEF Due, Sound
  <2>2. Told(m1, m)
    BY <2>1 DEF AbortBlock, MacTypes, Told
  <2> QED
    BY <2>2, AbortBlockMidway
<1> HIDE DEF m1
<1>2. Midway(m2) /\ Told(m2, m1)
  <2>1. m1 \in MacTypes /\ ~TxTimedOut(m1)
    BY <1>1 DEF Midway, Sound, TxTimedOut, Kept, NoTimeout
  <2>2. Told(m2, m1)
    BY <2>1 DEF TxTimeoutBlock, MacTypes, Told
  <2> QED
    BY <1>1, <2>2, TxTimeoutBlockMidway
<1> HIDE DEF m2
<1>3. Judged(m3) /\ Told(m3, m2)
  BY <1>2, UnacknowledgedBlockJudged, UnacknowledgedBlockTold
<1> HIDE DEF m3
<1>4. Heeded(m4) /\ Told(m4, m3)
  <2>1. m3 \in MacTypes
    BY <1>3 DEF Judged, Sound
  <2>2. Told(m4, m3)
    BY <2>1 DEF ReceivedBlock, StopRunning, MacTypes, Told
  <2> QED
    BY <1>3, <2>2, ReceivedBlockHeeded
<1> HIDE DEF m4
<1>5. Told(RetryBlock(m4, c), m4)
  BY <1>4, RetryBlockTold
<1>6. Told(RetryBlock(m4, c), m)
  BY <1>1, <1>2, <1>3, <1>4, <1>5, ToldTransitive
<1> QED
  BY <1>6 DEF DoneBlock, m1, m2, m3, m4

LEMMA OnMacStateCheckTold ==
  ASSUME Class = "A", NEW m, NEW c \in Choices,
         Due(m) \/ ("MacDone" \notin m.flags /\ Sound(m))
  PROVE  Told(OnMacStateCheck(m, c), m)
<1> DEFINE s == Stop(m, {"StateCheck"})
           d == IF "MacDone" \in m.flags THEN DoneBlock(s, c) ELSE s
           e == EventBlock(d)
<1>1. m \in MacTypes /\ Sound(m) /\ Sound(s)
  BY StopSound DEF Due, Sound, Timers
<1>2. Told(s, m)
  BY <1>1 DEF Stop, MacTypes, Told
<1>3. Due(m) => Due(s)
  <2> DEFINE timers == m.timers \ {"StateCheck"}
             r == [m EXCEPT !.timers = timers]
  <2>1. s = r /\ timers \cap {"Rx1", "Rx2"} = m.timers \cap {"Rx1", "Rx2"}
    BY DEF Stop
  <2> HIDE DEF timers
  <2>2. /\ r.timers = timers
        /\ r.flags = m.flags /\ r.state = m.state /\ r.radio = m.radio
        /\ r.cut = m.cut /\ r.slot = m.slot /\ r.confirm = m.confirm
        /\ r.queue = m.queue /\ r.retry = m.retry /\ r.nodeAck = m.nodeAck
        /\ r.frame = m.frame /\ r.off = m.off /\ r.joined = m.joined
        /\ r.dr = m.dr
    BY <1>1 DEF MacTypes
  <2> HIDE DEF r, s
  <2>3. Due(m) => Kept(s)
    BY <2>1, <2>2 DEF Due, Kept, Aired, InTurn, NoTimeout, Owned, Busy, Quiet,
                      Sendable
  <2> QED
    BY <1>1, <2>1, <2>2, <2>3 DEF Due, Answered
<1> HIDE DEF s
<1>4. Told(d, s) /\ d \in MacTypes
  <2>1. CASE "MacDone" \in m.flags
    BY <1>3, <2>1, DoneBlockTold, DoneBlockSound DEF Due, Sound
  <2>2. CASE "MacDone" \notin m.flags
    BY <1>1, <2>2 DEF Told, Sound
  <2> QED
    BY <2>1, <2>2
<1>5. OnMacStateCheck(m, c) = IndicationBlock(e)
  BY DEF OnMacStateCheck, s
<1> HIDE DEF d
<1>6. Told(e, d) /\ DOMAIN e = DOMAIN d
  <2> DEFINE flags == d.flags \ {"McpsReq", "MacDone"}
             r == [d EXCEPT !.flags = flags]
             done == HandleCb(r.queue, r.mlme)
             left == IF done.queue.cnt > 0
                     THEN r.flags ELSE r.flags \ {"MlmeReq"}
             t == [r EXCEPT !.queue = done.queue, !.mlme = done.conf,
                            !.flags = left]
             checked == Start(d, {"StateCheck"})
  <2>1. e \in {checked, r, t}
    BY DEF EventBlock, ConfirmMcps, ConfirmMlme
  <2>2. checked.confirm = d.confirm /\ checked.flags = d.flags
    BY <1>4 DEF Start, MacTypes
  <2>3. r.confirm = d.confirm /\ r.flags = flags /\ DOMAIN r = DOMAIN d
    BY <1>4 DEF MacTypes
  <2> HIDE DEF r
  <2>4. left \subseteq r.flags
    OBVIOUS
  <2> HIDE DEF done, left
  <2>5. t.confirm = d.confirm /\ t.flags = left
    BY <1>4, <2>3 DEF MacTypes
  <2>6. DOMAIN e = DOMAIN d
    BY <2>1, <2>3 DEF Start
  <2> HIDE DEF e, t, checked
  <2> QED
    BY <2>1, <2>2, <2>3, <2>4, <2>5, <2>6 DEF Told
<1> HIDE DEF e
<1>7. Told(IndicationBlock(e), e)
  <2>1. "confirm" \in DOMAIN e /\ "flags" \in DOMAIN e
    BY <1>4, <1>6 DEF MacTypes
  <2> QED
    BY <2>1 DEF IndicationBlock, Rest, Told
<1> QED
  BY <1>2, <1>4, <1>5, <1>6, <1>7, ToldTransitive

-----------------------------------------------------------------------------
(* OnRadioRxDone, block by block.                                          *)

(* The transmission and its windows are over, and not judged yet.  The     *)
(* state check is armed beside the acknowledgement timer, so that it is    *)
(* not stopped while alone in the list.                                    *)
Ready(m) ==
  /\ Sound(m)
  /\ "StateCheck" \in m.timers
  /\ ~m.ackStale
  /\ Calm(m)
  /\ Kept(m)
  /\ Answered(m)
  /\ Quiet(m)
  /\ "TX_RUNNING" \in m.state
  /\ "TX_DELAYED" \notin m.state

(* What a block of OnRadioRxDone may change.                               *)
LEMMA ReadyStays ==
  ASSUME NEW m, Ready(m), NEW r, Sound(r), Answered(r),
         r.state = m.state, r.radio = m.radio, r.cut = m.cut,
         r.slot = m.slot, r.retry = m.retry, r.nodeAck = m.nodeAck,
         r.frame = m.frame, r.queue.cmn = m.queue.cmn,
         r.timers \subseteq m.timers, "StateCheck" \in r.timers,
         r.ackStale = m.ackStale, m.flags \subseteq r.flags,
         r.confirm.type = m.confirm.type,
         r.confirm.status \in {m.confirm.status, "OK"}
  PROVE  Ready(r)
<1>1. Quiet(r) /\ Calm(r)
  BY DEF Ready, Quiet, Calm
<1>2. Kept(r)
  BY <1>1 DEF Ready, Kept, Aired, InTurn, NoTimeout, Owned, Busy, Quiet
<1> QED
  BY <1>1, <1>2 DEF Ready

(* An open window: the transmission runs, and its end is not due.          *)
LEMMA OpenWindow ==
  ASSUME NEW m, Between(m), m.radio # "IDLE"
  PROVE  /\ "TX_RUNNING" \in m.state
         /\ "TX_DELAYED" \notin m.state
         /\ "MacDone" \notin m.flags
         /\ ~m.confirm.ack
BY DEF Between, Kept, InTurn, Quiet, Busy

LEMMA HeardReady ==
  ASSUME NEW m, Settled(m), Between(m), m.radio = "RX_SINGLE", ~m.ackStale
  PROVE  /\ Ready(Heard(m))
         /\ Heard(m).confirm.ack = FALSE
         /\ Heard(m).confirm.type = m.confirm.type
         /\ Heard(m).frame = m.frame
         /\ Heard(m).flags = m.flags
<1> DEFINE s == Stop(m, {"Rx2"})
           confirm == [m.confirm EXCEPT !.ack = FALSE]
           r == [s EXCEPT !.radio = "IDLE", !.confirm = confirm]
<1>1. /\ s \in MacTypes
      /\ s.timers = m.timers \ {"Rx2"}
      /\ s.flags = m.flags /\ s.state = m.state /\ s.confirm = m.confirm
      /\ s.cut = m.cut /\ s.slot = m.slot /\ s.queue = m.queue
      /\ s.retry = m.retry /\ s.nodeAck = m.nodeAck /\ s.frame = m.frame
      /\ s.ackStale = m.ackStale
  BY DEF Settled, Sound, MacTypes, Stop
<1>2. Sound(s)
  BY StopSound DEF Settled, Timers
<1>3. Heard(m) = r
  BY <1>1 DEF Heard, MacTypes
<1>4. /\ confirm \in McpsConfirms
      /\ confirm.ack = FALSE /\ confirm.type = m.confirm.type
      /\ confirm.status = m.confirm.status
  BY DEF Settled, Sound, MacTypes, McpsConfirms
<1> HIDE DEF s, confirm
<1>5. /\ r \in MacTypes
      /\ r.radio = "IDLE" /\ r.confirm = confirm
      /\ r.timers = s.timers /\ r.flags = s.flags /\ r.state = s.state
      /\ r.cut = s.cut /\ r.slot = s.slot /\ r.queue = s.queue
      /\ r.retry = s.retry /\ r.nodeAck = s.nodeAck /\ r.frame = s.frame
      /\ r.ackStale = s.ackStale
  BY <1>1, <1>4 DEF MacTypes, Radios
<1> HIDE DEF r
<1>6. Sound(r) /\ Calm(r)
  BY <1>1, <1>2, <1>5 DEF Sound, Calm, Settled
<1>7. /\ "TX_RUNNING" \in m.state /\ "TX_DELAYED" \notin m.state
      /\ "StateCheck" \in r.timers
  BY <1>1, <1>5, OpenWindow DEF Settled, Watched
<1>8. Quiet(r)
  BY <1>1, <1>5 DEF Between, Kept, Aired, Quiet
<1>9. Kept(r)
  BY <1>1, <1>4, <1>5, <1>7, <1>8
     DEF Between, Kept, Aired, InTurn, NoTimeout, Owned, Busy, Quiet
<1> QED
  BY <1>1, <1>3, <1>4, <1>5, <1>6, <1>7, <1>8, <1>9 DEF Ready, Answered

(* The same transmission of the same request.                              *)
SameTry(r, m) ==
  r.nbRep = m.nbRep /\ r.ackCnt = m.ackCnt /\ r.ackRetries = m.ackRetries

(* The frame is scheduled and not yet sent.                                *)
AwaitsAir(m) == m.radio = "TX" \/ "TX_DELAYED" \in m.state

(* The acknowledgement timer runs for an acknowledgement that is awaited,  *)
(* from the end of a transmission to the retry it asks for.                *)
Clocked(m) ==
  /\ "AckTimeout" \in m.timers => m.nodeAck /\ ~m.retry /\ ~AwaitsAir(m)
  /\ m.nodeAck => m.ackCnt <= m.ackRetries
  /\ AwaitsAir(m) => ~m.retry

(* It does not run when the acknowledgement has come.                      *)
Disarmed(m) == m.confirm.ack => "AckTimeout" \notin m.timers

(* What is being sent, for whom, and what waits.  An acknowledgement that  *)
(* has come has stopped its timer.                                         *)
SameWork(r, m) ==
  /\ "McpsReq" \in r.flags <=> "McpsReq" \in m.flags
  /\ "MlmeReq" \in r.flags <=> "MlmeReq" \in m.flags
  /\ "TX_DELAYED" \in r.state <=> "TX_DELAYED" \in m.state
  /\ r.frame = m.frame
  /\ r.joined = m.joined
  /\ r.upCnt = m.upCnt
  /\ r.queue = m.queue /\ r.mlme = m.mlme
  /\ SameTry(r, m) /\ r.dr = m.dr
  /\ Clocked(m) => Clocked(r) /\ Disarmed(r)

(* PrepareRxDoneAbort asks for the check, and for a retry if an            *)
(* acknowledgement is awaited.                                             *)
LEMMA RxDoneAbortDue ==
  ASSUME Class = "A", NEW m, Ready(m), NEW c \in Choices
  PROVE  \E r : /\ RxDoneAbort(m, c) = OnMacStateCheck(r, c)
               /\ Due(r) /\ Told(r, m) /\ SameWork(r, m) /\ ~r.ackStale
<1> DEFINE state == m.state \cup {"RX_ABORT"}
           aborted == [m EXCEPT !.state = state]
           timers == m.timers \ {"AckTimeout"}
           over == [aborted EXCEPT !.timers = timers, !.retry = TRUE]
           retried == IF m.nodeAck THEN over ELSE aborted
           r == Raise(retried, {"McpsInd", "MacDone"})
<1>1. m \in MacTypes /\ m.retry \in BOOLEAN /\ m.nodeAck \in BOOLEAN
  BY DEF Ready, Sound, MacTypes
<1>2. RxDoneAbort(m, c) = OnMacStateCheck(r, c)
  <2> DEFINE stopped == [aborted EXCEPT !.timers = timers]
  <2>1. ~AckAlone(aborted, c) /\ aborted.ackStale = m.ackStale
    BY <1>1 DEF AckAlone, Ready, MacTypes
  <2>2. StopAck(aborted, c) = stopped
    BY <1>1, <2>1 DEF StopAck, Stop, MacTypes
  <2>3. m.nodeAck => OnAckTimeout(stopped) = over
    BY <1>1 DEF OnAckTimeout, MacTypes
  <2> QED
    BY <2>2, <2>3 DEF RxDoneAbort
<1>3. state \in SUBSET States /\ timers \in SUBSET Timers
  BY <1>1 DEF MacTypes, States
<1>4. /\ "RX_ABORT" \in state
      /\ "TX_RUNNING" \in state /\ "TX_DELAYED" \notin state
      /\ timers \cap {"Rx1", "Rx2"} = m.timers \cap {"Rx1", "Rx2"}
      /\ "TxDelayed" \in timers <=> "TxDelayed" \in m.timers
      /\ "AckTimeout" \notin timers
  BY DEF Ready
<1> HIDE DEF state, timers
<1>5. /\ retried \in MacTypes
      /\ retried.state = state /\ retried.timers \in {m.timers, timers}
      /\ retried.flags = m.flags /\ retried.radio = m.radio
      /\ retried.cut = m.cut /\ retried.slot = m.slot
      /\ retried.confirm = m.confirm /\ retried.queue = m.queue
      /\ retried.frame = m.frame /\ retried.nodeAck = m.nodeAck
      /\ retried.joined = m.joined /\ retried.upCnt = m.upCnt
      /\ retried.nbRep = m.nbRep /\ retried.ackCnt = m.ackCnt
      /\ retried.ackRetries = m.ackRetries /\ retried.dr = m.dr
      /\ retried.mlme = m.mlme /\ retried.ackStale = m.ackStale
      /\ IF m.nodeAck THEN retried.retry /\ retried.timers = timers
                      ELSE retried.retry = m.retry
  BY <1>1, <1>3 DEF MacTypes
<1>6. Sound(retried)
  BY <1>4, <1>5 DEF Ready, Sound
<1> HIDE DEF retried
<1>7. /\ r.flags = m.flags \cup {"McpsInd", "MacDone"}
      /\ r.state = state /\ r.timers \in {m.timers, timers}
      /\ r.radio = m.radio /\ r.cut = m.cut /\ r.slot = m.slot
      /\ r.confirm = m.confirm /\ r.queue = m.queue
      /\ r.frame = m.frame /\ r.nodeAck = m.nodeAck
      /\ r.joined = m.joined /\ r.upCnt = m.upCnt
      /\ r.nbRep = m.nbRep /\ r.ackCnt = m.ackCnt
      /\ r.ackRetries = m.ackRetries /\ r.dr = m.dr
      /\ r.mlme = m.mlme /\ r.ackStale = m.ackStale
      /\ IF m.nodeAck THEN r.retry /\ r.timers = timers
                      ELSE r.retry = m.retry
  BY <1>5 DEF Raise, MacTypes
<1>8. Sound(r)
  BY <1>6, RaiseSound DEF Flags
<1> HIDE DEF r
<1>9. Quiet(r)
  BY <1>4, <1>7 DEF Ready, Quiet
<1>10. Kept(r)
  BY <1>4, <1>7, <1>9
     DEF Ready, Kept, Aired, InTurn, NoTimeout, Owned, Busy, Quiet
<1>11. Due(r) /\ Told(r, m)
  BY <1>4, <1>7, <1>8, <1>10 DEF Due, Ready, Answered, Told
<1>12. Clocked(m) => Clocked(r) /\ Disarmed(r)
  BY <1>4, <1>7 DEF Clocked, Disarmed, AwaitsAir, Ready, Quiet, Answered
<1>13. SameWork(r, m)
  BY <1>4, <1>7, <1>12 DEF SameWork, SameTry, Ready
<1>14. ~r.ackStale
  BY <1>7 DEF Ready
<1> HIDE DEF r
<1> QED
  BY <1>2, <1>11, <1>13, <1>14

LEMMA RxDoneAbortBetween ==
  ASSUME Class = "A", NEW m, Ready(m), NEW c \in Choices
  PROVE  /\ Between(RxDoneAbort(m, c)) /\ Told(RxDoneAbort(m, c), m)
         /\ ~RxDoneAbort(m, c).ackStale
<1>1. PICK r : /\ RxDoneAbort(m, c) = OnMacStateCheck(r, c)
               /\ Due(r) /\ Told(r, m) /\ ~r.ackStale
  BY RxDoneAbortDue
<1>2. ~OnMacStateCheck(r, c).ackStale
  BY <1>1, OnMacStateCheckMarked DEF Due, Sound, MacTypes, SameMark
<1> QED
  BY <1>1, <1>2, OnMacStateCheckBetween, OnMacStateCheckTold, ToldTransitive

(* An acknowledged request has stopped the acknowledgement timer, so its   *)
(* end is judged at once.                                                  *)
LEMMA RxEndDue ==
  ASSUME NEW m, Ready(m), NEW c \in Choices
  PROVE  \/ /\ RxEnd(m, c) = m /\ ~m.confirm.ack
            /\ "AckTimeout" \in m.timers
         \/ \E r : /\ RxEnd(m, c) = OnMacStateCheck(r, c)
                  /\ Due(r) /\ Told(r, m) /\ SameWork(r, m) /\ ~r.ackStale
<1> DEFINE timers == m.timers \ {"AckTimeout"}
           stopped == [m EXCEPT !.timers = timers]
<1>1. m \in MacTypes
  BY DEF Ready, Sound
<1>2. /\ Ready(stopped) /\ Told(stopped, m) /\ SameWork(stopped, m)
  <2>1. stopped = Stop(m, {"AckTimeout"})
    BY DEF Stop
  <2>2. Sound(stopped)
    BY <2>1, StopSound DEF Ready, Timers
  <2>3. /\ timers \subseteq m.timers /\ "AckTimeout" \notin timers
        /\ "StateCheck" \in timers
    BY DEF Ready
  <2> HIDE DEF timers
  <2>4. /\ stopped.timers = timers
        /\ stopped.state = m.state /\ stopped.radio = m.radio
        /\ stopped.cut = m.cut /\ stopped.slot = m.slot
        /\ stopped.retry = m.retry /\ stopped.nodeAck = m.nodeAck
        /\ stopped.frame = m.frame /\ stopped.queue = m.queue
        /\ stopped.flags = m.flags /\ stopped.confirm = m.confirm
        /\ stopped.joined = m.joined /\ stopped.upCnt = m.upCnt
        /\ stopped.nbRep = m.nbRep /\ stopped.ackCnt = m.ackCnt
        /\ stopped.ackRetries = m.ackRetries /\ stopped.dr = m.dr
        /\ stopped.mlme = m.mlme /\ stopped.ackStale = m.ackStale
    BY <1>1 DEF MacTypes
  <2> HIDE DEF stopped
  <2>5. Clocked(m) => Clocked(stopped) /\ Disarmed(stopped)
    BY <2>3, <2>4 DEF Clocked, Disarmed, AwaitsAir, SameTry
  <2>6. Answered(stopped) /\ Told(stopped, m) /\ SameWork(stopped, m)
    BY <2>4, <2>5 DEF Ready, Answered, Told, SameWork, SameTry
  <2> QED
    BY <2>2, <2>3, <2>4, <2>6, ReadyStays
<1>3. PICK kept \in {m, stopped} :
         /\ m.confirm.ack => kept = stopped
         /\ RxEnd(m, c) = IF AckTimeoutIsRunning(kept, c)
                          THEN kept
                          ELSE OnMacStateCheck(Raise(kept, {"MacDone"}), c)
  <2>1. ~AckAlone(m, c) /\ ~m.ackStale
    BY DEF AckAlone, Ready
  <2>2. StopAck(m, c) = [stopped EXCEPT !.ackStale = FALSE]
    BY <2>1 DEF StopAck, Stop
  <2>3. StopAck(m, c) = stopped
    BY <1>1, <2>1, <2>2 DEF MacTypes
  <2> HIDE DEF stopped
  <2> QED
    BY <2>3 DEF RxEnd, CheckToDisableAckTimeout, Ready, Answered
<1>4. "AckTimeout" \notin stopped.timers
  BY <1>1 DEF MacTypes
<1> HIDE DEF stopped
<1>5. /\ Due(Raise(kept, {"MacDone"}))
      /\ ~Raise(kept, {"MacDone"}).ackStale
      /\ Told(Raise(kept, {"MacDone"}), m)
      /\ SameWork(Raise(kept, {"MacDone"}), m)
  <2> DEFINE flags == kept.flags \cup {"MacDone"}
             r == [kept EXCEPT !.flags = flags]
  <2>1. /\ Ready(kept) /\ kept \in MacTypes
        /\ Told(kept, m) /\ SameWork(kept, m)
    BY <1>2, <1>3 DEF Ready, Sound, Told, SameWork, SameTry, Disarmed
  <2>2. Raise(kept, {"MacDone"}) = r
    BY DEF Raise
  <2>3. Sound(r)
    BY <2>1, <2>2, RaiseSound DEF Ready, Flags
  <2>4. /\ kept.flags \subseteq flags /\ "MacDone" \in flags
        /\ "McpsReq" \in flags => "McpsReq" \in kept.flags
        /\ "MlmeReq" \in flags => "MlmeReq" \in kept.flags
    OBVIOUS
  <2> HIDE DEF flags
  <2>5. /\ r.flags = flags
        /\ r.state = kept.state /\ r.radio = kept.radio
        /\ r.cut = kept.cut /\ r.slot = kept.slot
        /\ r.retry = kept.retry /\ r.nodeAck = kept.nodeAck
        /\ r.frame = kept.frame /\ r.queue = kept.queue
        /\ r.timers = kept.timers /\ r.confirm = kept.confirm
        /\ r.joined = kept.joined /\ r.upCnt = kept.upCnt
        /\ r.nbRep = kept.nbRep /\ r.ackCnt = kept.ackCnt
        /\ r.ackRetries = kept.ackRetries /\ r.dr = kept.dr
        /\ r.mlme = kept.mlme /\ r.ackStale = kept.ackStale
    BY <2>1 DEF MacTypes
  <2> HIDE DEF r
  <2>6. Answered(r)
    BY <2>1, <2>4, <2>5 DEF Ready, Answered
  <2>7. Ready(r)
    <3>1. /\ r.timers \subseteq kept.timers /\ "StateCheck" \in r.timers
          /\ kept.flags \subseteq r.flags
      BY <2>1, <2>4, <2>5 DEF Ready
    <3> QED
      BY <2>1, <2>3, <2>5, <2>6, <3>1, ReadyStays
  <2>8. Due(r) /\ Told(r, kept)
    BY <2>4, <2>5, <2>7 DEF Ready, Due, Calm, Told
  <2>9. Clocked(m) => Clocked(r) /\ Disarmed(r)
    BY <2>1, <2>5 DEF Clocked, Disarmed, AwaitsAir, SameWork
  <2>10. SameWork(r, m)
    BY <2>1, <2>4, <2>5, <2>9 DEF SameWork, SameTry
  <2>11. ~r.ackStale
    BY <2>7 DEF Ready
  <2> QED
    BY <2>1, <2>2, <2>8, <2>10, <2>11, ToldTransitive
<1>6. CASE AckTimeoutIsRunning(kept, c)
  <2>1. ~kept.ackStale
    BY <1>2, <1>3 DEF Ready
  <2>2. "AckTimeout" \in kept.timers
    BY <1>6, <2>1 DEF AckTimeoutIsRunning
  <2>3. kept = m /\ ~m.confirm.ack
    BY <1>3, <1>4, <2>2
  <2> QED
    BY <1>3, <1>6, <2>2, <2>3
<1> QED
  BY <1>3, <1>5, <1>6

LEMMA RxEndBetween ==
  ASSUME Class = "A", NEW m, Ready(m), NEW c \in Choices
  PROVE  /\ Between(RxEnd(m, c)) /\ Told(RxEnd(m, c), m)
         /\ ~RxEnd(m, c).ackStale
<1>1. CASE RxEnd(m, c) = m /\ ~m.confirm.ack
  BY <1>1 DEF Ready, Between, Busy, Told
<1>2. CASE \E r : /\ RxEnd(m, c) = OnMacStateCheck(r, c)
                 /\ Due(r) /\ Told(r, m) /\ ~r.ackStale
  <2>1. PICK r : /\ RxEnd(m, c) = OnMacStateCheck(r, c)
                 /\ Due(r) /\ Told(r, m) /\ ~r.ackStale
    BY <1>2
  <2>2. ~OnMacStateCheck(r, c).ackStale
    BY <2>1, OnMacStateCheckMarked DEF Due, Sound, MacTypes, SameMark
  <2> QED
    BY <2>1, <2>2, OnMacStateCheckBetween, OnMacStateCheckTold, ToldTransitive
<1> QED
  BY <1>1, <1>2, RxEndDue

LEMMA RxJoinAcceptReady ==
  ASSUME NEW m, Ready(m), NEW f \in Frames
  PROVE  Ready(RxJoinAccept(m, f)) /\ Told(RxJoinAccept(m, f), m)
<1> DEFINE r == RxJoinAccept(m, f)
<1>1. m \in MacTypes /\ m.queue \in Queues
  BY DEF Ready, Sound, MacTypes
<1>2. Sound(r)
  BY <1>1, RxJoinAcceptMild, MildKeeps DEF Ready
<1>3. PICK queue \in {m.queue, SetStatus(m.queue, "JOIN", "OK"),
                      SetStatus(m.queue, "JOIN", "JOIN_FAIL")},
           joined \in {m.joined, TRUE} :
        r = [m EXCEPT !.queue = queue, !.joined = joined]
  <2> DEFINE ok == SetStatus(m.queue, "JOIN", "OK")
             failed == SetStatus(m.queue, "JOIN", "JOIN_FAIL")
  <2>1. r \in {m, [m EXCEPT !.queue = ok, !.joined = TRUE],
               [m EXCEPT !.queue = failed]}
    BY DEF RxJoinAccept
  <2> HIDE DEF ok, failed, r
  <2>2. /\ m = [m EXCEPT !.queue = m.queue, !.joined = m.joined]
        /\ [m EXCEPT !.queue = failed] =
             [m EXCEPT !.queue = failed, !.joined = m.joined]
    BY <1>1 DEF MacTypes
  <2>3. \E queue \in {m.queue, ok, failed}, joined \in {m.joined, TRUE} :
          r = [m EXCEPT !.queue = queue, !.joined = joined]
    BY <2>1, <2>2
  <2> QED
    BY <2>3 DEF ok, failed
<1>4. queue.cmn = m.queue.cmn
  BY <1>1, <1>3, SetStatusTypes, QueueAssumption
<1> HIDE DEF r
<1>5. /\ r.queue = queue
      /\ r.state = m.state /\ r.radio = m.radio
      /\ r.cut = m.cut /\ r.slot = m.slot
      /\ r.retry = m.retry /\ r.nodeAck = m.nodeAck
      /\ r.frame = m.frame /\ r.flags = m.flags
      /\ r.timers = m.timers /\ r.confirm = m.confirm
      /\ r.ackStale = m.ackStale
  BY <1>1, <1>3 DEF MacTypes
<1>6. Answered(r) /\ Told(r, m)
  BY <1>5 DEF Ready, Answered, Told
<1>7. Ready(r)
  BY <1>2, <1>4, <1>5, <1>6, ReadyStays DEF Ready
<1> QED
  BY <1>6, <1>7 DEF r

(* An ACK bit answers the frame that was sent: it is the one the last      *)
(* confirmed request made, not a join trial put in its place.              *)
LEMMA TakenReady ==
  ASSUME NEW m, Ready(m), m.frame.kind # "JOIN", NEW f \in Frames
  PROVE  /\ Ready(Taken(m, f))
         /\ Taken(m, f).confirm.type = m.confirm.type
         /\ Taken(m, f).confirm.ack =
              (m.confirm.type = "CONFIRMED" /\ f.ack /\ ~f.bad)
         /\ "McpsReq" \in Taken(m, f).flags => "McpsReq" \in m.flags
<1> DEFINE ack == m.confirm.type = "CONFIRMED" /\ f.ack /\ ~f.bad
           confirm == [m.confirm EXCEPT !.status = "OK", !.ack = ack]
           flags == m.flags \cup {"McpsInd"}
                      \cup (IF f.skip \/ f.bad THEN {"McpsIndSkip"} ELSE {})
           r == [m EXCEPT !.confirm = confirm, !.flags = flags]
<1>1. m \in MacTypes /\ m.confirm \in McpsConfirms
  BY DEF Ready, Sound, MacTypes
<1>2. Taken(m, f) = r
  BY DEF Taken
<1>3. Sound(r)
  BY <1>1, <1>2, TakenMild, MildKeeps DEF Ready
<1>4. /\ confirm.status = "OK" /\ confirm.type = m.confirm.type
      /\ confirm.ack = ack
  BY <1>1 DEF McpsConfirms
<1>5. ack => m.nodeAck
  BY DEF Ready, Kept, Owned, Busy
<1>6. /\ m.flags \subseteq flags /\ "McpsInd" \in flags
      /\ "McpsReq" \in flags => "McpsReq" \in m.flags
  OBVIOUS
<1> HIDE DEF ack, confirm, flags
<1>7. /\ r.confirm = confirm /\ r.flags = flags
      /\ r.state = m.state /\ r.radio = m.radio
      /\ r.cut = m.cut /\ r.slot = m.slot
      /\ r.retry = m.retry /\ r.nodeAck = m.nodeAck
      /\ r.frame = m.frame /\ r.queue = m.queue
      /\ r.timers = m.timers /\ r.ackStale = m.ackStale
  BY <1>1 DEF MacTypes
<1> HIDE DEF r
<1>8. Answered(r)
  BY <1>4, <1>5, <1>6, <1>7 DEF Answered
<1>9. Ready(r)
  BY <1>3, <1>4, <1>6, <1>7, <1>8, ReadyStays DEF Ready
<1> QED
  BY <1>2, <1>4, <1>6, <1>7, <1>9 DEF ack

LEMMA ProcessMacCommandsReady ==
  ASSUME NEW m, Ready(m), NEW cmd
  PROVE  /\ Ready(ProcessMacCommands(m, cmd))
         /\ Told(ProcessMacCommands(m, cmd), m)
<1> DEFINE ok == SetStatus(m.queue, "LINK_CHECK", "OK")
           r == ProcessMacCommands(m, cmd)
<1>1. m \in MacTypes /\ m.queue \in Queues
  BY DEF Ready, Sound, MacTypes
<1>2. Sound(r)
  BY <1>1, ProcessMacCommandsMild, MildKeeps DEF Ready
<1>3. ok.cmn = m.queue.cmn
  BY <1>1, SetStatusTypes, QueueAssumption
<1>4. r \in {m, [m EXCEPT !.queue = ok], [m EXCEPT !.queue = m.queue],
             [m EXCEPT !.off = TRUE], [m EXCEPT !.dr = MinDr]}
  BY DEF ProcessMacCommands
<1> HIDE DEF ok, r
<1>5. /\ r.queue \in {m.queue, ok}
      /\ r.state = m.state /\ r.radio = m.radio
      /\ r.cut = m.cut /\ r.slot = m.slot
      /\ r.retry = m.retry /\ r.nodeAck = m.nodeAck
      /\ r.frame = m.frame /\ r.flags = m.flags
      /\ r.timers = m.timers /\ r.confirm = m.confirm
      /\ r.ackStale = m.ackStale
  BY <1>1, <1>4 DEF MacTypes
<1>6. Answered(r) /\ Told(r, m)
  BY <1>5 DEF Ready, Answered, Told
<1>7. Ready(r)
  BY <1>2, <1>3, <1>5, <1>6, ReadyStays DEF Ready
<1> QED
  BY <1>6, <1>7 DEF r

LEMMA OnRadioRxDoneBetween ==
  ASSUME Class = "A", NEW m, Settled(m), Between(m), m.radio = "RX_SINGLE",
         NEW f \in Frames, f.kind # "UNKNOWN",
         f.kind = "DATA" => m.frame.kind # "JOIN",
         ~m.ackStale, NEW c \in Choices
  PROVE  /\ Between(OnRadioRxDone(m, f, c))
         /\ ~OnRadioRxDone(m, f, c).ackStale
         /\ OnRadioRxDone(m, f, c).confirm.type = m.confirm.type
         /\ OnRadioRxDone(m, f, c).confirm.ack =
              (f.kind = "DATA" /\ m.confirm.type = "CONFIRMED"
               /\ f.ack /\ ~f.bad)
         /\ "McpsReq" \in OnRadioRxDone(m, f, c).flags =>
              "McpsReq" \in m.flags
<1> DEFINE heard == Heard(m)
           confirm == [heard.confirm EXCEPT !.status = "OK"]
           old == [heard EXCEPT !.confirm = confirm]
           flags == heard.flags \cup {"McpsInd"}
           own == [heard EXCEPT !.flags = flags]
<1>1. /\ Ready(heard) /\ heard.frame = m.frame /\ heard.flags = m.flags
      /\ heard.confirm.ack = FALSE /\ heard.confirm.type = m.confirm.type
  BY HeardReady
<1> HIDE DEF heard
<1>2. heard \in MacTypes /\ heard.confirm \in McpsConfirms
  BY <1>1 DEF Ready, Sound, MacTypes
<1>3. Ready(old) /\ Told(old, heard)
  <2>1. /\ confirm \in McpsConfirms
        /\ confirm.status = "OK" /\ confirm.type = heard.confirm.type
        /\ confirm.ack = heard.confirm.ack
    BY <1>2, QueueAssumption DEF McpsConfirms
  <2> HIDE DEF confirm
  <2>2. /\ old \in MacTypes
        /\ old.confirm = confirm /\ old.flags = heard.flags
        /\ old.state = heard.state /\ old.radio = heard.radio
        /\ old.cut = heard.cut /\ old.slot = heard.slot
        /\ old.retry = heard.retry /\ old.nodeAck = heard.nodeAck
        /\ old.frame = heard.frame /\ old.queue = heard.queue
        /\ old.timers = heard.timers /\ old.ackStale = heard.ackStale
    BY <1>2, <2>1 DEF MacTypes
  <2> HIDE DEF old
  <2>3. Sound(old) /\ Answered(old) /\ Told(old, heard)
    BY <1>1, <2>1, <2>2 DEF Ready, Sound, Answered, Told
  <2> QED
    BY <1>1, <2>1, <2>2, <2>3, ReadyStays DEF Ready
<1>4. /\ Ready(Raise(heard, {"McpsInd"}))
      /\ Told(Raise(heard, {"McpsInd"}), heard)
  <2>1. Raise(heard, {"McpsInd"}) = own
    BY DEF Raise
  <2>2. Sound(own)
    BY <1>1, <2>1, RaiseSound DEF Ready, Flags
  <2>3. /\ heard.flags \subseteq flags
        /\ "McpsReq" \in flags => "McpsReq" \in heard.flags
    OBVIOUS
  <2> HIDE DEF flags
  <2>4. /\ own.flags = flags /\ own.confirm = heard.confirm
        /\ own.state = heard.state /\ own.radio = heard.radio
        /\ own.cut = heard.cut /\ own.slot = heard.slot
        /\ own.retry = heard.retry /\ own.nodeAck = heard.nodeAck
        /\ own.frame = heard.frame /\ own.queue = heard.queue
        /\ own.timers = heard.timers /\ own.ackStale = heard.ackStale
    BY <1>2 DEF MacTypes
  <2> HIDE DEF own
  <2>5. Answered(own) /\ Told(own, heard)
    BY <1>1, <2>3, <2>4 DEF Answered, Told
  <2> QED
    BY <1>1, <2>1, <2>2, <2>3, <2>4, <2>5, ReadyStays DEF Ready
<1>5. CASE f.kind = "DATA"
  <2> DEFINE taken == Taken(heard, f)
             data == RxData(heard, f)
  <2>1. /\ Ready(taken)
        /\ taken.confirm.type = m.confirm.type
        /\ taken.confirm.ack =
             (m.confirm.type = "CONFIRMED" /\ f.ack /\ ~f.bad)
        /\ "McpsReq" \in taken.flags => "McpsReq" \in m.flags
    BY <1>1, <1>5, TakenReady
  <2>2. data \in {taken, ProcessMacCommands(taken, f.cmd)}
    BY DEF RxData
  <2> HIDE DEF taken
  <2>3. Ready(data) /\ Told(data, taken)
    BY <2>1, <2>2, ProcessMacCommandsReady DEF Told
  <2>4. OnRadioRxDone(m, f, c) = RxEnd(data, c)
    BY <1>5 DEF OnRadioRxDone, heard
  <2> HIDE DEF data
  <2>5. /\ Between(RxEnd(data, c)) /\ Told(RxEnd(data, c), data)
        /\ ~RxEnd(data, c).ackStale
    BY <2>3, RxEndBetween
  <2> QED
    BY <1>5, <2>1, <2>3, <2>4, <2>5 DEF Told
<1>6. CASE f.kind # "DATA"
  <2> DEFINE r == OnRadioRxDone(m, f, c)
             accepted == RxJoinAccept(heard, f)
             raised == Raise(heard, {"McpsInd"})
  <2>1. r \in {RxDoneAbort(heard, c), RxDoneAbort(old, c),
               RxEnd(accepted, c), RxEnd(raised, c)}
    BY <1>2, <1>6 DEF OnRadioRxDone, heard, Frames, MacTypes
  <2> HIDE DEF old, r
  <2>2. Ready(accepted) /\ Told(accepted, heard)
    BY <1>1, RxJoinAcceptReady
  <2> HIDE DEF accepted, raised
  <2>3. /\ Between(RxEnd(accepted, c)) /\ Told(RxEnd(accepted, c), heard)
        /\ ~RxEnd(accepted, c).ackStale /\ ~RxEnd(raised, c).ackStale
        /\ Between(RxEnd(raised, c)) /\ Told(RxEnd(raised, c), heard)
    BY <1>4, <2>2, RxEndBetween, ToldTransitive DEF raised
  <2>4. /\ Between(RxDoneAbort(heard, c))
        /\ Told(RxDoneAbort(heard, c), heard)
        /\ Between(RxDoneAbort(old, c)) /\ Told(RxDoneAbort(old, c), heard)
        /\ ~RxDoneAbort(heard, c).ackStale /\ ~RxDoneAbort(old, c).ackStale
    BY <1>1, <1>3, RxDoneAbortBetween, ToldTransitive
  <2>5. Between(r) /\ Told(r, heard) /\ ~r.ackStale
    BY <2>1, <2>3, <2>4
  <2> QED
    BY <1>1, <1>6, <2>5 DEF Told, r
<1> QED
  BY <1>5, <1>6

-----------------------------------------------------------------------------
(* The actions.                                                            *)

(* The data request that is open stays the one it is.                      *)
SameOwner(r, m) ==
  /\ r.confirm.type = m.confirm.type
  /\ "McpsReq" \in r.flags <=> "McpsReq" \in m.flags

(* A MAC with nothing to send has nothing else to do.                      *)
LEMMA AtRest ==
  ASSUME NEW m, Between(m), ~Busy(m)
  PROVE  /\ Quiet(m)
         /\ m.flags \cap {"MacDone", "McpsInd", "McpsReq"} = {}
         /\ ~m.nodeAck /\ ~m.retry
BY DEF Between, Kept, InTurn, Owned, Busy

(* Between two callbacks, what was scheduled on a quiet radio.             *)
LEMMA ScheduledBetween ==
  ASSUME NEW m \in MacTypes, NEW r, OnAir(r, m) \/ PutOff(r, m),
         Quiet(m), ~m.cut, NoTimeout(m), Sendable(m),
         m.state \cap {"TX_DELAYED", "TX_RUNNING"} = {},
         m.flags \cap {"MacDone", "McpsInd"} = {},
         ~m.retry, ~m.confirm.ack,
         m.nodeAck => /\ "McpsReq" \in m.flags
                      /\ m.confirm.type = "CONFIRMED",
         m.nodeAck <=> m.frame.kind = "CONFIRMED",
         m.confirm.type = "CONFIRMED" =>
           m.frame.kind \in {"CONFIRMED", "JOIN"}
  PROVE  Between(r) /\ r.flags = m.flags
<1>1. /\ Aired(r) /\ NoTimeout(r)
      /\ Busy(r)
      /\ r.radio = "TX" \/ "TX_DELAYED" \in r.state
      /\ r.radio = "TX" => /\ "TX_RUNNING" \in r.state
                           /\ "TX_DELAYED" \notin r.state
      /\ r.radio # "TX" => Quiet(r)
      /\ Sendable(r)
  BY ScheduledKept
<1>2. SameRequest(r, m)
  BY DEF OnAir, PutOff
<1>3. InTurn(r)
  BY <1>1, <1>2 DEF InTurn, SameRequest
<1>4. Owned(r)
  BY <1>2 DEF Owned, SameRequest
<1> QED
  BY <1>1, <1>2, <1>3, <1>4 DEF Between, Kept, SameRequest

LEMMA JoinRequestBetween ==
  ASSUME Settled(mac), Between(mac), NEW c \in Choices, JoinRequest(c)
  PROVE  Between(mac') /\ "McpsReq" \notin mac'.flags
<1> DEFINE q == Enqueue(mac, "JOIN", "JOIN_FAIL")
           confirm == [q.confirm EXCEPT !.ack = FALSE]
           r == [q EXCEPT !.joinTrials = 0, !.maxJoin = MaxJoinTrials,
                          !.confirm = confirm]
           p == PrepareJoin(r, c)
           flags == mac.flags \cup {"MlmeReq"}
           queue == Add(mac.queue, "JOIN", "JOIN_FAIL", FALSE)
<1>1. /\ mac' = ScheduleTx(p, c)
      /\ ~IsFull(mac.queue)
      /\ mac.state = {}
  BY DEF JoinRequest, MlmeAllowed
<1>2. mac \in MacTypes /\ mac.queue \in Queues
  BY DEF Settled, Sound, MacTypes
<1>3. Settled(q)
  BY <1>1, EnqueueSettled, QueueAssumption
<1>4. queue.cmn = mac.queue.cmn
  BY <1>2, QueueKeepsCmn
<1>5. q = [[mac EXCEPT !.flags = flags] EXCEPT !.queue = queue]
  BY <1>2 DEF Enqueue, Raise, MacTypes
<1>6. flags \cap {"MacDone", "McpsInd", "McpsReq"} =
        mac.flags \cap {"MacDone", "McpsInd", "McpsReq"}
  OBVIOUS
<1> HIDE DEF flags, queue
<1>7. /\ q.flags = flags /\ q.queue = queue /\ q.confirm = mac.confirm
      /\ q.state = mac.state /\ q.radio = mac.radio /\ q.cut = mac.cut
      /\ q.timers = mac.timers
  BY <1>2, <1>5 DEF MacTypes
<1> HIDE DEF q
<1>8. /\ q \in MacTypes
      /\ confirm \in McpsConfirms
      /\ ~confirm.ack /\ confirm.type = mac.confirm.type
      /\ confirm.status = mac.confirm.status
  BY <1>3, <1>7 DEF Settled, Sound, MacTypes, McpsConfirms
<1>9. MaxJoinTrials \in Nat
  BY CountAssumption
<1> HIDE DEF confirm
<1>10. /\ r \in MacTypes
       /\ r.flags = flags /\ r.queue = queue /\ r.confirm = confirm
       /\ r.state = {} /\ r.radio = mac.radio /\ r.cut = mac.cut
       /\ r.timers = mac.timers
  BY <1>1, <1>7, <1>8, <1>9 DEF MacTypes
<1> HIDE DEF r
<1>11. /\ p \in MacTypes
       /\ p.flags = flags /\ p.queue = queue /\ p.confirm = confirm
       /\ p.state = {} /\ p.radio = mac.radio /\ p.cut = mac.cut
       /\ p.timers = mac.timers
       /\ ~p.nodeAck /\ ~p.retry /\ p.frame.kind = "JOIN" /\ Sendable(p)
  BY <1>10, PrepareJoinFields
<1> HIDE DEF p
<1>12. /\ Quiet(mac) /\ ~mac.cut /\ NoTimeout(mac)
       /\ mac.flags \cap {"MacDone", "McpsInd", "McpsReq"} = {}
  BY <1>1, AtRest DEF Busy, Between, Kept, Aired
<1>13. Quiet(p) /\ ~p.cut /\ NoTimeout(p)
  BY <1>4, <1>8, <1>11, <1>12 DEF Quiet, NoTimeout
<1>14. OnAir(mac', p) \/ PutOff(mac', p)
  BY <1>1, <1>11, ScheduleTxCases
<1> QED
  BY <1>6, <1>8, <1>11, <1>12, <1>13, <1>14, ScheduledBetween

LEMMA LinkCheckRequestBetween ==
  ASSUME Settled(mac), Between(mac), NEW room \in BOOLEAN,
         LinkCheckRequest(room)
  PROVE  Between(mac') /\ "McpsReq" \notin mac'.flags
<1> DEFINE asked == Enqueue(mac, "LINK_CHECK", "ERROR")
           up == mac.flags \cup {"MlmeReq"}
           queue == Add(mac.queue, "LINK_CHECK", "ERROR", FALSE)
           back == RemoveLast(queue)
           flags == IF back.cnt = 0 THEN up \ {"MlmeReq"} ELSE up
           r == [asked EXCEPT !.nodeAck = FALSE, !.queue = back,
                              !.flags = flags]
<1>1. mac \in MacTypes /\ mac.queue \in Queues
  BY DEF Settled, Sound, MacTypes
<1>2. asked = [[mac EXCEPT !.flags = up] EXCEPT !.queue = queue]
  BY <1>1 DEF Enqueue, Raise, MacTypes
<1>3. queue \in Queues /\ queue.cmn = mac.queue.cmn
  BY <1>1, AddTypes, QueueAssumption, QueueKeepsCmn
<1>4. back.cmn = mac.queue.cmn
  BY <1>3, QueueKeepsCmn
<1>5. /\ up \in SUBSET Flags
      /\ up \cap {"MacDone", "McpsInd", "McpsReq"} =
           mac.flags \cap {"MacDone", "McpsInd", "McpsReq"}
  BY <1>1 DEF MacTypes, Flags
<1>6. flags \cap {"MacDone", "McpsInd", "McpsReq"} =
        mac.flags \cap {"MacDone", "McpsInd", "McpsReq"}
  BY <1>5
<1> HIDE DEF up, queue
<1>7. /\ asked.flags = up /\ asked.queue = queue
      /\ asked.confirm = mac.confirm /\ asked.nodeAck = mac.nodeAck
      /\ asked.state = mac.state /\ asked.radio = mac.radio
      /\ asked.cut = mac.cut /\ asked.timers = mac.timers
      /\ asked.slot = mac.slot /\ asked.retry = mac.retry
      /\ asked.frame = mac.frame
  BY <1>1, <1>2 DEF MacTypes
<1>8. mac' \in {asked, r} /\ mac.state = {}
  BY <1>7 DEF LinkCheckRequest, MlmeAllowed
<1>9. asked \in MacTypes
  <2> DEFINE flagged == [mac EXCEPT !.flags = up]
  <2>1. flagged \in MacTypes
    BY <1>1, <1>5 DEF MacTypes
  <2> HIDE DEF flagged
  <2>2. [flagged EXCEPT !.queue = queue] \in MacTypes
    BY <1>3, <2>1 DEF MacTypes
  <2> QED
    BY <1>2, <2>2 DEF flagged
<1> HIDE DEF asked, flags, back
<1>10. ASSUME NEW x \in {asked, r}
       PROVE  /\ x.flags \in {up, flags} /\ x.queue \in {queue, back}
              /\ x.confirm = mac.confirm /\ x.nodeAck \in {mac.nodeAck, FALSE}
              /\ x.state = mac.state /\ x.radio = mac.radio
              /\ x.cut = mac.cut /\ x.timers = mac.timers
              /\ x.slot = mac.slot /\ x.retry = mac.retry
              /\ x.frame = mac.frame
  <2>1. r.flags = flags /\ r.queue = back /\ r.nodeAck = FALSE
    BY <1>9 DEF MacTypes
  <2>3. r.confirm = asked.confirm /\ r.state = asked.state
    BY <1>9 DEF MacTypes
  <2>2. /\ r.radio = asked.radio /\ r.cut = asked.cut
        /\ r.timers = asked.timers /\ r.slot = asked.slot
        /\ r.retry = asked.retry /\ r.frame = asked.frame
    BY <1>9 DEF MacTypes
  <2> HIDE DEF r
  <2> QED
    BY <1>7, <1>10, <2>1, <2>2, <2>3
<1> HIDE DEF r
<1>11. /\ Quiet(mac) /\ ~mac.nodeAck /\ ~mac.retry
       /\ mac.flags \cap {"MacDone", "McpsInd", "McpsReq"} = {}
  BY <1>8, AtRest DEF Busy
<1>12. ASSUME NEW x \in {asked, r}
       PROVE  Kept(x) /\ ~Busy(x) /\ x.flags \cap {"MacDone", "McpsInd", "McpsReq"} = {}
  BY <1>3, <1>4, <1>5, <1>6, <1>8, <1>10, <1>11, <1>12
     DEF Between, Kept, Aired, InTurn, NoTimeout, Owned, Busy, Quiet
<1> QED
  BY <1>8, <1>12 DEF Between

LEMMA McpsRequestBetween ==
  ASSUME Settled(mac), hist \in HistTypes, Between(mac),
         NEW type \in McpsTypes, NEW long \in BOOLEAN, NEW c \in Choices,
         McpsRequest(type, long, c)
  PROVE  /\ Between(mac')
         /\ "McpsReq" \notin mac.flags
         /\ "McpsReq" \in mac'.flags => hist'.acked = FALSE
<1> DEFINE confirm == [type |-> "UNCONFIRMED", status |-> "ERROR",
                       ack |-> FALSE, dr |-> 0]
           retries == IF type = "CONFIRMED" THEN NbTrials ELSE 1
           dr == IF AdrOn THEN mac.dr ELSE DefaultDr
           fresh == [mac EXCEPT !.confirm = confirm, !.ackCnt = 1,
                                !.ackRetries = retries, !.dr = dr]
           ack == type = "CONFIRMED"
           frame == IF Buildable(fresh, type)
                    THEN [kind |-> type, fcnt |-> fresh.upCnt,
                          req |-> hist.reqs + 1, long |-> long]
                    ELSE NoFrame
           built == [fresh EXCEPT !.nodeAck = ack, !.frame = frame]
           sent  == ScheduleTx(built, c)
           flags == sent.flags \cup {"McpsReq"}
           typed == [sent.confirm EXCEPT !.type = type]
           ok    == [sent EXCEPT !.flags = flags, !.confirm = typed]
           no    == [built EXCEPT !.nodeAck = FALSE]
<1>1. /\ mac \in MacTypes /\ mac.state = {}
      /\ type \in McpsKinds
      /\ hist.reqs + 1 \in Nat
  <2>1. mac \in MacTypes /\ "RX_ABORT" \notin mac.state
    BY DEF Settled, Sound, Calm
  <2>2. mac.state \cap {"TX_RUNNING", "TX_DELAYED"} = {}
    BY DEF McpsRequest
  <2> QED
    BY <2>1, <2>2, ChoiceAssumption DEF MacTypes, States, McpsKinds, HistTypes
<1>2. /\ built = PrepareFrame(fresh, type, hist.reqs + 1, long)
      /\ \/ /\ mac' = ok /\ Buildable(fresh, type) /\ Sendable(built)
            /\ hist'.acked = FALSE
         \/ mac' = no
  <2>1. built = PrepareFrame(fresh, type, hist.reqs + 1, long)
    BY DEF PrepareFrame
  <2>2. \/ /\ mac' = [Raise(ScheduleTx(built, c), {"McpsReq"}) EXCEPT
                        !.confirm.type = type]
           /\ Buildable(fresh, type) /\ Sendable(built)
           /\ hist'.acked = FALSE
        \/ mac' = no
    BY DEF McpsRequest, PrepareFrame, HistTypes
  <2> HIDE DEF fresh
  <2>3. built \in MacTypes /\ Sound(built)
    <3>1. Alike(fresh, mac)
      <4>1. retries \in Nat /\ dr \in Datarates
        BY <1>1, CountAssumption, DatarateAssumption DEF MacTypes
      <4>2. confirm \in McpsConfirms
        BY QueueAssumption DEF McpsConfirms, McpsKinds
      <4> HIDE DEF retries, dr, confirm
      <4> QED
        BY <1>1, <4>1, <4>2 DEF Alike, MacTypes, fresh
    <3>2. Alike(built, fresh)
      BY <1>1, <2>1, <3>1, PrepareFrameAlike DEF Alike
    <3> QED
      BY <3>1, <3>2, AlikeKeeps DEF Settled, Alike
  <2> HIDE DEF built
  <2>4. sent \in MacTypes
    BY <2>3, ScheduleTxSound DEF Sound
  <2> HIDE DEF sent
  <2>5. [Raise(sent, {"McpsReq"}) EXCEPT !.confirm.type = type] = ok
    BY <2>4 DEF Raise, MacTypes
  <2> QED
    BY <2>1, <2>2, <2>5 DEF sent
<1>3. confirm \in McpsConfirms /\ confirm.type = "UNCONFIRMED"
      /\ confirm.status = "ERROR" /\ ~confirm.ack
  BY QueueAssumption DEF McpsConfirms, McpsKinds
<1>4. retries \in Nat /\ dr \in Datarates
  BY <1>1, CountAssumption, DatarateAssumption DEF MacTypes
<1> HIDE DEF confirm, retries, dr
<1>5. /\ Alike(fresh, mac)
      /\ fresh.confirm = confirm
      /\ fresh.radio = mac.radio /\ fresh.cut = mac.cut
      /\ fresh.slot = mac.slot /\ fresh.retry = mac.retry
  BY <1>1, <1>3, <1>4 DEF Alike, MacTypes
<1> HIDE DEF fresh
<1>6. Alike(built, fresh)
  BY <1>1, <1>2, <1>5, PrepareFrameAlike DEF Alike
<1>7. Buildable(fresh, type) => frame.kind = type
  OBVIOUS
<1>8. frame.kind \in {type, "NONE"}
  BY DEF NoFrame
<1> HIDE DEF frame
<1>9. /\ built.nodeAck = ack /\ built.frame = frame
      /\ built.confirm = confirm
      /\ built.radio = mac.radio /\ built.cut = mac.cut
      /\ built.slot = mac.slot /\ built.retry = mac.retry
  BY <1>5 DEF Alike, MacTypes
<1>10. /\ built \in MacTypes
       /\ built.state = {} /\ built.flags = mac.flags
       /\ built.timers = mac.timers /\ built.queue = mac.queue
  BY <1>1, <1>5, <1>6 DEF Alike
<1> HIDE DEF built
<1>11. /\ Quiet(mac) /\ ~mac.retry /\ ~mac.cut /\ NoTimeout(mac)
       /\ mac.flags \cap {"MacDone", "McpsInd", "McpsReq"} = {}
  BY <1>1, AtRest DEF Busy, Between, Kept, Aired
<1>12. CASE mac' = no
  <2>1. /\ no.confirm = confirm /\ ~no.nodeAck /\ ~no.retry
        /\ no.radio = mac.radio /\ no.cut = mac.cut /\ no.slot = mac.slot
        /\ no.state = {} /\ no.flags = mac.flags
        /\ no.timers = mac.timers /\ no.queue = mac.queue
    BY <1>9, <1>10, <1>11 DEF MacTypes
  <2> HIDE DEF no
  <2>2. Kept(no) /\ ~Busy(no)
    BY <1>3, <1>11, <2>1
       DEF Between, Kept, Aired, InTurn, NoTimeout, Owned, Busy, Quiet
  <2> QED
    BY <1>11, <1>12, <2>1, <2>2 DEF Between
<1>13. CASE /\ mac' = ok /\ Buildable(fresh, type) /\ Sendable(built)
            /\ hist'.acked = FALSE
  <2>1. OnAir(sent, built) \/ PutOff(sent, built)
    BY <1>10, <1>13, ScheduleTxCases
  <2>2. sent \in MacTypes
    <3>1. Sound(built)
      BY <1>5, <1>6, AlikeKeeps DEF Settled
    <3> QED
      BY <3>1, ScheduleTxSound DEF Sound
  <2> HIDE DEF sent
  <2>3. Quiet(built) /\ ~built.cut /\ NoTimeout(built)
    BY <1>3, <1>9, <1>10, <1>11 DEF Quiet, NoTimeout
  <2>4. /\ Aired(sent) /\ NoTimeout(sent)
        /\ Busy(sent)
        /\ sent.radio = "TX" \/ "TX_DELAYED" \in sent.state
        /\ sent.radio = "TX" => /\ "TX_RUNNING" \in sent.state
                                /\ "TX_DELAYED" \notin sent.state
        /\ sent.radio # "TX" => Quiet(sent)
        /\ Sendable(sent)
    BY <1>10, <1>13, <2>1, <2>3, ScheduledKept
  <2>5. SameRequest(sent, built)
    BY <2>1 DEF OnAir, PutOff
  <2>6. /\ typed.type = type /\ typed.status = sent.confirm.status
        /\ typed.ack = sent.confirm.ack
    BY <2>2 DEF MacTypes, McpsConfirms
  <2>7. /\ "McpsReq" \in flags
        /\ flags \cap {"MacDone", "McpsInd"} =
             sent.flags \cap {"MacDone", "McpsInd"}
    OBVIOUS
  <2> HIDE DEF typed, flags
  <2>8. /\ ok.flags = flags /\ ok.confirm = typed
        /\ ok.state = sent.state /\ ok.radio = sent.radio
        /\ ok.timers = sent.timers /\ ok.cut = sent.cut
        /\ ok.slot = sent.slot /\ ok.queue = sent.queue
        /\ ok.retry = sent.retry /\ ok.nodeAck = sent.nodeAck
        /\ ok.frame = sent.frame /\ ok.off = sent.off
        /\ ok.joined = sent.joined /\ ok.dr = sent.dr
    BY <2>2 DEF MacTypes
  <2> HIDE DEF ok
  <2>9. /\ ~ok.retry /\ ok.nodeAck = ack /\ ok.frame.kind = type
        /\ ok.confirm.type = type /\ ~ok.confirm.ack
        /\ "McpsReq" \in ok.flags
        /\ ok.flags \cap {"MacDone", "McpsInd"} = {}
    BY <1>3, <1>7, <1>9, <1>10, <1>11, <1>13, <2>5, <2>6, <2>7, <2>8
       DEF SameRequest
  <2>10. Kept(ok) /\ Busy(ok)
    BY <2>4, <2>6, <2>8, <2>9
       DEF Kept, Aired, InTurn, NoTimeout, Owned, Busy, Quiet, Sendable
  <2> QED
    BY <1>11, <1>13, <2>9, <2>10 DEF Between
<1> QED
  BY <1>2, <1>12, <1>13

LEMMA OnRadioTxDoneBetween ==
  ASSUME Class = "A", Settled(mac), Between(mac), hist \in HistTypes,
         OnRadioTxDone
  PROVE  /\ Between(mac')
         /\ SameOwner(mac', mac)
         /\ hist'.acked = hist.acked
<1> DEFINE timers == mac.timers \cup {"Rx1"}
                       \cup (IF Class = "A" THEN {"Rx2"} ELSE {})
                       \cup (IF Class = "C" \/ mac.nodeAck
                             THEN {"AckTimeout"} ELSE {})
           status == IF mac.nodeAck THEN mac.confirm.status ELSE "OK"
           confirm == [mac.confirm EXCEPT !.status = status]
           nbRep == IF mac.nodeAck THEN mac.nbRep ELSE mac.nbRep + 1
           idle == [mac EXCEPT !.radio = "IDLE"]
           stale == mac.ackStale /\ ~(Class = "C" \/ mac.nodeAck)
           r == [idle EXCEPT !.timers = timers, !.ackStale = stale,
                             !.confirm = confirm, !.nbRep = nbRep]
<1>1. mac \in MacTypes /\ mac.confirm \in McpsConfirms
  BY DEF Settled, Sound, MacTypes
<1>2. mac' = r
  BY <1>1 DEF OnRadioTxDone, Rest, MacTypes
<1>3. /\ confirm.status \in {mac.confirm.status, "OK"}
      /\ confirm.type = mac.confirm.type /\ confirm.ack = mac.confirm.ack
  BY <1>1 DEF McpsConfirms
<1> HIDE DEF timers, confirm, nbRep, stale
<1>4. /\ r.radio = "IDLE" /\ r.confirm = confirm
      /\ r.flags = mac.flags /\ r.state = mac.state
      /\ r.cut = mac.cut /\ r.slot = mac.slot /\ r.queue = mac.queue
      /\ r.retry = mac.retry /\ r.nodeAck = mac.nodeAck
      /\ r.frame = mac.frame
  BY <1>1 DEF MacTypes
<1> HIDE DEF r
<1>5. /\ "TX_RUNNING" \in mac.state /\ "TX_DELAYED" \notin mac.state
      /\ "MacDone" \notin mac.flags /\ ~mac.confirm.ack
  BY OpenWindow DEF OnRadioTxDone
<1>6. Kept(r) /\ Busy(r)
  BY <1>3, <1>4, <1>5
     DEF Between, Kept, Aired, InTurn, NoTimeout, Owned, Busy
<1>7. hist'.acked = hist.acked
  BY DEF OnRadioTxDone, HistTypes
<1> QED
  BY <1>2, <1>3, <1>4, <1>5, <1>6, <1>7 DEF Between, SameOwner

(* A first window that ends early leaves the second to come; else the      *)
(* windows are over and the check is asked for.                            *)
LEMMA OnRadioRxFailedBetween ==
  ASSUME Class = "A", Settled(mac), Between(mac), NEW idle \in BOOLEAN,
         NEW late \in BOOLEAN, OnRadioRxFailed(idle, late)
  PROVE  Between(mac') /\ SameOwner(mac', mac)
<1> DEFINE status == IF mac.nodeAck THEN "RX_FAIL" ELSE mac.confirm.status
           confirm == [mac.confirm EXCEPT !.status = status]
           queue == SetStatusCmn(mac.queue, "RX_FAIL")
           failed == [mac EXCEPT !.radio = "IDLE", !.confirm = confirm,
                                 !.queue = queue]
           timers == mac.timers \ {"Rx2"}
           flags == mac.flags \cup {"MacDone"}
           stopped == [failed EXCEPT !.timers = timers]
           over == [failed EXCEPT !.flags = flags]
           both == [stopped EXCEPT !.flags = flags]
<1>1. mac \in MacTypes /\ mac.confirm \in McpsConfirms /\ mac.queue \in Queues
  BY DEF Settled, Sound, MacTypes
<1>2. /\ confirm.status \in {mac.confirm.status, "RX_FAIL"}
      /\ confirm.type = mac.confirm.type /\ confirm.ack = mac.confirm.ack
  BY <1>1 DEF McpsConfirms
<1>3. queue.cmn = "RX_FAIL"
  BY <1>1, SetStatusCmnTypes, QueueAssumption
<1>4. confirm \in McpsConfirms /\ queue \in Queues
  BY <1>1, SetStatusCmnTypes, QueueAssumption DEF McpsConfirms
<1>5. mac.radio = "RX_SINGLE"
  BY DEF OnRadioRxFailed, Between, Kept, Aired
<1>6. /\ "TX_RUNNING" \in mac.state /\ "TX_DELAYED" \notin mac.state
      /\ "MacDone" \notin mac.flags /\ ~mac.confirm.ack
      /\ "Rx1" \notin mac.timers
      /\ mac.slot # "WIN_1" => "Rx2" \notin mac.timers
  BY <1>5, OpenWindow DEF Between, Kept, Aired
<1>7. \/ mac' = failed
      \/ mac' = over /\ mac.slot # "WIN_1"
      \/ mac' = both
  <2>1. idle
    BY DEF OnRadioRxFailed
  <2>2. failed.timers = mac.timers /\ failed.flags = mac.flags
    BY <1>1 DEF MacTypes
  <2>3. stopped.flags = mac.flags
    BY <1>1 DEF MacTypes
  <2>4. [mac EXCEPT !.radio = IF idle THEN "IDLE" ELSE @,
                    !.confirm.status = IF mac.nodeAck THEN "RX_FAIL" ELSE @,
                    !.queue = SetStatusCmn(@, "RX_FAIL")] = failed
    BY <1>1, <2>1 DEF MacTypes
  <2> HIDE DEF confirm, queue
  <2>5. /\ Stop(failed, {"Rx2"}) = stopped
        /\ Raise(failed, {"MacDone"}) = over
        /\ Raise(stopped, {"MacDone"}) = both
    BY <2>2, <2>3 DEF Stop, Raise
  <2> HIDE DEF failed, stopped, over, both
  <2> QED
    BY <2>4, <2>5 DEF OnRadioRxFailed
<1>8. /\ "MacDone" \in flags
      /\ flags \cap {"McpsInd", "McpsReq"} =
           mac.flags \cap {"McpsInd", "McpsReq"}
      /\ timers \cap {"Rx1", "Rx2"} = {}
  BY <1>6
<1> HIDE DEF confirm, queue, timers, flags
<1>10. ASSUME NEW r \in {failed, over, both}
       PROVE  /\ r.radio = "IDLE" /\ r.confirm = confirm /\ r.queue = queue
              /\ r.state = mac.state /\ r.cut = mac.cut /\ r.slot = mac.slot
              /\ r.retry = mac.retry /\ r.nodeAck = mac.nodeAck
              /\ r.frame = mac.frame
  <2> DEFINE Same(q) ==
        /\ q.radio = "IDLE" /\ q.confirm = confirm /\ q.queue = queue
        /\ q.state = mac.state /\ q.cut = mac.cut /\ q.slot = mac.slot
        /\ q.retry = mac.retry /\ q.nodeAck = mac.nodeAck
        /\ q.frame = mac.frame
  <2>1. Same(failed)
    BY <1>1 DEF MacTypes
  <2>2. Same(over)
    BY <1>1 DEF MacTypes
  <2>3. Same(both)
    BY <1>1 DEF MacTypes
  <2> HIDE DEF failed, over, both
  <2> QED
    BY <1>10, <2>1, <2>2, <2>3
<1>11. /\ failed.flags = mac.flags
       /\ over.flags = flags /\ over.timers = mac.timers
       /\ both.flags = flags /\ both.timers = timers
  BY <1>1 DEF MacTypes
<1> HIDE DEF failed, over, both
<1>12. ASSUME NEW r \in {failed, over, both}, mac' = r
       PROVE  Between(r) /\ SameOwner(r, mac)
  <2>1. "MacDone" \in r.flags => Quiet(r)
    BY <1>6, <1>7, <1>8, <1>10, <1>11, <1>12 DEF Quiet
  <2>2. Busy(r)
    BY <1>6, <1>10 DEF Busy
  <2>3. r.flags \cap {"McpsInd", "McpsReq"} =
          mac.flags \cap {"McpsInd", "McpsReq"}
    BY <1>8, <1>11, <1>12
  <2>4. Kept(r)
    BY <1>2, <1>3, <1>6, <1>10, <2>1, <2>3
       DEF Between, Kept, Aired, InTurn, NoTimeout, Owned, Busy
  <2> QED
    BY <1>2, <1>6, <1>10, <2>2, <2>3, <2>4 DEF Between, SameOwner
<1> QED
  BY <1>7, <1>12

LEMMA RxWindow1Between ==
  ASSUME Class = "A", Settled(mac), Between(mac), OnRxWindow1TimerEvent
  PROVE  Between(mac') /\ SameOwner(mac', mac)
<1> DEFINE timers == mac.timers \ {"Rx1"}
           cut == mac.cut \/ mac.radio \in {"TX", "CW"}
           r == [mac EXCEPT !.radio = "RX_SINGLE", !.cut = cut,
                            !.timers = timers, !.slot = "WIN_1"]
<1>1. mac \in MacTypes
  BY DEF Settled, Sound
<1>2. mac' = r
  BY <1>1 DEF OnRxWindow1TimerEvent, RxWindow1, RadioTo, MacTypes
<1>3. /\ ~cut /\ "Rx1" \notin timers
      /\ "TX_RUNNING" \in mac.state /\ "TX_DELAYED" \notin mac.state
      /\ "MacDone" \notin mac.flags
  BY DEF OnRxWindow1TimerEvent, Between, Kept, Aired, InTurn, Quiet
<1> HIDE DEF timers, cut
<1>4. /\ r.radio = "RX_SINGLE" /\ r.cut = cut /\ r.timers = timers
      /\ r.slot = "WIN_1"
      /\ r.flags = mac.flags /\ r.state = mac.state
      /\ r.confirm = mac.confirm /\ r.queue = mac.queue
      /\ r.retry = mac.retry /\ r.nodeAck = mac.nodeAck
      /\ r.frame = mac.frame
  BY <1>1 DEF MacTypes
<1> HIDE DEF r
<1>5. Kept(r)
  BY <1>3, <1>4 DEF Between, Kept, Aired, InTurn, NoTimeout, Owned, Busy
<1> QED
  BY <1>2, <1>4, <1>5 DEF Between, Busy, SameOwner

LEMMA RxWindow2Between ==
  ASSUME Class = "A", Settled(mac), Between(mac), OnRxWindow2TimerEvent
  PROVE  Between(mac') /\ SameOwner(mac', mac)
<1> DEFINE timers == mac.timers \ {"Rx2"}
           s == [mac EXCEPT !.timers = timers]
           open == [mac EXCEPT !.timers = timers, !.radio = "RX_SINGLE",
                               !.slot = "WIN_2"]
<1>1. mac \in MacTypes
  BY DEF Settled, Sound
<1>2. IF mac.radio = "IDLE" THEN mac' = open ELSE mac' = s
  BY <1>1 DEF OnRxWindow2TimerEvent, RxWindow2, Stop, MacTypes
<1>3. /\ timers \cap {"Rx1", "Rx2"} = {}
      /\ mac.radio \in {"IDLE", "RX_SINGLE"}
      /\ "TX_RUNNING" \in mac.state /\ "TX_DELAYED" \notin mac.state
      /\ "MacDone" \notin mac.flags
  BY DEF OnRxWindow2TimerEvent, Between, Kept, Aired, InTurn, Quiet
<1> HIDE DEF timers
<1>4. ASSUME NEW r \in {s, open}
      PROVE  /\ r.timers = timers /\ r.cut = mac.cut
             /\ r.flags = mac.flags /\ r.state = mac.state
             /\ r.confirm = mac.confirm /\ r.queue = mac.queue
             /\ r.retry = mac.retry /\ r.nodeAck = mac.nodeAck
             /\ r.frame = mac.frame
             /\ r.radio \in {mac.radio, "RX_SINGLE"}
  <2> DEFINE Same(q) ==
        /\ q.timers = timers /\ q.cut = mac.cut
        /\ q.flags = mac.flags /\ q.state = mac.state
        /\ q.confirm = mac.confirm /\ q.queue = mac.queue
        /\ q.retry = mac.retry /\ q.nodeAck = mac.nodeAck
        /\ q.frame = mac.frame
        /\ q.radio \in {mac.radio, "RX_SINGLE"}
  <2>1. Same(s)
    BY <1>1 DEF MacTypes
  <2>2. Same(open)
    BY <1>1 DEF MacTypes
  <2> HIDE DEF s, open
  <2> QED
    BY <1>4, <2>1, <2>2
<1> HIDE DEF s, open
<1>5. ASSUME NEW r \in {s, open}
      PROVE  Between(r) /\ SameOwner(r, mac)
  <2>1. Kept(r)
    BY <1>3, <1>4, <1>5
       DEF Between, Kept, Aired, InTurn, NoTimeout, Owned, Busy
  <2> QED
    BY <1>4, <1>5, <2>1 DEF Between, Busy, SameOwner
<1> QED
  BY <1>2, <1>5

LEMMA OnAckTimeoutBetween ==
  ASSUME Class = "A", Settled(mac), Between(mac), OnAckTimeoutTimerEvent
  PROVE  Between(mac') /\ SameOwner(mac', mac)
<1> DEFINE timers == mac.timers \ {"AckTimeout"}
           retry == mac.retry \/ mac.nodeAck
           r == [mac EXCEPT !.timers = timers, !.retry = retry]
<1>1. mac \in MacTypes
  BY DEF Settled, Sound
<1>2. mac' = r
  BY <1>1 DEF OnAckTimeoutTimerEvent, OnAckTimeout, Stop, MacTypes
<1>3. /\ timers \cap {"Rx1", "Rx2"} = mac.timers \cap {"Rx1", "Rx2"}
      /\ retry => mac.nodeAck
  BY DEF Between, Kept, Owned
<1> HIDE DEF timers, retry
<1>4. /\ r.timers = timers /\ r.retry = retry
      /\ r.radio = mac.radio /\ r.cut = mac.cut /\ r.slot = mac.slot
      /\ r.flags = mac.flags /\ r.state = mac.state
      /\ r.confirm = mac.confirm /\ r.queue = mac.queue
      /\ r.nodeAck = mac.nodeAck /\ r.frame = mac.frame
      /\ r.off = mac.off /\ r.joined = mac.joined /\ r.dr = mac.dr
  BY <1>1 DEF MacTypes
<1> HIDE DEF r
<1>5. Kept(r)
  BY <1>3, <1>4 DEF Between, Kept, Aired, InTurn, NoTimeout, Owned, Busy,
                    Quiet, Sendable
<1> QED
  BY <1>2, <1>4, <1>5 DEF Between, Busy, SameOwner

LEMMA OnTxDelayedBetween ==
  ASSUME Settled(mac), Between(mac), NEW c \in Choices,
         OnTxDelayedTimerEvent(c)
  PROVE  Between(mac') /\ SameOwner(mac', mac)
<1>1. /\ mac \in MacTypes /\ mac' = OnTxDelayed(mac, c)
      /\ "TX_DELAYED" \in mac.state
  BY DEF Settled, Sound, OnTxDelayedTimerEvent
<1>2. /\ Quiet(mac) /\ ~mac.cut /\ NoTimeout(mac) /\ Sendable(mac)
      /\ mac.flags \cap {"MacDone", "McpsInd"} = {}
      /\ Busy(mac) /\ ~mac.confirm.ack
  BY <1>1 DEF Between, Kept, Aired, InTurn, Busy
<1> DEFINE r == OnTxDelayed(mac, c)
<1>3. /\ Aired(r) /\ InTurn(r) /\ NoTimeout(r)
      /\ r.flags = mac.flags
      /\ r.confirm.type = mac.confirm.type
      /\ r.confirm.ack = mac.confirm.ack
      /\ IF JoinRequested(mac)
         THEN /\ Busy(r) /\ ~r.nodeAck /\ ~r.retry /\ r.frame.kind = "JOIN"
         ELSE /\ Busy(r)
              /\ r.nodeAck = mac.nodeAck
              /\ r.retry = mac.retry
              /\ r.frame = mac.frame
  BY <1>1, <1>2, SentAgain
<1> HIDE DEF r
<1>4. Owned(r)
  BY <1>2, <1>3 DEF Between, Kept, Owned
<1>5. Between(r) /\ SameOwner(r, mac)
  BY <1>2, <1>3, <1>4 DEF Between, Kept, SameOwner
<1> QED
  BY <1>1, <1>5 DEF r

LEMMA OnMacStateCheckEventBetween ==
  ASSUME Class = "A", Settled(mac), Between(mac), NEW c \in Choices,
         OnMacStateCheckTimerEvent(c)
  PROVE  Between(mac') /\ Told(mac', mac)
<1>1. "MacDone" \in mac.flags => Due(mac)
  BY DEF Settled, Calm, Between, Busy, Due, Answered
<1> QED
  BY <1>1, OnMacStateCheckBetween, OnMacStateCheckTold
     DEF OnMacStateCheckTimerEvent, Settled

LEMMA OnRadioRxDoneEventBetween ==
  ASSUME ClassAOnly, Settled(mac), Between(mac), ~mac.ackStale,
         NEW f \in Downlinks, NEW c \in Choices, OnRadioRxDoneEvent(f, c)
  PROVE  /\ Between(mac') /\ ~mac'.ackStale
         /\ mac'.confirm.type = mac.confirm.type
         /\ mac'.confirm.ack =
              (f.kind = "DATA" /\ mac.confirm.type = "CONFIRMED"
               /\ f.ack /\ ~f.bad)
         /\ "McpsReq" \in mac'.flags => "McpsReq" \in mac.flags
<1>1. f \in Frames /\ f.kind # "UNKNOWN" /\ Class = "A"
  BY ChoiceAssumption DEF ClassAOnly
<1>2. mac.radio = "RX_SINGLE"
  BY DEF OnRadioRxDoneEvent, Between, Kept, Aired
<1>3. f.kind = "DATA" => mac.frame.kind # "JOIN"
  BY <1>1 DEF OnRadioRxDoneEvent, ServerMayAnswer
<1> QED
  BY <1>1, <1>2, <1>3, OnRadioRxDoneBetween DEF OnRadioRxDoneEvent

(* IsRunning is never left set: RxDone is the only callback that stops the *)
(* acknowledgement timer, and the state check is armed beside it.          *)
LEMMA StepUnmarked ==
  ASSUME ClassAOnly, Settled(mac), Between(mac), ~mac.ackStale, [Next]_vars
  PROVE  ~mac'.ackStale
<1>1. mac \in MacTypes /\ "ackStale" \in DOMAIN mac /\ Class = "A"
  BY DEF Settled, Sound, MacTypes, ClassAOnly
<1>2. SUFFICES \/ SameMark(mac', mac)
               \/ ~mac'.ackStale
  BY DEF SameMark
<1>3. ASSUME NEW c \in Choices, JoinRequest(c)
      PROVE  SameMark(mac', mac)
  <2> DEFINE q == Enqueue(mac, "JOIN", "JOIN_FAIL")
             r == [q EXCEPT !.joinTrials = 0, !.maxJoin = MaxJoinTrials,
                            !.confirm.ack = FALSE]
             j == PrepareJoin(r, c)
  <2>1. mac' = ScheduleTx(j, c)
    BY <1>3 DEF JoinRequest
  <2>2. SameMark(q, mac)
    BY <1>1 DEF Enqueue, Raise, SameMark
  <2> HIDE DEF q
  <2>3. SameMark(r, q)
    BY <1>1, <2>2 DEF SameMark
  <2> HIDE DEF r
  <2>4. SameMark(j, r)
    BY <1>1, <2>2, <2>3, PrepareJoinMarked DEF SameMark
  <2> HIDE DEF j
  <2>5. SameMark(mac', j)
    BY <1>1, <2>1, <2>2, <2>3, <2>4, ScheduleTxMarked DEF SameMark
  <2> QED
    BY <2>2, <2>3, <2>4, <2>5 DEF SameMark
<1>4. ASSUME NEW room \in BOOLEAN, LinkCheckRequest(room)
      PROVE  SameMark(mac', mac)
  <2> DEFINE q == Enqueue(mac, "LINK_CHECK", "ERROR")
  <2>1. SameMark(q, mac)
    BY <1>1 DEF Enqueue, Raise, SameMark
  <2> HIDE DEF q
  <2> QED
    BY <1>1, <1>4, <2>1 DEF LinkCheckRequest, SameMark, q
<1>5. CASE ContinuousWaveRequest
  BY <1>5 DEF ContinuousWaveRequest, MlmeAllowed, ClassAOnly
<1>6. ASSUME NEW type \in McpsTypes, NEW long \in BOOLEAN, NEW c \in Choices,
             McpsRequest(type, long, c)
      PROVE  SameMark(mac', mac)
  <2> DEFINE fresh == [mac EXCEPT
                  !.confirm = [type |-> "UNCONFIRMED", status |-> "ERROR",
                               ack |-> FALSE, dr |-> 0],
                  !.ackCnt = 1,
                  !.ackRetries = IF type = "CONFIRMED" THEN NbTrials ELSE 1,
                  !.dr = IF AdrOn THEN @ ELSE DefaultDr]
             built == PrepareFrame(fresh, type, hist.reqs + 1, long)
             sent == ScheduleTx(built, c)
             ok == [Raise(sent, {"McpsReq"}) EXCEPT !.confirm.type = type]
             no == [built EXCEPT !.nodeAck = FALSE]
  <2>1. mac' \in {ok, no}
    BY <1>6 DEF McpsRequest
  <2>2. SameMark(fresh, mac)
    BY <1>1 DEF SameMark
  <2> HIDE DEF fresh
  <2>3. SameMark(built, fresh)
    BY <1>1, <2>2, PrepareFrameMarked DEF SameMark
  <2> HIDE DEF built
  <2>4. SameMark(sent, built)
    BY <1>1, <2>2, <2>3, ScheduleTxMarked DEF SameMark
  <2> HIDE DEF sent
  <2>5. SameMark(ok, sent) /\ SameMark(no, built)
    BY <1>1, <2>2, <2>3, <2>4 DEF Raise, SameMark
  <2> HIDE DEF ok, no
  <2> QED
    BY <2>1, <2>2, <2>3, <2>4, <2>5 DEF SameMark
<1>7. ASSUME OnRadioTxDone
      PROVE  ~mac'.ackStale
  <2> DEFINE stale == mac.ackStale /\ ~(Class = "C" \/ mac.nodeAck)
  <2>1. mac'.ackStale = stale
    BY <1>1, <1>7 DEF OnRadioTxDone, Rest
  <2> QED
    BY <2>1
<1>8. CASE OnRadioTxTimeout
  BY <1>8 DEF OnRadioTxTimeout, ClassAOnly, Between, Kept, Aired
<1>9. ASSUME NEW idle \in BOOLEAN, NEW late \in BOOLEAN,
             OnRadioRxFailed(idle, late)
      PROVE  SameMark(mac', mac)
  <2> DEFINE failed == [mac EXCEPT
                          !.radio = IF idle THEN "IDLE" ELSE @,
                          !.confirm.status = IF mac.nodeAck THEN "RX_FAIL"
                                             ELSE @,
                          !.queue = SetStatusCmn(@, "RX_FAIL")]
             kept == Stop(failed, {"Rx2"})
  <2>1. mac' \in {failed, Raise(kept, {"MacDone"}),
                 Raise(failed, {"MacDone"})}
    BY <1>1, <1>9 DEF OnRadioRxFailed
  <2>2. SameMark(failed, mac)
    BY <1>1 DEF SameMark
  <2> HIDE DEF failed
  <2>3. SameMark(kept, failed)
    BY <1>1, <2>2 DEF Stop, SameMark
  <2> HIDE DEF kept
  <2> QED
    BY <1>1, <2>1, <2>2, <2>3 DEF Raise, SameMark
<1>10. ASSUME NEW f \in Downlinks, NEW c \in Choices, OnRadioRxDoneEvent(f, c)
       PROVE  ~mac'.ackStale
  BY <1>10, OnRadioRxDoneEventBetween
<1>11. CASE OnRxWindow1TimerEvent
  <2> DEFINE s == RadioTo(mac, "RX_SINGLE")
  <2>1. SameMark(s, mac)
    BY <1>1 DEF RadioTo, SameMark
  <2> HIDE DEF s
  <2> QED
    BY <1>1, <1>11, <2>1 DEF OnRxWindow1TimerEvent, RxWindow1, SameMark, s
<1>12. CASE OnRxWindow2TimerEvent
  BY <1>1, <1>12 DEF OnRxWindow2TimerEvent, RxWindow2, Stop, SameMark
<1>13. CASE OnAckTimeoutTimerEvent
  BY <1>1, <1>13
     DEF OnAckTimeoutTimerEvent, OnAckTimeout, Stop, Raise, SameMark
<1>14. ASSUME NEW c \in Choices, OnTxDelayedTimerEvent(c)
       PROVE  SameMark(mac', mac)
  BY <1>1, <1>14, OnTxDelayedMarked DEF OnTxDelayedTimerEvent
<1>15. ASSUME NEW c \in Choices, OnMacStateCheckTimerEvent(c)
       PROVE  SameMark(mac', mac)
  BY <1>1, <1>15, OnMacStateCheckMarked DEF OnMacStateCheckTimerEvent
<1>16. CASE UNCHANGED vars
  BY <1>16 DEF vars
<1> QED
  BY <1>3, <1>4, <1>5, <1>6, <1>7, <1>8, <1>9, <1>10, <1>11, <1>12, <1>13,
     <1>14, <1>15, <1>16 DEF Next

-----------------------------------------------------------------------------
(* The inductive invariant of a class A device.                            *)

InvA == Inv /\ (ClassAOnly => Between(mac) /\ ~mac.ackStale)

LEMMA InitInvA == Init => InvA
<1> SUFFICES ASSUME Init, ClassAOnly
             PROVE  Between(mac) /\ ~mac.ackStale
  BY InitInv DEF InvA
<1>1. /\ mac.state = {} /\ mac.flags = {} /\ mac.timers = {}
      /\ mac.radio = "IDLE" /\ ~mac.cut /\ ~mac.retry /\ ~mac.nodeAck
      /\ mac.queue.cmn = "ERROR" /\ ~mac.ackStale
      /\ mac.confirm.type = "UNCONFIRMED" /\ mac.confirm.status = "OK"
  BY DEF Init, ClassAOnly, EmptyQueue
<1> QED
  BY <1>1 DEF Between, Kept, Aired, InTurn, NoTimeout, Owned, Busy, Quiet

LEMMA NextInvA == InvA /\ [Next]_vars => InvA'
<1> SUFFICES ASSUME InvA, [Next]_vars, ClassAOnly
             PROVE  Between(mac') /\ ~mac'.ackStale
  BY NextInv DEF InvA, ClassAOnly
<1>1. /\ Settled(mac) /\ hist \in HistTypes /\ Between(mac) /\ Class = "A"
      /\ ~mac.ackStale
  BY DEF InvA, Inv, ClassAOnly
<1> SUFFICES Between(mac')
  BY <1>1, StepUnmarked
<1>2. ASSUME NEW c \in Choices, JoinRequest(c)
      PROVE  Between(mac')
  BY <1>1, <1>2, JoinRequestBetween
<1>3. ASSUME NEW room \in BOOLEAN, LinkCheckRequest(room)
      PROVE  Between(mac')
  BY <1>1, <1>3, LinkCheckRequestBetween
<1>4. CASE ContinuousWaveRequest
  BY <1>4 DEF ContinuousWaveRequest, MlmeAllowed, ClassAOnly
<1>5. ASSUME NEW type \in McpsTypes, NEW long \in BOOLEAN, NEW c \in Choices,
             McpsRequest(type, long, c)
      PROVE  Between(mac')
  BY <1>1, <1>5, McpsRequestBetween
<1>6. CASE OnRadioTxDone
  BY <1>1, <1>6, OnRadioTxDoneBetween
<1>7. CASE OnRadioTxTimeout
  BY <1>1, <1>7 DEF OnRadioTxTimeout, ClassAOnly, Between, Kept, Aired
<1>8. ASSUME NEW idle \in BOOLEAN, NEW late \in BOOLEAN,
             OnRadioRxFailed(idle, late)
      PROVE  Between(mac')
  BY <1>1, <1>8, OnRadioRxFailedBetween
<1>9. ASSUME NEW f \in Downlinks, NEW c \in Choices, OnRadioRxDoneEvent(f, c)
      PROVE  Between(mac')
  BY <1>1, <1>9, OnRadioRxDoneEventBetween
<1>10. CASE OnRxWindow1TimerEvent
  BY <1>1, <1>10, RxWindow1Between
<1>11. CASE OnRxWindow2TimerEvent
  BY <1>1, <1>11, RxWindow2Between
<1>12. CASE OnAckTimeoutTimerEvent
  BY <1>1, <1>12, OnAckTimeoutBetween
<1>13. ASSUME NEW c \in Choices, OnTxDelayedTimerEvent(c)
       PROVE  Between(mac')
  BY <1>1, <1>13, OnTxDelayedBetween
<1>14. ASSUME NEW c \in Choices, OnMacStateCheckTimerEvent(c)
       PROVE  Between(mac')
  BY <1>1, <1>14, OnMacStateCheckEventBetween
<1>15. CASE UNCHANGED vars
  BY <1>1, <1>15 DEF vars
<1> QED
  BY <1>2, <1>3, <1>4, <1>5, <1>6, <1>7, <1>8, <1>9, <1>10, <1>11, <1>12,
     <1>13, <1>14, <1>15 DEF Next

(* The types, the correspondences of LoRaMacProofs and, in class A, what   *)
(* holds between two callbacks are an inductive invariant.                 *)
THEOREM InvarianceA == Spec => []InvA
<1> QED
  BY InitInvA, NextInvA, PTL DEF Spec

(* No transmission of a class A device is cut short: the windows, the      *)
(* retransmissions, the delayed frames and the requests of the application *)
(* touch the radio only when it does not send.                             *)
THEOREM NeverCut == Spec => [](ClassAOnly => NothingCut)
<1>1. InvA => (ClassAOnly => NothingCut)
  BY DEF InvA, Between, Kept, Aired, NothingCut
<1> QED
  BY <1>1, InvarianceA, PTL

(* A data request that is not confirmed is being sent or is put off, so    *)
(* LoRaMacMcpsRequest never lets a new one take its place.                 *)
THEOREM RequestAlwaysCarried == Spec => [](ClassAOnly => RequestCarried)
<1>1. InvA => (ClassAOnly => RequestCarried)
  BY DEF InvA, Between, Busy, RequestCarried
<1> QED
  BY <1>1, InvarianceA, PTL

(* NodeAckRequested is set only for the open confirmed request, and the    *)
(* frame in the buffer is that request's.                                  *)
THEOREM AckAwaitedRightly == Spec => [](ClassAOnly => AckAwaited)
<1>1. InvA => (ClassAOnly => AckAwaited)
  BY DEF InvA, Between, Kept, Owned, AckAwaited
<1> QED
  BY <1>1, InvarianceA, PTL


-----------------------------------------------------------------------------
(* What the application is told of an acknowledgement.                     *)

(* The history has seen no ACK bit for a request that is still open.       *)
Unanswered ==
  "McpsReq" \in mac.flags /\ mac.confirm.type = "CONFIRMED" => ~hist.acked

InvB == InvA /\ (ClassAOnly => Unanswered)

(* One step, with AckReported's condition.                                 *)
LEMMA StepAnswers ==
  ASSUME ClassAOnly, InvB, [Next]_vars
  PROVE  /\ Unanswered'
         /\ (/\ "McpsReq" \in mac.flags /\ "McpsReq" \notin mac'.flags
             /\ mac.confirm.type = "CONFIRMED")
            => (mac'.confirm.ack <=> hist'.acked)
<1> DEFINE Goal == /\ Unanswered'
                   /\ (/\ "McpsReq" \in mac.flags /\ "McpsReq" \notin mac'.flags
                       /\ mac.confirm.type = "CONFIRMED")
                      => (mac'.confirm.ack <=> hist'.acked)
<1>1. /\ Settled(mac) /\ hist \in HistTypes /\ Between(mac) /\ Class = "A"
      /\ Unanswered /\ ~mac.ackStale
  BY DEF InvB, InvA, Inv, ClassAOnly
<1>2. ASSUME hist'.acked = hist.acked, SameOwner(mac', mac)
      PROVE  Goal
  BY <1>1, <1>2 DEF SameOwner, Unanswered
<1>3. ASSUME "McpsReq" \notin mac.flags, "McpsReq" \in mac'.flags => ~hist'.acked
      PROVE  Goal
  BY <1>3 DEF Unanswered
<1>4. ASSUME NEW c \in Choices, JoinRequest(c)
      PROVE  Goal
  <2>1. mac.state = {}
    BY <1>4 DEF JoinRequest, MlmeAllowed
  <2>2. "McpsReq" \notin mac.flags
    BY <1>1, <2>1 DEF Between, Busy
  <2> HIDE DEF Goal
  <2> QED
    BY <1>1, <1>3, <1>4, <2>2, JoinRequestBetween
<1>5. ASSUME NEW room \in BOOLEAN, LinkCheckRequest(room)
      PROVE  Goal
  <2>1. mac.state = {}
    BY <1>5 DEF LinkCheckRequest, MlmeAllowed
  <2>2. "McpsReq" \notin mac.flags
    BY <1>1, <2>1 DEF Between, Busy
  <2> HIDE DEF Goal
  <2> QED
    BY <1>1, <1>3, <1>5, <2>2, LinkCheckRequestBetween
<1>6. ASSUME ContinuousWaveRequest PROVE Goal
  BY <1>6 DEF ContinuousWaveRequest, MlmeAllowed, ClassAOnly
<1>7. ASSUME NEW type \in McpsTypes, NEW long \in BOOLEAN, NEW c \in Choices,
             McpsRequest(type, long, c)
      PROVE  Goal
  <2> HIDE DEF Goal
  <2> QED
    BY <1>1, <1>3, <1>7, McpsRequestBetween
<1>8. ASSUME OnRadioTxDone PROVE Goal
  <2> HIDE DEF Goal
  <2> QED
    BY <1>1, <1>2, <1>8, OnRadioTxDoneBetween
<1>9. ASSUME OnRadioTxTimeout PROVE Goal
  BY <1>1, <1>9 DEF OnRadioTxTimeout, ClassAOnly, Between, Kept, Aired
<1>10. ASSUME NEW idle \in BOOLEAN, NEW late \in BOOLEAN,
              OnRadioRxFailed(idle, late)
       PROVE  Goal
  <2>1. hist' = hist
    BY <1>10 DEF OnRadioRxFailed
  <2> HIDE DEF Goal
  <2> QED
    BY <1>1, <1>2, <1>10, <2>1, OnRadioRxFailedBetween
<1>11. ASSUME NEW f \in Downlinks, NEW c \in Choices, OnRadioRxDoneEvent(f, c)
       PROVE  Goal
  <2> DEFINE answer == /\ f.kind = "DATA" /\ f.ack /\ ~f.bad
                       /\ mac.confirm.type = "CONFIRMED"
  <2>1. /\ Between(mac')
        /\ mac'.confirm.type = mac.confirm.type
        /\ mac'.confirm.ack <=> answer
        /\ "McpsReq" \in mac'.flags => "McpsReq" \in mac.flags
    BY <1>1, <1>11, OnRadioRxDoneEventBetween
  <2>2. hist'.acked <=> hist.acked \/ answer
    BY <1>1, <1>11 DEF OnRadioRxDoneEvent, HistTypes
  <2>3. "McpsReq" \in mac'.flags => ~mac'.confirm.ack
    BY <2>1 DEF Between
  <2> HIDE DEF answer
  <2> QED
    BY <1>1, <2>1, <2>2, <2>3 DEF Unanswered
<1>12. ASSUME OnRxWindow1TimerEvent PROVE Goal
  <2>1. hist' = hist
    BY <1>12 DEF OnRxWindow1TimerEvent
  <2> HIDE DEF Goal
  <2> QED
    BY <1>1, <1>2, <1>12, <2>1, RxWindow1Between
<1>13. ASSUME OnRxWindow2TimerEvent PROVE Goal
  <2>1. hist' = hist
    BY <1>13 DEF OnRxWindow2TimerEvent
  <2> HIDE DEF Goal
  <2> QED
    BY <1>1, <1>2, <1>13, <2>1, RxWindow2Between
<1>14. ASSUME OnAckTimeoutTimerEvent PROVE Goal
  <2>1. hist' = hist
    BY <1>14 DEF OnAckTimeoutTimerEvent
  <2> HIDE DEF Goal
  <2> QED
    BY <1>1, <1>2, <1>14, <2>1, OnAckTimeoutBetween
<1>15. ASSUME NEW c \in Choices, OnTxDelayedTimerEvent(c)
       PROVE  Goal
  <2>1. hist' = hist
    BY <1>15 DEF OnTxDelayedTimerEvent
  <2> HIDE DEF Goal
  <2> QED
    BY <1>1, <1>2, <1>15, <2>1, OnTxDelayedBetween
<1>16. ASSUME NEW c \in Choices, OnMacStateCheckTimerEvent(c)
       PROVE  Goal
  <2>1. hist' = hist
    BY <1>16 DEF OnMacStateCheckTimerEvent
  <2>2. Told(mac', mac)
    BY <1>1, <1>16, OnMacStateCheckEventBetween
  <2>3. "McpsReq" \in mac.flags => ~mac.confirm.ack
    BY <1>1 DEF Between
  <2> QED
    BY <1>1, <2>1, <2>2, <2>3 DEF Told, Unanswered
<1>17. ASSUME UNCHANGED vars PROVE Goal
  BY <1>1, <1>17 DEF vars, Unanswered
<1> HIDE DEF Goal
<1>18. Goal
  BY <1>4, <1>5, <1>6, <1>7, <1>8, <1>9, <1>10, <1>11, <1>12, <1>13, <1>14,
     <1>15, <1>16, <1>17 DEF Next
<1> QED
  BY <1>18 DEF Goal

(* With it, an open confirmed request has not been acknowledged yet: the   *)
(* callback that sees the ACK bit closes the request.                      *)
THEOREM InvarianceB == Spec => []InvB
<1>1. Init => InvB
  BY InitInvA DEF InvB, Unanswered, Init
<1>2. InvB /\ [Next]_vars => InvB'
  <2> SUFFICES ASSUME InvB, [Next]_vars, ClassAOnly
               PROVE  Unanswered'
    BY NextInvA DEF InvB, ClassAOnly
  <2> QED
    BY StepAnswers
<1> QED
  BY <1>1, <1>2, PTL DEF Spec

(* A confirmed request of a class A device is reported as acknowledged     *)
(* exactly when a valid downlink with the ACK bit has come since it was    *)
(* made: OnRadioRxDone stops the acknowledgement timer for it, so the very *)
(* callback that sees the bit closes the request.                          *)
THEOREM AckToldRightly ==
  ASSUME ClassAOnly
  PROVE  Spec => AckReported
<1>1. InvB /\ [Next]_vars =>
        [(/\ "McpsReq" \in mac.flags /\ "McpsReq" \notin mac'.flags
          /\ mac.confirm.type = "CONFIRMED")
           => (mac'.confirm.ack <=> hist'.acked)]_vars
  BY StepAnswers
<1> QED
  BY <1>1, InvarianceB, PTL DEF Spec, AckReported

-----------------------------------------------------------------------------
(* The frame counters.  UpLinkCounter moves on in five places of the state *)
(* check, and a request is over in another; the proof follows one callback *)
(* from the record it finds, `n', through the records its blocks leave.    *)
(* A link check would leave two requests open at once.                     *)

CountersApply == ClassAOnly /\ "LINK_CHECK" \notin Services

Asking == {"McpsReq", "MlmeReq"}

(* At most one management request waits, one that does not restrict the    *)
(* common status or has got its own.                                       *)
Lone(q) ==
  /\ q.cnt <= 1
  /\ q.cnt = 1 => First(q).ready \/ ~First(q).restrict

(* It has got its status.                                                  *)
Reported(q) == q.cnt = 1 => First(q).ready

(* It has, or its frame is still to be sent.                               *)
Served(m) == Lone(m.queue) /\ (Reported(m.queue) \/ "TX_DELAYED" \in m.state)

-----------------------------------------------------------------------------
(* The confirm queue.                                                      *)

LEMMA FirstVisited ==
  ASSUME NEW q \in Queues, Contiguous(q), q.cnt > 0
  PROVE  q.start \in Slots /\ q.start \in Visited(q)
<1>1. SlotOf(q, 1) = q.start
  BY QueueLenAssumption DEF SlotOf, Queues, Slots
<1>2. 1 \in 1 .. q.cnt
  BY QueueLenAssumption DEF Queues
<1>3. SlotOf(q, 1) \in Visited(q)
  BY <1>2, VisitedAreLive
<1> QED
  BY <1>1, <1>3 DEF Visited

(* A common status reaches it.                                             *)
LEMMA SetStatusCmnReports ==
  ASSUME NEW q \in Queues, Contiguous(q), Lone(q), NEW status \in Statuses
  PROVE  Lone(SetStatusCmn(q, status)) /\ Reported(SetStatusCmn(q, status))
<1> DEFINE r == SetStatusCmn(q, status)
<1>1. /\ r.cnt = q.cnt /\ r.start = q.start
      /\ r.buf = MarkedCmn(q, status)
  BY DEF SetStatusCmn, Queues
<1>2. q.cnt \in Nat
  BY QueueLenAssumption DEF Queues
<1> HIDE DEF r
<1>3. CASE q.cnt = 0
  BY <1>1, <1>3 DEF Lone, Reported, r
<1>4. CASE q.cnt = 1
  <2>1. q.start \in Slots /\ q.start \in Visited(q)
    BY <1>4, FirstVisited
  <2> DEFINE e == q.buf[q.start]
             ready == e.ready \/ ~e.restrict
  <2>2. First(r) = [e EXCEPT !.status = status, !.ready = ready]
    <3>1. First(r) = MarkedCmn(q, status)[q.start]
      BY <1>1 DEF First
    <3>2. MarkedCmn(q, status)[q.start] =
            [e EXCEPT !.status = status, !.ready = @ \/ ~e.restrict]
      <4>1. q.cnt > 0
        BY <1>4
      <4> QED
        BY <2>1, <4>1, Zenon DEF MarkedCmn
    <3>3. e \in Elements
      BY <2>1 DEF Queues
    <3> HIDE DEF e
    <3>4. [e EXCEPT !.status = status, !.ready = @ \/ ~e.restrict] =
            [e EXCEPT !.status = status, !.ready = ready]
      BY <3>3 DEF Elements
    <3> QED
      BY <3>1, <3>2, <3>4
  <2>3. e \in Elements
    BY <2>1 DEF Queues
  <2>4. ready
    BY <1>4 DEF Lone, First
  <2> HIDE DEF e, ready
  <2>5. First(r).ready
    BY <2>2, <2>3, <2>4 DEF Elements
  <2> QED
    BY <1>1, <1>4, <2>5 DEF Lone, Reported, r
<1> QED
  BY <1>2, <1>3, <1>4 DEF Lone

(* So does its own.                                                        *)
LEMMA SetStatusReports ==
  ASSUME NEW q \in Queues, Lone(q), NEW req, NEW status \in Statuses
  PROVE  /\ Lone(SetStatus(q, req, status))
         /\ Reported(q) => Reported(SetStatus(q, req, status))
<1> DEFINE r == SetStatus(q, req, status)
           e == q.buf[q.start]
           set == [e EXCEPT !.status = status, !.ready = TRUE]
<1>1. /\ r.cnt = q.cnt /\ r.start = q.start
      /\ r.buf = Marked(q, GetElement(q, req), status)
  BY DEF SetStatus, Queues
<1>2. q.start \in Slots /\ e \in Elements
  BY DEF Queues
<1>3. First(r) \in {e, set}
  <2> DEFINE slots == GetElement(q, req)
  <2>1. Marked(q, slots, status)[q.start] =
          IF q.cnt > 0 /\ q.start \in slots THEN set ELSE e
    <3> HIDE DEF slots
    <3> QED
      BY <1>2, Zenon DEF Marked
  <2>2. First(r) = Marked(q, slots, status)[q.start]
    BY <1>1 DEF First
  <2> HIDE DEF slots, r, e, set
  <2> QED
    BY <2>1, <2>2
<1>4. set.ready
  BY <1>2 DEF Elements
<1>5. First(q) = e
  BY DEF First
<1> HIDE DEF r, e, set
<1>6. First(r) = First(q) \/ First(r).ready
  BY <1>3, <1>4, <1>5
<1> QED
  BY <1>1, <1>6 DEF Lone, Reported, r

(* A request enters an empty queue.                                        *)
LEMMA AddAlone ==
  ASSUME NEW q \in Queues, Contiguous(q), q.cnt = 0,
         NEW req \in Requests, NEW status \in Statuses
  PROVE  Lone(Add(q, req, status, FALSE))
<1> DEFINE e == [request |-> req, status |-> status, ready |-> FALSE,
                 restrict |-> FALSE]
           buf == [q.buf EXCEPT ![q.end] = e]
           end == IncreaseBufferPointer(q.end)
           r == [q EXCEPT !.buf = buf, !.cnt = 1, !.end = end]
<1>1. Add(q, req, status, FALSE) = r
  BY QueueLenAssumption DEF Add, IsFull, Queues
<1>2. q.end = q.start /\ q.start \in Slots
  BY QueueLenAssumption DEF Contiguous, Queues, Slots
<1>3. ~e.restrict
  OBVIOUS
<1> HIDE DEF e
<1>4. buf[q.start] = e
  BY <1>2 DEF Queues
<1> HIDE DEF buf, end
<1>5. r.cnt = 1 /\ First(r) = e
  BY <1>4 DEF Queues, First
<1> HIDE DEF r
<1>6. ~First(r).restrict
  BY <1>3, <1>5, Zenon
<1>7. r.cnt <= 1
  BY <1>5
<1> QED
  BY <1>1, <1>6, <1>7 DEF Lone

(* HandleCb reports it and leaves the queue empty.                         *)
LEMMA HandleCbEmpties ==
  ASSUME NEW q \in Queues, Contiguous(q), Lone(q), Reported(q),
         NEW conf \in Confs
  PROVE  HandleCb(q, conf).queue.cnt = 0
<1> DEFINE Pass(n, h) == IF n <= q.cnt THEN HandleOne(h) ELSE h
           h0 == Passed(q, <<>>, conf)
           h1 == Pass(1, h0)
<1>1. q.cnt \in {0, 1}
  BY QueueLenAssumption DEF Queues, Lone
<1>2. HandleCb(q, conf) = Pass(5, Pass(4, Pass(3, Pass(2, h1))))
  BY DEF HandleCb
<1>3. ASSUME NEW n \in {2, 3, 4, 5}, NEW h
      PROVE  Pass(n, h) = h
  BY <1>1, <1>3
<1>4. h1.queue.cnt = 0
  <2>1. CASE q.cnt = 0
    BY <2>1 DEF Passed
  <2>2. CASE q.cnt = 1
    <3>1. h0.queue = q
      BY DEF Passed
    <3>2. h1 = HandleOne(h0)
      BY <2>2
    <3> HIDE DEF h0, h1
    <3>3. h1.queue = RemoveFirst(q)
      BY <2>2, <3>1, <3>2 DEF Reported, HandleOne, ReportFirst, Passed
    <3> QED
      BY <2>2, <3>3, RemoveFirstTypes
  <2> QED
    BY <1>1, <2>1, <2>2
<1> HIDE DEF Pass, h1
<1>5. HandleCb(q, conf) = h1
  BY <1>2, <1>3
<1> QED
  BY <1>4, <1>5

(* What the application is told of it.                                     *)
LEMMA HandleCbTells ==
  ASSUME NEW q \in Queues, q.cnt = 1, First(q).ready, NEW conf
  PROVE  HandleCb(q, conf).conf = Confirm(First(q))
<1> DEFINE Pass(n, h) == IF n <= q.cnt THEN HandleOne(h) ELSE h
           h0 == Passed(q, <<>>, conf)
           h1 == Pass(1, h0)
<1>1. HandleCb(q, conf) = Pass(5, Pass(4, Pass(3, Pass(2, h1))))
  BY DEF HandleCb
<1>2. ASSUME NEW n \in {2, 3, 4, 5}, NEW h
      PROVE  Pass(n, h) = h
  BY <1>2
<1>3. h1.conf = Confirm(First(q))
  <2>1. h0.queue = q
    BY DEF Passed
  <2>2. h1 = HandleOne(h0)
    OBVIOUS
  <2> HIDE DEF h0, h1
  <2> QED
    BY <2>1, <2>2 DEF HandleOne, ReportFirst, Passed
<1> HIDE DEF Pass, h1
<1> QED
  BY <1>1, <1>2, <1>3

(* A request that stands first is the one its name finds.                  *)
LEMMA FirstElement ==
  ASSUME NEW q \in Queues, Contiguous(q), q.cnt > 0
  PROVE  GetElement(q, First(q).request) = {q.start}
<1> DEFINE req == First(q).request
<1>1. q.start \in Visited(q) /\ q.buf[q.start].request = req
  BY FirstVisited DEF First
<1>2. ASSUME NEW i \in Visited(q)
      PROVE  /\ Distance(q.start, q.start) <= Distance(q.start, i)
             /\ Distance(q.start, i) <= Distance(q.start, q.start) =>
                  i = q.start
  BY <1>2, QueueLenAssumption DEF Distance, Visited, Queues, Slots
<1> HIDE DEF req
<1>3. q.start \in GetElement(q, req)
  BY <1>1, <1>2 DEF GetElement
<1>4. ASSUME NEW i \in GetElement(q, req)
      PROVE  i = q.start
  BY <1>1, <1>2, <1>4 DEF GetElement
<1> QED
  BY <1>3, <1>4 DEF req

LEMMA FirstStatus ==
  ASSUME NEW q \in Queues, Contiguous(q), q.cnt > 0,
         NEW req, First(q).request = req
  PROVE  GetStatus(q, req) = First(q).status
<1>1. GetElement(q, req) = {q.start} /\ q.cnt # 0
  BY FirstElement
<1> QED
  BY <1>1 DEF GetStatus, First

(* What a status does to the first request.                                *)
LEMMA FirstCommon ==
  ASSUME NEW q \in Queues, Contiguous(q), q.cnt > 0, NEW status
  PROVE  LET e == First(SetStatusCmn(q, status))
         IN  e.request = First(q).request /\ e.status = status
<1> DEFINE r == SetStatusCmn(q, status)
           e == q.buf[q.start]
           ready == e.ready \/ ~e.restrict
           set == [e EXCEPT !.status = status, !.ready = ready]
<1>1. q.start \in Slots /\ q.start \in Visited(q)
  BY FirstVisited
<1>2. r.start = q.start /\ r.buf = MarkedCmn(q, status)
  BY DEF SetStatusCmn, Queues
<1>3. e \in Elements
  BY <1>1 DEF Queues
<1>4. MarkedCmn(q, status)[q.start] =
        [e EXCEPT !.status = status, !.ready = @ \/ ~e.restrict]
  BY <1>1, Zenon DEF MarkedCmn
<1> HIDE DEF r, e
<1>5. [e EXCEPT !.status = status, !.ready = @ \/ ~e.restrict] = set
  BY <1>3 DEF Elements
<1> HIDE DEF ready
<1>6. set.request = e.request /\ set.status = status
  BY <1>3 DEF Elements
<1> HIDE DEF set
<1>7. First(r) = set /\ First(q) = e
  BY <1>2, <1>4, <1>5 DEF First, e
<1> QED
  BY <1>6, <1>7 DEF r

LEMMA FirstSet ==
  ASSUME NEW q \in Queues, Contiguous(q), q.cnt > 0, NEW req, NEW status
  PROVE  LET e == First(SetStatus(q, req, status))
         IN  /\ e.request = First(q).request
             /\ e.status = IF First(q).request = req
                           THEN status ELSE First(q).status
<1> DEFINE r == SetStatus(q, req, status)
           slots == GetElement(q, req)
           e == q.buf[q.start]
           set == [e EXCEPT !.status = status, !.ready = TRUE]
<1>1. q.start \in Slots /\ e \in Elements
  BY DEF Queues
<1>2. q.start \in slots <=> e.request = req
  <2>1. e.request = req => slots = {q.start}
    BY FirstElement DEF First
  <2>2. q.start \in slots => e.request = req
    BY DEF GetElement
  <2> HIDE DEF slots, e
  <2> QED
    BY <2>1, <2>2
<1>3. r.start = q.start /\ r.buf = Marked(q, slots, status)
  BY DEF SetStatus, Queues
<1> HIDE DEF slots, r
<1>4. Marked(q, slots, status)[q.start] =
        IF q.start \in slots THEN set ELSE e
  BY <1>1, Zenon DEF Marked
<1>5. set.request = e.request /\ set.status = status
  BY <1>1 DEF Elements
<1> HIDE DEF set, e
<1>6. First(r) = (IF q.start \in slots THEN set ELSE e) /\ First(q) = e
  BY <1>3, <1>4 DEF First, e
<1> QED
  BY <1>2, <1>5, <1>6 DEF r

(* A request is first in an empty queue, and waits while it is first.      *)
LEMMA FirstAdded ==
  ASSUME NEW q \in Queues, Contiguous(q), q.cnt = 0,
         NEW req \in Requests, NEW status \in Statuses
  PROVE  LET r == Add(q, req, status, FALSE)
         IN  /\ r.cnt = 1
             /\ First(r).request = req /\ First(r).status = status
<1> DEFINE e == [request |-> req, status |-> status, ready |-> FALSE,
                 restrict |-> FALSE]
           buf == [q.buf EXCEPT ![q.end] = e]
           end == IncreaseBufferPointer(q.end)
           r == [q EXCEPT !.buf = buf, !.cnt = 1, !.end = end]
<1>1. Add(q, req, status, FALSE) = r
  BY QueueLenAssumption DEF Add, IsFull, Queues
<1>2. q.end = q.start /\ q.start \in Slots
  BY QueueLenAssumption DEF Contiguous, Queues, Slots
<1>3. e.request = req /\ e.status = status
  OBVIOUS
<1> HIDE DEF e
<1>4. buf[q.start] = e
  BY <1>2 DEF Queues
<1> HIDE DEF buf, end
<1>5. r.cnt = 1 /\ First(r) = e
  BY <1>4 DEF Queues, First
<1> HIDE DEF r
<1> QED
  BY <1>1, <1>3, <1>5

LEMMA FirstWaits ==
  ASSUME NEW q \in Queues, NEW req
  PROVE  /\ q.cnt > 0 /\ First(q).request = req => Waiting(q, req)
         /\ Waiting(q, req) => q.cnt > 0
<1>1. q.cnt \in Nat
  BY QueueLenAssumption DEF Queues
<1>2. ASSUME q.cnt > 0, First(q).request = req
      PROVE  Waiting(q, req)
  <2>1. 1 \in 1 .. q.cnt /\ SlotOf(q, 1) = q.start
    BY <1>1, <1>2, QueueLenAssumption DEF SlotOf, Queues, Slots
  <2>2. Live(q)[1] = First(q)
    BY <2>1 DEF Live, First
  <2> QED
    BY <1>2, <2>1, <2>2 DEF Waiting
<1>3. ASSUME Waiting(q, req)
      PROVE  q.cnt > 0
  BY <1>1, <1>3 DEF Waiting
<1> QED
  BY <1>2, <1>3

(* The request that waits is a join, and has got its success if and only   *)
(* if the device has joined.                                               *)
Matched(m) ==
  /\ m.mlme.request = "JOIN"
  /\ m.queue.cnt > 0 => /\ First(m.queue).request = "JOIN"
                        /\ First(m.queue).status = "OK" <=> m.joined

-----------------------------------------------------------------------------
(* Sending.                                                                *)

LEMMA SendFrameServes ==
  ASSUME NEW m \in MacTypes, Contiguous(m.queue), Lone(m.queue)
  PROVE  LET r == SendFrameOnChannel(m)
         IN  r.upCnt = m.upCnt /\ Served(r)
<1> DEFINE s == RadioTo(m, "TX")
           confirm == [s.confirm EXCEPT !.status = "ERROR", !.dr = m.dr]
           queue == SetStatusCmn(s.queue, "ERROR")
           r == [s EXCEPT !.queue = queue,
                          !.confirm = confirm,
                          !.timers = @ \cup {"StateCheck"},
                          !.joinTrials = IF m.joined THEN @ ELSE @ + 1,
                          !.state = @ \cup {"TX_RUNNING"}]
<1>1. SendFrameOnChannel(m) = r
  BY DEF SendFrameOnChannel
<1>2. s \in MacTypes /\ s.queue = m.queue
  BY RadioToAlike DEF Radios, Alike
<1>3. s.upCnt = m.upCnt
  <2> DEFINE cut == m.cut \/ m.radio \in {"TX", "CW"}
  <2>1. s = [m EXCEPT !.radio = "TX", !.cut = cut]
    BY DEF RadioTo
  <2> HIDE DEF s, cut
  <2> QED
    BY <2>1 DEF MacTypes
<1> HIDE DEF s
<1>4. Lone(queue) /\ Reported(queue)
  BY <1>2, SetStatusCmnReports, StatusAssumption DEF MacTypes
<1> HIDE DEF queue, confirm
<1>5. r.upCnt = s.upCnt /\ r.queue = queue
  BY <1>2 DEF MacTypes
<1> HIDE DEF r
<1> QED
  BY <1>1, <1>3, <1>4, <1>5 DEF Served

(* A scheduled frame takes the common status along, or waits.              *)
LEMMA ScheduleTxServes ==
  ASSUME NEW m \in MacTypes, Contiguous(m.queue), Lone(m.queue),
         NEW c \in Choices
  PROVE  LET r == ScheduleTx(m, c)
         IN  /\ r.upCnt = m.upCnt /\ r.joined = m.joined
             /\ r.frame = m.frame /\ r.flags = m.flags
             /\ Sendable(m) => Served(r) /\ Busy(r)
             /\ ~Sendable(m) => r = m
<1> DEFINE state == m.state \cup {"TX_DELAYED"}
           put == [m EXCEPT !.state = state,
                            !.timers = @ \cup {"TxDelayed"}]
           r == ScheduleTx(m, c)
<1>1. Sendable(m) => r \in {put, SendFrameOnChannel(m)}
  BY DEF ScheduleTx
<1>2. put.upCnt = m.upCnt /\ put.queue = m.queue /\ put.state = state
  BY DEF MacTypes
<1>3. "TX_DELAYED" \in state
  OBVIOUS
<1> HIDE DEF put, state
<1>4. Sendable(m) => r.upCnt = m.upCnt /\ Served(r)
  BY <1>1, <1>2, <1>3, SendFrameServes DEF Served
<1>5. /\ ~Sendable(m) => r = m
      /\ Sendable(m) => OnAir(r, m) \/ PutOff(r, m)
  BY ScheduleTxCases
<1> HIDE DEF r
<1>6. Sendable(m) => SameRequest(r, m) /\ Busy(r)
  BY <1>5 DEF OnAir, PutOff, Busy
<1> QED
  BY <1>4, <1>5, <1>6 DEF SameRequest, r

LEMMA PrepareJoinLeaves ==
  ASSUME NEW m \in MacTypes, NEW c \in Choices
  PROVE  PrepareJoin(m, c).joined = FALSE
<1> DEFINE r == [m EXCEPT
                   !.joined = FALSE, !.upCnt = 0, !.nbRep = 0,
                   !.ackRetries = 1, !.ackCnt = 1, !.retry = FALSE,
                   !.off = FALSE, !.nodeAck = FALSE, !.dr = c.joinDr]
           frame == [kind |-> "JOIN", fcnt |-> r.upCnt, req |-> 0,
                     long |-> FALSE]
           p == [r EXCEPT !.nodeAck = FALSE, !.frame = frame]
<1>1. [ResetMacParameters(m) EXCEPT !.dr = c.joinDr] = r
  BY DEF ResetMacParameters, MacTypes
<1>2. PrepareJoin(m, c) = p
  BY <1>1 DEF PrepareJoin, PrepareFrame, Buildable
<1>3. r.joined = FALSE /\ DOMAIN r = DOMAIN m
  BY DEF MacTypes
<1> HIDE DEF frame, r
<1>4. p.joined = r.joined
  BY <1>3 DEF MacTypes
<1> QED
  BY <1>2, <1>3, <1>4

(* OnTxDelayed, from a callback or inside of one.                          *)
LEMMA SentAgainServes ==
  ASSUME NEW m \in MacTypes, Contiguous(m.queue), Lone(m.queue),
         NEW c \in Choices,
         Sendable(m) \/ JoinRequested(m) \/ Reported(m.queue)
  PROVE  LET r == OnTxDelayed(m, c)
         IN  /\ r.flags = m.flags
             /\ Served(r)
             /\ IF JoinRequested(m)
                THEN r.joined = FALSE /\ r.frame.kind = "JOIN"
                ELSE /\ r.joined = m.joined /\ r.frame = m.frame
                     /\ r.upCnt = m.upCnt
             /\ Sendable(m) \/ JoinRequested(m) \/ "TX_RUNNING" \in m.state
                  => Busy(r)
<1> DEFINE state == m.state \ {"TX_DELAYED"}
           timers == m.timers \ {"TxDelayed"}
           due == [m EXCEPT !.timers = timers, !.state = state]
           frame == IF JoinRequested(due) THEN PrepareJoin(due, c) ELSE due
           r == ScheduleTx(frame, c)
<1>1. OnTxDelayed(m, c) = r
  BY DEF OnTxDelayed, Stop, MacTypes
<1>2. /\ state \in SUBSET States /\ timers \in SUBSET Timers
      /\ "TX_RUNNING" \in m.state => "TX_RUNNING" \in state
  BY DEF MacTypes
<1> HIDE DEF state, timers
<1>3. /\ due.state = state /\ due.flags = m.flags
      /\ due.joined = m.joined /\ due.frame = m.frame
      /\ due.upCnt = m.upCnt /\ due.queue = m.queue
      /\ due.mlme = m.mlme /\ due.off = m.off /\ due.dr = m.dr
  BY DEF MacTypes
<1>4. due \in MacTypes
  BY <1>2 DEF MacTypes
<1>5. JoinRequested(due) <=> JoinRequested(m)
  BY <1>3 DEF JoinRequested
<1>6. Sendable(due) <=> Sendable(m)
  BY <1>3 DEF Sendable
<1> HIDE DEF due
<1>7. /\ frame \in MacTypes
      /\ frame.state = state /\ frame.flags = m.flags
      /\ frame.queue = m.queue
      /\ IF JoinRequested(m)
         THEN /\ frame.joined = FALSE /\ frame.frame.kind = "JOIN"
              /\ Sendable(frame)
         ELSE /\ frame.joined = m.joined /\ frame.frame = m.frame
              /\ frame.upCnt = m.upCnt
              /\ Sendable(frame) <=> Sendable(m)
  BY <1>3, <1>4, <1>5, <1>6, PrepareJoinFields, PrepareJoinLeaves
<1> HIDE DEF frame
<1>8. /\ r.upCnt = frame.upCnt /\ r.joined = frame.joined
      /\ r.frame = frame.frame /\ r.flags = frame.flags
      /\ Sendable(frame) => Served(r) /\ Busy(r)
      /\ ~Sendable(frame) => r = frame
  BY <1>7, ScheduleTxServes
<1> HIDE DEF r
<1>9. Served(r)
  BY <1>7, <1>8 DEF Served
<1>10. "TX_RUNNING" \in m.state => Busy(r)
  BY <1>2, <1>7, <1>8 DEF Busy
<1> QED
  BY <1>1, <1>7, <1>8, <1>9, <1>10

-----------------------------------------------------------------------------
(* OnMacStateCheckTimerEvent, block by block, from the record `n' it found. *)

(* The requests are those of `n', and so are the frame and the session,    *)
(* unless a join is asked for; the counter has not gone back.              *)
Carried(m, n) ==
  /\ n.upCnt \in Nat
  /\ ~(Asking \subseteq n.flags)
  /\ m.flags \cap Asking = n.flags \cap Asking
  /\ Served(m)
  /\ IF "MlmeReq" \in n.flags
     THEN m.frame.kind = "JOIN" /\ (m.joined => n.joined)
     ELSE m.frame = n.frame /\ m.joined = n.joined /\ m.upCnt >= n.upCnt

(* Who no longer carries a data request, or is about to send it again, has *)
(* moved the counter on.                                                   *)
Pending(m, n) ==
  "McpsReq" \in n.flags => Busy(m) \/ m.retry \/ m.upCnt > n.upCnt

LEMMA CarriedStays ==
  ASSUME NEW n, NEW m, Carried(m, n), NEW r,
         m.upCnt \in Nat, r.upCnt \in Nat,
         "TX_DELAYED" \in m.state => "TX_DELAYED" \in r.state,
         r.flags \cap Asking = m.flags \cap Asking,
         r.queue = m.queue, r.frame = m.frame, r.joined = m.joined,
         r.upCnt >= m.upCnt \/ "MlmeReq" \in m.flags
  PROVE  Carried(r, n)
<1>1. "MlmeReq" \in m.flags <=> "MlmeReq" \in n.flags
  BY DEF Carried, Asking
<1> QED
  BY <1>1 DEF Carried, Served

LEMMA StopRunningFields ==
  ASSUME NEW m \in MacTypes
  PROVE  /\ StopRunning(m) \in MacTypes
         /\ StopRunning(m).state = m.state \ {"TX_RUNNING"}
         /\ StopRunning(m).flags = m.flags /\ StopRunning(m).queue = m.queue
         /\ StopRunning(m).frame = m.frame /\ StopRunning(m).joined = m.joined
         /\ StopRunning(m).upCnt = m.upCnt /\ StopRunning(m).retry = m.retry
         /\ StopRunning(m).confirm = m.confirm
BY DEF StopRunning, MacTypes

LEMMA AbortBlockCarried ==
  ASSUME NEW n, NEW m, Sound(m), Carried(m, n)
  PROVE  Carried(AbortBlock(m), n)
<1> DEFINE state == m.state \ {"RX_ABORT", "TX_RUNNING"}
           r == [m EXCEPT !.state = state]
<1>1. AbortBlock(m) \in {m, r}
  BY DEF AbortBlock
<1>2. "TX_DELAYED" \in m.state => "TX_DELAYED" \in state
  OBVIOUS
<1>3. m \in MacTypes /\ m.upCnt \in Nat
  BY DEF Sound, MacTypes
<1> HIDE DEF state
<1>4. /\ r.state = state /\ r.flags = m.flags /\ r.queue = m.queue
      /\ r.frame = m.frame /\ r.joined = m.joined /\ r.upCnt = m.upCnt
  BY <1>3 DEF MacTypes
<1> HIDE DEF r
<1>5. Carried(r, n)
  BY <1>2, <1>3, <1>4, CarriedStays
<1> QED
  BY <1>1, <1>5

LEMMA TxTimeoutBlockCarried ==
  ASSUME NEW n, NEW m, Midway(m), Carried(m, n)
  PROVE  Carried(TxTimeoutBlock(m), n)
<1> DEFINE mlme == [m.mlme EXCEPT !.status = m.queue.cmn]
           r == [m EXCEPT !.mlme = mlme]
<1>1. TxTimeoutBlock(m) \in {m, r}
  BY DEF TxTimeoutBlock, TxTimedOut, Midway, Kept, NoTimeout
<1>2. m \in MacTypes /\ m.upCnt \in Nat
  BY DEF Midway, Sound, MacTypes
<1> HIDE DEF mlme
<1>3. /\ r.state = m.state /\ r.flags = m.flags /\ r.queue = m.queue
      /\ r.frame = m.frame /\ r.joined = m.joined /\ r.upCnt = m.upCnt
  BY <1>2 DEF MacTypes
<1> HIDE DEF r
<1>4. Carried(r, n)
  BY <1>2, <1>3, CarriedStays
<1> QED
  BY <1>1, <1>4

(* A frame is sent once more, as long as nothing has been received.        *)
LEMMA SendAgainCarried ==
  ASSUME NEW n, NEW m, Midway(m), Carried(m, n), NEW c \in Choices,
         JoinRequested(m) \/ "McpsInd" \notin m.flags
  PROVE  /\ Carried(SendAgain(m, c), n)
         /\ JoinRequested(m) \/ Busy(SendAgain(m, c))
<1> DEFINE flags == m.flags \ {"MacDone"}
           s == [m EXCEPT !.flags = flags]
           r == OnTxDelayed(s, c)
<1>1. SendAgain(m, c) = r
  BY DEF SendAgain
<1>2. m \in MacTypes /\ Contiguous(m.queue) /\ flags \in SUBSET Flags
  BY DEF Midway, Sound, MacTypes
<1>3. /\ flags \cap Asking = m.flags \cap Asking
      /\ "MlmeReq" \in flags <=> "MlmeReq" \in m.flags
  BY DEF Asking
<1> HIDE DEF flags
<1>4. /\ s \in MacTypes /\ s.flags = flags
      /\ s.state = m.state /\ s.queue = m.queue /\ s.mlme = m.mlme
      /\ s.frame = m.frame /\ s.joined = m.joined /\ s.upCnt = m.upCnt
  BY <1>2 DEF MacTypes
<1> HIDE DEF s
<1>5. JoinRequested(s) <=> JoinRequested(m)
  BY <1>3, <1>4 DEF JoinRequested
<1>6. Lone(s.queue) /\ Reported(s.queue)
  BY <1>4 DEF Midway, Kept, InTurn, Carried, Served
<1>7. /\ r.flags = s.flags
      /\ Served(r)
      /\ IF JoinRequested(s)
         THEN r.joined = FALSE /\ r.frame.kind = "JOIN"
         ELSE /\ r.joined = s.joined /\ r.frame = s.frame
              /\ r.upCnt = s.upCnt
      /\ "TX_RUNNING" \in s.state => Busy(r)
  BY <1>2, <1>4, <1>6, SentAgainServes
<1> HIDE DEF r
<1>8. JoinRequested(m) \/ Busy(r)
  BY <1>4, <1>7 DEF Midway, Kept, InTurn, Busy
<1>9. Carried(r, n)
  <2>1. "MlmeReq" \in m.flags <=> "MlmeReq" \in n.flags
    BY DEF Carried, Asking
  <2>2. r.flags \cap Asking = n.flags \cap Asking
    BY <1>3, <1>4, <1>7 DEF Carried
  <2>3. CASE JoinRequested(m)
    BY <1>5, <1>7, <2>1, <2>2, <2>3 DEF JoinRequested, Carried
  <2>4. CASE ~JoinRequested(m)
    BY <1>4, <1>5, <1>7, <2>2, <2>4 DEF Carried
  <2> QED
    BY <2>3, <2>4
<1> QED
  BY <1>1, <1>8, <1>9

LEMMA UnacknowledgedBlockCarried ==
  ASSUME NEW n, NEW m, Midway(m), Carried(m, n), NEW c \in Choices
  PROVE  /\ Carried(UnacknowledgedBlock(m, c), n)
         /\ Pending(UnacknowledgedBlock(m, c), n)
<1> DEFINE s == StopRunning(m)
           joined == [s EXCEPT !.upCnt = 0, !.nbRep = 0]
           upCnt == s.upCnt + 1
           repeated == [s EXCEPT !.nbRep = 0, !.upCnt = upCnt]
<1>1. /\ "McpsReq" \in m.flags <=> "McpsReq" \in n.flags
      /\ "MlmeReq" \in m.flags <=> "MlmeReq" \in n.flags
      /\ ~(Asking \subseteq n.flags)
      /\ n.upCnt \in Nat
  BY DEF Carried, Asking
<1>2. m \in MacTypes /\ m.upCnt \in Nat
  BY DEF Midway, Sound, MacTypes
<1>3. CASE m.nodeAck \/ ~Requested(m)
  <2>1. UnacknowledgedBlock(m, c) = m
    BY <1>3 DEF UnacknowledgedBlock
  <2>2. Pending(m, n)
    BY <1>1, <1>3 DEF Pending, Midway, Requested
  <2> QED
    BY <2>1, <2>2
<1>4. CASE ~m.nodeAck /\ Requested(m)
  <2>1. ~TxTimedOut(m)
    BY DEF TxTimedOut, Midway, Kept, NoTimeout
  <2>2. JoinRequested(m) =>
          UnacknowledgedBlock(m, c) \in {joined, s, SendAgain(m, c)}
    BY <1>4, <2>1 DEF UnacknowledgedBlock, JoinBlock
  <2>3. ~JoinRequested(m) =>
          \/ UnacknowledgedBlock(m, c) = repeated
          \/ /\ UnacknowledgedBlock(m, c) = SendAgain(m, c)
             /\ "McpsInd" \notin m.flags
    BY <1>4, <2>1 DEF UnacknowledgedBlock, RepetitionBlock
  <2>4. /\ s \in MacTypes
        /\ "TX_DELAYED" \in m.state => "TX_DELAYED" \in s.state
        /\ s.flags = m.flags /\ s.queue = m.queue
        /\ s.frame = m.frame /\ s.joined = m.joined
        /\ s.upCnt = m.upCnt
    BY <1>2, StopRunningFields
  <2>5. upCnt \in Nat /\ upCnt > m.upCnt
    BY <1>2, <2>4
  <2> HIDE DEF s, upCnt
  <2>6. /\ repeated.state = s.state /\ repeated.flags = s.flags
        /\ repeated.queue = s.queue /\ repeated.frame = s.frame
        /\ repeated.joined = s.joined /\ repeated.upCnt = upCnt
    BY <2>4 DEF MacTypes
  <2>7. /\ joined.state = s.state /\ joined.flags = s.flags
        /\ joined.queue = s.queue /\ joined.frame = s.frame
        /\ joined.joined = s.joined /\ joined.upCnt = 0
    BY <2>4 DEF MacTypes
  <2> HIDE DEF repeated, joined
  <2>8. CASE JoinRequested(m)
    <3>1. "MlmeReq" \in m.flags /\ "McpsReq" \notin n.flags
      BY <1>1, <2>8 DEF JoinRequested, Asking
    <3>2. Carried(s, n)
      BY <1>2, <2>4, <3>1, CarriedStays
    <3>3. Carried(joined, n)
      BY <1>2, <2>4, <2>7, <3>1, CarriedStays
    <3>4. Carried(SendAgain(m, c), n)
      BY <2>8, SendAgainCarried
    <3> QED
      BY <2>2, <2>8, <3>1, <3>2, <3>3, <3>4 DEF Pending
  <2>9. CASE ~JoinRequested(m)
    <3>1. Carried(repeated, n)
      BY <1>2, <2>4, <2>5, <2>6, CarriedStays
    <3>2. Pending(repeated, n)
      <4>1. "McpsReq" \in n.flags => m.upCnt >= n.upCnt
        BY <1>1 DEF Carried, Asking
      <4> QED
        BY <1>1, <1>2, <2>5, <2>6, <4>1 DEF Pending
    <3>3. "McpsInd" \notin m.flags =>
            Carried(SendAgain(m, c), n) /\ Busy(SendAgain(m, c))
      BY <2>9, SendAgainCarried
    <3> QED
      BY <2>3, <2>9, <3>1, <3>2, <3>3 DEF Pending
  <2> QED
    BY <2>8, <2>9
<1> QED
  BY <1>3, <1>4

LEMMA ReceivedBlockCarried ==
  ASSUME NEW n, NEW m, Sound(m), Carried(m, n), Pending(m, n)
  PROVE  Carried(ReceivedBlock(m), n) /\ Pending(ReceivedBlock(m), n)
<1> DEFINE s == StopRunning(m)
           upCnt == s.upCnt + 1
           r == [s EXCEPT !.retry = FALSE, !.nodeAck = FALSE, !.upCnt = upCnt]
<1>1. ReceivedBlock(m) \in {m, r}
  BY DEF ReceivedBlock
<1>2. m \in MacTypes /\ m.upCnt \in Nat
  BY DEF Sound, MacTypes
<1>3. /\ s \in MacTypes
      /\ "TX_DELAYED" \in m.state => "TX_DELAYED" \in s.state
      /\ s.flags = m.flags /\ s.queue = m.queue
      /\ s.frame = m.frame /\ s.joined = m.joined
      /\ s.upCnt = m.upCnt
  BY <1>2, StopRunningFields
<1>4. upCnt \in Nat /\ upCnt > m.upCnt
  BY <1>2, <1>3
<1> HIDE DEF s, upCnt
<1>5. /\ r.state = s.state /\ r.flags = s.flags /\ r.queue = s.queue
      /\ r.frame = s.frame /\ r.joined = s.joined /\ r.upCnt = upCnt
  BY <1>3 DEF MacTypes
<1> HIDE DEF r
<1>6. Carried(r, n)
  BY <1>2, <1>3, <1>4, <1>5, CarriedStays
<1>7. Pending(r, n)
  <2>1. "McpsReq" \in n.flags => m.upCnt >= n.upCnt /\ n.upCnt \in Nat
    BY DEF Carried, Asking
  <2> QED
    BY <1>2, <1>4, <1>5, <2>1 DEF Pending
<1> QED
  BY <1>1, <1>6, <1>7

(* A retransmission that is given up moves the counter on.                 *)
LEMMA GiveUpCarried ==
  ASSUME NEW n, NEW m, m \in MacTypes, Carried(m, n)
  PROVE  /\ Carried(GiveUp(m), n) /\ Carried(GiveUpTooLong(m), n)
         /\ "McpsReq" \in n.flags =>
              GiveUp(m).upCnt > n.upCnt /\ GiveUpTooLong(m).upCnt > n.upCnt
<1> DEFINE state == m.state \ {"TX_RUNNING"}
           upCnt == m.upCnt + 1
           no == [m.confirm EXCEPT !.ack = FALSE]
           long == [no EXCEPT !.status = "DR_SIZE", !.dr = m.dr]
           r == [m EXCEPT !.state = state, !.nodeAck = FALSE,
                          !.confirm = no, !.upCnt = upCnt]
           t == [r EXCEPT !.confirm = long]
<1>1. GiveUp(m) = r /\ GiveUpTooLong(m) = t
  BY DEF GiveUp, GiveUpTooLong, StopRunning, MacTypes, McpsConfirms
<1>2. m.upCnt \in Nat
  BY DEF MacTypes
<1>3. /\ upCnt \in Nat /\ upCnt > m.upCnt
      /\ "TX_DELAYED" \in m.state => "TX_DELAYED" \in state
  BY <1>2
<1> HIDE DEF state, upCnt, no, long
<1>4. /\ r.state = state /\ r.flags = m.flags /\ r.queue = m.queue
      /\ r.frame = m.frame /\ r.joined = m.joined /\ r.upCnt = upCnt
  BY DEF MacTypes
<1>5. /\ t.state = state /\ t.flags = m.flags /\ t.queue = m.queue
      /\ t.frame = m.frame /\ t.joined = m.joined /\ t.upCnt = upCnt
  BY DEF MacTypes
<1> HIDE DEF r, t
<1>6. Carried(r, n)
  BY <1>2, <1>3, <1>4, CarriedStays
<1>7. Carried(t, n)
  BY <1>2, <1>3, <1>5, CarriedStays
<1>8. "McpsReq" \in n.flags => upCnt > n.upCnt
  BY <1>2, <1>3 DEF Carried, Asking
<1> QED
  BY <1>1, <1>4, <1>5, <1>6, <1>7, <1>8

(* A data request is still carried, or its counter is used up.             *)
Closed(m, n) == "McpsReq" \in n.flags => Busy(m) \/ m.upCnt > n.upCnt

LEMMA RetryBlockCarried ==
  ASSUME NEW n, NEW m, Sound(m), Carried(m, n), Pending(m, n),
         NEW c \in Choices
  PROVE  Carried(RetryBlock(m, c), n) /\ Closed(RetryBlock(m, c), n)
<1> DEFINE due   == [m EXCEPT !.retry = FALSE]
           next  == NextTry(m)
           sent  == ScheduleTx(next, c)
           flags == sent.flags \ {"MacDone"}
           again == [sent EXCEPT !.flags = flags]
<1>1. m \in MacTypes /\ m.upCnt \in Nat
  BY DEF Sound, MacTypes
<1>2. CASE ~m.retry \/ "TX_DELAYED" \in m.state
  <2>1. RetryBlock(m, c) = m
    BY <1>2 DEF RetryBlock
  <2>2. Closed(m, n)
    BY <1>2 DEF Pending, Closed, Busy
  <2> QED
    BY <2>1, <2>2
<1>3. CASE m.retry /\ "TX_DELAYED" \notin m.state
  <2>1. \/ RetryBlock(m, c) = GiveUp(due)
        \/ RetryBlock(m, c) = GiveUpTooLong(next)
        \/ RetryBlock(m, c) = again /\ Sendable(next)
    BY <1>3 DEF RetryBlock
  <2>2. /\ due \in MacTypes
        /\ due.state = m.state /\ due.flags = m.flags
        /\ due.queue = m.queue /\ due.frame = m.frame
        /\ due.joined = m.joined /\ due.upCnt = m.upCnt
    BY <1>1 DEF MacTypes
  <2>3. /\ next \in MacTypes
        /\ next.state = m.state /\ next.flags = m.flags
        /\ next.queue = m.queue
    BY <1>1, NextTryAlike DEF Alike
  <2>4. next.frame = m.frame /\ next.joined = m.joined
    BY <1>1, NextTryFields
  <2>5. next.upCnt = m.upCnt
    <3> DEFINE cnt == m.ackCnt + 1
               dr == IF cnt % 2 = 1 THEN NextLowerDr(m.dr) ELSE m.dr
    <3>1. next = [m EXCEPT !.retry = FALSE, !.ackCnt = cnt, !.dr = dr]
      BY DEF NextTry
    <3> HIDE DEF next, cnt, dr
    <3> QED
      BY <1>1, <3>1 DEF MacTypes
  <2> HIDE DEF due, next
  <2>6. Carried(due, n) /\ Carried(next, n)
    BY <1>1, <2>2, <2>3, <2>4, <2>5, CarriedStays
  <2>7. /\ Carried(GiveUp(due), n) /\ Carried(GiveUpTooLong(next), n)
        /\ Closed(GiveUp(due), n) /\ Closed(GiveUpTooLong(next), n)
    BY <2>2, <2>3, <2>6, GiveUpCarried DEF Closed
  <2>8. ASSUME Sendable(next)
        PROVE  Carried(again, n) /\ Busy(again)
    <3>1. /\ sent.upCnt = next.upCnt /\ sent.joined = next.joined
          /\ sent.frame = next.frame /\ sent.flags = next.flags
          /\ Served(sent) /\ Busy(sent)
      <4>1. Contiguous(next.queue) /\ Lone(next.queue)
        BY <2>3 DEF Sound, Carried, Served
      <4> QED
        BY <2>3, <2>8, <4>1, ScheduleTxServes
    <3>2. sent \in MacTypes
      <4>1. Sound(next)
        BY <1>1, NextTryAlike, AlikeKeeps DEF next
      <4> QED
        BY <4>1, ScheduleTxSound DEF Sound
    <3>3. flags \cap Asking = sent.flags \cap Asking
      BY DEF Asking
    <3> HIDE DEF sent, flags
    <3>4. /\ again.state = sent.state /\ again.flags = flags
          /\ again.queue = sent.queue /\ again.frame = sent.frame
          /\ again.joined = sent.joined /\ again.upCnt = sent.upCnt
      BY <3>2 DEF MacTypes
    <3> HIDE DEF again
    <3>5. Carried(again, n)
      BY <2>6, <3>1, <3>3, <3>4 DEF Carried, Served
    <3> QED
      BY <3>1, <3>4, <3>5 DEF Busy
  <2> HIDE DEF again
  <2> QED
    BY <2>1, <2>7, <2>8 DEF Closed
<1> QED
  BY <1>2, <1>3

(* The callback is over: a request is over with it if and only if the MAC  *)
(* has nothing left to do.                                                 *)
Concluded(r, n) ==
  /\ Served(r)
  /\ r.flags \cap Asking \subseteq n.flags
  /\ Busy(r) => r.flags \cap Asking = n.flags \cap Asking
  /\ ~Busy(r) => r.flags \cap Asking = {}
  /\ Closed(r, n)
  /\ IF "MlmeReq" \in n.flags
     THEN r.frame.kind = "JOIN" /\ (r.joined => n.joined)
     ELSE r.frame = n.frame /\ r.joined = n.joined /\ r.upCnt >= n.upCnt

LEMMA EventBlockConcluded ==
  ASSUME NEW n, NEW m, Sound(m), Calm(m), Carried(m, n), Closed(m, n)
  PROVE  Concluded(EventBlock(m), n)
<1>1. m \in MacTypes
  BY DEF Sound
<1>2. CASE m.state # {}
  <2> DEFINE r == Start(m, {"StateCheck"})
  <2>1. EventBlock(m) = r
    BY <1>2 DEF EventBlock
  <2>2. /\ r.state = m.state /\ r.flags = m.flags /\ r.queue = m.queue
        /\ r.frame = m.frame /\ r.joined = m.joined /\ r.upCnt = m.upCnt
    BY <1>1 DEF MacTypes, Start
  <2> HIDE DEF r
  <2>3. Busy(m)
    BY <1>1, <1>2 DEF Calm, MacTypes, States, Busy
  <2> QED
    BY <2>1, <2>2, <2>3 DEF Concluded, Carried, Closed, Busy, Served
<1>3. CASE m.state = {}
  <2> DEFINE flags == m.flags \ {"McpsReq", "MacDone"}
             r == [m EXCEPT !.flags = flags]
             done == HandleCb(r.queue, r.mlme)
             left == IF done.queue.cnt > 0
                     THEN r.flags ELSE r.flags \ {"MlmeReq"}
             s == [r EXCEPT !.queue = done.queue, !.mlme = done.conf,
                            !.flags = left]
  <2>1. EventBlock(m) = IF "MlmeReq" \in r.flags THEN s ELSE r
    BY <1>3 DEF EventBlock, ConfirmMcps, ConfirmMlme
  <2>2. Sound(r)
    BY ConfirmMcpsSound DEF ConfirmMcps
  <2>3. /\ r.state = {} /\ r.flags = flags /\ r.queue = m.queue
        /\ r.frame = m.frame /\ r.joined = m.joined /\ r.upCnt = m.upCnt
        /\ r.mlme = m.mlme
    BY <1>1, <1>3 DEF MacTypes
  <2> HIDE DEF r
  <2>4. Lone(m.queue) /\ Reported(m.queue)
    BY <1>3 DEF Carried, Served
  <2>5. done.queue.cnt = 0
    <3>1. r.queue \in Queues /\ Contiguous(r.queue) /\ r.mlme \in Confs
      BY <2>2 DEF Sound, MacTypes, Confs, MlmeConfirms
    <3> QED
      BY <2>3, <2>4, <3>1, HandleCbEmpties
  <2>6. left = r.flags \ {"MlmeReq"}
    BY <2>5
  <2>7. Lone(done.queue) /\ Reported(done.queue)
    BY <2>5 DEF Lone, Reported
  <2>8. flags \cap Asking \subseteq {"MlmeReq"}
    BY DEF Asking
  <2> HIDE DEF done, left, flags
  <2>9. /\ s.state = r.state /\ s.flags = left /\ s.queue = done.queue
        /\ s.frame = r.frame /\ s.joined = r.joined /\ s.upCnt = r.upCnt
    BY <2>2 DEF Sound, MacTypes
  <2> HIDE DEF s
  <2>10. EventBlock(m).flags \cap Asking = {}
    BY <2>1, <2>3, <2>6, <2>8, <2>9
  <2>11. /\ EventBlock(m).state = {}
         /\ EventBlock(m).frame = m.frame /\ EventBlock(m).joined = m.joined
         /\ EventBlock(m).upCnt = m.upCnt
         /\ Served(EventBlock(m))
    BY <2>1, <2>3, <2>4, <2>7, <2>9 DEF Served
  <2> QED
    BY <1>3, <2>10, <2>11 DEF Concluded, Carried, Closed, Busy
<1> QED
  BY <1>2, <1>3

LEMMA IndicationBlockConcluded ==
  ASSUME Class = "A", NEW n, NEW m \in MacTypes, Concluded(m, n)
  PROVE  Concluded(IndicationBlock(m), n)
<1> DEFINE flags == m.flags \ {"McpsInd", "McpsIndSkip"}
           r == [m EXCEPT !.flags = flags]
<1>1. IndicationBlock(m) \in {m, r}
  BY DEF IndicationBlock, Rest
<1>2. flags \cap Asking = m.flags \cap Asking
  BY DEF Asking
<1> HIDE DEF flags
<1>3. /\ r.state = m.state /\ r.flags = flags /\ r.queue = m.queue
      /\ r.frame = m.frame /\ r.joined = m.joined /\ r.upCnt = m.upCnt
  BY DEF MacTypes
<1> HIDE DEF r
<1>4. Concluded(r, n)
  BY <1>2, <1>3 DEF Concluded, Closed, Busy, Served
<1> QED
  BY <1>1, <1>4

LEMMA DoneBlockCarried ==
  ASSUME NEW n, NEW m, Due(m), Carried(m, n), NEW c \in Choices
  PROVE  Carried(DoneBlock(m, c), n) /\ Closed(DoneBlock(m, c), n)
<1> DEFINE m1 == AbortBlock(m)
           m2 == TxTimeoutBlock(m1)
           m3 == UnacknowledgedBlock(m2, c)
           m4 == ReceivedBlock(m3)
<1>1. Midway(m1) /\ Carried(m1, n)
  BY AbortBlockMidway, AbortBlockCarried DEF Due
<1> HIDE DEF m1
<1>2. Midway(m2) /\ Carried(m2, n)
  BY <1>1, TxTimeoutBlockMidway, TxTimeoutBlockCarried
<1> HIDE DEF m2
<1>3. Sound(m3) /\ Carried(m3, n) /\ Pending(m3, n)
  BY <1>2, UnacknowledgedBlockJudged, UnacknowledgedBlockCarried DEF Judged
<1> HIDE DEF m3
<1>4. Sound(m4) /\ Carried(m4, n) /\ Pending(m4, n)
  BY <1>3, ReceivedBlockSound, ReceivedBlockCarried
<1> HIDE DEF m4
<1>5. Carried(RetryBlock(m4, c), n) /\ Closed(RetryBlock(m4, c), n)
  BY <1>4, RetryBlockCarried
<1> QED
  BY <1>5 DEF DoneBlock, m1, m2, m3, m4

LEMMA OnMacStateCheckConcluded ==
  ASSUME Class = "A", NEW n, NEW m, Carried(m, n), NEW c \in Choices,
         Due(m) \/ ("MacDone" \notin m.flags /\ Settled(m) /\ Between(m))
  PROVE  Concluded(OnMacStateCheck(m, c), n)
<1> DEFINE timers == m.timers \ {"StateCheck"}
           s == [m EXCEPT !.timers = timers]
           d == IF "MacDone" \in m.flags THEN DoneBlock(s, c) ELSE s
           e == EventBlock(d)
<1>1. Stop(m, {"StateCheck"}) = s
  BY DEF Stop
<1>2. Sound(m) /\ m \in MacTypes /\ m.upCnt \in Nat
  BY DEF Due, Settled, Sound, MacTypes
<1>3. Sound(s)
  BY <1>1, <1>2, StopSound DEF Timers
<1>4. timers \cap {"Rx1", "Rx2"} = m.timers \cap {"Rx1", "Rx2"}
  OBVIOUS
<1> HIDE DEF timers
<1>5. /\ s.timers = timers
      /\ s.flags = m.flags /\ s.state = m.state /\ s.radio = m.radio
      /\ s.cut = m.cut /\ s.slot = m.slot /\ s.confirm = m.confirm
      /\ s.queue = m.queue /\ s.retry = m.retry /\ s.nodeAck = m.nodeAck
      /\ s.frame = m.frame /\ s.off = m.off /\ s.joined = m.joined
      /\ s.dr = m.dr /\ s.upCnt = m.upCnt
  BY <1>2 DEF MacTypes
<1>6. OnMacStateCheck(m, c) = IndicationBlock(e)
  BY <1>1 DEF OnMacStateCheck
<1> HIDE DEF s
<1>7. Carried(s, n)
  BY <1>2, <1>5, CarriedStays
<1>8. Sound(d) /\ Calm(d) /\ Carried(d, n) /\ Closed(d, n)
  <2>1. CASE Due(m)
    <3>1. Kept(s)
      BY <1>4, <1>5, <2>1 DEF Due, Kept, Aired, InTurn, NoTimeout, Owned,
                              Busy, Quiet, Sendable
    <3>2. Due(s)
      BY <1>3, <1>5, <2>1, <3>1 DEF Due, Answered
    <3> QED
      BY <1>3, <1>7, <2>1, <3>2, DoneBlockSound, DoneBlockCarried DEF Due
  <2>2. CASE "MacDone" \notin m.flags /\ Settled(m) /\ Between(m)
    <3>1. Calm(s)
      BY <1>5, <2>2 DEF Settled, Calm
    <3>2. Closed(s, n)
      <4>1. "McpsReq" \in n.flags => "McpsReq" \in m.flags
        BY DEF Carried, Asking
      <4>2. "McpsReq" \in m.flags => Busy(m)
        BY <2>2 DEF Between
      <4> QED
        BY <1>5, <4>1, <4>2 DEF Closed, Busy
    <3> QED
      BY <1>3, <1>7, <2>2, <3>1, <3>2
  <2> QED
    BY <2>1, <2>2
<1> HIDE DEF d
<1>9. Concluded(e, n) /\ e \in MacTypes
  BY <1>8, EventBlockConcluded, EventBlockSettled DEF Settled, Sound
<1> HIDE DEF e
<1> QED
  BY <1>6, <1>9, IndicationBlockConcluded

-----------------------------------------------------------------------------
(* OnRadioRxDone.                                                          *)

(* A request stands in the record as the actions leave it: one at most,    *)
(* and a data request with a frame of the session, built with the counter  *)
(* of then.                                                                *)
Counting(m) ==
  /\ ~(Asking \subseteq m.flags)
  /\ Busy(m) => m.flags \cap Asking # {}
  /\ "MlmeReq" \in m.flags => Busy(m) /\ m.frame.kind = "JOIN"
  /\ "McpsReq" \in m.flags => /\ m.frame.kind \in McpsKinds
                              /\ m.frame.kind # "PROPRIETARY" => m.joined
                              /\ m.frame.fcnt <= m.upCnt
  /\ Served(m)

LEMMA CarriedFromHere ==
  ASSUME NEW m, m \in MacTypes, Counting(m)
  PROVE  Carried(m, m)
BY DEF Counting, Carried, MacTypes, Asking

LEMMA CarriedSameWork ==
  ASSUME NEW m, m \in MacTypes, Counting(m), NEW r, SameWork(r, m)
  PROVE  Carried(r, m)
BY DEF Counting, Carried, SameWork, MacTypes, Asking, Served

LEMMA RxDoneAbortConcluded ==
  ASSUME Class = "A", NEW m, Ready(m), Counting(m), NEW c \in Choices
  PROVE  Concluded(RxDoneAbort(m, c), m)
<1>1. PICK r : /\ RxDoneAbort(m, c) = OnMacStateCheck(r, c)
               /\ Due(r) /\ SameWork(r, m)
  BY RxDoneAbortDue
<1>2. Carried(r, m)
  BY <1>1, CarriedSameWork DEF Ready, Sound
<1> QED
  BY <1>1, <1>2, OnMacStateCheckConcluded

LEMMA ConcludedFromHere ==
  ASSUME NEW m, m \in MacTypes, Counting(m), Busy(m)
  PROVE  Concluded(m, m)
BY DEF Counting, Concluded, Closed, MacTypes

LEMMA RxEndConcluded ==
  ASSUME Class = "A", NEW m, Ready(m), Counting(m), NEW c \in Choices
  PROVE  Concluded(RxEnd(m, c), m)
<1>1. CASE RxEnd(m, c) = m
  BY <1>1, ConcludedFromHere DEF Ready, Sound, Busy
<1>2. CASE RxEnd(m, c) # m
  <2>1. PICK r : /\ RxEnd(m, c) = OnMacStateCheck(r, c)
                 /\ Due(r) /\ SameWork(r, m)
    BY <1>2, RxEndDue
  <2>2. Carried(r, m)
    BY <2>1, CarriedSameWork DEF Ready, Sound
  <2> QED
    BY <2>1, <2>2, OnMacStateCheckConcluded
<1> QED
  BY <1>1, <1>2

(* The server does not change the datarate.                                *)
DrKept == \A f \in Downlinks : f.cmd # "ADR_LOWEST"

(* What the blocks before the end leave of the record: all but the         *)
(* activation.                                                             *)
Begun(r, m) ==
  /\ r.state = m.state
  /\ r.flags \cap Asking = m.flags \cap Asking
  /\ r.frame = m.frame
  /\ r.upCnt = m.upCnt
  /\ Lone(m.queue) => Lone(r.queue)
  /\ Lone(m.queue) /\ Reported(m.queue) => Reported(r.queue)
  /\ SameTry(r, m) /\ (DrKept => r.dr = m.dr)
  /\ r.mlme = m.mlme /\ r.queue.cnt = m.queue.cnt
  /\ Clocked(m) => Clocked(r)
  /\ Contiguous(m.queue) /\ Matched(m) => Contiguous(r.queue) /\ Matched(r)

LEMMA BegunTransitive ==
  ASSUME NEW m, NEW r, NEW s, Begun(r, m), Begun(s, r)
  PROVE  Begun(s, m)
BY DEF Begun, SameTry

LEMMA BegunCounting ==
  ASSUME NEW m, Counting(m), NEW r, Begun(r, m), m.joined => r.joined
  PROVE  Counting(r)
<1>1. /\ "McpsReq" \in r.flags <=> "McpsReq" \in m.flags
      /\ "MlmeReq" \in r.flags <=> "MlmeReq" \in m.flags
  BY DEF Begun, Asking
<1>2. Served(r)
  BY DEF Counting, Begun, Served
<1>3. Busy(r) <=> Busy(m)
  BY DEF Begun, Busy
<1>4. ~(Asking \subseteq r.flags) /\ (Busy(r) => r.flags \cap Asking # {})
  BY <1>1, <1>3 DEF Counting, Begun, Asking
<1> QED
  BY <1>1, <1>2, <1>3, <1>4 DEF Counting, Begun

LEMMA HeardBegun ==
  ASSUME NEW m \in MacTypes
  PROVE  /\ Begun(Heard(m), m)
         /\ Heard(m).joined = m.joined /\ Heard(m).queue = m.queue
<1> DEFINE s == Stop(m, {"Rx2"})
           confirm == [s.confirm EXCEPT !.ack = FALSE]
           r == [s EXCEPT !.radio = "IDLE", !.confirm = confirm]
<1>1. Heard(m) = r
  BY DEF Heard
<1>2. /\ s \in MacTypes
      /\ s.state = m.state /\ s.flags = m.flags /\ s.frame = m.frame
      /\ s.upCnt = m.upCnt /\ s.joined = m.joined /\ s.queue = m.queue
      /\ SameTry(s, m) /\ s.dr = m.dr /\ s.mlme = m.mlme
      /\ s.nodeAck = m.nodeAck /\ s.retry = m.retry
      /\ "AckTimeout" \in s.timers => "AckTimeout" \in m.timers
  BY DEF Stop, MacTypes, SameTry
<1> HIDE DEF s, confirm
<1>3. /\ r.state = m.state /\ r.flags = m.flags /\ r.frame = m.frame
      /\ r.upCnt = m.upCnt /\ r.joined = m.joined /\ r.queue = m.queue
      /\ SameTry(r, m) /\ r.dr = m.dr /\ r.mlme = m.mlme
      /\ r.nodeAck = m.nodeAck /\ r.retry = m.retry /\ r.radio = "IDLE"
      /\ r.timers = s.timers
  BY <1>2 DEF MacTypes, SameTry
<1> HIDE DEF r
<1>4. Clocked(m) => Clocked(r)
  BY <1>2, <1>3 DEF Clocked, AwaitsAir, SameTry
<1>5. Matched(m) => Matched(r)
  BY <1>3 DEF Matched
<1> QED
  BY <1>1, <1>3, <1>4, <1>5 DEF Begun

LEMMA JoinAcceptBegun ==
  ASSUME NEW m \in MacTypes, ~m.joined, NEW f
  PROVE  /\ Begun(RxJoinAccept(m, f), m)
         /\ JoinAccepted(m, f) => RxJoinAccept(m, f).joined = TRUE
         /\ ~JoinAccepted(m, f) => RxJoinAccept(m, f).joined = m.joined
<1> DEFINE ok == SetStatus(m.queue, "JOIN", "OK")
           failed == SetStatus(m.queue, "JOIN", "JOIN_FAIL")
           r == [m EXCEPT !.queue = ok, !.joined = TRUE]
           t == [m EXCEPT !.queue = failed]
<1>1. /\ JoinAccepted(m, f) => RxJoinAccept(m, f) = r
      /\ ~JoinAccepted(m, f) => RxJoinAccept(m, f) \in {t, m}
  BY DEF RxJoinAccept
<1>2. /\ Lone(m.queue) => Lone(ok) /\ Lone(failed)
      /\ Lone(m.queue) /\ Reported(m.queue) =>
           Reported(ok) /\ Reported(failed)
  <2>1. m.queue \in Queues
    BY DEF MacTypes
  <2> QED
    BY <2>1, SetStatusReports, QueueAssumption
<1>3. /\ ok.cnt = m.queue.cnt /\ failed.cnt = m.queue.cnt
      /\ Contiguous(m.queue) => Contiguous(ok) /\ Contiguous(failed)
  BY SetStatusTypes, QueueAssumption DEF MacTypes
<1>4. ASSUME Contiguous(m.queue), m.queue.cnt > 0,
             First(m.queue).request = "JOIN"
      PROVE  /\ First(ok).request = "JOIN" /\ First(ok).status = "OK"
             /\ First(failed).request = "JOIN"
             /\ First(failed).status = "JOIN_FAIL"
  <2>1. m.queue \in Queues
    BY DEF MacTypes
  <2> QED
    BY <1>4, <2>1, FirstSet
<1> HIDE DEF ok, failed
<1>5. /\ r.state = m.state /\ r.flags = m.flags /\ r.frame = m.frame
      /\ r.upCnt = m.upCnt /\ r.joined = TRUE /\ r.queue = ok
      /\ SameTry(r, m) /\ r.dr = m.dr /\ r.mlme = m.mlme
      /\ r.nodeAck = m.nodeAck /\ r.retry = m.retry /\ r.radio = m.radio
      /\ r.timers = m.timers
  BY DEF MacTypes, SameTry
<1>6. /\ t.state = m.state /\ t.flags = m.flags /\ t.frame = m.frame
      /\ t.upCnt = m.upCnt /\ t.joined = m.joined /\ t.queue = failed
      /\ SameTry(t, m) /\ t.dr = m.dr /\ t.mlme = m.mlme
      /\ t.nodeAck = m.nodeAck /\ t.retry = m.retry /\ t.radio = m.radio
      /\ t.timers = m.timers
  BY DEF MacTypes, SameTry
<1> HIDE DEF r, t
<1>7. Clocked(m) => Clocked(r) /\ Clocked(t)
  BY <1>5, <1>6 DEF Clocked, AwaitsAir, SameTry
<1>8. Contiguous(m.queue) /\ Matched(m) => Matched(r) /\ Matched(t)
  BY <1>3, <1>4, <1>5, <1>6 DEF Matched
<1>9. Begun(r, m) /\ Begun(t, m) /\ Begun(m, m)
  BY <1>2, <1>3, <1>5, <1>6, <1>7, <1>8 DEF Begun, SameTry
<1> QED
  BY <1>1, <1>5, <1>6, <1>9

LEMMA TakenBegun ==
  ASSUME NEW m \in MacTypes, NEW f
  PROVE  Begun(Taken(m, f), m) /\ Taken(m, f).joined = m.joined
<1> DEFINE ack == m.confirm.type = "CONFIRMED" /\ f.ack /\ ~f.bad
           confirm == [m.confirm EXCEPT !.status = "OK", !.ack = ack]
           flags == m.flags \cup {"McpsInd"}
                      \cup (IF f.skip \/ f.bad THEN {"McpsIndSkip"} ELSE {})
           r == [m EXCEPT !.confirm = confirm, !.flags = flags]
<1>1. Taken(m, f) = r
  BY DEF Taken
<1>2. flags \cap Asking = m.flags \cap Asking
  BY DEF Asking
<1> HIDE DEF confirm, flags
<1>3. /\ r.state = m.state /\ r.flags = flags /\ r.frame = m.frame
      /\ r.upCnt = m.upCnt /\ r.joined = m.joined /\ r.queue = m.queue
      /\ SameTry(r, m) /\ r.dr = m.dr /\ r.mlme = m.mlme
      /\ r.nodeAck = m.nodeAck /\ r.retry = m.retry /\ r.radio = m.radio
      /\ r.timers = m.timers
  BY DEF MacTypes, SameTry
<1> HIDE DEF r
<1>4. Clocked(m) => Clocked(r)
  BY <1>3 DEF Clocked, AwaitsAir, SameTry
<1>5. Matched(m) => Matched(r)
  BY <1>3 DEF Matched
<1> QED
  BY <1>1, <1>2, <1>3, <1>4, <1>5 DEF Begun

LEMMA ProcessMacCommandsBegun ==
  ASSUME NEW m \in MacTypes, NEW cmd, DrKept => cmd # "ADR_LOWEST"
  PROVE  /\ Begun(ProcessMacCommands(m, cmd), m)
         /\ ProcessMacCommands(m, cmd).joined = m.joined
<1> DEFINE ok == SetStatus(m.queue, "LINK_CHECK", "OK")
           r == ProcessMacCommands(m, cmd)
<1>1. \/ r \in {m, [m EXCEPT !.queue = ok], [m EXCEPT !.queue = m.queue],
                [m EXCEPT !.off = TRUE]}
      \/ r = [m EXCEPT !.dr = MinDr] /\ ~DrKept
  BY DEF ProcessMacCommands
<1>2. /\ Lone(m.queue) => Lone(ok)
      /\ Lone(m.queue) /\ Reported(m.queue) => Reported(ok)
  <2>1. m.queue \in Queues
    BY DEF MacTypes
  <2> QED
    BY <2>1, SetStatusReports, QueueAssumption
<1>3. /\ ok.cnt = m.queue.cnt
      /\ Contiguous(m.queue) => Contiguous(ok)
  BY SetStatusTypes, QueueAssumption DEF MacTypes
<1>4. ASSUME Contiguous(m.queue), m.queue.cnt > 0,
             First(m.queue).request = "JOIN"
      PROVE  /\ First(ok).request = "JOIN"
             /\ First(ok).status = First(m.queue).status
  <2>1. m.queue \in Queues
    BY DEF MacTypes
  <2> QED
    BY <1>4, <2>1, FirstSet
<1> HIDE DEF ok, r
<1>5. /\ r.state = m.state /\ r.flags = m.flags /\ r.frame = m.frame
      /\ r.upCnt = m.upCnt /\ r.joined = m.joined
      /\ r.queue \in {m.queue, ok}
      /\ SameTry(r, m) /\ (DrKept => r.dr = m.dr)
      /\ r.mlme = m.mlme
      /\ r.nodeAck = m.nodeAck /\ r.retry = m.retry /\ r.radio = m.radio
      /\ r.timers = m.timers
  BY <1>1 DEF MacTypes, SameTry
<1>6. Clocked(m) => Clocked(r)
  BY <1>5 DEF Clocked, AwaitsAir, SameTry
<1>7. Contiguous(m.queue) /\ Matched(m) => Matched(r)
  BY <1>3, <1>4, <1>5 DEF Matched
<1>8. Begun(r, m)
  BY <1>2, <1>3, <1>5, <1>6, <1>7 DEF Begun
<1> QED
  BY <1>5, <1>8 DEF r

(* Every way through OnRadioRxDone ends in the state check, from a record  *)
(* that has begun as the one found.                                        *)
LEMMA OnRadioRxDoneBegun ==
  ASSUME Class = "A", NEW m, Settled(m), Between(m),
         m.radio = "RX_SINGLE", ~m.ackStale,
         NEW f \in Frames, f.kind # "UNKNOWN",
         f.kind = "DATA" => m.frame.kind # "JOIN",
         DrKept => f.cmd # "ADR_LOWEST",
         NEW c \in Choices
  PROVE  \E n : /\ Ready(n) /\ Begun(n, m)
                /\ IF JoinAccepted(m, f) THEN n.joined ELSE n.joined = m.joined
                /\ \/ OnRadioRxDone(m, f, c) = RxDoneAbort(n, c)
                   \/ OnRadioRxDone(m, f, c) = RxEnd(n, c)
<1> DEFINE heard == Heard(m)
           confirm == [heard.confirm EXCEPT !.status = "OK"]
           old == [heard EXCEPT !.confirm = confirm]
           own == Raise(heard, {"McpsInd"})
           accepted == RxJoinAccept(heard, f)
           taken == Taken(heard, f)
           processed == ProcessMacCommands(taken, f.cmd)
           r == OnRadioRxDone(m, f, c)
<1>1. m \in MacTypes
  BY DEF Settled, Sound
<1>2. /\ Ready(heard) /\ heard \in MacTypes /\ heard.frame = m.frame
      /\ Begun(heard, m) /\ heard.joined = m.joined /\ heard.queue = m.queue
  BY <1>1, HeardReady, HeardBegun DEF Ready, Sound
<1>3. \/ r = RxDoneAbort(heard, c) /\ ~JoinAccepted(m, f)
      \/ r = RxDoneAbort(old, c) /\ ~JoinAccepted(m, f)
      \/ r = RxEnd(own, c) /\ ~JoinAccepted(m, f)
      \/ r = RxEnd(accepted, c) /\ ~m.joined
      \/ /\ f.kind = "DATA" /\ ~JoinAccepted(m, f)
         /\ r = RxEnd(taken, c) \/ r = RxEnd(processed, c)
  <2>1. \/ f.kind \in {"JOIN_ACCEPT", "BAD_JOIN_ACCEPT"} /\ m.joined
           /\ r = RxDoneAbort(heard, c)
        \/ f.kind \in {"JOIN_ACCEPT", "BAD_JOIN_ACCEPT"} /\ ~m.joined
           /\ r = RxEnd(accepted, c)
        \/ f.kind = "DATA" /\ r = RxEnd(RxData(heard, f), c)
        \/ f.kind = "REPEATED" /\ r = RxDoneAbort(old, c)
        \/ f.kind = "ALIEN" /\ r = RxDoneAbort(heard, c)
        \/ f.kind = "PROPRIETARY" /\ r = RxEnd(own, c)
    BY <1>2 DEF OnRadioRxDone, Frames, MacTypes
  <2> HIDE DEF r, heard, old, own, accepted
  <2>2. RxData(heard, f) \in {taken, processed}
    BY DEF RxData
  <2> HIDE DEF taken, processed
  <2> QED
    BY <2>1, <2>2 DEF JoinAccepted
<1> HIDE DEF r
<1>4. ASSUME NEW n, Ready(n), Begun(n, heard),
             IF JoinAccepted(m, f) THEN n.joined ELSE n.joined = m.joined,
             r = RxDoneAbort(n, c) \/ r = RxEnd(n, c)
      PROVE  \E x : /\ Ready(x) /\ Begun(x, m)
                    /\ IF JoinAccepted(m, f)
                       THEN x.joined ELSE x.joined = m.joined
                    /\ r = RxDoneAbort(x, c) \/ r = RxEnd(x, c)
  <2>1. Begun(n, m)
    BY <1>2, <1>4, BegunTransitive
  <2> QED
    BY <1>4, <2>1
<1>5. Begun(heard, heard)
  BY DEF Begun, SameTry
<1> HIDE DEF heard
<1>6. CASE r = RxDoneAbort(heard, c) /\ ~JoinAccepted(m, f)
  BY <1>2, <1>4, <1>5, <1>6 DEF r
<1>7. CASE r = RxDoneAbort(old, c) /\ ~JoinAccepted(m, f)
  <2>1. /\ confirm \in McpsConfirms
        /\ confirm.status = "OK" /\ confirm.type = heard.confirm.type
        /\ confirm.ack = heard.confirm.ack
    BY <1>2, QueueAssumption DEF MacTypes, McpsConfirms
  <2> HIDE DEF confirm
  <2>2. /\ old \in MacTypes
        /\ old.confirm = confirm /\ old.flags = heard.flags
        /\ old.state = heard.state /\ old.radio = heard.radio
        /\ old.cut = heard.cut /\ old.slot = heard.slot
        /\ old.retry = heard.retry /\ old.nodeAck = heard.nodeAck
        /\ old.frame = heard.frame /\ old.queue = heard.queue
        /\ old.timers = heard.timers /\ old.joined = heard.joined
        /\ old.upCnt = heard.upCnt /\ old.dr = heard.dr
        /\ old.mlme = heard.mlme /\ SameTry(old, heard)
        /\ old.ackStale = heard.ackStale
    BY <1>2, <2>1 DEF MacTypes, SameTry
  <2> HIDE DEF old
  <2>3. Sound(old) /\ Answered(old)
    BY <1>2, <2>1, <2>2 DEF Ready, Sound, Answered
  <2>4. Ready(old)
    BY <1>2, <2>1, <2>2, <2>3, ReadyStays DEF Ready
  <2>5. Begun(old, heard)
    BY <2>2 DEF Begun, Clocked, AwaitsAir, SameTry, Matched
  <2> QED
    BY <1>2, <1>4, <1>7, <2>2, <2>4, <2>5 DEF r, old
<1>8. CASE r = RxEnd(own, c) /\ ~JoinAccepted(m, f)
  <2> DEFINE flags == heard.flags \cup {"McpsInd"}
             t == [heard EXCEPT !.flags = flags]
  <2>1. own = t
    BY DEF Raise
  <2>2. Sound(t)
    BY <1>2, <2>1, RaiseSound DEF Ready, Flags
  <2>3. /\ heard.flags \subseteq flags
        /\ flags \cap Asking = heard.flags \cap Asking
    BY DEF Asking
  <2> HIDE DEF flags
  <2>4. /\ t.flags = flags /\ t.confirm = heard.confirm
        /\ t.state = heard.state /\ t.radio = heard.radio
        /\ t.cut = heard.cut /\ t.slot = heard.slot
        /\ t.retry = heard.retry /\ t.nodeAck = heard.nodeAck
        /\ t.frame = heard.frame /\ t.queue = heard.queue
        /\ t.timers = heard.timers /\ t.joined = heard.joined
        /\ t.upCnt = heard.upCnt /\ t.dr = heard.dr
        /\ t.mlme = heard.mlme /\ SameTry(t, heard)
        /\ t.ackStale = heard.ackStale
    BY <1>2 DEF MacTypes, SameTry
  <2> HIDE DEF t, own
  <2>5. Answered(t)
    BY <1>2, <2>3, <2>4 DEF Ready, Answered
  <2>6. Ready(t)
    BY <1>2, <2>2, <2>3, <2>4, <2>5, ReadyStays DEF Ready
  <2>7. Begun(t, heard)
    BY <2>3, <2>4 DEF Begun, Clocked, AwaitsAir, SameTry, Matched
  <2> QED
    BY <1>2, <1>4, <1>8, <2>1, <2>4, <2>6, <2>7 DEF r
<1>9. CASE r = RxEnd(accepted, c) /\ ~m.joined
  <2>1. Ready(accepted)
    BY <1>2, RxJoinAcceptReady
  <2>2. JoinAccepted(heard, f) <=> JoinAccepted(m, f)
    BY <1>2 DEF JoinAccepted
  <2>3. /\ Begun(accepted, heard)
        /\ JoinAccepted(m, f) => accepted.joined = TRUE
        /\ ~JoinAccepted(m, f) => accepted.joined = heard.joined
    BY <1>2, <1>9, <2>2, JoinAcceptBegun
  <2> HIDE DEF accepted
  <2> QED
    BY <1>2, <1>4, <1>9, <2>1, <2>3 DEF r
<1>10. CASE /\ f.kind = "DATA" /\ ~JoinAccepted(m, f)
            /\ r = RxEnd(taken, c) \/ r = RxEnd(processed, c)
  <2>1. /\ Ready(taken) /\ taken \in MacTypes
        /\ Begun(taken, heard) /\ taken.joined = heard.joined
    BY <1>2, <1>10, TakenReady, TakenBegun DEF Ready, Sound
  <2> HIDE DEF taken
  <2>2. /\ Ready(processed) /\ Begun(processed, taken)
        /\ processed.joined = heard.joined
    BY <2>1, ProcessMacCommandsReady, ProcessMacCommandsBegun
  <2> HIDE DEF processed
  <2>3. Begun(processed, heard)
    BY <2>1, <2>2, BegunTransitive
  <2> QED
    BY <1>2, <1>4, <1>10, <2>1, <2>2, <2>3 DEF r
<1> QED
  BY <1>3, <1>6, <1>7, <1>8, <1>9, <1>10 DEF r

LEMMA OnRadioRxDoneConcluded ==
  ASSUME Class = "A", NEW m, Counting(m), NEW n, Ready(n), Begun(n, m),
         m.joined => n.joined, NEW c \in Choices
  PROVE  Counting(n) /\ Concluded(RxDoneAbort(n, c), n) /\ Concluded(RxEnd(n, c), n)
<1>1. Counting(n)
  BY BegunCounting
<1> QED
  BY <1>1, RxDoneAbortConcluded, RxEndConcluded

-----------------------------------------------------------------------------
(* The frames that were on the air.                                        *)

(* The session runs: its frames have counters below the next one, or, with *)
(* a request open, below or at that of its frame as they belong to earlier *)
(* requests or to this one.  A join request is open only in a new session. *)
Chronicle(m, h) ==
  /\ \A a \in h.aired : a.session <= h.session /\ a.req <= h.reqs
  /\ "McpsReq" \in m.flags => m.frame.req = h.reqs
  /\ m.joined =>
       \A a \in h.aired :
         a.session = h.session =>
           /\ "MlmeReq" \notin m.flags
           /\ IF "McpsReq" \notin m.flags THEN a.fcnt < m.upCnt
              ELSE IF a.req < h.reqs THEN a.fcnt < m.frame.fcnt
              ELSE a.fcnt = m.frame.fcnt

LEMMA AskingFlags ==
  ASSUME NEW r, NEW m, r.flags \cap Asking = m.flags \cap Asking
  PROVE  /\ "McpsReq" \in r.flags <=> "McpsReq" \in m.flags
         /\ "MlmeReq" \in r.flags <=> "MlmeReq" \in m.flags
BY DEF Asking

(* A callback that has concluded keeps both.                               *)
LEMMA ConcludedCounts ==
  ASSUME NEW n \in MacTypes, NEW r \in MacTypes, NEW h \in HistTypes,
         Counting(n), Chronicle(n, h), Concluded(r, n),
         n.flags \cap Asking # {}
  PROVE  Counting(r) /\ Chronicle(r, h)
<1>1. /\ r.upCnt \in Nat /\ n.upCnt \in Nat
      /\ n.frame.fcnt \in Nat /\ n.frame.req \in Nat
      /\ \A a \in h.aired : a.fcnt \in Nat /\ a.req \in Nat
      /\ h.reqs \in Nat
  BY DEF MacTypes, TxFrames, HistTypes
<1>2. ~Busy(r) => "McpsReq" \notin r.flags /\ "MlmeReq" \notin r.flags
  BY DEF Concluded, Asking
<1>3. Busy(r) => /\ "McpsReq" \in r.flags <=> "McpsReq" \in n.flags
                 /\ "MlmeReq" \in r.flags <=> "MlmeReq" \in n.flags
                 /\ r.flags \cap Asking = n.flags \cap Asking
  BY AskingFlags DEF Concluded
<1>4. ~(("McpsReq" \in n.flags) /\ ("MlmeReq" \in n.flags))
  BY DEF Counting, Asking
<1>5. CASE "MlmeReq" \in n.flags
  <2>1. r.frame.kind = "JOIN" /\ (r.joined => n.joined)
    BY <1>5 DEF Concluded
  <2>2. "McpsReq" \notin r.flags
    BY <1>2, <1>3, <1>4, <1>5
  <2>3. ~(Asking \subseteq r.flags)
    BY <2>2 DEF Asking
  <2>4. (Busy(r) => r.flags \cap Asking # {}) /\ Served(r)
    BY <1>3, <1>5 DEF Concluded, Asking
  <2>5. Counting(r)
    BY <1>2, <2>1, <2>2, <2>3, <2>4 DEF Counting
  <2>6. Chronicle(r, h)
    BY <1>5, <2>1, <2>2 DEF Chronicle
  <2> QED
    BY <2>5, <2>6
<1>6. CASE "MlmeReq" \notin n.flags
  <2>1. r.frame = n.frame /\ r.joined = n.joined /\ r.upCnt >= n.upCnt
    BY <1>6 DEF Concluded
  <2>2. "MlmeReq" \notin r.flags
    BY <1>2, <1>3, <1>6
  <2>3. ~(Asking \subseteq r.flags)
    BY <2>2 DEF Asking
  <2>4. Served(r)
    BY DEF Concluded
  <2>5. CASE "McpsReq" \in n.flags
    <3>1. CASE Busy(r)
      <4>1. Counting(r)
        BY <1>1, <1>3, <2>1, <2>2, <2>3, <2>4, <2>5, <3>1 DEF Counting, Asking
      <4>2. Chronicle(r, h)
        BY <1>3, <1>6, <2>1, <2>2, <2>5, <3>1 DEF Chronicle
      <4> QED
        BY <4>1, <4>2
    <3>2. CASE ~Busy(r)
      <4>1. r.upCnt > n.upCnt /\ n.frame.fcnt <= n.upCnt
        BY <2>5, <3>2 DEF Concluded, Closed, Counting
      <4>2. Counting(r)
        BY <1>2, <2>2, <2>3, <2>4, <3>2 DEF Counting
      <4>3. ASSUME r.joined, NEW a \in h.aired, a.session = h.session
            PROVE  a.fcnt < r.upCnt
        <5>1. a.fcnt < n.frame.fcnt \/ a.fcnt = n.frame.fcnt
          BY <2>1, <2>5, <4>3 DEF Chronicle
        <5> QED
          BY <1>1, <4>1, <5>1
      <4>4. Chronicle(r, h)
        BY <1>2, <2>2, <3>2, <4>3 DEF Chronicle
      <4> QED
        BY <4>2, <4>4
    <3> QED
      BY <3>1, <3>2
  <2>6. "McpsReq" \in n.flags
    BY <1>6 DEF Asking
  <2> QED
    BY <2>5, <2>6
<1> QED
  BY <1>5, <1>6

(* An action that leaves the request, the frame and the session as they    *)
(* are keeps both.                                                         *)
LEMMA SameRecordCounts ==
  ASSUME NEW m, Counting(m), NEW r, NEW h, Chronicle(m, h),
         r.flags \cap Asking = m.flags \cap Asking,
         r.state = m.state, r.frame = m.frame, r.joined = m.joined,
         r.upCnt = m.upCnt, Served(r)
  PROVE  Counting(r) /\ Chronicle(r, h)
<1>1. /\ "McpsReq" \in r.flags <=> "McpsReq" \in m.flags
      /\ "MlmeReq" \in r.flags <=> "MlmeReq" \in m.flags
  BY AskingFlags
<1>2. Busy(r) <=> Busy(m)
  BY DEF Busy
<1>3. ~(Asking \subseteq r.flags) /\ (Busy(r) => r.flags \cap Asking # {})
  BY <1>1, <1>2 DEF Counting, Asking
<1>4. Counting(r)
  BY <1>1, <1>2, <1>3 DEF Counting
<1>5. Chronicle(r, h)
  BY <1>1 DEF Chronicle
<1> QED
  BY <1>4, <1>5

(* A join accept opens a session no frame was sent in.                     *)
LEMMA BegunChronicle ==
  ASSUME NEW m, NEW n, NEW h \in HistTypes, Chronicle(m, h), Begun(n, m),
         NEW accepted \in BOOLEAN, NEW g \in HistTypes,
         IF accepted THEN n.joined ELSE n.joined = m.joined,
         g.aired = h.aired, g.reqs = h.reqs,
         g.session = IF accepted THEN h.session + 1 ELSE h.session
  PROVE  Chronicle(n, g)
<1>1. /\ "McpsReq" \in n.flags <=> "McpsReq" \in m.flags
      /\ "MlmeReq" \in n.flags <=> "MlmeReq" \in m.flags
      /\ n.frame = m.frame /\ n.upCnt = m.upCnt
  BY AskingFlags DEF Begun
<1>2. h.session \in Nat /\ \A a \in h.aired : a.session \in Nat
  BY DEF HistTypes
<1>3. CASE accepted
  <2>1. \A a \in h.aired : a.session <= h.session
    BY DEF Chronicle
  <2>2. \A a \in g.aired : a.session <= g.session /\ a.session # g.session
    BY <1>2, <1>3, <2>1
  <2> QED
    BY <1>1, <2>2 DEF Chronicle
<1>4. CASE ~accepted
  <2>1. g.session = h.session /\ n.joined = m.joined
    BY <1>4
  <2> QED
    BY <1>1, <2>1 DEF Chronicle
<1> QED
  BY <1>3, <1>4

-----------------------------------------------------------------------------
(* The actions.                                                            *)

(* With no request open the state check finds nothing to do.               *)
LEMMA IdleCheck ==
  ASSUME Class = "A", NEW m \in MacTypes, m.state = {},
         "MacDone" \notin m.flags, m.flags \cap Asking = {},
         NEW c \in Choices
  PROVE  LET r == OnMacStateCheck(m, c)
         IN  /\ r.flags \cap Asking = {} /\ r.state = {}
             /\ r.frame = m.frame /\ r.joined = m.joined
             /\ r.upCnt = m.upCnt /\ r.queue = m.queue
<1> DEFINE Same(r) == /\ r \in MacTypes
                      /\ r.flags \cap Asking = {} /\ r.state = {}
                      /\ r.frame = m.frame /\ r.joined = m.joined
                      /\ r.upCnt = m.upCnt /\ r.queue = m.queue
           s == Stop(m, {"StateCheck"})
           t == ConfirmMcps(s)
           u == [t EXCEPT !.flags = @ \ {"McpsInd", "McpsIndSkip"}]
<1>1. Same(s)
  BY DEF Stop, MacTypes
<1> HIDE DEF s
<1>2. Same(t)
  <2> DEFINE flags == s.flags \ {"McpsReq", "MacDone"}
  <2>1. t = [s EXCEPT !.flags = flags]
    BY DEF ConfirmMcps
  <2>2. flags \cap Asking = {} /\ flags \in SUBSET Flags
    BY <1>1 DEF MacTypes
  <2> HIDE DEF flags, t
  <2> QED
    BY <1>1, <2>1, <2>2 DEF MacTypes
<1> HIDE DEF t
<1>3. Same(u)
  <2> DEFINE flags == t.flags \ {"McpsInd", "McpsIndSkip"}
  <2>1. u = [t EXCEPT !.flags = flags]
    OBVIOUS
  <2>2. flags \cap Asking = {} /\ flags \in SUBSET Flags
    BY <1>2 DEF MacTypes
  <2> HIDE DEF flags, u
  <2> QED
    BY <1>2, <2>1, <2>2 DEF MacTypes
<1> HIDE DEF u
<1>4. OnMacStateCheck(m, c) \in {t, u}
  <2>1. OnMacStateCheck(m, c) = IndicationBlock(EventBlock(s))
    BY DEF OnMacStateCheck, s
  <2>2. "MlmeReq" \notin t.flags
    BY <1>2 DEF Asking
  <2>3. EventBlock(s) = t
    BY <1>1, <2>2 DEF EventBlock, ConfirmMlme, t
  <2> QED
    BY <2>1, <2>3 DEF IndicationBlock, Rest, u
<1> QED
  BY <1>2, <1>3, <1>4

LEMMA StateCheckCounts ==
  ASSUME Class = "A", Settled(mac), Between(mac), NEW c \in Choices,
         OnMacStateCheckTimerEvent(c), mac' \in MacTypes, hist \in HistTypes,
         Counting(mac), Chronicle(mac, hist)
  PROVE  Counting(mac') /\ Chronicle(mac', hist) /\ hist' = hist
<1>1. mac \in MacTypes /\ mac' = OnMacStateCheck(mac, c) /\ hist' = hist
  BY DEF Settled, Sound, OnMacStateCheckTimerEvent
<1>2. CASE mac.flags \cap Asking = {}
  <2>1. ~Busy(mac)
    BY <1>2 DEF Counting
  <2>2. mac.state = {} /\ "MacDone" \notin mac.flags
    BY <1>1, <2>1, AtRest DEF Settled, Calm, Busy, MacTypes, States
  <2>3. /\ mac'.flags \cap Asking = {} /\ mac'.state = {}
        /\ mac'.frame = mac.frame /\ mac'.joined = mac.joined
        /\ mac'.upCnt = mac.upCnt /\ mac'.queue = mac.queue
    BY <1>1, <1>2, <2>2, IdleCheck
  <2>4. Served(mac')
    BY <2>2, <2>3 DEF Counting, Served
  <2> QED
    BY <1>1, <1>2, <2>2, <2>3, <2>4, SameRecordCounts
<1>3. CASE mac.flags \cap Asking # {}
  <2>1. Carried(mac, mac)
    BY <1>1, CarriedFromHere
  <2>2. "MacDone" \in mac.flags => Due(mac)
    BY DEF Settled, Calm, Between, Busy, Due, Answered
  <2>3. Concluded(mac', mac)
    BY <1>1, <2>1, <2>2, OnMacStateCheckConcluded
  <2> QED
    BY <1>1, <1>3, <2>3, ConcludedCounts
<1> QED
  BY <1>2, <1>3

LEMMA RxDoneCounts ==
  ASSUME ClassAOnly, Settled(mac), Between(mac), ~mac.ackStale,
         NEW f \in Downlinks, NEW c \in Choices, OnRadioRxDoneEvent(f, c),
         mac' \in MacTypes,
         hist \in HistTypes, hist' \in HistTypes,
         Counting(mac), Chronicle(mac, hist)
  PROVE  /\ Counting(mac') /\ Chronicle(mac', hist')
         /\ hist'.aired = hist.aired
<1>1. f \in Frames /\ f.kind # "UNKNOWN" /\ Class = "A"
  BY ChoiceAssumption DEF ClassAOnly
<1>2. mac.radio = "RX_SINGLE"
  BY DEF OnRadioRxDoneEvent, Between, Kept, Aired
<1>3. f.kind = "DATA" => mac.frame.kind # "JOIN"
  BY <1>1 DEF OnRadioRxDoneEvent, ServerMayAnswer
<1> DEFINE accepted == JoinAccepted(mac, f)
<1>4. /\ accepted \in BOOLEAN
      /\ hist'.aired = hist.aired /\ hist'.reqs = hist.reqs
      /\ hist'.session = IF accepted THEN hist.session + 1 ELSE hist.session
      /\ mac' = OnRadioRxDone(mac, f, c)
  BY DEF OnRadioRxDoneEvent, HistTypes, JoinAccepted
<1> HIDE DEF accepted
<1>5. PICK n : /\ Ready(n) /\ Begun(n, mac)
               /\ IF accepted THEN n.joined ELSE n.joined = mac.joined
               /\ mac' = RxDoneAbort(n, c) \/ mac' = RxEnd(n, c)
  <2>1. DrKept => f.cmd # "ADR_LOWEST"
    BY DEF DrKept
  <2> QED
    BY <1>1, <1>2, <1>3, <1>4, <2>1, OnRadioRxDoneBegun DEF accepted
<1>6. n \in MacTypes /\ Counting(n) /\ Concluded(mac', n)
  <2>1. mac.joined => n.joined
    BY <1>5
  <2> QED
    BY <1>1, <1>5, <2>1, OnRadioRxDoneConcluded DEF Ready, Sound
<1>7. Chronicle(n, hist')
  BY <1>4, <1>5, BegunChronicle
<1>8. n.flags \cap Asking # {}
  <2>1. Busy(mac)
    BY <1>2, OpenWindow DEF Busy
  <2> QED
    BY <1>5, <1>6, <2>1 DEF Counting, Begun
<1> QED
  BY <1>4, <1>6, <1>7, <1>8, ConcludedCounts

(* The fields both are about.                                              *)
SameFields(r, m) ==
  /\ r.flags = m.flags /\ r.state = m.state /\ r.frame = m.frame
  /\ r.joined = m.joined /\ r.upCnt = m.upCnt /\ r.queue = m.queue

LEMMA SameFieldsCount ==
  ASSUME NEW m, Counting(m), NEW r, NEW h, Chronicle(m, h), SameFields(r, m)
  PROVE  Counting(r) /\ Chronicle(r, h)
<1>1. Served(r) /\ r.flags \cap Asking = m.flags \cap Asking
  BY DEF Counting, Served, SameFields
<1> QED
  BY <1>1, SameRecordCounts DEF SameFields

LEMMA RxWindow1Counts ==
  ASSUME Class = "A", mac \in MacTypes, OnRxWindow1TimerEvent
  PROVE  SameFields(mac', mac) /\ hist' = hist
<1> DEFINE timers == mac.timers \ {"Rx1"}
           cut == mac.cut \/ mac.radio \in {"TX", "CW"}
           r == [mac EXCEPT !.radio = "RX_SINGLE", !.cut = cut,
                            !.timers = timers, !.slot = "WIN_1"]
<1>1. mac' = r /\ hist' = hist
  BY DEF OnRxWindow1TimerEvent, RxWindow1, RadioTo, MacTypes
<1> HIDE DEF timers, cut
<1>2. SameFields(r, mac)
  BY DEF MacTypes, SameFields
<1> QED
  BY <1>1, <1>2

LEMMA RxWindow2Counts ==
  ASSUME Class = "A", mac \in MacTypes, OnRxWindow2TimerEvent
  PROVE  SameFields(mac', mac) /\ hist' = hist
<1> DEFINE timers == mac.timers \ {"Rx2"}
           s == [mac EXCEPT !.timers = timers]
           open == [mac EXCEPT !.timers = timers, !.radio = "RX_SINGLE",
                               !.slot = "WIN_2"]
<1>1. mac' \in {s, open} /\ hist' = hist
  BY DEF OnRxWindow2TimerEvent, RxWindow2, Stop, MacTypes
<1> HIDE DEF timers
<1>2. SameFields(s, mac)
  BY DEF MacTypes, SameFields
<1>3. SameFields(open, mac)
  BY DEF MacTypes, SameFields
<1> HIDE DEF s, open
<1> QED
  BY <1>1, <1>2, <1>3

LEMMA AckTimeoutCounts ==
  ASSUME Class = "A", mac \in MacTypes, OnAckTimeoutTimerEvent
  PROVE  SameFields(mac', mac) /\ hist' = hist
<1> DEFINE timers == mac.timers \ {"AckTimeout"}
           retry == mac.retry \/ mac.nodeAck
           r == [mac EXCEPT !.timers = timers, !.retry = retry]
<1>1. mac' = r /\ hist' = hist
  BY DEF OnAckTimeoutTimerEvent, OnAckTimeout, Stop, MacTypes
<1> HIDE DEF timers, retry
<1>2. SameFields(r, mac)
  BY DEF MacTypes, SameFields
<1> QED
  BY <1>1, <1>2

(* A common status keeps the request that waits served.                    *)
LEMMA RxFailedCounts ==
  ASSUME Class = "A", Sound(mac), Counting(mac), Chronicle(mac, hist),
         NEW idle \in BOOLEAN, NEW late \in BOOLEAN,
         OnRadioRxFailed(idle, late)
  PROVE  Counting(mac') /\ Chronicle(mac', hist) /\ hist' = hist
<1> DEFINE confirm == [mac.confirm EXCEPT
                         !.status = IF mac.nodeAck THEN "RX_FAIL" ELSE @]
           queue == SetStatusCmn(mac.queue, "RX_FAIL")
           flags == mac.flags \cup {"MacDone"}
           failed == [mac EXCEPT !.radio = IF idle THEN "IDLE" ELSE @,
                                 !.confirm = confirm, !.queue = queue]
           stopped == [failed EXCEPT !.timers = @ \ {"Rx2"}]
           over == [failed EXCEPT !.flags = @ \cup {"MacDone"}]
           both == [stopped EXCEPT !.flags = @ \cup {"MacDone"}]
           Same(r) == /\ r.state = mac.state /\ r.frame = mac.frame
                      /\ r.joined = mac.joined /\ r.upCnt = mac.upCnt
                      /\ r.queue = queue
<1>1. mac \in MacTypes /\ mac.queue \in Queues /\ Contiguous(mac.queue)
  BY DEF Sound, MacTypes
<1>2. Lone(queue) /\ Reported(queue)
  BY <1>1, SetStatusCmnReports, QueueAssumption DEF Counting, Served
<1>3. mac' \in {failed, over, both} /\ hist' = hist
  <2>1. [mac EXCEPT !.radio = IF idle THEN "IDLE" ELSE @,
                    !.confirm.status = IF mac.nodeAck THEN "RX_FAIL" ELSE @,
                    !.queue = SetStatusCmn(@, "RX_FAIL")] = failed
    BY <1>1 DEF MacTypes
  <2> HIDE DEF failed
  <2> QED
    BY <2>1 DEF OnRadioRxFailed, Stop, Raise
<1> HIDE DEF confirm, queue
<1>4. Same(failed) /\ failed.flags = mac.flags /\ DOMAIN failed = DOMAIN mac
  BY <1>1 DEF MacTypes
<1> HIDE DEF failed
<1>5. Same(stopped) /\ stopped.flags = mac.flags
      /\ DOMAIN stopped = DOMAIN mac
  BY <1>1, <1>4 DEF MacTypes
<1> HIDE DEF stopped
<1>6. Same(over) /\ over.flags = flags
  BY <1>1, <1>4 DEF MacTypes
<1>7. Same(both) /\ both.flags = flags
  BY <1>1, <1>5 DEF MacTypes
<1> HIDE DEF over, both
<1>8. flags \cap Asking = mac.flags \cap Asking
  BY DEF Asking
<1> HIDE DEF flags
<1>9. Same(mac') /\ mac'.flags \cap Asking = mac.flags \cap Asking
  BY <1>3, <1>4, <1>6, <1>7, <1>8
<1>10. Served(mac')
  BY <1>2, <1>9 DEF Served
<1> QED
  BY <1>3, <1>9, <1>10, SameRecordCounts

(* A join prepared anew ends the session.                                  *)
LEMMA TxDelayedCounts ==
  ASSUME Settled(mac), Between(mac), NEW c \in Choices,
         OnTxDelayedTimerEvent(c), Counting(mac), Chronicle(mac, hist)
  PROVE  Counting(mac') /\ Chronicle(mac', hist) /\ hist' = hist
<1>1. /\ mac \in MacTypes /\ mac' = OnTxDelayed(mac, c) /\ hist' = hist
      /\ "TX_DELAYED" \in mac.state /\ Contiguous(mac.queue)
  BY DEF Settled, Sound, OnTxDelayedTimerEvent
<1>2. Sendable(mac) /\ Busy(mac)
  BY <1>1 DEF Between, Kept, InTurn, Busy
<1>3. /\ mac'.flags = mac.flags
      /\ Served(mac') /\ Busy(mac')
      /\ IF JoinRequested(mac)
         THEN mac'.joined = FALSE /\ mac'.frame.kind = "JOIN"
         ELSE /\ mac'.joined = mac.joined /\ mac'.frame = mac.frame
              /\ mac'.upCnt = mac.upCnt
  BY <1>1, <1>2, SentAgainServes DEF Counting, Served
<1>4. CASE JoinRequested(mac)
  <2>1. "MlmeReq" \in mac.flags /\ "McpsReq" \notin mac.flags
    BY <1>4 DEF JoinRequested, Counting, Asking
  <2>2. Counting(mac')
    BY <1>3, <1>4, <2>1 DEF Counting
  <2>3. Chronicle(mac', hist)
    BY <1>3, <1>4, <2>1 DEF Chronicle
  <2> QED
    BY <1>1, <2>2, <2>3
<1>5. CASE ~JoinRequested(mac)
  <2>1. Counting(mac')
    BY <1>2, <1>3, <1>5 DEF Counting
  <2>2. Chronicle(mac', hist)
    BY <1>3, <1>5 DEF Chronicle
  <2> QED
    BY <1>1, <2>1, <2>2
<1> QED
  BY <1>4, <1>5

LEMMA JoinRequestCounts ==
  ASSUME Settled(mac), Counting(mac), Chronicle(mac, hist),
         NEW c \in Choices, JoinRequest(c), "McpsReq" \notin mac'.flags
  PROVE  Counting(mac') /\ Chronicle(mac', hist) /\ hist' = hist
<1> DEFINE q == Enqueue(mac, "JOIN", "JOIN_FAIL")
           confirm == [q.confirm EXCEPT !.ack = FALSE]
           r == [q EXCEPT !.joinTrials = 0, !.maxJoin = MaxJoinTrials,
                          !.confirm = confirm]
           p == PrepareJoin(r, c)
           queue == Add(mac.queue, "JOIN", "JOIN_FAIL", FALSE)
<1>1. /\ mac' = ScheduleTx(p, c) /\ hist' = hist
      /\ ~IsFull(mac.queue)
      /\ mac.state = {}
  BY DEF JoinRequest, MlmeAllowed
<1>2. mac \in MacTypes /\ mac.queue \in Queues /\ Contiguous(mac.queue)
  BY DEF Settled, Sound, MacTypes
<1>3. Settled(q)
  BY <1>1, EnqueueSettled, QueueAssumption
<1>4. mac.queue.cnt = 0
  <2>1. "MlmeReq" \notin mac.flags
    BY <1>1 DEF Counting, Busy
  <2>2. mac.queue.cnt \in Nat /\ ~(mac.queue.cnt > 0)
    BY <1>2, <2>1, QueueLenAssumption DEF Settled, Sound, Queues
  <2> QED
    BY <2>2
<1>5. Lone(queue)
  BY <1>2, <1>4, AddAlone, QueueAssumption
<1>6. "MlmeReq" \in q.flags /\ q.queue = queue
  BY <1>2 DEF Enqueue, Raise, MacTypes
<1> HIDE DEF queue, q
<1>7. /\ q \in MacTypes /\ Contiguous(q.queue)
      /\ confirm \in McpsConfirms
  BY <1>3 DEF Settled, Sound, MacTypes, McpsConfirms
<1>8. MaxJoinTrials \in Nat
  BY CountAssumption
<1> HIDE DEF confirm
<1>9. r \in MacTypes /\ r.flags = q.flags /\ r.queue = q.queue
  BY <1>7, <1>8 DEF MacTypes
<1> HIDE DEF r
<1>10. /\ p \in MacTypes /\ p.flags = q.flags /\ p.queue = queue
       /\ p.frame.kind = "JOIN" /\ p.joined = FALSE /\ Sendable(p)
  BY <1>6, <1>9, PrepareJoinFields, PrepareJoinLeaves
<1> HIDE DEF p
<1>11. /\ mac'.joined = FALSE /\ mac'.frame.kind = "JOIN"
       /\ "MlmeReq" \in mac'.flags
       /\ Served(mac') /\ Busy(mac')
  BY <1>1, <1>5, <1>6, <1>7, <1>10, ScheduleTxServes
<1>12. Counting(mac')
  BY <1>11 DEF Counting, Asking
<1>13. Chronicle(mac', hist)
  BY <1>11 DEF Chronicle
<1> QED
  BY <1>1, <1>12, <1>13

(* A request takes the next number, and the counter, which is above all of *)
(* the session, as frames of a session are sent by requests only.          *)
LEMMA McpsRequestCounts ==
  ASSUME Settled(mac), hist \in HistTypes, Between(mac),
         Counting(mac), Chronicle(mac, hist),
         NEW type \in McpsTypes, NEW long \in BOOLEAN, NEW c \in Choices,
         McpsRequest(type, long, c)
  PROVE  /\ Counting(mac') /\ Chronicle(mac', hist')
         /\ hist'.aired = hist.aired
<1> DEFINE confirm == [type |-> "UNCONFIRMED", status |-> "ERROR",
                       ack |-> FALSE, dr |-> 0]
           retries == IF type = "CONFIRMED" THEN NbTrials ELSE 1
           dr == IF AdrOn THEN mac.dr ELSE DefaultDr
           fresh == [mac EXCEPT !.confirm = confirm, !.ackCnt = 1,
                                !.ackRetries = retries, !.dr = dr]
           frame == IF Buildable(fresh, type)
                    THEN [kind |-> type, fcnt |-> fresh.upCnt,
                          req |-> hist.reqs + 1, long |-> long]
                    ELSE NoFrame
           built == [fresh EXCEPT !.nodeAck = (type = "CONFIRMED"),
                                  !.frame = frame]
           sent  == ScheduleTx(built, c)
           ok    == [Raise(sent, {"McpsReq"}) EXCEPT !.confirm.type = type]
           no    == [built EXCEPT !.nodeAck = FALSE]
           next  == [hist EXCEPT !.reqs = @ + 1, !.kind = type,
                                 !.drs = <<>>, !.acked = FALSE]
<1>1. /\ mac \in MacTypes /\ mac.state = {} /\ Sound(mac)
      /\ Contiguous(mac.queue)
      /\ type \in McpsKinds
      /\ hist.reqs + 1 \in Nat /\ mac.upCnt \in Nat
  <2>1. Sound(mac) /\ mac \in MacTypes /\ "RX_ABORT" \notin mac.state
    BY DEF Settled, Sound, Calm
  <2>2. mac.state \cap {"TX_RUNNING", "TX_DELAYED"} = {}
    BY DEF McpsRequest
  <2> QED
    BY <2>1, <2>2, ChoiceAssumption
       DEF Sound, MacTypes, States, McpsKinds, HistTypes
<1>2. /\ "McpsReq" \notin mac.flags /\ "MlmeReq" \notin mac.flags
      /\ ~Busy(mac) /\ Lone(mac.queue) /\ Reported(mac.queue)
  BY <1>1 DEF Between, Busy, Counting, Served
<1>3. \/ /\ mac' = ok /\ hist' = next
         /\ Buildable(fresh, type) /\ Sendable(built)
      \/ mac' = no /\ hist' = hist
  <2>1. built = PrepareFrame(fresh, type, hist.reqs + 1, long)
    BY DEF PrepareFrame
  <2> HIDE DEF built
  <2> QED
    BY <2>1 DEF McpsRequest
<1>4. /\ retries \in Nat /\ dr \in Datarates
      /\ confirm \in McpsConfirms
  BY <1>1, CountAssumption, DatarateAssumption, QueueAssumption
     DEF MacTypes, McpsConfirms, McpsKinds
<1> HIDE DEF retries, dr, confirm
<1>5. Alike(fresh, mac)
  BY <1>1, <1>4 DEF Alike, MacTypes
<1>6. fresh.joined = mac.joined /\ fresh.upCnt = mac.upCnt
  BY <1>1 DEF MacTypes
<1> HIDE DEF fresh
<1>7. Alike(built, fresh)
  <2>1. built = PrepareFrame(fresh, type, hist.reqs + 1, long)
    BY DEF PrepareFrame
  <2> QED
    BY <1>1, <1>5, <2>1, PrepareFrameAlike DEF Alike
<1>8. Buildable(fresh, type) => /\ frame.kind = type
                                /\ frame.fcnt = mac.upCnt
                                /\ frame.req = hist.reqs + 1
                                /\ type # "PROPRIETARY" => mac.joined
  BY <1>1, <1>6 DEF Buildable, McpsKinds
<1> HIDE DEF frame
<1>9. /\ built.frame = frame /\ built.joined = mac.joined
      /\ built.upCnt = mac.upCnt
  BY <1>5, <1>6 DEF Alike, MacTypes
<1>10. /\ built \in MacTypes /\ Sound(built)
       /\ built.state = {} /\ built.flags = mac.flags
       /\ built.queue = mac.queue
  BY <1>1, <1>5, <1>7, AlikeKeeps DEF Alike
<1> HIDE DEF built
<1>11. CASE mac' = no /\ hist' = hist
  <2>1. /\ no.state = {} /\ no.flags = mac.flags /\ no.queue = mac.queue
        /\ no.joined = mac.joined /\ no.upCnt = mac.upCnt
    BY <1>9, <1>10 DEF MacTypes
  <2> HIDE DEF no
  <2>2. Counting(no)
    BY <1>2, <2>1 DEF Counting, Busy, Served, Asking
  <2>3. Chronicle(no, hist)
    BY <1>2, <2>1 DEF Chronicle
  <2> QED
    BY <1>11, <2>2, <2>3
<1>12. CASE /\ mac' = ok /\ hist' = next
            /\ Buildable(fresh, type) /\ Sendable(built)
  <2>1. /\ sent.upCnt = mac.upCnt /\ sent.joined = mac.joined
        /\ sent.frame = frame /\ sent.flags = mac.flags
        /\ Served(sent) /\ Busy(sent)
    BY <1>1, <1>2, <1>9, <1>10, <1>12, ScheduleTxServes
  <2>2. sent \in MacTypes
    BY <1>10, ScheduleTxSound DEF Sound
  <2> HIDE DEF sent
  <2> DEFINE flags == sent.flags \cup {"McpsReq"}
             typed == [sent.confirm EXCEPT !.type = type]
             done == [sent EXCEPT !.flags = flags, !.confirm = typed]
  <2>3. ok = done
    BY <2>2 DEF Raise, MacTypes
  <2>4. "McpsReq" \in flags /\ "MlmeReq" \notin flags
    BY <1>2, <2>1
  <2> HIDE DEF ok, flags, typed
  <2>5. /\ done.flags = flags /\ done.state = sent.state
        /\ done.frame = sent.frame /\ done.joined = sent.joined
        /\ done.upCnt = sent.upCnt /\ done.queue = sent.queue
    BY <2>2 DEF MacTypes
  <2> HIDE DEF done
  <2>6. Served(done) /\ Busy(done)
    BY <2>1, <2>5 DEF Served, Busy
  <2>7. /\ done.frame.kind = type /\ done.frame.fcnt = mac.upCnt
        /\ done.frame.req = hist.reqs + 1
        /\ done.upCnt = mac.upCnt /\ done.joined = mac.joined
        /\ type # "PROPRIETARY" => done.joined
    BY <1>8, <1>12, <2>1, <2>5
  <2>8. Counting(done)
    <3>1. done.flags \cap Asking # {} /\ ~(Asking \subseteq done.flags)
      BY <2>4, <2>5 DEF Asking
    <3> QED
      BY <1>1, <2>4, <2>5, <2>6, <2>7, <3>1 DEF Counting
  <2>9. /\ next.aired = hist.aired /\ next.reqs = hist.reqs + 1
        /\ next.session = hist.session
    BY DEF HistTypes
  <2> HIDE DEF next
  <2>10. Chronicle(done, next)
    <3>1. ASSUME NEW a \in hist.aired
          PROVE  a.req \in Nat /\ a.req < hist.reqs + 1
      BY <3>1 DEF Chronicle, HistTypes
    <3>2. \A a \in next.aired : a.session <= next.session /\ a.req <= next.reqs
      BY <1>1, <2>9, <3>1 DEF Chronicle
    <3>3. ASSUME mac.joined, NEW a \in hist.aired, a.session = hist.session
          PROVE  a.fcnt < mac.upCnt
      BY <1>2, <3>3 DEF Chronicle
    <3>4. ASSUME done.joined, NEW a \in next.aired, a.session = next.session
          PROVE  /\ "MlmeReq" \notin done.flags /\ "McpsReq" \in done.flags
                 /\ a.req < next.reqs
                 /\ a.fcnt < done.frame.fcnt
      BY <2>4, <2>5, <2>7, <2>9, <3>1, <3>3, <3>4
    <3> QED
      BY <2>7, <2>9, <3>2, <3>4 DEF Chronicle
  <2> QED
    BY <1>12, <2>3, <2>8, <2>9, <2>10
<1> QED
  BY <1>3, <1>11, <1>12

(* The frame that leaves the radio is that of the request, and takes its   *)
(* place behind those of earlier requests.                                 *)
LEMMA TxDoneCounts ==
  ASSUME Class = "A", Settled(mac), Between(mac), hist \in HistTypes,
         OnRadioTxDone, Counting(mac), Chronicle(mac, hist),
         CountersFollowRequests
  PROVE  Counting(mac') /\ Chronicle(mac', hist') /\ CountersFollowRequests'
<1> DEFINE timers == mac.timers \cup {"Rx1"}
                       \cup (IF Class = "A" THEN {"Rx2"} ELSE {})
                       \cup (IF Class = "C" \/ mac.nodeAck
                             THEN {"AckTimeout"} ELSE {})
           confirm == [mac.confirm EXCEPT
                         !.status = IF mac.nodeAck THEN @ ELSE "OK"]
           nbRep == IF mac.nodeAck THEN mac.nbRep ELSE mac.nbRep + 1
           idle == [mac EXCEPT !.radio = "IDLE"]
           stale == mac.ackStale /\ ~(Class = "C" \/ mac.nodeAck)
           r == [idle EXCEPT !.timers = timers, !.ackStale = stale,
                             !.confirm = confirm, !.nbRep = nbRep]
           b == [session |-> hist.session, fcnt |-> mac.frame.fcnt,
                 req |-> mac.frame.req]
           data == mac.frame.kind \in {"CONFIRMED", "UNCONFIRMED"}
<1>1. mac \in MacTypes
  BY DEF Settled, Sound
<1>2. mac' = r
  BY <1>1 DEF OnRadioTxDone, Rest, MacTypes
<1> HIDE DEF timers, confirm, nbRep, stale
<1>3. SameFields(idle, mac) /\ DOMAIN idle = DOMAIN mac
  BY <1>1 DEF MacTypes, SameFields
<1> HIDE DEF idle
<1>4. SameFields(r, mac)
  BY <1>1, <1>3 DEF MacTypes, SameFields
<1> HIDE DEF r
<1>5. Counting(mac') /\ Chronicle(mac', hist)
  BY <1>2, <1>4, SameFieldsCount
<1>6. /\ hist'.session = hist.session /\ hist'.reqs = hist.reqs
      /\ hist'.aired = IF data THEN hist.aired \cup {b} ELSE hist.aired
  BY DEF OnRadioTxDone, HistTypes
<1>7. CASE ~data
  BY <1>5, <1>6, <1>7 DEF Chronicle, CountersFollowRequests
<1>8. CASE data
  <2>1. Busy(mac)
    BY OpenWindow DEF OnRadioTxDone, Busy
  <2>2. /\ "McpsReq" \in mac.flags /\ "MlmeReq" \notin mac.flags
        /\ mac.joined
    BY <1>8, <2>1 DEF Counting, Asking
  <2>3. /\ b.session = hist.session /\ b.req = hist.reqs
        /\ b.fcnt = mac.frame.fcnt
    BY <2>2 DEF Chronicle
  <2>4. /\ b.fcnt \in Nat /\ b.req \in Nat
        /\ \A a \in hist.aired : a.fcnt \in Nat /\ a.req \in Nat
    BY <1>1 DEF MacTypes, TxFrames, HistTypes
  <2>5. ASSUME NEW a \in hist.aired
        PROVE  /\ a.session <= hist.session /\ a.req <= hist.reqs
               /\ a.session = hist.session =>
                    IF a.req < hist.reqs THEN a.fcnt < b.fcnt
                    ELSE a.fcnt = b.fcnt
    BY <2>2, <2>3 DEF Chronicle
  <2>6. /\ mac'.joined = mac.joined /\ mac'.frame = mac.frame
        /\ mac'.flags = mac.flags
    BY <1>2, <1>4 DEF SameFields
  <2> HIDE DEF b
  <2>7. Chronicle(mac', hist')
    <3>1. b.session <= hist.session /\ b.req <= hist.reqs
          /\ ~(b.req < hist.reqs)
      BY <2>3 DEF HistTypes
    <3>2. hist'.aired = hist.aired \cup {b}
      BY <1>6, <1>8
    <3>3. mac'.frame.req = hist.reqs
      BY <2>2, <2>6 DEF Chronicle
    <3> QED
      BY <1>6, <2>2, <2>3, <2>5, <2>6, <3>1, <3>2, <3>3 DEF Chronicle
  <2>8. CountersFollowRequests'
    <3>1. ASSUME NEW a \in hist.aired, a.session = b.session
          PROVE  /\ a.req < b.req <=> a.fcnt < b.fcnt
                 /\ ~(b.req < a.req) /\ ~(b.fcnt < a.fcnt)
      <4>1. a.fcnt \in Nat /\ a.req \in Nat
        BY <2>4
      <4> QED
        BY <2>3, <2>4, <2>5, <3>1, <4>1
    <3>2. ~(b.req < b.req) /\ ~(b.fcnt < b.fcnt)
      BY <2>4
    <3>3. hist'.aired = hist.aired \cup {b}
      BY <1>6, <1>8
    <3> QED
      BY <3>1, <3>2, <3>3 DEF CountersFollowRequests
  <2> QED
    BY <1>5, <2>7, <2>8
<1> QED
  BY <1>7, <1>8

-----------------------------------------------------------------------------
(* The inductive invariant.                                                *)

InvC ==
  /\ InvA
  /\ CountersApply => /\ Counting(mac)
                      /\ Chronicle(mac, hist)
                      /\ CountersFollowRequests

LEMMA InitInvC == Init => InvC
<1> SUFFICES ASSUME Init
             PROVE  Counting(mac) /\ Chronicle(mac, hist)
                    /\ CountersFollowRequests
  BY InitInvA DEF InvC
<1>1. /\ mac.state = {} /\ mac.flags = {} /\ mac.joined = FALSE
      /\ mac.queue.cnt = 0 /\ hist.aired = {}
  BY DEF Init, EmptyQueue
<1>2. Served(mac)
  BY <1>1 DEF Served, Lone, Reported
<1> QED
  BY <1>1, <1>2 DEF Counting, Chronicle, CountersFollowRequests, Busy, Asking

LEMMA NextInvC == InvC /\ [Next]_vars => InvC'
<1> SUFFICES ASSUME InvC, [Next]_vars, CountersApply
             PROVE  Counting(mac') /\ Chronicle(mac', hist')
                    /\ CountersFollowRequests'
  BY NextInvA DEF InvC, CountersApply, ClassAOnly
<1>1. /\ ClassAOnly /\ Class = "A" /\ "LINK_CHECK" \notin Services
      /\ Settled(mac) /\ mac \in MacTypes /\ hist \in HistTypes /\ Between(mac)
      /\ Counting(mac) /\ Chronicle(mac, hist) /\ CountersFollowRequests
      /\ ~mac.ackStale
  BY DEF InvC, InvA, Inv, CountersApply, ClassAOnly, Settled, Sound
<1>2. mac' \in MacTypes /\ hist' \in HistTypes /\ Between(mac')
  BY <1>1, NextInvA DEF InvC, InvA, Inv, Settled, Sound, ClassAOnly
<1>3. ASSUME hist'.aired = hist.aired
      PROVE  CountersFollowRequests'
  BY <1>1, <1>3 DEF CountersFollowRequests
<1>4. ASSUME NEW c \in Choices, JoinRequest(c)
      PROVE  Counting(mac') /\ Chronicle(mac', hist') /\ hist' = hist
  <2>1. "McpsReq" \notin mac'.flags
    BY <1>1, <1>4, JoinRequestBetween
  <2> QED
    BY <1>1, <1>4, <2>1, JoinRequestCounts
<1>5. ASSUME NEW room \in BOOLEAN, LinkCheckRequest(room)
      PROVE  FALSE
  BY <1>1, <1>5 DEF LinkCheckRequest, MlmeAllowed
<1>6. ~ContinuousWaveRequest
  BY <1>1 DEF ContinuousWaveRequest, MlmeAllowed, ClassAOnly
<1>7. ASSUME NEW type \in McpsTypes, NEW long \in BOOLEAN, NEW c \in Choices,
             McpsRequest(type, long, c)
      PROVE  Counting(mac') /\ Chronicle(mac', hist')
             /\ hist'.aired = hist.aired
  BY <1>1, <1>7, McpsRequestCounts
<1>8. CASE OnRadioTxDone
  BY <1>1, <1>8, TxDoneCounts
<1>9. ~OnRadioTxTimeout
  BY <1>1 DEF OnRadioTxTimeout, ClassAOnly, Between, Kept, Aired
<1>10. ASSUME NEW idle \in BOOLEAN, NEW late \in BOOLEAN,
              OnRadioRxFailed(idle, late)
       PROVE  Counting(mac') /\ Chronicle(mac', hist') /\ hist' = hist
  BY <1>1, <1>10, RxFailedCounts DEF Settled
<1>11. ASSUME NEW f \in Downlinks, NEW c \in Choices, OnRadioRxDoneEvent(f, c)
       PROVE  Counting(mac') /\ Chronicle(mac', hist')
              /\ hist'.aired = hist.aired
  BY <1>1, <1>2, <1>11, RxDoneCounts
<1>12. CASE \/ OnRxWindow1TimerEvent \/ OnRxWindow2TimerEvent
            \/ OnAckTimeoutTimerEvent \/ UNCHANGED vars
  <2>1. SameFields(mac', mac) /\ hist' = hist
    BY <1>1, <1>12, RxWindow1Counts, RxWindow2Counts, AckTimeoutCounts
       DEF vars, SameFields
  <2> QED
    BY <1>1, <1>3, <2>1, SameFieldsCount
<1>13. ASSUME NEW c \in Choices, OnTxDelayedTimerEvent(c)
       PROVE  Counting(mac') /\ Chronicle(mac', hist') /\ hist' = hist
  BY <1>1, <1>13, TxDelayedCounts
<1>14. ASSUME NEW c \in Choices, OnMacStateCheckTimerEvent(c)
       PROVE  Counting(mac') /\ Chronicle(mac', hist') /\ hist' = hist
  BY <1>1, <1>2, <1>14, StateCheckCounts
<1> QED
  BY <1>3, <1>4, <1>5, <1>6, <1>7, <1>8, <1>9, <1>10, <1>11, <1>12, <1>13,
     <1>14 DEF Next

(* What holds between two callbacks, how far the open request is, and      *)
(* where the counters of the frames sent so far stand to it, are an        *)
(* inductive invariant.                                                    *)
THEOREM InvarianceC == Spec => []InvC
<1>1. Init => InvC
  BY InitInvC
<1>2. InvC /\ [Next]_vars => InvC'
  BY NextInvC
<1> QED
  BY <1>1, <1>2, PTL DEF Spec

(* A class A device without link checks: within a session, frames of       *)
(* different requests carry different counters, in the order of the        *)
(* requests, and a repetition carries that of its request, although        *)
(* OnMacStateCheckTimerEvent raises UpLinkCounter in five places and       *)
(* repetitions, retries, delays and aborted windows come between.          *)
THEOREM CountersGrow == Spec => [](CountersApply => CountersFollowRequests)
<1>1. InvC => (CountersApply => CountersFollowRequests)
  BY DEF InvC
<1> QED
  BY <1>1, InvarianceC, PTL

-----------------------------------------------------------------------------
(* The repetitions of a request.  The counters of transmissions are in the *)
(* record, the transmissions in the history; they move apart when a frame  *)
(* is scheduled and meet again when it has been sent.                      *)

RetryApplies == CountersApply /\ DrKept

(* The datarate after `k' retransmissions of a request begun with `base'.  *)
Lowered(base, k) ==
  IF base - k \div 2 > MinDr THEN base - k \div 2 ELSE MinDr

Repeating(m, n) == n <= m.nbRep /\ (AwaitsAir(m) => n < NbRep)

Retrying(m, n, base) ==
  /\ m.ackRetries = NbTrials
  /\ m.ackCnt >= 1 /\ m.ackCnt <= NbTrials
  /\ n = IF AwaitsAir(m) THEN m.ackCnt - 1 ELSE m.ackCnt
  /\ n > 0 => m.dr = Lowered(base, m.ackCnt - 1)
  /\ m.radio = "TX" => m.confirm.dr = m.dr

Open(m) == "McpsReq" \in m.flags /\ (Busy(m) \/ m.retry)

(* An open request of this kind has been sent `n' times, first at `base'.  *)
Trying(m, kind, n, base) ==
  Open(m) =>
    /\ m.frame.kind = kind
    /\ kind = "UNCONFIRMED" => Repeating(m, n)
    /\ kind = "CONFIRMED" => Retrying(m, n, base)

LEMMA TryingStays ==
  ASSUME NEW m, NEW kind, NEW n, NEW base, Trying(m, kind, n, base), NEW r,
         Open(r) => Open(m), SameTry(r, m), r.frame = m.frame, r.dr = m.dr,
         AwaitsAir(r) <=> AwaitsAir(m),
         r.radio = "TX" => \/ r.confirm.dr = r.dr
                           \/ m.radio = "TX" /\ r.confirm.dr = m.confirm.dr
  PROVE  Trying(r, kind, n, base)
BY DEF Trying, Repeating, Retrying, SameTry

LEMMA ClosedTries ==
  ASSUME NEW m, "TX_RUNNING" \notin m.state, "TX_DELAYED" \notin m.state,
         ~m.retry, NEW kind, NEW n, NEW base
  PROVE  Trying(m, kind, n, base)
BY DEF Trying, Open, Busy

-----------------------------------------------------------------------------
(* Sending.                                                                *)

LEMMA SendFrameTries ==
  ASSUME NEW m \in MacTypes
  PROVE  LET r == SendFrameOnChannel(m)
         IN  r.nbRep = m.nbRep /\ r.confirm.dr = m.dr
<1> DEFINE s == RadioTo(m, "TX")
           confirm == [s.confirm EXCEPT !.status = "ERROR", !.dr = m.dr]
           queue == SetStatusCmn(s.queue, "ERROR")
           r == [s EXCEPT !.queue = queue,
                          !.confirm = confirm,
                          !.timers = @ \cup {"StateCheck"},
                          !.joinTrials = IF m.joined THEN @ ELSE @ + 1,
                          !.state = @ \cup {"TX_RUNNING"}]
<1>1. SendFrameOnChannel(m) = r
  BY DEF SendFrameOnChannel
<1>2. s \in MacTypes
  BY RadioToAlike DEF Radios, Alike
<1>3. s.nbRep = m.nbRep
  <2> DEFINE cut == m.cut \/ m.radio \in {"TX", "CW"}
  <2>1. s = [m EXCEPT !.radio = "TX", !.cut = cut]
    BY DEF RadioTo
  <2> HIDE DEF s, cut
  <2> QED
    BY <2>1 DEF MacTypes
<1> HIDE DEF s
<1>4. confirm.dr = m.dr
  BY <1>2 DEF MacTypes, McpsConfirms
<1> HIDE DEF queue, confirm
<1>5. r.nbRep = s.nbRep /\ r.confirm = confirm
  BY <1>2 DEF MacTypes
<1> HIDE DEF r
<1> QED
  BY <1>1, <1>3, <1>4, <1>5

(* A scheduled frame awaits the air, with the counters it found.           *)
LEMMA ScheduleTxTries ==
  ASSUME NEW m \in MacTypes, NEW c \in Choices
  PROVE  LET r == ScheduleTx(m, c)
         IN  /\ SameTry(r, m) /\ r.dr = m.dr /\ r.frame = m.frame
             /\ r.flags = m.flags /\ r.retry = m.retry
             /\ Sendable(m) => /\ AwaitsAir(r)
                               /\ r.radio = "TX" => \/ r.confirm.dr = m.dr
                                                    \/ m.radio = "TX"
             /\ ~Sendable(m) => r = m
<1> DEFINE put == [m EXCEPT !.state = @ \cup {"TX_DELAYED"},
                            !.timers = @ \cup {"TxDelayed"}]
           r == ScheduleTx(m, c)
<1>1. /\ ~Sendable(m) => r = m
      /\ Sendable(m) => r = put \/ r = SendFrameOnChannel(m)
  BY DEF ScheduleTx
<1>2. put.nbRep = m.nbRep /\ put.radio = m.radio
  BY DEF MacTypes
<1>3. Sendable(m) => OnAir(r, m) \/ PutOff(r, m)
  BY ScheduleTxCases
<1> HIDE DEF put
<1>4. r.nbRep = m.nbRep
      /\ (Sendable(m) /\ r.radio = "TX" => r.confirm.dr = m.dr \/ m.radio = "TX")
  BY <1>1, <1>2, SendFrameTries
<1> HIDE DEF r
<1>5. SameRequest(r, m)
  BY <1>1, <1>3 DEF OnAir, PutOff, SameRequest
<1>6. Sendable(m) => AwaitsAir(r)
  BY <1>3 DEF OnAir, PutOff, AwaitsAir
<1> QED
  BY <1>1, <1>4, <1>5, <1>6 DEF SameRequest, SameTry, r

(* A frame that is no join trial goes out as it is.                        *)
LEMMA SentAgainTries ==
  ASSUME NEW m \in MacTypes, NEW c \in Choices, ~JoinRequested(m)
  PROVE  LET r == OnTxDelayed(m, c)
         IN  /\ SameTry(r, m) /\ r.dr = m.dr /\ r.frame = m.frame
             /\ r.flags = m.flags /\ r.retry = m.retry
             /\ Sendable(m) => /\ AwaitsAir(r)
                               /\ r.radio = "TX" => \/ r.confirm.dr = m.dr
                                                    \/ m.radio = "TX"
<1> DEFINE state == m.state \ {"TX_DELAYED"}
           timers == m.timers \ {"TxDelayed"}
           due == [m EXCEPT !.timers = timers, !.state = state]
<1>1. state \in SUBSET States /\ timers \in SUBSET Timers
  BY DEF MacTypes
<1>2. Stop(m, {"TxDelayed"}) = [m EXCEPT !.timers = timers]
  BY DEF Stop
<1>3. [Stop(m, {"TxDelayed"}) EXCEPT !.state = @ \ {"TX_DELAYED"}] = due
  BY <1>2 DEF MacTypes
<1> HIDE DEF state, timers
<1>4. /\ due \in MacTypes
      /\ due.flags = m.flags /\ due.mlme = m.mlme /\ due.radio = m.radio
      /\ due.frame = m.frame /\ due.joined = m.joined /\ due.off = m.off
      /\ due.dr = m.dr /\ due.retry = m.retry
      /\ SameTry(due, m)
  BY <1>1 DEF MacTypes, SameTry
<1> HIDE DEF due
<1>5. ~JoinRequested(due) /\ (Sendable(due) <=> Sendable(m))
  BY <1>4 DEF JoinRequested, Sendable
<1>6. OnTxDelayed(m, c) = ScheduleTx(due, c)
  BY <1>3, <1>5 DEF OnTxDelayed
<1> QED
  BY <1>4, <1>5, <1>6, ScheduleTxTries DEF SameTry

-----------------------------------------------------------------------------
(* OnMacStateCheckTimerEvent, block by block.                              *)

LEMMA AbortBlockTries ==
  ASSUME NEW m, Due(m), NEW kind, NEW n, NEW base, Trying(m, kind, n, base)
  PROVE  Trying(AbortBlock(m), kind, n, base)
<1> DEFINE state == m.state \ {"RX_ABORT", "TX_RUNNING"}
           r == [m EXCEPT !.state = state]
<1>1. AbortBlock(m) \in {m, r}
  BY DEF AbortBlock
<1>2. /\ m \in MacTypes
      /\ Busy(m) /\ m.radio = "IDLE" /\ "TX_DELAYED" \notin m.state
  BY DEF Due, Sound, Kept, InTurn, Quiet, Busy
<1>3. "TX_DELAYED" \notin state
  BY <1>2
<1> HIDE DEF state
<1>4. /\ r.state = state /\ r.flags = m.flags /\ r.frame = m.frame
      /\ r.dr = m.dr /\ r.radio = m.radio /\ r.retry = m.retry
      /\ SameTry(r, m)
  BY <1>2 DEF MacTypes, SameTry
<1> HIDE DEF r
<1>5. Trying(r, kind, n, base)
  <2>1. Open(r) => Open(m)
    BY <1>2, <1>4 DEF Open
  <2>2. AwaitsAir(r) <=> AwaitsAir(m)
    BY <1>2, <1>3, <1>4 DEF AwaitsAir
  <2>3. r.radio # "TX"
    BY <1>2, <1>4
  <2> QED
    BY <1>4, <2>1, <2>2, <2>3, TryingStays
<1> QED
  BY <1>1, <1>5

LEMMA TxTimeoutBlockTries ==
  ASSUME NEW m, Midway(m), NEW kind, NEW n, NEW base, Trying(m, kind, n, base)
  PROVE  /\ Trying(TxTimeoutBlock(m), kind, n, base)
         /\ TxTimeoutBlock(m).flags = m.flags
<1> DEFINE mlme == [m.mlme EXCEPT !.status = m.queue.cmn]
           r == [m EXCEPT !.mlme = mlme]
<1>1. TxTimeoutBlock(m) \in {m, r}
  BY DEF TxTimeoutBlock, TxTimedOut, Midway, Kept, NoTimeout
<1>2. m \in MacTypes
  BY DEF Midway, Sound
<1> HIDE DEF mlme
<1>3. /\ r.state = m.state /\ r.flags = m.flags /\ r.frame = m.frame
      /\ r.dr = m.dr /\ r.radio = m.radio /\ r.retry = m.retry
      /\ r.confirm = m.confirm /\ SameTry(r, m)
  BY <1>2 DEF MacTypes, SameTry
<1> HIDE DEF r
<1>4. Trying(r, kind, n, base)
  BY <1>3, TryingStays DEF Open, AwaitsAir, Busy
<1> QED
  BY <1>1, <1>3, <1>4

(* A frame that asked for no acknowledgement is repeated while its counter *)
(* is below NbRep.                                                         *)
LEMMA UnacknowledgedBlockTries ==
  ASSUME NEW m, Midway(m), "McpsReq" \in m.flags, "MlmeReq" \notin m.flags,
         NEW kind, NEW n \in Nat, NEW base, Trying(m, kind, n, base),
         NEW c \in Choices
  PROVE  Trying(UnacknowledgedBlock(m, c), kind, n, base)
<1> DEFINE s == StopRunning(m)
           upCnt == s.upCnt + 1
           repeated == [s EXCEPT !.nbRep = 0, !.upCnt = upCnt]
           flags == m.flags \ {"MacDone"}
           t == [m EXCEPT !.flags = flags]
           r == OnTxDelayed(t, c)
<1>1. m \in MacTypes
  BY DEF Midway, Sound
<1>2. CASE m.nodeAck
  BY <1>2 DEF UnacknowledgedBlock
<1>3. CASE ~m.nodeAck
  <2>1. ~TxTimedOut(m) /\ Requested(m) /\ ~JoinRequested(m)
    BY DEF TxTimedOut, Midway, Kept, NoTimeout, Requested, JoinRequested
  <2>2. \/ UnacknowledgedBlock(m, c) = repeated
        \/ /\ UnacknowledgedBlock(m, c) = r
           /\ ~(m.nbRep >= NbRep) /\ "McpsInd" \notin m.flags
    BY <1>3, <2>1 DEF UnacknowledgedBlock, RepetitionBlock, SendAgain
  <2>3. "TX_DELAYED" \notin m.state /\ ~m.retry
    BY <1>3 DEF Midway, Kept, InTurn, Owned
  <2>4. /\ s \in MacTypes /\ s.state = m.state \ {"TX_RUNNING"}
        /\ s.retry = m.retry
    BY <1>1, StopRunningFields
  <2> HIDE DEF s, upCnt
  <2>5. repeated.state = s.state /\ repeated.retry = s.retry
    BY <2>4 DEF MacTypes
  <2> HIDE DEF repeated
  <2>6. Trying(repeated, kind, n, base)
    BY <2>3, <2>4, <2>5, ClosedTries
  <2>7. ASSUME ~(m.nbRep >= NbRep), "McpsInd" \notin m.flags
        PROVE  Trying(r, kind, n, base)
    <3>1. Busy(m) /\ m.frame.kind # "CONFIRMED"
      BY <1>3, <2>7 DEF Midway, Kept, Owned
    <3>2. m.frame.kind = kind /\ (kind = "UNCONFIRMED" => n <= m.nbRep)
      BY <3>1 DEF Trying, Open, Repeating
    <3>3. flags \in SUBSET Flags
      BY <1>1 DEF MacTypes
    <3>4. "MlmeReq" \notin flags
      OBVIOUS
    <3> HIDE DEF flags
    <3>5. t \in MacTypes /\ t.flags = flags /\ t.frame = m.frame
          /\ t.nbRep = m.nbRep
      BY <1>1, <3>3 DEF MacTypes
    <3> HIDE DEF t
    <3>6. ~JoinRequested(t)
      BY <3>4, <3>5 DEF JoinRequested
    <3>7. SameTry(r, t) /\ r.frame = t.frame
      BY <3>5, <3>6, SentAgainTries
    <3> HIDE DEF r
    <3>8. r.nbRep = m.nbRep /\ r.frame = m.frame
      BY <3>5, <3>7 DEF SameTry
    <3>9. m.nbRep \in Nat /\ NbRep \in Nat
      BY <1>1, CountAssumption DEF MacTypes
    <3>10. kind = "UNCONFIRMED" => n <= r.nbRep /\ n < NbRep
      BY <2>7, <3>2, <3>8, <3>9
    <3> QED
      BY <3>1, <3>2, <3>8, <3>10 DEF Trying, Repeating
  <2> HIDE DEF r
  <2> QED
    BY <2>2, <2>6, <2>7
<1> QED
  BY <1>2, <1>3

LEMMA ReceivedBlockTries ==
  ASSUME NEW m, Judged(m), NEW kind, NEW n, NEW base, Trying(m, kind, n, base)
  PROVE  Trying(ReceivedBlock(m), kind, n, base)
<1> DEFINE s == StopRunning(m)
           upCnt == s.upCnt + 1
           r == [s EXCEPT !.retry = FALSE, !.nodeAck = FALSE, !.upCnt = upCnt]
           received == /\ "McpsInd" \in m.flags
                       /\ m.confirm.ack \/ m.ackCnt > m.ackRetries
<1>1. ReceivedBlock(m) = IF received THEN r ELSE m
  BY DEF ReceivedBlock
<1>2. received => "TX_DELAYED" \notin m.state
  BY DEF Judged, Answered, Kept, InTurn
<1>3. s \in MacTypes /\ s.state = m.state \ {"TX_RUNNING"}
  BY StopRunningFields DEF Judged, Sound
<1> HIDE DEF s, upCnt, received
<1>4. r.state = s.state /\ r.retry = FALSE
  BY <1>3 DEF MacTypes
<1> HIDE DEF r
<1>5. received => Trying(r, kind, n, base)
  BY <1>2, <1>3, <1>4, ClosedTries
<1> QED
  BY <1>1, <1>5

(* Every second retransmission goes one datarate down, to the lowest.      *)
LEMMA LoweredAgain ==
  ASSUME NEW base \in Nat, NEW k \in Nat, k >= 1,
         NEW dr, dr = Lowered(base, k - 1)
  PROVE  (IF (k + 1) % 2 = 1 THEN NextLowerDr(dr) ELSE dr) = Lowered(base, k)
<1> DEFINE h == k \div 2
           l == (k - 1) \div 2
<1>1. MinDr \in Nat
  BY DatarateAssumption
<1>2. /\ h \in Nat /\ l \in Nat
      /\ IF (k + 1) % 2 = 1 THEN h = l + 1 ELSE h = l
  OBVIOUS
<1>3. /\ dr = IF base - l > MinDr THEN base - l ELSE MinDr
      /\ Lowered(base, k) = IF base - h > MinDr THEN base - h ELSE MinDr
  BY DEF Lowered
<1> HIDE DEF h, l
<1>4. CASE (k + 1) % 2 = 1
  <2>1. h = l + 1
    BY <1>2, <1>4
  <2> QED
    BY <1>1, <1>2, <1>3, <1>4, <2>1 DEF NextLowerDr
<1>5. CASE (k + 1) % 2 # 1
  <2>1. h = l
    BY <1>2, <1>5
  <2> QED
    BY <1>3, <1>5, <2>1
<1> QED
  BY <1>4, <1>5

LEMMA RetryBlockTries ==
  ASSUME NEW m, Heeded(m), NEW kind, NEW n \in Nat, NEW base,
         n > 0 => base \in Nat, Trying(m, kind, n, base), NEW c \in Choices
  PROVE  Trying(RetryBlock(m, c), kind, n, base)
<1> DEFINE due   == [m EXCEPT !.retry = FALSE]
           next  == NextTry(m)
           sent  == ScheduleTx(next, c)
           flags == sent.flags \ {"MacDone"}
           again == [sent EXCEPT !.flags = flags]
<1>1. m \in MacTypes
  BY DEF Heeded, Sound
<1>2. CASE ~m.retry \/ "TX_DELAYED" \in m.state
  BY <1>2 DEF RetryBlock
<1>3. CASE m.retry /\ "TX_DELAYED" \notin m.state
  <2>1. \/ RetryBlock(m, c) = GiveUp(due)
        \/ RetryBlock(m, c) = GiveUpTooLong(next)
        \/ /\ RetryBlock(m, c) = again /\ Sendable(next)
           /\ ~(m.ackCnt >= m.ackRetries)
    BY <1>3 DEF RetryBlock
  <2>2. /\ "McpsReq" \in m.flags /\ m.frame.kind = "CONFIRMED"
        /\ m.radio = "IDLE"
    BY <1>3 DEF Heeded, Kept, Owned, InTurn, Quiet
  <2>3. due \in MacTypes /\ due.state = m.state /\ due.retry = FALSE
    BY <1>1 DEF MacTypes
  <2>4. next \in MacTypes /\ next.state = m.state
    BY <1>1, NextTryAlike DEF Alike
  <2>5. /\ next.retry = FALSE /\ next.frame = m.frame /\ next.radio = m.radio
    <3>1. next.retry \in BOOLEAN
      BY <2>4 DEF MacTypes
    <3> QED
      BY <1>1, <3>1, NextTryFields
  <2>6. /\ next.ackCnt = m.ackCnt + 1 /\ next.ackRetries = m.ackRetries
        /\ next.dr = IF (m.ackCnt + 1) % 2 = 1 THEN NextLowerDr(m.dr) ELSE m.dr
    <3> DEFINE cnt == m.ackCnt + 1
               dr == IF cnt % 2 = 1 THEN NextLowerDr(m.dr) ELSE m.dr
    <3>1. next = [m EXCEPT !.retry = FALSE, !.ackCnt = cnt, !.dr = dr]
      BY DEF NextTry
    <3> HIDE DEF next, cnt, dr
    <3>2. next.ackCnt = cnt /\ next.ackRetries = m.ackRetries /\ next.dr = dr
      BY <1>1, <3>1 DEF MacTypes
    <3> QED
      BY <3>2 DEF cnt, dr
  <2> HIDE DEF due, next
  <2>7. ASSUME NEW r \in MacTypes, r.state = m.state, r.retry = FALSE
        PROVE  /\ Trying(GiveUp(r), kind, n, base)
               /\ Trying(GiveUpTooLong(r), kind, n, base)
    <3> DEFINE state == r.state \ {"TX_RUNNING"}
               upCnt == r.upCnt + 1
               no == [r.confirm EXCEPT !.ack = FALSE]
               long == [no EXCEPT !.status = "DR_SIZE", !.dr = r.dr]
               u == [r EXCEPT !.state = state, !.nodeAck = FALSE,
                              !.confirm = no, !.upCnt = upCnt]
               t == [u EXCEPT !.confirm = long]
    <3>1. GiveUp(r) = u /\ GiveUpTooLong(r) = t
      BY <2>7 DEF GiveUp, GiveUpTooLong, StopRunning, MacTypes, McpsConfirms
    <3>2. "TX_RUNNING" \notin state /\ "TX_DELAYED" \notin state
      BY <1>3, <2>7
    <3> HIDE DEF state, upCnt, no, long
    <3>3. u.state = state /\ u.retry = FALSE
      BY <2>7 DEF MacTypes
    <3>4. t.state = state /\ t.retry = FALSE
      BY <2>7 DEF MacTypes
    <3> HIDE DEF u, t
    <3> QED
      BY <3>1, <3>2, <3>3, <3>4, ClosedTries
  <2>8. ASSUME Sendable(next), ~(m.ackCnt >= m.ackRetries)
        PROVE  Trying(again, kind, n, base)
    <3>1. /\ kind = "CONFIRMED" /\ Retrying(m, n, base) /\ ~AwaitsAir(m)
      BY <1>3, <2>2 DEF Trying, Open, AwaitsAir
    <3>2. /\ m.ackCnt \in Nat /\ m.ackRetries = NbTrials /\ NbTrials \in Nat
          /\ m.ackCnt >= 1 /\ n = m.ackCnt
          /\ n > 0 => m.dr = Lowered(base, m.ackCnt - 1)
      BY <1>1, <3>1, CountAssumption DEF MacTypes, Retrying
    <3>3. m.dr = Lowered(base, m.ackCnt - 1) /\ base \in Nat
      BY <3>2
    <3>4. next.dr = Lowered(base, m.ackCnt)
      BY <2>6, <3>2, <3>3, LoweredAgain
    <3>5. /\ SameTry(sent, next) /\ sent.dr = next.dr
          /\ sent.frame = next.frame /\ AwaitsAir(sent)
          /\ sent.radio = "TX" => sent.confirm.dr = next.dr
      BY <2>2, <2>4, <2>5, <2>8, ScheduleTxTries
    <3>6. sent \in MacTypes
      <4>1. Sound(next)
        BY NextTryAlike, AlikeKeeps DEF next, Heeded, Sound
      <4> QED
        BY <4>1, ScheduleTxSound DEF Sound
    <3> HIDE DEF sent, flags
    <3>7. /\ again.frame = sent.frame /\ again.dr = sent.dr
          /\ again.radio = sent.radio /\ again.confirm = sent.confirm
          /\ again.state = sent.state /\ SameTry(again, sent)
      BY <3>6 DEF MacTypes, SameTry
    <3> HIDE DEF again
    <3>8. /\ again.ackCnt = m.ackCnt + 1 /\ again.ackRetries = NbTrials
          /\ again.dr = Lowered(base, m.ackCnt) /\ AwaitsAir(again)
          /\ again.radio = "TX" => again.confirm.dr = again.dr
          /\ again.frame = m.frame
      BY <2>5, <2>6, <3>2, <3>4, <3>5, <3>7 DEF SameTry, AwaitsAir
    <3>9. /\ m.ackCnt + 1 >= 1 /\ m.ackCnt + 1 <= NbTrials
          /\ n = (m.ackCnt + 1) - 1
          /\ (m.ackCnt + 1) - 1 = m.ackCnt
      BY <2>8, <3>2
    <3>10. Retrying(again, n, base)
      BY <3>8, <3>9 DEF Retrying
    <3> QED
      BY <2>2, <3>1, <3>8, <3>10 DEF Trying
  <2> HIDE DEF again
  <2> QED
    BY <2>1, <2>3, <2>4, <2>5, <2>7, <2>8
<1> QED
  BY <1>2, <1>3

LEMMA EventBlockTries ==
  ASSUME NEW m, Finished(m), NEW kind, NEW n, NEW base,
         Trying(m, kind, n, base)
  PROVE  Trying(EventBlock(m), kind, n, base) /\ EventBlock(m) \in MacTypes
<1>1. m \in MacTypes
  BY DEF Finished, Sound
<1>2. EventBlock(m) \in MacTypes
  BY EventBlockSettled DEF Finished, Settled, Sound
<1>3. CASE m.state # {}
  <2> DEFINE r == Start(m, {"StateCheck"})
  <2>1. EventBlock(m) = r
    BY <1>3 DEF EventBlock
  <2>2. /\ r.state = m.state /\ r.flags = m.flags /\ r.frame = m.frame
        /\ r.dr = m.dr /\ r.radio = m.radio /\ r.retry = m.retry
        /\ r.confirm = m.confirm /\ SameTry(r, m)
    BY <1>1 DEF MacTypes, SameTry, Start
  <2> HIDE DEF r
  <2>3. Trying(r, kind, n, base)
    BY <2>2, TryingStays DEF Open, AwaitsAir, Busy
  <2> QED
    BY <1>2, <2>1, <2>3
<1>4. CASE m.state = {}
  <2> DEFINE flags == m.flags \ {"McpsReq", "MacDone"}
             r == [m EXCEPT !.flags = flags]
             done == HandleCb(r.queue, r.mlme)
             left == IF done.queue.cnt > 0
                     THEN r.flags ELSE r.flags \ {"MlmeReq"}
             s == [r EXCEPT !.queue = done.queue, !.mlme = done.conf,
                            !.flags = left]
  <2>1. EventBlock(m) \in {r, s}
    BY <1>4 DEF EventBlock, ConfirmMcps, ConfirmMlme
  <2>2. r.flags = flags /\ DOMAIN r = DOMAIN m
    BY <1>1 DEF MacTypes
  <2> HIDE DEF r
  <2>3. left \subseteq flags
    BY <2>2
  <2> HIDE DEF done, left
  <2>4. s.flags = left
    BY <1>1, <2>2 DEF MacTypes
  <2> HIDE DEF s
  <2>5. "McpsReq" \notin EventBlock(m).flags
    BY <2>1, <2>2, <2>3, <2>4
  <2> QED
    BY <1>2, <2>5 DEF Trying, Open
<1> QED
  BY <1>3, <1>4

LEMMA IndicationBlockTries ==
  ASSUME Class = "A", NEW m \in MacTypes, NEW kind, NEW n, NEW base,
         Trying(m, kind, n, base)
  PROVE  Trying(IndicationBlock(m), kind, n, base)
<1> DEFINE flags == m.flags \ {"McpsInd", "McpsIndSkip"}
           r == [m EXCEPT !.flags = flags]
<1>1. IndicationBlock(m) \in {m, r}
  BY DEF IndicationBlock, Rest
<1>2. "McpsReq" \in flags <=> "McpsReq" \in m.flags
  OBVIOUS
<1> HIDE DEF flags
<1>3. /\ r.state = m.state /\ r.flags = flags /\ r.frame = m.frame
      /\ r.dr = m.dr /\ r.radio = m.radio /\ r.retry = m.retry
      /\ r.confirm = m.confirm /\ SameTry(r, m)
  BY DEF MacTypes, SameTry
<1> HIDE DEF r
<1>4. Trying(r, kind, n, base)
  BY <1>2, <1>3, TryingStays DEF Open, AwaitsAir, Busy
<1> QED
  BY <1>1, <1>4

LEMMA DoneBlockTries ==
  ASSUME NEW m, Due(m), "McpsReq" \in m.flags, "MlmeReq" \notin m.flags,
         NEW kind, NEW n \in Nat, NEW base, n > 0 => base \in Nat,
         Trying(m, kind, n, base), NEW c \in Choices
  PROVE  Trying(DoneBlock(m, c), kind, n, base)
<1> DEFINE m1 == AbortBlock(m)
           m2 == TxTimeoutBlock(m1)
           m3 == UnacknowledgedBlock(m2, c)
           m4 == ReceivedBlock(m3)
<1>1. Midway(m1) /\ m1.flags = m.flags /\ Trying(m1, kind, n, base)
  <2>1. m1.flags = m.flags
    BY DEF AbortBlock, Due, Sound, MacTypes
  <2> QED
    BY <2>1, AbortBlockMidway, AbortBlockTries
<1> HIDE DEF m1
<1>2. Midway(m2) /\ m2.flags = m.flags /\ Trying(m2, kind, n, base)
  BY <1>1, TxTimeoutBlockMidway, TxTimeoutBlockTries
<1> HIDE DEF m2
<1>3. Judged(m3) /\ Trying(m3, kind, n, base)
  BY <1>2, UnacknowledgedBlockJudged, UnacknowledgedBlockTries
<1> HIDE DEF m3
<1>4. Heeded(m4) /\ Trying(m4, kind, n, base)
  BY <1>3, ReceivedBlockHeeded, ReceivedBlockTries
<1> HIDE DEF m4
<1>5. Trying(RetryBlock(m4, c), kind, n, base)
  BY <1>4, RetryBlockTries
<1> QED
  BY <1>5 DEF DoneBlock, m1, m2, m3, m4

LEMMA OnMacStateCheckTries ==
  ASSUME Class = "A", NEW m, ~(Asking \subseteq m.flags),
         NEW kind, NEW n \in Nat, NEW base, n > 0 => base \in Nat,
         Trying(m, kind, n, base), NEW c \in Choices,
         Due(m) \/ ("MacDone" \notin m.flags /\ Settled(m) /\ Between(m))
  PROVE  Trying(OnMacStateCheck(m, c), kind, n, base)
<1> DEFINE timers == m.timers \ {"StateCheck"}
           s == [m EXCEPT !.timers = timers]
           d == IF "MacDone" \in m.flags THEN DoneBlock(s, c) ELSE s
           e == EventBlock(d)
<1>1. CASE "McpsReq" \notin m.flags
  <2>1. Told(OnMacStateCheck(m, c), m)
    BY OnMacStateCheckTold DEF Settled
  <2> QED
    BY <1>1, <2>1 DEF Trying, Open, Told
<1>2. CASE "McpsReq" \in m.flags
  <2>1. "MlmeReq" \notin m.flags
    BY <1>2 DEF Asking
  <2>2. Stop(m, {"StateCheck"}) = s
    BY DEF Stop
  <2>3. Sound(m) /\ m \in MacTypes
    BY DEF Due, Settled, Sound
  <2>4. Sound(s)
    BY <2>2, <2>3, StopSound DEF Timers
  <2>5. timers \cap {"Rx1", "Rx2"} = m.timers \cap {"Rx1", "Rx2"}
    OBVIOUS
  <2> HIDE DEF timers
  <2>6. /\ s.timers = timers
        /\ s.flags = m.flags /\ s.state = m.state /\ s.radio = m.radio
        /\ s.cut = m.cut /\ s.slot = m.slot /\ s.confirm = m.confirm
        /\ s.queue = m.queue /\ s.retry = m.retry /\ s.nodeAck = m.nodeAck
        /\ s.frame = m.frame /\ s.off = m.off /\ s.joined = m.joined
        /\ s.dr = m.dr /\ SameTry(s, m)
    BY <2>3 DEF MacTypes, SameTry
  <2>7. OnMacStateCheck(m, c) = IndicationBlock(e)
    BY <2>2 DEF OnMacStateCheck
  <2> HIDE DEF s
  <2>8. Kept(m) => Kept(s)
    BY <2>5, <2>6 DEF Kept, Aired, InTurn, NoTimeout, Owned, Busy, Quiet,
                      Sendable
  <2>9. Trying(s, kind, n, base)
    BY <2>6, TryingStays DEF Open, AwaitsAir, Busy
  <2>10. Finished(d) /\ Trying(d, kind, n, base)
    <3>1. CASE Due(m)
      <4>1. Due(s)
        BY <2>4, <2>6, <2>8, <3>1 DEF Due, Answered
      <4> QED
        BY <1>2, <2>1, <2>6, <2>9, <3>1, <4>1, DoneBlockFinished,
           DoneBlockTries DEF Due
    <3>2. CASE "MacDone" \notin m.flags /\ Settled(m) /\ Between(m)
      <4>1. Finished(s)
        BY <2>4, <2>6, <2>8, <3>2
           DEF Finished, Settled, Calm, Between, Busy, Kept, Owned
      <4> QED
        BY <2>9, <3>2, <4>1
    <3> QED
      BY <3>1, <3>2
  <2> HIDE DEF d
  <2>11. Trying(e, kind, n, base) /\ e \in MacTypes
    BY <2>10, EventBlockTries
  <2> HIDE DEF e
  <2> QED
    BY <2>7, <2>11, IndicationBlockTries
<1> QED
  BY <1>1, <1>2

-----------------------------------------------------------------------------
(* OnRadioRxDone: the transmission is over, and counted as it was.         *)

LEMMA SameWorkTries ==
  ASSUME NEW m, Ready(m), NEW r, Due(r), SameWork(r, m),
         NEW kind, NEW n, NEW base, Trying(m, kind, n, base)
  PROVE  Trying(r, kind, n, base)
<1>1. Open(r) => Open(m)
  BY DEF Open, SameWork, Ready, Busy
<1>2. /\ m.radio = "IDLE" /\ "TX_DELAYED" \notin m.state
      /\ r.radio = "IDLE" /\ "TX_DELAYED" \notin r.state
  BY DEF Ready, Quiet, Due, Kept, InTurn
<1>3. ~AwaitsAir(m) /\ ~AwaitsAir(r) /\ r.radio # "TX"
  BY <1>2 DEF AwaitsAir
<1> QED
  BY <1>1, <1>3, TryingStays DEF SameWork

LEMMA OnRadioRxDoneTries ==
  ASSUME Class = "A", NEW m, Ready(m), ~(Asking \subseteq m.flags),
         NEW kind, NEW n \in Nat, NEW base, n > 0 => base \in Nat,
         Trying(m, kind, n, base), NEW c \in Choices
  PROVE  /\ Trying(RxDoneAbort(m, c), kind, n, base)
         /\ Trying(RxEnd(m, c), kind, n, base)
<1>1. ASSUME NEW r, Due(r), SameWork(r, m)
      PROVE  Trying(OnMacStateCheck(r, c), kind, n, base)
  <2>1. Trying(r, kind, n, base)
    BY <1>1, SameWorkTries
  <2>2. ~(Asking \subseteq r.flags)
    BY <1>1 DEF SameWork, Asking
  <2> QED
    BY <1>1, <2>1, <2>2, OnMacStateCheckTries
<1>2. Trying(RxDoneAbort(m, c), kind, n, base)
  <2>1. PICK r : /\ RxDoneAbort(m, c) = OnMacStateCheck(r, c)
                 /\ Due(r) /\ SameWork(r, m)
    BY RxDoneAbortDue
  <2> QED
    BY <1>1, <2>1
<1>3. Trying(RxEnd(m, c), kind, n, base)
  <2>1. CASE RxEnd(m, c) = m
    BY <2>1
  <2>2. CASE RxEnd(m, c) # m
    <3>1. PICK r : /\ RxEnd(m, c) = OnMacStateCheck(r, c)
                   /\ Due(r) /\ SameWork(r, m)
      BY <2>2, RxEndDue
    <3> QED
      BY <1>1, <3>1
  <2> QED
    BY <2>1, <2>2
<1> QED
  BY <1>2, <1>3

-----------------------------------------------------------------------------
(* The actions.                                                            *)

Tries(m, h) == Trying(m, h.kind, Len(h.drs), h.drs[1])

LEMMA Sent ==
  ASSUME NEW h \in HistTypes
  PROVE  Len(h.drs) \in Nat /\ (Len(h.drs) > 0 => h.drs[1] \in Nat)
BY DEF HistTypes

(* A callback that neither sends nor judges.                               *)
LEMMA WaitingTries ==
  ASSUME NEW m, Between(m), NEW h, Tries(m, h), NEW r,
         r.flags \cap Asking = m.flags \cap Asking, r.state = m.state,
         r.frame = m.frame, r.dr = m.dr, SameTry(r, m),
         m.radio # "TX", r.radio # "TX"
  PROVE  Tries(r, h)
<1>1. "McpsReq" \in r.flags <=> "McpsReq" \in m.flags
  BY AskingFlags
<1>2. Open(r) => Open(m)
  BY <1>1 DEF Open, Between
<1>3. AwaitsAir(r) <=> AwaitsAir(m)
  BY DEF AwaitsAir
<1> QED
  BY <1>2, <1>3, TryingStays DEF Tries

LEMMA WindowTries ==
  ASSUME Class = "A", mac \in MacTypes, Between(mac), Tries(mac, hist),
         \/ OnRxWindow1TimerEvent \/ OnRxWindow2TimerEvent
         \/ OnAckTimeoutTimerEvent
  PROVE  Tries(mac', hist) /\ hist' = hist
<1> DEFINE cut == mac.cut \/ mac.radio \in {"TX", "CW"}
           one == mac.timers \ {"Rx1"}
           two == mac.timers \ {"Rx2"}
           none == mac.timers \ {"AckTimeout"}
           retry == mac.retry \/ mac.nodeAck
           first == [mac EXCEPT !.radio = "RX_SINGLE", !.cut = cut,
                                !.timers = one, !.slot = "WIN_1"]
           missed == [mac EXCEPT !.timers = two]
           second == [mac EXCEPT !.timers = two, !.radio = "RX_SINGLE",
                                 !.slot = "WIN_2"]
           over == [mac EXCEPT !.timers = none, !.retry = retry]
           Same(r) == /\ r.flags = mac.flags /\ r.state = mac.state
                      /\ r.frame = mac.frame /\ r.dr = mac.dr
                      /\ SameTry(r, mac)
<1>1. hist' = hist
  BY DEF OnRxWindow1TimerEvent, OnRxWindow2TimerEvent, OnAckTimeoutTimerEvent
<1>2. OnRxWindow1TimerEvent => mac' = first /\ "Rx1" \in mac.timers
  BY DEF OnRxWindow1TimerEvent, RxWindow1, RadioTo, MacTypes
<1>3. OnRxWindow2TimerEvent =>
        mac' \in {missed, second} /\ "Rx2" \in mac.timers
  BY DEF OnRxWindow2TimerEvent, RxWindow2, Stop, MacTypes
<1>4. OnAckTimeoutTimerEvent => mac' = over
  BY DEF OnAckTimeoutTimerEvent, OnAckTimeout, Stop, MacTypes
<1> HIDE DEF cut, one, two, none, retry
<1>5. Same(first) /\ first.radio = "RX_SINGLE"
  BY DEF MacTypes, SameTry
<1>6. Same(missed) /\ missed.radio = mac.radio
  BY DEF MacTypes, SameTry
<1>7. Same(second) /\ second.radio = "RX_SINGLE"
  BY DEF MacTypes, SameTry
<1>8. Same(over) /\ over.radio = mac.radio /\ over.confirm = mac.confirm
  BY DEF MacTypes, SameTry
<1> HIDE DEF first, missed, second, over
<1>9. CASE OnRxWindow1TimerEvent \/ OnRxWindow2TimerEvent
  <2>1. mac.radio # "TX"
    BY <1>2, <1>3, <1>9 DEF Between, Kept, Aired
  <2>2. Same(mac') /\ mac'.radio # "TX"
    BY <1>2, <1>3, <1>5, <1>6, <1>7, <1>9, <2>1
  <2> QED
    BY <1>1, <2>1, <2>2, WaitingTries
<1>10. CASE OnAckTimeoutTimerEvent
  <2>1. Open(over) => Open(mac)
    BY <1>8 DEF Open, Between
  <2>2. AwaitsAir(over) <=> AwaitsAir(mac)
    BY <1>8 DEF AwaitsAir
  <2>3. Tries(over, hist)
    BY <1>8, <2>1, <2>2, TryingStays DEF Tries
  <2> QED
    BY <1>1, <1>4, <1>10, <2>3
<1> QED
  BY <1>9, <1>10

LEMMA RxFailedTries ==
  ASSUME Class = "A", mac \in MacTypes, Between(mac), Tries(mac, hist),
         NEW idle \in BOOLEAN, NEW late \in BOOLEAN,
         OnRadioRxFailed(idle, late)
  PROVE  Tries(mac', hist) /\ hist' = hist
<1> DEFINE confirm == [mac.confirm EXCEPT
                         !.status = IF mac.nodeAck THEN "RX_FAIL" ELSE @]
           queue == SetStatusCmn(mac.queue, "RX_FAIL")
           flags == mac.flags \cup {"MacDone"}
           failed == [mac EXCEPT !.radio = IF idle THEN "IDLE" ELSE @,
                                 !.confirm = confirm, !.queue = queue]
           stopped == [failed EXCEPT !.timers = @ \ {"Rx2"}]
           over == [failed EXCEPT !.flags = @ \cup {"MacDone"}]
           both == [stopped EXCEPT !.flags = @ \cup {"MacDone"}]
           Same(r) == /\ r.state = mac.state /\ r.frame = mac.frame
                      /\ r.dr = mac.dr /\ r.radio \in {"IDLE", mac.radio}
                      /\ SameTry(r, mac)
<1>1. mac' \in {failed, over, both} /\ hist' = hist /\ mac.radio # "TX"
  <2>1. [mac EXCEPT !.radio = IF idle THEN "IDLE" ELSE @,
                    !.confirm.status = IF mac.nodeAck THEN "RX_FAIL" ELSE @,
                    !.queue = SetStatusCmn(@, "RX_FAIL")] = failed
    BY DEF MacTypes
  <2> HIDE DEF failed
  <2> QED
    BY <2>1 DEF OnRadioRxFailed, Stop, Raise
<1> HIDE DEF confirm, queue
<1>2. Same(failed) /\ failed.flags = mac.flags /\ DOMAIN failed = DOMAIN mac
  BY DEF MacTypes, SameTry
<1> HIDE DEF failed
<1>3. Same(stopped) /\ stopped.flags = mac.flags
      /\ DOMAIN stopped = DOMAIN mac
  BY <1>2 DEF MacTypes, SameTry
<1> HIDE DEF stopped
<1>4. Same(over) /\ over.flags = flags
  BY <1>2 DEF MacTypes, SameTry
<1>5. Same(both) /\ both.flags = flags
  BY <1>3 DEF MacTypes, SameTry
<1> HIDE DEF over, both
<1>6. flags \cap Asking = mac.flags \cap Asking
  BY DEF Asking
<1> HIDE DEF flags
<1>7. Same(mac') /\ mac'.flags \cap Asking = mac.flags \cap Asking
  BY <1>1, <1>2, <1>4, <1>5, <1>6
<1>8. mac'.radio # "TX"
  BY <1>1, <1>7
<1> QED
  BY <1>1, <1>7, <1>8, WaitingTries

LEMMA TxDelayedTries ==
  ASSUME Settled(mac), Between(mac), NEW c \in Choices, Counting(mac),
         OnTxDelayedTimerEvent(c), Tries(mac, hist),
         mac'.flags = mac.flags
  PROVE  Tries(mac', hist) /\ hist' = hist
<1>1. /\ mac \in MacTypes /\ mac' = OnTxDelayed(mac, c) /\ hist' = hist
      /\ "TX_DELAYED" \in mac.state
  BY DEF Settled, Sound, OnTxDelayedTimerEvent
<1>2. CASE JoinRequested(mac)
  <2>1. "McpsReq" \notin mac'.flags
    BY <1>2 DEF JoinRequested, Counting, Asking
  <2> QED
    BY <1>1, <2>1 DEF Tries, Trying, Open
<1>3. CASE ~JoinRequested(mac)
  <2>1. Sendable(mac) /\ Busy(mac) /\ mac.radio = "IDLE"
    BY <1>1 DEF Between, Kept, InTurn, Busy, Quiet
  <2>2. /\ SameTry(mac', mac) /\ mac'.dr = mac.dr /\ mac'.frame = mac.frame
        /\ AwaitsAir(mac')
        /\ mac'.radio = "TX" => mac'.confirm.dr = mac.dr
    BY <1>1, <1>3, <2>1, SentAgainTries
  <2>3. AwaitsAir(mac) /\ (Open(mac') => Open(mac))
    BY <1>1, <2>1 DEF AwaitsAir, Open
  <2> QED
    BY <1>1, <2>2, <2>3, TryingStays DEF Tries
<1> QED
  BY <1>2, <1>3

LEMMA StateCheckTries ==
  ASSUME Class = "A", Settled(mac), Between(mac), NEW c \in Choices,
         OnMacStateCheckTimerEvent(c), hist \in HistTypes,
         Counting(mac), Tries(mac, hist)
  PROVE  Tries(mac', hist) /\ hist' = hist
<1>1. mac' = OnMacStateCheck(mac, c) /\ hist' = hist
  BY DEF OnMacStateCheckTimerEvent
<1>2. "MacDone" \in mac.flags => Due(mac)
  BY DEF Settled, Calm, Between, Busy, Due, Answered
<1>3. ~(Asking \subseteq mac.flags)
  BY DEF Counting
<1> QED
  BY <1>1, <1>2, <1>3, Sent, OnMacStateCheckTries DEF Tries

LEMMA RxDoneTries ==
  ASSUME ClassAOnly, DrKept, Settled(mac), Between(mac), ~mac.ackStale,
         NEW f \in Downlinks, NEW c \in Choices, OnRadioRxDoneEvent(f, c),
         hist \in HistTypes,
         Counting(mac), Tries(mac, hist)
  PROVE  /\ Tries(mac', hist')
         /\ hist'.kind = hist.kind /\ hist'.drs = hist.drs
<1>1. f \in Frames /\ f.kind # "UNKNOWN" /\ Class = "A"
  BY ChoiceAssumption DEF ClassAOnly
<1>2. mac.radio = "RX_SINGLE"
  BY DEF OnRadioRxDoneEvent, Between, Kept, Aired
<1>3. f.kind = "DATA" => mac.frame.kind # "JOIN"
  BY <1>1 DEF OnRadioRxDoneEvent, ServerMayAnswer
<1>4. /\ hist'.kind = hist.kind /\ hist'.drs = hist.drs
      /\ mac' = OnRadioRxDone(mac, f, c)
  BY DEF OnRadioRxDoneEvent, HistTypes
<1>5. PICK n : /\ Ready(n) /\ Begun(n, mac)
               /\ mac' = RxDoneAbort(n, c) \/ mac' = RxEnd(n, c)
  <2>1. DrKept => f.cmd # "ADR_LOWEST"
    BY DEF DrKept
  <2> QED
    BY <1>1, <1>2, <1>3, <1>4, <2>1, OnRadioRxDoneBegun
<1>6. Tries(n, hist)
  <2>1. n.radio # "TX" /\ mac.radio # "TX"
    BY <1>2, <1>5 DEF Ready, Quiet
  <2> QED
    BY <1>5, <2>1, WaitingTries DEF Begun
<1>7. ~(Asking \subseteq n.flags)
  BY <1>5 DEF Counting, Begun, Asking
<1>8. Tries(mac', hist)
  BY <1>1, <1>5, <1>6, <1>7, Sent, OnRadioRxDoneTries DEF Tries
<1> QED
  BY <1>4, <1>8 DEF Tries

(* A request begins with nothing sent and the counters at their start.     *)
LEMMA McpsRequestTries ==
  ASSUME Settled(mac), hist \in HistTypes, Between(mac), Tries(mac, hist),
         NEW type \in McpsTypes, NEW long \in BOOLEAN, NEW c \in Choices,
         McpsRequest(type, long, c)
  PROVE  /\ Tries(mac', hist')
         /\ \/ hist' = hist
            \/ hist'.drs = <<>>
<1> DEFINE confirm == [type |-> "UNCONFIRMED", status |-> "ERROR",
                       ack |-> FALSE, dr |-> 0]
           retries == IF type = "CONFIRMED" THEN NbTrials ELSE 1
           dr == IF AdrOn THEN mac.dr ELSE DefaultDr
           fresh == [mac EXCEPT !.confirm = confirm, !.ackCnt = 1,
                                !.ackRetries = retries, !.dr = dr]
           frame == IF Buildable(fresh, type)
                    THEN [kind |-> type, fcnt |-> fresh.upCnt,
                          req |-> hist.reqs + 1, long |-> long]
                    ELSE NoFrame
           acked == type = "CONFIRMED"
           built == [fresh EXCEPT !.nodeAck = acked, !.frame = frame]
           sent  == ScheduleTx(built, c)
           ok    == [Raise(sent, {"McpsReq"}) EXCEPT !.confirm.type = type]
           no    == [built EXCEPT !.nodeAck = FALSE]
           next  == [hist EXCEPT !.reqs = @ + 1, !.kind = type,
                                 !.drs = <<>>, !.acked = FALSE]
<1>1. /\ mac \in MacTypes /\ Sound(mac) /\ ~Busy(mac)
      /\ mac.radio = "IDLE" /\ "McpsReq" \notin mac.flags
      /\ type \in McpsKinds
  BY ChoiceAssumption
     DEF Settled, Sound, McpsRequest, Between, Busy, Kept, InTurn, Quiet,
         McpsKinds
<1>2. \/ /\ mac' = ok /\ hist' = next
         /\ Buildable(fresh, type) /\ Sendable(built)
      \/ mac' = no /\ hist' = hist
  <2>1. built = PrepareFrame(fresh, type, hist.reqs + 1, long)
    BY DEF PrepareFrame
  <2> HIDE DEF built
  <2> QED
    BY <2>1 DEF McpsRequest
<1>3. /\ retries \in Nat /\ dr \in Datarates
      /\ confirm \in McpsConfirms
      /\ type = "CONFIRMED" => retries = NbTrials
  BY <1>1, CountAssumption, DatarateAssumption, QueueAssumption
     DEF MacTypes, McpsConfirms, McpsKinds
<1> HIDE DEF retries, dr, confirm
<1>4. /\ Alike(fresh, mac)
      /\ fresh.radio = mac.radio
      /\ fresh.ackCnt = 1 /\ fresh.ackRetries = retries
  BY <1>1, <1>3 DEF Alike, MacTypes
<1> HIDE DEF fresh
<1>5. Alike(built, fresh)
  <2>1. built = PrepareFrame(fresh, type, hist.reqs + 1, long)
    BY DEF PrepareFrame
  <2>2. hist.reqs + 1 \in Nat
    BY DEF HistTypes
  <2> QED
    BY <1>1, <1>4, <2>1, <2>2, PrepareFrameAlike DEF Alike
<1>6. Buildable(fresh, type) => frame.kind = type
  OBVIOUS
<1> HIDE DEF frame, acked
<1>7. /\ built.frame = frame /\ built.radio = fresh.radio
      /\ built.ackCnt = 1 /\ built.ackRetries = retries
  BY <1>4 DEF Alike, MacTypes
<1>8. built \in MacTypes /\ Sound(built) /\ built.flags = mac.flags
  BY <1>1, <1>4, <1>5, AlikeKeeps DEF Alike
<1> HIDE DEF built
<1>9. CASE mac' = no /\ hist' = hist
  <2>1. no.flags = mac.flags
    BY <1>8 DEF MacTypes
  <2> HIDE DEF no
  <2> QED
    BY <1>1, <1>9, <2>1 DEF Tries, Trying, Open
<1>10. CASE /\ mac' = ok /\ hist' = next
            /\ Buildable(fresh, type) /\ Sendable(built)
  <2>1. /\ SameTry(sent, built) /\ sent.dr = built.dr
        /\ sent.frame = built.frame /\ AwaitsAir(sent)
        /\ sent.radio = "TX" => sent.confirm.dr = built.dr
    BY <1>1, <1>4, <1>7, <1>8, <1>10, ScheduleTxTries
  <2>2. sent \in MacTypes /\ sent.nbRep \in Nat
    BY <1>8, ScheduleTxSound DEF Sound, MacTypes
  <2> HIDE DEF sent
  <2> DEFINE flags == sent.flags \cup {"McpsReq"}
             typed == [sent.confirm EXCEPT !.type = type]
             done == [sent EXCEPT !.flags = flags, !.confirm = typed]
  <2>3. ok = done
    BY <2>2 DEF Raise, MacTypes
  <2>4. typed.dr = sent.confirm.dr
    BY <2>2 DEF MacTypes, McpsConfirms
  <2> HIDE DEF ok, flags, typed
  <2>5. /\ done.state = sent.state /\ done.radio = sent.radio
        /\ done.frame = sent.frame /\ done.dr = sent.dr
        /\ done.confirm = typed /\ SameTry(done, sent)
    BY <2>2 DEF MacTypes, SameTry
  <2> HIDE DEF done
  <2>6. next.drs = <<>> /\ next.kind = type
    BY DEF HistTypes
  <2> HIDE DEF next
  <2>7. /\ done.frame.kind = type
        /\ done.ackCnt = 1 /\ done.ackRetries = retries
        /\ AwaitsAir(done)
        /\ done.radio = "TX" => done.confirm.dr = done.dr
        /\ done.nbRep = sent.nbRep
    BY <1>6, <1>7, <1>10, <2>1, <2>4, <2>5 DEF SameTry, AwaitsAir
  <2>8. Len(next.drs) = 0
    BY <2>6
  <2>9. type = "UNCONFIRMED" => Repeating(done, 0)
    BY <2>2, <2>7, CountAssumption DEF Repeating
  <2>10. type = "CONFIRMED" => Retrying(done, 0, next.drs[1])
    BY <1>3, <2>7, CountAssumption DEF Retrying
  <2>11. Tries(done, next)
    BY <2>6, <2>7, <2>8, <2>9, <2>10 DEF Tries, Trying
  <2> QED
    BY <1>10, <2>3, <2>6, <2>11
<1> QED
  BY <1>2, <1>9, <1>10

LEMMA AppendedDr ==
  ASSUME NEW drs \in Seq(Nat), NEW d \in Nat
  PROVE  LET s == Append(drs, d)
         IN  /\ Len(s) = Len(drs) + 1
             /\ \A i \in 1 .. Len(drs) : s[i] = drs[i]
             /\ s[Len(drs) + 1] = d
OBVIOUS

(* The frame leaves the radio at the datarate the table gives its number.  *)
LEMMA TxDoneTries ==
  ASSUME Class = "A", Settled(mac), Between(mac), hist \in HistTypes,
         OnRadioTxDone, Counting(mac), Tries(mac, hist), RetryTable
  PROVE  Tries(mac', hist') /\ RetryTable'
<1> DEFINE timers == mac.timers \cup {"Rx1"}
                       \cup (IF Class = "A" THEN {"Rx2"} ELSE {})
                       \cup (IF Class = "C" \/ mac.nodeAck
                             THEN {"AckTimeout"} ELSE {})
           confirm == [mac.confirm EXCEPT
                         !.status = IF mac.nodeAck THEN @ ELSE "OK"]
           nbRep == IF mac.nodeAck THEN mac.nbRep ELSE mac.nbRep + 1
           idle == [mac EXCEPT !.radio = "IDLE"]
           stale == mac.ackStale /\ ~(Class = "C" \/ mac.nodeAck)
           r == [idle EXCEPT !.timers = timers, !.ackStale = stale,
                             !.confirm = confirm, !.nbRep = nbRep]
           data == mac.frame.kind \in {"CONFIRMED", "UNCONFIRMED"}
           n == Len(hist.drs)
           d == mac.confirm.dr
           drs == Append(hist.drs, d)
<1>1. mac \in MacTypes /\ d \in Nat
  BY DEF Settled, Sound, MacTypes, McpsConfirms
<1>2. mac' = r /\ mac.radio = "TX"
  BY <1>1 DEF OnRadioTxDone, Rest, MacTypes
<1>3. nbRep = IF mac.nodeAck THEN mac.nbRep ELSE mac.nbRep + 1
  OBVIOUS
<1> HIDE DEF timers, confirm, nbRep, stale
<1>4. /\ idle.flags = mac.flags /\ idle.state = mac.state
      /\ idle.frame = mac.frame /\ idle.dr = mac.dr /\ idle.radio = "IDLE"
      /\ idle.ackCnt = mac.ackCnt /\ idle.ackRetries = mac.ackRetries
      /\ idle.retry = mac.retry
      /\ DOMAIN idle = DOMAIN mac
  BY <1>1 DEF MacTypes
<1> HIDE DEF idle
<1>5. /\ r.flags = mac.flags /\ r.state = mac.state
      /\ r.frame = mac.frame /\ r.dr = mac.dr /\ r.radio = "IDLE"
      /\ r.ackCnt = mac.ackCnt /\ r.ackRetries = mac.ackRetries
      /\ r.retry = mac.retry /\ r.nbRep = nbRep
  BY <1>1, <1>4 DEF MacTypes
<1> HIDE DEF r
<1>6. /\ "TX_RUNNING" \in mac.state /\ "TX_DELAYED" \notin mac.state
      /\ Busy(mac)
  BY <1>2, OpenWindow DEF Busy
<1>7. /\ AwaitsAir(mac) /\ ~AwaitsAir(r) /\ r.radio # "TX"
      /\ Open(r) => Open(mac)
  BY <1>2, <1>5, <1>6 DEF AwaitsAir, Open, Busy
<1>8. CASE ~data
  <2>1. hist' = hist
    BY <1>8 DEF OnRadioTxDone
  <2>2. Tries(r, hist)
    BY <1>5, <1>7, <1>8 DEF Tries, Trying
  <2> QED
    BY <1>2, <2>1, <2>2 DEF RetryTable
<1>9. CASE data
  <2>1. hist.kind \in McpsKinds \cup {"NONE"} /\ hist.drs \in Seq(Nat)
    BY DEF HistTypes
  <2>2. hist'.kind = hist.kind /\ hist'.drs = drs
    BY <1>9 DEF OnRadioTxDone, HistTypes
  <2>3. n \in Nat /\ (n > 0 => hist.drs[1] \in Nat)
    BY Sent
  <2>4. Open(mac)
    BY <1>6, <1>9 DEF Counting, Asking, Open
  <2>5. /\ mac.frame.kind = hist.kind
        /\ hist.kind = "UNCONFIRMED" => Repeating(mac, n)
        /\ hist.kind = "CONFIRMED" => Retrying(mac, n, hist.drs[1])
    BY <2>4 DEF Tries, Trying
  <2>6. /\ Len(drs) = n + 1
        /\ \A i \in 1 .. n : drs[i] = hist.drs[i]
        /\ drs[n + 1] = d
    BY <1>1, <2>1, AppendedDr
  <2> HIDE DEF drs, n
  <2>7. CASE hist.kind = "UNCONFIRMED"
    <3>1. ~mac.nodeAck
      BY <2>5, <2>7 DEF Between, Kept, Owned
    <3>2. n <= mac.nbRep /\ n < NbRep
      BY <1>7, <2>5, <2>7 DEF Repeating
    <3>3. mac.nbRep \in Nat /\ NbRep \in Nat
      BY <1>1, CountAssumption DEF MacTypes
    <3>4. n + 1 <= r.nbRep /\ n + 1 <= NbRep
      BY <1>3, <1>5, <2>3, <3>1, <3>2, <3>3
    <3>5. Repeating(r, n + 1)
      BY <1>7, <3>4 DEF Repeating
    <3>6. Tries(r, hist')
      BY <1>5, <2>2, <2>5, <2>6, <2>7, <3>5 DEF Tries, Trying
    <3>7. RetryTable'
      BY <2>2, <2>6, <2>7, <3>4 DEF RetryTable
    <3> QED
      BY <1>2, <3>6, <3>7
  <2>8. CASE hist.kind = "CONFIRMED"
    <3>1. /\ mac.ackRetries = NbTrials
          /\ mac.ackCnt >= 1 /\ mac.ackCnt <= NbTrials
          /\ n = mac.ackCnt - 1
          /\ n > 0 => mac.dr = Lowered(hist.drs[1], mac.ackCnt - 1)
          /\ d = mac.dr
      BY <1>2, <1>7, <2>5, <2>8 DEF Retrying
    <3>2. mac.ackCnt \in Nat /\ mac.dr \in Datarates /\ NbTrials \in Nat
          /\ MinDr \in Nat
      BY <1>1, CountAssumption, DatarateAssumption DEF MacTypes
    <3>3. /\ mac.ackCnt = n + 1 /\ mac.ackCnt - 1 = n /\ n + 1 <= NbTrials
      BY <2>3, <3>1, <3>2
    <3>4. d = Lowered(drs[1], n)
      <4>1. CASE n = 0
        <5>1. drs[1] = d /\ d - 0 \div 2 = d
          BY <1>1, <2>6, <4>1
        <5> QED
          BY <3>1, <3>2, <4>1, <5>1 DEF Lowered, Datarates
      <4>2. CASE n # 0
        <5>1. n > 0 /\ 1 \in 1 .. n
          BY <2>3, <4>2
        <5> QED
          BY <2>6, <3>1, <3>3, <5>1
      <4> QED
        BY <4>1, <4>2
    <3>5. Retrying(r, n + 1, drs[1])
      BY <1>5, <1>7, <3>1, <3>3, <3>4 DEF Retrying
    <3>6. Tries(r, hist')
      BY <1>5, <2>2, <2>5, <2>6, <2>8, <3>5 DEF Tries, Trying
    <3>7. ASSUME NEW i \in 1 .. n + 1
          PROVE  drs[i] = Lowered(drs[1], i - 1)
      <4>1. CASE i = n + 1
        <5>1. i - 1 = n
          BY <2>3, <4>1
        <5> QED
          BY <2>6, <3>4, <4>1, <5>1
      <4>2. CASE i # n + 1
        <5>1. i \in 1 .. n /\ 1 \in 1 .. n /\ n > 0
          BY <2>3, <3>7, <4>2
        <5>2. hist.drs[i] = Lowered(hist.drs[1], i - 1)
          BY <2>8, <5>1 DEF RetryTable, Lowered, n
        <5> QED
          BY <2>6, <5>1, <5>2
      <4> QED
        BY <4>1, <4>2
    <3>8. RetryTable'
      BY <2>2, <2>6, <2>8, <3>3, <3>7 DEF RetryTable, Lowered
    <3> QED
      BY <1>2, <3>6, <3>8
  <2> QED
    BY <1>9, <2>5, <2>7, <2>8
<1> QED
  BY <1>8, <1>9

-----------------------------------------------------------------------------
(* The inductive invariant.                                                *)

InvD ==
  /\ InvC
  /\ RetryApplies => Tries(mac, hist) /\ RetryTable

LEMMA InitInvD == Init => InvD
<1> SUFFICES ASSUME Init
             PROVE  Tries(mac, hist) /\ RetryTable
  BY InitInvC DEF InvD
<1>1. mac.flags = {} /\ Len(hist.drs) = 0
  BY DEF Init
<1> QED
  BY <1>1 DEF Tries, Trying, Open, RetryTable

LEMMA NextInvD == InvD /\ [Next]_vars => InvD'
<1> SUFFICES ASSUME InvD, [Next]_vars, RetryApplies
             PROVE  Tries(mac', hist') /\ RetryTable'
  BY NextInvC DEF InvD, RetryApplies, CountersApply, ClassAOnly, DrKept
<1>1. /\ ClassAOnly /\ Class = "A" /\ "LINK_CHECK" \notin Services /\ DrKept
      /\ Settled(mac) /\ mac \in MacTypes /\ hist \in HistTypes /\ Between(mac)
      /\ Counting(mac) /\ Chronicle(mac, hist)
      /\ Tries(mac, hist) /\ RetryTable /\ ~mac.ackStale
  BY DEF InvD, InvC, InvA, Inv, RetryApplies, CountersApply, ClassAOnly,
         Settled, Sound
<1>2. ASSUME Tries(mac', hist), hist' = hist
      PROVE  Tries(mac', hist') /\ RetryTable'
  BY <1>1, <1>2 DEF RetryTable
<1>3. ASSUME NEW c \in Choices, JoinRequest(c)
      PROVE  Tries(mac', hist) /\ hist' = hist
  <2>1. "McpsReq" \notin mac'.flags
    BY <1>1, <1>3, JoinRequestBetween
  <2> QED
    BY <1>3, <2>1 DEF JoinRequest, Tries, Trying, Open
<1>4. ASSUME NEW room \in BOOLEAN, LinkCheckRequest(room)
      PROVE  FALSE
  BY <1>1, <1>4 DEF LinkCheckRequest, MlmeAllowed
<1>5. ~ContinuousWaveRequest
  BY <1>1 DEF ContinuousWaveRequest, MlmeAllowed, ClassAOnly
<1>6. ASSUME NEW type \in McpsTypes, NEW long \in BOOLEAN, NEW c \in Choices,
             McpsRequest(type, long, c)
      PROVE  Tries(mac', hist') /\ RetryTable'
  <2>1. Tries(mac', hist') /\ (hist' = hist \/ hist'.drs = <<>>)
    BY <1>1, <1>6, McpsRequestTries
  <2> QED
    BY <1>1, <2>1 DEF RetryTable
<1>7. CASE OnRadioTxDone
  BY <1>1, <1>7, TxDoneTries
<1>8. ~OnRadioTxTimeout
  BY <1>1 DEF OnRadioTxTimeout, ClassAOnly, Between, Kept, Aired
<1>9. ASSUME NEW idle \in BOOLEAN, NEW late \in BOOLEAN,
             OnRadioRxFailed(idle, late)
      PROVE  Tries(mac', hist) /\ hist' = hist
  BY <1>1, <1>9, RxFailedTries
<1>10. ASSUME NEW f \in Downlinks, NEW c \in Choices, OnRadioRxDoneEvent(f, c)
       PROVE  Tries(mac', hist') /\ RetryTable'
  <2>1. Tries(mac', hist') /\ hist'.kind = hist.kind /\ hist'.drs = hist.drs
    BY <1>1, <1>10, RxDoneTries
  <2> QED
    BY <1>1, <2>1 DEF RetryTable
<1>11. CASE \/ OnRxWindow1TimerEvent \/ OnRxWindow2TimerEvent
            \/ OnAckTimeoutTimerEvent
  BY <1>1, <1>2, <1>11, WindowTries
<1>12. ASSUME NEW c \in Choices, OnTxDelayedTimerEvent(c)
       PROVE  Tries(mac', hist) /\ hist' = hist
  <2>1. mac'.flags = mac.flags
    <3>1. /\ mac' = OnTxDelayed(mac, c) /\ "TX_DELAYED" \in mac.state
          /\ Contiguous(mac.queue)
      BY <1>1, <1>12 DEF Settled, Sound, OnTxDelayedTimerEvent
    <3> QED
      BY <1>1, <3>1, SentAgainServes DEF Counting, Served, Between, Kept,
                                         InTurn, Busy
  <2> QED
    BY <1>1, <1>12, <2>1, TxDelayedTries
<1>13. ASSUME NEW c \in Choices, OnMacStateCheckTimerEvent(c)
       PROVE  Tries(mac', hist) /\ hist' = hist
  BY <1>1, <1>13, StateCheckTries
<1>14. CASE UNCHANGED vars
  BY <1>1, <1>14 DEF vars, RetryTable, Tries
<1> QED
  BY <1>2, <1>3, <1>4, <1>5, <1>6, <1>7, <1>8, <1>9, <1>10, <1>11, <1>12,
     <1>13, <1>14 DEF Next

(* How often and at what datarate the open request has been sent stands to *)
(* the counters of the record as InvD tells, in every reachable state.     *)
THEOREM InvarianceD == Spec => []InvD
<1>1. Init => InvD
  BY InitInvD
<1>2. InvD /\ [Next]_vars => InvD'
  BY NextInvD
<1> QED
  BY <1>1, <1>2, PTL DEF Spec

(* A class A device without link checks and without a datarate command: no *)
(* request is sent more often than NbTrials or ChannelsNbRep tells, and    *)
(* the datarates of a confirmed one are those of the table in LoRaMac.h,   *)
(* whatever windows abort, fail or time out between the transmissions.     *)
THEOREM RetriesAsTabled == Spec => [](RetryApplies => RetryTable)
<1>1. InvD => (RetryApplies => RetryTable)
  BY DEF InvD
<1> QED
  BY <1>1, InvarianceD, PTL
-----------------------------------------------------------------------------
(* The join request.  Between two callbacks the acknowledgement timer runs *)
(* only for an acknowledgement that is awaited, so that nothing keeps the  *)
(* callback that takes a join accept from closing the request: no request  *)
(* waits in a session, and no trial is prepared that would end it.         *)

Unjoined(m) == m.queue.cnt > 0 => ~m.joined

(* Inside a callback that found `n'.                                       *)
Underway(m, n) ==
  /\ Clocked(m) /\ Disarmed(m) /\ Matched(m)
  /\ m.joined = n.joined
  /\ m.queue.cnt = n.queue.cnt

(* A request that has succeeded is not sent again.                         *)
Met(m) == m.queue.cnt > 0 /\ m.joined => ~Busy(m)

LEMMA UnderwayStays ==
  ASSUME NEW n, NEW m, Underway(m, n), NEW r,
         r.timers \ {"StateCheck"} \subseteq m.timers,
         r.nodeAck = m.nodeAck, r.retry = m.retry,
         r.ackCnt = m.ackCnt, r.ackRetries = m.ackRetries,
         AwaitsAir(r) => AwaitsAir(m),
         r.confirm.ack => m.confirm.ack,
         r.mlme.request = m.mlme.request,
         r.queue = m.queue, r.joined = m.joined
  PROVE  Underway(r, n)
<1>1. "AckTimeout" \in r.timers => "AckTimeout" \in m.timers
  OBVIOUS
<1> QED
  BY <1>1 DEF Underway, Clocked, Disarmed, Matched

(* While a request of the other kind is open no request waits.             *)
LEMMA NoJoinWaits ==
  ASSUME NEW n, NEW m, Sound(m), Carried(m, n),
         "McpsReq" \in m.flags \/ "MlmeReq" \notin m.flags
  PROVE  ~(m.queue.cnt > 0)
BY DEF Sound, Carried, Asking

-----------------------------------------------------------------------------
(* Sending.                                                                *)

(* The queue after a frame is scheduled: what stands first may have got    *)
(* the common status.                                                      *)
SameFirst(q, p) ==
  /\ q.cnt = p.cnt
  /\ p.cnt > 0 => /\ First(q).request = First(p).request
                  /\ First(q).status \in {First(p).status, "ERROR"}

LEMMA SendFrameMatches ==
  ASSUME NEW m \in MacTypes, Contiguous(m.queue)
  PROVE  LET r == SendFrameOnChannel(m)
         IN  r.mlme = m.mlme /\ SameFirst(r.queue, m.queue)
<1> DEFINE s == RadioTo(m, "TX")
           confirm == [s.confirm EXCEPT !.status = "ERROR", !.dr = m.dr]
           queue == SetStatusCmn(s.queue, "ERROR")
           r == [s EXCEPT !.queue = queue,
                          !.confirm = confirm,
                          !.timers = @ \cup {"StateCheck"},
                          !.joinTrials = IF m.joined THEN @ ELSE @ + 1,
                          !.state = @ \cup {"TX_RUNNING"}]
<1>1. SendFrameOnChannel(m) = r
  BY DEF SendFrameOnChannel
<1>2. s \in MacTypes /\ s.queue = m.queue
  BY RadioToAlike DEF Radios, Alike
<1>3. s.mlme = m.mlme
  <2> DEFINE cut == m.cut \/ m.radio \in {"TX", "CW"}
  <2>1. s = [m EXCEPT !.radio = "TX", !.cut = cut]
    BY DEF RadioTo
  <2> HIDE DEF s, cut
  <2> QED
    BY <2>1 DEF MacTypes
<1> HIDE DEF s
<1>4. SameFirst(queue, m.queue)
  <2>1. m.queue \in Queues
    BY DEF MacTypes
  <2>2. queue.cnt = m.queue.cnt
    BY <1>2, <2>1, SetStatusCmnTypes, StatusAssumption
  <2> QED
    BY <1>2, <2>1, <2>2, FirstCommon DEF SameFirst
<1> HIDE DEF queue, confirm
<1>5. r.mlme = s.mlme /\ r.queue = queue
  BY <1>2 DEF MacTypes
<1> HIDE DEF r
<1> QED
  BY <1>1, <1>3, <1>4, <1>5

(* No timer of the acknowledgement is started.                             *)
LEMMA ScheduleTxMatches ==
  ASSUME NEW m \in MacTypes, Contiguous(m.queue), NEW c \in Choices
  PROVE  LET r == ScheduleTx(m, c)
         IN  /\ r.mlme = m.mlme /\ SameFirst(r.queue, m.queue)
             /\ r.joined = m.joined /\ r.nodeAck = m.nodeAck
             /\ r.retry = m.retry /\ r.ackCnt = m.ackCnt
             /\ r.ackRetries = m.ackRetries
             /\ r.confirm.ack = m.confirm.ack
             /\ "AckTimeout" \in r.timers => "AckTimeout" \in m.timers
<1> DEFINE put == [m EXCEPT !.state = @ \cup {"TX_DELAYED"},
                            !.timers = @ \cup {"TxDelayed"}]
           r == ScheduleTx(m, c)
<1>1. /\ ~Sendable(m) => r = m
      /\ Sendable(m) => r = put \/ r = SendFrameOnChannel(m)
  BY DEF ScheduleTx
<1>2. put.mlme = m.mlme /\ put.queue = m.queue
  BY DEF MacTypes
<1>3. Sendable(m) => OnAir(r, m) \/ PutOff(r, m)
  BY ScheduleTxCases
<1>4. SameFirst(m.queue, m.queue)
  BY DEF SameFirst
<1> HIDE DEF put
<1>5. r.mlme = m.mlme /\ SameFirst(r.queue, m.queue)
  BY <1>1, <1>2, <1>4, SendFrameMatches
<1> HIDE DEF r
<1>6. SameRequest(r, m)
  BY <1>1, <1>3 DEF OnAir, PutOff, SameRequest
<1>7. "AckTimeout" \in r.timers => "AckTimeout" \in m.timers
  BY <1>1, <1>3 DEF OnAir, PutOff
<1> QED
  BY <1>5, <1>6, <1>7 DEF SameRequest, r

LEMMA PrepareJoinMatches ==
  ASSUME NEW m \in MacTypes, NEW c \in Choices
  PROVE  PrepareJoin(m, c).mlme = m.mlme
<1> DEFINE r == [m EXCEPT
                   !.joined = FALSE, !.upCnt = 0, !.nbRep = 0,
                   !.ackRetries = 1, !.ackCnt = 1, !.retry = FALSE,
                   !.off = FALSE, !.nodeAck = FALSE, !.dr = c.joinDr]
           frame == [kind |-> "JOIN", fcnt |-> r.upCnt, req |-> 0,
                     long |-> FALSE]
           p == [r EXCEPT !.nodeAck = FALSE, !.frame = frame]
<1>1. [ResetMacParameters(m) EXCEPT !.dr = c.joinDr] = r
  BY DEF ResetMacParameters, MacTypes
<1>2. PrepareJoin(m, c) = p
  BY <1>1 DEF PrepareJoin, PrepareFrame, Buildable
<1>3. r.mlme = m.mlme /\ DOMAIN r = DOMAIN m
  BY DEF MacTypes
<1> HIDE DEF frame, r
<1>4. p.mlme = r.mlme
  BY <1>3 DEF MacTypes
<1> QED
  BY <1>2, <1>3, <1>4

(* A join trial starts afresh, any other frame keeps its request.          *)
LEMMA SentAgainMatches ==
  ASSUME NEW m \in MacTypes, Contiguous(m.queue), NEW c \in Choices
  PROVE  LET r == OnTxDelayed(m, c)
         IN  /\ r.mlme = m.mlme /\ SameFirst(r.queue, m.queue)
             /\ r.confirm.ack = m.confirm.ack
             /\ "AckTimeout" \in r.timers => "AckTimeout" \in m.timers
             /\ IF JoinRequested(m)
                THEN /\ r.joined = FALSE /\ r.nodeAck = FALSE
                     /\ r.retry = FALSE /\ r.ackCnt = r.ackRetries
                ELSE /\ r.joined = m.joined /\ r.nodeAck = m.nodeAck
                     /\ r.retry = m.retry /\ r.ackCnt = m.ackCnt
                     /\ r.ackRetries = m.ackRetries
<1> DEFINE state == m.state \ {"TX_DELAYED"}
           timers == m.timers \ {"TxDelayed"}
           due == [m EXCEPT !.timers = timers, !.state = state]
           frame == IF JoinRequested(due) THEN PrepareJoin(due, c) ELSE due
           r == ScheduleTx(frame, c)
<1>1. OnTxDelayed(m, c) = r
  BY DEF OnTxDelayed, Stop, MacTypes
<1>2. /\ state \in SUBSET States /\ timers \in SUBSET Timers
      /\ "AckTimeout" \in timers => "AckTimeout" \in m.timers
  BY DEF MacTypes
<1> HIDE DEF state, timers
<1>3. /\ due \in MacTypes
      /\ due.timers = timers /\ due.flags = m.flags
      /\ due.joined = m.joined /\ due.queue = m.queue
      /\ due.mlme = m.mlme /\ due.confirm = m.confirm
      /\ due.nodeAck = m.nodeAck /\ due.retry = m.retry
      /\ due.ackCnt = m.ackCnt /\ due.ackRetries = m.ackRetries
  BY <1>2 DEF MacTypes
<1>4. JoinRequested(due) <=> JoinRequested(m)
  BY <1>3 DEF JoinRequested
<1> HIDE DEF due
<1>5. /\ frame \in MacTypes
      /\ frame.timers = timers /\ frame.queue = m.queue
      /\ frame.mlme = m.mlme /\ frame.confirm = m.confirm
      /\ IF JoinRequested(m)
         THEN /\ frame.joined = FALSE /\ frame.nodeAck = FALSE
              /\ frame.retry = FALSE /\ frame.ackCnt = frame.ackRetries
         ELSE /\ frame.joined = m.joined /\ frame.nodeAck = m.nodeAck
              /\ frame.retry = m.retry /\ frame.ackCnt = m.ackCnt
              /\ frame.ackRetries = m.ackRetries
  <2>1. CASE JoinRequested(m)
    <3>1. frame = PrepareJoin(due, c)
      BY <1>4, <2>1
    <3> HIDE DEF frame
    <3>2. /\ frame \in MacTypes
          /\ frame.timers = timers /\ frame.queue = m.queue
          /\ frame.mlme = m.mlme /\ frame.confirm = m.confirm
          /\ ~frame.joined /\ ~frame.nodeAck /\ ~frame.retry
          /\ frame.ackCnt = frame.ackRetries
      BY <1>3, <3>1, PrepareJoinFields, PrepareJoinMatches
    <3> QED
      BY <2>1, <3>2 DEF MacTypes
  <2>2. CASE ~JoinRequested(m)
    BY <1>3, <1>4, <2>2
  <2> QED
    BY <2>1, <2>2
<1> HIDE DEF frame
<1>6. /\ r.mlme = frame.mlme /\ SameFirst(r.queue, frame.queue)
      /\ r.joined = frame.joined /\ r.nodeAck = frame.nodeAck
      /\ r.retry = frame.retry /\ r.ackCnt = frame.ackCnt
      /\ r.ackRetries = frame.ackRetries
      /\ r.confirm.ack = frame.confirm.ack
      /\ "AckTimeout" \in r.timers => "AckTimeout" \in frame.timers
  BY <1>5, ScheduleTxMatches
<1> HIDE DEF r
<1> QED
  BY <1>1, <1>2, <1>5, <1>6
-----------------------------------------------------------------------------
(* OnMacStateCheckTimerEvent, block by block.                              *)

LEMMA AbortBlockUnderway ==
  ASSUME NEW n, NEW m, Sound(m), Underway(m, n)
  PROVE  Underway(AbortBlock(m), n)
<1> DEFINE state == m.state \ {"RX_ABORT", "TX_RUNNING"}
           r == [m EXCEPT !.state = state]
<1>1. AbortBlock(m) \in {m, r}
  BY DEF AbortBlock
<1>2. "TX_DELAYED" \in state => "TX_DELAYED" \in m.state
  OBVIOUS
<1> HIDE DEF state
<1>3. /\ r.state = state /\ r.timers = m.timers /\ r.radio = m.radio
      /\ r.nodeAck = m.nodeAck /\ r.retry = m.retry
      /\ r.ackCnt = m.ackCnt /\ r.ackRetries = m.ackRetries
      /\ r.confirm = m.confirm /\ r.mlme = m.mlme
      /\ r.queue = m.queue /\ r.joined = m.joined
  BY DEF Sound, MacTypes
<1> HIDE DEF r
<1>4. Underway(r, n)
  BY <1>2, <1>3, UnderwayStays DEF AwaitsAir
<1> QED
  BY <1>1, <1>4

LEMMA TxTimeoutBlockUnderway ==
  ASSUME NEW n, NEW m, Midway(m), Underway(m, n)
  PROVE  Underway(TxTimeoutBlock(m), n)
<1> DEFINE mlme == [m.mlme EXCEPT !.status = m.queue.cmn]
           r == [m EXCEPT !.mlme = mlme]
<1>1. TxTimeoutBlock(m) \in {m, r}
  BY DEF TxTimeoutBlock, TxTimedOut, Midway, Kept, NoTimeout
<1>2. m \in MacTypes
  BY DEF Midway, Sound
<1>3. mlme.request = m.mlme.request
  BY <1>2 DEF MacTypes, MlmeConfirms
<1> HIDE DEF mlme
<1>4. /\ r.state = m.state /\ r.timers = m.timers /\ r.radio = m.radio
      /\ r.nodeAck = m.nodeAck /\ r.retry = m.retry
      /\ r.ackCnt = m.ackCnt /\ r.ackRetries = m.ackRetries
      /\ r.confirm = m.confirm /\ r.mlme = mlme
      /\ r.queue = m.queue /\ r.joined = m.joined
  BY <1>2 DEF MacTypes
<1> HIDE DEF r
<1>5. Underway(r, n)
  BY <1>3, <1>4, UnderwayStays DEF AwaitsAir
<1> QED
  BY <1>1, <1>5

(* A join trial follows only where no join accept has come.                *)
LEMMA SendAgainUnderway ==
  ASSUME NEW n, NEW m, Midway(m), Carried(m, n), Underway(m, n),
         ~m.nodeAck, NEW c \in Choices,
         JoinRequested(m) => GetStatus(m.queue, "JOIN") # "OK"
  PROVE  Underway(SendAgain(m, c), n) /\ Met(SendAgain(m, c))
<1> DEFINE flags == m.flags \ {"MacDone"}
           s == [m EXCEPT !.flags = flags]
           r == OnTxDelayed(s, c)
<1>1. SendAgain(m, c) = r
  BY DEF SendAgain
<1>2. /\ m \in MacTypes /\ m.queue \in Queues /\ Contiguous(m.queue)
      /\ flags \in SUBSET Flags
  BY DEF Midway, Sound, MacTypes
<1>3. "MlmeReq" \in flags <=> "MlmeReq" \in m.flags
  OBVIOUS
<1> HIDE DEF flags
<1>4. /\ s \in MacTypes /\ s.flags = flags /\ s.timers = m.timers
      /\ s.queue = m.queue /\ s.mlme = m.mlme /\ s.joined = m.joined
      /\ s.nodeAck = m.nodeAck /\ s.retry = m.retry
      /\ s.ackCnt = m.ackCnt /\ s.ackRetries = m.ackRetries
      /\ s.confirm = m.confirm
  BY <1>2 DEF MacTypes
<1> HIDE DEF s
<1>5. JoinRequested(s) <=> JoinRequested(m)
  BY <1>3, <1>4 DEF JoinRequested
<1>6. /\ r.mlme = s.mlme /\ SameFirst(r.queue, s.queue)
      /\ r.confirm.ack = s.confirm.ack
      /\ "AckTimeout" \in r.timers => "AckTimeout" \in s.timers
      /\ IF JoinRequested(s)
         THEN /\ r.joined = FALSE /\ r.nodeAck = FALSE
              /\ r.retry = FALSE /\ r.ackCnt = r.ackRetries
         ELSE /\ r.joined = s.joined /\ r.nodeAck = s.nodeAck
              /\ r.retry = s.retry /\ r.ackCnt = s.ackCnt
              /\ r.ackRetries = s.ackRetries
  BY <1>2, <1>4, SentAgainMatches
<1> HIDE DEF r
<1>7. ~m.retry /\ "AckTimeout" \notin m.timers
  BY DEF Midway, Kept, Owned, Underway, Clocked
<1>8. Clocked(r) /\ Disarmed(r)
  BY <1>4, <1>5, <1>6, <1>7 DEF Clocked, Disarmed
<1>9. CASE JoinRequested(m)
  <2>1. m.queue.cnt > 0 /\ First(m.queue).request = "JOIN"
    BY <1>9 DEF JoinRequested, Midway, Sound, Underway, Matched
  <2>2. First(m.queue).status # "OK"
    BY <1>2, <1>9, <2>1, FirstStatus
  <2>3. ~m.joined
    BY <2>1, <2>2 DEF Underway, Matched
  <2>4. r.joined = m.joined
    BY <1>2, <1>5, <1>6, <1>9, <2>3 DEF MacTypes
  <2>5. Matched(r)
    BY <1>4, <1>6, <2>1, <2>2, <2>3, <2>4 DEF Matched, SameFirst, Underway
  <2> QED
    BY <1>1, <1>4, <1>6, <1>8, <2>3, <2>4, <2>5
       DEF Underway, Met, SameFirst
<1>10. CASE ~JoinRequested(m)
  <2>1. ~(m.queue.cnt > 0)
    BY <1>10, NoJoinWaits DEF JoinRequested, Midway, Underway, Matched
  <2> QED
    BY <1>1, <1>4, <1>5, <1>6, <1>8, <1>10, <2>1
       DEF Underway, Matched, Met, SameFirst
<1> QED
  BY <1>9, <1>10

LEMMA UnacknowledgedBlockUnderway ==
  ASSUME NEW n, NEW m, Midway(m), Carried(m, n), Underway(m, n),
         NEW c \in Choices
  PROVE  /\ Underway(UnacknowledgedBlock(m, c), n)
         /\ Met(UnacknowledgedBlock(m, c))
<1> DEFINE s == StopRunning(m)
           joined == [s EXCEPT !.upCnt = 0, !.nbRep = 0]
           repeated == [s EXCEPT !.nbRep = 0, !.upCnt = @ + 1]
<1>1. m \in MacTypes
  BY DEF Midway, Sound
<1>2. CASE m.nodeAck \/ ~Requested(m)
  <2>1. UnacknowledgedBlock(m, c) = m
    BY <1>2 DEF UnacknowledgedBlock
  <2>2. "McpsReq" \in m.flags \/ "MlmeReq" \notin m.flags
    BY <1>2 DEF Midway, Kept, Owned, Requested
  <2>3. ~(m.queue.cnt > 0)
    BY <2>2, NoJoinWaits DEF Midway
  <2> QED
    BY <2>1, <2>3 DEF Met
<1>3. CASE ~m.nodeAck /\ Requested(m)
  <2>1. ~TxTimedOut(m)
    BY DEF TxTimedOut, Midway, Kept, NoTimeout
  <2>2. \/ UnacknowledgedBlock(m, c) \in {joined, s, repeated}
        \/ /\ UnacknowledgedBlock(m, c) = SendAgain(m, c)
           /\ JoinRequested(m) => GetStatus(m.queue, "JOIN") # "OK"
    BY <1>3, <2>1 DEF UnacknowledgedBlock, JoinBlock, RepetitionBlock
  <2> DEFINE Over(r) ==
               /\ r.state = m.state \ {"TX_RUNNING"}
               /\ r.timers = m.timers /\ r.radio = m.radio
               /\ r.nodeAck = m.nodeAck /\ r.retry = m.retry
               /\ r.ackCnt = m.ackCnt /\ r.ackRetries = m.ackRetries
               /\ r.confirm = m.confirm /\ r.mlme = m.mlme
               /\ r.queue = m.queue /\ r.joined = m.joined
  <2>3. Over(s) /\ DOMAIN s = DOMAIN m
    BY <1>1 DEF StopRunning, MacTypes
  <2> HIDE DEF s
  <2>4. Over(joined)
    BY <1>1, <2>3 DEF MacTypes
  <2>5. Over(repeated)
    BY <1>1, <2>3 DEF MacTypes
  <2> HIDE DEF joined, repeated
  <2>6. ASSUME NEW r, Over(r)
        PROVE  Underway(r, n) /\ Met(r)
    <3>1. "TX_DELAYED" \notin m.state
      BY DEF Midway, Kept, InTurn
    <3>2. ~Busy(r) /\ "TX_DELAYED" \notin r.state
      BY <2>6, <3>1 DEF Busy
    <3> QED
      BY <2>6, <3>2, UnderwayStays DEF AwaitsAir, Met
  <2> QED
    BY <1>3, <2>2, <2>3, <2>4, <2>5, <2>6, SendAgainUnderway
<1> QED
  BY <1>2, <1>3

(* Who is done with the acknowledgement has stopped its timer.             *)
LEMMA ReceivedBlockUnderway ==
  ASSUME NEW n, NEW m, Sound(m), Underway(m, n), Met(m)
  PROVE  Underway(ReceivedBlock(m), n) /\ Met(ReceivedBlock(m))
<1> DEFINE s == StopRunning(m)
           upCnt == s.upCnt + 1
           r == [s EXCEPT !.retry = FALSE, !.nodeAck = FALSE, !.upCnt = upCnt]
           received == /\ "McpsInd" \in m.flags
                       /\ m.confirm.ack \/ m.ackCnt > m.ackRetries
<1>1. ReceivedBlock(m) = IF received THEN r ELSE m
  BY DEF ReceivedBlock
<1>2. m \in MacTypes
  BY DEF Sound
<1>3. received => "AckTimeout" \notin m.timers
  BY <1>2 DEF Underway, Clocked, Disarmed, MacTypes
<1> HIDE DEF received
<1>4. /\ s \in MacTypes /\ s.state = m.state \ {"TX_RUNNING"}
      /\ s.timers = m.timers /\ s.radio = m.radio
      /\ s.confirm = m.confirm /\ s.mlme = m.mlme
      /\ s.queue = m.queue /\ s.joined = m.joined
  BY <1>2 DEF StopRunning, MacTypes
<1> HIDE DEF s, upCnt
<1>5. /\ r.state = m.state \ {"TX_RUNNING"}
      /\ r.timers = m.timers /\ r.radio = m.radio
      /\ r.nodeAck = FALSE /\ r.retry = FALSE
      /\ r.confirm = m.confirm /\ r.mlme = m.mlme
      /\ r.queue = m.queue /\ r.joined = m.joined
  BY <1>4 DEF MacTypes
<1> HIDE DEF r
<1>6. received => Underway(r, n) /\ Met(r)
  BY <1>3, <1>5 DEF Underway, Clocked, Disarmed, Matched, Met, Busy
<1> QED
  BY <1>1, <1>6

(* Only an awaited acknowledgement is asked for again, and then no join    *)
(* request waits.                                                          *)
LEMMA RetryBlockUnderway ==
  ASSUME NEW n, NEW m, Sound(m), Kept(m), Carried(m, n), Underway(m, n),
         Met(m), NEW c \in Choices
  PROVE  Underway(RetryBlock(m, c), n) /\ Met(RetryBlock(m, c))
<1> DEFINE due   == [m EXCEPT !.retry = FALSE]
           cnt   == m.ackCnt + 1
           dr    == IF cnt % 2 = 1 THEN NextLowerDr(m.dr) ELSE m.dr
           next  == [m EXCEPT !.retry = FALSE, !.ackCnt = cnt, !.dr = dr]
           sent  == ScheduleTx(next, c)
           again == [sent EXCEPT !.flags = @ \ {"MacDone"}]
<1>1. m \in MacTypes /\ Contiguous(m.queue)
  BY DEF Sound
<1>2. CASE ~m.retry \/ "TX_DELAYED" \in m.state
  BY <1>2 DEF RetryBlock
<1>3. CASE m.retry /\ "TX_DELAYED" \notin m.state
  <2>1. NextTry(m) = next
    BY DEF NextTry
  <2>2. \/ RetryBlock(m, c) = GiveUp(due)
        \/ RetryBlock(m, c) = GiveUpTooLong(next)
        \/ RetryBlock(m, c) = again /\ ~(m.ackCnt >= m.ackRetries)
    BY <1>3, <2>1 DEF RetryBlock
  <2>3. /\ ~(m.queue.cnt > 0) /\ "AckTimeout" \notin m.timers
        /\ m.mlme.request = "JOIN"
    BY <1>3, NoJoinWaits DEF Kept, Owned, Underway, Clocked, Matched
  <2>4. ASSUME NEW r, r.mlme = m.mlme, r.joined = m.joined,
               r.queue.cnt = m.queue.cnt,
               "AckTimeout" \in r.timers => "AckTimeout" \in m.timers,
               r.nodeAck => r.ackCnt <= r.ackRetries,
               ~r.retry
        PROVE  Underway(r, n) /\ Met(r)
    BY <2>3, <2>4 DEF Underway, Clocked, Disarmed, Matched, Met
  <2>5. cnt \in Nat /\ (~(m.ackCnt >= m.ackRetries) => cnt <= m.ackRetries)
    BY <1>1 DEF MacTypes
  <2>6. /\ due.mlme = m.mlme /\ due.joined = m.joined
        /\ due.queue = m.queue /\ due.timers = m.timers
        /\ due.retry = FALSE /\ DOMAIN due = DOMAIN m
    BY <1>1 DEF MacTypes
  <2>7. next \in MacTypes
    BY <1>1, <2>1, NextTryAlike DEF Alike
  <2> HIDE DEF due, dr, cnt
  <2>8. /\ next.mlme = m.mlme /\ next.joined = m.joined
        /\ next.queue = m.queue /\ next.timers = m.timers
        /\ next.retry = FALSE /\ DOMAIN next = DOMAIN m
        /\ next.ackCnt = cnt /\ next.ackRetries = m.ackRetries
    BY <1>1 DEF MacTypes
  <2> HIDE DEF next
  <2>9. ASSUME NEW x \in {due, next}, NEW y \in {GiveUp(x), GiveUpTooLong(x)}
        PROVE  /\ y.mlme = x.mlme /\ y.joined = x.joined
               /\ y.queue = x.queue /\ y.timers = x.timers
               /\ y.retry = x.retry /\ y.nodeAck = FALSE
    <3> DEFINE state == x.state \ {"TX_RUNNING"}
               no == [x.confirm EXCEPT !.ack = FALSE]
               long == [no EXCEPT !.status = "DR_SIZE", !.dr = x.dr]
               upCnt == x.upCnt + 1
               z == [x EXCEPT !.state = state, !.nodeAck = FALSE,
                              !.confirm = no, !.upCnt = upCnt]
               t == [z EXCEPT !.confirm = long]
    <3>1. DOMAIN x = DOMAIN m
      BY <2>6, <2>8
    <3>2. GiveUp(x) = z /\ GiveUpTooLong(x) = t
      BY <1>1, <3>1 DEF GiveUp, GiveUpTooLong, StopRunning, MacTypes
    <3> HIDE DEF state, no, long, upCnt
    <3>3. /\ z.mlme = x.mlme /\ z.joined = x.joined
          /\ z.queue = x.queue /\ z.timers = x.timers
          /\ z.retry = x.retry /\ z.nodeAck = FALSE /\ DOMAIN z = DOMAIN m
      BY <1>1, <3>1 DEF MacTypes
    <3> HIDE DEF z
    <3>4. /\ t.mlme = z.mlme /\ t.joined = z.joined
          /\ t.queue = z.queue /\ t.timers = z.timers
          /\ t.retry = z.retry /\ t.nodeAck = z.nodeAck
      BY <1>1, <3>3 DEF MacTypes
    <3> HIDE DEF t
    <3> QED
      BY <2>9, <3>2, <3>3, <3>4
  <2>10. CASE RetryBlock(m, c) = GiveUp(due)
    BY <2>4, <2>6, <2>9, <2>10
  <2>11. CASE RetryBlock(m, c) = GiveUpTooLong(next)
    BY <2>4, <2>8, <2>9, <2>11
  <2>12. CASE RetryBlock(m, c) = again /\ ~(m.ackCnt >= m.ackRetries)
    <3>1. /\ sent.mlme = next.mlme /\ SameFirst(sent.queue, next.queue)
          /\ sent.joined = next.joined /\ sent.retry = next.retry
          /\ sent.ackCnt = next.ackCnt /\ sent.ackRetries = next.ackRetries
          /\ "AckTimeout" \in sent.timers => "AckTimeout" \in next.timers
      BY <1>1, <2>7, <2>8, ScheduleTxMatches
    <3>2. DOMAIN sent = DOMAIN m
      <4>1. Sound(next)
        BY <1>1, <2>1, NextTryAlike, AlikeKeeps
      <4>2. sent \in MacTypes
        BY <4>1, ScheduleTxSound DEF Sound
      <4> QED
        BY <1>1, <4>2 DEF MacTypes
    <3> HIDE DEF sent
    <3>3. /\ again.mlme = sent.mlme /\ again.queue = sent.queue
          /\ again.joined = sent.joined /\ again.retry = sent.retry
          /\ again.ackCnt = sent.ackCnt /\ again.ackRetries = sent.ackRetries
          /\ again.timers = sent.timers
      BY <1>1, <3>2 DEF MacTypes
    <3> HIDE DEF again
    <3> QED
      BY <2>4, <2>5, <2>8, <2>12, <3>1, <3>3 DEF SameFirst
  <2> QED
    BY <2>2, <2>10, <2>11, <2>12
<1> QED
  BY <1>2, <1>3

LEMMA DoneBlockUnderway ==
  ASSUME NEW n, NEW m, Due(m), Carried(m, n), Underway(m, n), NEW c \in Choices
  PROVE  Underway(DoneBlock(m, c), n) /\ Met(DoneBlock(m, c))
<1> DEFINE m1 == AbortBlock(m)
           m2 == TxTimeoutBlock(m1)
           m3 == UnacknowledgedBlock(m2, c)
           m4 == ReceivedBlock(m3)
<1>1. Midway(m1) /\ Carried(m1, n) /\ Underway(m1, n)
  BY AbortBlockMidway, AbortBlockCarried, AbortBlockUnderway DEF Due
<1> HIDE DEF m1
<1>2. Midway(m2) /\ Carried(m2, n) /\ Underway(m2, n)
  BY <1>1, TxTimeoutBlockMidway, TxTimeoutBlockCarried,
     TxTimeoutBlockUnderway
<1> HIDE DEF m2
<1>3. /\ Judged(m3) /\ Carried(m3, n) /\ Pending(m3, n)
      /\ Underway(m3, n) /\ Met(m3)
  BY <1>2, UnacknowledgedBlockJudged, UnacknowledgedBlockCarried,
     UnacknowledgedBlockUnderway
<1> HIDE DEF m3
<1>4. /\ Heeded(m4) /\ Carried(m4, n)
      /\ Underway(m4, n) /\ Met(m4)
  BY <1>3, ReceivedBlockHeeded, ReceivedBlockCarried,
     ReceivedBlockUnderway DEF Judged
<1> HIDE DEF m4
<1>5. /\ Underway(RetryBlock(m4, c), n) /\ Met(RetryBlock(m4, c))
  BY <1>4, RetryBlockUnderway DEF Heeded
<1> QED
  BY <1>5 DEF DoneBlock, m1, m2, m3, m4
(* What is true of a record between two callbacks.                         *)
Welcomed(m) == Clocked(m) /\ Matched(m) /\ Unjoined(m)

JoinSucceeded == [request |-> "JOIN", status |-> "OK"]

(* What a callback does to the session and to a request that waits.        *)
Advanced(r, m) ==
  /\ Welcomed(r)
  /\ m.joined => r.joined
  /\ m.queue.cnt > 0 /\ ~(r.queue.cnt > 0) =>
       (r.mlme = JoinSucceeded <=> r.joined)

(* The request that waits is told of, with what it has got.                *)
LEMMA EventBlockAdvanced ==
  ASSUME NEW n, NEW m, Sound(m), Calm(m), Carried(m, n), Underway(m, n),
         Met(m)
  PROVE  Advanced(EventBlock(m), n)
<1>1. m \in MacTypes
  BY DEF Sound
<1>2. CASE m.state # {}
  <2> DEFINE r == Start(m, {"StateCheck"})
  <2>1. EventBlock(m) = r
    BY <1>2 DEF EventBlock
  <2>2. /\ r.timers = m.timers \cup {"StateCheck"}
        /\ r.state = m.state /\ r.radio = m.radio
        /\ r.nodeAck = m.nodeAck /\ r.retry = m.retry
        /\ r.ackCnt = m.ackCnt /\ r.ackRetries = m.ackRetries
        /\ r.confirm = m.confirm /\ r.mlme = m.mlme
        /\ r.queue = m.queue /\ r.joined = m.joined
    BY <1>1 DEF MacTypes, Start
  <2> HIDE DEF r
  <2>3. Underway(r, n)
    BY <2>2, UnderwayStays DEF AwaitsAir
  <2>4. Unjoined(r)
    BY <1>1, <1>2, <2>2 DEF Met, Unjoined, Calm, MacTypes, States, Busy
  <2> QED
    BY <2>1, <2>3, <2>4 DEF Advanced, Welcomed, Underway
<1>3. CASE m.state = {}
  <2> DEFINE flags == m.flags \ {"McpsReq", "MacDone"}
             r == [m EXCEPT !.flags = flags]
             done == HandleCb(r.queue, r.mlme)
             left == IF done.queue.cnt > 0
                     THEN r.flags ELSE r.flags \ {"MlmeReq"}
             s == [r EXCEPT !.queue = done.queue, !.mlme = done.conf,
                            !.flags = left]
  <2>1. EventBlock(m) = IF "MlmeReq" \in r.flags THEN s ELSE r
    BY <1>3 DEF EventBlock, ConfirmMcps, ConfirmMlme
  <2>2. Sound(r)
    BY ConfirmMcpsSound DEF ConfirmMcps
  <2>3. /\ r.flags = flags /\ r.queue = m.queue /\ r.mlme = m.mlme
        /\ r.state = {} /\ r.radio = m.radio /\ r.timers = m.timers
        /\ r.nodeAck = m.nodeAck /\ r.retry = m.retry
        /\ r.ackCnt = m.ackCnt /\ r.ackRetries = m.ackRetries
        /\ r.confirm = m.confirm /\ r.joined = m.joined
        /\ "MlmeReq" \in r.flags <=> "MlmeReq" \in m.flags
    BY <1>1, <1>3 DEF MacTypes
  <2> HIDE DEF r
  <2>4. Lone(m.queue) /\ Reported(m.queue)
    BY <1>3 DEF Carried, Served
  <2>5. r.queue \in Queues /\ Contiguous(r.queue) /\ r.mlme \in Confs
    BY <2>2 DEF Sound, MacTypes, Confs, MlmeConfirms
  <2>6. done.queue.cnt = 0
    BY <2>3, <2>4, <2>5, HandleCbEmpties
  <2>7. "MlmeReq" \in m.flags => done.conf = Confirm(First(m.queue))
    <3>1. m.queue.cnt > 0 /\ m.queue.cnt \in Nat =>
            m.queue.cnt = 1 /\ First(m.queue).ready
      BY <2>4 DEF Lone, Reported
    <3>2. m.queue.cnt \in Nat
      BY <2>3, <2>5, QueueLenAssumption DEF Queues
    <3> QED
      BY <2>3, <2>5, <3>1, <3>2, HandleCbTells DEF Sound
  <2>8. "MlmeReq" \notin m.flags => ~(m.queue.cnt > 0)
    BY DEF Sound
  <2> HIDE DEF done, left, flags
  <2>9. /\ s.queue = done.queue /\ s.mlme = done.conf
        /\ s.state = {} /\ s.radio = m.radio /\ s.timers = m.timers
        /\ s.nodeAck = m.nodeAck /\ s.retry = m.retry
        /\ s.ackCnt = m.ackCnt /\ s.ackRetries = m.ackRetries
        /\ s.joined = m.joined
    BY <2>2, <2>3 DEF Sound, MacTypes
  <2> HIDE DEF s
  <2>10. CASE "MlmeReq" \notin m.flags
    <3>1. EventBlock(m) = r
      BY <2>1, <2>3, <2>10
    <3>2. Underway(r, n)
      BY <1>3, <2>3, UnderwayStays DEF AwaitsAir
    <3> QED
      BY <2>3, <2>8, <2>10, <3>1, <3>2
         DEF Advanced, Welcomed, Underway, Unjoined
  <2>11. CASE "MlmeReq" \in m.flags
    <3>1. EventBlock(m) = s
      BY <2>1, <2>3, <2>11
    <3>2. Clocked(s)
      BY <1>3, <2>9 DEF Underway, Clocked, AwaitsAir
    <3>3. /\ First(m.queue).request = "JOIN"
          /\ First(m.queue).status = "OK" <=> m.joined
      BY <2>11 DEF Underway, Matched, Sound
    <3>4. /\ s.mlme.request = "JOIN"
          /\ s.mlme = JoinSucceeded <=> s.joined
      <4>1. s.mlme = [request |-> "JOIN", status |-> First(m.queue).status]
        BY <2>7, <2>9, <2>11, <3>3 DEF Confirm
      <4> QED
        BY <2>9, <3>3, <4>1 DEF JoinSucceeded
    <3>5. Matched(s) /\ Unjoined(s)
      BY <2>6, <2>9, <3>4 DEF Matched, Unjoined
    <3> QED
      BY <2>9, <3>1, <3>2, <3>4, <3>5 DEF Advanced, Welcomed, Underway
  <2> QED
    BY <2>10, <2>11
<1> QED
  BY <1>2, <1>3

LEMMA IndicationBlockAdvanced ==
  ASSUME Class = "A", NEW n, NEW m \in MacTypes, Advanced(m, n)
  PROVE  Advanced(IndicationBlock(m), n)
<1> DEFINE r == [m EXCEPT !.flags = @ \ {"McpsInd", "McpsIndSkip"}]
<1>1. IndicationBlock(m) \in {m, r}
  BY DEF IndicationBlock, Rest
<1>2. /\ r.state = m.state /\ r.radio = m.radio /\ r.timers = m.timers
      /\ r.nodeAck = m.nodeAck /\ r.retry = m.retry
      /\ r.ackCnt = m.ackCnt /\ r.ackRetries = m.ackRetries
      /\ r.joined = m.joined /\ r.mlme = m.mlme /\ r.queue = m.queue
  BY DEF MacTypes
<1> HIDE DEF r
<1>3. Advanced(r, n)
  BY <1>2 DEF Advanced, Welcomed, Clocked, AwaitsAir, Matched, Unjoined
<1> QED
  BY <1>1, <1>3

LEMMA OnMacStateCheckAdvanced ==
  ASSUME Class = "A", NEW n, NEW m, Carried(m, n), Underway(m, n),
         NEW c \in Choices,
         \/ Due(m)
         \/ "MacDone" \notin m.flags /\ Settled(m) /\ Between(m) /\ Unjoined(m)
  PROVE  Advanced(OnMacStateCheck(m, c), n)
<1> DEFINE timers == m.timers \ {"StateCheck"}
           s == [m EXCEPT !.timers = timers]
           d == IF "MacDone" \in m.flags THEN DoneBlock(s, c) ELSE s
           e == EventBlock(d)
<1>1. Stop(m, {"StateCheck"}) = s
  BY DEF Stop
<1>2. Sound(m) /\ m \in MacTypes /\ m.upCnt \in Nat
  BY DEF Due, Settled, Sound, MacTypes
<1>3. Sound(s)
  BY <1>1, <1>2, StopSound DEF Timers
<1>4. /\ timers \cap {"Rx1", "Rx2"} = m.timers \cap {"Rx1", "Rx2"}
      /\ timers \ {"StateCheck"} \subseteq m.timers
  OBVIOUS
<1> HIDE DEF timers
<1>5. /\ s.timers = timers
      /\ s.flags = m.flags /\ s.state = m.state /\ s.radio = m.radio
      /\ s.cut = m.cut /\ s.slot = m.slot /\ s.confirm = m.confirm
      /\ s.queue = m.queue /\ s.retry = m.retry /\ s.nodeAck = m.nodeAck
      /\ s.frame = m.frame /\ s.off = m.off /\ s.joined = m.joined
      /\ s.dr = m.dr /\ s.upCnt = m.upCnt /\ s.mlme = m.mlme
      /\ s.ackCnt = m.ackCnt /\ s.ackRetries = m.ackRetries
  BY <1>2 DEF MacTypes
<1>6. OnMacStateCheck(m, c) = IndicationBlock(e)
  BY <1>1 DEF OnMacStateCheck
<1> HIDE DEF s
<1>7. Carried(s, n) /\ Underway(s, n)
  BY <1>2, <1>4, <1>5, CarriedStays, UnderwayStays DEF AwaitsAir
<1>8. Sound(d) /\ Calm(d) /\ Carried(d, n) /\ Underway(d, n) /\ Met(d)
  <2>1. CASE Due(m)
    <3>1. Kept(s)
      BY <1>4, <1>5, <2>1 DEF Due, Kept, Aired, InTurn, NoTimeout, Owned,
                              Busy, Quiet, Sendable
    <3>2. Due(s)
      BY <1>3, <1>5, <2>1, <3>1 DEF Due, Answered
    <3> QED
      BY <1>3, <1>7, <2>1, <3>2, DoneBlockSound, DoneBlockCarried,
         DoneBlockUnderway DEF Due
  <2>2. CASE "MacDone" \notin m.flags /\ Settled(m) /\ Between(m) /\ Unjoined(m)
    <3>1. Calm(s)
      BY <1>5, <2>2 DEF Settled, Calm
    <3>2. Met(s)
      BY <1>5, <2>2 DEF Met, Unjoined
    <3> QED
      BY <1>3, <1>7, <2>2, <3>1, <3>2
  <2> QED
    BY <2>1, <2>2
<1> HIDE DEF d
<1>9. Advanced(e, n) /\ e \in MacTypes
  BY <1>8, EventBlockAdvanced, EventBlockSettled DEF Settled, Sound
<1> HIDE DEF e
<1> QED
  BY <1>6, <1>9, IndicationBlockAdvanced

-----------------------------------------------------------------------------
(* OnRadioRxDone.                                                          *)

LEMMA UnderwaySameWork ==
  ASSUME NEW m, Clocked(m), Matched(m), NEW r, SameWork(r, m)
  PROVE  Underway(r, m)
BY DEF Underway, SameWork, Matched

LEMMA RxDoneAbortAdvanced ==
  ASSUME Class = "A", NEW m, Ready(m), Counting(m), Clocked(m), Matched(m),
         NEW c \in Choices
  PROVE  Advanced(RxDoneAbort(m, c), m)
<1>1. PICK r : /\ RxDoneAbort(m, c) = OnMacStateCheck(r, c)
               /\ Due(r) /\ SameWork(r, m)
  BY RxDoneAbortDue
<1>2. Carried(r, m) /\ Underway(r, m)
  BY <1>1, CarriedSameWork, UnderwaySameWork DEF Ready, Sound
<1> QED
  BY <1>1, <1>2, OnMacStateCheckAdvanced

(* The acknowledgement timer, where it keeps the callback from the state   *)
(* check, runs for a data request.                                         *)
LEMMA RxEndAdvanced ==
  ASSUME Class = "A", NEW m, Ready(m), Counting(m), Clocked(m), Matched(m),
         NEW c \in Choices
  PROVE  Advanced(RxEnd(m, c), m)
<1>1. CASE RxEnd(m, c) = m /\ "AckTimeout" \in m.timers
  <2>1. "McpsReq" \in m.flags
    BY <1>1 DEF Clocked, Ready, Kept, Owned
  <2>2. ~(m.queue.cnt > 0)
    BY <2>1 DEF Counting, Asking, Ready, Sound
  <2> QED
    BY <1>1, <2>2 DEF Advanced, Welcomed, Unjoined
<1>2. CASE ~(RxEnd(m, c) = m /\ "AckTimeout" \in m.timers)
  <2>1. PICK r : /\ RxEnd(m, c) = OnMacStateCheck(r, c)
                 /\ Due(r) /\ SameWork(r, m)
    BY <1>2, RxEndDue
  <2>2. Carried(r, m) /\ Underway(r, m)
    BY <2>1, CarriedSameWork, UnderwaySameWork DEF Ready, Sound
  <2> QED
    BY <2>1, <2>2, OnMacStateCheckAdvanced
<1> QED
  BY <1>1, <1>2

LEMMA RxDoneAdvanced ==
  ASSUME ClassAOnly, Settled(mac), Between(mac), ~mac.ackStale,
         NEW f \in Downlinks, NEW c \in Choices, OnRadioRxDoneEvent(f, c),
         Counting(mac), Welcomed(mac)
  PROVE  Advanced(mac', mac)
<1>1. f \in Frames /\ f.kind # "UNKNOWN" /\ Class = "A"
  BY ChoiceAssumption DEF ClassAOnly
<1>2. mac.radio = "RX_SINGLE" /\ mac' = OnRadioRxDone(mac, f, c)
  BY DEF OnRadioRxDoneEvent, Between, Kept, Aired
<1>3. f.kind = "DATA" => mac.frame.kind # "JOIN"
  BY <1>1 DEF OnRadioRxDoneEvent, ServerMayAnswer
<1>4. DrKept => f.cmd # "ADR_LOWEST"
  BY DEF DrKept
<1>5. PICK n : /\ Ready(n) /\ Begun(n, mac)
               /\ IF JoinAccepted(mac, f) THEN n.joined
                  ELSE n.joined = mac.joined
               /\ mac' = RxDoneAbort(n, c) \/ mac' = RxEnd(n, c)
  BY <1>1, <1>2, <1>3, <1>4, OnRadioRxDoneBegun
<1>6. Counting(n) /\ Clocked(n) /\ Matched(n)
  BY <1>1, <1>5, BegunCounting DEF Begun, Welcomed, Settled, Sound
<1>7. Advanced(mac', n)
  BY <1>1, <1>5, <1>6, RxDoneAbortAdvanced, RxEndAdvanced
<1> QED
  BY <1>5, <1>7 DEF Advanced, Begun
-----------------------------------------------------------------------------
(* The actions.                                                            *)

(* What leaves the queue and the session alone.                            *)
LEMMA AdvancedStays ==
  ASSUME NEW m, Welcomed(m), NEW r, Clocked(r),
         r.mlme = m.mlme, r.queue = m.queue, r.joined = m.joined
  PROVE  Advanced(r, m)
BY DEF Advanced, Welcomed, Matched, Unjoined

LEMMA WindowAdvanced ==
  ASSUME Class = "A", Settled(mac), Between(mac), Welcomed(mac),
         OnRxWindow1TimerEvent \/ OnRxWindow2TimerEvent
  PROVE  Advanced(mac', mac)
<1> DEFINE timers == mac.timers \ {"Rx1"}
           cut == mac.cut \/ mac.radio \in {"TX", "CW"}
           r == [mac EXCEPT !.radio = "RX_SINGLE", !.cut = cut,
                            !.timers = timers, !.slot = "WIN_1"]
           s == [mac EXCEPT !.timers = @ \ {"Rx2"}]
           t == [mac EXCEPT !.timers = @ \ {"Rx2"}, !.radio = "RX_SINGLE",
                            !.slot = "WIN_2"]
           Opened(x) ==
             /\ x.state = mac.state
             /\ x.radio = mac.radio \/ x.radio = "RX_SINGLE"
             /\ x.nodeAck = mac.nodeAck /\ x.retry = mac.retry
             /\ x.ackCnt = mac.ackCnt /\ x.ackRetries = mac.ackRetries
             /\ x.joined = mac.joined /\ x.mlme = mac.mlme
             /\ x.queue = mac.queue
             /\ x.timers \subseteq mac.timers
<1>1. mac \in MacTypes
  BY DEF Settled, Sound
<1>2. mac' \in {r, s, t}
  BY <1>1 DEF OnRxWindow1TimerEvent, RxWindow1, RadioTo,
              OnRxWindow2TimerEvent, RxWindow2, Stop, MacTypes
<1>3. timers \subseteq mac.timers
  OBVIOUS
<1> HIDE DEF cut, timers
<1>4. Opened(r)
  BY <1>1, <1>3 DEF MacTypes
<1>5. Opened(s)
  BY <1>1 DEF MacTypes
<1>6. Opened(t)
  BY <1>1 DEF MacTypes
<1> HIDE DEF r, s, t
<1>7. Opened(mac')
  BY <1>2, <1>4, <1>5, <1>6
<1>8. Clocked(mac')
  BY <1>7 DEF Welcomed, Clocked, AwaitsAir
<1> QED
  BY <1>7, <1>8, AdvancedStays

LEMMA AckTimeoutAdvanced ==
  ASSUME Class = "A", Settled(mac), Welcomed(mac), OnAckTimeoutTimerEvent
  PROVE  Advanced(mac', mac)
<1> DEFINE timers == mac.timers \ {"AckTimeout"}
           retry == mac.retry \/ mac.nodeAck
           r == [mac EXCEPT !.timers = timers, !.retry = retry]
<1>1. mac \in MacTypes
  BY DEF Settled, Sound
<1>2. mac' = r
  BY <1>1 DEF OnAckTimeoutTimerEvent, OnAckTimeout, Stop, MacTypes
<1>3. "AckTimeout" \notin timers
  OBVIOUS
<1> HIDE DEF timers, retry
<1>4. /\ r.state = mac.state /\ r.radio = mac.radio /\ r.timers = timers
      /\ r.nodeAck = mac.nodeAck
      /\ r.ackCnt = mac.ackCnt /\ r.ackRetries = mac.ackRetries
      /\ r.joined = mac.joined /\ r.mlme = mac.mlme /\ r.queue = mac.queue
  BY <1>1 DEF MacTypes
<1> HIDE DEF r
<1>5. ~AwaitsAir(mac)
  BY DEF Welcomed, Clocked, OnAckTimeoutTimerEvent
<1>6. Clocked(r)
  BY <1>3, <1>4, <1>5 DEF Welcomed, Clocked, AwaitsAir
<1> QED
  BY <1>2, <1>4, <1>6, AdvancedStays

(* The end of a transmission starts the timer only for an acknowledgement. *)
LEMMA TxDoneAdvanced ==
  ASSUME Class = "A", Settled(mac), Between(mac), Welcomed(mac), OnRadioTxDone
  PROVE  Advanced(mac', mac)
<1> DEFINE timers == mac.timers \cup {"Rx1"}
                       \cup (IF Class = "A" THEN {"Rx2"} ELSE {})
                       \cup (IF Class = "C" \/ mac.nodeAck
                             THEN {"AckTimeout"} ELSE {})
           confirm == [mac.confirm EXCEPT
                         !.status = IF mac.nodeAck THEN @ ELSE "OK"]
           nbRep == IF mac.nodeAck THEN mac.nbRep ELSE mac.nbRep + 1
           stale == mac.ackStale /\ ~(Class = "C" \/ mac.nodeAck)
           r == [mac EXCEPT !.radio = "IDLE", !.timers = timers,
                            !.ackStale = stale,
                            !.confirm = confirm, !.nbRep = nbRep]
<1>1. mac \in MacTypes
  BY DEF Settled, Sound
<1>2. mac' = r
  BY <1>1 DEF OnRadioTxDone, Rest, MacTypes
<1>3. /\ "AckTimeout" \in timers => "AckTimeout" \in mac.timers \/ mac.nodeAck
      /\ mac.radio = "TX"
  BY DEF OnRadioTxDone
<1> HIDE DEF timers, confirm, nbRep, stale
<1>4. /\ r.state = mac.state /\ r.radio = "IDLE" /\ r.timers = timers
      /\ r.nodeAck = mac.nodeAck /\ r.retry = mac.retry
      /\ r.ackCnt = mac.ackCnt /\ r.ackRetries = mac.ackRetries
      /\ r.joined = mac.joined /\ r.mlme = mac.mlme /\ r.queue = mac.queue
  BY <1>1 DEF MacTypes
<1> HIDE DEF r
<1>5. AwaitsAir(mac) /\ ~AwaitsAir(r)
  BY <1>3, <1>4, OpenWindow DEF AwaitsAir
<1>6. Clocked(r)
  BY <1>3, <1>4, <1>5 DEF Welcomed, Clocked
<1> QED
  BY <1>2, <1>4, <1>6, AdvancedStays

(* The status of a window that failed is no success.                       *)
LEMMA RxFailedAdvanced ==
  ASSUME Class = "A", Settled(mac), Welcomed(mac),
         NEW idle \in BOOLEAN, NEW late \in BOOLEAN,
         OnRadioRxFailed(idle, late)
  PROVE  Advanced(mac', mac)
<1> DEFINE confirm == [mac.confirm EXCEPT
                         !.status = IF mac.nodeAck THEN "RX_FAIL" ELSE @]
           queue == SetStatusCmn(mac.queue, "RX_FAIL")
           failed == [mac EXCEPT !.radio = "IDLE",
                                 !.confirm = confirm, !.queue = queue]
           stopped == [failed EXCEPT !.timers = @ \ {"Rx2"}]
           over == [failed EXCEPT !.flags = @ \cup {"MacDone"}]
           both == [stopped EXCEPT !.flags = @ \cup {"MacDone"}]
           Same(r) == /\ r.state = mac.state /\ r.radio = "IDLE"
                      /\ r.nodeAck = mac.nodeAck /\ r.retry = mac.retry
                      /\ r.ackCnt = mac.ackCnt
                      /\ r.ackRetries = mac.ackRetries
                      /\ r.joined = mac.joined /\ r.mlme = mac.mlme
                      /\ r.queue = queue
                      /\ r.timers \subseteq mac.timers
                      /\ DOMAIN r = DOMAIN mac
<1>1. mac \in MacTypes /\ mac.queue \in Queues /\ Contiguous(mac.queue)
  BY DEF Settled, Sound, MacTypes
<1>2. mac' \in {failed, over, both}
  <2>1. idle = TRUE
    BY DEF OnRadioRxFailed
  <2>2. [mac EXCEPT !.radio = IF idle THEN "IDLE" ELSE @,
                    !.confirm.status = IF mac.nodeAck THEN "RX_FAIL" ELSE @,
                    !.queue = SetStatusCmn(@, "RX_FAIL")] = failed
    BY <1>1, <2>1 DEF MacTypes
  <2> HIDE DEF failed
  <2> QED
    BY <2>2 DEF OnRadioRxFailed, Stop, Raise
<1>3. /\ queue.cnt = mac.queue.cnt
      /\ mac.queue.cnt > 0 =>
           /\ First(queue).request = First(mac.queue).request
           /\ First(queue).status = "RX_FAIL"
  BY <1>1, SetStatusCmnTypes, FirstCommon, QueueAssumption
<1> HIDE DEF confirm, queue
<1>4. Same(failed)
  BY <1>1 DEF MacTypes
<1> HIDE DEF failed
<1>5. Same(stopped)
  BY <1>1, <1>4 DEF MacTypes
<1> HIDE DEF stopped
<1>6. Same(over)
  BY <1>1, <1>4 DEF MacTypes
<1>7. Same(both)
  BY <1>1, <1>5 DEF MacTypes
<1> HIDE DEF over, both
<1>8. Same(mac')
  BY <1>2, <1>4, <1>6, <1>7
<1>9. Clocked(mac')
  BY <1>8 DEF Welcomed, Clocked, AwaitsAir
<1>10. Matched(mac') /\ Unjoined(mac')
  BY <1>3, <1>8 DEF Welcomed, Matched, Unjoined
<1> QED
  BY <1>3, <1>8, <1>9, <1>10 DEF Advanced, Welcomed

(* No join waits in a session, so no delayed frame ends it.                *)
LEMMA TxDelayedAdvanced ==
  ASSUME Settled(mac), Welcomed(mac), NEW c \in Choices,
         OnTxDelayedTimerEvent(c)
  PROVE  Advanced(mac', mac)
<1>1. /\ mac \in MacTypes /\ Contiguous(mac.queue)
      /\ mac' = OnTxDelayed(mac, c) /\ "TX_DELAYED" \in mac.state
  BY DEF Settled, Sound, OnTxDelayedTimerEvent
<1>2. ~mac.retry /\ "AckTimeout" \notin mac.timers
  BY <1>1 DEF Welcomed, Clocked, AwaitsAir
<1>3. /\ mac'.mlme = mac.mlme /\ SameFirst(mac'.queue, mac.queue)
      /\ "AckTimeout" \notin mac'.timers
      /\ IF JoinRequested(mac)
         THEN /\ mac'.joined = FALSE /\ mac'.nodeAck = FALSE
              /\ mac'.retry = FALSE
         ELSE /\ mac'.joined = mac.joined /\ mac'.nodeAck = mac.nodeAck
              /\ mac'.retry = mac.retry /\ mac'.ackCnt = mac.ackCnt
              /\ mac'.ackRetries = mac.ackRetries
  <2> DEFINE r == OnTxDelayed(mac, c)
  <2>1. /\ r.mlme = mac.mlme /\ SameFirst(r.queue, mac.queue)
        /\ "AckTimeout" \in r.timers => "AckTimeout" \in mac.timers
    BY <1>1, SentAgainMatches
  <2>2. IF JoinRequested(mac)
        THEN /\ r.joined = FALSE /\ r.nodeAck = FALSE
             /\ r.retry = FALSE
        ELSE /\ r.joined = mac.joined /\ r.nodeAck = mac.nodeAck
             /\ r.retry = mac.retry /\ r.ackCnt = mac.ackCnt
             /\ r.ackRetries = mac.ackRetries
    BY <1>1, SentAgainMatches
  <2>3. mac' = r
    BY <1>1
  <2> HIDE DEF r
  <2> QED
    BY <1>2, <2>1, <2>2, <2>3
<1>4. Clocked(mac')
  BY <1>2, <1>3 DEF Welcomed, Clocked
<1>5. JoinRequested(mac) => ~mac.joined
  BY DEF JoinRequested, Settled, Sound, Welcomed, Unjoined
<1>6. mac'.joined <=> mac.joined
  BY <1>3, <1>5
<1>7. Matched(mac') /\ Unjoined(mac')
  BY <1>3, <1>6 DEF Welcomed, Matched, Unjoined, SameFirst
<1> QED
  BY <1>3, <1>4, <1>6, <1>7 DEF Advanced, Welcomed, SameFirst

LEMMA StateCheckAdvanced ==
  ASSUME Class = "A", Settled(mac), Between(mac), Counting(mac),
         Welcomed(mac), NEW c \in Choices, OnMacStateCheckTimerEvent(c)
  PROVE  Advanced(mac', mac)
<1>1. mac' = OnMacStateCheck(mac, c) /\ mac \in MacTypes
  BY DEF OnMacStateCheckTimerEvent, Settled, Sound
<1>2. Carried(mac, mac)
  BY <1>1, CarriedFromHere
<1>3. Disarmed(mac)
  BY DEF Disarmed, Welcomed, Clocked, Between, Kept, Owned
<1>4. Underway(mac, mac)
  BY <1>3 DEF Underway, Welcomed
<1>5. "MacDone" \in mac.flags => Due(mac)
  BY DEF Settled, Calm, Between, Busy, Due, Answered
<1> QED
  BY <1>1, <1>2, <1>4, <1>5, OnMacStateCheckAdvanced DEF Welcomed

(* A join request ends the session, and waits.                             *)
LEMMA JoinRequestAdvanced ==
  ASSUME Settled(mac), Between(mac), Counting(mac), Welcomed(mac),
         NEW c \in Choices, JoinRequest(c)
  PROVE  Welcomed(mac') /\ mac'.queue.cnt > 0 /\ ~(mac.queue.cnt > 0)
<1> DEFINE q == Enqueue(mac, "JOIN", "JOIN_FAIL")
           confirm == [q.confirm EXCEPT !.ack = FALSE]
           r == [q EXCEPT !.joinTrials = 0, !.maxJoin = MaxJoinTrials,
                          !.confirm = confirm]
           p == PrepareJoin(r, c)
           queue == Add(mac.queue, "JOIN", "JOIN_FAIL", FALSE)
<1>1. /\ mac' = ScheduleTx(p, c)
      /\ ~IsFull(mac.queue)
      /\ mac.state = {}
  BY DEF JoinRequest, MlmeAllowed
<1>2. mac \in MacTypes /\ mac.queue \in Queues /\ Contiguous(mac.queue)
  BY DEF Settled, Sound, MacTypes
<1>3. Settled(q)
  BY <1>1, EnqueueSettled, QueueAssumption
<1>4. mac.queue.cnt = 0 /\ "AckTimeout" \notin mac.timers
  <2>1. "MlmeReq" \notin mac.flags
    BY <1>1 DEF Counting, Busy
  <2>2. mac.queue.cnt \in Nat /\ ~(mac.queue.cnt > 0)
    BY <1>2, <2>1, QueueLenAssumption DEF Settled, Sound, Queues
  <2>3. ~mac.nodeAck
    BY <1>1, AtRest DEF Busy
  <2> QED
    BY <2>2, <2>3 DEF Welcomed, Clocked
<1>5. /\ queue.cnt = 1 /\ First(queue).request = "JOIN"
      /\ First(queue).status = "JOIN_FAIL"
  <2>1. "JOIN" \in Requests /\ "JOIN_FAIL" \in Statuses
    BY QueueAssumption
  <2> DEFINE Placed(req, status) ==
               /\ Add(mac.queue, req, status, FALSE).cnt = 1
               /\ First(Add(mac.queue, req, status, FALSE)).request = req
               /\ First(Add(mac.queue, req, status, FALSE)).status = status
  <2>2. mac.queue \in Queues /\ Contiguous(mac.queue) /\ mac.queue.cnt = 0
    BY <1>2, <1>4
  <2>3. ASSUME NEW req \in Requests, NEW status \in Statuses
        PROVE  Placed(req, status)
    BY <2>2, <2>3, FirstAdded
  <2> HIDE DEF Placed
  <2>4. Placed("JOIN", "JOIN_FAIL")
    BY <2>1, <2>3
  <2> HIDE DEF q, r, p, confirm
  <2> QED
    BY <2>4 DEF Placed
<1> HIDE DEF queue
<1>6. q.queue = queue /\ q.mlme = mac.mlme /\ q.timers = mac.timers
  <2> DEFINE s == Raise(mac, {"MlmeReq"})
  <2>1. /\ s.queue = mac.queue /\ s.mlme = mac.mlme
        /\ s.timers = mac.timers
        /\ DOMAIN s = DOMAIN mac
    BY <1>2 DEF Raise, MacTypes
  <2>2. {"queue", "mlme", "timers"} \subseteq DOMAIN mac
    BY <1>2 DEF MacTypes
  <2>3. q = [s EXCEPT !.queue = Add(@, "JOIN", "JOIN_FAIL", FALSE)]
    BY DEF Enqueue
  <2> HIDE DEF s, q
  <2>4. q = [s EXCEPT !.queue = queue]
    BY <2>1, <2>3 DEF queue
  <2> QED
    BY <2>1, <2>2, <2>4
<1> HIDE DEF q
<1>7. /\ q \in MacTypes /\ Contiguous(q.queue)
      /\ confirm \in McpsConfirms
  BY <1>3 DEF Settled, Sound, MacTypes, McpsConfirms
<1>8. MaxJoinTrials \in Nat
  BY CountAssumption
<1> HIDE DEF confirm
<1>9. /\ r \in MacTypes /\ r.queue = q.queue /\ r.mlme = q.mlme
      /\ r.timers = q.timers
  BY <1>7, <1>8 DEF MacTypes
<1> HIDE DEF r
<1>10. /\ p \in MacTypes /\ p.queue = queue /\ p.mlme = mac.mlme
       /\ p.timers = mac.timers
       /\ ~p.joined /\ ~p.nodeAck /\ ~p.retry
  BY <1>6, <1>9, PrepareJoinFields, PrepareJoinMatches
<1> HIDE DEF p
<1>11. /\ mac'.mlme = mac.mlme /\ SameFirst(mac'.queue, queue)
       /\ ~mac'.joined /\ ~mac'.nodeAck /\ ~mac'.retry
       /\ "AckTimeout" \notin mac'.timers
  <2>1. Contiguous(p.queue)
    BY <1>6, <1>7, <1>10
  <2> QED
    BY <1>1, <1>4, <1>10, <2>1, ScheduleTxMatches
<1>12. Clocked(mac')
  BY <1>11 DEF Clocked
<1>13. Matched(mac') /\ Unjoined(mac')
  BY <1>5, <1>11 DEF Welcomed, Matched, Unjoined, SameFirst
<1> QED
  BY <1>4, <1>5, <1>11, <1>12, <1>13 DEF Welcomed, SameFirst
(* A data request does nothing to the session, and no join request waits.  *)
LEMMA McpsRequestAdvanced ==
  ASSUME Settled(mac), hist \in HistTypes, Between(mac), Counting(mac),
         Welcomed(mac), NEW type \in McpsTypes, NEW long \in BOOLEAN,
         NEW c \in Choices, McpsRequest(type, long, c)
  PROVE  Advanced(mac', mac)
<1> DEFINE confirm == [type |-> "UNCONFIRMED", status |-> "ERROR",
                       ack |-> FALSE, dr |-> 0]
           retries == IF type = "CONFIRMED" THEN NbTrials ELSE 1
           dr == IF AdrOn THEN mac.dr ELSE DefaultDr
           fresh == [mac EXCEPT !.confirm = confirm, !.ackCnt = 1,
                                !.ackRetries = retries, !.dr = dr]
           frame == IF Buildable(fresh, type)
                    THEN [kind |-> type, fcnt |-> fresh.upCnt,
                          req |-> hist.reqs + 1, long |-> long]
                    ELSE NoFrame
           ack   == (type = "CONFIRMED")
           built == [fresh EXCEPT !.nodeAck = ack, !.frame = frame]
           sent  == ScheduleTx(built, c)
           ok    == [Raise(sent, {"McpsReq"}) EXCEPT !.confirm.type = type]
           no    == [built EXCEPT !.nodeAck = FALSE]
<1>1. /\ mac \in MacTypes /\ mac.queue \in Queues /\ Sound(mac)
      /\ Contiguous(mac.queue)
      /\ type \in McpsKinds
      /\ hist.reqs + 1 \in Nat
      /\ ~Busy(mac)
  BY ChoiceAssumption
     DEF Settled, Sound, MacTypes, McpsKinds, HistTypes, McpsRequest, Busy
<1>2. mac.queue.cnt = 0 /\ "AckTimeout" \notin mac.timers /\ ~mac.retry
  <2>1. "MlmeReq" \notin mac.flags
    BY <1>1 DEF Counting
  <2>2. mac.queue.cnt \in Nat /\ ~(mac.queue.cnt > 0)
    BY <1>1, <2>1, QueueLenAssumption DEF Sound, Queues
  <2>3. ~mac.nodeAck /\ ~mac.retry
    BY <1>1, AtRest
  <2> QED
    BY <2>2, <2>3 DEF Welcomed, Clocked
<1>3. \/ mac' = ok
      \/ mac' = no
  <2>1. built = PrepareFrame(fresh, type, hist.reqs + 1, long)
    BY DEF PrepareFrame
  <2> HIDE DEF built
  <2> QED
    BY <2>1 DEF McpsRequest
<1>4. /\ retries \in Nat /\ retries >= 1 /\ dr \in Datarates
      /\ confirm \in McpsConfirms
  BY <1>1, CountAssumption, DatarateAssumption, QueueAssumption
     DEF MacTypes, McpsConfirms, McpsKinds
<1> HIDE DEF retries, dr, confirm
<1>5. /\ Alike(fresh, mac)
      /\ fresh.joined = mac.joined /\ fresh.mlme = mac.mlme
      /\ fresh.retry = mac.retry
      /\ fresh.ackCnt = 1 /\ fresh.ackRetries = retries
  BY <1>1, <1>4 DEF Alike, MacTypes
<1> HIDE DEF fresh
<1>6. Alike(built, fresh)
  <2>1. built = PrepareFrame(fresh, type, hist.reqs + 1, long)
    BY DEF PrepareFrame
  <2> QED
    BY <1>1, <1>5, <2>1, PrepareFrameAlike DEF Alike
<1> HIDE DEF frame, ack
<1>7. /\ built \in MacTypes /\ built.queue = mac.queue
      /\ built.timers = mac.timers
      /\ built.joined = mac.joined /\ built.mlme = mac.mlme
      /\ ~built.retry
      /\ built.ackCnt = 1 /\ built.ackRetries = retries
  BY <1>2, <1>5, <1>6 DEF Alike, MacTypes
<1> HIDE DEF built
<1>8. ASSUME NEW r, r.queue.cnt = 0, r.joined = mac.joined,
             r.mlme = mac.mlme, ~r.retry, "AckTimeout" \notin r.timers,
             r.nodeAck => r.ackCnt <= r.ackRetries
      PROVE  Advanced(r, mac)
  <2>1. ~(r.queue.cnt > 0) /\ ~(mac.queue.cnt > 0)
    BY <1>2, <1>8
  <2>2. Clocked(r)
    BY <1>8 DEF Clocked
  <2>3. Matched(r) /\ Unjoined(r)
    BY <1>8, <2>1 DEF Matched, Unjoined, Welcomed
  <2> QED
    BY <1>8, <2>1, <2>2, <2>3 DEF Advanced, Welcomed
<1>9. CASE mac' = no
  <2>1. /\ no.queue = mac.queue /\ no.joined = mac.joined
        /\ no.mlme = mac.mlme /\ ~no.retry /\ no.timers = mac.timers
        /\ ~no.nodeAck
    BY <1>7 DEF MacTypes
  <2> HIDE DEF no
  <2> QED
    BY <1>2, <1>8, <1>9, <2>1
<1>10. CASE mac' = ok
  <2>1. /\ sent.mlme = mac.mlme /\ SameFirst(sent.queue, mac.queue)
        /\ sent.joined = mac.joined /\ ~sent.retry
        /\ sent.ackCnt = 1 /\ sent.ackRetries = retries
        /\ "AckTimeout" \notin sent.timers
    BY <1>1, <1>2, <1>7, ScheduleTxMatches
  <2>2. sent \in MacTypes
    <3>1. Sound(built)
      BY <1>1, <1>5, <1>6, AlikeKeeps
    <3> QED
      BY <3>1, ScheduleTxSound DEF Sound
  <2> HIDE DEF sent
  <2> DEFINE flags == sent.flags \cup {"McpsReq"}
             typed == [sent.confirm EXCEPT !.type = type]
             done == [sent EXCEPT !.flags = flags, !.confirm = typed]
  <2>3. ok = done
    BY <2>2 DEF Raise, MacTypes
  <2> HIDE DEF ok, flags, typed
  <2>4. /\ done.queue = sent.queue /\ done.joined = sent.joined
        /\ done.mlme = sent.mlme /\ done.retry = sent.retry
        /\ done.timers = sent.timers
        /\ done.ackCnt = sent.ackCnt /\ done.ackRetries = sent.ackRetries
    BY <2>2 DEF MacTypes
  <2> HIDE DEF done
  <2>5. done.queue.cnt = 0
    BY <1>2, <2>1, <2>4 DEF SameFirst
  <2>6. done.ackCnt <= done.ackRetries
    BY <1>4, <2>1, <2>4
  <2> QED
    BY <1>8, <1>10, <2>1, <2>3, <2>4, <2>5, <2>6
<1> QED
  BY <1>3, <1>9, <1>10
InvJ ==
  /\ InvC
  /\ CountersApply => Welcomed(mac)

LEMMA InitInvJ == Init => InvJ
<1> SUFFICES ASSUME Init
             PROVE  Welcomed(mac)
  BY InitInvC DEF InvJ
<1>1. /\ mac.timers = {} /\ mac.retry = FALSE /\ mac.nodeAck = FALSE
      /\ mac.queue.cnt = 0 /\ mac.mlme.request = "JOIN"
  BY DEF Init, EmptyQueue
<1>2. ~(mac.queue.cnt > 0)
  BY <1>1
<1> QED
  BY <1>1, <1>2 DEF Welcomed, Clocked, Matched, Unjoined

(* Every step but the join request leaves the session, and tells of a      *)
(* request that it closes with what the request has got.                   *)
LEMMA StepWelcomes ==
  ASSUME InvJ, [Next]_vars, CountersApply
  PROVE  \/ Advanced(mac', mac)
         \/ /\ \E c \in Choices : JoinRequest(c)
            /\ Welcomed(mac') /\ mac'.queue.cnt > 0
<1>1. /\ ClassAOnly /\ Class = "A" /\ "LINK_CHECK" \notin Services
      /\ Settled(mac) /\ hist \in HistTypes /\ Between(mac)
      /\ Counting(mac) /\ Welcomed(mac) /\ ~mac.ackStale
  BY DEF InvJ, InvC, InvA, Inv, CountersApply, ClassAOnly
<1>2. ASSUME NEW c \in Choices, JoinRequest(c)
      PROVE  Welcomed(mac') /\ mac'.queue.cnt > 0
  BY <1>1, <1>2, JoinRequestAdvanced
<1>3. ASSUME NEW room \in BOOLEAN, LinkCheckRequest(room)
      PROVE  FALSE
  BY <1>1, <1>3 DEF LinkCheckRequest, MlmeAllowed
<1>4. ~ContinuousWaveRequest
  BY <1>1 DEF ContinuousWaveRequest, MlmeAllowed, ClassAOnly
<1>5. ASSUME NEW type \in McpsTypes, NEW long \in BOOLEAN, NEW c \in Choices,
             McpsRequest(type, long, c)
      PROVE  Advanced(mac', mac)
  BY <1>1, <1>5, McpsRequestAdvanced
<1>6. CASE OnRadioTxDone
  BY <1>1, <1>6, TxDoneAdvanced
<1>7. ~OnRadioTxTimeout
  BY <1>1 DEF OnRadioTxTimeout, ClassAOnly, Between, Kept, Aired
<1>8. ASSUME NEW idle \in BOOLEAN, NEW late \in BOOLEAN,
             OnRadioRxFailed(idle, late)
      PROVE  Advanced(mac', mac)
  BY <1>1, <1>8, RxFailedAdvanced
<1>9. ASSUME NEW f \in Downlinks, NEW c \in Choices, OnRadioRxDoneEvent(f, c)
      PROVE  Advanced(mac', mac)
  BY <1>1, <1>9, RxDoneAdvanced
<1>10. CASE OnRxWindow1TimerEvent \/ OnRxWindow2TimerEvent
  BY <1>1, <1>10, WindowAdvanced
<1>11. CASE OnAckTimeoutTimerEvent
  BY <1>1, <1>11, AckTimeoutAdvanced
<1>12. ASSUME NEW c \in Choices, OnTxDelayedTimerEvent(c)
       PROVE  Advanced(mac', mac)
  BY <1>1, <1>12, TxDelayedAdvanced
<1>13. ASSUME NEW c \in Choices, OnMacStateCheckTimerEvent(c)
       PROVE  Advanced(mac', mac)
  BY <1>1, <1>13, StateCheckAdvanced
<1>14. CASE UNCHANGED vars
  <2>1. mac' = mac
    BY <1>14 DEF vars
  <2>2. Clocked(mac)
    BY <1>1 DEF Welcomed
  <2> QED
    BY <1>1, <2>1, <2>2, AdvancedStays
<1> QED
  BY <1>2, <1>3, <1>4, <1>5, <1>6, <1>7, <1>8, <1>9, <1>10, <1>11, <1>12,
     <1>13, <1>14 DEF Next

(* Between two callbacks of a class A device without link checks, the      *)
(* acknowledgement timer runs only for an acknowledgement that is awaited, *)
(* the request that waits is a join, it has succeeded only in a session,   *)
(* and no session is on while it waits.                                    *)
THEOREM InvarianceJ == Spec => []InvJ
<1>1. Init => InvJ
  BY InitInvJ
<1>2. InvJ /\ [Next]_vars => InvJ'
  <2> SUFFICES ASSUME InvJ, [Next]_vars, CountersApply
               PROVE  Welcomed(mac')
    BY NextInvC DEF InvJ, CountersApply, ClassAOnly
  <2> QED
    BY StepWelcomes DEF Advanced
<1> QED
  BY <1>1, <1>2, PTL DEF Spec

(* A class A device without link checks: no callback, delay, retry or join *)
(* trial ends a session, although the state check prepares a join trial    *)
(* anew, with ResetMacParameters, whenever MlmeConfirm still names the     *)
(* join and the request is open: only a new join request does.             *)
THEOREM SessionEndsOnRequest ==
  ASSUME CountersApply
  PROVE  Spec => SessionKept
<1>1. InvJ /\ [Next]_vars =>
        [mac.joined /\ ~mac'.joined => \E c \in Choices : JoinRequest(c)]_vars
  BY StepWelcomes DEF Advanced
<1> QED
  BY <1>1, InvarianceJ, PTL DEF Spec, SessionKept

(* A class A device without link checks: the join service reports success  *)
(* exactly when the device has joined, although the status is written to   *)
(* the queue by one callback, and overwritten by transmissions and failed  *)
(* windows, and reported from it by another.                               *)
THEOREM JoinToldRightly ==
  ASSUME CountersApply
  PROVE  Spec => JoinReported
<1>1. InvJ /\ [Next]_vars =>
        [Waiting(mac.queue, "JOIN") /\ ~Waiting(mac'.queue, "JOIN")
           => (mac'.mlme = [request |-> "JOIN", status |-> "OK"]
                 <=> mac'.joined)]_vars
  <2> SUFFICES ASSUME InvJ, [Next]_vars,
                      Waiting(mac.queue, "JOIN"),
                      ~Waiting(mac'.queue, "JOIN")
               PROVE  mac'.mlme = JoinSucceeded <=> mac'.joined
    BY DEF JoinSucceeded
  <2>1. mac.queue \in Queues /\ mac'.queue \in Queues
    BY NextInvC DEF InvJ, InvC, InvA, Inv, Settled, Sound, MacTypes
  <2>2. mac.queue.cnt > 0
    BY <2>1, FirstWaits
  <2>3. Welcomed(mac')
    BY StepWelcomes DEF Advanced
  <2>4. ~(mac'.queue.cnt > 0)
    BY <2>1, <2>3, FirstWaits DEF Welcomed, Matched
  <2> QED
    BY <2>2, <2>4, StepWelcomes DEF Advanced
<1> QED
  BY <1>1, InvarianceJ, PTL DEF Spec, JoinReported
=============================================================================
