------------------------- MODULE ConfirmQueueProofs -------------------------
(***************************************************************************)
(* The confirm queue keeps its ring in order and finds what it holds, for  *)
(* every length up to that of the header and every set of services, and so *)
(* implements the FIFO queue of MlmeQueue.                                 *)
(***************************************************************************)
EXTENDS ConfirmQueue, ConfirmQueueOpsProofs, SequenceTheorems

(* The inductive invariant: types alone do not bound the pointers' sums,   *)
(* so the ring's shape is carried along.                                   *)
Inv == TypeOK /\ RingInv

LEMMA InitInv == Init => Inv
BY EmptyRing DEF Init, Inv, TypeOK, RingInv, Ring

(* A step that ends in a ring and makes no callback.                       *)
LEMMA UpdateInv ==
  ASSUME NEW q \in Queues, Contiguous(q), Update(q)
  PROVE  Inv'
BY DEF Update, Inv, TypeOK, RingInv

LEMMA NextInv == Inv /\ [Next]_vars => Inv'
<1> SUFFICES ASSUME Inv, [Next]_vars
             PROVE  Inv'
  OBVIOUS
<1>1. queue \in Queues /\ Contiguous(queue)
  BY DEF Inv, TypeOK, RingInv
<1>2. CASE ConfirmQueueInit
  <2>1. EmptyQueue \in Queues /\ Contiguous(EmptyQueue)
    BY EmptyRing DEF Ring
  <2>2. Update(EmptyQueue)
    BY <1>2 DEF ConfirmQueueInit
  <2> QED
    BY <2>1, <2>2, UpdateInv
<1>3. ASSUME NEW req \in Requests, NEW status \in Statuses,
             NEW restrict \in BOOLEAN, ConfirmQueueAdd(req, status, restrict)
      PROVE  Inv'
  <2>1. /\ Add(queue, req, status, restrict) \in Queues
        /\ Contiguous(Add(queue, req, status, restrict))
    BY <1>1, AddTypes
  <2>2. Update(Add(queue, req, status, restrict))
    BY <1>3 DEF ConfirmQueueAdd
  <2> QED
    BY <2>1, <2>2, UpdateInv
<1>4. CASE ConfirmQueueRemoveLast
  <2>1. RemoveLast(queue) \in Queues /\ Contiguous(RemoveLast(queue))
    BY <1>1, RemoveLastTypes
  <2>2. Update(RemoveLast(queue))
    BY <1>4 DEF ConfirmQueueRemoveLast
  <2> QED
    BY <2>1, <2>2, UpdateInv
<1>5. ASSUME NEW req \in Requests, NEW status \in Statuses,
             ConfirmQueueSetStatus(req, status)
      PROVE  Inv'
  <2>1. /\ SetStatus(queue, req, status) \in Queues
        /\ Contiguous(SetStatus(queue, req, status))
    BY <1>1, SetStatusTypes
  <2>2. Update(SetStatus(queue, req, status))
    BY <1>5 DEF ConfirmQueueSetStatus
  <2> QED
    BY <2>1, <2>2, UpdateInv
<1>6. ASSUME NEW status \in Statuses, ConfirmQueueSetStatusCmn(status)
      PROVE  Inv'
  <2>1. /\ SetStatusCmn(queue, status) \in Queues
        /\ Contiguous(SetStatusCmn(queue, status))
    BY <1>1, SetStatusCmnTypes
  <2>2. Update(SetStatusCmn(queue, status))
    BY <1>6 DEF ConfirmQueueSetStatusCmn
  <2> QED
    BY <2>1, <2>2, UpdateInv
<1>7. CASE ConfirmQueueHandleCb
  <2> DEFINE done == HandleCb(queue, [request |-> Unset, status |-> Unset])
  <2>1. [request |-> Unset, status |-> Unset] \in Confs
    BY DEF Confs
  <2>2. done \in Passes
    BY <1>1, <2>1, HandleCbTypes
  <2>3. queue' = done.queue /\ calls' = done.calls
    BY <1>7 DEF ConfirmQueueHandleCb
  <2> HIDE DEF done
  <2> QED
    BY <2>2, <2>3 DEF Passes, Inv, TypeOK, RingInv, Confs, Confirms
<1>8. CASE UNCHANGED vars
  BY <1>8 DEF vars, Inv, TypeOK, RingInv
<1> QED
  BY <1>2, <1>3, <1>4, <1>5, <1>6, <1>7, <1>8 DEF Next

(* Every reachable state keeps the types and the ring.                     *)
THEOREM Invariance == Spec => []Inv
<1> QED
  BY InitInv, NextInv, PTL DEF Spec

(* The statics of LoRaMacConfirmQueue.c keep their types: no pointer       *)
(* leaves the array and the counter never passes the queue's length.       *)
THEOREM TypeCorrect == Spec => []TypeOK
<1>1. Inv => TypeOK
  BY DEF Inv
<1> QED
  BY <1>1, Invariance, PTL

(* The end pointer stays cnt slots after the start pointer through every   *)
(* operation, HandleCb's removals and re-additions included.               *)
THEOREM RingKept == Spec => []RingInv
<1>1. Inv => RingInv
  BY DEF Inv
<1> QED
  BY <1>1, Invariance, PTL

(* A non-empty queue is always searched correctly: GetElement returns the  *)
(* oldest live element of the request, or none if there is none.           *)
THEOREM LookupCorrect == Spec => []LookupInv
<1>1. Inv => LookupInv
  BY OldestFound DEF Inv, TypeOK, RingInv, LookupInv
<1> QED
  BY <1>1, Invariance, PTL

-----------------------------------------------------------------------------
(* The refinement of MlmeQueue, step by step.                              *)

(* The live elements are a sequence, each in a slot of its own.            *)
LEMMA LiveSlots ==
  ASSUME NEW q \in Queues
  PROVE  /\ Live(q) \in Seq(Elements)
         /\ Len(Live(q)) = q.cnt
         /\ \A n \in 1 .. q.cnt : /\ SlotOf(q, n) \in Slots
                                  /\ Live(q)[n] = q.buf[SlotOf(q, n)]
         /\ \A n, k \in 1 .. q.cnt : SlotOf(q, n) = SlotOf(q, k) => n = k
<1>1. /\ q.cnt \in Nat /\ q.cnt <= QueueLen
      /\ q.start \in 0 .. QueueLen - 1
      /\ q.buf \in [Slots -> Elements]
  BY QueueLenAssumption DEF Queues, Slots
<1>2. \A n \in 1 .. q.cnt : SlotOf(q, n) \in Slots
  BY <1>1, QueueLenAssumption DEF SlotOf, Slots
<1>3. \A n, k \in 1 .. q.cnt : SlotOf(q, n) = SlotOf(q, k) => n = k
  BY <1>1, QueueLenAssumption DEF SlotOf
<1>4. \A n \in 1 .. q.cnt : q.buf[SlotOf(q, n)] \in Elements
  BY <1>1, <1>2
<1>5. Live(q) \in Seq(Elements) /\ Len(Live(q)) = q.cnt
  BY <1>1, <1>4 DEF Live
<1>6. \A n \in 1 .. q.cnt : Live(q)[n] = q.buf[SlotOf(q, n)]
  BY DEF Live
<1> QED
  BY <1>2, <1>3, <1>5, <1>6

(* A queue whose live elements are those of a sequence, one by one, has    *)
(* that sequence.                                                          *)
LEMMA LiveEqual ==
  ASSUME NEW q \in Queues, NEW s \in Seq(Elements), Len(s) = q.cnt,
         \A n \in 1 .. q.cnt : q.buf[SlotOf(q, n)] = s[n]
  PROVE  Live(q) = s
<1>1. /\ Live(q) \in Seq(Elements) /\ Len(Live(q)) = q.cnt
      /\ \A n \in 1 .. q.cnt : Live(q)[n] = s[n]
  BY LiveSlots
<1> QED
  BY <1>1, SeqEqual

(* The functions of the ring, seen from its live elements.                 *)
LEMMA LiveAdd ==
  ASSUME NEW q \in Queues, Contiguous(q), q.cnt < QueueLen,
         NEW req \in Requests \cup {Unset},
         NEW status \in Statuses \cup {Unset}, NEW restrict \in BOOLEAN
  PROVE  Live(Add(q, req, status, restrict)) =
           Append(Live(q), [request |-> req, status |-> status,
                            ready |-> FALSE, restrict |-> restrict])
<1> DEFINE e == [request |-> req, status |-> status,
                 ready |-> FALSE, restrict |-> restrict]
           r == Add(q, req, status, restrict)
<1>1. /\ q.cnt \in Nat /\ q.start \in 0 .. QueueLen - 1
      /\ q.end \in 0 .. QueueLen - 1 /\ q.buf \in [Slots -> Elements]
      /\ e \in Elements
  BY QueueLenAssumption DEF Queues, Slots, Elements
<1>2. /\ r \in Queues /\ r.cnt = q.cnt + 1 /\ r.start = q.start
      /\ r.buf = [q.buf EXCEPT ![q.end] = e]
  <2>1. ~IsFull(q)
    BY <1>1, QueueLenAssumption DEF IsFull
  <2>2. r \in Queues
    BY AddTypes
  <2> QED
    BY <2>1, <2>2 DEF Add, Queues
<1> HIDE DEF r, e
<1>3. Live(q) \in Seq(Elements) /\ Len(Live(q)) = q.cnt
      /\ Append(Live(q), e) \in Seq(Elements)
      /\ Len(Append(Live(q), e)) = q.cnt + 1
      /\ Append(Live(q), e)[q.cnt + 1] = e
      /\ \A n \in 1 .. q.cnt : Append(Live(q), e)[n] = Live(q)[n]
  BY <1>1, LiveSlots
<1>4. SlotOf(r, q.cnt + 1) = q.end
  BY <1>1, <1>2, QueueLenAssumption DEF SlotOf, Contiguous
<1>5. ASSUME NEW n \in 1 .. q.cnt
      PROVE  r.buf[SlotOf(r, n)] = Live(q)[n]
  <2>1. SlotOf(r, n) = SlotOf(q, n)
    BY <1>2 DEF SlotOf
  <2>2. SlotOf(q, n) # q.end
    BY <1>1, QueueLenAssumption DEF SlotOf, Contiguous
  <2>3. SlotOf(q, n) \in Slots /\ Live(q)[n] = q.buf[SlotOf(q, n)]
    BY LiveSlots
  <2> QED
    BY <1>1, <1>2, <2>1, <2>2, <2>3
<1>6. r.buf[SlotOf(r, q.cnt + 1)] = e
  BY <1>1, <1>2, <1>4 DEF Slots
<1>7. \A n \in 1 .. r.cnt : r.buf[SlotOf(r, n)] = Append(Live(q), e)[n]
  BY <1>1, <1>2, <1>3, <1>5, <1>6
<1>8. Live(r) = Append(Live(q), e)
  BY <1>2, <1>3, <1>7, LiveEqual
<1> QED
  BY <1>8 DEF r, e

LEMMA LiveRemoveFirst ==
  ASSUME NEW q \in Queues, Contiguous(q), q.cnt > 0
  PROVE  /\ First(q) = Live(q)[1]
         /\ Live(RemoveFirst(q)) = Tail(Live(q))
<1> DEFINE r == RemoveFirst(q)
<1>1. /\ q.cnt \in 1 .. QueueLen /\ q.start \in 0 .. QueueLen - 1
  BY QueueLenAssumption DEF Queues, Slots
<1>2. /\ r \in Queues /\ r.cnt = q.cnt - 1 /\ r.buf = q.buf
      /\ r.start = IncreaseBufferPointer(q.start)
  <2>1. r \in Queues
    BY RemoveFirstTypes
  <2> QED
    BY <1>1, <2>1 DEF RemoveFirst, Queues
<1> HIDE DEF r
<1>3. /\ Live(q) \in Seq(Elements) /\ Len(Live(q)) = q.cnt
      /\ Tail(Live(q)) \in Seq(Elements)
      /\ Len(Tail(Live(q))) = q.cnt - 1
      /\ \A n \in 1 .. q.cnt - 1 : Tail(Live(q))[n] = Live(q)[n + 1]
  <2>1. Live(q) \in Seq(Elements) /\ Len(Live(q)) = q.cnt
    BY LiveSlots
  <2>2. Live(q) # <<>>
    BY <1>1, <2>1, EmptySeq
  <2> QED
    BY <1>1, <2>1, <2>2, HeadTailProperties
<1>4. ASSUME NEW n \in 1 .. q.cnt - 1
      PROVE  r.buf[SlotOf(r, n)] = Tail(Live(q))[n]
  <2>1. n + 1 \in 1 .. q.cnt
    BY <1>1
  <2>2. SlotOf(r, n) = SlotOf(q, n + 1)
    BY <1>1, <1>2, QueueLenAssumption DEF SlotOf, IncreaseBufferPointer
  <2>3. Live(q)[n + 1] = q.buf[SlotOf(q, n + 1)]
    BY <2>1, LiveSlots
  <2> QED
    BY <1>2, <1>3, <2>2, <2>3
<1>5. Live(r) = Tail(Live(q))
  BY <1>2, <1>3, <1>4, LiveEqual
<1>6. First(q) = Live(q)[1]
  <2>1. SlotOf(q, 1) = q.start
    BY <1>1, QueueLenAssumption DEF SlotOf
  <2>2. 1 \in 1 .. q.cnt
    BY <1>1
  <2> QED
    BY <2>1, <2>2, LiveSlots DEF First
<1> QED
  BY <1>5, <1>6 DEF r

LEMMA LiveRemoveLast ==
  ASSUME NEW q \in Queues, Contiguous(q)
  PROVE  Live(RemoveLast(q)) = SubSeq(Live(q), 1, Len(Live(q)) - 1)
<1> DEFINE r == RemoveLast(q)
           s == SubSeq(Live(q), 1, q.cnt - 1)
<1>1. /\ q.cnt \in 0 .. QueueLen /\ q.start \in 0 .. QueueLen - 1
      /\ Live(q) \in Seq(Elements) /\ Len(Live(q)) = q.cnt
  BY LiveSlots, QueueLenAssumption DEF Queues, Slots
<1>2. /\ s \in Seq(Elements)
      /\ Len(s) = IF 1 <= q.cnt - 1 THEN q.cnt - 1 ELSE 0
      /\ \A n \in 1 .. q.cnt - 1 : s[n] = Live(q)[n]
  <2>1. \A n \in 1 .. q.cnt - 1 : Live(q)[n] \in Elements
    BY <1>1, ElementOfSeq
  <2> QED
    BY <1>1, <2>1, SubSeqProperties
<1>3. r \in Queues /\ r.cnt = IF q.cnt = 0 THEN 0 ELSE q.cnt - 1
  BY RemoveLastTypes
<1>4. r.start = q.start /\ r.buf = q.buf
  BY DEF RemoveLast, Queues
<1> HIDE DEF r, s
<1>5. Len(s) = r.cnt
  BY <1>1, <1>2, <1>3
<1>6. ASSUME NEW n \in 1 .. r.cnt
      PROVE  r.buf[SlotOf(r, n)] = s[n]
  <2>1. n \in 1 .. q.cnt /\ n \in 1 .. q.cnt - 1
    BY <1>1, <1>3
  <2>2. SlotOf(r, n) = SlotOf(q, n)
    BY <1>4 DEF SlotOf
  <2>3. Live(q)[n] = q.buf[SlotOf(q, n)]
    BY <2>1, LiveSlots
  <2> QED
    BY <1>2, <1>4, <2>1, <2>2, <2>3
<1>7. Live(r) = s
  BY <1>2, <1>3, <1>5, <1>6, LiveEqual
<1> QED
  BY <1>1, <1>7 DEF r, s

LEMMA LiveSetStatus ==
  ASSUME NEW q \in Queues, Contiguous(q), NEW req, NEW status \in Statuses
  PROVE  Live(SetStatus(q, req, status)) =
           [n \in DOMAIN Live(q) |->
              IF /\ Live(q)[n].request = req
                 /\ \A k \in 1 .. n - 1 : Live(q)[k].request # req
              THEN [Live(q)[n] EXCEPT !.status = status, !.ready = TRUE]
              ELSE Live(q)[n]]
<1> DEFINE r == SetStatus(q, req, status)
           oldest(n) == /\ Live(q)[n].request = req
                        /\ \A k \in 1 .. n - 1 : Live(q)[k].request # req
           marked(n) == [Live(q)[n] EXCEPT !.status = status, !.ready = TRUE]
<1>1. r.cnt = q.cnt /\ r.start = q.start
      /\ r.buf = Marked(q, GetElement(q, req), status)
  BY DEF SetStatus, Queues
<1>2. q.cnt \in Nat
  BY QueueLenAssumption DEF Queues
<1>3. DOMAIN Live(q) = 1 .. q.cnt
  BY DEF Live
<1>4. ASSUME NEW n \in 1 .. q.cnt
      PROVE  Live(r)[n] = IF oldest(n) THEN marked(n) ELSE Live(q)[n]
  <2>1. /\ SlotOf(q, n) \in Slots
        /\ Live(q)[n] = q.buf[SlotOf(q, n)]
        /\ \A k \in 1 .. q.cnt : SlotOf(q, n) = SlotOf(q, k) => n = k
    BY LiveSlots
  <2>2. q.cnt > 0
    BY <1>2
  <2>3. SlotOf(q, n) \in GetElement(q, req) <=> oldest(n)
    <3>1. GetElement(q, req) = {SlotOf(q, k) : k \in {j \in 1 .. q.cnt : oldest(j)}}
      BY <2>2, OldestFound
    <3> HIDE DEF oldest
    <3> QED
      BY <2>1, <3>1
  <2> HIDE DEF oldest
  <2>4. Live(r)[n] = r.buf[SlotOf(q, n)]
    BY <1>1 DEF Live, SlotOf
  <2>5. Marked(q, GetElement(q, req), status)[SlotOf(q, n)] =
          IF SlotOf(q, n) \in GetElement(q, req) THEN marked(n) ELSE Live(q)[n]
    BY <2>1, <2>2 DEF Marked
  <2> QED
    BY <1>1, <2>3, <2>4, <2>5
<1> HIDE DEF oldest, marked
<1>5. Live(r) = [n \in 1 .. q.cnt |-> Live(r)[n]]
  BY <1>1 DEF Live
<1>6. Live(r) = [n \in 1 .. q.cnt |-> IF oldest(n) THEN marked(n) ELSE Live(q)[n]]
  BY <1>4, <1>5
<1> QED
  BY <1>3, <1>6 DEF oldest, marked

LEMMA LiveSetStatusCmn ==
  ASSUME NEW q \in Queues, Contiguous(q), NEW status \in Statuses
  PROVE  Live(SetStatusCmn(q, status)) =
           [n \in DOMAIN Live(q) |->
              [Live(q)[n] EXCEPT !.status = status,
                                 !.ready = @ \/ ~Live(q)[n].restrict]]
<1> DEFINE r == SetStatusCmn(q, status)
           marked(n) == [Live(q)[n] EXCEPT !.status = status,
                                           !.ready = @ \/ ~Live(q)[n].restrict]
<1>1. r.cnt = q.cnt /\ r.start = q.start /\ r.buf = MarkedCmn(q, status)
  BY DEF SetStatusCmn, Queues
<1>2. q.cnt \in Nat
  BY QueueLenAssumption DEF Queues
<1>3. DOMAIN Live(q) = 1 .. q.cnt
  BY DEF Live
<1>4. ASSUME NEW n \in 1 .. q.cnt
      PROVE  Live(r)[n] = marked(n)
  <2>1. /\ SlotOf(q, n) \in Slots
        /\ Live(q)[n] = q.buf[SlotOf(q, n)]
    BY LiveSlots
  <2>2. q.cnt > 0
    BY <1>2
  <2>3. SlotOf(q, n) \in Visited(q)
    BY <2>2, VisitedAreLive
  <2>4. Live(r)[n] = r.buf[SlotOf(q, n)]
    BY <1>1 DEF Live, SlotOf
  <2>5. MarkedCmn(q, status)[SlotOf(q, n)] = marked(n)
    BY <2>1, <2>2, <2>3 DEF MarkedCmn
  <2> QED
    BY <1>1, <2>4, <2>5
<1> HIDE DEF marked
<1>5. Live(r) = [n \in 1 .. q.cnt |-> Live(r)[n]]
  BY <1>1 DEF Live
<1>6. Live(r) = [n \in 1 .. q.cnt |-> marked(n)]
  BY <1>4, <1>5
<1> QED
  BY <1>3, <1>6 DEF marked

(* The two recursive functions of MlmeQueue have a solution: a queue has   *)
(* at most five elements, so its values can be written out.                *)
LEMMA KeptUnrolled ==
  ASSUME queue \in Queues
  PROVE  /\ Abstract!Kept[0] = <<>>
         /\ \A n \in 1 .. queue.cnt :
              Abstract!Kept[n] =
                IF Live(queue)[n].ready
                THEN Abstract!Kept[n - 1]
                ELSE Append(Abstract!Kept[n - 1], Live(queue)[n])
<1> DEFINE size == Len(Live(queue))
           step(n, s) == IF Live(queue)[n].ready
                         THEN s ELSE Append(s, Live(queue)[n])
           Solves(f) == f = [n \in 0 .. size |->
                               IF n = 0 THEN <<>> ELSE step(n, f[n - 1])]
           s1 == step(1, <<>>)
           s2 == step(2, s1)
           s3 == step(3, s2)
           s4 == step(4, s3)
           s5 == step(5, s4)
           f0 == [n \in 0 .. size |-> IF n = 0 THEN <<>> ELSE IF n = 1 THEN s1
                    ELSE IF n = 2 THEN s2 ELSE IF n = 3 THEN s3
                    ELSE IF n = 4 THEN s4 ELSE s5]
<1>1. Abstract!Kept = CHOOSE f : Solves(f)
  BY DEF Abstract!Kept
<1>2. size = queue.cnt /\ size \in 0 .. 5
  <2>1. size = queue.cnt
    BY LiveSlots
  <2>2. queue.cnt \in 0 .. QueueLen
    BY DEF Queues
  <2> QED
    BY <2>1, <2>2, QueueLenAssumption
<1> HIDE DEF size, step
<1>3. ASSUME NEW n \in 0 .. size
      PROVE  f0[n] = IF n = 0 THEN <<>> ELSE step(n, f0[n - 1])
  <2>1. n \in {0, 1, 2, 3, 4, 5}
    BY <1>2
  <2>2. n # 0 => n - 1 \in 0 .. size
    BY <1>2
  <2> QED
    BY <1>2, <2>1, <2>2
<1>4. Solves(f0)
  <2> DEFINE g0 == [n \in 0 .. size |-> IF n = 0 THEN <<>> ELSE step(n, f0[n - 1])]
  <2>1. f0 = [n \in 0 .. size |-> f0[n]]
    OBVIOUS
  <2> HIDE DEF f0
  <2> QED
    BY <1>3, <2>1
<1>5. Solves(Abstract!Kept)
  <2> HIDE DEF Solves
  <2> QED
    BY <1>1, <1>4
<1>6. \A n \in 0 .. size :
        Abstract!Kept[n] = IF n = 0 THEN <<>> ELSE step(n, Abstract!Kept[n - 1])
  BY <1>5
<1> QED
  BY <1>2, <1>6 DEF step
LEMMA ReportedUnrolled ==
  ASSUME queue \in Queues
  PROVE  /\ Abstract!Reported[0] = <<>>
         /\ \A n \in 1 .. queue.cnt :
              Abstract!Reported[n] =
                IF Live(queue)[n].ready
                THEN Append(Abstract!Reported[n - 1], Confirm(Live(queue)[n]))
                ELSE Abstract!Reported[n - 1]
<1> DEFINE size == Len(Live(queue))
           step(n, s) == IF Live(queue)[n].ready
                         THEN Append(s, Confirm(Live(queue)[n])) ELSE s
           Solves(f) == f = [n \in 0 .. size |->
                               IF n = 0 THEN <<>> ELSE step(n, f[n - 1])]
           s1 == step(1, <<>>)
           s2 == step(2, s1)
           s3 == step(3, s2)
           s4 == step(4, s3)
           s5 == step(5, s4)
           f0 == [n \in 0 .. size |-> IF n = 0 THEN <<>> ELSE IF n = 1 THEN s1
                    ELSE IF n = 2 THEN s2 ELSE IF n = 3 THEN s3
                    ELSE IF n = 4 THEN s4 ELSE s5]
<1>1. Abstract!Reported = CHOOSE f : Solves(f)
  BY DEF Abstract!Reported, Confirm
<1>2. size = queue.cnt /\ size \in 0 .. 5
  <2>1. size = queue.cnt
    BY LiveSlots
  <2>2. queue.cnt \in 0 .. QueueLen
    BY DEF Queues
  <2> QED
    BY <2>1, <2>2, QueueLenAssumption
<1> HIDE DEF size, step
<1>3. ASSUME NEW n \in 0 .. size
      PROVE  f0[n] = IF n = 0 THEN <<>> ELSE step(n, f0[n - 1])
  <2>1. n \in {0, 1, 2, 3, 4, 5}
    BY <1>2
  <2>2. n # 0 => n - 1 \in 0 .. size
    BY <1>2
  <2> QED
    BY <1>2, <2>1, <2>2
<1>4. Solves(f0)
  <2> DEFINE g0 == [n \in 0 .. size |-> IF n = 0 THEN <<>> ELSE step(n, f0[n - 1])]
  <2>1. f0 = [n \in 0 .. size |-> f0[n]]
    OBVIOUS
  <2> HIDE DEF f0
  <2> QED
    BY <1>3, <2>1
<1>5. Solves(Abstract!Reported)
  <2> HIDE DEF Solves
  <2> QED
    BY <1>1, <1>4
<1>6. \A n \in 0 .. size :
        Abstract!Reported[n] = IF n = 0 THEN <<>> ELSE step(n, Abstract!Reported[n - 1])
  BY <1>5
<1> QED
  BY <1>2, <1>6 DEF step


(* A pass of HandleCb that has handled the first n of the elements `live': *)
(* the ring holds the others, then those kept of the first n.              *)
Handled(h, live, kept, n) ==
  /\ h \in Passes
  /\ kept \in Seq(Elements)
  /\ Len(Live(h.queue)) = Len(live) - n + Len(kept)
  /\ \A i \in 1 .. Len(live) - n : Live(h.queue)[i] = live[n + i]
  /\ \A i \in 1 .. Len(kept) : Live(h.queue)[Len(live) - n + i] = kept[i]

(* HandleOne reports the next element, or keeps it behind the others.      *)
LEMMA HandleOneHandles ==
  ASSUME NEW live \in Seq(Elements), Len(live) <= QueueLen,
         NEW n \in 0 .. Len(live) - 1, NEW h, NEW kept,
         Handled(h, live, kept, n)
  PROVE  LET e == live[n + 1]
             r == HandleOne(h)
         IN  IF e.ready
             THEN /\ Handled(r, live, kept, n + 1)
                  /\ r.calls = Append(h.calls, Confirm(e))
             ELSE /\ Handled(r, live, Append(kept, e), n + 1)
                  /\ r.calls = h.calls
<1> DEFINE e == live[n + 1]
           r == HandleOne(h)
           q == h.queue
           rest == RemoveFirst(q)
<1>1. /\ h \in Passes /\ q \in Queues /\ Contiguous(q)
      /\ h.calls \in Seq(Confs)
      /\ kept \in Seq(Elements)
  BY DEF Handled, Passes
<1>2. Len(live) \in Nat /\ Len(kept) \in Nat /\ n + 1 \in 1 .. Len(live)
      /\ e \in Elements
  BY <1>1, LenProperties, ElementOfSeq
<1>3. /\ Len(Live(q)) = Len(live) - n + Len(kept)
      /\ \A i \in 1 .. Len(live) - n : Live(q)[i] = live[n + i]
      /\ \A i \in 1 .. Len(kept) : Live(q)[Len(live) - n + i] = kept[i]
  BY DEF Handled
<1>4. /\ Live(q) \in Seq(Elements) /\ q.cnt = Len(Live(q))
      /\ q.cnt \in 0 .. QueueLen /\ q.cnt > 0
  <2>1. Live(q) \in Seq(Elements) /\ q.cnt = Len(Live(q))
    BY <1>1, LiveSlots
  <2>2. q.cnt \in 0 .. QueueLen
    BY <1>1 DEF Queues
  <2> QED
    BY <1>2, <1>3, <2>1, <2>2
<1>5. First(q) = e /\ Live(rest) = Tail(Live(q))
  <2>1. First(q) = Live(q)[1] /\ Live(rest) = Tail(Live(q))
    BY <1>1, <1>4, LiveRemoveFirst
  <2>2. 1 \in 1 .. Len(live) - n
    BY <1>2
  <2> QED
    BY <1>3, <2>1, <2>2
<1>6. /\ rest \in Queues /\ Contiguous(rest) /\ rest.cnt = q.cnt - 1
  BY <1>1, <1>4, RemoveFirstTypes
<1>7. /\ Live(rest) \in Seq(Elements)
      /\ Len(Live(rest)) = Len(live) - (n + 1) + Len(kept)
      /\ \A i \in 1 .. Len(live) - (n + 1) + Len(kept) :
           Live(rest)[i] = Live(q)[i + 1]
  <2>1. Live(q) # <<>>
    BY <1>4, EmptySeq
  <2>2. /\ Tail(Live(q)) \in Seq(Elements)
        /\ Len(Tail(Live(q))) = Len(Live(q)) - 1
        /\ \A i \in 1 .. Len(Tail(Live(q))) : Tail(Live(q))[i] = Live(q)[i + 1]
    BY <1>4, <2>1, HeadTailProperties
  <2>3. Len(Live(q)) - 1 = Len(live) - (n + 1) + Len(kept)
    BY <1>2, <1>3
  <2> QED
    BY <1>5, <2>2, <2>3
<1>8. \A i \in 1 .. Len(live) - (n + 1) : Live(rest)[i] = live[(n + 1) + i]
  <2> SUFFICES ASSUME NEW i \in 1 .. Len(live) - (n + 1)
               PROVE  Live(rest)[i] = live[(n + 1) + i]
    OBVIOUS
  <2>1. /\ i \in 1 .. Len(live) - (n + 1) + Len(kept)
        /\ i + 1 \in 1 .. Len(live) - n
        /\ n + (i + 1) = (n + 1) + i
    BY <1>2
  <2> QED
    BY <1>3, <1>7, <2>1
<1>9. \A i \in 1 .. Len(kept) : Live(rest)[Len(live) - (n + 1) + i] = kept[i]
  <2> SUFFICES ASSUME NEW i \in 1 .. Len(kept)
               PROVE  Live(rest)[Len(live) - (n + 1) + i] = kept[i]
    OBVIOUS
  <2>1. /\ Len(live) - (n + 1) + i \in 1 .. Len(live) - (n + 1) + Len(kept)
        /\ Len(live) - (n + 1) + i + 1 = Len(live) - n + i
    BY <1>2
  <2> QED
    BY <1>3, <1>7, <2>1
<1>10. r \in Passes
  BY <1>1, HandleOneTypes
<1> HIDE DEF rest, q
<1>11. CASE e.ready
  <2>1. r.queue = rest /\ r.calls = Append(h.calls, Confirm(e))
    BY <1>5, <1>11 DEF HandleOne, ReportFirst, Passed, rest, q
  <2>2. Handled(r, live, kept, n + 1)
    BY <1>1, <1>7, <1>8, <1>9, <1>10, <2>1 DEF Handled
  <2> QED
    BY <1>11, <2>1, <2>2
<1>12. CASE ~e.ready
  <2> DEFINE more == Append(kept, e)
  <2>1. r.queue = AddAgain(rest, e) /\ r.calls = h.calls
    BY <1>5, <1>12 DEF HandleOne, MoveFirstBack, Passed, rest, q
  <2>2. Live(AddAgain(rest, e)) = Append(Live(rest), e)
    <3>1. /\ e.request \in Requests \cup {Unset}
          /\ e.status \in Statuses \cup {Unset} /\ e.restrict \in BOOLEAN
          /\ e = [request |-> e.request, status |-> e.status,
                  ready |-> FALSE, restrict |-> e.restrict]
      BY <1>2, <1>12 DEF Elements
    <3>2. rest.cnt < QueueLen
      BY <1>4, <1>6, QueueLenAssumption
    <3>3. AddAgain(rest, e) = Add(rest, e.request, e.status, e.restrict)
      BY DEF AddAgain
    <3> HIDE DEF e
    <3>4. Live(Add(rest, e.request, e.status, e.restrict)) =
            Append(Live(rest), [request |-> e.request, status |-> e.status,
                                ready |-> FALSE, restrict |-> e.restrict])
      BY <1>6, <3>1, <3>2, LiveAdd
    <3> QED
      BY <3>1, <3>3, <3>4
  <2>3. /\ more \in Seq(Elements) /\ Len(more) = Len(kept) + 1
        /\ \A i \in 1 .. Len(kept) : more[i] = kept[i]
        /\ more[Len(kept) + 1] = e
    BY <1>1, <1>2
  <2>4. /\ Len(Live(r.queue)) = Len(Live(rest)) + 1
        /\ \A i \in 1 .. Len(Live(rest)) : Live(r.queue)[i] = Live(rest)[i]
        /\ Live(r.queue)[Len(Live(rest)) + 1] = e
    BY <1>2, <1>7, <2>1, <2>2
  <2> HIDE DEF more, e, r
  <2>5. Len(Live(r.queue)) = Len(live) - (n + 1) + Len(more)
    BY <1>2, <1>7, <2>3, <2>4
  <2>6. ASSUME NEW i \in 1 .. Len(live) - (n + 1)
        PROVE  Live(r.queue)[i] = live[(n + 1) + i]
    <3>1. i \in 1 .. Len(Live(rest))
      BY <1>2, <1>7
    <3> QED
      BY <1>8, <2>4, <3>1
  <2>7. ASSUME NEW i \in 1 .. Len(more)
        PROVE  Live(r.queue)[Len(live) - (n + 1) + i] = more[i]
    <3>1. CASE i = Len(kept) + 1
      <4>1. Len(live) - (n + 1) + i = Len(Live(rest)) + 1
        BY <1>2, <1>7, <3>1
      <4> QED
        BY <2>3, <2>4, <3>1, <4>1
    <3>2. CASE i # Len(kept) + 1
      <4>1. i \in 1 .. Len(kept)
            /\ Len(live) - (n + 1) + i \in 1 .. Len(Live(rest))
        BY <1>2, <1>7, <2>3, <3>2
      <4> QED
        BY <1>9, <2>3, <2>4, <4>1
    <3> QED
      BY <3>1, <3>2
  <2>8. Handled(r, live, more, n + 1)
    BY <1>10, <2>3, <2>5, <2>6, <2>7 DEF Handled
  <2> QED
    BY <1>12, <2>1, <2>8 DEF more, e, r
<1> QED
  BY <1>11, <1>12

(* The ring's HandleCb is the queue's: the elements that were ready are    *)
(* reported, the others are kept, both in their order.                     *)
LEMMA HandleCbAbstract ==
  ASSUME queue \in Queues, Contiguous(queue), NEW conf \in Confs
  PROVE  /\ Live(HandleCb(queue, conf).queue) = Abstract!Kept[queue.cnt]
         /\ HandleCb(queue, conf).calls = Abstract!Reported[queue.cnt]
         /\ HandleCb(queue, conf).queue.cmn = queue.cmn
<1> DEFINE live == Live(queue)
           kept(n) == Abstract!Kept[n]
           reported(n) == Abstract!Reported[n]
           Pass(n, h) == IF n <= queue.cnt THEN HandleOne(h) ELSE h
           Good(h, n) == /\ Handled(h, live, kept(n), n)
                         /\ h.calls = reported(n)
                         /\ h.queue.cmn = queue.cmn
           least(n) == IF n <= queue.cnt THEN n ELSE queue.cnt
           h0 == Passed(queue, <<>>, conf)
<1>1. /\ live \in Seq(Elements) /\ Len(live) = queue.cnt
      /\ queue.cnt \in 0 .. QueueLen /\ queue.cnt \in 0 .. 5
  <2>1. live \in Seq(Elements) /\ Len(live) = queue.cnt
    BY LiveSlots
  <2>2. queue.cnt \in 0 .. QueueLen
    BY DEF Queues
  <2> QED
    BY <2>1, <2>2, QueueLenAssumption
<1>2. Good(h0, 0)
  <2>1. h0 \in Passes /\ h0.queue = queue /\ h0.calls = <<>>
    BY DEF Passes, Passed
  <2>2. kept(0) = <<>> /\ reported(0) = <<>>
    BY KeptUnrolled, ReportedUnrolled
  <2>3. Len(<<>>) = 0 /\ <<>> \in Seq(Elements)
    BY EmptySeq
  <2> HIDE DEF kept, reported, h0
  <2>4. Handled(h0, live, kept(0), 0)
    <3>1. Len(Live(h0.queue)) = Len(live) - 0 + Len(kept(0))
      BY <1>1, <2>1, <2>2, <2>3
    <3>2. \A i \in 1 .. Len(live) - 0 : Live(h0.queue)[i] = live[0 + i]
      BY <1>1, <2>1
    <3>3. \A i \in 1 .. Len(kept(0)) : FALSE
      BY <2>2, <2>3
    <3> QED
      BY <2>1, <2>2, <2>3, <3>1, <3>2, <3>3 DEF Handled
  <2> QED
    BY <2>1, <2>2, <2>4
<1>3. ASSUME NEW n \in 0 .. 4, NEW h, Good(h, least(n))
      PROVE  Good(Pass(n + 1, h), least(n + 1))
  <2>1. CASE n + 1 <= queue.cnt
    <3>1. n \in 0 .. Len(live) - 1 /\ least(n) = n /\ least(n + 1) = n + 1
          /\ n + 1 \in 1 .. queue.cnt /\ (n + 1) - 1 = n
      BY <1>1, <2>1
    <3>2. /\ kept(n + 1) = IF live[n + 1].ready
                           THEN kept(n) ELSE Append(kept(n), live[n + 1])
          /\ reported(n + 1) = IF live[n + 1].ready
                               THEN Append(reported(n), Confirm(live[n + 1]))
                               ELSE reported(n)
      BY <3>1, KeptUnrolled, ReportedUnrolled
    <3>3. HandleOne(h).queue.cmn = h.queue.cmn
      <4>1. h.queue \in Queues /\ Contiguous(h.queue)
        BY <1>3 DEF Handled, Passes
      <4>2. RemoveFirst(h.queue) \in Queues
            /\ RemoveFirst(h.queue).cmn = h.queue.cmn
        BY <4>1, RemoveFirstTypes DEF RemoveFirst, Queues
      <4>3. ASSUME NEW req, NEW status, NEW restrict
            PROVE  Add(RemoveFirst(h.queue), req, status, restrict).cmn
                     = h.queue.cmn
        BY <4>2 DEF Add, Queues
      <4>4. ReportFirst(h).queue.cmn = h.queue.cmn
        BY <4>2 DEF ReportFirst, Passed
      <4>5. MoveFirstBack(h).queue =
              AddAgain(RemoveFirst(h.queue), First(h.queue))
        BY DEF MoveFirstBack, Passed
      <4>6. MoveFirstBack(h).queue.cmn = h.queue.cmn
        BY <4>3, <4>5 DEF AddAgain
      <4> QED
        BY <4>4, <4>6 DEF HandleOne
    <3> HIDE DEF kept, reported, live
    <3>4. Handled(h, live, kept(n), n)
      BY <1>3, <3>1
    <3>5. Len(live) <= QueueLen
      BY <1>1, QueueLenAssumption
    <3>6. IF live[n + 1].ready
          THEN /\ Handled(HandleOne(h), live, kept(n), n + 1)
               /\ HandleOne(h).calls = Append(h.calls, Confirm(live[n + 1]))
          ELSE /\ Handled(HandleOne(h), live, Append(kept(n), live[n + 1]), n + 1)
               /\ HandleOne(h).calls = h.calls
      BY <1>1, <3>1, <3>4, <3>5, HandleOneHandles
    <3>7. Good(HandleOne(h), n + 1)
      BY <1>3, <3>1, <3>2, <3>3, <3>6
    <3> QED
      BY <2>1, <3>1, <3>7
  <2>2. CASE ~(n + 1 <= queue.cnt)
    <3>1. least(n) = least(n + 1)
      BY <1>1, <2>2
    <3> QED
      BY <1>3, <2>2, <3>1
  <2> QED
    BY <2>1, <2>2
<1>4. HandleCb(queue, conf) = Pass(5, Pass(4, Pass(3, Pass(2, Pass(1, h0)))))
  BY DEF HandleCb
<1>5. least(0) = 0 /\ least(5) = queue.cnt
  BY <1>1
<1> HIDE DEF Good, Pass, h0, least
<1>6. Good(HandleCb(queue, conf), queue.cnt)
  <2>1. Good(Pass(1, h0), least(1))
    BY <1>2, <1>3, <1>5
  <2>2. Good(Pass(2, Pass(1, h0)), least(2))
    BY <1>3, <2>1
  <2>3. Good(Pass(3, Pass(2, Pass(1, h0))), least(3))
    BY <1>3, <2>2
  <2>4. Good(Pass(4, Pass(3, Pass(2, Pass(1, h0)))), least(4))
    BY <1>3, <2>3
  <2>5. Good(Pass(5, Pass(4, Pass(3, Pass(2, Pass(1, h0))))), least(5))
    BY <1>3, <2>4
  <2> QED
    BY <1>4, <1>5, <2>5
<1> DEFINE done == HandleCb(queue, conf)
<1>7. /\ Handled(done, live, kept(queue.cnt), queue.cnt)
      /\ done.calls = reported(queue.cnt) /\ done.queue.cmn = queue.cmn
  BY <1>6 DEF Good
<1> HIDE DEF done, live, kept, reported
<1>8. Live(done.queue) = kept(queue.cnt)
  <2>1. done.queue \in Queues
    BY <1>7 DEF Handled, Passes
  <2>2. Live(done.queue) \in Seq(Elements)
    BY <2>1, LiveSlots
  <2>3. /\ kept(queue.cnt) \in Seq(Elements)
        /\ Len(kept(queue.cnt)) \in Nat
        /\ Len(Live(done.queue)) = queue.cnt - queue.cnt + Len(kept(queue.cnt))
        /\ \A i \in 1 .. Len(kept(queue.cnt)) :
             Live(done.queue)[queue.cnt - queue.cnt + i] = kept(queue.cnt)[i]
    BY <1>1, <1>7, LenProperties DEF Handled
  <2>4. /\ Len(Live(done.queue)) = Len(kept(queue.cnt))
        /\ \A i \in 1 .. Len(kept(queue.cnt)) :
             Live(done.queue)[i] = kept(queue.cnt)[i]
    BY <1>1, <2>3
  <2> QED
    BY <2>2, <2>3, <2>4, SeqEqual
<1> QED
  BY <1>7, <1>8 DEF done, kept, reported


(* LoRaMacConfirmQueueInit starts the queue empty.                         *)
LEMMA InitRefines == Init => Abstract!Init
<1> SUFFICES ASSUME Init
             PROVE  Abstract!Init
  OBVIOUS
<1>1. queue = EmptyQueue /\ calls = <<>>
  BY DEF Init
<1>2. Live(EmptyQueue) \in Seq(Elements) /\ Len(Live(EmptyQueue)) = 0
  BY EmptyRing, LiveSlots DEF Ring
<1>3. Live(EmptyQueue) = <<>>
  BY <1>2, EmptySeq
<1>4. EmptyQueue.cmn = "ERROR"
  BY DEF EmptyQueue
<1> QED
  BY <1>1, <1>3, <1>4 DEF Abstract!Init

(* Each function of the ring is the operation of the same name of the      *)
(* queue.                                                                  *)
LEMMA NextRefines == Inv /\ [Next]_vars => [Abstract!Next]_(Abstract!vars)
<1> SUFFICES ASSUME Inv, [Next]_vars
             PROVE  Abstract!Next \/ UNCHANGED Abstract!vars
  OBVIOUS
<1>1. queue \in Queues /\ Contiguous(queue)
  BY DEF Inv, TypeOK, RingInv
<1>2. /\ Live(queue) \in Seq(Elements) /\ Len(Live(queue)) = queue.cnt
      /\ queue.cnt \in 0 .. QueueLen
  <2>1. queue.cnt \in 0 .. QueueLen
    BY <1>1 DEF Queues
  <2> QED
    BY <1>1, <2>1, LiveSlots
<1>3. CASE ConfirmQueueInit
  <2>1. queue' = EmptyQueue /\ calls' = <<>>
    BY <1>3 DEF ConfirmQueueInit, Update
  <2>2. Live(EmptyQueue) \in Seq(Elements) /\ Len(Live(EmptyQueue)) = 0
    BY EmptyRing, LiveSlots DEF Ring
  <2>3. Live(EmptyQueue) = <<>> /\ EmptyQueue.cmn = "ERROR"
    BY <2>2, EmptySeq DEF EmptyQueue
  <2>4. Live(queue)' = <<>> /\ queue.cmn' = "ERROR"
    BY <2>1, <2>3
  <2>5. Abstract!Reset
    BY <2>1, <2>4 DEF Abstract!Reset
  <2> QED
    BY <2>5 DEF Abstract!Next
<1>4. ASSUME NEW req \in Requests, NEW status \in Statuses,
             NEW restrict \in BOOLEAN, ConfirmQueueAdd(req, status, restrict)
      PROVE  Abstract!Next
  <2> DEFINE r == Add(queue, req, status, restrict)
             e == [request |-> req, status |-> status,
                   ready |-> FALSE, restrict |-> restrict]
  <2>1. queue' = r /\ calls' = <<>>
    BY <1>4 DEF ConfirmQueueAdd, Update
  <2>2. r.cmn = queue.cmn
    BY <1>1 DEF Add, Queues
  <2>3. Live(r) = IF Len(Live(queue)) < QueueLen
                  THEN Append(Live(queue), e) ELSE Live(queue)
    <3>1. CASE queue.cnt < QueueLen
      BY <1>1, <1>2, <3>1, LiveAdd
    <3>2. CASE ~(queue.cnt < QueueLen)
      <4>1. IsFull(queue)
        BY <1>2, <3>2, QueueLenAssumption DEF IsFull
      <4> QED
        BY <1>2, <3>2, <4>1 DEF Add
    <3> QED
      BY <3>1, <3>2
  <2> HIDE DEF r, e
  <2>4. Live(queue)' = Live(r) /\ queue.cmn' = queue.cmn
    BY <2>1, <2>2
  <2>5. Abstract!Add(req, status, restrict)
    BY <2>1, <2>3, <2>4 DEF Abstract!Add, e
  <2> QED
    BY <2>5 DEF Abstract!Next
<1>5. CASE ConfirmQueueRemoveLast
  <2>1. queue' = RemoveLast(queue) /\ calls' = <<>>
    BY <1>5 DEF ConfirmQueueRemoveLast, Update
  <2>2. RemoveLast(queue).cmn = queue.cmn
    BY <1>1 DEF RemoveLast, Queues
  <2>3. Live(queue)' = SubSeq(Live(queue), 1, Len(Live(queue)) - 1)
    BY <1>1, <2>1, LiveRemoveLast
  <2>4. Abstract!RemoveLast
    BY <2>1, <2>2, <2>3 DEF Abstract!RemoveLast
  <2> QED
    BY <2>4 DEF Abstract!Next
<1>6. ASSUME NEW req \in Requests, NEW status \in Statuses,
             ConfirmQueueSetStatus(req, status)
      PROVE  Abstract!Next
  <2>1. queue' = SetStatus(queue, req, status) /\ calls' = <<>>
    BY <1>6 DEF ConfirmQueueSetStatus, Update
  <2>2. SetStatus(queue, req, status).cmn = queue.cmn
    BY <1>1, SetStatusTypes
  <2>3. Live(queue)' = Live(SetStatus(queue, req, status))
    BY <2>1
  <2>4. Abstract!SetStatus(req, status)
    BY <1>1, <2>1, <2>2, <2>3, LiveSetStatus DEF Abstract!SetStatus
  <2> QED
    BY <2>4 DEF Abstract!Next
<1>7. ASSUME NEW status \in Statuses, ConfirmQueueSetStatusCmn(status)
      PROVE  Abstract!Next
  <2>1. queue' = SetStatusCmn(queue, status) /\ calls' = <<>>
    BY <1>7 DEF ConfirmQueueSetStatusCmn, Update
  <2>2. SetStatusCmn(queue, status).cmn = status
    BY <1>1, SetStatusCmnTypes
  <2>3. Live(queue)' = Live(SetStatusCmn(queue, status))
    BY <2>1
  <2>4. Abstract!SetStatusCmn(status)
    BY <1>1, <2>1, <2>2, <2>3, LiveSetStatusCmn DEF Abstract!SetStatusCmn
  <2> QED
    BY <2>4 DEF Abstract!Next
<1>8. CASE ConfirmQueueHandleCb
  <2> DEFINE done == HandleCb(queue, [request |-> Unset, status |-> Unset])
  <2>1. queue' = done.queue /\ calls' = done.calls
    BY <1>8 DEF ConfirmQueueHandleCb
  <2>2. /\ Live(done.queue) = Abstract!Kept[queue.cnt]
        /\ done.calls = Abstract!Reported[queue.cnt]
        /\ done.queue.cmn = queue.cmn
    <3>1. [request |-> Unset, status |-> Unset] \in Confs
      BY DEF Confs
    <3> QED
      BY <1>1, <3>1, HandleCbAbstract
  <2> HIDE DEF done
  <2>3. /\ Live(queue)' = Abstract!Kept[Len(Live(queue))]
        /\ calls' = Abstract!Reported[Len(Live(queue))]
        /\ queue.cmn' = queue.cmn
    BY <1>2, <2>1, <2>2
  <2>4. Abstract!HandleCb
    BY <2>3 DEF Abstract!HandleCb
  <2> QED
    BY <2>4 DEF Abstract!Next
<1>9. CASE UNCHANGED vars
  BY <1>9 DEF vars, Abstract!vars
<1> QED
  BY <1>3, <1>4, <1>5, <1>6, <1>7, <1>8, <1>9 DEF Next

(* The ring buffer implements the FIFO queue: whatever the MAC calls, the  *)
(* live slots behave as MlmeQueue says.  HandleCb, which re-adds what is   *)
(* not ready to the ring it is reading, loses, reorders and repeats        *)
(* nothing, for every length of the queue and every set of services.       *)
THEOREM Implementation == Spec => ImplementsMlmeQueue
<1> QED
  BY InitRefines, NextRefines, Invariance, PTL
     DEF Spec, ImplementsMlmeQueue, Abstract!Spec
=============================================================================
