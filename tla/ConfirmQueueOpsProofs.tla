------------------------ MODULE ConfirmQueueOpsProofs ------------------------
(***************************************************************************)
(* What the functions of LoRaMacConfirmQueue.c preserve, for every length  *)
(* of the queue.  The proofs about the queue on its own and about the MAC  *)
(* that uses it rest on these lemmas.                                      *)
(***************************************************************************)
EXTENDS ConfirmQueueOps, TLAPS

(* A queue of the declared types whose pointers and counter agree.         *)
Ring(q) == q \in Queues /\ Contiguous(q)

(* Init: LoRaMacConfirmQueueInit leaves an empty ring.                     *)
LEMMA EmptyRing == Ring(EmptyQueue) /\ EmptyQueue.cnt = 0
BY QueueLenAssumption, StatusAssumption
   DEF Ring, Queues, Contiguous, EmptyQueue, Blank, Elements, Slots

(* The pointer functions stay inside the array.                            *)
LEMMA PointersInRing ==
  ASSUME NEW i \in Slots
  PROVE  IncreaseBufferPointer(i) \in Slots /\ DecreaseBufferPointer(i) \in Slots
BY QueueLenAssumption DEF Slots, IncreaseBufferPointer, DecreaseBufferPointer

(* LoRaMacConfirmQueueAdd: one more element, unless the queue is full.     *)
LEMMA AddTypes ==
  ASSUME NEW q \in Queues, NEW req \in Requests \cup {Unset},
         NEW status \in Statuses \cup {Unset}, NEW restrict \in BOOLEAN
  PROVE  /\ Add(q, req, status, restrict) \in Queues
         /\ Add(q, req, status, restrict).cnt =
              IF q.cnt = QueueLen THEN q.cnt ELSE q.cnt + 1
         /\ Contiguous(q) => Contiguous(Add(q, req, status, restrict))
<1>1. CASE IsFull(q)
  BY <1>1, QueueLenAssumption DEF Add, IsFull, Queues
<1>2. CASE ~IsFull(q)
  <2> DEFINE e == [request |-> req, status |-> status,
                   ready |-> FALSE, restrict |-> restrict]
             r == [q EXCEPT !.buf[q.end] = e, !.cnt = @ + 1,
                            !.end = IncreaseBufferPointer(@)]
  <2>1. Add(q, req, status, restrict) = r
    BY <1>2 DEF Add
  <2>2. /\ q.cnt \in 0 .. QueueLen - 1
        /\ q.start \in Slots
        /\ q.end \in Slots
        /\ e \in Elements
    BY <1>2, QueueLenAssumption DEF IsFull, Queues, Elements
  <2>3. /\ r \in Queues
        /\ r.cnt = q.cnt + 1
        /\ r.start = q.start
        /\ r.end = IncreaseBufferPointer(q.end)
    <3>1. [q.buf EXCEPT ![q.end] = e] \in [Slots -> Elements]
      BY <2>2 DEF Queues
    <3>2. r = [q EXCEPT !.buf = [q.buf EXCEPT ![q.end] = e],
                        !.cnt = q.cnt + 1,
                        !.end = IncreaseBufferPointer(q.end)]
      BY DEF Queues
    <3>3. q.cnt + 1 \in 0 .. QueueLen /\ IncreaseBufferPointer(q.end) \in Slots
      BY <2>2, PointersInRing, QueueLenAssumption
    <3> QED
      BY <3>1, <3>2, <3>3 DEF Queues
  <2>4. Contiguous(q) => Contiguous(r)
    BY <2>2, <2>3, QueueLenAssumption
       DEF Contiguous, IncreaseBufferPointer, Slots
  <2> QED
    BY <2>1, <2>2, <2>3, <2>4, QueueLenAssumption
<1> QED
  BY <1>1, <1>2

(* LoRaMacConfirmQueueRemoveLast and RemoveFirst: one element less, unless *)
(* there is none.                                                          *)
LEMMA RemoveLastTypes ==
  ASSUME NEW q \in Queues
  PROVE  /\ RemoveLast(q) \in Queues
         /\ RemoveLast(q).cnt = IF q.cnt = 0 THEN 0 ELSE q.cnt - 1
         /\ Contiguous(q) => Contiguous(RemoveLast(q))
<1> DEFINE r == [q EXCEPT !.cnt = @ - 1, !.end = DecreaseBufferPointer(@)]
<1>1. CASE q.cnt = 0
  BY <1>1 DEF RemoveLast
<1>2. CASE q.cnt # 0
  <2>1. RemoveLast(q) = r
    BY <1>2 DEF RemoveLast
  <2>2. q.cnt - 1 \in 0 .. QueueLen /\ DecreaseBufferPointer(q.end) \in Slots
    BY <1>2, PointersInRing, QueueLenAssumption DEF Queues
  <2>3. /\ r \in Queues
        /\ r.cnt = q.cnt - 1
        /\ r.start = q.start
        /\ r.end = DecreaseBufferPointer(q.end)
    BY <2>2 DEF Queues
  <2>4. Contiguous(q) => Contiguous(r)
    <3> HIDE DEF r
    <3>1. q.cnt \in 1 .. QueueLen /\ q.start \in Slots /\ q.end \in Slots
      BY <1>2, QueueLenAssumption DEF Queues
    <3> QED
      BY <3>1, <2>3, QueueLenAssumption
         DEF Contiguous, DecreaseBufferPointer, Slots
  <2> QED
    BY <1>2, <2>1, <2>3, <2>4
<1> QED
  BY <1>1, <1>2

LEMMA RemoveFirstTypes ==
  ASSUME NEW q \in Queues
  PROVE  /\ RemoveFirst(q) \in Queues
         /\ RemoveFirst(q).cnt = IF q.cnt = 0 THEN 0 ELSE q.cnt - 1
         /\ Contiguous(q) => Contiguous(RemoveFirst(q))
<1> DEFINE r == [q EXCEPT !.cnt = @ - 1, !.start = IncreaseBufferPointer(@)]
<1>1. CASE q.cnt = 0
  BY <1>1 DEF RemoveFirst
<1>2. CASE q.cnt # 0
  <2>1. RemoveFirst(q) = r
    BY <1>2 DEF RemoveFirst
  <2>2. q.cnt - 1 \in 0 .. QueueLen /\ IncreaseBufferPointer(q.start) \in Slots
    BY <1>2, PointersInRing, QueueLenAssumption DEF Queues
  <2>3. /\ r \in Queues
        /\ r.cnt = q.cnt - 1
        /\ r.end = q.end
        /\ r.start = IncreaseBufferPointer(q.start)
    BY <2>2 DEF Queues
  <2>4. Contiguous(q) => Contiguous(r)
    <3> HIDE DEF r
    <3>1. q.cnt \in 1 .. QueueLen /\ q.start \in Slots /\ q.end \in Slots
      BY <1>2, QueueLenAssumption DEF Queues
    <3> QED
      BY <3>1, <2>3, QueueLenAssumption
         DEF Contiguous, IncreaseBufferPointer, Slots
  <2> QED
    BY <1>2, <2>1, <2>3, <2>4
<1> QED
  BY <1>1, <1>2

(* LoRaMacConfirmQueueSetStatus.                                           *)
LEMMA SetStatusTypes ==
  ASSUME NEW q \in Queues, NEW req, NEW status \in Statuses
  PROVE  /\ SetStatus(q, req, status) \in Queues
         /\ SetStatus(q, req, status).cnt = q.cnt
         /\ SetStatus(q, req, status).cmn = q.cmn
         /\ Contiguous(q) => Contiguous(SetStatus(q, req, status))
<1> DEFINE b == Marked(q, GetElement(q, req), status)
<1>1. b \in [Slots -> Elements]
  BY DEF Queues, Elements, Marked
<1>2. SetStatus(q, req, status) = [q EXCEPT !.buf = b]
  BY DEF SetStatus
<1> HIDE DEF b
<1> QED
  BY <1>1, <1>2 DEF Queues, Contiguous

(* LoRaMacConfirmQueueSetStatusCmn.                                        *)
LEMMA SetStatusCmnTypes ==
  ASSUME NEW q \in Queues, NEW status \in Statuses
  PROVE  /\ SetStatusCmn(q, status) \in Queues
         /\ SetStatusCmn(q, status).cnt = q.cnt
         /\ SetStatusCmn(q, status).cmn = status
         /\ Contiguous(q) => Contiguous(SetStatusCmn(q, status))
<1> DEFINE b == MarkedCmn(q, status)
<1>1. b \in [Slots -> Elements]
  <2> SUFFICES ASSUME NEW i \in Slots
               PROVE  [q.buf[i] EXCEPT !.status = status,
                         !.ready = @ \/ ~q.buf[i].restrict] \in Elements
    BY DEF Queues, MarkedCmn
  <2>1. q.buf[i] \in Elements
    BY DEF Queues
  <2> QED
    BY <2>1 DEF Elements
<1>2. SetStatusCmn(q, status) = [q EXCEPT !.buf = b, !.cmn = status]
  BY DEF SetStatusCmn
<1> HIDE DEF b
<1> QED
  BY <1>1, <1>2 DEF Queues, Contiguous

(* One pass of LoRaMacConfirmQueueHandleCb: the first element is reported  *)
(* or goes to the end of the queue.                                        *)
Confs == [request : Requests \cup {Unset}, status : Statuses \cup {Unset}]

Passes == [queue : {q \in Queues : Contiguous(q)}, calls : Seq(Confs),
           conf : Confs]

LEMMA HandleOneTypes ==
  ASSUME NEW h \in Passes
  PROVE  HandleOne(h) \in Passes
<1>1. h.queue \in Queues /\ Contiguous(h.queue) /\ h.calls \in Seq(Confs)
  BY DEF Passes
<1>2. First(h.queue) \in Elements
  BY <1>1 DEF Queues, First
<1>3. Confirm(First(h.queue)) \in Confs
  BY <1>2 DEF Elements, Confs, Confirm
<1>4. RemoveFirst(h.queue) \in Queues /\ Contiguous(RemoveFirst(h.queue))
  BY <1>1, RemoveFirstTypes
<1>5. ASSUME NEW q \in Queues, Contiguous(q), NEW e \in Elements
      PROVE  AddAgain(q, e) \in Queues /\ Contiguous(AddAgain(q, e))
  BY <1>5, AddTypes DEF Elements, AddAgain
<1>6. ASSUME NEW q \in Queues, Contiguous(q), NEW calls \in Seq(Confs),
             NEW conf \in Confs
      PROVE  Passed(q, calls, conf) \in Passes
  BY <1>6 DEF Passed, Passes
<1>7. Append(h.calls, Confirm(First(h.queue))) \in Seq(Confs)
  BY <1>1, <1>3
<1>8. ReportFirst(h) \in Passes
  BY <1>3, <1>4, <1>6, <1>7 DEF ReportFirst
<1>9. MoveFirstBack(h) \in Passes
  BY <1>1, <1>2, <1>3, <1>4, <1>5, <1>6 DEF MoveFirstBack
<1> QED
  BY <1>8, <1>9 DEF HandleOne

(* LoRaMacConfirmQueueHandleCb.                                            *)
LEMMA HandleCbTypes ==
  ASSUME NEW q \in Queues, Contiguous(q), NEW conf \in Confs
  PROVE  HandleCb(q, conf) \in Passes
<1> DEFINE Pass(n, h) == IF n <= q.cnt THEN HandleOne(h) ELSE h
           h0 == Passed(q, <<>>, conf)
<1>1. h0 \in Passes
  BY DEF Passes, Passed
<1>2. ASSUME NEW n, NEW h \in Passes
      PROVE  Pass(n, h) \in Passes
  BY HandleOneTypes
<1>3. HandleCb(q, conf) = Pass(5, Pass(4, Pass(3, Pass(2, Pass(1, h0)))))
  BY DEF HandleCb
<1> HIDE DEF Pass, h0
<1> QED
  BY <1>1, <1>2, <1>3

(* The loop of GetElement visits exactly the live slots, the n-th of them  *)
(* n - 1 slots after the start, also when the ring is full.                *)
LEMMA VisitedAreLive ==
  ASSUME NEW q \in Queues, Contiguous(q), q.cnt > 0
  PROVE  /\ \A n \in 1 .. q.cnt : /\ SlotOf(q, n) \in Visited(q)
                                  /\ Distance(q.start, SlotOf(q, n)) = n - 1
         /\ \A i \in Visited(q) :
              /\ Distance(q.start, i) + 1 \in 1 .. q.cnt
              /\ SlotOf(q, Distance(q.start, i) + 1) = i
<1>1. /\ q.cnt \in 1 .. QueueLen
      /\ q.start \in 0 .. QueueLen - 1
      /\ q.end \in 0 .. QueueLen - 1
  BY QueueLenAssumption DEF Queues, Slots
<1>2. q.end = q.start + q.cnt \/ q.end = q.start + q.cnt - QueueLen
  BY DEF Contiguous
<1> DEFINE start == q.start
           end == q.end
           cnt == q.cnt
<1>3. ASSUME NEW n \in 1 .. cnt
      PROVE  SlotOf(q, n) \in Visited(q) /\ Distance(start, SlotOf(q, n)) = n - 1
  <2>1. SlotOf(q, n) \in Slots
    BY <1>1, QueueLenAssumption DEF SlotOf, Slots
  <2>2. Distance(start, SlotOf(q, n)) = n - 1
    BY <1>1, QueueLenAssumption DEF SlotOf, Distance
  <2>3. start = end \/ n - 1 < Distance(start, end)
    BY <1>1, <1>2, QueueLenAssumption DEF Distance
  <2> QED
    BY <2>1, <2>2, <2>3 DEF Visited
<1>4. ASSUME NEW i \in Visited(q)
      PROVE  /\ Distance(start, i) + 1 \in 1 .. cnt
             /\ SlotOf(q, Distance(start, i) + 1) = i
  <2>1. i \in 0 .. QueueLen - 1
        /\ (start = end \/ Distance(start, i) < Distance(start, end))
    BY DEF Visited, Slots
  <2>2. Distance(start, i) + 1 \in 1 .. cnt
    BY <1>1, <1>2, <2>1, QueueLenAssumption DEF Distance
  <2>3. SlotOf(q, Distance(start, i) + 1) = i
    BY <1>1, <2>1, QueueLenAssumption DEF Distance, SlotOf
  <2> QED
    BY <2>2, <2>3
<1> QED
  BY <1>3, <1>4

(* GetElement finds the oldest live element of a request, and only that.   *)
LEMMA OldestFound ==
  ASSUME NEW q \in Queues, Contiguous(q), q.cnt > 0, NEW req
  PROVE  GetElement(q, req) =
           {SlotOf(q, n) : n \in
              {k \in 1 .. q.cnt :
                 /\ Live(q)[k].request = req
                 /\ \A j \in 1 .. k - 1 : Live(q)[j].request # req}}
<1> DEFINE oldest == {k \in 1 .. q.cnt :
                        /\ Live(q)[k].request = req
                        /\ \A j \in 1 .. k - 1 : Live(q)[j].request # req}
           dist(i) == Distance(q.start, i)
           req_at(i) == q.buf[i].request
<1>1. q.cnt \in Nat
  BY QueueLenAssumption DEF Queues
<1>2. \A n \in 1 .. q.cnt : /\ SlotOf(q, n) \in Visited(q)
                            /\ dist(SlotOf(q, n)) = n - 1
  BY VisitedAreLive
<1>3. \A i \in Visited(q) : /\ dist(i) + 1 \in 1 .. q.cnt
                            /\ SlotOf(q, dist(i) + 1) = i
                            /\ dist(i) \in Int
  <2>1. \A i \in Visited(q) : dist(i) \in Int
    BY QueueLenAssumption DEF Visited, Distance, Queues, Slots
  <2> QED
    BY <2>1, VisitedAreLive
<1>4. \A n \in 1 .. q.cnt : Live(q)[n].request = req_at(SlotOf(q, n))
  BY DEF Live
<1>5. \A i : i \in GetElement(q, req) <=>
               /\ i \in Visited(q)
               /\ req_at(i) = req
               /\ \A j \in Visited(q) : req_at(j) = req => dist(i) <= dist(j)
  BY DEF GetElement
<1>6. \A k : k \in oldest <=>
               /\ k \in 1 .. q.cnt
               /\ req_at(SlotOf(q, k)) = req
               /\ \A j \in 1 .. k - 1 : req_at(SlotOf(q, j)) # req
  <2>1. \A k \in 1 .. q.cnt : \A j \in 1 .. k - 1 : j \in 1 .. q.cnt
    BY <1>1
  <2> QED
    BY <2>1, <1>4
<1> HIDE DEF oldest, dist, req_at
<1>7. ASSUME NEW i \in GetElement(q, req)
      PROVE  dist(i) + 1 \in oldest /\ SlotOf(q, dist(i) + 1) = i
  <2>1. i \in Visited(q) /\ req_at(i) = req
    BY <1>5
  <2>2. SUFFICES ASSUME NEW j \in 1 .. (dist(i) + 1) - 1,
                        req_at(SlotOf(q, j)) = req
                 PROVE  FALSE
    BY <2>1, <1>3, <1>6
  <2>3. j \in 1 .. q.cnt /\ dist(i) \in Int /\ j <= dist(i)
    BY <1>1, <1>3, <2>1
  <2>4. SlotOf(q, j) \in Visited(q) /\ dist(SlotOf(q, j)) = j - 1
    BY <1>2, <2>3
  <2>5. dist(i) <= j - 1
    BY <1>5, <2>2, <2>4
  <2> QED
    BY <2>3, <2>5
<1>8. ASSUME NEW k \in oldest
      PROVE  SlotOf(q, k) \in GetElement(q, req)
  <2>1. k \in 1 .. q.cnt /\ req_at(SlotOf(q, k)) = req
    BY <1>6
  <2>2. SlotOf(q, k) \in Visited(q) /\ dist(SlotOf(q, k)) = k - 1
    BY <1>2, <2>1
  <2>3. ASSUME NEW i \in Visited(q), req_at(i) = req
        PROVE  k - 1 <= dist(i)
    <3>1. dist(i) \in Int /\ dist(i) + 1 \in 1 .. q.cnt
          /\ SlotOf(q, dist(i) + 1) = i
      BY <1>3
    <3>2. dist(i) + 1 \notin 1 .. k - 1
      BY <1>6, <2>3, <3>1
    <3> QED
      BY <1>1, <2>1, <3>1, <3>2
  <2> QED
    BY <1>5, <2>1, <2>2, <2>3
<1>9. GetElement(q, req) = {SlotOf(q, n) : n \in oldest}
  BY <1>7, <1>8
<1> QED
  BY <1>9 DEF oldest
=============================================================================
