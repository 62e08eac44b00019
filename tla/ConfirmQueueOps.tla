-------------------------- MODULE ConfirmQueueOps --------------------------
(***************************************************************************)
(* The MLME confirm queue of LoRaMacConfirmQueue.c as a record, and its    *)
(* functions as operators from a queue to a queue.  The array              *)
(* MlmeConfirmQueue is `buf', the pointers BufferStart and BufferEnd are   *)
(* the indices `start' and `end', MlmeConfirmQueueCnt is `cnt' and         *)
(* CommonStatus is `cmn'.  No operator is RECURSIVE, so that the modules   *)
(* that use them can be reasoned about with TLAPS.                         *)
(***************************************************************************)
EXTENDS Integers, Sequences, FiniteSets

CONSTANTS QueueLen,   \* LORA_MAC_MLME_CONFIRM_QUEUE_LEN
          Requests,   \* the values of Mlme_t a caller uses
          Statuses    \* the values of LoRaMacEventInfoStatus_t in use

(* The loop of HandleCb is written out for at most five elements, the      *)
(* length the header fixes.                                                *)
ASSUME QueueLenAssumption == QueueLen \in 1..5

ASSUME StatusAssumption == "ERROR" \in Statuses

Slots == 0 .. QueueLen - 1

(* What memset( 0xFF ) leaves in a slot: no request, no status, both       *)
(* Booleans non-zero.                                                      *)
Unset == "0xFF"
Blank == [request |-> Unset, status |-> Unset,
          ready |-> TRUE, restrict |-> TRUE]

ASSUME UnsetAssumption == Unset \notin Requests /\ Unset \notin Statuses

Elements == [request : Requests \cup {Unset},
             status : Statuses \cup {Unset},
             ready : BOOLEAN, restrict : BOOLEAN]

Queues == [buf : [Slots -> Elements], start : Slots, end : Slots,
           cnt : 0 .. QueueLen, cmn : Statuses]

(* What LoRaMacConfirmQueueInit leaves.                                    *)
EmptyQueue == [buf |-> [i \in Slots |-> Blank], start |-> 0, end |-> 0,
               cnt |-> 0, cmn |-> "ERROR"]

\* Mutant: the wrap is forgotten.
PointerPastEnd(i) == i + 1

IncreaseBufferPointer(i) == IF i = QueueLen - 1 THEN 0 ELSE i + 1

DecreaseBufferPointer(i) == IF i = 0 THEN QueueLen - 1 ELSE i - 1

(* The distance from slot i forward to slot j.                             *)
Distance(i, j) == IF i <= j THEN j - i ELSE j - i + QueueLen

\* Mutant: a while loop, which does not enter a full ring.
VisitedByWhile(q) ==
  {i \in Slots : Distance(q.start, i) < Distance(q.start, q.end)}

(* The slots a do-while loop from BufferStart to BufferEnd visits: it runs *)
(* at least once, so equal pointers mean the whole ring.                   *)
Visited(q) ==
  {i \in Slots : \/ q.start = q.end
                 \/ Distance(q.start, i) < Distance(q.start, q.end)}

(* GetElement: the first visited slot that holds the request, as a set of  *)
(* at most one slot (empty for NULL).                                      *)
GetElement(q, req) ==
  {i \in Visited(q) :
     /\ q.buf[i].request = req
     /\ \A j \in Visited(q) :
          q.buf[j].request = req =>
            Distance(q.start, i) <= Distance(q.start, j)}

IsFull(q) == q.cnt >= QueueLen

IsCmdActive(q, req) == GetElement(q, req) # {}

Add(q, req, status, restrict) ==
  IF IsFull(q)
  THEN q
  ELSE [q EXCEPT !.buf[q.end] = [request |-> req, status |-> status,
                                 ready |-> FALSE, restrict |-> restrict],
                 !.cnt = @ + 1,
                 !.end = IncreaseBufferPointer(@)]

\* Mutant: the end pointer stays where it is.
RemoveLastKeepsEnd(q) == IF q.cnt = 0 THEN q ELSE [q EXCEPT !.cnt = @ - 1]

RemoveLast(q) ==
  IF q.cnt = 0
  THEN q
  ELSE [q EXCEPT !.cnt = @ - 1, !.end = DecreaseBufferPointer(@)]

RemoveFirst(q) ==
  IF q.cnt = 0
  THEN q
  ELSE [q EXCEPT !.cnt = @ - 1, !.start = IncreaseBufferPointer(@)]

(* The elements after a status has reached those in the given slots.       *)
Marked(q, slots, status) ==
  [i \in Slots |-> IF q.cnt > 0 /\ i \in slots
                   THEN [q.buf[i] EXCEPT !.status = status, !.ready = TRUE]
                   ELSE q.buf[i]]

SetStatus(q, req, status) ==
  [q EXCEPT !.buf = Marked(q, GetElement(q, req), status)]

GetStatus(q, req) ==
  IF q.cnt = 0 \/ GetElement(q, req) = {}
  THEN "ERROR"
  ELSE q.buf[CHOOSE i \in GetElement(q, req) : TRUE].status

\* Mutant: the elements that restrict the common status are made ready.
ReadyIfRestricted(q, status) ==
  [i \in Slots |-> IF q.cnt > 0 /\ i \in Visited(q)
                   THEN [q.buf[i] EXCEPT !.status = status,
                                         !.ready = @ \/ q.buf[i].restrict]
                   ELSE q.buf[i]]

(* The common status makes an element ready unless it restricts that.      *)
MarkedCmn(q, status) ==
  [i \in Slots |-> IF q.cnt > 0 /\ i \in Visited(q)
                   THEN [q.buf[i] EXCEPT !.status = status,
                                         !.ready = @ \/ ~q.buf[i].restrict]
                   ELSE q.buf[i]]

SetStatusCmn(q, status) ==
  [q EXCEPT !.buf = MarkedCmn(q, status), !.cmn = status]

(***************************************************************************)
(* LoRaMacConfirmQueueHandleCb visits the elements counted on entry.  A    *)
(* pass `h' carries the queue, the callbacks made so far and the fields of *)
(* MlmeConfirm, which every element overwrites, ready or not.              *)
(***************************************************************************)
Confirm(e) == [request |-> e.request, status |-> e.status]

Passed(q, calls, conf) == [queue |-> q, calls |-> calls, conf |-> conf]

AddAgain(q, e) == Add(q, e.request, e.status, e.restrict)

First(q) == q.buf[q.start]

ReportFirst(h) ==
  Passed(RemoveFirst(h.queue), Append(h.calls, Confirm(First(h.queue))),
         Confirm(First(h.queue)))

\* Mutant: the element is added again before its slot is freed.
AddBeforeRemove(h) ==
  Passed(RemoveFirst(AddAgain(h.queue, First(h.queue))), h.calls,
         Confirm(First(h.queue)))

MoveFirstBack(h) ==
  Passed(AddAgain(RemoveFirst(h.queue), First(h.queue)), h.calls,
         Confirm(First(h.queue)))

HandleOne(h) ==
  IF First(h.queue).ready THEN ReportFirst(h) ELSE MoveFirstBack(h)

HandleCb(q, conf) ==
  LET Pass(n, h) == IF n <= q.cnt THEN HandleOne(h) ELSE h
      h0 == Passed(q, <<>>, conf)
  IN  Pass(5, Pass(4, Pass(3, Pass(2, Pass(1, h0)))))

(* The slot of the n-th oldest element, and the live elements in order.    *)
SlotOf(q, n) == IF q.start + n <= QueueLen
                THEN q.start + n - 1
                ELSE q.start + n - 1 - QueueLen

Live(q) == [n \in 1 .. q.cnt |-> q.buf[SlotOf(q, n)]]

(* The end lies cnt slots after the start.                                 *)
Contiguous(q) == \/ q.end = q.start + q.cnt
                 \/ q.end = q.start + q.cnt - QueueLen

(* A request waits for its confirm.                                        *)
Waiting(q, req) == \E n \in 1 .. q.cnt : Live(q)[n].request = req
=============================================================================
