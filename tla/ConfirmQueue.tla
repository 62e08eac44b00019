---------------------------- MODULE ConfirmQueue ----------------------------
(***************************************************************************)
(* The confirm queue as a component of its own: the MAC calls its          *)
(* functions one at a time and in any order.  The ring, its pointers and   *)
(* its counter are the operators of ConfirmQueueOps.                       *)
(***************************************************************************)
EXTENDS ConfirmQueueOps

VARIABLES queue,  \* the statics of LoRaMacConfirmQueue.c
          calls   \* the MacMlmeConfirm callbacks made by the last operation

vars == <<queue, calls>>

Init == queue = EmptyQueue /\ calls = <<>>

(* A function that changes the queue and makes no callback.                *)
Update(q) == queue' = q /\ calls' = <<>>

ConfirmQueueInit == Update(EmptyQueue)

ConfirmQueueAdd(req, status, restrict) ==
  Update(Add(queue, req, status, restrict))

ConfirmQueueRemoveLast == Update(RemoveLast(queue))

ConfirmQueueSetStatus(req, status) == Update(SetStatus(queue, req, status))

ConfirmQueueSetStatusCmn(status) == Update(SetStatusCmn(queue, status))

ConfirmQueueHandleCb ==
  LET done == HandleCb(queue, [request |-> Unset, status |-> Unset])
  IN  queue' = done.queue /\ calls' = done.calls

Next ==
  \/ ConfirmQueueInit
  \/ \E req \in Requests, status \in Statuses, restrict \in BOOLEAN :
       ConfirmQueueAdd(req, status, restrict)
  \/ ConfirmQueueRemoveLast
  \/ \E req \in Requests, status \in Statuses :
       ConfirmQueueSetStatus(req, status)
  \/ \E status \in Statuses : ConfirmQueueSetStatusCmn(status)
  \/ ConfirmQueueHandleCb

Spec == Init /\ [][Next]_vars

-----------------------------------------------------------------------------
Confirms == [request : Requests \cup {Unset}, status : Statuses \cup {Unset}]

(* The queue and the callbacks have the types the code declares.           *)
TypeOK == queue \in Queues /\ calls \in Seq(Confirms)

(* The counter and the two pointers describe the same run of slots: the    *)
(* end is cnt slots after the start, also when the ring has wrapped or is  *)
(* full (LoRaMacConfirmQueueAdd, RemoveFirst and RemoveLast move them      *)
(* separately).                                                            *)
RingInv == Contiguous(queue)

(* While the queue holds anything, the search of GetElement finds the      *)
(* oldest live element of a request and only that, although a full ring    *)
(* has BufferStart = BufferEnd like an empty one.                          *)
LookupInv ==
  queue.cnt > 0 =>
    \A req \in Requests :
      GetElement(queue, req) =
        {SlotOf(queue, n) : n \in
           {k \in 1 .. queue.cnt :
              /\ Live(queue)[k].request = req
              /\ \A j \in 1 .. k - 1 : Live(queue)[j].request # req}}

Abstract == INSTANCE MlmeQueue WITH items <- Live(queue), cmn <- queue.cmn

(* The ring buffer implements the FIFO queue of MlmeQueue: no request is   *)
(* lost, reordered or reported twice by LoRaMacConfirmQueueHandleCb, which *)
(* re-adds unfinished requests to the ring it is reading.                  *)
ImplementsMlmeQueue == Abstract!Spec
=============================================================================
