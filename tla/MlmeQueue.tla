----------------------------- MODULE MlmeQueue -----------------------------
(***************************************************************************)
(* What the confirm queue promises its user, the MAC: a first-in first-out *)
(* queue of at most QueueLen requests, each with a status and a mark that  *)
(* its outcome is known.  HandleCb reports exactly the marked requests, in *)
(* the order they were added, each once, and keeps the others in order.    *)
(***************************************************************************)
EXTENDS Integers, Sequences

CONSTANTS QueueLen, Requests, Statuses

VARIABLES items,  \* the waiting requests, oldest first
          cmn,    \* the common status
          calls   \* the confirms reported by the last operation

vars == <<items, cmn, calls>>

Init == items = <<>> /\ cmn = "ERROR" /\ calls = <<>>

Reset == items' = <<>> /\ cmn' = "ERROR" /\ calls' = <<>>

Add(req, status, restrict) ==
  /\ items' = IF Len(items) < QueueLen
              THEN Append(items, [request |-> req, status |-> status,
                                  ready |-> FALSE, restrict |-> restrict])
              ELSE items
  /\ calls' = <<>>
  /\ UNCHANGED cmn

RemoveLast ==
  /\ items' = SubSeq(items, 1, Len(items) - 1)
  /\ calls' = <<>>
  /\ UNCHANGED cmn

(* The oldest entry of the request gets the status.                        *)
SetStatus(req, status) ==
  /\ items' = [n \in DOMAIN items |->
                 IF /\ items[n].request = req
                    /\ \A k \in 1 .. n - 1 : items[k].request # req
                 THEN [items[n] EXCEPT !.status = status, !.ready = TRUE]
                 ELSE items[n]]
  /\ calls' = <<>>
  /\ UNCHANGED cmn

SetStatusCmn(status) ==
  /\ items' = [n \in DOMAIN items |->
                 [items[n] EXCEPT !.status = status,
                                  !.ready = @ \/ ~items[n].restrict]]
  /\ cmn' = status
  /\ calls' = <<>>

(* Of the first n requests, those whose outcome is not known, and the      *)
(* confirms of the others, both in the order the requests were added.      *)
Kept[n \in 0 .. Len(items)] ==
  IF n = 0 THEN <<>>
  ELSE IF items[n].ready THEN Kept[n - 1] ELSE Append(Kept[n - 1], items[n])

Reported[n \in 0 .. Len(items)] ==
  IF n = 0 THEN <<>>
  ELSE IF items[n].ready
       THEN Append(Reported[n - 1], [request |-> items[n].request,
                                     status |-> items[n].status])
       ELSE Reported[n - 1]

HandleCb ==
  /\ items' = Kept[Len(items)]
  /\ calls' = Reported[Len(items)]
  /\ UNCHANGED cmn

Next ==
  \/ Reset
  \/ \E req \in Requests, status \in Statuses, restrict \in BOOLEAN :
       Add(req, status, restrict)
  \/ RemoveLast
  \/ \E req \in Requests, status \in Statuses : SetStatus(req, status)
  \/ \E status \in Statuses : SetStatusCmn(status)
  \/ HandleCb

Spec == Init /\ [][Next]_vars
=============================================================================
