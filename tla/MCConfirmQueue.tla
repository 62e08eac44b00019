--------------------------- MODULE MCConfirmQueue ---------------------------
(* The confirm queue with three slots, two services and two statuses: the  *)
(* ring fills, wraps and empties, and two entries of one service meet.     *)
EXTENDS ConfirmQueue

MCRequests == {"JOIN", "LINK_CHECK"}
MCStatuses == {"ERROR", "OK"}
=============================================================================
