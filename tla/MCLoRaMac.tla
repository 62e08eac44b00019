----------------------------- MODULE MCLoRaMac -----------------------------
(* Values for model checking LoRaMac: the services, and the downlinks a    *)
(* run lets the radio receive.                                             *)
EXTENDS LoRaMac

MCRequests == {"JOIN", "LINK_CHECK", "TXCW"}
MCStatuses == {"OK", "ERROR", "TX_TIMEOUT", "RX_FAIL", "JOIN_FAIL", "DR_SIZE"}

Frame(kind) == [kind |-> kind, ack |-> FALSE, skip |-> FALSE, bad |-> FALSE,
                cmd |-> "NONE"]

Data(ack, cmd) == [Frame("DATA") EXCEPT !.ack = ack, !.cmd = cmd]

AtOnce  == {FALSE}
AnyTime == BOOLEAN

JoinOnly  == {"JOIN"}
AllMlme   == {"JOIN", "LINK_CHECK", "TXCW"}
JoinCheck == {"JOIN", "LINK_CHECK"}

AllMcps  == {"UNCONFIRMED", "CONFIRMED", "PROPRIETARY"}
DataMcps == {"UNCONFIRMED", "CONFIRMED"}

LowestDr == {0}

(* Frames that answer the device, and frames that do not concern it.       *)
AllFrames ==
  {Frame("JOIN_ACCEPT"), Frame("BAD_JOIN_ACCEPT"), Frame("ALIEN"),
   Frame("REPEATED"), Frame("PROPRIETARY"),
   Data(TRUE, "NONE"), Data(FALSE, "NONE"), Data(FALSE, "DUTY_CYCLE_OFF"),
   [Data(TRUE, "NONE") EXCEPT !.skip = TRUE],
   [Data(TRUE, "NONE") EXCEPT !.bad = TRUE]}

(* No frame reaches the application without acknowledging the uplink.      *)
ServiceFrames ==
  {Frame("JOIN_ACCEPT"), Frame("BAD_JOIN_ACCEPT"), Frame("ALIEN"), Frame("REPEATED"),
   Data(TRUE, "LINK_CHECK_ANS"), Data(TRUE, "DUTY_CYCLE_OFF"), Data(TRUE, "ADR_LOWEST")}

(* The server answers at once, with or without an acknowledgement.         *)
AnswerFrames == {Frame("JOIN_ACCEPT"), Data(TRUE, "NONE"), Data(FALSE, "NONE")}

(* The server answers a join request and nothing else.                     *)
JoinFrames == {Frame("JOIN_ACCEPT")}

(* A class C device under a server that acknowledges, sends unasked and    *)
(* switches the device off.                                                *)
ServerFrames ==
  {Frame("JOIN_ACCEPT"), Frame("UNKNOWN"), Frame("ALIEN"), Data(TRUE, "NONE"),
   Data(FALSE, "NONE"), Data(FALSE, "DUTY_CYCLE_OFF")}
=============================================================================
