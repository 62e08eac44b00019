------------------------------ MODULE Gateway ------------------------------
(***************************************************************************)
(* The single-channel gateway: loop() with its state machine, the SX127x   *)
(* modem it drives by registers, the buttons of the web page, and the UDP  *)
(* exchange with the server.                                               *)
(*                                                                         *)
(* The modem runs by itself and its interrupt handlers only set _event;    *)
(* the loop polls RegIrqFlags.  pc tells how far the loop has come: "SM"   *)
(* before stateMachine(), "QUIET", "WEB", "CHECK" before the test of       *)
(* _event, "UDP" and "PULL" once WiFi is up.  _hop is false, as in         *)
(* loraModem.h.                                                            *)
(***************************************************************************)
EXTENDS Integers, Sequences

CONSTANTS SF7, SF12,
  MaxFrames  \* bound: frames told apart in the FIFO of the modem

ASSUME SpreadingAssumption == SF7 \in Nat /\ SF12 \in Nat /\ SF7 < SF12
ASSUME FramesAssumption == MaxFrames \in Nat \ {0}

VARIABLES
  gw,     \* _state, _event, sf, _cad; the modem's mode, RegIrqFlags and its
          \* mask; hdr: a frame is coming in; fifo: the CRCs of the frames there
  heard,  \* msgTime <= statr[0].tmst: a packet came since the last quiet reset
  pc

vars == <<gw, heard, pc>>

Flags == {"CDDONE", "CDDETD", "RXDONE", "RXTOUT", "HEADER", "CRCERR"}
CadMask == Flags \ {"CDDONE", "CDDETD", "HEADER", "CRCERR"}
RxMask == Flags \ {"RXDONE", "RXTOUT", "HEADER", "CRCERR"}
RxModes == {"RX", "RX_SINGLE"}

Interrupts(g) == g.flags \ g.mask

-----------------------------------------------------------------------------
(* _loraModem.ino.  A receiver that starts has its FIFO to itself.         *)
Opmode(g, mode) ==
  [g EXCEPT !.mode = mode, !.hdr = FALSE,
            !.fifo = IF mode \in RxModes THEN <<>> ELSE @]

(* The flags of what went before stay.                                     *)
CadScanner(g) == Opmode([g EXCEPT !.mask = CadMask], "CAD")

RxLoraModem(g) ==
  LET set == [g EXCEPT !.state = "S_RX", !.mask = RxMask, !.flags = {}]
  IN  Opmode(set, IF g.cad THEN "RX_SINGLE" ELSE "RX")

Listen(g) ==
  IF g.cad THEN CadScanner([g EXCEPT !.state = "S_SCAN", !.sf = SF7])
           ELSE RxLoraModem(g)

InitLoraModem(g) == Opmode([g EXCEPT !.mask = {}, !.flags = {}], "STANDBY")

(* The interrupt mask and the flags are cleared.  A CAD that was started   *)
(* before has ended by then if the loop is late: _event is set, but the    *)
(* result is lost.                                                         *)
Cleared(g, late) ==
  LET clear == [g EXCEPT !.mask = {}, !.flags = {}]
  IN  IF late /\ g.mode = "CAD"
      THEN [clear EXCEPT !.mode = "STANDBY", !.event = 1]
      ELSE clear

StartReceiver(g, late) == Cleared(Listen(InitLoraModem(g)), late)

(* setup(): after a power-on or a crash, with _cad and sf from the file.   *)
Setup(cad, sf) ==
  LET g == [state |-> "S_INIT", event |-> 0, sf |-> sf, cad |-> cad,
            mode |-> "STANDBY", flags |-> {}, mask |-> {}, hdr |-> FALSE,
            fifo |-> <<>>]
  IN  Listen(InitLoraModem(g))

Init ==
  /\ \E cad \in BOOLEAN, sf \in SF7 .. SF12 : gw = Setup(cad, sf)
  /\ heard = TRUE
  /\ pc = "SM"

-----------------------------------------------------------------------------
(* The modem.  Interrupt_0 and Interrupt_1 set _event when a result that   *)
(* is not masked comes up.                                                 *)
Raised(g, new) ==
  [g EXCEPT !.flags = @ \cup new,
            !.event = IF new \ (g.mask \cup {"HEADER"}) # {} THEN 1 ELSE @]

Modem(g) == gw' = g /\ UNCHANGED <<heard, pc>>

CadEnds ==
  /\ gw.mode = "CAD"
  /\ \E found \in SUBSET {"CDDETD"} :
       Modem(Raised([gw EXCEPT !.mode = "STANDBY"], found \cup {"CDDONE"}))

HeaderComes ==
  /\ gw.mode \in RxModes /\ ~gw.hdr
  /\ Modem(Raised([gw EXCEPT !.hdr = TRUE], {"HEADER"}))

FrameEnds ==
  /\ gw.hdr
  /\ \E crc \in SUBSET {"CRCERR"} :
       LET kept == IF Len(gw.fifo) < MaxFrames THEN Append(gw.fifo, crc)
                                               ELSE gw.fifo
       IN  Modem(Raised([gw EXCEPT !.hdr = FALSE, !.fifo = kept,
                           !.mode = IF @ = "RX_SINGLE" THEN "STANDBY" ELSE @],
                        crc \cup {"RXDONE"}))

ReceiveTimesOut ==
  /\ gw.mode = "RX_SINGLE" /\ ~gw.hdr
  /\ Modem(Raised([gw EXCEPT !.mode = "STANDBY"], {"RXTOUT"}))

-----------------------------------------------------------------------------
(* stateMachine(): one of these for what it finds in _state and the flags. *)
(* Every one begins with _event = 0.  S_INIT, S_TXDONE and the default are *)
(* never the state here, and in S_CAD no other interrupt comes.            *)
At(state) == pc = "SM" /\ gw.state = state
Handled(g) == gw' = g /\ pc' = "QUIET"
Noted == [gw EXCEPT !.event = 0]

(* CDDETD in S_SCAN or S_CAD: receive what has been detected.              *)
Detected ==
  /\ At("S_SCAN") \/ At("S_CAD")
  /\ "CDDETD" \in Interrupts(gw)
  /\ Handled(Opmode([Noted EXCEPT !.state = "S_RX", !.mask = RxMask,
                                  !.flags = {}], "RX_SINGLE"))
  /\ UNCHANGED heard

(* A strong signal promotes the scan.  The next CAD is started before its  *)
(* predecessor's flags are cleared, and _event = 0 may hide its interrupt. *)
ScanDone ==
  /\ At("S_SCAN")
  /\ Interrupts(gw) \cap {"CDDONE", "CDDETD"} = {"CDDONE"}
  /\ \E strong \in BOOLEAN, late \in BOOLEAN, hidden \in BOOLEAN :
       LET next == [Noted EXCEPT !.state = IF strong THEN "S_CAD" ELSE @]
           cleared == Cleared(Opmode(next, "CAD"), late)
       IN  Handled([cleared EXCEPT !.event = IF hidden THEN 0 ELSE @])
  /\ UNCHANGED heard

(* Mutant: no interrupt is an event all the same, as it is in S_CAD.       *)
ScanOtherWaits ==
  /\ At("S_SCAN")
  /\ Interrupts(gw) \cap {"CDDONE", "CDDETD"} = {}
  /\ Handled(IF Interrupts(gw) = {} THEN [gw EXCEPT !.event = 1]
                                    ELSE Cleared(Noted, FALSE))
  /\ UNCHANGED heard

(* Nothing has come up: the loop may go on.  Anything else is cleared.     *)
ScanOther ==
  /\ At("S_SCAN")
  /\ Interrupts(gw) \cap {"CDDONE", "CDDETD"} = {}
  /\ Handled(IF Interrupts(gw) = {} THEN Noted ELSE Cleared(Noted, FALSE))
  /\ UNCHANGED heard

(* Mutant: one spreading factor too many.                                  *)
CadNextPastLast ==
  /\ At("S_CAD")
  /\ Interrupts(gw) \cap {"CDDONE", "CDDETD"} = {"CDDONE"}
  /\ gw.sf <= SF12
  /\ Handled(Opmode(Cleared([Noted EXCEPT !.sf = @ + 1], FALSE), "CAD"))
  /\ UNCHANGED heard

(* CDDONE in S_CAD: the same channel at the next spreading factor.         *)
CadNext ==
  /\ At("S_CAD")
  /\ Interrupts(gw) \cap {"CDDONE", "CDDETD"} = {"CDDONE"}
  /\ gw.sf < SF12
  /\ Handled(Opmode(Cleared([Noted EXCEPT !.sf = @ + 1], FALSE), "CAD"))
  /\ UNCHANGED heard

CadLast ==
  /\ At("S_CAD")
  /\ Interrupts(gw) \cap {"CDDONE", "CDDETD"} = {"CDDONE"}
  /\ gw.sf >= SF12
  /\ LET again == [Noted EXCEPT !.state = "S_SCAN", !.sf = SF7, !.event = 1]
     IN  Handled(CadScanner(Cleared(again, FALSE)))
  /\ UNCHANGED heard

CadWaits ==
  /\ At("S_CAD")
  /\ Interrupts(gw) = {}
  /\ Handled([gw EXCEPT !.event = 1])
  /\ UNCHANGED heard

(* Mutant: the CRC is not looked at.                                       *)
ReceivePktOfAny(flags) == "HEADER" \in flags

(* receivePkt reads a frame whose header is valid and whose CRC is right.  *)
(* The flags are those since they were last cleared, not of one frame.     *)
ReceivePkt(flags) == "CRCERR" \notin flags /\ "HEADER" \in flags

(* The frame at the start of the FIFO is sent to the server, and buildPacket *)
(* takes the time of it; then the receiver is started again.               *)
Received ==
  /\ At("S_RX")
  /\ "RXDONE" \in Interrupts(gw)
  /\ ReceivePkt(gw.flags)
  /\ \E late \in BOOLEAN :
       Handled([Cleared(Listen([Noted EXCEPT !.flags = {}]), late)
                  EXCEPT !.event = 0])
  /\ heard' = TRUE

(* Nothing starts the receiver: it stays as it is, the state is S_SCAN.    *)
ReceiveFails ==
  /\ At("S_RX")
  /\ "RXDONE" \in Interrupts(gw)
  /\ ~ReceivePkt(gw.flags)
  /\ Handled([gw EXCEPT !.event = 1, !.mask = {}, !.flags = {},
                        !.state = "S_SCAN"])
  /\ UNCHANGED heard

NothingReceived ==
  /\ At("S_RX")
  /\ "RXDONE" \notin Interrupts(gw)
  /\ Handled(IF "RXTOUT" \in Interrupts(gw)
             THEN Listen(Cleared(Noted, FALSE)) ELSE Noted)
  /\ UNCHANGED heard

(* S_TX: txLoraModem sends what sendPacket put into LoraDown.  It never    *)
(* put anything there, so sendPkt writes through a null pointer, and the   *)
(* chip starts again.                                                      *)
Restart ==
  /\ At("S_TX")
  /\ \E sf \in SF7 .. SF12 : gw' = Setup(gw.cad, sf)
  /\ heard' = TRUE
  /\ pc' = "SM"

StateMachine ==
  \/ Detected \/ ScanDone \/ ScanOther
  \/ CadNext \/ CadLast \/ CadWaits
  \/ Received \/ ReceiveFails \/ NothingReceived
  \/ Restart

-----------------------------------------------------------------------------
(* The rest of loop().  More than 15 s without a packet restart the        *)
(* receiver, once for each time a packet was heard.                        *)
Quiet ==
  /\ pc = "QUIET"
  /\ heard
  /\ \E late \in BOOLEAN : gw' = Cleared(Listen(gw), late)
  /\ heard' = FALSE
  /\ pc' = "WEB"

NotQuiet ==
  /\ pc = "QUIET"
  /\ pc' = "WEB"
  /\ UNCHANGED <<gw, heard>>

(* The buttons of the web page: CAD and SF change the variables only, HOP  *)
(* off starts the receiver.                                                *)
Web ==
  /\ pc = "WEB"
  /\ \/ \E cad \in BOOLEAN : gw' = [gw EXCEPT !.cad = cad]
     \/ gw' = [gw EXCEPT !.sf = IF @ >= SF12 THEN SF7 ELSE @ + 1]
     \/ gw' = [gw EXCEPT !.sf = IF @ <= SF7 THEN SF12 ELSE @ - 1]
     \/ gw' = RxLoraModem(gw)
  /\ pc' = "CHECK"
  /\ UNCHANGED heard

(* An interrupt, or no WiFi, ends the loop before UDP.                     *)
Check ==
  /\ pc = "CHECK"
  /\ pc' \in {"SM", "UDP"}
  /\ pc' = "UDP" => gw.event = 0
  /\ UNCHANGED <<gw, heard>>

(* readUdp: a PULL_RESP sets S_TX before sendPacket parses it.  With the   *)
(* ArduinoJson of the repository to<JsonObject>() empties the document,    *)
(* the data is null and sendPacket fails: _state stays.                    *)
ReadUdp ==
  /\ pc = "UDP"
  /\ gw' \in {gw, [gw EXCEPT !.state = "S_TX"]}
  /\ pc' = "PULL"
  /\ UNCHANGED heard

(* Every 55 s.                                                             *)
PullData ==
  /\ pc = "PULL"
  /\ \E late \in BOOLEAN : gw' = StartReceiver(gw, late)
  /\ pc' = "SM"
  /\ UNCHANGED heard

PullLater ==
  /\ pc = "PULL"
  /\ pc' = "SM"
  /\ UNCHANGED <<gw, heard>>

-----------------------------------------------------------------------------
Loop ==
  \/ StateMachine \/ Quiet \/ NotQuiet \/ Web \/ Check \/ ReadUdp
  \/ PullData \/ PullLater

Next == Loop \/ CadEnds \/ HeaderComes \/ FrameEnds \/ ReceiveTimesOut

Spec == Init /\ [][Next]_vars

(* The loop runs and a CAD ends.  Not every pass of the loop meets an      *)
(* interrupt or a button before its test of _event: a CAD takes 2 ms and a *)
(* frame more.  WiFi comes back, and the seconds pass.                     *)
Fairness ==
  /\ WF_vars(Loop)
  /\ WF_vars(CadEnds)
  /\ SF_vars(NotQuiet /\ gw.event = 0)
  /\ SF_vars(Web /\ gw' = gw)
  /\ SF_vars(Web /\ gw' = gw /\ gw.event = 0)
  /\ SF_vars(Check /\ pc' = "UDP")
  /\ SF_vars(PullData)
  /\ SF_vars(Quiet)

FairSpec == Spec /\ Fairness

-----------------------------------------------------------------------------
(* The registers and statics have their types; the spreading factor stays  *)
(* one the modem has, and what runs has its result unmasked.               *)
TypeOK ==
  /\ gw \in [state : {"S_SCAN", "S_CAD", "S_RX", "S_TX"}, event : {0, 1},
             sf : SF7 .. SF12, cad : BOOLEAN,
             mode : {"STANDBY", "CAD"} \cup RxModes, flags : SUBSET Flags,
             mask : {{}, CadMask, RxMask}, hdr : BOOLEAN,
             fifo : Seq(SUBSET {"CRCERR"})]
  /\ gw.mode = "CAD" => gw.mask # RxMask
  /\ gw.mode \in RxModes => gw.mask # CadMask
  /\ heard \in BOOLEAN
  /\ pc \in {"SM", "QUIET", "WEB", "CHECK", "UDP", "PULL"}

(* The flags that receivePkt reads tell of every frame since they were     *)
(* cleared, the FIFO holds every frame since the receiver was started, and *)
(* the frame sent to the server is the first one there: its CRC was right, *)
(* and a receiver of single frames has no other.                           *)
ForwardsGood ==
  [][Received =>
       gw.fifo # <<>> /\ gw.fifo[1] = {}
       /\ (gw.mode # "RX" => Len(gw.fifo) = 1)]_vars

(* The gateway asks its server for downlinks for ever, unless the result   *)
(* of a CAD was lost in S_CAD and no packet was heard since the last quiet *)
(* period: then _event stays 1, and loop() returns before it reads UDP.    *)
CadLost == gw.state = "S_CAD" /\ gw.mode = "STANDBY" /\ gw.flags = {}

KeepsPolling == []<><<PullData>>_vars \/ <>[](CadLost /\ ~heard)
=============================================================================
