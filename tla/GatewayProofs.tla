--------------------------- MODULE GatewayProofs ---------------------------
(***************************************************************************)
(* Type correctness of the gateway, and what receivePkt relies on when it  *)
(* reads the flags of the modem: the frame it takes for good is good, for  *)
(* any range of spreading factors and any depth of the FIFO.               *)
(***************************************************************************)
EXTENDS Gateway, SequenceTheorems, TLAPS

Modes == {"STANDBY", "CAD"} \cup RxModes

(* S_INIT is the state of setup() alone.                                   *)
GwTypes ==
  [state : {"S_INIT", "S_SCAN", "S_CAD", "S_RX", "S_TX"},
   event : {0, 1}, sf : SF7 .. SF12, cad : BOOLEAN,
   mode : Modes, flags : SUBSET Flags,
   mask : {{}, CadMask, RxMask}, hdr : BOOLEAN,
   fifo : Seq(SUBSET {"CRCERR"})]

(* What runs has its result unmasked, and a frame comes in at a receiver.  *)
Unmasked(g) ==
  /\ g.mode = "CAD" => g.mask # RxMask
  /\ g.mode \in RxModes => g.mask # CadMask
  /\ g.hdr => g.mode \in RxModes

(* In S_RX the flags tell of every frame in the FIFO, and a receiver of    *)
(* single frames stops at the first.                                       *)
Told(g) ==
  g.state = "S_RX" =>
    /\ g.mode # "CAD"
    /\ "RXDONE" \in g.flags => g.fifo # <<>>
    /\ "CRCERR" \notin g.flags => \A i \in 1 .. Len(g.fifo) : g.fifo[i] = {}
    /\ g.mode # "RX" => Len(g.fifo) <= 1
    /\ g.mode = "RX_SINGLE" => g.fifo = <<>>

Sound(g) ==
  g \in GwTypes /\ g.state # "S_INIT" /\ Unmasked(g) /\ Told(g)

IInv ==
  /\ Sound(gw)
  /\ heard \in BOOLEAN
  /\ pc \in {"SM", "QUIET", "WEB", "CHECK", "UDP", "PULL"}

-----------------------------------------------------------------------------
(* The masks are three different sets.                                     *)
LEMMA MasksDiffer ==
  CadMask = {"RXDONE", "RXTOUT"} /\ RxMask = {"CDDONE", "CDDETD"}
BY DEF CadMask, RxMask, Flags

(* An operator of _loraModem.ino leaves a record of the gateway's type,    *)
(* whatever state the program was in.                                      *)
LEMMA OpmodeTyped ==
  ASSUME NEW g \in GwTypes, NEW mode \in Modes
  PROVE  /\ Opmode(g, mode) \in GwTypes
         /\ Opmode(g, mode).mode = mode
         /\ Opmode(g, mode).hdr = FALSE
         /\ mode \in RxModes => Opmode(g, mode).fifo = <<>>
         /\ Opmode(g, mode).mask = g.mask
         /\ Opmode(g, mode).flags = g.flags
         /\ Opmode(g, mode).state = g.state
<1>1. <<>> \in Seq(SUBSET {"CRCERR"})
  OBVIOUS
<1> QED
  BY <1>1 DEF Opmode, GwTypes

LEMMA ClearedSound ==
  ASSUME NEW g, Sound(g), NEW late \in BOOLEAN,
         g.state = "S_RX" => g.fifo = <<>>
  PROVE  /\ Sound(Cleared(g, late))
         /\ Cleared(g, late).state = g.state
         /\ Cleared(g, late).fifo = g.fifo
<1>1. Cleared(g, late) \in GwTypes
  BY DEF Cleared, Sound, GwTypes, Modes
<1>2. Unmasked(Cleared(g, late))
  BY MasksDiffer DEF Cleared, Sound, GwTypes, Unmasked, RxModes
<1>3. /\ Cleared(g, late).state = g.state
      /\ Cleared(g, late).fifo = g.fifo
      /\ Cleared(g, late).flags = {}
      /\ g.mode # "CAD" => Cleared(g, late).mode = g.mode
  BY DEF Cleared, Sound, GwTypes
<1>4. Told(Cleared(g, late))
  BY <1>3 DEF Sound, Told, GwTypes
<1> QED
  BY <1>1, <1>2, <1>3, <1>4 DEF Sound

LEMMA CadScannerSound ==
  ASSUME NEW g \in GwTypes, g.state \notin {"S_RX", "S_INIT"}
  PROVE  Sound(CadScanner(g)) /\ CadScanner(g).state # "S_RX"
<1> DEFINE h == [g EXCEPT !.mask = CadMask]
<1>1. h \in GwTypes /\ h.state = g.state /\ h.mask = CadMask
  BY DEF GwTypes
<1>2. CadScanner(g) = Opmode(h, "CAD")
  BY DEF CadScanner
<1> HIDE DEF h
<1>3. "CAD" \in Modes
  BY DEF Modes
<1>4. /\ Opmode(h, "CAD") \in GwTypes
      /\ Opmode(h, "CAD").mode = "CAD"
      /\ Opmode(h, "CAD").hdr = FALSE
      /\ Opmode(h, "CAD").mask = h.mask
      /\ Opmode(h, "CAD").state = h.state
  BY <1>1, <1>3, OpmodeTyped
<1>5. /\ CadScanner(g) \in GwTypes
      /\ CadScanner(g).mode = "CAD"
      /\ CadScanner(g).hdr = FALSE
      /\ CadScanner(g).mask = CadMask
      /\ CadScanner(g).state = g.state
  BY <1>1, <1>2, <1>4
<1> QED
  BY <1>5, MasksDiffer DEF Sound, Unmasked, Told, RxModes

LEMMA RxLoraModemSound ==
  ASSUME NEW g \in GwTypes
  PROVE  Sound(RxLoraModem(g)) /\ RxLoraModem(g).fifo = <<>>
<1> DEFINE h == [g EXCEPT !.state = "S_RX", !.mask = RxMask, !.flags = {}]
           mode == IF g.cad THEN "RX_SINGLE" ELSE "RX"
<1>1. h \in GwTypes /\ h.state = "S_RX" /\ h.mask = RxMask /\ h.flags = {}
  BY DEF GwTypes
<1>2. mode \in RxModes /\ mode \in Modes
  BY DEF RxModes, Modes
<1>3. RxLoraModem(g) = Opmode(h, mode)
  BY DEF RxLoraModem, GwTypes
<1> HIDE DEF h, mode
<1>4. /\ Opmode(h, mode) \in GwTypes
      /\ Opmode(h, mode).mode = mode
      /\ Opmode(h, mode).hdr = FALSE
      /\ Opmode(h, mode).fifo = <<>>
      /\ Opmode(h, mode).mask = h.mask
      /\ Opmode(h, mode).flags = h.flags
      /\ Opmode(h, mode).state = h.state
  BY <1>1, <1>2, OpmodeTyped
<1>5. /\ RxLoraModem(g) \in GwTypes
      /\ RxLoraModem(g).mode \in RxModes
      /\ RxLoraModem(g).hdr = FALSE
      /\ RxLoraModem(g).fifo = <<>>
      /\ RxLoraModem(g).mask = RxMask
      /\ RxLoraModem(g).flags = {}
      /\ RxLoraModem(g).state = "S_RX"
  BY <1>1, <1>2, <1>3, <1>4
<1> QED
  BY <1>5, MasksDiffer DEF Sound, Unmasked, Told, RxModes

LEMMA ListenSound ==
  ASSUME NEW g \in GwTypes
  PROVE  Sound(Listen(g))
         /\ (Listen(g).state = "S_RX" => Listen(g).fifo = <<>>)
<1>1. CASE g.cad
  <2> DEFINE h == [g EXCEPT !.state = "S_SCAN", !.sf = SF7]
  <2>1. SF7 \in SF7 .. SF12
    BY SpreadingAssumption
  <2>2. h \in GwTypes /\ h.state = "S_SCAN"
    BY <2>1 DEF GwTypes
  <2>3. Listen(g) = CadScanner(h)
    BY <1>1 DEF Listen
  <2> HIDE DEF h
  <2> QED
    BY <2>2, <2>3, CadScannerSound
<1>2. CASE ~g.cad
  <2>1. Listen(g) = RxLoraModem(g)
    BY <1>2 DEF Listen
  <2> QED
    BY <2>1, RxLoraModemSound
<1> QED
  BY <1>1, <1>2

(* Starting to listen anew, from whatever state.                           *)
LEMMA ListenClearedSound ==
  ASSUME NEW g \in GwTypes, NEW late \in BOOLEAN
  PROVE  /\ Sound(Cleared(Listen(g), late))
         /\ Cleared(Listen(g), late).state = "S_RX"
              => Cleared(Listen(g), late).fifo = <<>>
BY ListenSound, ClearedSound

LEMMA InitLoraModemTyped ==
  ASSUME NEW g \in GwTypes
  PROVE  InitLoraModem(g) \in GwTypes
<1>1. [g EXCEPT !.mask = {}, !.flags = {}] \in GwTypes
  BY DEF GwTypes
<1>2. "STANDBY" \in Modes
  BY DEF Modes
<1> QED
  BY <1>1, <1>2, OpmodeTyped DEF InitLoraModem

LEMMA SetupSound ==
  ASSUME NEW cad \in BOOLEAN, NEW sf \in SF7 .. SF12
  PROVE  Sound(Setup(cad, sf))
<1> DEFINE boot == [state |-> "S_INIT", event |-> 0, sf |-> sf, cad |-> cad,
                    mode |-> "STANDBY", flags |-> {}, mask |-> {},
                    hdr |-> FALSE, fifo |-> <<>>]
<1>1. <<>> \in Seq(SUBSET {"CRCERR"})
  OBVIOUS
<1>2. boot \in GwTypes
  BY <1>1 DEF GwTypes, Modes
<1>3. Setup(cad, sf) = Listen(InitLoraModem(boot))
  BY DEF Setup
<1> HIDE DEF boot
<1> QED
  BY <1>2, <1>3, InitLoraModemTyped, ListenSound

-----------------------------------------------------------------------------
(* The modem.                                                              *)
LEMMA RaisedFields ==
  ASSUME NEW g \in GwTypes, NEW new \in SUBSET Flags
  PROVE  /\ Raised(g, new) \in GwTypes
         /\ Raised(g, new).flags = g.flags \cup new
         /\ Raised(g, new).state = g.state
         /\ Raised(g, new).mode = g.mode
         /\ Raised(g, new).mask = g.mask
         /\ Raised(g, new).hdr = g.hdr
         /\ Raised(g, new).fifo = g.fifo
<1>1. g.flags \cup new \in SUBSET Flags
  BY DEF GwTypes
<1> QED
  BY <1>1 DEF Raised, GwTypes

LEMMA CadEndsSound ==
  ASSUME Sound(gw), CadEnds
  PROVE  Sound(gw')
<1>1. PICK found \in SUBSET {"CDDETD"} :
        gw' = Raised([gw EXCEPT !.mode = "STANDBY"], found \cup {"CDDONE"})
  BY DEF CadEnds, Modem
<1> DEFINE g == [gw EXCEPT !.mode = "STANDBY"]
<1>2. /\ g \in GwTypes /\ g.state = gw.state /\ g.mode = "STANDBY"
      /\ g.hdr = gw.hdr
  BY DEF Sound, GwTypes, Modes
<1>3. found \cup {"CDDONE"} \in SUBSET Flags
  BY DEF Flags
<1>4. gw.mode = "CAD"
  BY DEF CadEnds
<1>5. gw' = Raised(g, found \cup {"CDDONE"})
  BY <1>1
<1> HIDE DEF g
<1>6. /\ gw' \in GwTypes /\ gw'.state = gw.state /\ gw'.mode = "STANDBY"
      /\ gw'.hdr = gw.hdr
  BY <1>2, <1>3, <1>5, RaisedFields
<1> QED
  BY <1>4, <1>6 DEF Sound, Unmasked, Told, RxModes

LEMMA HeaderComesSound ==
  ASSUME Sound(gw), HeaderComes
  PROVE  Sound(gw')
<1> DEFINE g == [gw EXCEPT !.hdr = TRUE]
<1>1. /\ g \in GwTypes /\ g.state = gw.state /\ g.mode = gw.mode
      /\ g.mask = gw.mask /\ g.flags = gw.flags /\ g.fifo = gw.fifo
  BY DEF Sound, GwTypes
<1>2. {"HEADER"} \in SUBSET Flags
  BY DEF Flags
<1>3. gw' = Raised(g, {"HEADER"}) /\ gw.mode \in RxModes
  BY DEF HeaderComes, Modem
<1> HIDE DEF g
<1>4. /\ gw' \in GwTypes
      /\ gw'.state = gw.state /\ gw'.mode = gw.mode
      /\ gw'.mask = gw.mask /\ gw'.fifo = gw.fifo
      /\ gw'.flags = gw.flags \cup {"HEADER"}
  BY <1>1, <1>2, <1>3, RaisedFields
<1> QED
  BY <1>3, <1>4 DEF Sound, Unmasked, Told

(* A FIFO that takes one more frame, or is full and holds a frame already. *)
LEMMA FifoKeeps ==
  ASSUME NEW S, NEW s \in Seq(S), NEW e \in S, NEW n \in Nat \ {0},
         NEW k, k = IF Len(s) < n THEN Append(s, e) ELSE s
  PROVE  /\ k \in Seq(S)
         /\ k # <<>>
         /\ (\A i \in 1 .. Len(s) : s[i] = {}) /\ e = {}
              => \A i \in 1 .. Len(k) : k[i] = {}
         /\ s = <<>> => Len(k) <= 1
<1>1. CASE Len(s) < n
  <2>1. /\ Append(s, e) \in Seq(S)
        /\ Append(s, e) # <<>>
        /\ Len(Append(s, e)) = Len(s) + 1
        /\ \A i \in 1 .. Len(s) : Append(s, e)[i] = s[i]
        /\ Append(s, e)[Len(s) + 1] = e
    BY AppendProperties
  <2>2. Len(s) \in Nat /\ (s = <<>> => Len(s) = 0)
    BY EmptySeq
  <2> QED
    BY <1>1, <2>1, <2>2
<1>2. CASE ~(Len(s) < n)
  <2>1. Len(s) \in Nat /\ (s = <<>> => Len(s) = 0)
    BY EmptySeq
  <2> QED
    BY <1>2, <2>1
<1> QED
  BY <1>1, <1>2

LEMMA FrameEndsSound ==
  ASSUME Sound(gw), FrameEnds
  PROVE  Sound(gw')
<1> DEFINE Kept(crc) == IF Len(gw.fifo) < MaxFrames
                        THEN Append(gw.fifo, crc) ELSE gw.fifo
           mode == IF gw.mode = "RX_SINGLE" THEN "STANDBY" ELSE gw.mode
           G(crc) == [gw EXCEPT !.hdr = FALSE, !.fifo = Kept(crc),
                                !.mode = mode]
<1>1. PICK crc \in SUBSET {"CRCERR"} :
        gw' = Raised(G(crc), crc \cup {"RXDONE"})
  BY DEF FrameEnds, Modem
<1>2. gw.fifo \in Seq(SUBSET {"CRCERR"})
  BY DEF Sound, GwTypes
<1> HIDE DEF Kept
<1>3. /\ Kept(crc) \in Seq(SUBSET {"CRCERR"})
      /\ Kept(crc) # <<>>
      /\ (\A i \in 1 .. Len(gw.fifo) : gw.fifo[i] = {}) /\ crc = {}
           => \A i \in 1 .. Len(Kept(crc)) : Kept(crc)[i] = {}
      /\ gw.fifo = <<>> => Len(Kept(crc)) <= 1
  <2>1. Kept(crc) = IF Len(gw.fifo) < MaxFrames
                    THEN Append(gw.fifo, crc) ELSE gw.fifo
    BY DEF Kept
  <2> DEFINE S == SUBSET {"CRCERR"}
  <2>2. gw.fifo \in Seq(S) /\ crc \in S
    BY <1>2
  <2> HIDE DEF S
  <2>3. /\ Kept(crc) \in Seq(S)
        /\ Kept(crc) # <<>>
        /\ (\A i \in 1 .. Len(gw.fifo) : gw.fifo[i] = {}) /\ crc = {}
             => \A i \in 1 .. Len(Kept(crc)) : Kept(crc)[i] = {}
        /\ gw.fifo = <<>> => Len(Kept(crc)) <= 1
    BY <2>1, <2>2, FramesAssumption, FifoKeeps
  <2> QED
    BY <2>3 DEF S
<1>4. gw.mode \in RxModes
  BY DEF FrameEnds, Sound, Unmasked
<1>5. crc # {} => "CRCERR" \in crc
  OBVIOUS
<1>6. /\ G(crc) \in GwTypes
      /\ G(crc).state = gw.state /\ G(crc).mode = mode
      /\ G(crc).mask = gw.mask /\ G(crc).flags = gw.flags
      /\ G(crc).hdr = FALSE /\ G(crc).fifo = Kept(crc)
  <2>1. gw \in GwTypes /\ mode \in Modes
    BY DEF Sound, GwTypes, Modes
  <2> HIDE DEF mode
  <2> QED
    BY <1>3, <2>1 DEF GwTypes
<1>7. crc \cup {"RXDONE"} \in SUBSET Flags
  BY DEF Flags
<1> HIDE DEF G
<1>8. /\ gw' \in GwTypes
       /\ gw'.state = gw.state /\ gw'.mode = mode
       /\ gw'.mask = gw.mask /\ gw'.hdr = FALSE
       /\ gw'.fifo = Kept(crc)
       /\ gw'.flags = gw.flags \cup (crc \cup {"RXDONE"})
  BY <1>1, <1>6, <1>7, RaisedFields
<1>9. Unmasked(gw')
  BY <1>4, <1>8 DEF Sound, Unmasked, RxModes
<1>10. Told(gw')
  <2> SUFFICES ASSUME gw.state = "S_RX"
               PROVE  /\ gw'.mode # "CAD"
                      /\ gw'.fifo # <<>>
                      /\ "CRCERR" \notin gw'.flags
                           => \A i \in 1 .. Len(gw'.fifo) : gw'.fifo[i] = {}
                      /\ gw'.mode # "RX" => Len(gw'.fifo) <= 1
                      /\ gw'.mode # "RX_SINGLE"
    BY <1>8 DEF Told
  <2>1. gw'.mode \in {"RX", "STANDBY"} /\ (gw'.mode # "RX" => gw.mode = "RX_SINGLE")
    BY <1>4, <1>8 DEF RxModes
  <2>2. gw.mode = "RX_SINGLE" => gw.fifo = <<>>
    BY DEF Sound, Told
  <2>3. "CRCERR" \notin gw'.flags
          => "CRCERR" \notin gw.flags /\ "CRCERR" \notin crc
    BY <1>8
  <2>4. "CRCERR" \notin gw.flags => \A i \in 1 .. Len(gw.fifo) : gw.fifo[i] = {}
    BY DEF Sound, Told
  <2>5. "CRCERR" \notin gw'.flags
          => \A i \in 1 .. Len(Kept(crc)) : Kept(crc)[i] = {}
    BY <1>3, <1>5, <2>3, <2>4
  <2>6. gw'.fifo = Kept(crc)
    BY <1>8
  <2>7. gw'.mode # "RX" => Len(Kept(crc)) <= 1
    BY <1>3, <2>1, <2>2
  <2>8. gw'.mode # "CAD" /\ gw'.mode # "RX_SINGLE"
    BY <2>1
  <2> QED
    BY <1>3, <2>5, <2>6, <2>7, <2>8
<1> QED
  BY <1>8, <1>9, <1>10 DEF Sound

LEMMA ReceiveTimesOutSound ==
  ASSUME Sound(gw), ReceiveTimesOut
  PROVE  Sound(gw')
<1> DEFINE g == [gw EXCEPT !.mode = "STANDBY"]
<1>1. /\ g \in GwTypes /\ g.state = gw.state /\ g.mode = "STANDBY"
      /\ g.mask = gw.mask /\ g.flags = gw.flags /\ g.fifo = gw.fifo
      /\ g.hdr = gw.hdr
  BY DEF Sound, GwTypes, Modes
<1>2. {"RXTOUT"} \in SUBSET Flags
  BY DEF Flags
<1>3. gw' = Raised(g, {"RXTOUT"}) /\ gw.mode = "RX_SINGLE" /\ ~gw.hdr
  BY DEF ReceiveTimesOut, Modem
<1> HIDE DEF g
<1>4. /\ gw' \in GwTypes /\ gw'.state = gw.state /\ gw'.mode = "STANDBY"
      /\ gw'.mask = gw.mask /\ gw'.fifo = gw.fifo /\ gw'.hdr = gw.hdr
      /\ gw'.flags = gw.flags \cup {"RXTOUT"}
  BY <1>1, <1>2, <1>3, RaisedFields
<1> QED
  BY <1>3, <1>4 DEF Sound, Unmasked, Told, RxModes

-----------------------------------------------------------------------------
(* stateMachine().                                                         *)
LEMMA NotedFields ==
  ASSUME Sound(gw)
  PROVE  /\ Sound(Noted)
         /\ Noted.state = gw.state /\ Noted.mode = gw.mode
         /\ Noted.mask = gw.mask /\ Noted.hdr = gw.hdr
         /\ Noted.fifo = gw.fifo /\ Noted.flags = gw.flags
         /\ Noted.sf = gw.sf
<1>1. /\ Noted \in GwTypes
      /\ Noted.state = gw.state /\ Noted.mode = gw.mode
      /\ Noted.mask = gw.mask /\ Noted.hdr = gw.hdr
      /\ Noted.fifo = gw.fifo /\ Noted.flags = gw.flags
      /\ Noted.sf = gw.sf
  BY DEF Noted, Sound, GwTypes
<1> QED
  BY <1>1 DEF Sound, Unmasked, Told

(* _event tells nothing of the modem.                                      *)
LEMMA EventSound ==
  ASSUME NEW g, Sound(g), NEW event \in {0, 1}
  PROVE  Sound([g EXCEPT !.event = event])
<1> DEFINE h == [g EXCEPT !.event = event]
<1>1. /\ h \in GwTypes
      /\ h.state = g.state /\ h.mode = g.mode /\ h.mask = g.mask
      /\ h.hdr = g.hdr /\ h.fifo = g.fifo /\ h.flags = g.flags
  BY DEF Sound, GwTypes
<1> HIDE DEF h
<1>2. Sound(h)
  BY <1>1 DEF Sound, Unmasked, Told
<1> QED
  BY <1>2 DEF h

LEMMA DetectedSound ==
  ASSUME Sound(gw), Detected
  PROVE  Sound(gw')
<1> DEFINE g == [Noted EXCEPT !.state = "S_RX", !.mask = RxMask,
                              !.flags = {}]
<1>1. /\ g \in GwTypes /\ g.state = "S_RX" /\ g.mask = RxMask
      /\ g.flags = {}
  BY NotedFields DEF Sound, GwTypes
<1>2. gw' = Opmode(g, "RX_SINGLE")
  BY DEF Detected, Handled
<1>3. "RX_SINGLE" \in Modes /\ "RX_SINGLE" \in RxModes
  BY DEF Modes, RxModes
<1> HIDE DEF g
<1>4. /\ gw' \in GwTypes /\ gw'.state = "S_RX" /\ gw'.mask = RxMask
      /\ gw'.flags = {} /\ gw'.mode = "RX_SINGLE" /\ gw'.hdr = FALSE
      /\ gw'.fifo = <<>>
  BY <1>1, <1>2, <1>3, OpmodeTyped
<1> QED
  BY <1>4, MasksDiffer DEF Sound, Unmasked, Told, RxModes

LEMMA CadStartedSound ==
  ASSUME NEW g \in GwTypes, g.state \notin {"S_RX", "S_INIT"}, g.mask = {}
  PROVE  Sound(Opmode(g, "CAD")) /\ Opmode(g, "CAD").state = g.state
<1>1. "CAD" \in Modes
  BY DEF Modes
<1>2. /\ Opmode(g, "CAD") \in GwTypes
      /\ Opmode(g, "CAD").state = g.state
      /\ Opmode(g, "CAD").mode = "CAD"
      /\ Opmode(g, "CAD").hdr = FALSE
      /\ Opmode(g, "CAD").mask = {}
  BY <1>1, OpmodeTyped
<1> QED
  BY <1>2, MasksDiffer DEF Sound, Unmasked, Told, RxModes

(* The mask that ScanDone starts a CAD with may be any: it is cleared next. *)
LEMMA CadClearedSound ==
  ASSUME NEW g \in GwTypes, g.state \notin {"S_RX", "S_INIT"},
         g.mode = "CAD", ~g.hdr, NEW late \in BOOLEAN
  PROVE  Sound(Cleared(g, late))
<1>1. /\ Cleared(g, late) \in GwTypes
      /\ Cleared(g, late).state = g.state
      /\ Cleared(g, late).mask = {}
      /\ Cleared(g, late).mode \in {"CAD", "STANDBY"}
      /\ Cleared(g, late).hdr = g.hdr
  BY DEF Cleared, GwTypes, Modes
<1> QED
  BY <1>1, MasksDiffer DEF Sound, Unmasked, Told, RxModes

LEMMA ScanDoneSound ==
  ASSUME Sound(gw), ScanDone
  PROVE  Sound(gw')
<1>1. PICK strong \in BOOLEAN, late \in BOOLEAN, hidden \in BOOLEAN :
        LET next == [Noted EXCEPT !.state = IF strong THEN "S_CAD" ELSE @]
            cleared == Cleared(Opmode(next, "CAD"), late)
        IN  gw' = [cleared EXCEPT !.event = IF hidden THEN 0 ELSE @]
  BY DEF ScanDone, Handled
<1> DEFINE next == [Noted EXCEPT !.state = IF strong THEN "S_CAD" ELSE @]
           started == Opmode(next, "CAD")
           cleared == Cleared(started, late)
           event == IF hidden THEN 0 ELSE cleared.event
<1>2. next \in GwTypes /\ next.state \in {"S_SCAN", "S_CAD"}
  BY NotedFields DEF Sound, GwTypes, ScanDone, At
<1>3. gw' = [cleared EXCEPT !.event = event]
  BY <1>1
<1> HIDE DEF next
<1>4. "CAD" \in Modes
  BY DEF Modes
<1>5. /\ started \in GwTypes /\ started.state = next.state
      /\ started.mode = "CAD" /\ started.hdr = FALSE
  BY <1>2, <1>4, OpmodeTyped
<1> HIDE DEF started
<1>6. Sound(cleared)
  BY <1>2, <1>5, CadClearedSound
<1>7. event \in {0, 1}
  BY <1>6 DEF Sound, GwTypes
<1> HIDE DEF cleared, event
<1> QED
  BY <1>3, <1>6, <1>7, EventSound

LEMMA ScanOtherSound ==
  ASSUME Sound(gw), ScanOther
  PROVE  Sound(gw')
<1>1. gw' = Noted \/ gw' = Cleared(Noted, FALSE)
  BY DEF ScanOther, Handled
<1>2. Noted.state = "S_SCAN"
  BY NotedFields DEF ScanOther, At
<1> QED
  BY <1>1, <1>2, NotedFields, ClearedSound

LEMMA CadNextSound ==
  ASSUME Sound(gw), CadNext
  PROVE  Sound(gw')
<1> DEFINE g == [Noted EXCEPT !.sf = @ + 1]
<1>1. gw' = Opmode(Cleared(g, FALSE), "CAD")
  BY DEF CadNext, Handled
<1>2. Noted.sf + 1 \in SF7 .. SF12
  BY NotedFields, SpreadingAssumption DEF CadNext, Sound, GwTypes
<1>3. g \in GwTypes /\ g.state = "S_CAD"
  BY <1>2, NotedFields DEF Sound, GwTypes, CadNext, At
<1> HIDE DEF g
<1>4. /\ Cleared(g, FALSE) \in GwTypes
      /\ Cleared(g, FALSE).state = "S_CAD"
      /\ Cleared(g, FALSE).mask = {}
  BY <1>3 DEF Cleared, GwTypes
<1> QED
  BY <1>1, <1>4, CadStartedSound

LEMMA CadLastSound ==
  ASSUME Sound(gw), CadLast
  PROVE  Sound(gw')
<1> DEFINE g == [Noted EXCEPT !.state = "S_SCAN", !.sf = SF7, !.event = 1]
<1>1. gw' = CadScanner(Cleared(g, FALSE))
  BY DEF CadLast, Handled
<1>2. SF7 \in SF7 .. SF12
  BY SpreadingAssumption
<1>3. g \in GwTypes /\ g.state = "S_SCAN"
  BY <1>2, NotedFields DEF Sound, GwTypes
<1> HIDE DEF g
<1>4. Cleared(g, FALSE) \in GwTypes /\ Cleared(g, FALSE).state = "S_SCAN"
  BY <1>3 DEF Cleared, GwTypes
<1> QED
  BY <1>1, <1>4, CadScannerSound

LEMMA CadWaitsSound ==
  ASSUME Sound(gw), CadWaits
  PROVE  Sound(gw')
BY EventSound DEF CadWaits, Handled

(* Whatever was received or was not, the receiver that is started finds no *)
(* frame; a receiver that is left as it is, is in S_SCAN.                  *)
LEMMA ReceivedSound ==
  ASSUME Sound(gw), Received
  PROVE  Sound(gw')
<1> DEFINE g == [Noted EXCEPT !.flags = {}]
<1>1. PICK late \in BOOLEAN :
        gw' = [Cleared(Listen(g), late) EXCEPT !.event = 0]
  BY DEF Received, Handled
<1>2. g \in GwTypes
  BY NotedFields DEF Sound, GwTypes
<1> HIDE DEF g
<1> QED
  BY <1>1, <1>2, ListenClearedSound, EventSound

LEMMA ReceiveFailsSound ==
  ASSUME Sound(gw), ReceiveFails
  PROVE  Sound(gw')
<1>1. /\ gw' \in GwTypes
      /\ gw'.state = "S_SCAN" /\ gw'.mask = {}
      /\ gw'.mode = gw.mode /\ gw'.hdr = gw.hdr
  BY DEF ReceiveFails, Handled, Sound, GwTypes
<1> QED
  BY <1>1, MasksDiffer DEF Sound, Unmasked, Told

LEMMA NothingReceivedSound ==
  ASSUME Sound(gw), NothingReceived
  PROVE  Sound(gw')
<1>1. gw' = Listen(Cleared(Noted, FALSE)) \/ gw' = Noted
  BY DEF NothingReceived, Handled
<1>2. Cleared(Noted, FALSE) \in GwTypes
  BY NotedFields DEF Cleared, Sound, GwTypes
<1> QED
  BY <1>1, <1>2, NotedFields, ListenSound

LEMMA RestartSound ==
  ASSUME Sound(gw), Restart
  PROVE  Sound(gw')
<1>1. gw.cad \in BOOLEAN
  BY DEF Sound, GwTypes
<1>2. PICK sf \in SF7 .. SF12 : gw' = Setup(gw.cad, sf)
  BY DEF Restart
<1> QED
  BY <1>1, <1>2, SetupSound

LEMMA StateMachineSound ==
  ASSUME Sound(gw), StateMachine
  PROVE  Sound(gw')
BY DetectedSound, ScanDoneSound, ScanOtherSound, CadNextSound, CadLastSound,
   CadWaitsSound, ReceivedSound, ReceiveFailsSound, NothingReceivedSound,
   RestartSound
   DEF StateMachine

-----------------------------------------------------------------------------
(* The rest of the loop.                                                   *)
LEMMA WebSound ==
  ASSUME Sound(gw), Web
  PROVE  Sound(gw')
<1>1. CASE \E cad \in BOOLEAN : gw' = [gw EXCEPT !.cad = cad]
  BY <1>1 DEF Sound, GwTypes, Unmasked, Told
<1>2. ASSUME NEW sf \in SF7 .. SF12, gw' = [gw EXCEPT !.sf = sf]
      PROVE  Sound(gw')
  BY <1>2 DEF Sound, GwTypes, Unmasked, Told
<1>3. CASE gw' = RxLoraModem(gw)
  BY <1>3, RxLoraModemSound DEF Sound
<1>4. gw.sf \in SF7 .. SF12
  BY DEF Sound, GwTypes
<1>5. /\ (IF gw.sf >= SF12 THEN SF7 ELSE gw.sf + 1) \in SF7 .. SF12
      /\ (IF gw.sf <= SF7 THEN SF12 ELSE gw.sf - 1) \in SF7 .. SF12
  BY <1>4, SpreadingAssumption
<1> QED
  BY <1>1, <1>2, <1>3, <1>5 DEF Web

LEMMA ReadUdpSound ==
  ASSUME Sound(gw), ReadUdp
  PROVE  Sound(gw')
<1>1. CASE gw' = gw
  BY <1>1
<1>2. CASE gw' = [gw EXCEPT !.state = "S_TX"]
  BY <1>2 DEF Sound, GwTypes, Unmasked, Told
<1> QED
  BY <1>1, <1>2 DEF ReadUdp

LEMMA QuietSound ==
  ASSUME Sound(gw), Quiet
  PROVE  Sound(gw')
BY ListenClearedSound DEF Quiet, Sound

LEMMA PullDataSound ==
  ASSUME Sound(gw), PullData
  PROVE  Sound(gw')
<1>1. PICK late \in BOOLEAN :
        gw' = Cleared(Listen(InitLoraModem(gw)), late)
  BY DEF PullData, StartReceiver
<1>2. InitLoraModem(gw) \in GwTypes
  BY InitLoraModemTyped DEF Sound
<1> QED
  BY <1>1, <1>2, ListenClearedSound

(* The flags, the mask and the FIFO agree, whoever moves next: the modem,  *)
(* the state machine, the web page or the timers of the loop.              *)
THEOREM Invariance == Spec => []IInv
<1>1. Init => IInv
  BY SetupSound DEF Init, IInv
<1>2. IInv /\ [Next]_vars => IInv'
  <2> SUFFICES ASSUME IInv, [Next]_vars
               PROVE  IInv'
    OBVIOUS
  <2>1. Sound(gw)
    BY DEF IInv
  <2>2. CASE UNCHANGED vars
    BY <2>2 DEF vars, IInv, Sound, Unmasked, Told
  <2>3. CASE StateMachine
    <3>1. Sound(gw')
      BY <2>1, <2>3, StateMachineSound
    <3>2. heard' \in BOOLEAN /\ pc' \in {"SM", "QUIET"}
      BY <2>3 DEF IInv, StateMachine, Detected, ScanDone, ScanOther, CadNext,
         CadLast, CadWaits, Received, ReceiveFails, NothingReceived, Restart,
         Handled
    <3> QED
      BY <3>1, <3>2 DEF IInv, Sound, Unmasked, Told
  <2>4. CASE Quiet
    BY <2>1, <2>4, QuietSound DEF Quiet, IInv, Sound, Unmasked, Told
  <2>5. CASE NotQuiet
    BY <2>5 DEF NotQuiet, IInv, Sound, Unmasked, Told
  <2>6. CASE Web
    BY <2>1, <2>6, WebSound DEF Web, IInv, Sound, Unmasked, Told
  <2>7. CASE Check
    BY <2>7 DEF Check, IInv, Sound, Unmasked, Told
  <2>8. CASE ReadUdp
    BY <2>1, <2>8, ReadUdpSound DEF ReadUdp, IInv, Sound, Unmasked, Told
  <2>9. CASE PullData
    BY <2>1, <2>9, PullDataSound DEF PullData, IInv, Sound, Unmasked, Told
  <2>10. CASE PullLater
    BY <2>10 DEF PullLater, IInv, Sound, Unmasked, Told
  <2>11. CASE CadEnds
    BY <2>1, <2>11, CadEndsSound
       DEF CadEnds, Modem, IInv, Sound, Unmasked, Told
  <2>12. CASE HeaderComes
    BY <2>1, <2>12, HeaderComesSound
       DEF HeaderComes, Modem, IInv, Sound, Unmasked, Told
  <2>13. CASE FrameEnds
    BY <2>1, <2>13, FrameEndsSound
       DEF FrameEnds, Modem, IInv, Sound, Unmasked, Told
  <2>14. CASE ReceiveTimesOut
    BY <2>1, <2>14, ReceiveTimesOutSound
       DEF ReceiveTimesOut, Modem, IInv, Sound, Unmasked, Told
  <2> QED
    BY <2>2, <2>3, <2>4, <2>5, <2>6, <2>7, <2>8, <2>9, <2>10, <2>11, <2>12,
       <2>13, <2>14 DEF Next, Loop
<1> QED
  BY <1>1, <1>2, PTL DEF Spec

-----------------------------------------------------------------------------
(* TypeOK: the statics of the sketch and the registers of the modem have   *)
(* their types, and what runs has its result unmasked.                     *)
THEOREM TypeCorrect == Spec => []TypeOK
<1>1. IInv => TypeOK
  BY DEF IInv, TypeOK, Sound, GwTypes, Modes, Unmasked
<1> QED
  BY <1>1, Invariance, PTL

(* ForwardsGood: receivePkt looks at flags that are not of one frame, and  *)
(* still it takes only a frame whose CRC was right for a good one.         *)
THEOREM OnlyGoodForwarded == Spec => ForwardsGood
<1>1. IInv => (Received => /\ gw.fifo # <<>> /\ gw.fifo[1] = {}
                           /\ (gw.mode # "RX" => Len(gw.fifo) = 1))
  <2> SUFFICES ASSUME IInv, Received
               PROVE  /\ gw.fifo # <<>> /\ gw.fifo[1] = {}
                      /\ (gw.mode # "RX" => Len(gw.fifo) = 1)
    OBVIOUS
  <2>1. gw.state = "S_RX" /\ "RXDONE" \in gw.flags /\ "CRCERR" \notin gw.flags
    BY DEF Received, At, Interrupts, ReceivePkt
  <2>2. /\ gw.fifo # <<>>
        /\ \A i \in 1 .. Len(gw.fifo) : gw.fifo[i] = {}
        /\ gw.mode # "RX" => Len(gw.fifo) <= 1
    BY <2>1 DEF IInv, Sound, Told
  <2>3. gw.fifo \in Seq(SUBSET {"CRCERR"})
    BY DEF IInv, Sound, GwTypes
  <2>4. Len(gw.fifo) \in Nat /\ Len(gw.fifo) # 0
    BY <2>2, <2>3, EmptySeq
  <2>5. 1 \in 1 .. Len(gw.fifo)
    BY <2>4
  <2>6. gw.fifo[1] = {}
    BY <2>2, <2>5
  <2>7. gw.mode # "RX" => Len(gw.fifo) = 1
    <3>1. gw.mode # "RX" => Len(gw.fifo) <= 1
      BY <2>2
    <3>2. \A n \in Nat : n # 0 /\ n <= 1 => n = 1
      OBVIOUS
    <3> QED
      BY <2>4, <3>1, <3>2
  <2> QED
    BY <2>2, <2>6, <2>7
<1>2. IInv /\ [Next]_vars
        => [Received => /\ gw.fifo # <<>> /\ gw.fifo[1] = {}
                        /\ (gw.mode # "RX" => Len(gw.fifo) = 1)]_vars
  BY <1>1
<1> QED
  BY <1>2, Invariance, PTL DEF Spec, ForwardsGood
=============================================================================
