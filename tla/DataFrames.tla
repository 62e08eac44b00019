----------------------------- MODULE DataFrames -----------------------------
(***************************************************************************)
(* What the data frames of LoRaMac.c carry: the counter of a downlink, the *)
(* acknowledgement the device owes the server, and the MAC commands that   *)
(* wait in MacCommandsBuffer for an uplink.  LoRaMac.tla has the timers,   *)
(* windows and retries of a data procedure; here a procedure is only       *)
(* running or not, and the air may lose, repeat and reorder downlinks:     *)
(* any frame of the session whose keys the device holds may arrive at any  *)
(* time.  A buffer of commands is counted in bytes.                        *)
(***************************************************************************)
EXTENDS Integers

CONSTANTS
  Fcnts,        \* bound: the 32-bit counters of the downlinks that may arrive
  Loads,        \* the pairs of commands a downlink asks an answer to
  PayloadSizes, \* appDataSize, as the sketch may choose it
  MaxPayloads,  \* the longest payload, one per datarate
  LENGTH,       \* LORA_MAC_COMMAND_MAX_LENGTH
  FOPTS         \* LORA_MAC_COMMAND_MAX_FOPTS_LENGTH

MAX_FCNT_GAP == 16384

\* What AddMacCommand may be asked to store; "NONE" stands for no command.
Commands == {"NONE", "LINK_CHECK_REQ", "LINK_ADR_ANS", "DUTY_CYCLE_ANS",
             "RX_PARAM_SETUP_ANS", "DEV_STATUS_ANS", "NEW_CHANNEL_ANS",
             "RX_TIMING_SETUP_ANS", "TX_PARAM_SETUP_ANS", "DL_CHANNEL_ANS"}

ASSUME FcntAssumption == Fcnts \subseteq Nat
ASSUME LoadAssumption == Loads \subseteq Commands \X Commands
ASSUME SizeAssumption == PayloadSizes \subseteq Nat /\ MaxPayloads \subseteq Nat
\* 15 and 128 in the code: two full FOpts fields fit into the buffer.
ASSUME LengthAssumption == /\ LENGTH \in Nat
                           /\ FOPTS \in Nat
                           /\ 2 * FOPTS <= LENGTH

VARIABLES
  joined,           \* IsLoRaMacNetworkJoined
  keyed,            \* the device holds session keys, of this session or an old one
  DownLinkCounter,
  SrvAckRequested,
  McpsRequest,      \* McpsConfirm.McpsRequest: the last data request sent
  TxRunning,        \* the data procedure is running
  cmds,             \* MacCommandsBuffer, MacCommandsBufferToRepeat, InNextTx
  frame,            \* LoRaMacBuffer: the last data frame built
  hist              \* history, for the properties only

vars == <<joined, keyed, DownLinkCounter, SrvAckRequested, McpsRequest,
          TxRunning, cmds, frame, hist>>

NoCommands == [sticky |-> 0, other |-> 0, rep |-> 0, inNext |-> FALSE]

(* History.  top: the highest counter taken in this session; again: the    *)
(* counters given to the application twice in it; missed: a fresh frame    *)
(* was not taken; stale: a frame of the old session was taken after the    *)
(* join request that resets the counter; owed: a confirmed downlink is     *)
(* not acknowledged; refused: a frame that would have done it was built    *)
(* and not sent; unheard: the sticky bytes of the last frame sent, when no *)
(* downlink has come since.                                                *)
NoHistory == [top |-> -1, again |-> {}, missed |-> FALSE, stale |-> FALSE,
              owed |-> FALSE, refused |-> FALSE, unheard |-> 0]

Init ==
  /\ joined = FALSE
  /\ keyed = FALSE
  /\ DownLinkCounter = -1
  /\ SrvAckRequested = FALSE
  /\ McpsRequest = "UNCONFIRMED"
  /\ TxRunning = FALSE
  /\ cmds = NoCommands
  /\ frame = [ack |-> FALSE, sticky |-> 0, other |-> 0, port0 |-> FALSE]
  /\ hist = NoHistory

-----------------------------------------------------------------------------
(* The counter of a downlink.  A frame carries the low 16 bits of it, and  *)
(* its MIC is right for the 32-bit counter the server used and no other.   *)

Low(n) == n % 65536

\* Mutant: the difference is not cut to 16 bits.
DiffUncut(f) == Low(f) - Low(DownLinkCounter)

SequenceCounterDiff(f) == (Low(f) - Low(DownLinkCounter)) % 65536

(* The 32-bit counter the MIC is computed with.  The second branch is the  *)
(* roll-over of the code: the difference is cast to a signed 16-bit value. *)
Extended(f) ==
  IF SequenceCounterDiff(f) < 32768
  THEN DownLinkCounter + SequenceCounterDiff(f)
  ELSE DownLinkCounter + 65536 + (SequenceCounterDiff(f) - 65536)

MicOk(f) == keyed /\ Extended(f) = f

Valid(f) == MicOk(f) /\ SequenceCounterDiff(f) < MAX_FCNT_GAP

\* Mutant: only a confirmed frame can be a repetition.
NeverRepeated(f) == FALSE

Repeated(f) == f = DownLinkCounter /\ DownLinkCounter # 0

-----------------------------------------------------------------------------
(* The buffer of MAC commands.                                             *)

Index(m) == m.sticky + m.other

Sticky(c) ==
  c \in {"RX_PARAM_SETUP_ANS", "RX_TIMING_SETUP_ANS", "DL_CHANNEL_ANS"}

Size(c) ==
  CASE c = "NONE" -> 0
    [] c = "DEV_STATUS_ANS" -> 3
    [] c \in {"LINK_ADR_ANS", "RX_PARAM_SETUP_ANS", "NEW_CHANNEL_ANS",
              "DL_CHANNEL_ANS"} -> 2
    [] OTHER -> 1

(* DL_CHANNEL_ANS stores two bytes where it has only found room for one.   *)
Needed(c) == IF c = "DL_CHANNEL_ANS" THEN 1 ELSE Size(c)

\* Mutant: the bytes to repeat are not taken into account.
FitsAlone(m, c) == Index(m) + Needed(c) <= LENGTH
\* Mutant: no command is ever refused.
FitsAlways(m, c) == TRUE

Fits(m, c) == Index(m) + Needed(c) <= LENGTH - m.rep

AddMacCommand(m, c) ==
  IF c # "NONE" /\ Fits(m, c)
  THEN IF Sticky(c)
       THEN [m EXCEPT !.sticky = @ + Size(c), !.inNext = TRUE]
       ELSE [m EXCEPT !.other = @ + Size(c), !.inNext = TRUE]
  ELSE m

ResetIndex(m) == [m EXCEPT !.sticky = 0, !.other = 0]

(* LoRaMacQueryTxPossible: commands that do not fit the datarate are given *)
(* up, with those to repeat; a payload too long for the datarate is still  *)
(* let through when commands wait with it (ValidatePayloadLength).         *)
Omitted(m, max) == Index(m) + m.rep > max

Queried(m, max) ==
  IF Omitted(m, max) THEN [ResetIndex(m) EXCEPT !.rep = 0] ELSE m

PayloadPossible(m, size, max) ==
  \/ size + Index(m) + m.rep <= max
  \/ Index(m) + m.rep > 0

-----------------------------------------------------------------------------
(* Uplinks.                                                                *)

(* PrepareFrame adds the commands to repeat to the buffer.  They go into   *)
(* FOpts beside a payload, or take the place of it on port 0.              *)
Merged(m) == [m EXCEPT !.sticky = @ + m.rep]

OnPort0(m, size) == m.inNext /\ Index(m) > 0 /\ (size = 0 \/ Index(m) > FOPTS)

\* Mutant: the mark is not set again for the commands to repeat.
PreparedUnmarked(m, size) ==
  LET b == Merged(m)
  IN [sticky |-> IF OnPort0(b, size) THEN 0 ELSE b.sticky,
      other |-> IF OnPort0(b, size) THEN 0 ELSE b.other,
      rep |-> b.sticky, inNext |-> FALSE]

Prepared(m, size) ==
  LET b == Merged(m)
  IN [sticky |-> IF OnPort0(b, size) THEN 0 ELSE b.sticky,
      other |-> IF OnPort0(b, size) THEN 0 ELSE b.other,
      rep |-> b.sticky, inNext |-> b.sticky > 0]

FrameBuilt(m, size, ack) ==
  LET b == Merged(m)
  IN [ack |-> ack,
      sticky |-> IF b.inNext THEN b.sticky ELSE 0,
      other |-> IF b.inNext THEN b.other ELSE 0,
      port0 |-> OnPort0(b, size)]

(* ScheduleTx refuses a frame already built when the server has switched   *)
(* the device off (MaxDCycle 255) or a datarate lowered meanwhile does not *)
(* carry it; which of the two is left open.                                *)
Request(type, size, max, refuse) ==
  LET m    == Queried(cmds, max)
      data == PayloadPossible(m, size, max)
      len  == IF data THEN size ELSE 0
      f    == FrameBuilt(m, len, SrvAckRequested)
      lost == IF Omitted(cmds, max) THEN 0 ELSE hist.unheard
  IN /\ cmds' = Prepared(m, len)
     /\ frame' = f
     /\ SrvAckRequested' = FALSE
     /\ TxRunning' = ~refuse
     /\ McpsRequest' = IF data /\ ~refuse THEN type ELSE "UNCONFIRMED"
     /\ hist' = IF refuse
                THEN [hist EXCEPT !.unheard = lost,
                                  !.refused = @ \/ SrvAckRequested]
                ELSE [hist EXCEPT !.unheard = f.sticky,
                                  !.owed = @ /\ ~f.ack]
     /\ UNCHANGED <<joined, keyed, DownLinkCounter>>

(* SendFrame: LoRaMacQueryTxPossible runs whatever the MAC is doing, then  *)
(* LoRaMacMcpsRequest is busy, finds no network, or builds the frame.      *)
SendFrame(type, size, max, refuse) ==
  IF TxRunning \/ ~joined
  THEN /\ cmds' = Queried(cmds, max)
       /\ hist' = IF Omitted(cmds, max) THEN [hist EXCEPT !.unheard = 0]
                                        ELSE hist
       /\ McpsRequest' = IF TxRunning THEN McpsRequest ELSE "UNCONFIRMED"
       /\ UNCHANGED <<joined, keyed, DownLinkCounter, SrvAckRequested,
                      TxRunning, frame>>
  ELSE Request(type, size, max, refuse)

(* MLME_LINK_CHECK stores its command for the next uplink.                 *)
LinkCheck ==
  /\ ~TxRunning
  /\ cmds' = AddMacCommand(cmds, "LINK_CHECK_REQ")
  /\ UNCHANGED <<joined, keyed, DownLinkCounter, SrvAckRequested, McpsRequest,
                 TxRunning, frame, hist>>

-----------------------------------------------------------------------------
(* The end of a data procedure that has heard no frame, at the three       *)
(* places of OnMacStateCheckTimerEvent where the waiting commands go.      *)

Stopped ==
  /\ TxRunning
  /\ TxRunning' = FALSE
  /\ cmds' = ResetIndex(cmds)
  /\ UNCHANGED <<joined, keyed, DownLinkCounter, SrvAckRequested, McpsRequest,
                 frame, hist>>

TxTimeout == Stopped

RepetitionsOver == McpsRequest = "UNCONFIRMED" /\ Stopped

RetriesOver == McpsRequest = "CONFIRMED" /\ Stopped

-----------------------------------------------------------------------------
(* Downlinks.                                                              *)

(* A frame the MAC aborts: of another device, broken, or out of its gap.   *)
(* It counts as heard, so an unconfirmed procedure ends with its commands  *)
(* kept.                                                                   *)
RunningAfterAbort == TxRunning /\ McpsRequest = "CONFIRMED"

RxAlien ==
  /\ TxRunning' = RunningAfterAbort
  /\ UNCHANGED <<joined, keyed, DownLinkCounter, SrvAckRequested, McpsRequest,
                 cmds, frame, hist>>

(* A frame of this session, above all those taken and within the gap.      *)
Fresh(f) ==
  /\ joined
  /\ ~hist.stale
  /\ hist.top < f
  /\ f - hist.top < MAX_FCNT_GAP

Answered(ack, load) ==
  LET kept == IF McpsRequest = "CONFIRMED" /\ ~ack THEN cmds
                                                  ELSE ResetIndex(cmds)
  IN AddMacCommand(AddMacCommand([kept EXCEPT !.rep = 0], load[1]), load[2])

Taken(f, ack, load) ==
  /\ DownLinkCounter' = f
  /\ cmds' = Answered(ack, load)
  /\ TxRunning' = (TxRunning /\ McpsRequest = "CONFIRMED" /\ ~ack)

(* The repetition of an unconfirmed frame is aborted after the bytes to    *)
(* repeat are cleared and before anything else of it is looked at.         *)
Dropped ==
  /\ cmds' = [cmds EXCEPT !.rep = 0]
  /\ TxRunning' = RunningAfterAbort
  /\ UNCHANGED DownLinkCounter

(* OnRadioRxDone for a frame that bears the address of the device.         *)
RxData(f, confirmed, ack, load) ==
  /\ keyed
  /\ IF Valid(f)
     THEN /\ SrvAckRequested' = confirmed
          /\ IF Repeated(f) /\ ~confirmed THEN Dropped ELSE Taken(f, ack, load)
          /\ hist' = [hist EXCEPT
               !.owed = confirmed, !.refused = FALSE, !.unheard = 0,
               !.stale = @ \/ ~joined,
               !.top = IF joined THEN f ELSE @,
               !.again = IF joined /\ ~Repeated(f) /\ f <= hist.top
                         THEN @ \cup {f} ELSE @]
     ELSE /\ TxRunning' = RunningAfterAbort
          /\ hist' = [hist EXCEPT !.missed = @ \/ Fresh(f)]
          /\ UNCHANGED <<DownLinkCounter, SrvAckRequested, cmds>>
  /\ UNCHANGED <<joined, keyed, McpsRequest, frame>>

-----------------------------------------------------------------------------
(* Sessions.                                                               *)

\* Mutant: the acknowledgement owed outlives the session.
ResetKeepsAck ==
  /\ ~TxRunning
  /\ joined' = FALSE
  /\ DownLinkCounter' = -1
  /\ cmds' = NoCommands
  /\ hist' = NoHistory
  /\ UNCHANGED <<keyed, SrvAckRequested, McpsRequest, TxRunning, frame>>

(* A join request, and each trial of it, resets the MAC parameters.  The   *)
(* keys and the address of the old session stay until a join accept.       *)
ResetMacParameters ==
  /\ ~TxRunning
  /\ joined' = FALSE
  /\ DownLinkCounter' = -1
  /\ SrvAckRequested' = FALSE
  /\ cmds' = NoCommands
  /\ hist' = NoHistory
  /\ UNCHANGED <<keyed, McpsRequest, TxRunning, frame>>

(* A join accept brings new keys; it does not touch DownLinkCounter.       *)
JoinAccept ==
  /\ ~joined
  /\ joined' = TRUE
  /\ keyed' = TRUE
  /\ UNCHANGED <<DownLinkCounter, SrvAckRequested, McpsRequest, TxRunning,
                 cmds, frame, hist>>

(* Power is lost: RTC memory takes its first values again.                 *)
PowerUp ==
  /\ joined' = FALSE
  /\ keyed' = FALSE
  /\ DownLinkCounter' = -1
  /\ SrvAckRequested' = FALSE
  /\ McpsRequest' = "UNCONFIRMED"
  /\ TxRunning' = FALSE
  /\ cmds' = NoCommands
  /\ frame' = [ack |-> FALSE, sticky |-> 0, other |-> 0, port0 |-> FALSE]
  /\ hist' = NoHistory

(* Once a command has been stored past the end of MacCommandsBuffer, C     *)
(* defines nothing of what follows: only a power-up is left.               *)
InBounds == Index(cmds) <= LENGTH

Send ==
  \E type \in {"UNCONFIRMED", "CONFIRMED"}, size \in PayloadSizes,
     max \in MaxPayloads, refuse \in BOOLEAN :
       SendFrame(type, size, max, refuse)

Receive ==
  \E f \in Fcnts, confirmed \in BOOLEAN, ack \in BOOLEAN, load \in Loads :
    RxData(f, confirmed, ack, load)

Next ==
  \/ PowerUp
  \/ InBounds /\ Send
  \/ InBounds /\ LinkCheck
  \/ InBounds /\ TxTimeout
  \/ InBounds /\ RepetitionsOver
  \/ InBounds /\ RetriesOver
  \/ InBounds /\ RxAlien
  \/ InBounds /\ Receive
  \/ InBounds /\ ResetMacParameters
  \/ InBounds /\ JoinAccept

Spec == Init /\ [][Next]_vars

-----------------------------------------------------------------------------
(* Properties.                                                             *)

(* Every variable keeps its type; the buffers hold at most one byte more   *)
(* than LENGTH.                                                            *)
TypeOK ==
  /\ joined \in BOOLEAN
  /\ keyed \in BOOLEAN
  /\ DownLinkCounter \in {-1} \cup Fcnts
  /\ SrvAckRequested \in BOOLEAN
  /\ McpsRequest \in {"UNCONFIRMED", "CONFIRMED"}
  /\ TxRunning \in BOOLEAN
  /\ cmds \in [sticky : 0 .. LENGTH + 1, other : 0 .. LENGTH + 1,
               rep : 0 .. LENGTH + 1, inNext : BOOLEAN]
  /\ frame \in [ack : BOOLEAN, sticky : 0 .. LENGTH + 1,
                other : 0 .. LENGTH + 1, port0 : BOOLEAN]
  /\ hist \in [top : {-1} \cup Fcnts, again : SUBSET Fcnts, missed : BOOLEAN,
               stale : BOOLEAN, owed : BOOLEAN, refused : BOOLEAN,
               unheard : 0 .. LENGTH + 1]

(* However the air loses, repeats and reorders the downlinks of a session, *)
(* none is given to the application twice, except the first: a frame with  *)
(* counter 0 is never taken for a repetition.                              *)
DeliveredOnce == hist.again \subseteq {0}

(* However many downlinks were lost, as long as fewer than MAX_FCNT_GAP, a *)
(* frame above all those taken is taken, also where its 16-bit counter has *)
(* rolled over.  (A frame of the old session taken between a join request  *)
(* and the join accept spoils it: the accept does not reset the counter.)  *)
NoFreshMissed == ~hist.missed

(* An uplink carries the ACK bit exactly when the last downlink taken was  *)
(* confirmed and no uplink has acknowledged it; a frame that was built and *)
(* then refused is the only way to lose the acknowledgement.               *)
AckCarried ==
  [][~TxRunning /\ TxRunning' =>
       (frame'.ack <=> hist.owed /\ ~hist.refused)]_vars

(* Sticky answers are sent again in every uplink until a downlink shows    *)
(* that the server has heard them, unless all commands are given up because *)
(* they outgrew the datarate.                                              *)
StickyRepeated ==
  [][~TxRunning /\ TxRunning' =>
       \/ frame'.sticky >= hist.unheard
       \/ /\ \E max \in MaxPayloads : Omitted(cmds, max)
          /\ frame'.sticky + frame'.other = 0]_vars

(* The commands waiting and those to repeat always fit together into the   *)
(* buffer they are copied into, but for the one byte too many that a       *)
(* DL_CHANNEL_ANS may store when nothing is to be repeated.                *)
BuffersFit ==
  \/ Index(cmds) + cmds.rep <= LENGTH
  \/ cmds.rep = 0 /\ cmds.sticky >= 2 /\ Index(cmds) = LENGTH + 1
=============================================================================
