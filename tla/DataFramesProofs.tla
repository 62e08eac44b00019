-------------------------- MODULE DataFramesProofs --------------------------
(***************************************************************************)
(* Proofs about DataFrames, for any set of counters, any downlinks and any *)
(* lengths of the two buffers: the invariants and action properties that   *)
(* MCDataFrames checks on a short buffer and a few counters.               *)
(***************************************************************************)
EXTENDS DataFrames, TLAPS

-----------------------------------------------------------------------------
(* The counter.                                                            *)

\* The difference of the low halves is the distance modulo 2^16.
LEMMA Euclid ==
  ASSUME NEW n \in Int
  PROVE  /\ n \div 65536 \in Int
         /\ n % 65536 \in Int
         /\ n = 65536 * (n \div 65536) + (n % 65536)
         /\ 0 <= n % 65536
         /\ n % 65536 < 65536
OBVIOUS

LEMMA LowDifference ==
  ASSUME NEW d \in Int, NEW f \in Int
  PROVE  /\ ((f % 65536) - (d % 65536)) % 65536 \in Int
         /\ 0 <= ((f % 65536) - (d % 65536)) % 65536
         /\ ((f % 65536) - (d % 65536)) % 65536 < 65536
         /\ \E k \in Int :
              ((f % 65536) - (d % 65536)) % 65536 = f - d + 65536 * k
<1> DEFINE x == f % 65536
           y == d % 65536
           e == x - y
<1>1. /\ f \div 65536 \in Int
      /\ x \in Int
      /\ f = 65536 * (f \div 65536) + x
  BY Euclid
<1>2. /\ d \div 65536 \in Int
      /\ y \in Int
      /\ d = 65536 * (d \div 65536) + y
  BY Euclid
<1>3. e \in Int
  BY <1>1, <1>2
<1> HIDE DEF e
<1>4. /\ e \div 65536 \in Int
      /\ e % 65536 \in Int
      /\ e = 65536 * (e \div 65536) + (e % 65536)
      /\ 0 <= e % 65536
      /\ e % 65536 < 65536
  BY <1>3, Euclid
<1>5. PICK a \in Int, b \in Int, c \in Int :
        /\ f = 65536 * a + x
        /\ d = 65536 * b + y
        /\ e = 65536 * c + (e % 65536)
  BY <1>1, <1>2, <1>4
<1> DEFINE k0 == b - a - c
<1>6. e % 65536 = f - d + 65536 * k0
  <2>1. e = x - y
    BY DEF e
  <2> HIDE DEF x, y
  <2> QED
    BY <2>1, <1>1, <1>2, <1>4, <1>5
<1>7. k0 \in Int
  BY <1>5
<1>8. \E k \in Int : e % 65536 = f - d + 65536 * k
  <2> HIDE DEF k0
  <2> QED
    BY <1>6, <1>7
<1> QED
  BY <1>4, <1>8 DEF e

(* What the code computes from the low halves of the two counters: the     *)
(* distance of the frame ahead of the last one, modulo 2^16.               *)
LEMMA DiffIsDistance ==
  ASSUME DownLinkCounter \in Int, NEW f \in Int
  PROVE  /\ SequenceCounterDiff(f) \in Int
         /\ 0 <= SequenceCounterDiff(f)
         /\ SequenceCounterDiff(f) < 65536
         /\ \E k \in Int :
              SequenceCounterDiff(f) = f - DownLinkCounter + 65536 * k
BY LowDifference DEF SequenceCounterDiff, Low

(* The MIC is right for the counters from the last one to 2^16 - 1 above   *)
(* it, whichever of the two branches of the code is taken, and no other.   *)
LEMMA ExtensionExact ==
  ASSUME DownLinkCounter \in Int, NEW f \in Int
  PROVE  Extended(f) = f <=>
           DownLinkCounter <= f /\ f - DownLinkCounter < 65536
<1> DEFINE diff == SequenceCounterDiff(f)
<1>1. PICK k \in Int : diff = f - DownLinkCounter + 65536 * k
  BY DiffIsDistance
<1>2. diff \in Int /\ 0 <= diff /\ diff < 65536
  BY DiffIsDistance
<1>3. Extended(f) = DownLinkCounter + diff
  BY <1>2 DEF Extended
<1> HIDE DEF diff
<1> QED
  BY <1>1, <1>2, <1>3

(* A frame less than the gap above the last counter passes both tests.     *)
LEMMA InGapValid ==
  ASSUME keyed, DownLinkCounter \in Int, NEW f \in Int,
         DownLinkCounter <= f, f - DownLinkCounter < MAX_FCNT_GAP
  PROVE  Valid(f)
<1> DEFINE diff == SequenceCounterDiff(f)
<1>1. PICK k \in Int : diff = f - DownLinkCounter + 65536 * k
  BY DiffIsDistance
<1>2. diff \in Int /\ 0 <= diff /\ diff < 65536
  BY DiffIsDistance
<1>3. diff < MAX_FCNT_GAP
  <2> HIDE DEF diff
  <2> QED
    BY <1>1, <1>2 DEF MAX_FCNT_GAP
<1>4. Extended(f) = f
  BY ExtensionExact DEF MAX_FCNT_GAP
<1> QED
  BY <1>3, <1>4 DEF Valid, MicOk

(* No frame below the last counter is ever valid.                          *)
LEMMA ValidAhead ==
  ASSUME DownLinkCounter \in Int, NEW f \in Int, Valid(f)
  PROVE  DownLinkCounter <= f
BY ExtensionExact DEF Valid, MicOk

-----------------------------------------------------------------------------
(* The buffers of MAC commands.  WellKept is what every operation on them  *)
(* keeps: commands that must be repeated are marked for the next uplink,   *)
(* and both buffers fit together, but for one byte of a DL_CHANNEL_ANS.    *)

Overrun(m) == m.rep = 0 /\ m.sticky >= 2 /\ Index(m) = LENGTH + 1

WellKept(m) ==
  /\ m \in [sticky : Nat, other : Nat, rep : Nat, inNext : BOOLEAN]
  /\ (m.sticky > 0 \/ m.rep > 0) => m.inNext
  /\ Index(m) + m.rep <= LENGTH \/ Overrun(m)

LEMMA SizeNeeded ==
  ASSUME NEW c \in Commands, c # "NONE"
  PROVE  /\ Size(c) \in Nat /\ Needed(c) \in Nat
         /\ 0 < Needed(c)
         /\ c # "DL_CHANNEL_ANS" => Size(c) = Needed(c)
         /\ c = "DL_CHANNEL_ANS" =>
              Needed(c) = 1 /\ Size(c) = 2 /\ Sticky(c)
BY DEF Size, Needed, Sticky, Commands

(* A command keeps the buffers well when it is one whose room is checked   *)
(* rightly, or when no bytes wait to be repeated.                          *)
LEMMA AddKeeps ==
  ASSUME NEW m, WellKept(m), NEW c \in Commands,
         m.rep = 0 \/ c # "DL_CHANNEL_ANS"
  PROVE  WellKept(AddMacCommand(m, c)) /\ AddMacCommand(m, c).rep = m.rep
<1>1. CASE c = "NONE" \/ ~Fits(m, c)
  BY <1>1 DEF AddMacCommand
<1>2. CASE c # "NONE" /\ Fits(m, c)
  <2>1. m \in [sticky : Nat, other : Nat, rep : Nat, inNext : BOOLEAN]
    BY DEF WellKept
  <2>2. Index(m) + Needed(c) + m.rep <= LENGTH
    BY <1>2, <2>1, SizeNeeded, LengthAssumption DEF Fits, Index
  <2> DEFINE r == AddMacCommand(m, c)
  <2>3. CASE Sticky(c)
    <3>1. r = [m EXCEPT !.sticky = @ + Size(c), !.inNext = TRUE]
      BY <1>2, <2>3 DEF AddMacCommand
    <3>2. /\ r \in [sticky : Nat, other : Nat, rep : Nat, inNext : BOOLEAN]
          /\ r.sticky = m.sticky + Size(c)
          /\ r.other = m.other
          /\ r.rep = m.rep
          /\ r.inNext
      <4>1. Size(c) \in Nat
        BY <1>2, SizeNeeded
      <4> HIDE DEF r
      <4>2. r = [sticky |-> m.sticky + Size(c), other |-> m.other,
                 rep |-> m.rep, inNext |-> TRUE]
        BY <2>1, <3>1, <4>1
      <4>3. r.inNext
        BY <4>2, Zenon
      <4>4. r \in [sticky : Nat, other : Nat, rep : Nat, inNext : BOOLEAN]
        BY <2>1, <4>1, <4>2
      <4> QED
        BY <2>1, <4>1, <4>2, <4>3, <4>4
    <3> HIDE DEF r
    <3> QED
      BY <1>2, <2>1, <2>2, <3>2, SizeNeeded, LengthAssumption
      DEF WellKept, Overrun, Index, r
  <2>4. CASE ~Sticky(c)
    <3>1. r = [m EXCEPT !.other = @ + Size(c), !.inNext = TRUE]
      BY <1>2, <2>4 DEF AddMacCommand
    <3>2. /\ r \in [sticky : Nat, other : Nat, rep : Nat, inNext : BOOLEAN]
          /\ r.sticky = m.sticky
          /\ r.other = m.other + Size(c)
          /\ r.rep = m.rep
          /\ r.inNext
      <4>1. Size(c) \in Nat
        BY <1>2, SizeNeeded
      <4> HIDE DEF r
      <4>2. r = [sticky |-> m.sticky, other |-> m.other + Size(c),
                 rep |-> m.rep, inNext |-> TRUE]
        BY <2>1, <3>1, <4>1
      <4>3. r.inNext
        BY <4>2, Zenon
      <4>4. r \in [sticky : Nat, other : Nat, rep : Nat, inNext : BOOLEAN]
        BY <2>1, <4>1, <4>2
      <4> QED
        BY <2>1, <4>1, <4>2, <4>3, <4>4
    <3>3. Size(c) = Needed(c)
      BY <1>2, <2>4, SizeNeeded
    <3> HIDE DEF r
    <3> QED
      BY <1>2, <2>1, <2>2, <3>2, <3>3, SizeNeeded, LengthAssumption
      DEF WellKept, Overrun, Index, r
  <2> QED
    BY <2>3, <2>4
<1> QED
  BY <1>1, <1>2

LEMMA ResetKeeps ==
  ASSUME NEW m, WellKept(m)
  PROVE  /\ WellKept(ResetIndex(m))
         /\ ResetIndex(m).rep = m.rep
         /\ Index(ResetIndex(m)) = 0
         /\ WellKept([m EXCEPT !.rep = 0])
         /\ [m EXCEPT !.rep = 0].rep = 0
<1> DEFINE Rec == [sticky : Nat, other : Nat, rep : Nat, inNext : BOOLEAN]
           r == ResetIndex(m)
           q == [m EXCEPT !.rep = 0]
<1>1. m \in Rec
  BY DEF WellKept
<1>2. r \in Rec /\ r.sticky = 0 /\ r.other = 0 /\ r.rep = m.rep
      /\ r.inNext = m.inNext
  BY <1>1 DEF ResetIndex
<1>3. q \in Rec /\ q.sticky = m.sticky /\ q.other = m.other /\ q.rep = 0
      /\ q.inNext = m.inNext
  BY <1>1
<1> HIDE DEF r, q
<1>4. WellKept(r) /\ Index(r) = 0
  BY <1>1, <1>2, LengthAssumption DEF WellKept, Index, Overrun
<1>5. WellKept(q)
  BY <1>1, <1>3, LengthAssumption DEF WellKept, Index, Overrun
<1> QED
  BY <1>2, <1>3, <1>4, <1>5 DEF r, q

LEMMA QueriedKeeps ==
  ASSUME NEW m, WellKept(m), NEW max
  PROVE  /\ WellKept(Queried(m, max))
         /\ Omitted(m, max) => Queried(m, max).rep = 0
         /\ ~Omitted(m, max) => Queried(m, max) = m
         /\ Index(m) <= LENGTH => Index(Queried(m, max)) <= LENGTH
<1>1. CASE Omitted(m, max)
  <2> DEFINE r == ResetIndex(m)
  <2>1. WellKept(r) /\ Index(r) = 0
    BY ResetKeeps
  <2>2. Queried(m, max) = [r EXCEPT !.rep = 0]
    BY <1>1 DEF Queried
  <2> HIDE DEF r
  <2>3. /\ WellKept([r EXCEPT !.rep = 0])
        /\ [r EXCEPT !.rep = 0].rep = 0
    BY <2>1, ResetKeeps
  <2>4. Index([r EXCEPT !.rep = 0]) = 0
    BY <2>1 DEF Index, WellKept
  <2> QED
    BY <1>1, <2>2, <2>3, <2>4, LengthAssumption
<1>2. CASE ~Omitted(m, max)
  BY <1>2 DEF Queried
<1> QED
  BY <1>1, <1>2

(* PrepareFrame: the frame bears at least the sticky bytes to repeat, and  *)
(* what it leaves fits, since a FOpts field is at most half the buffer.    *)
LEMMA PreparedKeeps ==
  ASSUME NEW m, WellKept(m), Index(m) <= LENGTH, NEW size \in Nat,
         NEW ack \in BOOLEAN
  PROVE  /\ WellKept(Prepared(m, size))
         /\ FrameBuilt(m, size, ack) \in
              [ack : BOOLEAN, sticky : 0 .. LENGTH + 1,
               other : 0 .. LENGTH + 1, port0 : BOOLEAN]
         /\ FrameBuilt(m, size, ack).ack = ack
         /\ FrameBuilt(m, size, ack).sticky >= m.rep
         /\ Prepared(m, size).rep >= FrameBuilt(m, size, ack).sticky
<1> DEFINE b == Merged(m)
           p == Prepared(m, size)
           f == FrameBuilt(m, size, ack)
<1>1. m \in [sticky : Nat, other : Nat, rep : Nat, inNext : BOOLEAN]
  BY DEF WellKept
<1>2. /\ b.sticky = m.sticky + m.rep
      /\ b.other = m.other
      /\ b.inNext = m.inNext
  BY <1>1 DEF Merged
<1>3. m.sticky + m.other + m.rep <= LENGTH
  BY <1>1, LengthAssumption DEF WellKept, Overrun, Index
<1>4. b.sticky > 0 => b.inNext
  BY <1>1, <1>2 DEF WellKept
<1>5. /\ p.sticky = IF OnPort0(b, size) THEN 0 ELSE b.sticky
      /\ p.other = IF OnPort0(b, size) THEN 0 ELSE b.other
      /\ p.rep = b.sticky
      /\ p.inNext = (b.sticky > 0)
      /\ p = [sticky |-> p.sticky, other |-> p.other, rep |-> p.rep,
              inNext |-> p.inNext]
  BY DEF Prepared
<1>6. /\ f.ack = ack
      /\ f.sticky = IF b.inNext THEN b.sticky ELSE 0
      /\ f.other = IF b.inNext THEN b.other ELSE 0
      /\ f.port0 = OnPort0(b, size)
      /\ f = [ack |-> f.ack, sticky |-> f.sticky, other |-> f.other,
              port0 |-> f.port0]
  BY DEF FrameBuilt
<1>7. OnPort0(b, size) \in BOOLEAN
  BY <1>1, <1>2 DEF OnPort0
<1>8. ~OnPort0(b, size) /\ b.sticky > 0 => b.sticky + b.other <= FOPTS
  BY <1>1, <1>2, <1>4, LengthAssumption DEF OnPort0, Index
<1>9. p \in [sticky : Nat, other : Nat, rep : Nat, inNext : BOOLEAN]
  <2>1. b.sticky \in Nat /\ b.other \in Nat /\ (b.sticky > 0) \in BOOLEAN
    BY <1>1, <1>2
  <2>2. p.sticky \in Nat /\ p.other \in Nat /\ p.rep \in Nat
    BY <2>1, <1>5, <1>7
  <2>3. p.inNext \in BOOLEAN
    BY <2>1, <1>5
  <2> HIDE DEF p
  <2> QED
    BY <1>5, <2>2, <2>3
<1>10. Index(p) + p.rep <= LENGTH
  <2>1. CASE OnPort0(b, size)
    BY <2>1, <1>1, <1>2, <1>3, <1>5, LengthAssumption DEF Index
  <2>2. CASE ~OnPort0(b, size) /\ b.sticky > 0
    BY <2>2, <1>1, <1>2, <1>5, <1>8, LengthAssumption DEF Index
  <2>3. CASE ~OnPort0(b, size) /\ ~(b.sticky > 0)
    BY <2>3, <1>1, <1>2, <1>3, <1>5, LengthAssumption DEF Index
  <2> QED
    BY <2>1, <2>2, <2>3
<1>11. WellKept(p)
  BY <1>1, <1>2, <1>5, <1>9, <1>10 DEF WellKept
<1>12. f \in [ack : BOOLEAN, sticky : 0 .. LENGTH + 1,
              other : 0 .. LENGTH + 1, port0 : BOOLEAN]
  BY <1>1, <1>2, <1>3, <1>6, <1>7, LengthAssumption
<1>13. f.sticky >= m.rep /\ p.rep >= f.sticky
  BY <1>1, <1>2, <1>4, <1>5, <1>6
<1> QED
  BY <1>6, <1>11, <1>12, <1>13

-----------------------------------------------------------------------------
(* The inductive invariant.                                                *)

HistTypes == [top : Int, again : SUBSET Fcnts, missed : BOOLEAN,
              stale : BOOLEAN, owed : BOOLEAN, refused : BOOLEAN,
              unheard : Nat]

FrameTypes == [ack : BOOLEAN, sticky : 0 .. LENGTH + 1,
               other : 0 .. LENGTH + 1, port0 : BOOLEAN]

(* The types of what is not in the buffers.                                *)
Types ==
  /\ joined \in BOOLEAN
  /\ keyed \in BOOLEAN
  /\ DownLinkCounter \in {-1} \cup Fcnts
  /\ SrvAckRequested \in BOOLEAN
  /\ McpsRequest \in {"UNCONFIRMED", "CONFIRMED"}
  /\ TxRunning \in BOOLEAN
  /\ frame \in FrameTypes
  /\ hist \in HistTypes

(* DownLinkCounter is the highest counter of the session, unless it comes  *)
(* from the one before.                                                    *)
Counted ==
  /\ joined => keyed
  /\ ~joined => hist.top = -1
  /\ ~hist.stale => hist.top = DownLinkCounter
  /\ hist.top <= DownLinkCounter
  /\ hist.top \in {-1} \cup Fcnts
  /\ hist.again \subseteq {0}
  /\ ~hist.missed

(* The flag stands for the acknowledgement owed and not lost.              *)
AckKnown == SrvAckRequested <=> hist.owed /\ ~hist.refused

(* What has not been heard is what will be repeated.                       *)
Repeatable == hist.unheard <= cmds.rep

IInv ==
  /\ Types
  /\ WellKept(cmds)
  /\ Counted
  /\ AckKnown
  /\ Repeatable

LEMMA FirstValues ==
  /\ NoHistory \in HistTypes
  /\ [ack |-> FALSE, sticky |-> 0, other |-> 0, port0 |-> FALSE] \in FrameTypes
  /\ WellKept(NoCommands)
<1>1. NoHistory \in HistTypes
  BY DEF NoHistory, HistTypes
<1>2. 0 \in 0 .. LENGTH + 1
  BY LengthAssumption
<1>3. [ack |-> FALSE, sticky |-> 0, other |-> 0, port0 |-> FALSE] \in FrameTypes
  BY <1>2 DEF FrameTypes
<1>4. WellKept(NoCommands)
  BY LengthAssumption DEF NoCommands, WellKept, Index
<1> QED
  BY <1>1, <1>3, <1>4

LEMMA InitInv == Init => IInv
<1> SUFFICES ASSUME Init PROVE IInv
  OBVIOUS
<1>1. Types
  BY FirstValues DEF Init, Types
<1>2. WellKept(cmds)
  BY FirstValues DEF Init
<1>3. Counted /\ AckKnown /\ Repeatable
  BY DEF Init, NoHistory, NoCommands, Counted, AckKnown, Repeatable
<1> QED
  BY <1>1, <1>2, <1>3 DEF IInv

(* A frame is built and sent, or built and refused.                        *)
LEMMA RequestInv ==
  ASSUME IInv, Index(cmds) <= LENGTH,
         NEW type \in {"UNCONFIRMED", "CONFIRMED"}, NEW size \in PayloadSizes,
         NEW max \in MaxPayloads, NEW refuse \in BOOLEAN,
         Request(type, size, max, refuse)
  PROVE  IInv'
<1> DEFINE m == Queried(cmds, max)
           len == IF PayloadPossible(m, size, max) THEN size ELSE 0
           f == FrameBuilt(m, len, SrvAckRequested)
           lost == IF Omitted(cmds, max) THEN 0 ELSE hist.unheard
<1>1. WellKept(m) /\ Index(m) <= LENGTH
  BY QueriedKeeps DEF IInv
<1>2. len \in Nat
  BY SizeAssumption
<1>3. /\ cmds' = Prepared(m, len)
      /\ frame' = f
      /\ SrvAckRequested' = FALSE
      /\ TxRunning' = ~refuse
      /\ McpsRequest' \in {"UNCONFIRMED", "CONFIRMED"}
      /\ hist' = IF refuse
                 THEN [hist EXCEPT !.unheard = lost,
                                   !.refused = @ \/ SrvAckRequested]
                 ELSE [hist EXCEPT !.unheard = f.sticky,
                                   !.owed = @ /\ ~f.ack]
      /\ joined' = joined /\ keyed' = keyed
      /\ DownLinkCounter' = DownLinkCounter
  BY DEF Request
<1>4. SrvAckRequested \in BOOLEAN /\ hist \in HistTypes
  BY DEF IInv, Types
<1> HIDE DEF len
<1>5. /\ WellKept(Prepared(m, len))
      /\ f \in FrameTypes
      /\ f.ack = SrvAckRequested
      /\ f.sticky >= m.rep
      /\ Prepared(m, len).rep >= f.sticky
  BY <1>1, <1>2, <1>4, PreparedKeeps DEF FrameTypes
<1>6. lost \in Nat /\ lost <= m.rep
  <2>1. CASE Omitted(cmds, max)
    BY <2>1, QueriedKeeps DEF IInv
  <2>2. CASE ~Omitted(cmds, max)
    BY <2>2, <1>4, QueriedKeeps DEF IInv, Repeatable, HistTypes
  <2> QED
    BY <2>1, <2>2
<1>7. m.rep \in Nat /\ Prepared(m, len).rep \in Nat /\ f.sticky \in Nat
  BY <1>1, <1>5, LengthAssumption DEF WellKept, FrameTypes
<1> HIDE DEF m, f, lost
<1>8. hist' \in HistTypes
  BY <1>3, <1>4, <1>5, <1>6, <1>7 DEF HistTypes, FrameTypes
<1>9. /\ hist'.top = hist.top
      /\ hist'.again = hist.again
      /\ hist'.missed = hist.missed
      /\ hist'.stale = hist.stale
  BY <1>3, <1>4 DEF HistTypes
<1>10. hist'.unheard = IF refuse THEN lost ELSE f.sticky
  BY <1>3, <1>4 DEF HistTypes
<1>11. Types'
  BY <1>3, <1>5, <1>8 DEF IInv, Types
<1>12. WellKept(cmds')
  BY <1>3, <1>5
<1>13. Counted'
  BY <1>3, <1>9 DEF IInv, Counted
<1>14. AckKnown'
  <2>1. CASE refuse
    <3>1. /\ hist'.owed = hist.owed
          /\ hist'.refused = (hist.refused \/ SrvAckRequested)
      BY <2>1, <1>3, <1>4 DEF HistTypes
    <3> QED
      BY <3>1, <1>3, Zenon DEF IInv, AckKnown
  <2>2. CASE ~refuse
    <3>1. /\ hist'.owed = (hist.owed /\ ~f.ack)
          /\ hist'.refused = hist.refused
      BY <2>2, <1>3, <1>4 DEF HistTypes
    <3> QED
      BY <3>1, <1>3, <1>5, Zenon DEF IInv, AckKnown
  <2> QED
    BY <2>1, <2>2
<1>15. Repeatable'
  BY <1>3, <1>5, <1>6, <1>7, <1>10 DEF Repeatable
<1> QED
  BY <1>11, <1>12, <1>13, <1>14, <1>15 DEF IInv

(* A request that finds the MAC busy or not joined leaves only what        *)
(* LoRaMacQueryTxPossible does.                                            *)
LEMMA SendFrameInv ==
  ASSUME IInv, Index(cmds) <= LENGTH,
         NEW type \in {"UNCONFIRMED", "CONFIRMED"}, NEW size \in PayloadSizes,
         NEW max \in MaxPayloads, NEW refuse \in BOOLEAN,
         SendFrame(type, size, max, refuse)
  PROVE  IInv'
<1>1. CASE ~(TxRunning \/ ~joined)
  BY <1>1, RequestInv DEF SendFrame
<1>2. CASE TxRunning \/ ~joined
  <2>1. /\ cmds' = Queried(cmds, max)
        /\ hist' = IF Omitted(cmds, max) THEN [hist EXCEPT !.unheard = 0]
                                         ELSE hist
        /\ McpsRequest' \in {"UNCONFIRMED", "CONFIRMED"}
        /\ UNCHANGED <<joined, keyed, DownLinkCounter, SrvAckRequested,
                       TxRunning, frame>>
    BY <1>2 DEF SendFrame, IInv, Types
  <2>2. hist \in HistTypes
    BY DEF IInv, Types
  <2>3. /\ hist' \in HistTypes
        /\ hist'.top = hist.top
        /\ hist'.again = hist.again
        /\ hist'.missed = hist.missed
        /\ hist'.stale = hist.stale
        /\ hist'.owed = hist.owed
        /\ hist'.refused = hist.refused
        /\ hist'.unheard = IF Omitted(cmds, max) THEN 0 ELSE hist.unheard
    BY <2>1, <2>2 DEF HistTypes
  <2>4. WellKept(cmds')
    BY <2>1, QueriedKeeps DEF IInv
  <2>5. Repeatable'
    <3>1. CASE Omitted(cmds, max)
      BY <3>1, <2>1, <2>3, QueriedKeeps DEF IInv, Repeatable
    <3>2. CASE ~Omitted(cmds, max)
      BY <3>2, <2>1, <2>3, QueriedKeeps DEF IInv, Repeatable
    <3> QED
      BY <3>1, <3>2
  <2>6. Types' /\ Counted' /\ AckKnown'
    BY <2>1, <2>3 DEF IInv, Types, Counted, AckKnown
  <2> QED
    BY <2>4, <2>5, <2>6 DEF IInv
<1> QED
  BY <1>1, <1>2

LEMMA LinkCheckInv ==
  ASSUME IInv, LinkCheck
  PROVE  IInv'
<1>1. WellKept(cmds') /\ cmds'.rep = cmds.rep
  <2>1. "LINK_CHECK_REQ" \in Commands /\ "LINK_CHECK_REQ" # "DL_CHANNEL_ANS"
    BY DEF Commands
  <2> QED
    BY <2>1, AddKeeps DEF IInv, LinkCheck
<1>2. Types' /\ Counted' /\ AckKnown' /\ Repeatable'
  BY <1>1 DEF LinkCheck, IInv, Types, Counted, AckKnown, Repeatable
<1> QED
  BY <1>1, <1>2 DEF IInv

LEMMA StoppedInv ==
  ASSUME IInv, Stopped
  PROVE  IInv'
<1>1. WellKept(cmds') /\ cmds'.rep = cmds.rep
  BY ResetKeeps DEF IInv, Stopped
<1>2. Types' /\ Counted' /\ AckKnown' /\ Repeatable'
  BY <1>1 DEF Stopped, IInv, Types, Counted, AckKnown, Repeatable
<1> QED
  BY <1>1, <1>2 DEF IInv

LEMMA RxAlienInv ==
  ASSUME IInv, RxAlien
  PROVE  IInv'
<1>1. TxRunning' \in BOOLEAN
  BY DEF RxAlien, RunningAfterAbort, IInv, Types
<1> QED
  BY <1>1 DEF RxAlien, IInv, Types, Counted, AckKnown, Repeatable

(* A frame taken leaves the buffers well: the bytes to repeat are cleared  *)
(* before any answer is added.                                             *)
LEMMA AnsweredKeeps ==
  ASSUME WellKept(cmds), NEW ack \in BOOLEAN, NEW load \in Loads
  PROVE  WellKept(Answered(ack, load))
<1> DEFINE kept == IF McpsRequest = "CONFIRMED" /\ ~ack THEN cmds
                                                        ELSE ResetIndex(cmds)
           bare == [kept EXCEPT !.rep = 0]
           first == AddMacCommand(bare, load[1])
<1>1. load[1] \in Commands /\ load[2] \in Commands
  BY LoadAssumption
<1>2. WellKept(kept)
  BY ResetKeeps
<1> HIDE DEF kept
<1>3. WellKept(bare) /\ bare.rep = 0
  BY <1>2, ResetKeeps
<1> HIDE DEF bare
<1>4. WellKept(first) /\ first.rep = 0
  BY <1>1, <1>3, AddKeeps
<1> HIDE DEF first
<1>5. WellKept(AddMacCommand(first, load[2]))
  BY <1>1, <1>4, AddKeeps
<1> QED
  BY <1>5 DEF Answered, kept, bare, first

(* Downlinks: a valid frame raises the counter to its own, answers what it *)
(* asks and settles what is owed; any other frame changes nothing.         *)
LEMMA RxDataInv ==
  ASSUME IInv, NEW f \in Fcnts, NEW confirmed \in BOOLEAN, NEW ack \in BOOLEAN,
         NEW load \in Loads, RxData(f, confirmed, ack, load)
  PROVE  IInv'
<1>1. f \in Int /\ DownLinkCounter \in Int /\ f # -1
  BY FcntAssumption DEF IInv, Types
<1>2. hist \in HistTypes
  BY DEF IInv, Types
<1>3. RunningAfterAbort \in BOOLEAN
  BY DEF RunningAfterAbort, IInv, Types
<1>4. UNCHANGED <<joined, keyed, McpsRequest, frame>>
  BY DEF RxData
<1>5. CASE Valid(f)
  <2>1. DownLinkCounter <= f
    BY <1>1, <1>5, ValidAhead
  <2>2. /\ SrvAckRequested' = confirmed
        /\ hist' = [hist EXCEPT
             !.owed = confirmed, !.refused = FALSE, !.unheard = 0,
             !.stale = @ \/ ~joined,
             !.top = IF joined THEN f ELSE @,
             !.again = IF joined /\ ~Repeated(f) /\ f <= hist.top
                       THEN @ \cup {f} ELSE @]
    BY <1>5 DEF RxData
  <2>3. /\ DownLinkCounter' = f
        /\ WellKept(cmds')
        /\ TxRunning' \in BOOLEAN
    <3>1. CASE Repeated(f) /\ ~confirmed
      <4>1. Dropped
        BY <1>5, <3>1 DEF RxData
      <4>2. WellKept(cmds')
        BY <4>1, ResetKeeps DEF Dropped, IInv
      <4> QED
        BY <1>3, <3>1, <4>1, <4>2 DEF Dropped, Repeated
    <3>2. CASE ~(Repeated(f) /\ ~confirmed)
      <4>1. Taken(f, ack, load)
        BY <1>5, <3>2 DEF RxData
      <4>2. WellKept(cmds')
        BY <4>1, AnsweredKeeps DEF Taken, IInv
      <4> QED
        BY <4>1, <4>2 DEF Taken
    <3> QED
      BY <3>1, <3>2
  <2>4. /\ hist'.owed = confirmed
        /\ hist'.refused = FALSE
        /\ hist'.unheard = 0
        /\ hist'.missed = hist.missed
    BY <1>2, <2>2 DEF HistTypes
  <2>5. /\ hist'.stale = (hist.stale \/ ~joined)
        /\ hist'.top = IF joined THEN f ELSE hist.top
        /\ hist'.again = IF joined /\ ~Repeated(f) /\ f <= hist.top
                         THEN hist.again \cup {f} ELSE hist.again
    BY <1>2, <2>2 DEF HistTypes
  <2>6. hist' \in HistTypes
    BY <1>1, <1>2, <2>2 DEF HistTypes
  <2>7. hist'.again \subseteq {0}
    <3>1. CASE joined /\ ~Repeated(f) /\ f <= hist.top
      <4>1. hist.top \in Int /\ hist.top <= DownLinkCounter
        BY <1>2 DEF IInv, Counted, HistTypes
      <4>2. f = DownLinkCounter
        BY <1>1, <2>1, <3>1, <4>1
      <4>3. f = 0
        BY <3>1, <4>2 DEF Repeated
      <4> QED
        BY <2>5, <3>1, <4>3 DEF IInv, Counted
    <3>2. CASE ~(joined /\ ~Repeated(f) /\ f <= hist.top)
      BY <2>5, <3>2 DEF IInv, Counted
    <3> QED
      BY <3>1, <3>2
  <2>8. hist'.top <= DownLinkCounter' /\ hist'.top \in {-1} \cup Fcnts
    BY <1>1, <1>2, <2>1, <2>3, <2>5 DEF IInv, Counted, HistTypes
  <2>9. ~hist'.stale => hist'.top = DownLinkCounter'
    BY <2>3, <2>5
  <2>10. Counted'
    BY <1>4, <2>4, <2>5, <2>7, <2>8, <2>9 DEF IInv, Counted
  <2>11. Types'
    BY <1>4, <2>2, <2>3, <2>6 DEF IInv, Types
  <2>12. AckKnown'
    BY <2>2, <2>4, Zenon DEF AckKnown
  <2>13. Repeatable'
    BY <2>3, <2>4 DEF Repeatable, WellKept
  <2> QED
    BY <2>3, <2>10, <2>11, <2>12, <2>13 DEF IInv
<1>6. CASE ~Valid(f)
  <2>1. /\ TxRunning' = RunningAfterAbort
        /\ hist' = [hist EXCEPT !.missed = @ \/ Fresh(f)]
        /\ UNCHANGED <<DownLinkCounter, SrvAckRequested, cmds>>
    BY <1>6 DEF RxData
  <2>2. ~Fresh(f)
    <3> SUFFICES ASSUME Fresh(f) PROVE FALSE
      OBVIOUS
    <3>1. hist.top = DownLinkCounter /\ keyed
      BY DEF Fresh, IInv, Counted
    <3>2. DownLinkCounter <= f /\ f - DownLinkCounter < MAX_FCNT_GAP
      BY <1>1, <3>1 DEF Fresh
    <3> QED
      BY <1>1, <1>6, <3>1, <3>2, InGapValid
  <2>3. /\ hist'.top = hist.top
        /\ hist'.again = hist.again
        /\ hist'.stale = hist.stale
        /\ hist'.owed = hist.owed
        /\ hist'.refused = hist.refused
        /\ hist'.unheard = hist.unheard
        /\ hist'.missed = (hist.missed \/ Fresh(f))
    BY <1>2, <2>1 DEF HistTypes
  <2>4. ~hist'.missed
    BY <2>2, <2>3 DEF IInv, Counted
  <2>5. hist' = [top |-> hist.top, again |-> hist.again, missed |-> FALSE,
                 stale |-> hist.stale, owed |-> hist.owed,
                 refused |-> hist.refused, unheard |-> hist.unheard]
    BY <1>2, <2>1, <2>2 DEF HistTypes, IInv, Counted
  <2>6. hist' \in HistTypes
    BY <1>2, <2>5 DEF HistTypes
  <2>7. Types'
    BY <1>3, <1>4, <2>1, <2>6 DEF IInv, Types
  <2>8. Counted' /\ AckKnown' /\ Repeatable' /\ WellKept(cmds')
    BY <1>4, <2>1, <2>3, <2>4 DEF IInv, Counted, AckKnown, Repeatable
  <2> QED
    BY <2>7, <2>8 DEF IInv
<1> QED
  BY <1>5, <1>6

LEMMA ResetInv ==
  ASSUME IInv, ResetMacParameters
  PROVE  IInv'
<1>1. Types'
  BY FirstValues DEF ResetMacParameters, IInv, Types
<1>2. WellKept(cmds')
  BY FirstValues DEF ResetMacParameters
<1>3. Counted' /\ AckKnown' /\ Repeatable'
  BY DEF ResetMacParameters, NoHistory, NoCommands, Counted, AckKnown,
         Repeatable
<1> QED
  BY <1>1, <1>2, <1>3 DEF IInv

LEMMA JoinAcceptInv ==
  ASSUME IInv, JoinAccept
  PROVE  IInv'
BY DEF JoinAccept, IInv, Types, Counted, AckKnown, Repeatable

LEMMA PowerUpInv ==
  ASSUME IInv, PowerUp
  PROVE  IInv'
<1>1. Types'
  BY FirstValues DEF PowerUp, Types
<1>2. WellKept(cmds')
  BY FirstValues DEF PowerUp
<1>3. Counted' /\ AckKnown' /\ Repeatable'
  BY DEF PowerUp, NoHistory, NoCommands, Counted, AckKnown, Repeatable
<1> QED
  BY <1>1, <1>2, <1>3 DEF IInv

LEMMA NextInv == IInv /\ [Next]_vars => IInv'
<1> SUFFICES ASSUME IInv, [Next]_vars PROVE IInv'
  OBVIOUS
<1>1. CASE PowerUp
  BY <1>1, PowerUpInv
<1>2. CASE InBounds /\ Send
  BY <1>2, SendFrameInv DEF InBounds, Send
<1>3. CASE InBounds /\ LinkCheck
  BY <1>3, LinkCheckInv
<1>4. CASE InBounds /\ TxTimeout
  BY <1>4, StoppedInv DEF TxTimeout
<1>5. CASE InBounds /\ RepetitionsOver
  BY <1>5, StoppedInv DEF RepetitionsOver
<1>6. CASE InBounds /\ RetriesOver
  BY <1>6, StoppedInv DEF RetriesOver
<1>7. CASE InBounds /\ RxAlien
  BY <1>7, RxAlienInv
<1>8. CASE InBounds /\ Receive
  BY <1>8, RxDataInv DEF Receive
<1>9. CASE InBounds /\ ResetMacParameters
  BY <1>9, ResetInv
<1>10. CASE InBounds /\ JoinAccept
  BY <1>10, JoinAcceptInv
<1>11. CASE UNCHANGED vars
  BY <1>11 DEF vars, IInv, Types, Counted, AckKnown, Repeatable
<1> QED
  BY <1>1, <1>2, <1>3, <1>4, <1>5, <1>6, <1>7, <1>8, <1>9, <1>10, <1>11
  DEF Next

-----------------------------------------------------------------------------
(* The results.                                                            *)

THEOREM Invariance == Spec => []IInv
<1> QED
  BY InitInv, NextInv, PTL DEF Spec

(* Every variable keeps its type, and no buffer of commands ever holds     *)
(* more than LENGTH + 1 bytes.                                             *)
THEOREM TypeCorrect == Spec => []TypeOK
<1>1. IInv => TypeOK
  <2> SUFFICES ASSUME IInv PROVE TypeOK
    OBVIOUS
  <2>1. cmds \in [sticky : 0 .. LENGTH + 1, other : 0 .. LENGTH + 1,
                  rep : 0 .. LENGTH + 1, inNext : BOOLEAN]
    BY LengthAssumption DEF IInv, WellKept, Overrun, Index
  <2>2. cmds.rep \in 0 .. LENGTH + 1
    BY <2>1
  <2>3. hist.unheard \in 0 .. LENGTH + 1
    BY <2>2, LengthAssumption DEF IInv, Repeatable, Types, HistTypes
  <2>4. hist \in [top : {-1} \cup Fcnts, again : SUBSET Fcnts,
                  missed : BOOLEAN, stale : BOOLEAN, owed : BOOLEAN,
                  refused : BOOLEAN, unheard : 0 .. LENGTH + 1]
    BY <2>3 DEF IInv, Types, HistTypes, Counted
  <2> QED
    BY <2>1, <2>4 DEF IInv, Types, FrameTypes, TypeOK
<1> QED
  BY <1>1, Invariance, PTL

(* However the air loses, repeats and reorders downlinks, a session gives  *)
(* none to the application twice, the one with counter 0 excepted.         *)
THEOREM OnlyFirstAgain == Spec => []DeliveredOnce
<1>1. IInv => DeliveredOnce
  BY DEF IInv, Counted, DeliveredOnce
<1> QED
  BY <1>1, Invariance, PTL

(* A frame within the gap above the highest counter is taken, for every    *)
(* 32-bit counter and wherever its low half has rolled over.               *)
THEOREM FreshTaken == Spec => []NoFreshMissed
<1>1. IInv => NoFreshMissed
  BY DEF IInv, Counted, NoFreshMissed
<1> QED
  BY <1>1, Invariance, PTL

(* The waiting commands and those to repeat fit together, for any length   *)
(* of the buffer and of FOpts, but for one byte of a DL_CHANNEL_ANS.       *)
THEOREM BuffersKept == Spec => []BuffersFit
<1>1. IInv => BuffersFit
  BY DEF IInv, WellKept, Overrun, BuffersFit
<1> QED
  BY <1>1, Invariance, PTL

(* A procedure starts in no other way than by a frame built and sent.      *)
LEMMA OnlySendStarts ==
  ASSUME IInv, [Next]_vars, ~TxRunning, TxRunning'
  PROVE  /\ Index(cmds) <= LENGTH
         /\ \E type \in {"UNCONFIRMED", "CONFIRMED"}, size \in PayloadSizes,
               max \in MaxPayloads : Request(type, size, max, FALSE)
<1>1. InBounds /\ Send
  BY DEF Next, vars, PowerUp, LinkCheck, TxTimeout, RepetitionsOver,
         RetriesOver, Stopped, RxAlien, RunningAfterAbort, Receive, RxData,
         Dropped, Taken, ResetMacParameters, JoinAccept
<1>2. PICK type \in {"UNCONFIRMED", "CONFIRMED"}, size \in PayloadSizes,
           max \in MaxPayloads, refuse \in BOOLEAN :
        SendFrame(type, size, max, refuse)
  BY <1>1 DEF Send
<1>3. Request(type, size, max, refuse)
  BY <1>2 DEF SendFrame
<1>4. ~refuse
  BY <1>3 DEF Request
<1>5. refuse = FALSE
  BY <1>4
<1> QED
  BY <1>1, <1>3, <1>5 DEF InBounds

(* An uplink acknowledges exactly the downlink that is owed it.            *)
THEOREM AcksAreTrue == Spec => AckCarried
<1>1. IInv /\ [Next]_vars =>
        [~TxRunning /\ TxRunning' =>
           (frame'.ack <=> hist.owed /\ ~hist.refused)]_vars
  <2> SUFFICES ASSUME IInv, [Next]_vars, ~TxRunning, TxRunning'
               PROVE  frame'.ack <=> hist.owed /\ ~hist.refused
    OBVIOUS
  <2>1. PICK type \in {"UNCONFIRMED", "CONFIRMED"}, size \in PayloadSizes,
             max \in MaxPayloads : Request(type, size, max, FALSE)
    BY OnlySendStarts
  <2>2. frame'.ack = SrvAckRequested
    BY <2>1 DEF Request, FrameBuilt
  <2> QED
    BY <2>2, Zenon DEF IInv, AckKnown
<1> QED
  BY <1>1, Invariance, PTL DEF Spec, AckCarried

(* Sticky answers go out again in every uplink until a downlink is heard,  *)
(* or all commands are given up for the datarate.                          *)
THEOREM StickyKept == Spec => StickyRepeated
<1>1. IInv /\ [Next]_vars =>
        [~TxRunning /\ TxRunning' =>
           \/ frame'.sticky >= hist.unheard
           \/ /\ \E max \in MaxPayloads : Omitted(cmds, max)
              /\ frame'.sticky + frame'.other = 0]_vars
  <2> SUFFICES ASSUME IInv, [Next]_vars, ~TxRunning, TxRunning'
               PROVE  \/ frame'.sticky >= hist.unheard
                      \/ /\ \E max \in MaxPayloads : Omitted(cmds, max)
                         /\ frame'.sticky + frame'.other = 0
    OBVIOUS
  <2>1. PICK type \in {"UNCONFIRMED", "CONFIRMED"}, size \in PayloadSizes,
             max \in MaxPayloads : Request(type, size, max, FALSE)
    BY OnlySendStarts
  <2> DEFINE m == Queried(cmds, max)
             len == IF PayloadPossible(m, size, max) THEN size ELSE 0
             f == FrameBuilt(m, len, SrvAckRequested)
  <2>2. frame' = f
    BY <2>1 DEF Request
  <2>3. WellKept(m) /\ Index(m) <= LENGTH
    BY OnlySendStarts, QueriedKeeps DEF IInv
  <2>4. len \in Nat /\ SrvAckRequested \in BOOLEAN
    BY SizeAssumption DEF IInv, Types
  <2>5. CASE ~Omitted(cmds, max)
    <3>1. m.rep = cmds.rep
      BY <2>5, QueriedKeeps DEF IInv
    <3> HIDE DEF m, len
    <3>2. f.sticky >= m.rep /\ f.sticky \in 0 .. LENGTH + 1
      BY <2>3, <2>4, PreparedKeeps
    <3> HIDE DEF f
    <3>3. cmds.rep \in Nat /\ hist.unheard \in Nat /\ hist.unheard <= cmds.rep
      BY DEF IInv, WellKept, Types, HistTypes, Repeatable
    <3>4. f.sticky \in Int
      BY <3>2, LengthAssumption
    <3> QED
      BY <2>2, <3>1, <3>2, <3>3, <3>4
  <2>6. CASE Omitted(cmds, max)
    <3>1. m = [ResetIndex(cmds) EXCEPT !.rep = 0]
      BY <2>6 DEF Queried
    <3>2. cmds \in [sticky : Nat, other : Nat, rep : Nat, inNext : BOOLEAN]
      BY DEF IInv, WellKept
    <3>3. m.sticky = 0 /\ m.other = 0 /\ m.rep = 0
      BY <3>1, <3>2 DEF ResetIndex
    <3>4. m \in [sticky : Nat, other : Nat, rep : Nat, inNext : BOOLEAN]
      BY <2>3 DEF WellKept
    <3> HIDE DEF m, len
    <3>5. f.sticky = 0 /\ f.other = 0
      BY <3>3, <3>4 DEF FrameBuilt, Merged
    <3> QED
      BY <2>2, <2>6, <3>5
  <2> QED
    BY <2>5, <2>6
<1> QED
  BY <1>1, Invariance, PTL DEF Spec, StickyRepeated
=============================================================================
