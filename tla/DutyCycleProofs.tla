-------------------------- MODULE DutyCycleProofs --------------------------
(***************************************************************************)
(* For every plan of channels and bands, and all times on air: the search  *)
(* for a channel ends, and a band rests after each of its transmissions.   *)
(***************************************************************************)
EXTENDS DutyCycle, WellFoundedInduction, TLAPS

-----------------------------------------------------------------------------
(* Numbers.                                                                *)

Before == {ss \in Nat \X Nat : ss[1] < ss[2]}

LEMMA BeforeWellFounded == IsWellFoundedOn(Before, Nat)
BY NatLessThanWellFounded DEF OpToRel, Before

LEMMA MinIsLeast ==
  ASSUME NEW S \in SUBSET Nat, S # {}
  PROVE  Min(S) \in S
<1>1. PICK x \in S : \A y \in S : <<y, x>> \notin Before
  BY BeforeWellFounded, WFMin
<1>2. ASSUME NEW y \in S PROVE x <= y
  <2>1. x \in Nat /\ y \in Nat
    OBVIOUS
  <2>2. ~(y < x)
    BY <1>1, <2>1 DEF Before
  <2>. QED  BY <2>1, <2>2
<1>. QED  BY <1>2 DEF Min

LEMMA MaxOfTwo ==
  ASSUME NEW a \in Int, NEW b \in Int
  PROVE  Max({a, b}) = IF a >= b THEN a ELSE b
<1>. DEFINE top == IF a >= b THEN a ELSE b
<1>1. top \in {a, b} /\ \A y \in {a, b} : top >= y
  OBVIOUS
<1>2. \A x \in {a, b} : (\A y \in {a, b} : x >= y) => x = top
  OBVIOUS
<1>. QED  BY <1>1, <1>2 DEF Max

LEMMA TimeOffNat ==
  ASSUME NEW a \in Nat, NEW c \in Nat \ {0}
  PROVE  TimeOff(a, c) \in Nat
<1>1. PICK k \in Nat : c = k + 1
  <2>1. c - 1 \in Nat /\ c = (c - 1) + 1
    OBVIOUS
  <2>. QED  BY <2>1
<1>2. a * (k + 1) = a * k + a
  OBVIOUS
<1>3. a * k \in Nat
  OBVIOUS
<1>. QED  BY <1>1, <1>2, <1>3 DEF TimeOff

LEMMA BandTimeOff ==
  ASSUME NEW a \in Airtimes \cup {0}, NEW b \in Bands
  PROVE  TimeOff(a, DCycle[b]) \in 0 .. Horizon
<1>1. DCycle[b] \in Nat \ {0}
  BY TimeAssumption
<1>2. a \in Nat
  BY TimeAssumption
<1>3. TimeOff(a, DCycle[b]) \in Nat
  BY <1>1, <1>2, TimeOffNat
<1>4. TimeOff(a, DCycle[b]) <= Horizon
  <2>1. CASE a \in Airtimes
    BY <2>1, TimeAssumption
  <2>2. CASE a = 0
    BY <1>1, <2>2, TimeAssumption DEF TimeOff
  <2>. QED  BY <2>1, <2>2
<1>. QED  BY <1>3, <1>4, TimeAssumption

LEMMA AggregatedTimeOff ==
  ASSUME NEW a \in Airtimes \cup {0}, NEW c \in AggregatedDCycles \cup {1}
  PROVE  TimeOff(a, c) \in 0 .. Horizon
<1>1. a \in Nat /\ c \in Nat \ {0}
  BY TimeAssumption
<1>2. TimeOff(a, c) \in Nat
  BY <1>1, TimeOffNat
<1>3. TimeOff(a, c) <= Horizon
  <2>1. CASE a \in Airtimes /\ c \in AggregatedDCycles
    BY <2>1, TimeAssumption
  <2>2. CASE a = 0 \/ c = 1
    BY <1>1, <2>2, TimeAssumption DEF TimeOff
  <2>. QED  BY <2>1, <2>2
<1>. QED  BY <1>2, <1>3, TimeAssumption

-----------------------------------------------------------------------------
(* What a band still owes is known: by its time off, or, for the band of   *)
(* the last channel, by what CalculateBackOff will find.                   *)

Owes == [Bands -> 0 .. Horizon]

Since(s, b) == s.age[<<b, "TX">>]

Covered(s, o, b, off) ==
  o[b] > 0 => /\ Since(s, b) # Never
              /\ o[b] + Since(s, b) <= off
              /\ ~s.joined => s.age[<<b, "JOIN">>] = Since(s, b)

Known(s, b) ==
  IF s.phase # "SENDING" /\ b = BandOf(s, s.last)
  THEN TimeOff(s.airtime, DCycle[b])
  ELSE s.timeOff[b]

Rested(s, o) == \A b \in Bands : Covered(s, o, b, Known(s, b))

(* The same once CalculateBackOff has run.                                 *)
Told(s, o) == \A b \in Bands : Covered(s, o, b, s.timeOff[b])

(* A default channel stays, with its band and its datarates.               *)
Defaults(s) ==
  \A i \in DefaultIds : /\ s.channels[i].on
                        /\ s.channels[i].min = 0
                        /\ s.channels[i].max >= Dr5
                        /\ s.channels[i].band = HomeBand[i]

(* What the search for a channel leaves alone.                             *)
Steady(s, t) ==
  /\ t.phase = s.phase /\ t.joined = s.joined /\ t.off = s.off
  /\ t.aggr = s.aggr /\ t.ch = s.ch /\ t.last = s.last
  /\ t.airtime = s.airtime /\ t.delay = s.delay
  /\ t.channels = s.channels /\ t.age = s.age

LEMMA BandType ==
  ASSUME NEW s \in Statics, NEW i \in Ids
  PROVE  BandOf(s, i) \in Bands
BY DEF Statics, Channels, BandOf

LEMMA BackOffTells ==
  ASSUME NEW s \in Statics, NEW o \in Owes, Rested(s, o), s.phase # "SENDING"
  PROVE  LET t == CalculateBackOff(s)
         IN  /\ t \in Statics /\ Steady(s, t) /\ t.mask = s.mask /\ t.dr = s.dr
             /\ Told(t, o)
<1>. DEFINE l == BandOf(s, s.last)
            t == CalculateBackOff(s)
<1>1. l \in Bands /\ s.airtime \in Airtimes \cup {0}
  BY BandType DEF Statics
<1>2. TimeOff(s.airtime, DCycle[l]) \in 0 .. Horizon
  BY <1>1, BandTimeOff
<1>3. t = [s EXCEPT !.timeOff = [s.timeOff EXCEPT ![l] = TimeOff(s.airtime, DCycle[l])]]
  BY DEF CalculateBackOff
<1>4. [s.timeOff EXCEPT ![l] = TimeOff(s.airtime, DCycle[l])] \in [Bands -> 0 .. Horizon]
  BY <1>2 DEF Statics
<1>5. t \in Statics /\ Steady(s, t) /\ t.mask = s.mask /\ t.dr = s.dr
  BY <1>3, <1>4 DEF Statics, Steady
<1>6. \A b \in Bands : t.timeOff[b] = Known(s, b)
  BY <1>3 DEF Statics, Known
<1>7. Told(t, o)
  BY <1>5, <1>6 DEF Rested, Told, Covered, Since, Steady
<1>. QED  BY <1>5, <1>7

LEMMA ElapsedType ==
  ASSUME NEW s \in Statics, NEW b \in Bands
  PROVE  BandElapsed(s, b) \in 0 .. Horizon
<1>1. <<b, "TX">> \in Stamps /\ <<b, "JOIN">> \in Stamps
  BY DEF Stamps
<1>2. \A x \in {"TX", "JOIN"} : Elapsed(s.age[<<b, x>>]) \in 0 .. Horizon
  BY <1>1, TimeAssumption DEF Statics, Ages, Elapsed, Never
<1>3. Max({Elapsed(s.age[<<b, "TX">>]), Elapsed(s.age[<<b, "JOIN">>])}) \in 0 .. Horizon
  BY <1>2, MaxOfTwo
<1>. QED  BY <1>2, <1>3 DEF BandElapsed

LEMMA ElapsedSince ==
  ASSUME NEW s \in Statics, NEW o \in Owes, NEW b \in Bands, Told(s, o), o[b] > 0
  PROVE  BandElapsed(s, b) = Since(s, b)
<1>1. <<b, "TX">> \in Stamps /\ <<b, "JOIN">> \in Stamps
  BY DEF Stamps
<1>2. Since(s, b) # Never /\ (~s.joined => s.age[<<b, "JOIN">>] = Since(s, b))
  BY DEF Told, Covered
<1>3. Elapsed(s.age[<<b, "TX">>]) = Since(s, b)
  BY <1>2 DEF Since, Elapsed
<1>4. Since(s, b) \in Int
  BY <1>1, TimeAssumption DEF Since, Statics, Ages, Never
<1>5. Max({Since(s, b), Since(s, b)}) = Since(s, b)
  BY <1>4, MaxOfTwo
<1>6. ~s.joined => Elapsed(s.age[<<b, "JOIN">>]) = Since(s, b)
  BY <1>2, <1>3 DEF Since
<1>. QED  BY <1>3, <1>5, <1>6 DEF BandElapsed

LEMMA UpdateTells ==
  ASSUME NEW s \in Statics, NEW o \in Owes, Told(s, o)
  PROVE  LET u == UpdateBandTimeOff(s)
         IN  /\ u \in Statics /\ Steady(s, u) /\ u.mask = s.mask /\ u.dr = s.dr
             /\ Told(u, o)
             /\ \A b \in Bands : /\ BandElapsed(u, b) = BandElapsed(s, b)
                                 /\ u.timeOff[b] # 0 =>
                                      u.timeOff[b] > BandElapsed(u, b)
<1>. DEFINE u == UpdateBandTimeOff(s)
            f == [b \in Bands |-> IF s.timeOff[b] <= BandElapsed(s, b)
                                  THEN 0 ELSE s.timeOff[b]]
<1>1. u = [s EXCEPT !.timeOff = f]
  BY DEF UpdateBandTimeOff
<1>2. f \in [Bands -> 0 .. Horizon]
  BY TimeAssumption DEF Statics
<1>3. u \in Statics /\ Steady(s, u) /\ u.mask = s.mask /\ u.dr = s.dr /\ u.timeOff = f
  BY <1>1, <1>2 DEF Statics, Steady
<1>4. \A b \in Bands : BandElapsed(u, b) = BandElapsed(s, b)
  BY <1>3 DEF BandElapsed, Steady
<1>5. ASSUME NEW b \in Bands PROVE f[b] # 0 => f[b] > BandElapsed(s, b)
  <2>1. BandElapsed(s, b) \in Int /\ s.timeOff[b] \in Int
    BY ElapsedType DEF Statics
  <2>. QED  BY <2>1
<1>6. ASSUME NEW b \in Bands PROVE Covered(u, o, b, f[b])
  <2>1. CASE o[b] > 0
    <3>1. Since(s, b) # Never /\ o[b] + Since(s, b) <= s.timeOff[b]
      BY <2>1 DEF Told, Covered
    <3>2. BandElapsed(s, b) = Since(s, b)
      BY <2>1, ElapsedSince
    <3>3. Since(s, b) \in Int /\ s.timeOff[b] \in Int /\ o[b] \in Int
      BY <3>2, ElapsedType DEF Statics, Owes
    <3>4. f[b] = s.timeOff[b]
      BY <2>1, <3>1, <3>2, <3>3
    <3>. QED  BY <1>3, <3>4 DEF Told, Covered, Since, Steady
  <2>. QED  BY <2>1 DEF Covered
<1>. QED  BY <1>3, <1>4, <1>5, <1>6 DEF Told

-----------------------------------------------------------------------------
(* The search.                                                             *)

Restored(s) == IF s.mask = {} THEN [s EXCEPT !.mask = DefaultIds] ELSE s

Searched(s) == UpdateBandTimeOff(Restored(s))

LEMMA RestoredTells ==
  ASSUME NEW s \in Statics, NEW o \in Owes, Told(s, o)
  PROVE  LET m == Restored(s)
         IN  /\ m \in Statics /\ Steady(s, m) /\ m.dr = s.dr
             /\ s.mask \subseteq m.mask /\ Told(m, o)
             /\ m.timeOff = s.timeOff
<1>1. DefaultIds \in SUBSET Ids
  BY ChannelAssumption
<1>2. CASE s.mask = {}
  BY <1>1, <1>2 DEF Restored, Statics, Steady, Told, Covered, Since
<1>3. CASE s.mask # {}
  BY <1>3 DEF Restored, Steady
<1>. QED  BY <1>2, <1>3

(* A frame is put off for a time, and for no longer than Horizon.          *)
LEMMA DelayType ==
  ASSUME NEW s \in Statics,
         \A b \in Bands : s.timeOff[b] # 0 => s.timeOff[b] > BandElapsed(s, b),
         NEW x \in Bands, s.timeOff[x] # 0
  PROVE  NextTxDelay(s) \in 1 .. Horizon
<1>. DEFINE waits == {s.timeOff[b] - BandElapsed(s, b) :
                        b \in {y \in Bands : s.timeOff[y] # 0}}
<1>1. ASSUME NEW b \in Bands, s.timeOff[b] # 0
      PROVE  s.timeOff[b] - BandElapsed(s, b) \in 1 .. Horizon
  <2>1. BandElapsed(s, b) \in 0 .. Horizon /\ s.timeOff[b] \in 0 .. Horizon
    BY ElapsedType DEF Statics
  <2>. QED  BY <1>1, <2>1, TimeAssumption
<1>2. waits \subseteq 1 .. Horizon
  BY <1>1
<1>3. waits # {}
  OBVIOUS
<1>4. waits \in SUBSET Nat
  BY <1>2
<1>5. Min(waits) \in waits
  BY <1>3, <1>4, MinIsLeast
<1>. QED  BY <1>2, <1>5 DEF NextTxDelay

LEMMA AggregatedWaitType ==
  ASSUME NEW s \in Statics
  PROVE  AggregatedWait(s) \in Int /\ AggregatedWait(s) <= Horizon
<1>1. TimeOff(s.airtime, s.aggr) \in 0 .. Horizon
  BY AggregatedTimeOff DEF Statics
<1>2. Elapsed(s.age[Aggregated]) \in 0 .. Horizon
  BY TimeAssumption DEF Statics, Stamps, Ages, Elapsed, Never
<1>. QED  BY <1>1, <1>2, TimeAssumption DEF AggregatedWait

(* What a look finds.                                                      *)
Chosen(t, i) ==
  i \in Ids /\ t.timeOff[BandOf(t, i)] = 0 /\ (t.joined \/ i \in DefaultIds)

LEMMA LookTells ==
  ASSUME NEW s \in Statics, NEW o \in Owes, Told(s, o)
  PROVE  LET n == NextChannel(s)
         IN  /\ n.to \in Statics /\ Steady(s, n.to) /\ Told(n.to, o)
             /\ n.to.dr = s.dr /\ n.delay \in 0 .. Horizon
             /\ \A i \in n.free : Chosen(n.to, i)
             /\ ~Found(n) => DefaultIds \subseteq n.to.mask
             /\ s.dr = 0 /\ Defaults(s) /\ DefaultIds \subseteq s.mask => Found(n)
<1>. DEFINE m == Restored(s)
            u == Searched(s)
            v == [u EXCEPT !.mask = @ \cup DefaultIds]
            n == NextChannel(s)
<1>1. /\ m \in Statics /\ Steady(s, m) /\ m.dr = s.dr
      /\ s.mask \subseteq m.mask /\ Told(m, o)
  BY RestoredTells
<1>2. /\ u \in Statics /\ Steady(m, u) /\ u.mask = m.mask /\ u.dr = m.dr /\ Told(u, o)
      /\ \A b \in Bands : u.timeOff[b] # 0 => u.timeOff[b] > BandElapsed(u, b)
  BY <1>1, UpdateTells DEF Searched
<1>3. n = IF AggregatedWait(m) > 0
          THEN [to |-> m, free |-> {}, delay |-> AggregatedWait(m)]
          ELSE IF Usable(u) = {}
          THEN [to |-> v, free |-> {}, delay |-> 0]
          ELSE [to |-> u, free |-> Free(u),
                delay |-> IF Free(u) = {} THEN NextTxDelay(u) ELSE 0]
  BY DEF NextChannel, Restored, Searched
<1>4. Steady(s, u)
  BY <1>1, <1>2 DEF Steady
<1>5. Usable(u) \subseteq Ids
  BY <1>2 DEF Usable, Statics
<1>6. CASE AggregatedWait(m) > 0
  <2>1. n.to = m /\ n.free = {} /\ n.delay = AggregatedWait(m)
    BY <1>3, <1>6
  <2>2. n.delay \in 1 .. Horizon
    BY <1>1, <1>6, <2>1, AggregatedWaitType, TimeAssumption
  <2>. QED  BY <1>1, <2>1, <2>2 DEF Found
<1>7. CASE ~(AggregatedWait(m) > 0) /\ Usable(u) = {}
  <2>1. n.to = v /\ n.free = {} /\ n.delay = 0
    BY <1>3, <1>7
  <2>2. v \in Statics /\ Steady(s, v) /\ v.dr = s.dr /\ DefaultIds \subseteq v.mask
    BY <1>1, <1>2, <1>4, ChannelAssumption DEF Statics, Steady
  <2>3. Told(v, o)
    BY <1>2 DEF Told, Covered, Since, Statics
  <2>4. ~(s.dr = 0 /\ Defaults(s) /\ DefaultIds \subseteq s.mask)
    <3>1. SUFFICES ASSUME s.dr = 0, Defaults(s), DefaultIds \subseteq s.mask
                   PROVE  0 \in Usable(u)
      BY <1>7
    <3>2. 0 \in u.mask /\ u.channels = s.channels /\ u.dr = 0
      BY <1>1, <1>2, <1>4, <3>1, ChannelAssumption DEF Steady
    <3>3. s.channels[0].on /\ 0 \in s.channels[0].min .. s.channels[0].max
      <4>1. 0 \in Ids /\ 0 \in DefaultIds
        BY ChannelAssumption
      <4>2. s.channels[0] \in Channels
        BY <4>1 DEF Statics
      <4>3. s.channels[0].max \in Int
        BY <4>2, ChannelAssumption DEF Channels, Drs
      <4>. QED  BY <3>1, <4>1, <4>3, ChannelAssumption DEF Defaults
    <3>. QED  BY <3>2, <3>3, ChannelAssumption DEF Usable
  <2>. QED  BY <2>1, <2>2, <2>3, <2>4, TimeAssumption
<1>8. CASE ~(AggregatedWait(m) > 0) /\ Usable(u) # {}
  <2>1. /\ n.to = u /\ n.free = Free(u)
        /\ n.delay = IF Free(u) = {} THEN NextTxDelay(u) ELSE 0
    BY <1>3, <1>8
  <2>2. \A i \in Free(u) : Chosen(u, i)
    BY <1>5 DEF Free, Usable, Chosen
  <2>3. CASE Free(u) = {}
    <3>1. PICK i \in Ids : i \in Usable(u) /\ u.timeOff[BandOf(u, i)] # 0
      BY <1>5, <1>8, <2>3 DEF Free
    <3>2. BandOf(u, i) \in Bands
      BY <1>2, BandType
    <3>3. NextTxDelay(u) \in 1 .. Horizon
      BY <1>2, <3>1, <3>2, DelayType
    <3>. QED  BY <1>1, <1>2, <1>4, <2>1, <2>2, <2>3, <3>3 DEF Found
  <2>4. CASE Free(u) # {}
    BY <1>1, <1>2, <1>4, <2>1, <2>2, <2>4, TimeAssumption DEF Found
  <2>. QED  BY <2>3, <2>4
<1>. QED  BY <1>6, <1>7, <1>8

LEMMA SearchTells ==
  ASSUME NEW s \in Statics, NEW o \in Owes, Told(s, o), Defaults(s)
  PROVE  LET n == SearchChannel(s)
         IN  /\ n.to \in Statics /\ Steady(s, n.to) /\ Told(n.to, o)
             /\ n.delay \in 0 .. Horizon
             /\ \A i \in n.free : Chosen(n.to, i)
             /\ Found(n)
<1>. DEFINE n == NextChannel(s)
            t == [n.to EXCEPT !.dr = DefaultDr]
<1>1. /\ n.to \in Statics /\ Steady(s, n.to) /\ Told(n.to, o) /\ n.delay \in 0 .. Horizon
      /\ \A i \in n.free : Chosen(n.to, i)
      /\ ~Found(n) => DefaultIds \subseteq n.to.mask
  BY LookTells
<1>2. CASE Found(n)
  BY <1>1, <1>2 DEF SearchChannel
<1>3. CASE ~Found(n)
  <2>1. t \in Statics /\ Steady(n.to, t) /\ t.dr = 0 /\ DefaultIds \subseteq t.mask
    BY <1>1, <1>3, ChannelAssumption DEF Statics, Steady, DefaultDr, Drs
  <2>2. Told(t, o)
    BY <1>1 DEF Told, Covered, Since, Statics
  <2>3. Steady(s, t)
    BY <1>1, <2>1 DEF Steady
  <2>4. Defaults(t)
    BY <2>3 DEF Defaults, Steady
  <2>5. LET k == NextChannel(t)
        IN  /\ k.to \in Statics /\ Steady(t, k.to) /\ Told(k.to, o)
            /\ k.delay \in 0 .. Horizon
            /\ \A i \in k.free : Chosen(k.to, i)
            /\ Found(k)
    BY <2>1, <2>2, <2>4, LookTells
  <2>6. SearchChannel(s) = NextChannel(t)
    BY <1>3 DEF SearchChannel
  <2>7. Steady(s, NextChannel(t).to)
    BY <2>3, <2>5 DEF Steady
  <2>. QED  BY <2>5, <2>6, <2>7
<1>. QED  BY <1>2, <1>3

-----------------------------------------------------------------------------
(* ScheduleTx.                                                             *)

(* Out of a session only default channels are used, all of one band.       *)
Homed(s) ==
  ~s.joined => /\ s.last \in DefaultIds
               /\ s.phase = "SENDING" => s.ch \in DefaultIds

Settled(s, o) ==
  s \in Statics /\ s.phase # "SEARCHING" /\ Defaults(s) /\ Homed(s) /\ Rested(s, o)

LEMMA RestedAlike ==
  ASSUME NEW s, NEW t, NEW o, Rested(s, o),
         t.phase = "SENDING" <=> s.phase = "SENDING",
         BandOf(t, t.last) = BandOf(s, s.last), t.airtime = s.airtime,
         t.timeOff = s.timeOff, t.age = s.age, ~t.joined => ~s.joined
  PROVE  Rested(t, o)
<1>1. \A b : Known(t, b) = Known(s, b)
  BY DEF Known
<1>. QED  BY <1>1 DEF Rested, Covered, Since

LEMMA SendFrameFields ==
  ASSUME NEW s \in Statics, NEW id \in Ids, NEW airtime \in Airtimes
  PROVE  LET t == SendFrameOnChannel(s, id, airtime)
         IN  /\ t \in Statics /\ t.phase = "SENDING" /\ t.ch = id
             /\ t.joined = s.joined /\ t.last = s.last
             /\ t.channels = s.channels /\ t.age = s.age /\ t.timeOff = s.timeOff
BY DEF SendFrameOnChannel, Statics

LEMMA ScheduleSettles ==
  ASSUME NEW s \in Statics, NEW o \in Owes, s.phase \notin {"SENDING", "SEARCHING"},
         Rested(s, o), Defaults(s), Homed(s), ScheduleTx(s)
  PROVE  /\ Settled(d', o)
         /\ d'.phase = "SENDING" => o[BandOf(d', d'.ch)] = 0
<1>. DEFINE c == CalculateBackOff(s)
            n == SearchChannel(c)
<1>1. c \in Statics /\ Steady(s, c) /\ Told(c, o)
  BY BackOffTells
<1>2. Defaults(c)
  BY <1>1 DEF Defaults, Steady
<1>3. /\ n.to \in Statics /\ Steady(c, n.to) /\ Told(n.to, o) /\ n.delay \in 0 .. Horizon
      /\ \A i \in n.free : Chosen(n.to, i)
      /\ Found(n)
  BY <1>1, <1>2, SearchTells
<1>4. Steady(s, n.to) /\ Defaults(n.to)
  BY <1>1, <1>2, <1>3 DEF Steady, Defaults
<1>5. ASSUME NEW t \in Statics, t.phase \in {"IDLE", "DELAYED"},
             t.joined = n.to.joined, t.last = n.to.last, t.airtime = n.to.airtime,
             t.channels = n.to.channels, t.age = n.to.age, t.timeOff = n.to.timeOff
      PROVE  Settled(t, o)
  <2>1. Defaults(t) /\ Homed(t)
    BY <1>4, <1>5 DEF Defaults, Homed, Steady
  <2>2. ASSUME NEW b \in Bands PROVE Covered(t, o, b, Known(t, b))
    <3>1. Known(t, b) = IF b = BandOf(s, s.last) THEN Known(s, b) ELSE n.to.timeOff[b]
      BY <1>4, <1>5 DEF Known, BandOf, Steady
    <3>. QED  BY <1>3, <1>4, <1>5, <3>1 DEF Rested, Told, Covered, Since, Steady
  <2>. QED  BY <1>5, <2>1, <2>2 DEF Settled, Rested
<1>6. CASE s.off
  <2>1. d' = Idle(s)
    BY <1>6 DEF ScheduleTx
  <2>2. d' \in Statics /\ Defaults(d') /\ Homed(d') /\ d'.phase = "IDLE"
    BY <2>1 DEF Idle, Statics, Defaults, Homed
  <2>3. Rested(d', o)
    BY <2>1, RestedAlike DEF Idle, Statics, BandOf
  <2>. QED  BY <2>2, <2>3 DEF Settled
<1>7. CASE d' = Idle(n.to)
  <2>1. d' \in Statics /\ d'.phase = "IDLE"
    BY <1>3, <1>7 DEF Idle, Statics
  <2>2. Settled(d', o)
    BY <1>3, <1>5, <1>7, <2>1 DEF Idle, Statics
  <2>. QED  BY <2>1, <2>2
<1>8. CASE d' = Delayed(n.to, n.delay)
  <2>1. d' \in Statics /\ d'.phase = "DELAYED"
    BY <1>3, <1>8 DEF Delayed, Statics
  <2>2. Settled(d', o)
    BY <1>3, <1>5, <1>8, <2>1 DEF Delayed, Statics
  <2>. QED  BY <2>1, <2>2
<1>9. CASE \E id \in n.free, airtime \in Airtimes :
             d' = SendFrameOnChannel(n.to, id, airtime)
  <2>1. PICK id \in n.free, airtime \in Airtimes :
          d' = SendFrameOnChannel(n.to, id, airtime)
    BY <1>9
  <2>2. Chosen(n.to, id)
    BY <1>3
  <2>3. /\ d' \in Statics /\ d'.phase = "SENDING" /\ d'.ch = id
        /\ d'.joined = n.to.joined /\ d'.last = n.to.last
        /\ d'.channels = n.to.channels /\ d'.age = n.to.age /\ d'.timeOff = n.to.timeOff
    <3>1. n.to \in Statics /\ id \in Ids
      BY <1>3, <2>2 DEF Chosen
    <3>. HIDE DEF n
    <3>. QED  BY <2>1, <3>1, SendFrameFields
  <2>4. Defaults(d') /\ Homed(d')
    BY <1>4, <2>2, <2>3 DEF Defaults, Homed, Steady, Chosen
  <2>5. Rested(d', o)
    BY <1>3, <2>3 DEF Rested, Told, Known, Covered, Since
  <2>6. o[BandOf(d', d'.ch)] = 0
    <3>. DEFINE b == BandOf(n.to, id)
    <3>1. b \in Bands /\ BandOf(d', d'.ch) = b
      BY <1>3, <2>2, <2>3, BandType DEF BandOf, Chosen
    <3>2. n.to.timeOff[b] = 0
      BY <2>2 DEF Chosen
    <3>3. CASE o[b] > 0
      <4>1. Since(n.to, b) # Never /\ o[b] + Since(n.to, b) <= 0
        BY <1>3, <3>1, <3>2, <3>3 DEF Told, Covered
      <4>2. Since(n.to, b) \in Nat /\ o[b] \in Nat
        BY <1>3, <3>1, <4>1, TimeAssumption DEF Since, Statics, Stamps, Ages, Owes
      <4>. QED  BY <3>3, <4>1, <4>2
    <3>. QED  BY <3>1, <3>3 DEF Owes
  <2>. QED  BY <2>3, <2>4, <2>5, <2>6 DEF Settled
<1>. QED  BY <1>3, <1>6, <1>7, <1>8, <1>9 DEF ScheduleTx

-----------------------------------------------------------------------------
(* The steps.  Inv is inductive: what a band owes is known, because the    *)
(* stamp of its last transmission and the time off never part.             *)

Inv == Settled(d, owed) /\ owed \in Owes

(* Starts, where Inv holds and will hold.                                  *)
StartsRested == Starts => owed'[BandOf(d', d'.ch)] = 0

LEMMA ChannelType ==
  ASSUME NEW b \in Bands
  PROVE  Channel(b) \in Channels /\ NoChannel \in Channels
BY ChannelAssumption, BandAssumption DEF Channel, NoChannel, Channels, Drs

LEMMA InitInv ==
  ASSUME Init
  PROVE  Inv
<1>1. \A i \in Ids : (IF i \in UserIds THEN Channel(HomeBand[i]) ELSE NoChannel) \in Channels
  BY ChannelType, BandAssumption
<1>2. 0 \in Ids /\ UserMask \subseteq Ids /\ DefaultIds \subseteq UserIds /\ DefaultIds \subseteq Ids
  BY ChannelAssumption
<1>3. 0 \in Drs
  BY ChannelAssumption DEF Drs
<1>4. d \in Statics
  BY <1>1, <1>2, <1>3, TimeAssumption DEF Init, Statics, Ages, DefaultDr
<1>5. Defaults(d)
  BY <1>2, ChannelAssumption DEF Init, Defaults, Channel
<1>6. owed \in Owes /\ \A b \in Bands : owed[b] = 0
  BY TimeAssumption DEF Init, Owes
<1>7. Rested(d, owed)
  BY <1>6 DEF Rested, Covered
<1>8. d.phase = "IDLE" /\ Homed(d)
  BY ChannelAssumption DEF Init, Homed
<1>. QED  BY <1>4, <1>5, <1>6, <1>7, <1>8 DEF Inv, Settled

LEMMA ForgetType ==
  ASSUME owed \in Owes, NEW bands, Forget(bands)
  PROVE  /\ owed' \in Owes
         /\ \A b \in Bands : owed'[b] = IF b \in bands THEN 0 ELSE owed[b]
BY TimeAssumption DEF Forget, Owes

(* A join request starts as from a channel of the same band, or from a     *)
(* session, whose rests it forgets.                                        *)
LEMMA JoinWithSettled ==
  ASSUME Inv, NEW dr \in 0 .. Dr5, NEW o \in Owes, d.phase \notin {"SENDING", "SEARCHING"},
         \/ d.joined /\ \A b \in Bands : o[b] = 0
         \/ ~d.joined /\ o = owed
  PROVE  LET s == JoinWith(dr)
         IN  s.phase = d.phase /\ Settled(s, o)
<1>. DEFINE s == JoinWith(dr)
<1>1. d \in Statics /\ Defaults(d) /\ Homed(d) /\ Rested(d, owed)
  BY DEF Inv, Settled
<1>2. 0 \in Ids /\ dr \in Drs /\ 0 \in DefaultIds
  BY ChannelAssumption DEF Drs
<1>3. s \in Statics
  BY <1>1, <1>2 DEF JoinWith, ResetMacParameters, Statics
<1>4. /\ s.phase = d.phase /\ s.joined = FALSE /\ s.last = 0 /\ s.airtime = d.airtime
      /\ s.timeOff = d.timeOff /\ s.age = d.age /\ s.channels = d.channels
  BY <1>1 DEF JoinWith, ResetMacParameters, Statics
<1>5. Defaults(s) /\ Homed(s)
  BY <1>1, <1>2, <1>4 DEF Defaults, Homed
<1>6. Rested(s, o)
  <2>1. CASE d.joined
    BY <2>1 DEF Rested, Covered
  <2>2. CASE ~d.joined
    <3>1. BandOf(s, s.last) = BandOf(d, d.last)
      BY <1>1, <1>2, <1>4, <2>2, BandAssumption DEF BandOf, Defaults, Homed
    <3>2. o = owed /\ (s.phase = "SENDING" <=> d.phase = "SENDING")
      BY <1>4, <2>2
    <3>. QED  BY <1>1, <1>4, <2>2, <3>1, <3>2, RestedAlike
  <2>. QED  BY <2>1, <2>2
<1>. QED  BY <1>3, <1>4, <1>5, <1>6 DEF Settled

LEMMA SendJoinInv ==
  ASSUME Inv, d.phase \in {"IDLE", "DELAYED", "WAITING"}, SendJoin
  PROVE  Inv' /\ StartsRested
<1>1. owed' \in Owes /\ IF d.joined THEN \A b \in Bands : owed'[b] = 0 ELSE owed' = owed
  BY ForgetType DEF SendJoin, Inv
<1>2. PICK dr \in 0 .. Dr5 : ScheduleTx([JoinWith(dr) EXCEPT !.delay = 0])
  BY DEF SendJoin
<1>. DEFINE j == JoinWith(dr)
            s == [j EXCEPT !.delay = 0]
<1>3. j.phase = d.phase /\ Settled(j, owed')
  BY <1>1, JoinWithSettled
<1>4. /\ s \in Statics /\ s.phase = j.phase /\ s.joined = j.joined /\ s.last = j.last
      /\ s.airtime = j.airtime /\ s.channels = j.channels /\ s.timeOff = j.timeOff
      /\ s.age = j.age
  BY <1>3, TimeAssumption DEF Settled, Statics
<1>5. Settled(s, owed')
  <2>1. Rested(s, owed')
    BY <1>3, <1>4, RestedAlike DEF Settled, BandOf
  <2>. QED  BY <1>3, <1>4, <2>1 DEF Settled, Defaults, Homed
<1>6. Settled(d', owed') /\ (d'.phase = "SENDING" => owed'[BandOf(d', d'.ch)] = 0)
  BY <1>1, <1>2, <1>3, <1>4, <1>5, ScheduleSettles DEF Settled
<1>. QED  BY <1>1, <1>6 DEF Inv, StartsRested, Starts

LEMMA DataRequestInv ==
  ASSUME Inv, DataRequest
  PROVE  Inv' /\ StartsRested
<1>1. PICK dr \in Drs, enable \in BOOLEAN :
        ScheduleTx([d EXCEPT !.dr = dr,
                             !.mask = IF enable THEN @ \cup DefaultIds ELSE @])
  BY DEF DataRequest
<1>2. d.phase = "IDLE" /\ owed' = owed /\ owed \in Owes
  BY DEF DataRequest, Inv
<1>. DEFINE s == [d EXCEPT !.dr = dr, !.mask = IF enable THEN @ \cup DefaultIds ELSE @]
<1>3. /\ s \in Statics /\ s.phase = "IDLE" /\ s.joined = d.joined /\ s.last = d.last
      /\ s.airtime = d.airtime /\ s.channels = d.channels /\ s.timeOff = d.timeOff
      /\ s.age = d.age
  BY <1>2, ChannelAssumption DEF Inv, Settled, Statics
<1>4. Defaults(s) /\ Homed(s)
  BY <1>3 DEF Inv, Settled, Defaults, Homed
<1>5. Rested(s, owed)
  <2>1. Rested(d, owed) /\ BandOf(s, s.last) = BandOf(d, d.last)
    BY <1>3 DEF Inv, Settled, BandOf
  <2>. QED  BY <1>2, <1>3, <2>1, RestedAlike
<1>6. Settled(d', owed) /\ (d'.phase = "SENDING" => owed[BandOf(d', d'.ch)] = 0)
  BY <1>1, <1>2, <1>3, <1>4, <1>5, ScheduleSettles
<1>. QED  BY <1>2, <1>6 DEF Inv, StartsRested, Starts

LEMMA ResendInv ==
  ASSUME Inv, d.phase \in {"DELAYED", "WAITING"}, NEW dr \in Drs, Resend(dr)
  PROVE  Inv' /\ StartsRested
<1>. DEFINE s == [d EXCEPT !.dr = dr, !.delay = 0]
<1>1. ScheduleTx(s) /\ owed' = owed /\ owed \in Owes
  BY DEF Resend, Inv
<1>2. /\ s \in Statics /\ s.phase = d.phase /\ s.joined = d.joined /\ s.last = d.last
      /\ s.airtime = d.airtime /\ s.channels = d.channels /\ s.timeOff = d.timeOff
      /\ s.age = d.age
  <2>1. 0 \in 0 .. Horizon
    BY TimeAssumption
  <2>. QED  BY <2>1 DEF Inv, Settled, Statics
<1>3. Settled(s, owed)
  <2>1. Rested(s, owed)
    BY <1>2, RestedAlike DEF Inv, Settled, BandOf
  <2>. QED  BY <1>2, <2>1 DEF Inv, Settled, Defaults, Homed
<1>4. Settled(d', owed) /\ (d'.phase = "SENDING" => owed[BandOf(d', d'.ch)] = 0)
  BY <1>1, <1>2, <1>3, ScheduleSettles DEF Settled
<1>. QED  BY <1>1, <1>4 DEF Inv, StartsRested, Starts

LEMMA OnRadioTxDoneInv ==
  ASSUME Inv, OnRadioTxDone
  PROVE  Inv' /\ StartsRested
<1>. DEFINE b == BandOf(d, d.ch)
            rest == TimeOff(d.airtime, DCycle[b])
            stamped == {<<b, "TX">>, Aggregated}
                         \cup (IF d.joined THEN {} ELSE {<<b, "JOIN">>})
<1>1. /\ d' = [d EXCEPT !.phase = "WAITING", !.last = d.ch,
                        !.age = [x \in Stamps |-> IF x \in stamped THEN 0 ELSE d.age[x]]]
      /\ owed' = [owed EXCEPT ![b] = rest]
      /\ d.phase = "SENDING"
  BY DEF OnRadioTxDone
<1>2. d \in Statics /\ owed \in Owes /\ b \in Bands
  BY BandType DEF Inv, Settled, Statics
<1>3. rest \in 0 .. Horizon
  BY <1>2, BandTimeOff DEF Statics
<1>4. /\ d' \in Statics /\ d'.phase = "WAITING" /\ d'.last = d.ch /\ d'.joined = d.joined
      /\ d'.channels = d.channels /\ d'.timeOff = d.timeOff /\ d'.airtime = d.airtime
      /\ d'.age = [x \in Stamps |-> IF x \in stamped THEN 0 ELSE d.age[x]]
  <2>. DEFINE age == [x \in Stamps |-> IF x \in stamped THEN 0 ELSE d.age[x]]
  <2>1. age \in [Stamps -> Ages]
    BY <1>2, TimeAssumption DEF Statics, Ages
  <2>2. d' = [d EXCEPT !.phase = "WAITING", !.last = d.ch, !.age = age]
    BY <1>1
  <2>. HIDE DEF age
  <2>3. /\ d' \in Statics /\ d'.phase = "WAITING" /\ d'.last = d.ch /\ d'.joined = d.joined
        /\ d'.channels = d.channels /\ d'.timeOff = d.timeOff /\ d'.airtime = d.airtime
        /\ d'.age = age
    BY <1>2, <2>1, <2>2 DEF Statics
  <2>. QED  BY <2>3 DEF age
<1>5. owed' \in Owes
  BY <1>1, <1>2, <1>3 DEF Owes
<1>6. Defaults(d') /\ Homed(d')
  BY <1>1, <1>4 DEF Inv, Settled, Defaults, Homed
<1>7. ASSUME NEW x \in Bands PROVE Covered(d', owed', x, Known(d', x))
  <2>1. <<x, "TX">> \in Stamps /\ <<x, "JOIN">> \in Stamps
    BY DEF Stamps
  <2>2. CASE x = b
    <3>1. Known(d', x) = rest /\ owed'[x] = rest
      BY <1>1, <1>2, <1>4, <2>2 DEF Known, BandOf, Owes
    <3>2. Since(d', x) = 0 /\ (~d'.joined => d'.age[<<x, "JOIN">>] = 0)
      BY <1>4, <2>1, <2>2 DEF Since
    <3>. QED  BY <1>3, <3>1, <3>2 DEF Covered, Never
  <2>3. CASE x # b
    <3>1. Known(d', x) = d.timeOff[x] /\ Known(d, x) = d.timeOff[x] /\ owed'[x] = owed[x]
      BY <1>1, <1>2, <1>4, <2>3 DEF Known, BandOf, Owes
    <3>2. <<x, "TX">> \notin stamped /\ <<x, "JOIN">> \notin stamped
      BY <1>2, <2>3, BandAssumption DEF Aggregated
    <3>3. Since(d', x) = Since(d, x) /\ d'.age[<<x, "JOIN">>] = d.age[<<x, "JOIN">>]
      BY <1>4, <2>1, <3>2 DEF Since
    <3>. QED  BY <1>4, <3>1, <3>3 DEF Inv, Settled, Rested, Covered
  <2>. QED  BY <2>2, <2>3
<1>. QED  BY <1>4, <1>5, <1>6, <1>7 DEF Inv, Settled, Rested, StartsRested, Starts

LEMMA OnRadioTxTimeoutInv ==
  ASSUME Inv, OnRadioTxTimeout
  PROVE  Inv' /\ StartsRested
<1>1. d' = Idle(d) /\ d.phase = "SENDING" /\ d \in Statics
  BY DEF OnRadioTxTimeout, Inv, Settled
<1>2. /\ owed' \in Owes
      /\ \A x \in Bands : owed'[x] = IF x = BandOf(d, d.last) THEN 0 ELSE owed[x]
  BY ForgetType DEF OnRadioTxTimeout, Inv
<1>3. /\ d' \in Statics /\ d'.phase = "IDLE" /\ d'.last = d.last /\ d'.joined = d.joined
      /\ d'.channels = d.channels /\ d'.timeOff = d.timeOff /\ d'.age = d.age
  BY <1>1 DEF Idle, Statics
<1>4. Defaults(d') /\ Homed(d')
  BY <1>3 DEF Inv, Settled, Defaults, Homed
<1>5. ASSUME NEW x \in Bands PROVE Covered(d', owed', x, Known(d', x))
  <2>1. CASE x = BandOf(d, d.last)
    BY <1>2, <2>1 DEF Covered
  <2>2. CASE x # BandOf(d, d.last)
    BY <1>1, <1>2, <1>3, <2>2 DEF Inv, Settled, Rested, Covered, Known, Since, BandOf
  <2>. QED  BY <2>1, <2>2
<1>. QED  BY <1>2, <1>3, <1>4, <1>5 DEF Inv, Settled, Rested, StartsRested, Starts

(* Steps that touch nothing of the rests.                                  *)
LEMMA AsideInv ==
  ASSUME Inv, d.phase # "SENDING", d' \in Statics, UNCHANGED owed,
         d'.phase \notin {"SENDING", "SEARCHING"}, Defaults(d'),
         d'.last = d.last, BandOf(d', d.last) = BandOf(d, d.last),
         d'.airtime = d.airtime, d'.timeOff = d.timeOff, d'.age = d.age,
         ~d'.joined => ~d.joined
  PROVE  Inv' /\ StartsRested
<1>1. Rested(d, owed) /\ Homed(d) /\ owed' = owed /\ owed \in Owes
  BY DEF Inv, Settled
<1>2. Rested(d', owed)
  BY <1>1, RestedAlike
<1>3. Homed(d')
  BY <1>1 DEF Homed
<1>. QED  BY <1>1, <1>2, <1>3 DEF Inv, Settled, StartsRested, Starts

LEMMA EndProcedureInv ==
  ASSUME Inv, EndProcedure
  PROVE  Inv' /\ StartsRested
<1>1. PICK restore \in BOOLEAN :
        d' = [Idle(d) EXCEPT !.mask = IF restore THEN @ \cup UserMask ELSE @]
  BY DEF EndProcedure
<1>2. d \in Statics /\ Defaults(d) /\ d.phase = "WAITING" /\ UNCHANGED owed
  BY DEF EndProcedure, Inv, Settled
<1>3. /\ d' \in Statics /\ d'.phase = "IDLE" /\ d'.last = d.last /\ d'.joined = d.joined
      /\ d'.airtime = d.airtime /\ d'.channels = d.channels /\ d'.timeOff = d.timeOff
      /\ d'.age = d.age
  BY <1>1, <1>2, ChannelAssumption DEF Idle, Statics
<1>4. Defaults(d') /\ BandOf(d', d.last) = BandOf(d, d.last)
  BY <1>2, <1>3 DEF Defaults, BandOf
<1>. QED  BY <1>2, <1>3, <1>4, AsideInv

LEMMA JoinAcceptInv ==
  ASSUME Inv, JoinAccept
  PROVE  Inv' /\ StartsRested
<1>1. /\ d \in Statics /\ Defaults(d) /\ d.phase = "WAITING" /\ UNCHANGED owed
      /\ d.last \in DefaultIds
  BY DEF JoinAccept, Inv, Settled, Homed
<1>2. CASE d' = [Idle(d) EXCEPT !.joined = TRUE]
  <2>1. /\ d' \in Statics /\ d'.phase = "IDLE" /\ d'.last = d.last /\ d'.joined
        /\ d'.airtime = d.airtime /\ d'.channels = d.channels /\ d'.timeOff = d.timeOff
        /\ d'.age = d.age
    BY <1>1, <1>2 DEF Idle, Statics
  <2>2. Defaults(d') /\ BandOf(d', d.last) = BandOf(d, d.last)
    BY <1>1, <2>1 DEF Defaults, BandOf
  <2>. QED  BY <1>1, <2>1, <2>2, AsideInv
<1>3. CASE \E list \in CfLists :
             d' = [Idle(ApplyCFList(d, list)) EXCEPT !.joined = TRUE]
  <2>1. PICK list \in CfLists :
          d' = [Idle(ApplyCFList(d, list)) EXCEPT !.joined = TRUE]
    BY <1>3
  <2>. DEFINE defined == {i \in CfIds : list[i] \in Bands}
              left == DefaultIds \cup {i \in CfIds : list[i] = BadFrequency}
              f == [i \in Ids |-> IF i \in left THEN d.channels[i]
                                  ELSE IF i \in defined THEN Channel(list[i])
                                  ELSE NoChannel]
  <2>2. f \in [Ids -> Channels]
    <3>1. \A i \in defined : list[i] \in Bands
      OBVIOUS
    <3>2. NoChannel \in Channels /\ \A i \in defined : Channel(list[i]) \in Channels
      BY <3>1, ChannelType, BandAssumption
    <3>. QED  BY <1>1, <3>2 DEF Statics
  <2>3. ApplyCFList(d, list) =
          [d EXCEPT !.channels = f, !.mask = (d.mask \cap left) \cup defined]
    BY DEF ApplyCFList
  <2>4. /\ d' \in Statics /\ d'.phase = "IDLE" /\ d'.last = d.last /\ d'.joined
        /\ d'.airtime = d.airtime /\ d'.channels = f /\ d'.timeOff = d.timeOff
        /\ d'.age = d.age
    <3>. DEFINE j == ApplyCFList(d, list)
    <3>1. (d.mask \cap left) \cup defined \in SUBSET Ids
      BY ChannelAssumption
    <3>. HIDE DEF f, defined, left
    <3>2. /\ j \in Statics /\ j.last = d.last /\ j.airtime = d.airtime
          /\ j.channels = f /\ j.timeOff = d.timeOff /\ j.age = d.age
      BY <1>1, <2>2, <2>3, <3>1 DEF Statics
    <3>. HIDE DEF j
    <3>3. d' = [Idle(j) EXCEPT !.joined = TRUE]
      BY <2>1 DEF j
    <3>. QED  BY <3>2, <3>3 DEF Idle, Statics
  <2>5. \A i \in DefaultIds : d'.channels[i] = d.channels[i]
    BY <2>4, ChannelAssumption
  <2>6. Defaults(d') /\ BandOf(d', d.last) = BandOf(d, d.last)
    BY <1>1, <2>5 DEF Defaults, BandOf
  <2>. QED  BY <1>1, <2>4, <2>6, AsideInv
<1>. QED  BY <1>2, <1>3 DEF JoinAccept

LEMMA NewChannelReqInv ==
  ASSUME Inv, NewChannelReq
  PROVE  Inv' /\ StartsRested
<1>1. /\ d \in Statics /\ Defaults(d) /\ d.joined /\ owed \in Owes
      /\ d.phase \notin {"SENDING", "SEARCHING"}
  BY DEF NewChannelReq, Listening, Inv, Settled
<1>2. /\ d' \in Statics /\ d'.phase = d.phase /\ d'.last = d.last /\ d'.joined = d.joined
      /\ d'.airtime = d.airtime /\ d'.timeOff = d.timeOff /\ d'.age = d.age
      /\ Defaults(d')
  <2>1. PICK id \in Ids : \/ d' = ChannelsRemove(d, id)
                          \/ \E ch \in NewChannels : d' = ChannelAdd(d, id, ch)
    BY DEF NewChannelReq
  <2>2. CASE d' = ChannelsRemove(d, id)
    <3>1. CASE id \in DefaultIds
      BY <1>1, <2>2, <3>1 DEF ChannelsRemove
    <3>2. CASE id \notin DefaultIds
      <4>1. NoChannel \in Channels
        BY ChannelType, BandAssumption
      <4>2. d' = [d EXCEPT !.channels = [d.channels EXCEPT ![id] = NoChannel],
                           !.mask = d.mask \ {id}]
        BY <2>2, <3>2 DEF ChannelsRemove
      <4>3. /\ d' \in Statics /\ d'.phase = d.phase /\ d'.last = d.last
            /\ d'.joined = d.joined /\ d'.airtime = d.airtime
            /\ d'.timeOff = d.timeOff /\ d'.age = d.age
            /\ d'.channels = [d.channels EXCEPT ![id] = NoChannel]
        BY <1>1, <4>1, <4>2 DEF Statics
      <4>. QED  BY <1>1, <3>2, <4>3, ChannelAssumption DEF Statics, Defaults
    <3>. QED  BY <3>1, <3>2
  <2>3. ASSUME NEW ch \in NewChannels, d' = ChannelAdd(d, id, ch)
        PROVE  <1>2
    <3>1. ch \in Channels /\ ch.on /\ ch.min \in Nat /\ ch.max \in Nat
      BY ChannelAssumption DEF Channels, Drs
    <3>2. CASE d' = d
      BY <1>1, <3>2
    <3>3. CASE /\ d' = [d EXCEPT !.channels[id] = ch, !.mask = @ \cup {id}]
               /\ id \in DefaultIds => /\ ~(ch.min > 0) /\ ~(ch.max < Dr5)
                                       /\ ch.band = HomeBand[id]
      <4>1. /\ d' \in Statics /\ d'.phase = d.phase /\ d'.last = d.last
            /\ d'.joined = d.joined /\ d'.airtime = d.airtime
            /\ d'.timeOff = d.timeOff /\ d'.age = d.age
            /\ d'.channels = [d.channels EXCEPT ![id] = ch]
        BY <1>1, <3>1, <3>3 DEF Statics
      <4>2. ASSUME NEW i \in DefaultIds
            PROVE  /\ d'.channels[i].on /\ d'.channels[i].min = 0
                   /\ d'.channels[i].max >= Dr5 /\ d'.channels[i].band = HomeBand[i]
        <5>1. i \in Ids
          BY ChannelAssumption
        <5>2. CASE i = id
          BY <1>1, <3>1, <3>3, <4>1, <5>1, <5>2, ChannelAssumption DEF Statics
        <5>3. CASE i # id
          BY <1>1, <4>1, <5>1, <5>3 DEF Statics, Defaults
        <5>. QED  BY <5>2, <5>3
      <4>. QED  BY <4>1, <4>2 DEF Defaults
    <3>. QED  BY <2>3, <3>2, <3>3 DEF ChannelAdd
  <2>. QED  BY <2>1, <2>2, <2>3
<1>3. CASE BandOf(d, d.last) = BandOf(d', d.last)
  BY <1>1, <1>2, <1>3, AsideInv DEF NewChannelReq
<1>4. CASE BandOf(d, d.last) # BandOf(d', d.last)
  <2>. DEFINE bands == {BandOf(d, d.last), BandOf(d', d.last)}
  <2>1. /\ owed' \in Owes
        /\ \A b \in Bands : owed'[b] = IF b \in bands THEN 0 ELSE owed[b]
    <3>1. Forget(bands)
      BY <1>4 DEF NewChannelReq
    <3>. QED  BY <1>1, <3>1, ForgetType
  <2>2. ASSUME NEW b \in Bands PROVE Covered(d', owed', b, Known(d', b))
    <3>1. CASE b \in bands
      BY <2>1, <3>1 DEF Covered
    <3>2. CASE b \notin bands
      BY <1>1, <1>2, <2>1, <3>2 DEF Inv, Settled, Rested, Covered, Known, Since
    <3>. QED  BY <3>1, <3>2
  <2>. QED  BY <1>1, <1>2, <2>1, <2>2 DEF Inv, Settled, Homed, Rested, StartsRested, Starts
<1>. QED  BY <1>3, <1>4

LEMMA LinkAdrReqInv ==
  ASSUME Inv, LinkAdrReq
  PROVE  Inv' /\ StartsRested
<1>1. /\ d \in Statics /\ Defaults(d) /\ UNCHANGED owed
      /\ d.phase \notin {"SENDING", "SEARCHING"}
  BY DEF LinkAdrReq, Listening, Inv, Settled
<1>2. PICK mask \in SUBSET Ids, all \in BOOLEAN, dr \in Drs : d' = LinkAdr(d, mask, all, dr)
  BY DEF LinkAdrReq
<1>. DEFINE on == {i \in Ids : d.channels[i].on}
            chosen == IF all THEN mask \cup on ELSE mask
<1>3. chosen \in SUBSET Ids
  OBVIOUS
<1>4. d' = d \/ d' = [d EXCEPT !.mask = chosen, !.dr = dr]
  BY <1>2 DEF LinkAdr
<1>. HIDE DEF chosen
<1>5. /\ d' \in Statics /\ d'.phase = d.phase /\ d'.last = d.last /\ d'.joined = d.joined
      /\ d'.airtime = d.airtime /\ d'.channels = d.channels /\ d'.timeOff = d.timeOff
      /\ d'.age = d.age
  BY <1>1, <1>3, <1>4 DEF Statics
<1>6. Defaults(d') /\ BandOf(d', d.last) = BandOf(d, d.last)
  BY <1>1, <1>5 DEF Defaults, BandOf
<1>. QED  BY <1>1, <1>5, <1>6, AsideInv

LEMMA DutyCycleReqInv ==
  ASSUME Inv, DutyCycleReq
  PROVE  Inv' /\ StartsRested
<1>1. /\ d \in Statics /\ Defaults(d) /\ UNCHANGED owed
      /\ d.phase \notin {"SENDING", "SEARCHING"}
  BY DEF DutyCycleReq, Listening, Inv, Settled
<1>2. /\ d' \in Statics /\ d'.phase = d.phase /\ d'.last = d.last /\ d'.joined = d.joined
      /\ d'.airtime = d.airtime /\ d'.channels = d.channels /\ d'.timeOff = d.timeOff
      /\ d'.age = d.age
  <2>1. CASE d' = [d EXCEPT !.off = TRUE]
    BY <1>1, <2>1 DEF Statics
  <2>2. CASE \E aggr \in AggregatedDCycles : d' = [d EXCEPT !.aggr = aggr, !.off = FALSE]
    <3>1. PICK aggr \in AggregatedDCycles : d' = [d EXCEPT !.aggr = aggr, !.off = FALSE]
      BY <2>2
    <3>. QED  BY <1>1, <3>1 DEF Statics
  <2>. QED  BY <2>1, <2>2 DEF DutyCycleReq
<1>3. Defaults(d') /\ BandOf(d', d.last) = BandOf(d, d.last)
  BY <1>1, <1>2 DEF Defaults, BandOf
<1>. QED  BY <1>1, <1>2, <1>3, AsideInv

LEMMA TickInv ==
  ASSUME Inv, Tick
  PROVE  Inv' /\ StartsRested
<1>. DEFINE age == [x \in Stamps |-> Older(d.age[x])]
            delay == Less(d.delay)
<1>1. d \in Statics /\ owed \in Owes /\ Horizon \in Nat
  BY TimeAssumption DEF Inv, Settled
<1>2. age \in [Stamps -> Ages]
  <2>1. ASSUME NEW x \in Ages PROVE Older(x) \in Ages
    BY <1>1 DEF Older, Ages, Never
  <2>. QED  BY <1>1, <2>1 DEF Statics
<1>3. delay \in 0 .. Horizon
  BY <1>1 DEF Less, Statics
<1>4. d' = [d EXCEPT !.age = age, !.delay = delay]
  BY DEF Tick
<1>5. /\ d' \in Statics /\ d'.phase = d.phase /\ d'.last = d.last /\ d'.joined = d.joined
      /\ d'.airtime = d.airtime /\ d'.channels = d.channels /\ d'.timeOff = d.timeOff
      /\ d'.ch = d.ch /\ d'.age = age
  <2>. HIDE DEF age, delay
  <2>. QED  BY <1>1, <1>2, <1>3, <1>4 DEF Statics
<1>6. owed' \in Owes /\ \A b \in Bands : owed'[b] = Less(owed[b])
  BY <1>1 DEF Tick, Less, Owes
<1>7. Defaults(d') /\ Homed(d')
  BY <1>5 DEF Inv, Settled, Defaults, Homed
<1>8. ASSUME NEW b \in Bands PROVE Covered(d', owed', b, Known(d', b))
  <2>1. Known(d', b) = Known(d, b) /\ Known(d, b) \in 0 .. Horizon
    BY <1>1, <1>5, BandTimeOff DEF Known, BandOf, Statics
  <2>2. <<b, "TX">> \in Stamps /\ <<b, "JOIN">> \in Stamps
    BY DEF Stamps
  <2>3. Since(d', b) = Older(Since(d, b)) /\ d'.age[<<b, "JOIN">>] = Older(d.age[<<b, "JOIN">>])
    BY <1>5, <2>2 DEF Since
  <2>4. CASE owed'[b] > 0
    <3>1. owed[b] > 0 /\ owed'[b] = owed[b] - 1 /\ owed[b] \in Nat
      BY <1>1, <1>6, <2>4 DEF Less, Owes
    <3>2. /\ Since(d, b) # Never /\ owed[b] + Since(d, b) <= Known(d, b)
          /\ ~d.joined => d.age[<<b, "JOIN">>] = Since(d, b)
      BY <3>1 DEF Inv, Settled, Rested, Covered
    <3>3. Since(d, b) \in 0 .. Horizon
      BY <1>1, <2>2, <3>2 DEF Since, Statics, Ages
    <3>4. Since(d', b) = Since(d, b) + 1
      BY <1>1, <2>1, <2>3, <3>1, <3>2, <3>3 DEF Older
    <3>5. Since(d', b) # Never /\ owed'[b] + Since(d', b) <= Known(d', b)
      BY <1>1, <2>1, <3>1, <3>2, <3>3, <3>4 DEF Never
    <3>. QED  BY <1>5, <2>3, <3>2, <3>5 DEF Covered
  <2>. QED  BY <2>4 DEF Covered
<1>. QED  BY <1>5, <1>6, <1>7, <1>8 DEF Inv, Settled, Rested, StartsRested, Starts

LEMMA DeepSleepInv ==
  ASSUME Inv, DeepSleep
  PROVE  Inv' /\ StartsRested
<1>. DEFINE age == [x \in Stamps |-> IF d.age[x] = Never THEN Never ELSE Horizon]
<1>1. d \in Statics /\ d.phase = "IDLE" /\ d.joined
  BY DEF DeepSleep, Inv, Settled
<1>2. age \in [Stamps -> Ages]
  BY TimeAssumption DEF Ages
<1>3. d' = [d EXCEPT !.age = age]
  BY DEF DeepSleep
<1>4. d' \in Statics /\ d'.phase = "IDLE" /\ d'.joined /\ d'.channels = d.channels
  <2>. HIDE DEF age
  <2>. QED  BY <1>1, <1>2, <1>3 DEF Statics
<1>5. owed' \in Owes /\ \A b \in Bands : owed'[b] = 0
  BY ForgetType DEF DeepSleep, Inv
<1>. QED
  BY <1>4, <1>5 DEF Inv, Settled, Defaults, Homed, Rested, Covered, StartsRested, Starts

LEMMA NextInv ==
  ASSUME Inv, Next
  PROVE  Inv' /\ StartsRested
<1>1. CASE OnTxDelayedTimerEvent
  <2>1. d.dr \in Drs
    BY DEF Inv, Settled, Statics
  <2>. QED  BY <1>1, <2>1, ResendInv, SendJoinInv DEF OnTxDelayedTimerEvent
<1>2. CASE SendAgain
  BY <1>2, ResendInv, SendJoinInv DEF SendAgain
<1>3. CASE JoinRequest
  BY <1>3, SendJoinInv DEF JoinRequest
<1>. QED
  BY <1>1, <1>2, <1>3, DataRequestInv, OnRadioTxDoneInv, OnRadioTxTimeoutInv,
     EndProcedureInv, JoinAcceptInv, NewChannelReqInv, LinkAdrReqInv, DutyCycleReqInv,
     TickInv, DeepSleepInv DEF Next

-----------------------------------------------------------------------------
(* The statics keep their types, a search ends, default channels stay, and *)
(* what a band owes is known, whatever the device and its server do.       *)
THEOREM Invariance == Spec => []Inv
<1>1. Init => Inv
  BY InitInv
<1>2. Inv /\ [Next]_vars => Inv'
  <2>. SUFFICES ASSUME Inv, [Next]_vars PROVE Inv'
    OBVIOUS
  <2>1. CASE Next
    BY <2>1, NextInv
  <2>2. CASE UNCHANGED vars
    BY <2>2 DEF vars, Inv, Settled, Statics, Defaults, Homed, Rested, Covered, Known,
                Since, BandOf, Owes
  <2>. QED  BY <2>1, <2>2
<1>. QED  BY <1>1, <1>2, PTL DEF Spec

(* No off time and no delay exceeds that of a whole duty cycle             *)
(* (RegionEU868CalcBackOff, RegionEU868NextChannel).                       *)
THEOREM TypeCorrect == Spec => []TypeOK
<1>1. Inv => TypeOK
  BY DEF Inv, Settled, TypeOK, Owes
<1>. QED  BY <1>1, Invariance, PTL

(* The loop of ScheduleTx ends, for every plan of channels and whatever    *)
(* the server and the application make of it.                              *)
THEOREM SearchesEnd == Spec => []SearchEnds
<1>1. Inv => SearchEnds
  BY DEF Inv, Settled, SearchEnds
<1>. QED  BY <1>1, Invariance, PTL

(* A frame goes out in a band only when the band has rested from its last  *)
(* transmission, for all duty cycles, but for the rests the code forgets.  *)
THEOREM RestsKept == Spec => BandsRest
<1>1. Inv /\ [Next]_vars => [Starts => owed'[BandOf(d', d'.ch)] = 0]_vars
  BY NextInv DEF StartsRested
<1>. QED  BY <1>1, Invariance, PTL DEF Spec, BandsRest
=============================================================================
