----------------------------- MODULE DutyCycle -----------------------------
(***************************************************************************)
(* When a frame goes out, and on which channel: ScheduleTx of LoRaMac.c    *)
(* with the channels and bands of RegionEU868.c and the duty cycle of      *)
(* RegionCommon.c.  LoRaMac.tla leaves the result of RegionNextChannel     *)
(* open; here the rest of the MAC is a procedure that sends, waits for an  *)
(* answer and sends again or ends.                                         *)
(*                                                                         *)
(* A time stamp is kept as the time that has passed since, up to Horizon.  *)
(* Never is the stamp 0, of which TimerGetElapsedTime says that no time    *)
(* has passed.                                                             *)
(***************************************************************************)
EXTENDS Integers, FiniteSetsExt

CONSTANTS
  Ids, DefaultIds, CfIds, \* channels, default channels, those of a CFList
  UserIds,      \* the channels the application has defined, and in
  UserMask,     \* userChannelsMask, the ones it uses
  Bands,
  HomeBand,     \* the band of each of EU868_LC1, EU868_LC2, ...
  DCycle,       \* the duty cycle of a band: one part in so many
  JoinDCycle,   \* the greatest of the join duty cycles: 3
  Dr5, MaxDr,   \* datarates, from DR_0 to EU868_TX_MAX_DATARATE
  NewChannels,  \* the channels the server may define
  Airtimes,     \* the times on air of a frame
  AggregatedDCycles, \* what DutyCycleReq may set AggregatedDCycle to
  Horizon       \* no time off is longer

Drs == 0 .. MaxDr
TimeOff(airtime, dcycle) == airtime * dcycle - airtime

Channels == [on : BOOLEAN, band : Bands, min : Drs, max : Drs]

ASSUME ChannelAssumption ==
  /\ DefaultIds \cup CfIds \cup UserIds \cup UserMask \subseteq Ids
  /\ 0 \in DefaultIds
  /\ DefaultIds \subseteq UserIds
  /\ DefaultIds \cap CfIds = {}
  /\ Dr5 \in Nat /\ MaxDr \in Nat /\ Dr5 <= MaxDr
  /\ NewChannels \subseteq {ch \in Channels : ch.on}

(* Band 0 is the one of a removed channel.  The default channels are in    *)
(* one band.                                                               *)
ASSUME BandAssumption ==
  /\ IsFiniteSet(Bands) /\ 0 \in Bands /\ Bands \subseteq Nat
  /\ HomeBand \in [Ids -> Bands]
  /\ \A i, j \in DefaultIds : HomeBand[i] = HomeBand[j]

(* The duty cycle of the band is always the most restricting one.          *)
ASSUME TimeAssumption ==
  /\ JoinDCycle \in Nat \ {0}
  /\ DCycle \in [Bands -> Nat] /\ \A b \in Bands : DCycle[b] >= JoinDCycle
  /\ Airtimes \subseteq Nat \ {0}
  /\ AggregatedDCycles \subseteq Nat \ {0}
  /\ Horizon \in Nat
  /\ \A a \in Airtimes : \A b \in Bands : TimeOff(a, DCycle[b]) <= Horizon
  /\ \A a \in Airtimes : \A c \in AggregatedDCycles : TimeOff(a, c) <= Horizon

Never == -1
Ages  == {Never} \cup 0 .. Horizon

(* TimerGetElapsedTime.                                                    *)
Elapsed(age) == IF age = Never THEN 0 ELSE age

(* The stamps: LastTxDoneTime and LastJoinTxDoneTime of a band, and        *)
(* AggregatedLastTxDoneTime.                                               *)
Aggregated == <<-1, "TX">>
Stamps == (Bands \X {"TX", "JOIN"}) \cup {Aggregated}

VARIABLES
  d,    \* the statics
  owed  \* history: how long each band still has to rest

vars == <<d, owed>>

DefaultDr == 0

Channel(band) == [on |-> TRUE, band |-> band, min |-> 0, max |-> Dr5]
NoChannel     == [on |-> FALSE, band |-> 0, min |-> 0, max |-> 0]

(* phase: what the MAC is doing; joined: IsLoRaMacNetworkJoined; off:      *)
(* MaxDCycle is 255; aggr: AggregatedDCycle; dr: ChannelsDatarate; ch,     *)
(* last: Channel and LastTxChannel; airtime: TxTimeOnAir; delay: what      *)
(* TxDelayedTimer still has to run; channels, mask: Channels and           *)
(* ChannelsMask; timeOff: TimeOff of each band; age: the stamps.           *)
Init ==
  /\ d = [phase |-> "IDLE", joined |-> FALSE, off |-> FALSE, aggr |-> 1,
          dr |-> DefaultDr, ch |-> 0, last |-> 0, airtime |-> 0, delay |-> 0,
          channels |-> [i \in Ids |-> IF i \in UserIds
                                      THEN Channel(HomeBand[i])
                                      ELSE NoChannel],
          mask |-> UserMask,
          timeOff |-> [b \in Bands |-> 0],
          age |-> [s \in Stamps |-> Never]]
  /\ owed = [b \in Bands |-> 0]

-----------------------------------------------------------------------------
(* The channels of the region.                                             *)

\* Mutant: a default channel may lose its lowest datarates.
AddAnyRange(s, id, ch) ==
  IF id \in DefaultIds /\ ch.band # HomeBand[id]
  THEN s
  ELSE [s EXCEPT !.channels[id] = ch, !.mask = @ \cup {id}]

(* The frequency of a default channel is fixed, and it keeps the datarates *)
(* up to DR_5.                                                             *)
ChannelAdd(s, id, ch) ==
  IF \/ ch.min > ch.max
     \/ /\ id \in DefaultIds
        /\ ch.min > 0 \/ ch.max < Dr5 \/ ch.band # HomeBand[id]
  THEN s
  ELSE [s EXCEPT !.channels[id] = ch, !.mask = @ \cup {id}]

ChannelsRemove(s, id) ==
  IF id \in DefaultIds
  THEN s
  ELSE [s EXCEPT !.channels[id] = NoChannel, !.mask = @ \ {id}]

(* list: the bands of the channels a CFList defines; no frequency removes  *)
(* the channel, and one outside the bands leaves it as it is.              *)
NoFrequency  == -1
BadFrequency == -2
CfLists == [CfIds -> Bands \cup {NoFrequency, BadFrequency}]

ApplyCFList(s, list) ==
  LET defined == {i \in CfIds : list[i] \in Bands}
      left    == DefaultIds \cup {i \in CfIds : list[i] = BadFrequency}
  IN  [s EXCEPT !.channels = [i \in Ids |->
                                IF i \in left THEN @[i]
                                ELSE IF i \in defined THEN Channel(list[i])
                                ELSE NoChannel],
                !.mask = (@ \cap left) \cup defined]

(* A mask must be of defined channels, unless it is of all of them (all:   *)
(* ChMaskCtrl is 6), and one of them must have the datarate.               *)
LinkAdr(s, mask, all, dr) ==
  LET on     == {i \in Ids : s.channels[i].on}
      chosen == IF all THEN mask \cup on ELSE mask
  IN  IF /\ all \/ (mask # {} /\ mask \subseteq on)
         /\ \E i \in chosen : dr \in s.channels[i].min .. s.channels[i].max
      THEN [s EXCEPT !.mask = chosen, !.dr = dr]
      ELSE s

-----------------------------------------------------------------------------
(* The next channel.                                                       *)

BandOf(s, id) == s.channels[id].band

\* Mutants: the time off is not computed for the last channel; it is the
\* whole of the cycle, the time on air included.
BackOffForgotten(s) == s
BackOffWithAirtime(s) ==
  [s EXCEPT !.timeOff[BandOf(s, s.last)] = s.airtime * DCycle[BandOf(s, s.last)]]

(* CalculateBackOff: a band is told how long it rests when the next frame  *)
(* is scheduled.                                                           *)
CalculateBackOff(s) ==
  LET b == BandOf(s, s.last)
  IN  [s EXCEPT !.timeOff[b] = TimeOff(s.airtime, DCycle[b])]

BandElapsed(s, b) ==
  IF s.joined
  THEN Elapsed(s.age[<<b, "TX">>])
  ELSE Max({Elapsed(s.age[<<b, "TX">>]), Elapsed(s.age[<<b, "JOIN">>])})

UpdateBandTimeOff(s) ==
  [s EXCEPT !.timeOff = [b \in Bands |-> IF @[b] <= BandElapsed(s, b)
                                         THEN 0 ELSE @[b]]]

(* The least time a band, used or not, has to wait.                        *)
NextTxDelay(s) ==
  Min({s.timeOff[b] - BandElapsed(s, b) : b \in {x \in Bands : s.timeOff[x] # 0}})

(* CountNbOfEnabledChannels: the channels a frame may use, now or later.   *)
Usable(s) ==
  {i \in s.mask : /\ s.channels[i].on
                  /\ s.joined \/ i \in DefaultIds
                  /\ s.dr \in s.channels[i].min .. s.channels[i].max}

Free(s) == {i \in Usable(s) : s.timeOff[BandOf(s, i)] = 0}

\* Mutant: the whole time off, whatever has passed of it.
WholeTimeOff(s) == TimeOff(s.airtime, s.aggr)

AggregatedWait(s) == TimeOff(s.airtime, s.aggr) - Elapsed(s.age[Aggregated])

(* RegionNextChannel: the channels to choose from, or else a delay, or     *)
(* neither.                                                                *)
NextChannel(s) ==
  LET m == IF s.mask = {} THEN [s EXCEPT !.mask = DefaultIds] ELSE s
      u == UpdateBandTimeOff(m)
  IN  IF AggregatedWait(m) > 0
      THEN [to |-> m, free |-> {}, delay |-> AggregatedWait(m)]
      ELSE IF Usable(u) = {}
      THEN [to |-> [u EXCEPT !.mask = @ \cup DefaultIds], free |-> {}, delay |-> 0]
      ELSE [to |-> u, free |-> Free(u),
            delay |-> IF Free(u) = {} THEN NextTxDelay(u) ELSE 0]

Found(n) == n.free # {} \/ n.delay > 0

(* The loop of ScheduleTx: no channel has the datarate, so it takes the    *)
(* default one and looks again.                                            *)
SearchChannel(s) ==
  LET n == NextChannel(s)
  IN  IF Found(n) THEN n ELSE NextChannel([n.to EXCEPT !.dr = DefaultDr])

SendFrameOnChannel(s, id, airtime) ==
  [s EXCEPT !.phase = "SENDING", !.ch = id, !.airtime = airtime]

Delayed(s, delay) == [s EXCEPT !.phase = "DELAYED", !.delay = delay]

Idle(s) == [s EXCEPT !.phase = "IDLE"]

(* A third look would be like the second: the phase SEARCHING is a loop    *)
(* that never ends.  A payload may be too long for the datarate.           *)
ScheduleTx(s) ==
  LET n == SearchChannel(CalculateBackOff(s))
  IN  IF s.off
      THEN d' = Idle(s)
      ELSE \/ ~Found(n) /\ d' = [n.to EXCEPT !.phase = "SEARCHING"]
           \/ Found(n) /\ s.joined /\ d' = Idle(n.to)
           \/ \E id \in n.free, airtime \in Airtimes :
                d' = SendFrameOnChannel(n.to, id, airtime)
           \/ n.delay > 0 /\ d' = Delayed(n.to, n.delay)

-----------------------------------------------------------------------------
(* What the code forgets of the rests: owed is then 0.                     *)

Forget(bands) == owed' = [b \in Bands |-> IF b \in bands THEN 0 ELSE owed[b]]

ResetMacParameters(s) ==
  [s EXCEPT !.joined = FALSE, !.off = FALSE, !.aggr = 1, !.dr = DefaultDr,
            !.ch = 0, !.last = 0]

JoinWith(dr) == [ResetMacParameters(d) EXCEPT !.dr = dr]

(* A join out of a session: the last channel is forgotten, and a band need *)
(* only have rested since the last join request.                           *)
SendJoin ==
  /\ \E dr \in 0 .. Dr5 : ScheduleTx([JoinWith(dr) EXCEPT !.delay = 0])
  /\ IF d.joined THEN Forget(Bands) ELSE UNCHANGED owed

JoinRequest == d.phase = "IDLE" /\ SendJoin

(* The datarate is set by the application or by RegionAdrNext, which may   *)
(* enable the default channels with it.                                    *)
DataRequest ==
  /\ d.phase = "IDLE"
  /\ d.joined
  /\ \E dr \in Drs, enable \in BOOLEAN :
       /\ enable => dr = 0
       /\ ScheduleTx([d EXCEPT !.dr = dr,
                               !.mask = IF enable THEN @ \cup DefaultIds ELSE @])
  /\ UNCHANGED owed

OnRadioTxDone ==
  LET b == BandOf(d, d.ch)
      stamped == {<<b, "TX">>, Aggregated}
                   \cup (IF d.joined THEN {} ELSE {<<b, "JOIN">>})
  IN  /\ d.phase = "SENDING"
      /\ d' = [d EXCEPT !.phase = "WAITING", !.last = d.ch,
                        !.age = [s \in Stamps |-> IF s \in stamped THEN 0 ELSE @[s]]]
      /\ owed' = [owed EXCEPT ![b] = TimeOff(d.airtime, DCycle[b])]

(* The time on air of this frame now stands for that of the last channel.  *)
OnRadioTxTimeout ==
  /\ d.phase = "SENDING"
  /\ d' = Idle(d)
  /\ Forget({BandOf(d, d.last)})

Resend(dr) ==
  /\ d.joined
  /\ ScheduleTx([d EXCEPT !.dr = dr, !.delay = 0])
  /\ UNCHANGED owed

(* A join request is prepared again.  In a session that is a link check    *)
(* taken for one: MlmeConfirm still names the join (LinkCheckRejoin.cfg).  *)
OnTxDelayedTimerEvent ==
  /\ d.phase = "DELAYED"
  /\ d.delay = 0
  /\ Resend(d.dr) \/ SendJoin

(* The state check sends again: a join request, a repetition or a retry    *)
(* with the same datarate or the next lower one.                           *)
SendAgain ==
  /\ d.phase = "WAITING"
  /\ (\E dr \in {d.dr, d.dr - 1} \cap Drs : Resend(dr)) \/ SendJoin

(* The procedure ends; a request given up enables the application's        *)
(* channels.                                                               *)
EndProcedure ==
  /\ d.phase = "WAITING"
  /\ \E restore \in BOOLEAN :
       d' = [Idle(d) EXCEPT !.mask = IF restore THEN @ \cup UserMask ELSE @]
  /\ UNCHANGED owed

-----------------------------------------------------------------------------
(* What the server sends.                                                  *)

JoinAccept ==
  /\ d.phase = "WAITING"
  /\ ~d.joined
  /\ \/ d' = [Idle(d) EXCEPT !.joined = TRUE]
     \/ \E list \in CfLists :
          d' = [Idle(ApplyCFList(d, list)) EXCEPT !.joined = TRUE]
  /\ UNCHANGED owed

(* A class C device is listening also while it is idle or a frame waits.   *)
Listening == d.joined /\ d.phase \in {"IDLE", "DELAYED", "WAITING"}

(* The band of the last channel may be another one now.                    *)
NewChannelReq ==
  /\ Listening
  /\ \E id \in Ids :
       \/ d' = ChannelsRemove(d, id)
       \/ \E ch \in NewChannels : d' = ChannelAdd(d, id, ch)
  /\ IF BandOf(d, d.last) = BandOf(d', d.last)
     THEN UNCHANGED owed
     ELSE Forget({BandOf(d, d.last), BandOf(d', d.last)})

LinkAdrReq ==
  /\ Listening
  /\ \E mask \in SUBSET Ids, all \in BOOLEAN, dr \in Drs :
       d' = LinkAdr(d, mask, all, dr)
  /\ UNCHANGED owed

DutyCycleReq ==
  /\ Listening
  /\ \/ \E aggr \in AggregatedDCycles :
          d' = [d EXCEPT !.aggr = aggr, !.off = FALSE]
     \/ d' = [d EXCEPT !.off = TRUE]
  /\ UNCHANGED owed

-----------------------------------------------------------------------------
Older(age) == IF age \in {Never, Horizon} THEN age ELSE age + 1

Less(n) == IF n = 0 THEN 0 ELSE n - 1

Tick ==
  /\ d' = [d EXCEPT !.age = [s \in Stamps |-> Older(@[s])], !.delay = Less(@)]
  /\ owed' = [b \in Bands |-> Less(owed[b])]

(* A deep sleep keeps the statics and restarts the clock.  A stamp is then *)
(* ahead of the clock, and the difference, taken modulo 2^64, is longer    *)
(* than any wait.  (Later the clock comes past the stamp, which may put a  *)
(* frame off once more; that is left out.)                                 *)
DeepSleep ==
  /\ d.phase = "IDLE"
  /\ d.joined
  /\ d' = [d EXCEPT !.age = [s \in Stamps |-> IF @[s] = Never THEN Never ELSE Horizon]]
  /\ Forget(Bands)

Next ==
  \/ JoinRequest \/ DataRequest
  \/ OnRadioTxDone \/ OnRadioTxTimeout \/ OnTxDelayedTimerEvent
  \/ SendAgain \/ EndProcedure
  \/ JoinAccept \/ NewChannelReq \/ LinkAdrReq \/ DutyCycleReq
  \/ Tick \/ DeepSleep

Spec == Init /\ [][Next]_vars

TimeMatters ==
  \/ d.delay > 0
  \/ \E s \in Stamps : d.age[s] \notin {Never, Horizon}
  \/ \E b \in Bands : owed[b] > 0

FairSpec ==
  /\ Spec
  /\ []<>~TimeMatters \/ []<><<Tick>>_vars
  /\ []<>~(d.phase = "DELAYED" /\ d.delay = 0) \/ []<><<OnTxDelayedTimerEvent>>_vars

-----------------------------------------------------------------------------
Statics ==
  [phase : {"IDLE", "DELAYED", "SENDING", "WAITING", "SEARCHING"},
   joined : BOOLEAN, off : BOOLEAN, aggr : AggregatedDCycles \cup {1},
   dr : Drs, ch : Ids, last : Ids, airtime : Airtimes \cup {0},
   delay : 0 .. Horizon, channels : [Ids -> Channels], mask : SUBSET Ids,
   timeOff : [Bands -> 0 .. Horizon], age : [Stamps -> Ages]]

(* The statics, the clock and the history keep their types: no off time    *)
(* and no delay exceeds that of a whole duty cycle.                        *)
TypeOK == d \in Statics /\ owed \in [Bands -> 0 .. Horizon]

(* A frame goes out in a band only when the band has rested from its last  *)
(* transmission, except for the rests that Forget names.                   *)
Starts == d.phase # "SENDING" /\ d'.phase = "SENDING"
BandsRest == [][Starts => owed'[BandOf(d', d'.ch)] = 0]_vars

(* The loop of ScheduleTx ends: the second look finds a channel or a delay. *)
SearchEnds == d.phase # "SEARCHING"

(* A band that was never used, and yet is told to rest, rests for ever.    *)
Dead(b) ==
  /\ d.timeOff[b] > 0
  /\ d.age[<<b, "TX">>] = Never
  /\ d.joined \/ d.age[<<b, "JOIN">>] = Never

Stranded == Usable(d) # {} /\ \A i \in Usable(d) : Dead(BandOf(d, i))

(* A frame that is put off goes out, or is given up, unless all bands it   *)
(* may use are dead.                                                       *)
DelayEnds == d.phase = "DELAYED" ~> (d.phase # "DELAYED" \/ Stranded)
=============================================================================
