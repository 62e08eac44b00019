----------------------------- MODULE TimerList -----------------------------
(***************************************************************************)
(* The list of software timers: timer.S over the free-running counter of   *)
(* rtc-board.S, both shipped as the compiler's assembly of the Semtech C   *)
(* sources.  The list is sorted; a timer's Timestamp is the time from the  *)
(* expiry of the one before it to its own, and of the timers in the list   *)
(* only the head has IsRunning set and an alarm programmed.  (A timer that *)
(* TimerStop took off while it was alone keeps IsRunning set until it is   *)
(* started again, and nothing in the list looks at it: see LoRaMac.)       *)
(* There is no interrupt: Mcu.sleep compares the alarm with the clock and  *)
(* calls TimerIrqHandler.  An operator is a C function, from the list it   *)
(* finds to the one it leaves.                                             *)
(***************************************************************************)
EXTENDS Integers, Sequences, SequencesExt, FiniteSetsExt

CONSTANT TimerIds   \* the TimerEvent_t objects: at most four

(* list: the timers from TimerListHead on; running: the head's IsRunning;  *)
(* elapsed: the time since TimerSetTime programmed the alarm; alarm:       *)
(* nextAlarm less the time.  `left' and `late' are history: what is left   *)
(* of the time each timer was started with, and the time that has passed   *)
(* while the head of the list was due.                                     *)
NoTimers == [list |-> <<>>, running |-> FALSE, elapsed |-> 0, alarm |-> 0,
             left |-> [id \in TimerIds |-> 0], late |-> 0]

Armed(t) == {t.list[i].id : i \in DOMAIN t.list}

(* An empty list has an alarm in the past, which means nothing.            *)
Emptied(t) ==
  [t EXCEPT !.list = <<>>, !.running = FALSE, !.elapsed = 0, !.alarm = 0]

SetTimeout(t) == [t EXCEPT !.elapsed = 0, !.alarm = t.list[1].ts]

Least(a, b) == IF a <= b THEN a ELSE b

(* What is left of the head's time, zero when it is overdue.               *)
Remaining(t) ==
  LET ts == t.list[1].ts
  IN  IF t.running THEN ts - Least(t.elapsed, ts) ELSE ts

(* The time from now to the expiry of the i-th timer, as the list has it:  *)
(* there are at most four.                                                 *)
Expiry(t, i) ==
  LET after(j) == IF j <= i THEN t.list[j].ts ELSE 0
  IN  Remaining(t) + after(2) + after(3) + after(4)

InsertNewHeadTimer(t, timer) ==
  LET rest == Remaining(t)
      old  == IF t.list = <<>> THEN <<>>
              ELSE [t.list EXCEPT ![1].ts = rest - timer.ts]
  IN  SetTimeout([t EXCEPT !.list = <<timer>> \o old, !.running = TRUE])

\* Mutant: the head is taken for just started.
InsertFromHead(t, timer) ==
  LET k     == Max({i \in DOMAIN t.list : Expiry(t, i) <= timer.ts})
      ts    == timer.ts - Expiry([t EXCEPT !.elapsed = 0], k)
      after == IF k = Len(t.list) THEN t.list
               ELSE [t.list EXCEPT ![k + 1].ts = @ - ts]
  IN  [t EXCEPT !.list = InsertAt(after, k + 1, [timer EXCEPT !.ts = ts])]

(* Behind the last timer that expires no later.                            *)
InsertTimer(t, timer) ==
  LET k     == Max({i \in DOMAIN t.list : Expiry(t, i) <= timer.ts})
      ts    == timer.ts - Expiry(t, k)
      after == IF k = Len(t.list) THEN t.list
               ELSE [t.list EXCEPT ![k + 1].ts = @ - ts]
  IN  [t EXCEPT !.list = InsertAt(after, k + 1, [timer EXCEPT !.ts = ts])]

(* A timer that is in the list already is left alone.                      *)
TimerStart(t, id, value) ==
  IF id \in Armed(t)
  THEN t
  ELSE LET timer   == [id |-> id, ts |-> value]
           started == [t EXCEPT !.left[id] = value]
       IN  IF t.list = <<>>
           THEN InsertNewHeadTimer(started, timer)
           ELSE IF value < Remaining(t)
                THEN InsertNewHeadTimer(started, timer)
                ELSE InsertTimer(started, timer)

\* Mutant: what was left of the head's time is forgotten.
StopHeadForgets(t) ==
  IF Len(t.list) = 1
  THEN Emptied(t)
  ELSE IF t.running
       THEN SetTimeout([t EXCEPT !.list = Tail(@)])
       ELSE [t EXCEPT !.list = Tail(@)]

StopHead(t) ==
  IF Len(t.list) = 1
  THEN Emptied(t)
  ELSE LET rest == [Tail(t.list) EXCEPT ![1].ts = @ + Remaining(t)]
       IN  IF t.running
           THEN SetTimeout([t EXCEPT !.list = rest])
           ELSE [t EXCEPT !.list = rest]

StopOther(t, i) ==
  LET after == IF i = Len(t.list) THEN t.list
               ELSE [t.list EXCEPT ![i + 1].ts = @ + t.list[i].ts]
  IN  [t EXCEPT !.list = RemoveAt(after, i)]

TimerStop(t, id) ==
  IF id \notin Armed(t)
  THEN t
  ELSE LET i == CHOOSE j \in DOMAIN t.list : t.list[j].id = id
       IN  [IF i = 1 THEN StopHead(t) ELSE StopOther(t, i) EXCEPT
              !.left[id] = 0]

(* TimerSetValue, which stops the timer, and TimerStart.                   *)
Rearm(t, id, value) == TimerStart(TimerStop(t, id), id, value)

(* TimerIrqHandler: the head's time is over, or shorter by what has passed.*)
(* Then each timer at the front without time left is taken out and called, *)
(* and the new head gets the alarm, unless a callback has set it.          *)
IrqBegin(t) ==
  [t EXCEPT !.list[1].ts = Remaining(t), !.running = FALSE]

HeadDue(t) == t.list # <<>> /\ t.list[1].ts = 0

TakeHead(t) ==
  LET id    == t.list[1].id
      taken == [t EXCEPT !.list = Tail(@), !.running = FALSE, !.left[id] = 0]
  IN  IF Len(t.list) = 1 THEN Emptied(taken) ELSE taken

IrqEnd(t) ==
  IF t.list # <<>> /\ ~t.running
  THEN SetTimeout([t EXCEPT !.running = TRUE])
  ELSE t

(* Time passes.                                                            *)
Overdue(t) == t.list # <<>> /\ (Remaining(t) = 0 \/ ~t.running)

Tick(t) ==
  [t EXCEPT
     !.elapsed = IF t.running THEN @ + 1 ELSE @,
     !.alarm = IF t.running THEN @ - 1 ELSE @,
     !.left = [id \in TimerIds |-> IF id \in Armed(t) THEN @[id] - 1 ELSE 0],
     !.late = IF Overdue(t) THEN @ + 1 ELSE @]

-----------------------------------------------------------------------------
(* The alarm is the expiry of the head.                                    *)
AlarmOfHead(t) ==
  t.list # <<>> => t.running /\ t.elapsed + t.alarm = t.list[1].ts

(* No timer is in the list twice; none expires earlier than the time it    *)
(* was started with, and none later than the list has been waited for.     *)
Kept(t) ==
  /\ \A i, j \in DOMAIN t.list : t.list[i].id = t.list[j].id => i = j
  /\ \A i \in DOMAIN t.list :
       LET drift == Expiry(t, i) - t.left[t.list[i].id]
       IN  drift >= 0 /\ drift <= t.late
=============================================================================
