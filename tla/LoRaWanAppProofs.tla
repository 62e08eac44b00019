-------------------------- MODULE LoRaWanAppProofs --------------------------
(***************************************************************************)
(* The device: its timers are kept right whatever is started, stopped and  *)
(* fired, and however late the loop comes; a sleeping sketch will wake up, *)
(* and the deep sleep comes only when the MAC is at rest.                  *)
(***************************************************************************)
EXTENDS LoRaWanApp, SequenceTheorems, TLAPS

-----------------------------------------------------------------------------
(* The timer list.                                                         *)

Timer == [id : TimerIds, ts : Nat]

TimerLists ==
  [list : Seq(Timer), running : BOOLEAN, elapsed : Nat, alarm : Int,
   left : [TimerIds -> Int], late : Nat]

(* The head that runs has the alarm.                                       *)
Good(t) ==
  /\ t \in TimerLists
  /\ Kept(t)
  /\ t.running => t.list # <<>> /\ t.elapsed + t.alarm = t.list[1].ts

Once(s) == \A i, j \in 1 .. Len(s) : s[i].id = s[j].id => i = j

LEMMA ListElements ==
  ASSUME NEW s \in Seq(Timer)
  PROVE  /\ Len(s) \in Nat /\ DOMAIN s = 1 .. Len(s)
         /\ \A i \in 1 .. Len(s) : /\ s[i] \in Timer
                                   /\ s[i].id \in TimerIds /\ s[i].ts \in Nat
         /\ s = <<>> <=> Len(s) = 0
<1>1. Len(s) \in Nat /\ DOMAIN s = 1 .. Len(s)
  BY LenProperties
<1>2. \A i \in 1 .. Len(s) : s[i] \in Timer
  BY ElementOfSeq
<1>3. s = <<>> <=> Len(s) = 0
  BY EmptySeq
<1> QED
  BY <1>1, <1>2, <1>3 DEF Timer

(* Each of the four timers is in the list at most once.                    *)
LEMMA AtMostFour ==
  ASSUME NEW s \in Seq(Timer), Once(s)
  PROVE  Len(s) \in 0 .. 4
<1> DEFINE n == Len(s)
<1>0. n \in Nat /\ \A i \in 1 .. n : s[i].id \in TimerIds
  BY ListElements
<1>4. \A i, j \in 1 .. n : s[i].id = s[j].id => i = j
  BY DEF Once
<1> SUFFICES n \in 0 .. 4
  BY DEF n
<1> HIDE DEF n
<1> SUFFICES ASSUME n >= 5
             PROVE  FALSE
  BY <1>0
<1>1. 1 \in 1 .. n /\ 2 \in 1 .. n /\ 3 \in 1 .. n /\ 4 \in 1 .. n /\ 5 \in 1 .. n
  BY <1>0
<1> DEFINE a == s[1].id
           b == s[2].id
           c == s[3].id
           d == s[4].id
           e == s[5].id
<1>2. /\ a # b /\ a # c /\ a # d /\ a # e /\ b # c /\ b # d /\ b # e
      /\ c # d /\ c # e /\ d # e
  BY <1>1, <1>4
<1>3. /\ a \in TimerIds /\ b \in TimerIds /\ c \in TimerIds
      /\ d \in TimerIds /\ e \in TimerIds
  BY <1>0, <1>1
<1> HIDE DEF a, b, c, d, e
<1> QED
  BY <1>2, <1>3, TimerAssumption

LEMMA InsertAtElements ==
  ASSUME NEW s \in Seq(Timer), NEW i \in 1 .. Len(s) + 1, NEW e \in Timer
  PROVE  LET r == InsertAt(s, i, e)
         IN  /\ r \in Seq(Timer) /\ Len(r) = Len(s) + 1
             /\ \A j \in 1 .. Len(s) + 1 :
                  r[j] = IF j < i THEN s[j] ELSE IF j = i THEN e ELSE s[j - 1]
<1> DEFINE front == SubSeq(s, 1, i - 1)
           back == SubSeq(s, i, Len(s))
           first == front \o <<e>>
           r == first \o back
<1>1. /\ Len(s) \in Nat /\ i \in Int /\ i - 1 \in Int
      /\ \A j \in 1 .. Len(s) : s[j] \in Timer
  BY ListElements
<1>2. /\ front \in Seq(Timer) /\ Len(front) = i - 1
      /\ \A j \in 1 .. i - 1 : front[j] = s[j]
  <2>1. \A j \in 1 .. i - 1 : s[j] \in Timer
    BY <1>1
  <2> QED
    BY <1>1, <2>1, SubSeqProperties
<1>3. /\ back \in Seq(Timer) /\ Len(back) = Len(s) - i + 1
      /\ \A j \in 1 .. Len(s) - i + 1 : back[j] = s[i + j - 1]
  <2>1. \A j \in i .. Len(s) : s[j] \in Timer
    BY <1>1
  <2> QED
    BY <1>1, <2>1, SubSeqProperties
<1>4. <<e>> \in Seq(Timer) /\ Len(<<e>>) = 1 /\ <<e>>[1] = e
  OBVIOUS
<1> HIDE DEF front, back
<1>5. /\ first \in Seq(Timer) /\ Len(first) = i
      /\ \A j \in 1 .. i : first[j] = IF j <= i - 1 THEN s[j] ELSE e
  BY <1>1, <1>2, <1>4, ConcatProperties
<1> HIDE DEF first
<1>6. /\ r \in Seq(Timer) /\ Len(r) = Len(first) + Len(back)
      /\ \A j \in 1 .. Len(first) + Len(back) :
           r[j] = IF j <= Len(first) THEN first[j] ELSE back[j - Len(first)]
  BY <1>3, <1>5, ConcatProperties
<1> HIDE DEF r
<1>7. Len(first) + Len(back) = Len(s) + 1
  BY <1>1, <1>3, <1>5
<1>8. ASSUME NEW j \in 1 .. Len(s) + 1
      PROVE  r[j] = IF j < i THEN s[j] ELSE IF j = i THEN e ELSE s[j - 1]
  <2>1. r[j] = IF j <= i THEN first[j] ELSE back[j - i]
    BY <1>5, <1>6, <1>7
  <2>2. CASE j <= i
    BY <1>1, <1>5, <2>1, <2>2
  <2>3. CASE j > i
    <3>1. j - i \in 1 .. Len(s) - i + 1 /\ i + (j - i) - 1 = j - 1
      BY <1>1, <2>3
    <3>2. back[j - i] = s[i + (j - i) - 1]
      BY <1>3, <3>1
    <3> QED
      BY <1>1, <2>1, <2>3, <3>1, <3>2
  <2> QED
    BY <1>1, <2>2, <2>3
<1> QED
  BY <1>6, <1>7, <1>8 DEF InsertAt, r, first, front, back

LEMMA RemoveAtElements ==
  ASSUME NEW s \in Seq(Timer), NEW i \in 1 .. Len(s)
  PROVE  LET r == RemoveAt(s, i)
         IN  /\ r \in Seq(Timer) /\ Len(r) = Len(s) - 1
             /\ \A j \in 1 .. Len(s) - 1 :
                  r[j] = IF j < i THEN s[j] ELSE s[j + 1]
<1> DEFINE front == SubSeq(s, 1, i - 1)
           back == SubSeq(s, i + 1, Len(s))
           r == front \o back
<1>1. /\ Len(s) \in Nat /\ i \in Int /\ i - 1 \in Int /\ i + 1 \in Int
      /\ \A j \in 1 .. Len(s) : s[j] \in Timer
  BY ListElements
<1>2. /\ front \in Seq(Timer) /\ Len(front) = i - 1
      /\ \A j \in 1 .. i - 1 : front[j] = s[j]
  <2>1. \A j \in 1 .. i - 1 : s[j] \in Timer
    BY <1>1
  <2> QED
    BY <1>1, <2>1, SubSeqProperties
<1>3. /\ back \in Seq(Timer) /\ Len(back) = Len(s) - i
      /\ \A j \in 1 .. Len(s) - i : back[j] = s[i + j]
  <2>1. \A j \in i + 1 .. Len(s) : s[j] \in Timer
    BY <1>1
  <2> QED
    BY <1>1, <2>1, SubSeqProperties
<1> HIDE DEF front, back
<1>4. /\ r \in Seq(Timer) /\ Len(r) = Len(front) + Len(back)
      /\ \A j \in 1 .. Len(front) + Len(back) :
           r[j] = IF j <= Len(front) THEN front[j] ELSE back[j - Len(front)]
  BY <1>2, <1>3, ConcatProperties
<1> HIDE DEF r
<1>5. Len(front) + Len(back) = Len(s) - 1
  BY <1>1, <1>2, <1>3
<1>6. ASSUME NEW j \in 1 .. Len(s) - 1
      PROVE  r[j] = IF j < i THEN s[j] ELSE s[j + 1]
  <2>1. r[j] = IF j <= i - 1 THEN front[j] ELSE back[j - (i - 1)]
    BY <1>2, <1>4, <1>5
  <2>2. CASE j <= i - 1
    BY <1>1, <1>2, <2>1, <2>2
  <2>3. CASE j > i - 1
    <3>1. /\ j - (i - 1) \in 1 .. Len(s) - i
          /\ i + (j - (i - 1)) = j + 1
      BY <1>1, <2>3
    <3>2. back[j - (i - 1)] = s[i + (j - (i - 1))]
      BY <1>3, <3>1
    <3> QED
      BY <1>1, <2>1, <2>3, <3>1, <3>2
  <2> QED
    BY <1>1, <2>2, <2>3
<1> QED
  BY <1>4, <1>5, <1>6 DEF RemoveAt, r, front, back

(* A new time for one of the timers.                                       *)
LEMMA ExceptElements ==
  ASSUME NEW s \in Seq(Timer), NEW i \in 1 .. Len(s), NEW ts \in Nat,
         NEW r, r = [s EXCEPT ![i].ts = ts]
  PROVE  /\ r \in Seq(Timer) /\ Len(r) = Len(s)
         /\ \A j \in 1 .. Len(s) :
              /\ r[j].id = s[j].id
              /\ r[j].ts = IF j = i THEN ts ELSE s[j].ts
<1> DEFINE e == [s[i] EXCEPT !.ts = ts]
<1>1. s[i] \in Timer /\ \A j \in 1 .. Len(s) : s[j] \in Timer
  BY ListElements
<1>2. e \in Timer /\ e.id = s[i].id /\ e.ts = ts
  BY <1>1 DEF Timer
<1>3. r = [s EXCEPT ![i] = e]
  OBVIOUS
<1> HIDE DEF e
<1>4. /\ r \in Seq(Timer) /\ Len(r) = Len(s)
      /\ \A j \in 1 .. Len(s) : r[j] = IF j = i THEN e ELSE s[j]
  BY <1>2, <1>3, ExceptSeq
<1> QED
  BY <1>2, <1>4

(* What a list of timers says of the times from now.                       *)
LEMMA SumOfEach ==
  ASSUME NEW t, NEW n \in 1 .. 4, Remaining(t) \in Nat,
         \A i \in 1 .. n : t.list[i].ts \in Nat
  PROVE  /\ Expiry(t, 1) = Remaining(t)
         /\ \A i \in 2 .. n : Expiry(t, i) = Expiry(t, i - 1) + t.list[i].ts
         /\ \A i \in 1 .. n : Expiry(t, i) \in Nat
<1> DEFINE s == t.list
           e == Remaining(t)
<1>2. \A i \in 1 .. n : s[i].ts \in Nat
  OBVIOUS
<1>4. e \in Nat
  OBVIOUS
<1>5. Expiry(t, 1) = e
  BY <1>4 DEF Expiry
<1>6. n >= 2 => Expiry(t, 2) = e + s[2].ts
  BY <1>2, <1>4 DEF Expiry
<1>7. n >= 3 => Expiry(t, 3) = e + s[2].ts + s[3].ts
  BY <1>2, <1>4 DEF Expiry
<1>8. n >= 4 => Expiry(t, 4) = e + s[2].ts + s[3].ts + s[4].ts
  BY <1>2, <1>4 DEF Expiry
<1> HIDE DEF e
<1>9. ASSUME NEW i \in 2 .. n
      PROVE  Expiry(t, i) = Expiry(t, i - 1) + s[i].ts
  <2>1. n >= 2 => s[2].ts \in Nat
    BY <1>2
  <2>2. n >= 3 => s[3].ts \in Nat
    BY <1>2
  <2>3. CASE i = 2
    BY <1>4, <1>5, <1>6, <2>3
  <2>4. CASE i = 3
    BY <1>4, <1>6, <1>7, <2>1, <2>4
  <2>5. CASE i = 4
    BY <1>4, <1>7, <1>8, <2>1, <2>2, <2>5
  <2> QED
    BY <2>3, <2>4, <2>5
<1>10. ASSUME NEW i \in 1 .. n
       PROVE  Expiry(t, i) \in Nat
  <2>1. n >= 2 => s[2].ts \in Nat
    BY <1>2
  <2>2. n >= 3 => s[3].ts \in Nat
    BY <1>2
  <2>3. n >= 4 => s[4].ts \in Nat
    BY <1>2
  <2>4. CASE i = 1
    BY <1>4, <1>5, <2>4
  <2>5. CASE i = 2
    BY <1>4, <1>6, <2>1, <2>5
  <2>6. CASE i = 3
    BY <1>4, <1>7, <2>1, <2>2, <2>6
  <2>7. CASE i = 4
    BY <1>4, <1>8, <2>1, <2>2, <2>3, <2>7
  <2> QED
    BY <2>4, <2>5, <2>6, <2>7
<1> QED
  BY <1>5, <1>9, <1>10 DEF e

LEMMA ExpiryOfEach ==
  ASSUME NEW t \in TimerLists, NEW n \in 1 .. 4, n = Len(t.list)
  PROVE  /\ Remaining(t) \in Nat
         /\ Expiry(t, 1) = Remaining(t)
         /\ \A i \in 2 .. n : Expiry(t, i) = Expiry(t, i - 1) + t.list[i].ts
         /\ \A i \in 1 .. n : Expiry(t, i) \in Nat
<1>1. /\ t.list \in Seq(Timer) /\ t.running \in BOOLEAN /\ t.elapsed \in Nat
  BY DEF TimerLists
<1>2. \A i \in 1 .. n : t.list[i].ts \in Nat
  BY <1>1, ListElements
<1>3. t.list[1].ts \in Nat
  BY <1>2
<1>4. Remaining(t) \in Nat
  BY <1>1, <1>3 DEF Remaining, Least
<1> QED
  BY <1>2, <1>4, SumOfEach

(* It says the same, whatever the rest of the record.                      *)
LEMMA SameExpiry ==
  ASSUME NEW t, NEW r, r.list = t.list, r.running = t.running,
         r.elapsed = t.elapsed
  PROVE  /\ Remaining(r) = Remaining(t)
         /\ \A i : Expiry(r, i) = Expiry(t, i)
BY DEF Remaining, Expiry

(* There is no induction over data: the list has four places.              *)
LEMMA InductionToFour ==
  ASSUME NEW S, NEW n \in 0 .. 4, n >= 1 => 1 \in S,
         \A i \in 2 .. n : i - 1 \in S => i \in S
  PROVE  \A i \in 1 .. n : i \in S
<1>1. n >= 2 => 2 \in S
  <2>1. n >= 2 => 2 \in 2 .. n /\ 2 - 1 = 1
    OBVIOUS
  <2> QED
    BY <2>1
<1>2. n >= 3 => 3 \in S
  <2>1. n >= 3 => 3 \in 2 .. n /\ 3 - 1 = 2
    OBVIOUS
  <2> QED
    BY <1>1, <2>1
<1>3. n >= 4 => 4 \in S
  <2>1. n >= 4 => 4 \in 2 .. n /\ 4 - 1 = 3
    OBVIOUS
  <2> QED
    BY <1>2, <2>1
<1> QED
  BY <1>1, <1>2, <1>3

LEMMA MaxOfSome ==
  ASSUME NEW S \in SUBSET (1 .. 4), S # {}
  PROVE  Max(S) \in S /\ \A i \in S : i <= Max(S)
<1>1. \E x \in S : \A y \in S : x >= y
  <2>1. CASE 4 \in S
    BY <2>1
  <2>2. CASE 4 \notin S /\ 3 \in S
    BY <2>2
  <2>3. CASE 4 \notin S /\ 3 \notin S /\ 2 \in S
    BY <2>3
  <2>4. CASE 4 \notin S /\ 3 \notin S /\ 2 \notin S
    <3>1. \A y \in S : y = 1 \/ y = 2 \/ y = 3 \/ y = 4
      OBVIOUS
    <3>2. \A y \in S : y = 1
      BY <2>4, <3>1
    <3>3. 1 >= 1
      OBVIOUS
    <3> QED
      BY <3>2, <3>3
  <2> QED
    BY <2>1, <2>2, <2>3, <2>4
<1> DEFINE x == CHOOSE x \in S : \A y \in S : x >= y
<1>2. x \in S /\ \A y \in S : x >= y
  BY <1>1
<1>3. Max(S) = x
  BY DEF Max
<1> HIDE DEF x
<1>4. x \in Int /\ \A y \in S : y \in Int
  BY <1>2
<1> QED
  BY <1>2, <1>3, <1>4

(* How a timer of the list stands to what is left of its time.             *)
Drifts(t, i) ==
  LET drift == Expiry(t, i) - t.left[t.list[i].id]
  IN  drift >= 0 /\ drift <= t.late

LEMMA GoodLists ==
  ASSUME NEW t, Good(t), t.list # <<>>
  PROVE  \E n \in 1 .. 4 :
           /\ n = Len(t.list) /\ DOMAIN t.list = 1 .. n
           /\ \A i \in 1 .. n : /\ t.list[i] \in Timer
                                /\ t.list[i].id \in TimerIds
                                /\ t.list[i].ts \in Nat
           /\ Once(t.list) /\ \A i \in 1 .. n : Drifts(t, i)
           /\ Remaining(t) \in Nat
           /\ Expiry(t, 1) = Remaining(t)
           /\ \A i \in 2 .. n : Expiry(t, i) = Expiry(t, i - 1) + t.list[i].ts
           /\ \A i \in 1 .. n : Expiry(t, i) \in Nat
<1> DEFINE n == Len(t.list)
<1>1. t \in TimerLists /\ t.list \in Seq(Timer) /\ Kept(t)
  BY DEF Good, TimerLists
<1>2. /\ n \in Nat /\ DOMAIN t.list = 1 .. n /\ n # 0
      /\ \A i \in 1 .. n : /\ t.list[i] \in Timer
                           /\ t.list[i].id \in TimerIds
                           /\ t.list[i].ts \in Nat
  BY <1>1, ListElements
<1>3. Once(t.list) /\ \A i \in 1 .. n : Drifts(t, i)
  BY <1>1, <1>2 DEF Kept, Once, Drifts
<1>4. n \in 0 .. 4
  BY <1>1, <1>3, AtMostFour
<1>5. n = Len(t.list)
  OBVIOUS
<1> HIDE DEF n
<1>6. n \in 1 .. 4
  BY <1>2, <1>4
<1>7. /\ Remaining(t) \in Nat
      /\ Expiry(t, 1) = Remaining(t)
      /\ \A i \in 2 .. n : Expiry(t, i) = Expiry(t, i - 1) + t.list[i].ts
      /\ \A i \in 1 .. n : Expiry(t, i) \in Nat
  BY <1>1, <1>5, <1>6, ExpiryOfEach
<1> QED
  BY <1>2, <1>3, <1>5, <1>6, <1>7

LEMMA GoodByEach ==
  ASSUME NEW t \in TimerLists, NEW n, n = Len(t.list), Once(t.list),
         \A i \in 1 .. n : Drifts(t, i),
         t.running => t.list # <<>> /\ t.elapsed + t.alarm = t.list[1].ts
  PROVE  Good(t)
<1>1. DOMAIN t.list = 1 .. Len(t.list)
  BY ListElements DEF TimerLists
<1> QED
  BY <1>1 DEF Good, Kept, Once, Drifts

LEMMA ConsElements ==
  ASSUME NEW s \in Seq(Timer), NEW e \in Timer
  PROVE  LET r == <<e>> \o s
         IN  /\ r \in Seq(Timer) /\ Len(r) = Len(s) + 1
             /\ \A j \in 1 .. Len(s) + 1 : r[j] = IF j = 1 THEN e ELSE s[j - 1]
<1> DEFINE one == <<e>>
           r == one \o s
<1>1. one \in Seq(Timer) /\ Len(one) = 1 /\ one[1] = e
  OBVIOUS
<1> HIDE DEF one
<1>2. Len(s) \in Nat
  BY ListElements
<1>3. /\ r \in Seq(Timer) /\ Len(r) = Len(one) + Len(s)
      /\ \A j \in 1 .. Len(one) + Len(s) :
           r[j] = IF j <= Len(one) THEN one[j] ELSE s[j - Len(one)]
  BY <1>1, ConcatProperties
<1> HIDE DEF r
<1>4. Len(one) + Len(s) = Len(s) + 1
  BY <1>1, <1>2
<1>5. ASSUME NEW j \in 1 .. Len(s) + 1
      PROVE  r[j] = IF j = 1 THEN e ELSE s[j - 1]
  <2>1. r[j] = IF j <= 1 THEN one[j] ELSE s[j - 1]
    BY <1>1, <1>3, <1>4
  <2>2. CASE j = 1
    BY <1>1, <2>1, <2>2
  <2>3. CASE j # 1
    <3>1. ~(j <= 1)
      BY <1>2, <2>3
    <3> QED
      BY <2>1, <2>3, <3>1
  <2> QED
    BY <2>2, <2>3
<1> QED
  BY <1>3, <1>4, <1>5 DEF r, one

LEMMA DriftsAlike ==
  ASSUME NEW t, NEW r, NEW i, NEW j, Drifts(t, i),
         r.list[j].id = t.list[i].id, Expiry(r, j) = Expiry(t, i),
         r.left = t.left, r.late = t.late
  PROVE  Drifts(r, j)
BY DEF Drifts

(* The time of a timer that is not in the list matters to nothing.         *)
LEMMA LeftOfOther ==
  ASSUME NEW t, Good(t), NEW id \in TimerIds, id \notin Armed(t), NEW left \in Int
  PROVE  LET r == [t EXCEPT !.left[id] = left]
         IN  /\ Good(r) /\ Armed(r) = Armed(t) /\ r.left[id] = left
             /\ r.list = t.list /\ r.running = t.running
             /\ r.elapsed = t.elapsed /\ r.alarm = t.alarm /\ r.late = t.late
             /\ Remaining(r) = Remaining(t)
<1> DEFINE r == [t EXCEPT !.left[id] = left]
<1>1. /\ t \in TimerLists /\ t.list \in Seq(Timer) /\ Kept(t)
      /\ t.left \in [TimerIds -> Int]
  BY DEF Good, TimerLists
<1>2. /\ r \in TimerLists
      /\ r.list = t.list /\ r.running = t.running /\ r.elapsed = t.elapsed
      /\ r.alarm = t.alarm /\ r.late = t.late /\ r.left = [t.left EXCEPT ![id] = left]
  BY <1>1 DEF TimerLists
<1>3. /\ r.left[id] = left /\ \A x \in TimerIds : x # id => r.left[x] = t.left[x]
  BY <1>1, <1>2
<1>4. /\ \A i \in DOMAIN t.list : t.list[i].id \in TimerIds /\ t.list[i].id \in Armed(t)
  BY <1>1, ListElements DEF Armed
<1> HIDE DEF r
<1>5. Remaining(r) = Remaining(t) /\ \A i : Expiry(r, i) = Expiry(t, i)
  BY <1>2, SameExpiry
<1>6. Kept(r)
  <2>1. \A i \in DOMAIN t.list : r.left[t.list[i].id] = t.left[t.list[i].id]
    BY <1>3, <1>4
  <2> QED
    BY <1>1, <1>2, <1>5, <2>1 DEF Kept
<1>7. Good(r) /\ Armed(r) = Armed(t)
  BY <1>2, <1>6 DEF Good, Armed
<1> QED
  BY <1>2, <1>3, <1>5, <1>7 DEF r

(* A timer that expires before all others, or alone.                       *)
LEMMA NewHead ==
  ASSUME NEW t, Good(t), NEW id \in TimerIds, id \notin Armed(t),
         NEW value \in Nat, t.left[id] = value,
         t.list # <<>> => value <= Remaining(t)
  PROVE  LET r == InsertNewHeadTimer(t, [id |-> id, ts |-> value])
         IN  Good(r) /\ r.running /\ Armed(r) = Armed(t) \cup {id}
<1> DEFINE timer == [id |-> id, ts |-> value]
           old == IF t.list = <<>> THEN <<>>
                  ELSE [t.list EXCEPT ![1].ts = Remaining(t) - value]
           s == <<timer>> \o old
           r == InsertNewHeadTimer(t, timer)
<1>1. /\ t \in TimerLists /\ t.list \in Seq(Timer) /\ t.late \in Nat
      /\ t.left \in [TimerIds -> Int]
  BY DEF Good, TimerLists
<1>2. timer \in Timer /\ timer.id = id /\ timer.ts = value
  BY DEF Timer
<1>3. r = [t EXCEPT !.list = s, !.running = TRUE, !.elapsed = 0, !.alarm = s[1].ts]
  BY <1>1 DEF InsertNewHeadTimer, SetTimeout, TimerLists
<1> HIDE DEF timer, r
<1>4. ASSUME s \in Seq(Timer), s[1] = timer
      PROVE  /\ r \in TimerLists /\ r.list = s /\ r.running /\ r.late = t.late
             /\ r.left = t.left
             /\ r.elapsed + r.alarm = r.list[1].ts /\ Remaining(r) = value
  <2> HIDE DEF s
  <2>1. /\ r.list = s /\ r.running = TRUE /\ r.late = t.late /\ r.left = t.left
        /\ r.elapsed = 0 /\ r.alarm = value /\ r.list[1].ts = value
    BY <1>1, <1>2, <1>3, <1>4 DEF TimerLists
  <2>2. r \in TimerLists
    BY <1>1, <1>2, <1>3, <1>4 DEF TimerLists
  <2>3. Remaining(r) = value
    BY <2>1 DEF Remaining, Least
  <2> QED
    BY <2>1, <2>2, <2>3
<1>5. CASE t.list = <<>>
  <2>1. s = <<timer>> /\ s \in Seq(Timer) /\ s[1] = timer /\ Len(s) = 1 /\ s # <<>>
    BY <1>2, <1>5
  <2> HIDE DEF s
  <2>2. /\ r \in TimerLists /\ r.list = s /\ r.running /\ r.late = t.late
        /\ r.left = t.left
        /\ r.elapsed + r.alarm = r.list[1].ts /\ Remaining(r) = value
    BY <1>4, <2>1
  <2>3. Once(r.list) /\ DOMAIN r.list = 1 .. 1 /\ 1 = Len(r.list) /\ r.list # <<>>
        /\ r.list[1].id = id
    BY <1>2, <2>1, <2>2 DEF Once
  <2>4. 1 \in 1 .. 4 /\ Expiry(r, 1) = value
    BY <2>2, <2>3, ExpiryOfEach
  <2>5. Drifts(r, 1)
    BY <1>1, <2>2, <2>3, <2>4 DEF Drifts
  <2>6. Good(r)
    BY <2>2, <2>3, <2>5, GoodByEach
  <2>7. Armed(r) = {id}
    BY <2>3 DEF Armed
  <2>8. Armed(t) = {}
    BY <1>5 DEF Armed
  <2> QED
    BY <2>2, <2>6, <2>7, <2>8 DEF r, timer
<1>6. CASE t.list # <<>>
  <2>1. PICK n \in 1 .. 4 :
           /\ n = Len(t.list) /\ DOMAIN t.list = 1 .. n
           /\ \A i \in 1 .. n : /\ t.list[i] \in Timer
                                /\ t.list[i].id \in TimerIds
                                /\ t.list[i].ts \in Nat
           /\ Once(t.list) /\ \A i \in 1 .. n : Drifts(t, i)
           /\ Remaining(t) \in Nat
           /\ Expiry(t, 1) = Remaining(t)
           /\ \A i \in 2 .. n : Expiry(t, i) = Expiry(t, i - 1) + t.list[i].ts
           /\ \A i \in 1 .. n : Expiry(t, i) \in Nat
    BY <1>6, GoodLists
  <2> DEFINE rest == Remaining(t) - value
             m == n + 1
  <2>2. rest \in Nat /\ m \in Nat
    BY <1>6, <2>1
  <2>3. /\ old \in Seq(Timer) /\ Len(old) = n
        /\ \A j \in 1 .. n : /\ old[j].id = t.list[j].id
                             /\ old[j].ts = IF j = 1 THEN rest ELSE t.list[j].ts
    <3>1. old = [t.list EXCEPT ![1].ts = rest]
      BY <1>6
    <3> HIDE DEF old, rest
    <3>2. 1 \in 1 .. n
      OBVIOUS
    <3>3. 1 \in 1 .. Len(t.list)
      BY <2>1, <3>2
    <3>4. /\ old \in Seq(Timer) /\ Len(old) = Len(t.list)
          /\ \A j \in 1 .. Len(t.list) :
               /\ old[j].id = t.list[j].id
               /\ old[j].ts = IF j = 1 THEN rest ELSE t.list[j].ts
      BY <1>1, <2>2, <3>1, <3>3, ExceptElements
    <3> QED
      BY <2>1, <3>4
  <2> HIDE DEF old
  <2>4. /\ s \in Seq(Timer) /\ Len(s) = m
        /\ \A j \in 1 .. m : s[j] = IF j = 1 THEN timer ELSE old[j - 1]
    BY <1>2, <2>3, ConsElements
  <2> HIDE DEF s, rest
  <2>5. s[1] = timer
    BY <2>4
  <2>6. /\ r \in TimerLists /\ r.list = s /\ r.running /\ r.late = t.late
        /\ r.left = t.left
        /\ r.elapsed + r.alarm = r.list[1].ts /\ Remaining(r) = value
    BY <1>4, <2>4, <2>5
  <2>7. /\ s[1].id = id
        /\ \A i \in 1 .. n : /\ i + 1 \in 1 .. m /\ s[i + 1].id = t.list[i].id
                             /\ s[i + 1].ts = IF i = 1 THEN rest ELSE t.list[i].ts
    <3>1. \A i \in 1 .. n : i + 1 \in 1 .. m /\ i + 1 # 1 /\ (i + 1) - 1 = i
      OBVIOUS
    <3> QED
      BY <1>2, <2>3, <2>4, <3>1
  <2> HIDE DEF m
  <2>8. Armed(r) = Armed(t) \cup {id}
    <3>1. DOMAIN s = 1 .. m
      BY <2>4, ListElements
    <3>2. Armed(r) = {s[i].id : i \in 1 .. m}
      BY <2>6, <3>1 DEF Armed
    <3>3. Armed(t) = {t.list[i].id : i \in 1 .. n}
      BY <2>1 DEF Armed
    <3>4. \A i \in 1 .. m : i = 1 \/ (i - 1 \in 1 .. n /\ (i - 1) + 1 = i)
      BY DEF m
    <3>5. \A i \in 1 .. m : s[i].id \in Armed(t) \cup {id}
      BY <2>7, <3>3, <3>4
    <3>6. 1 \in 1 .. m
      BY DEF m
    <3> QED
      BY <2>7, <3>2, <3>3, <3>5, <3>6
  <2>9. Once(s)
    <3>1. \A i \in 1 .. n : t.list[i].id # id
      BY <2>1 DEF Armed
    <3>2. \A i \in 1 .. m : i = 1 \/ (i - 1 \in 1 .. n /\ (i - 1) + 1 = i)
      BY DEF m
    <3>3. \A i, j \in 1 .. n : t.list[i].id = t.list[j].id => i = j
      BY <2>1 DEF Once
    <3>4. ASSUME NEW i \in 1 .. m, NEW j \in 1 .. m, s[i].id = s[j].id
          PROVE  i = j
      <4>0. ASSUME NEW k \in 1 .. m, k # 1
            PROVE  s[k].id # id
        <5>1. k - 1 \in 1 .. n /\ (k - 1) + 1 = k
          BY <3>2, <4>0
        <5>2. s[k].id = t.list[k - 1].id
          BY <2>7, <5>1
        <5> QED
          BY <3>1, <5>1, <5>2
      <4>1. CASE i = 1
        BY <2>7, <3>4, <4>0, <4>1
      <4>2. CASE j = 1
        BY <2>7, <3>4, <4>0, <4>2
      <4>3. CASE i # 1 /\ j # 1
        <5>1. /\ i - 1 \in 1 .. n /\ j - 1 \in 1 .. n
              /\ (i - 1) + 1 = i /\ (j - 1) + 1 = j
          BY <3>2, <4>3
        <5>2. t.list[i - 1].id = t.list[j - 1].id
          BY <2>7, <3>4, <5>1
        <5>3. i - 1 = j - 1
          BY <3>3, <5>1, <5>2
        <5> QED
          BY <5>1, <5>3
      <4> QED
        BY <4>1, <4>2, <4>3
    <3> QED
      BY <2>4, <3>4 DEF Once
  <2>10. m \in 1 .. 4
    <3>1. Len(s) \in 0 .. 4
      BY <2>4, <2>9, AtMostFour
    <3>2. m \in 0 .. 4
      BY <2>4, <3>1
    <3> QED
      BY <3>2 DEF m
  <2>11. /\ Expiry(r, 1) = value
         /\ \A i \in 2 .. m : Expiry(r, i) = Expiry(r, i - 1) + s[i].ts
    <3>1. m = Len(r.list)
      BY <2>4, <2>6
    <3>2. \A i \in 2 .. m : Expiry(r, i) = Expiry(r, i - 1) + r.list[i].ts
      BY <2>6, <2>10, <3>1, ExpiryOfEach
    <3>3. Expiry(r, 1) = Remaining(r)
      BY <2>6, <2>10, <3>1, ExpiryOfEach
    <3> QED
      BY <2>6, <3>2, <3>3
  <2>12. \A i \in 1 .. n : Expiry(r, i + 1) = Expiry(t, i)
    <3> DEFINE S == {i \in 1 .. n : Expiry(r, i + 1) = Expiry(t, i)}
    <3>1. 1 \in S
      <4>1. 1 \in 1 .. n /\ 2 \in 2 .. m /\ 2 - 1 = 1 /\ 1 + 1 = 2
        BY DEF m
      <4>2. s[2].ts = rest
        BY <2>7, <4>1
      <4>3. Expiry(r, 2) = value + rest
        BY <2>11, <4>1, <4>2
      <4>4. value + rest = Remaining(t)
        BY <2>1 DEF rest
      <4> QED
        BY <2>1, <4>1, <4>3, <4>4
    <3>2. ASSUME NEW i \in 2 .. n, i - 1 \in S
          PROVE  i \in S
      <4>1. /\ i \in 1 .. n /\ i + 1 \in 2 .. m /\ (i + 1) - 1 = i /\ (i - 1) + 1 = i
            /\ i # 1
        BY DEF m
      <4>2. Expiry(r, i) = Expiry(t, i - 1)
        BY <3>2, <4>1
      <4>3. s[i + 1].ts = t.list[i].ts
        BY <2>7, <4>1
      <4>4. Expiry(r, i + 1) = Expiry(r, i) + s[i + 1].ts
        BY <2>11, <4>1
      <4> QED
        BY <2>1, <4>1, <4>2, <4>3, <4>4
    <3> HIDE DEF S
    <3>3. \A i \in 1 .. n : i \in S
      BY <3>1, <3>2, InductionToFour
    <3> QED
      BY <3>3 DEF S
  <2>13. ASSUME NEW j \in 1 .. m
         PROVE  Drifts(r, j)
    <3>1. CASE j = 1
      BY <1>1, <2>6, <2>7, <2>11, <3>1 DEF Drifts
    <3>2. CASE j # 1
      <4>1. j - 1 \in 1 .. n /\ (j - 1) + 1 = j
        BY <3>2 DEF m
      <4>2. Drifts(t, j - 1) /\ s[j].id = t.list[j - 1].id
            /\ Expiry(r, j) = Expiry(t, j - 1)
        BY <2>1, <2>7, <2>12, <4>1
      <4> QED
        BY <2>6, <4>2, DriftsAlike
    <3> QED
      BY <3>1, <3>2
  <2>14. s # <<>>
    BY <2>4, <2>10, ListElements
  <2>15. Good(r)
    BY <2>4, <2>6, <2>9, <2>13, <2>14, GoodByEach
  <2> QED
    BY <2>6, <2>8, <2>15 DEF r, timer
<1> QED
  BY <1>5, <1>6

(* A timer that expires no earlier than the head.                          *)
LEMMA BehindHead ==
  ASSUME NEW t, Good(t), t.list # <<>>, NEW id \in TimerIds, id \notin Armed(t),
         NEW value \in Nat, t.left[id] = value, Remaining(t) <= value
  PROVE  LET r == InsertTimer(t, [id |-> id, ts |-> value])
         IN  /\ Good(r) /\ r.running = t.running
             /\ Armed(r) = Armed(t) \cup {id}
<1> DEFINE timer == [id |-> id, ts |-> value]
           r == InsertTimer(t, timer)
           k == Max({i \in DOMAIN t.list : Expiry(t, i) <= value})
           d == value - Expiry(t, k)
           after == IF k = Len(t.list) THEN t.list
                    ELSE [t.list EXCEPT ![k + 1].ts = @ - d]
           e == [timer EXCEPT !.ts = d]
           s == InsertAt(after, k + 1, e)
<1>1. /\ t \in TimerLists /\ t.list \in Seq(Timer) /\ t.late \in Nat
      /\ t.left \in [TimerIds -> Int]
      /\ t.running => t.elapsed + t.alarm = t.list[1].ts
  BY DEF Good, TimerLists
<1>2. PICK n \in 1 .. 4 :
         /\ n = Len(t.list) /\ DOMAIN t.list = 1 .. n
         /\ \A i \in 1 .. n : /\ t.list[i] \in Timer
                              /\ t.list[i].id \in TimerIds
                              /\ t.list[i].ts \in Nat
         /\ Once(t.list) /\ \A i \in 1 .. n : Drifts(t, i)
         /\ Remaining(t) \in Nat
         /\ Expiry(t, 1) = Remaining(t)
         /\ \A i \in 2 .. n : Expiry(t, i) = Expiry(t, i - 1) + t.list[i].ts
         /\ \A i \in 1 .. n : Expiry(t, i) \in Nat
  BY GoodLists
<1>3. r = [t EXCEPT !.list = s]
  BY DEF InsertTimer
<1> HIDE DEF r
<1>4. /\ k \in 1 .. n /\ Expiry(t, k) <= value
      /\ \A i \in 1 .. n : Expiry(t, i) <= value => i <= k
  <2> DEFINE K == {i \in DOMAIN t.list : Expiry(t, i) <= value}
  <2>1. 1 \in 1 .. n
    OBVIOUS
  <2>2. 1 \in K
    BY <1>2, <2>1
  <2>3. \A i \in 1 .. n : i \in 1 .. 4
    OBVIOUS
  <2>4. K \in SUBSET (1 .. 4)
    BY <1>2, <2>3
  <2>5. \A i \in K : i \in 1 .. n /\ Expiry(t, i) <= value
    BY <1>2
  <2>6. \A i \in 1 .. n : Expiry(t, i) <= value => i \in K
    BY <1>2
  <2>7. k = Max(K)
    OBVIOUS
  <2> HIDE DEF K, k
  <2> QED
    BY <2>2, <2>4, <2>5, <2>6, <2>7, MaxOfSome
<1>5. d \in Nat /\ Expiry(t, k) + d = value
  BY <1>2, <1>4
<1>6. e \in Timer /\ e.id = id /\ e.ts = d
  BY <1>5 DEF Timer
<1>7. k < n => Expiry(t, k + 1) > value
  <2> SUFFICES ASSUME k < n, Expiry(t, k + 1) <= value
               PROVE  FALSE
    <3> HIDE DEF k
    <3>1. k < n => Expiry(t, k + 1) \in Int
      BY <1>2, <1>4
    <3> QED
      BY <3>1
  <2> HIDE DEF k
  <2>1. k + 1 \in 1 .. n /\ ~(k + 1 <= k)
    BY <1>4
  <2> QED
    BY <1>4, <2>1
<1>8. k < n => t.list[k + 1].ts - d \in Nat
  <2> SUFFICES ASSUME k < n
               PROVE  t.list[k + 1].ts - d \in Nat
    OBVIOUS
  <2> HIDE DEF k
  <2>1. k + 1 \in 2 .. n /\ (k + 1) - 1 = k /\ k + 1 \in 1 .. n
    BY <1>4
  <2>2. Expiry(t, k + 1) = Expiry(t, k) + t.list[k + 1].ts
    BY <1>2, <2>1
  <2>3. t.list[k + 1].ts \in Nat /\ Expiry(t, k) \in Nat
    BY <1>2, <1>4, <2>1
  <2> QED
    BY <1>7, <2>2, <2>3
<1> HIDE DEF k, d, e, timer
<1>9. /\ after \in Seq(Timer) /\ Len(after) = n
      /\ \A i \in 1 .. n :
           /\ after[i].id = t.list[i].id
           /\ after[i].ts = IF i = k + 1 THEN t.list[i].ts - d ELSE t.list[i].ts
  <2>1. CASE k = n
    <3>1. after = t.list
      BY <1>2, <2>1
    <3>2. \A i \in 1 .. n : i # k + 1
      BY <2>1
    <3> QED
      BY <1>1, <1>2, <3>1, <3>2
  <2>2. CASE k < n
    <3> DEFINE new == t.list[k + 1].ts - d
    <3>1. k # Len(t.list) /\ k + 1 \in 1 .. n
      BY <1>2, <1>4, <2>2
    <3>2. after = [t.list EXCEPT ![k + 1].ts = new]
      BY <3>1
    <3>3. new \in Nat /\ k + 1 \in 1 .. Len(t.list)
      BY <1>2, <1>8, <2>2, <3>1
    <3> HIDE DEF after, new
    <3>4. /\ after \in Seq(Timer) /\ Len(after) = Len(t.list)
          /\ \A j \in 1 .. Len(t.list) :
               /\ after[j].id = t.list[j].id
               /\ after[j].ts = IF j = k + 1 THEN new ELSE t.list[j].ts
      BY <1>1, <3>2, <3>3, ExceptElements
    <3> QED
      BY <1>2, <3>4 DEF new
  <2> QED
    BY <1>4, <2>1, <2>2
<1> HIDE DEF after
<1> DEFINE m == n + 1
<1>10. /\ s \in Seq(Timer) /\ Len(s) = m
       /\ \A j \in 1 .. m : s[j] = IF j < k + 1 THEN after[j]
                                   ELSE IF j = k + 1 THEN e ELSE after[j - 1]
  <2>1. k + 1 \in 1 .. n + 1
    BY <1>4
  <2>2. k + 1 \in 1 .. Len(after) + 1
    BY <1>9, <2>1
  <2>3. /\ s \in Seq(Timer) /\ Len(s) = Len(after) + 1
        /\ \A j \in 1 .. Len(after) + 1 :
             s[j] = IF j < k + 1 THEN after[j]
                    ELSE IF j = k + 1 THEN e ELSE after[j - 1]
    BY <1>6, <1>9, <2>2, InsertAtElements
  <2> QED
    BY <1>9, <2>3
<1> HIDE DEF s
<1>11. \A i \in 1 .. k : /\ i \in 1 .. m /\ i \in 1 .. n
                         /\ s[i].id = t.list[i].id /\ s[i].ts = t.list[i].ts
  <2>1. \A i \in 1 .. k : i \in 1 .. m /\ i \in 1 .. n /\ i < k + 1 /\ i # k + 1
    BY <1>4
  <2> QED
    BY <1>9, <1>10, <2>1
<1>12. k + 1 \in 1 .. m /\ s[k + 1].id = id /\ s[k + 1].ts = d
  <2>1. k + 1 \in 1 .. m /\ ~(k + 1 < k + 1)
    BY <1>4
  <2> QED
    BY <1>6, <1>10, <2>1
<1>13. \A i \in k + 1 .. n :
         /\ i + 1 \in 1 .. m /\ i \in 1 .. n
         /\ s[i + 1].id = t.list[i].id
         /\ s[i + 1].ts = IF i = k + 1 THEN t.list[i].ts - d ELSE t.list[i].ts
  <2>1. \A i \in k + 1 .. n : /\ i + 1 \in 1 .. m /\ i \in 1 .. n
                              /\ ~(i + 1 < k + 1) /\ i + 1 # k + 1
                              /\ (i + 1) - 1 = i
    BY <1>4
  <2> QED
    BY <1>9, <1>10, <2>1
<1>14. \A j \in 1 .. m : \/ j \in 1 .. k
                         \/ j = k + 1
                         \/ j - 1 \in k + 1 .. n /\ (j - 1) + 1 = j
  BY <1>4
<1>15. \A i \in 1 .. n : i \in 1 .. k \/ i \in k + 1 .. n
  BY <1>4
<1> HIDE DEF m
<1>16. \A i \in 1 .. n : t.list[i].id # id
  BY <1>2 DEF Armed
<1>17. \A j \in 1 .. m : j # k + 1 =>
         \E i \in 1 .. n : /\ s[j].id = t.list[i].id
                           /\ j = IF i <= k THEN i ELSE i + 1
  <2> TAKE j \in 1 .. m
  <2> HAVE j # k + 1
  <2>1. CASE j \in 1 .. k
    BY <1>11, <2>1
  <2>2. CASE j - 1 \in k + 1 .. n /\ (j - 1) + 1 = j
    <3>1. ~(j - 1 <= k)
      BY <1>4, <2>2
    <3> QED
      BY <1>13, <2>2, <3>1
  <2> QED
    BY <1>14, <2>1, <2>2
<1>18. Once(s)
  <2>1. ASSUME NEW a \in 1 .. m, NEW b \in 1 .. m, s[a].id = s[b].id
        PROVE  a = b
    <3>1. ASSUME NEW c \in 1 .. m, c # k + 1
          PROVE  s[c].id # id
      BY <1>16, <1>17, <3>1
    <3>2. CASE a = k + 1
      BY <1>12, <2>1, <3>1, <3>2
    <3>3. CASE b = k + 1
      BY <1>12, <2>1, <3>1, <3>3
    <3>4. CASE a # k + 1 /\ b # k + 1
      <4>1. PICK i \in 1 .. n : /\ s[a].id = t.list[i].id
                                /\ a = IF i <= k THEN i ELSE i + 1
        BY <1>17, <3>4
      <4>2. PICK j \in 1 .. n : /\ s[b].id = t.list[j].id
                                /\ b = IF j <= k THEN j ELSE j + 1
        BY <1>17, <3>4
      <4>3. i = j
        BY <1>2, <2>1, <4>1, <4>2 DEF Once
      <4> QED
        BY <4>1, <4>2, <4>3
    <3> QED
      BY <3>2, <3>3, <3>4
  <2> QED
    BY <1>10, <2>1 DEF Once
<1>19. m \in 1 .. 4
  <2>1. Len(s) \in 0 .. 4
    BY <1>10, <1>18, AtMostFour
  <2>2. m \in 0 .. 4
    BY <1>10, <2>1
  <2> QED
    BY <2>2 DEF m
<1>20. 1 \in 1 .. k
  BY <1>4
<1>21. /\ r \in TimerLists /\ r.list = s /\ r.running = t.running
       /\ r.elapsed = t.elapsed /\ r.alarm = t.alarm /\ r.late = t.late
       /\ r.left = t.left
  BY <1>1, <1>3, <1>10 DEF TimerLists
<1>22. Remaining(r) = Remaining(t)
  BY <1>11, <1>20, <1>21 DEF Remaining
<1>23. m = Len(r.list)
  BY <1>10, <1>21
<1>24. /\ Expiry(r, 1) = Expiry(t, 1)
       /\ \A i \in 2 .. m : Expiry(r, i) = Expiry(r, i - 1) + s[i].ts
  <2>1. \A i \in 2 .. m : Expiry(r, i) = Expiry(r, i - 1) + r.list[i].ts
    BY <1>19, <1>21, <1>23, ExpiryOfEach
  <2>2. Expiry(r, 1) = Remaining(r)
    BY <1>19, <1>21, <1>23, ExpiryOfEach
  <2> QED
    BY <1>2, <1>21, <1>22, <2>1, <2>2
<1>25. \A i \in 1 .. k : Expiry(r, i) = Expiry(t, i)
  <2> DEFINE S == {i \in 1 .. k : Expiry(r, i) = Expiry(t, i)}
  <2>1. 1 \in S
    BY <1>20, <1>24
  <2>2. ASSUME NEW i \in 2 .. k, i - 1 \in S
        PROVE  i \in S
    <3>1. i \in 1 .. k /\ i \in 2 .. n /\ i \in 2 .. m
      BY <1>4 DEF m
    <3> QED
      BY <1>2, <1>11, <1>24, <2>2, <3>1
  <2>3. k \in 0 .. 4
    BY <1>4
  <2> HIDE DEF S
  <2>4. \A i \in 1 .. k : i \in S
    BY <2>1, <2>2, <2>3, InductionToFour
  <2> QED
    BY <2>4 DEF S
<1>26. Expiry(r, k + 1) = value
  <2>1. k + 1 \in 2 .. m /\ (k + 1) - 1 = k /\ k \in 1 .. k
    BY <1>4 DEF m
  <2>2. Expiry(r, k + 1) = Expiry(r, k) + s[k + 1].ts
    BY <1>24, <2>1
  <2>3. Expiry(r, k) = Expiry(t, k)
    BY <1>25, <2>1
  <2> QED
    BY <1>5, <1>12, <2>2, <2>3
<1>27. \A i \in k + 1 .. n : Expiry(r, i + 1) = Expiry(t, i)
  <2> DEFINE S == {i \in 1 .. n : i > k => Expiry(r, i + 1) = Expiry(t, i)}
  <2>1. 1 \in S
    BY <1>4
  <2>2. ASSUME NEW i \in 2 .. n, i - 1 \in S
        PROVE  i \in S
    <3>1. CASE i <= k
      BY <1>4, <3>1
    <3>2. CASE i > k
      <4>1. /\ i \in k + 1 .. n /\ i \in 1 .. n /\ i - 1 \in 1 .. n
            /\ i + 1 \in 2 .. m /\ (i + 1) - 1 = i /\ (i - 1) + 1 = i
        BY <1>4, <3>2 DEF m
      <4>2. Expiry(r, i + 1) = Expiry(r, i) + s[i + 1].ts
        BY <1>24, <4>1
      <4>3. Expiry(t, i) = Expiry(t, i - 1) + t.list[i].ts
        BY <1>2
      <4>4. /\ Expiry(t, i - 1) \in Nat /\ t.list[i].ts \in Nat
        BY <1>2, <4>1
      <4>5. CASE i = k + 1
        <5>1. s[i + 1].ts = t.list[i].ts - d
          BY <1>13, <4>1, <4>5
        <5>2. i - 1 = k
          BY <1>4, <4>5
        <5>3. Expiry(r, i) = value /\ Expiry(t, i - 1) + d = value
          BY <1>5, <1>26, <4>5, <5>2
        <5>4. Expiry(r, i + 1) = Expiry(t, i)
          BY <1>5, <4>2, <4>3, <4>4, <5>1, <5>3
        <5> QED
          BY <4>1, <5>4
      <4>6. CASE i # k + 1
        <5>1. s[i + 1].ts = t.list[i].ts
          BY <1>13, <4>1, <4>6
        <5>2. i - 1 > k
          BY <1>4, <3>2, <4>6
        <5>3. Expiry(r, i) = Expiry(t, i - 1)
          BY <2>2, <4>1, <5>2
        <5>4. Expiry(r, i + 1) = Expiry(t, i)
          BY <4>2, <4>3, <5>1, <5>3
        <5> QED
          BY <4>1, <5>4
      <4> QED
        BY <4>5, <4>6
    <3> QED
      BY <1>4, <3>1, <3>2
  <2>3. n \in 0 .. 4
    OBVIOUS
  <2> HIDE DEF S
  <2>4. \A i \in 1 .. n : i \in S
    BY <2>1, <2>2, <2>3, InductionToFour
  <2>5. \A i \in k + 1 .. n : i \in 1 .. n /\ i > k
    BY <1>4
  <2> QED
    BY <2>4, <2>5 DEF S
<1>28. ASSUME NEW j \in 1 .. m
       PROVE  Drifts(r, j)
  <2>1. CASE j \in 1 .. k
    <3>1. Drifts(t, j) /\ s[j].id = t.list[j].id /\ Expiry(r, j) = Expiry(t, j)
      BY <1>2, <1>11, <1>25, <2>1
    <3> QED
      BY <1>21, <3>1, DriftsAlike
  <2>2. CASE j = k + 1
    BY <1>1, <1>12, <1>21, <1>26, <2>2 DEF Drifts
  <2>3. CASE j - 1 \in k + 1 .. n /\ (j - 1) + 1 = j
    <3>1. /\ Drifts(t, j - 1) /\ s[j].id = t.list[j - 1].id
          /\ Expiry(r, j) = Expiry(t, j - 1)
      BY <1>2, <1>13, <1>27, <2>3
    <3> QED
      BY <1>21, <3>1, DriftsAlike
  <2> QED
    BY <1>14, <2>1, <2>2, <2>3
<1>29. s # <<>>
  BY <1>10, <1>19, ListElements
<1>30. r.running => r.elapsed + r.alarm = r.list[1].ts
  BY <1>1, <1>11, <1>20, <1>21
<1>31. Good(r)
  BY <1>10, <1>18, <1>21, <1>23, <1>28, <1>29, <1>30, GoodByEach
<1>32. Armed(r) = Armed(t) \cup {id}
  <2>1. DOMAIN s = 1 .. m
    BY <1>10, ListElements
  <2>2. Armed(r) = {s[i].id : i \in 1 .. m}
    BY <1>21, <2>1 DEF Armed
  <2>3. Armed(t) = {t.list[i].id : i \in 1 .. n}
    BY <1>2 DEF Armed
  <2>4. \A i \in 1 .. m : s[i].id \in Armed(t) \cup {id}
    BY <1>12, <1>17, <2>3
  <2>5. \A i \in 1 .. n : \E j \in 1 .. m : s[j].id = t.list[i].id
    BY <1>11, <1>13, <1>15
  <2>6. \E j \in 1 .. m : s[j].id = id
    BY <1>12
  <2>7. \A x \in Armed(t) \cup {id} : x \in Armed(r)
    BY <2>2, <2>3, <2>5, <2>6
  <2> QED
    BY <2>2, <2>4, <2>7
<1> QED
  BY <1>21, <1>31, <1>32 DEF r, timer

Ticking(t) == t.list # <<>> => t.running

LEMMA TimerStarts ==
  ASSUME NEW t, Good(t), NEW id \in TimerIds, NEW value \in Nat
  PROVE  LET r == TimerStart(t, id, value)
         IN  /\ Good(r) /\ Armed(r) = Armed(t) \cup {id}
             /\ Ticking(t) => Ticking(r)
<1> DEFINE timer == [id |-> id, ts |-> value]
           started == [t EXCEPT !.left[id] = value]
           r == TimerStart(t, id, value)
<1>1. CASE id \in Armed(t)
  <2>1. r = t
    BY <1>1 DEF TimerStart
  <2> QED
    BY <1>1, <2>1
<1>2. CASE id \notin Armed(t)
  <2>1. /\ Good(started) /\ Armed(started) = Armed(t) /\ started.left[id] = value
        /\ started.list = t.list /\ started.running = t.running
        /\ Remaining(started) = Remaining(t)
    BY <1>2, LeftOfOther
  <2>2. r = IF t.list = <<>> \/ value < Remaining(t)
            THEN InsertNewHeadTimer(started, timer)
            ELSE InsertTimer(started, timer)
    BY <1>2 DEF TimerStart
  <2>3. t.list # <<>> => Remaining(t) \in Nat
    BY GoodLists
  <2> HIDE DEF started, r
  <2>4. CASE t.list = <<>> \/ value < Remaining(t)
    <3>1. started.list # <<>> => value <= Remaining(started)
      BY <2>1, <2>3, <2>4
    <3>2. r = InsertNewHeadTimer(started, timer)
      BY <2>2, <2>4
    <3>3. Good(r) /\ r.running /\ Armed(r) = Armed(started) \cup {id}
      BY <1>2, <2>1, <3>1, <3>2, NewHead
    <3> QED
      BY <2>1, <3>3 DEF Ticking, r
  <2>5. CASE t.list # <<>> /\ ~(value < Remaining(t))
    <3>1. started.list # <<>> /\ Remaining(started) <= value
      BY <2>1, <2>3, <2>5
    <3>2. r = InsertTimer(started, timer)
      BY <2>2, <2>5
    <3>3. Good(r) /\ r.running = started.running /\ Armed(r) = Armed(started) \cup {id}
      BY <1>2, <2>1, <3>1, <3>2, BehindHead
    <3> QED
      BY <2>1, <2>5, <3>3 DEF Ticking, r
  <2> QED
    BY <2>4, <2>5
<1> QED
  BY <1>1, <1>2

(* One timer less.                                                         *)
OneOut(t, r, n, i) ==
  /\ t.list # <<>> /\ n = Len(t.list) /\ Len(r.list) = n - 1
  /\ \A j \in 1 .. n - 1 :
       /\ r.list[j].id = t.list[IF j < i THEN j ELSE j + 1].id
       /\ Expiry(r, j) = Expiry(t, IF j < i THEN j ELSE j + 1)
  /\ r.left = t.left /\ r.late = t.late
  /\ r.running => r.list # <<>> /\ r.elapsed + r.alarm = r.list[1].ts

LEMMA Without ==
  ASSUME NEW t, Good(t), NEW n \in 1 .. 4, NEW i \in 1 .. n, NEW r \in TimerLists,
         OneOut(t, r, n, i)
  PROVE  Good(r) /\ Armed(r) = Armed(t) \ {t.list[i].id}
<1> DEFINE at(j) == IF j < i THEN j ELSE j + 1
           m == n - 1
<1>1. /\ DOMAIN t.list = 1 .. n /\ Once(t.list) /\ \A j \in 1 .. n : Drifts(t, j)
  BY GoodLists DEF OneOut
<1>2. \A j \in 1 .. m : at(j) \in 1 .. n /\ at(j) # i
  OBVIOUS
<1>3. \A j, k \in 1 .. m : at(j) = at(k) => j = k
  OBVIOUS
<1>4. ASSUME NEW x \in 1 .. n, x # i
      PROVE  \E j \in 1 .. m : at(j) = x
  <2>1. CASE x < i
    <3>1. x \in 1 .. m /\ at(x) = x
      BY <2>1
    <3> QED
      BY <3>1
  <2>2. CASE x > i
    <3>1. x - 1 \in 1 .. m /\ at(x - 1) = x
      BY <2>2
    <3> QED
      BY <3>1
  <2> QED
    BY <1>4, <2>1, <2>2
<1>5. /\ m = Len(r.list)
      /\ \A j \in 1 .. m : /\ r.list[j].id = t.list[at(j)].id
                           /\ Expiry(r, j) = Expiry(t, at(j))
      /\ r.left = t.left /\ r.late = t.late
      /\ r.running => r.list # <<>> /\ r.elapsed + r.alarm = r.list[1].ts
  BY DEF OneOut
<1>6. DOMAIN r.list = 1 .. m
  BY <1>5, ListElements DEF TimerLists
<1>7. \A j, k \in 1 .. n : t.list[j].id = t.list[k].id => j = k
  BY <1>1 DEF Once
<1> HIDE DEF at, m
<1>8. Once(r.list)
  <2>1. ASSUME NEW j \in 1 .. m, NEW k \in 1 .. m, r.list[j].id = r.list[k].id
        PROVE  j = k
    <3>1. t.list[at(j)].id = t.list[at(k)].id
      BY <1>5, <2>1
    <3>2. at(j) = at(k)
      BY <1>2, <1>7, <3>1
    <3> QED
      BY <1>3, <3>2
  <2> QED
    BY <1>5, <2>1 DEF Once
<1>9. \A j \in 1 .. m : Drifts(r, j)
  BY <1>1, <1>2, <1>5, DriftsAlike
<1>10. Good(r)
  BY <1>5, <1>8, <1>9, GoodByEach
<1>11. Armed(r) = Armed(t) \ {t.list[i].id}
  <2>1. Armed(r) = {r.list[j].id : j \in 1 .. m}
    BY <1>6 DEF Armed
  <2>2. Armed(t) = {t.list[j].id : j \in 1 .. n}
    BY <1>1 DEF Armed
  <2>3. ASSUME NEW j \in 1 .. m
        PROVE  r.list[j].id \in Armed(t) /\ r.list[j].id # t.list[i].id
    <3>1. r.list[j].id = t.list[at(j)].id /\ at(j) \in 1 .. n /\ at(j) # i
      BY <1>2, <1>5
    <3>2. t.list[at(j)].id # t.list[i].id
      BY <1>7, <3>1
    <3> QED
      BY <2>2, <3>1, <3>2
  <2>4. ASSUME NEW x \in 1 .. n, t.list[x].id # t.list[i].id
        PROVE  t.list[x].id \in Armed(r)
    <3>1. x # i
      BY <2>4
    <3>2. PICK j \in 1 .. m : at(j) = x
      BY <1>4, <3>1
    <3>3. r.list[j].id = t.list[x].id
      BY <1>5, <3>2
    <3> QED
      BY <2>1, <3>3
  <2>5. \A x \in Armed(r) : x \in Armed(t) /\ x # t.list[i].id
    BY <2>1, <2>3
  <2>6. \A x \in Armed(t) : x # t.list[i].id => x \in Armed(r)
    BY <2>2, <2>4
  <2> QED
    BY <2>5, <2>6
<1> QED
  BY <1>10, <1>11

LEMMA TailElements ==
  ASSUME NEW s \in Seq(Timer), s # <<>>
  PROVE  /\ Tail(s) \in Seq(Timer) /\ Len(Tail(s)) = Len(s) - 1
         /\ \A j \in 1 .. Len(s) - 1 : Tail(s)[j] = s[j + 1]
BY HeadTailProperties

LEMMA EmptiedIsEmpty ==
  ASSUME NEW t \in TimerLists
  PROVE  LET r == Emptied(t)
         IN  /\ r \in TimerLists /\ r.list = <<>> /\ r.running = FALSE
             /\ r.left = t.left /\ r.late = t.late
<1> DEFINE r == Emptied(t)
<1>1. <<>> \in Seq(Timer)
  OBVIOUS
<1>2. /\ r.list = <<>> /\ r.running = FALSE
      /\ r.left = t.left /\ r.late = t.late
  BY DEF Emptied, TimerLists
<1>3. ASSUME NEW list \in Seq(Timer), NEW running \in BOOLEAN,
             NEW elapsed \in Nat, NEW alarm \in Int
      PROVE  [t EXCEPT !.list = list, !.running = running, !.elapsed = elapsed,
                       !.alarm = alarm] \in TimerLists
  BY DEF TimerLists
<1>4. 0 \in Nat /\ 0 \in Int /\ FALSE \in BOOLEAN
  OBVIOUS
<1>5. r \in TimerLists
  BY <1>1, <1>3, <1>4, Zenon DEF Emptied
<1> QED
  BY <1>2, <1>5

LEMMA EmptiedLists ==
  ASSUME NEW t, Good(t), t.list # <<>>, Len(t.list) = 1
  PROVE  /\ Good(Emptied(t)) /\ Armed(Emptied(t)) = Armed(t) \ {t.list[1].id}
         /\ Ticking(Emptied(t))
<1> DEFINE r == Emptied(t)
<1>1. t \in TimerLists
  BY DEF Good
<1>2. /\ r \in TimerLists /\ r.list = <<>> /\ r.running = FALSE
      /\ r.left = t.left /\ r.late = t.late
  BY <1>1, EmptiedIsEmpty
<1>3. Len(r.list) = 1 - 1 /\ 1 \in 1 .. 4 /\ 1 \in 1 .. 1
  BY <1>2
<1>4. \A j \in 1 .. 1 - 1 : FALSE
  OBVIOUS
<1> HIDE DEF r
<1>5. OneOut(t, r, 1, 1)
  BY <1>2, <1>3, <1>4 DEF OneOut
<1>6. Good(r) /\ Armed(r) = Armed(t) \ {t.list[1].id}
  BY <1>2, <1>3, <1>5, Without
<1> QED
  BY <1>2, <1>6 DEF Ticking, r

(* A list with another alarm.                                              *)
With(t, list, running, elapsed, alarm) ==
  [t EXCEPT !.list = list, !.running = running, !.elapsed = elapsed,
            !.alarm = alarm]

LEMMA WithFields ==
  ASSUME NEW t \in TimerLists, NEW list \in Seq(Timer), NEW running \in BOOLEAN,
         NEW elapsed \in Nat, NEW alarm \in Int
  PROVE  LET r == With(t, list, running, elapsed, alarm)
         IN  /\ r \in TimerLists /\ r.list = list /\ r.running = running
             /\ r.elapsed = elapsed /\ r.alarm = alarm
             /\ r.left = t.left /\ r.late = t.late
<1> DEFINE r == With(t, list, running, elapsed, alarm)
<1>1. r \in TimerLists
  BY DEF TimerLists, With
<1>2. /\ r.list = list /\ r.running = running
      /\ r.elapsed = elapsed /\ r.alarm = alarm
      /\ r.left = t.left /\ r.late = t.late
  BY DEF TimerLists, With
<1> QED
  BY <1>1, <1>2

LEMMA StoppedFields ==
  ASSUME NEW t \in TimerLists, NEW list \in Seq(Timer)
  PROVE  LET r == With(t, list, FALSE, t.elapsed, t.alarm)
         IN  /\ r \in TimerLists /\ r.list = list /\ r.running = FALSE
             /\ r.left = t.left /\ r.late = t.late
<1> DEFINE no == FALSE
<1>1. no \in BOOLEAN /\ t.elapsed \in Nat /\ t.alarm \in Int
  BY DEF TimerLists
<1> HIDE DEF no
<1>2. LET r == With(t, list, no, t.elapsed, t.alarm)
      IN  /\ r \in TimerLists /\ r.list = list /\ r.running = no
          /\ r.left = t.left /\ r.late = t.late
  BY <1>1, WithFields
<1> QED
  BY <1>2, Zenon DEF no

LEMMA StartedFields ==
  ASSUME NEW t \in TimerLists, NEW alarm \in Int
  PROVE  LET r == With(t, t.list, TRUE, 0, alarm)
         IN  /\ r \in TimerLists /\ r.list = t.list /\ r.running = TRUE
             /\ r.elapsed = 0 /\ r.alarm = alarm
             /\ r.left = t.left /\ r.late = t.late
<1> DEFINE yes == TRUE
           none == 0
<1>1. yes \in BOOLEAN /\ none \in Nat /\ t.list \in Seq(Timer)
  BY DEF TimerLists
<1> HIDE DEF yes, none
<1>2. LET r == With(t, t.list, yes, none, alarm)
      IN  /\ r \in TimerLists /\ r.list = t.list /\ r.running = yes
          /\ r.elapsed = none /\ r.alarm = alarm
          /\ r.left = t.left /\ r.late = t.late
  BY <1>1, WithFields
<1> QED
  BY <1>2, Zenon DEF yes, none

(* The head is taken out, and the next timer keeps its time.               *)
HeadOut(t, r, m) ==
  /\ t.list # <<>> /\ Len(t.list) = m + 1 /\ Len(r.list) = m
  /\ \A j \in 1 .. m : r.list[j].id = t.list[j + 1].id
  /\ Remaining(r) = Expiry(t, 2)
  /\ \A j \in 2 .. m : r.list[j].ts = t.list[j + 1].ts
  /\ r.left = t.left /\ r.late = t.late
  /\ r.running => r.list # <<>> /\ r.elapsed + r.alarm = r.list[1].ts

LEMMA HeadGone ==
  ASSUME NEW t, Good(t), NEW r \in TimerLists, NEW m \in 1 .. 3, HeadOut(t, r, m)
  PROVE  Good(r) /\ Armed(r) = Armed(t) \ {t.list[1].id}
<1>1. /\ t.list # <<>> /\ Len(t.list) = m + 1 /\ Len(r.list) = m
      /\ r.left = t.left /\ r.late = t.late
      /\ r.running => r.list # <<>> /\ r.elapsed + r.alarm = r.list[1].ts
  BY DEF HeadOut
<1>2. /\ Expiry(r, 1) = Expiry(t, 2)
      /\ \A j \in 2 .. m : Expiry(r, j) = Expiry(r, j - 1) + r.list[j].ts
  <2>1. m \in 1 .. 4 /\ m = Len(r.list)
    BY <1>1
  <2>2. Remaining(r) = Expiry(t, 2)
    BY DEF HeadOut
  <2> QED
    BY <2>1, <2>2, ExpiryOfEach
<1>3. \A j \in 2 .. m + 1 : Expiry(t, j) = Expiry(t, j - 1) + t.list[j].ts
  BY <1>1, GoodLists
<1>4. \A j \in 1 .. m : r.list[j].id = t.list[j + 1].id
  BY DEF HeadOut
<1>5. \A j \in 2 .. m : r.list[j].ts = t.list[j + 1].ts
  BY DEF HeadOut
<1>6. \A j \in 1 .. m : Expiry(r, j) = Expiry(t, j + 1)
  <2> DEFINE S == {j \in 1 .. m : Expiry(r, j) = Expiry(t, j + 1)}
  <2>1. 1 \in S
    <3>1. 1 \in 1 .. m /\ 1 + 1 = 2
      OBVIOUS
    <3> QED
      BY <1>2, <3>1
  <2>2. ASSUME NEW j \in 2 .. m, j - 1 \in S
        PROVE  j \in S
    <3>1. /\ j \in 1 .. m /\ (j - 1) + 1 = j /\ j + 1 \in 2 .. m + 1
          /\ (j + 1) - 1 = j
      OBVIOUS
    <3>2. Expiry(r, j) = Expiry(r, j - 1) + r.list[j].ts
      BY <1>2
    <3>3. Expiry(r, j - 1) = Expiry(t, j)
      BY <2>2, <3>1
    <3>4. Expiry(t, j + 1) = Expiry(t, j) + t.list[j + 1].ts
      BY <1>3, <3>1
    <3>5. r.list[j].ts = t.list[j + 1].ts
      BY <1>5
    <3> QED
      BY <3>1, <3>2, <3>3, <3>4, <3>5
  <2>3. m \in 0 .. 4
    OBVIOUS
  <2> HIDE DEF S
  <2>4. \A j \in 1 .. m : j \in S
    BY <2>1, <2>2, <2>3, InductionToFour
  <2> QED
    BY <2>4 DEF S
<1> DEFINE n == m + 1
<1>7. /\ n \in 1 .. 4 /\ 1 \in 1 .. n /\ n - 1 = m
      /\ \A j \in 1 .. m : ~(j < 1)
  OBVIOUS
<1>8. n = Len(t.list) /\ Len(r.list) = n - 1
  BY <1>1, <1>7
<1> HIDE DEF n
<1>9. \A j \in 1 .. n - 1 :
        /\ r.list[j].id = t.list[IF j < 1 THEN j ELSE j + 1].id
        /\ Expiry(r, j) = Expiry(t, IF j < 1 THEN j ELSE j + 1)
  BY <1>4, <1>6, <1>7
<1>10. OneOut(t, r, n, 1)
  BY <1>1, <1>8, <1>9 DEF OneOut
<1> QED
  BY <1>7, <1>10, Without

LEMMA HeadStops ==
  ASSUME NEW t, Good(t), t.list # <<>>
  PROVE  LET r == StopHead(t)
         IN  /\ Good(r) /\ Armed(r) = Armed(t) \ {t.list[1].id}
             /\ Ticking(t) => Ticking(r)
<1> DEFINE r == StopHead(t)
<1>1. PICK n \in 1 .. 4 :
         /\ n = Len(t.list) /\ DOMAIN t.list = 1 .. n
         /\ \A i \in 1 .. n : /\ t.list[i] \in Timer
                              /\ t.list[i].id \in TimerIds
                              /\ t.list[i].ts \in Nat
         /\ Once(t.list) /\ \A i \in 1 .. n : Drifts(t, i)
         /\ Remaining(t) \in Nat
         /\ Expiry(t, 1) = Remaining(t)
         /\ \A i \in 2 .. n : Expiry(t, i) = Expiry(t, i - 1) + t.list[i].ts
         /\ \A i \in 1 .. n : Expiry(t, i) \in Nat
  BY GoodLists
<1>2. CASE n = 1
  <2>1. Len(t.list) = 1
    BY <1>1, <1>2
  <2>2. r = Emptied(t)
    BY <2>1 DEF StopHead
  <2> QED
    BY <2>1, <2>2, EmptiedLists
<1>3. CASE n # 1
  <2> DEFINE s == Tail(t.list)
             d == s[1].ts + Remaining(t)
             rest == [s EXCEPT ![1].ts = d]
             m == n - 1
  <2>1. /\ t \in TimerLists /\ t.list \in Seq(Timer) /\ t.running \in BOOLEAN
        /\ t.elapsed \in Nat /\ t.alarm \in Int
    BY DEF Good, TimerLists
  <2>2. Len(t.list) # 1
    BY <1>1, <1>3
  <2>3. /\ t.running => r = [[t EXCEPT !.list = rest] EXCEPT
                               !.elapsed = 0,
                               !.alarm = [t EXCEPT !.list = rest].list[1].ts]
        /\ ~t.running => r = [t EXCEPT !.list = rest]
    BY <2>2, Zenon DEF StopHead, SetTimeout
  <2> HIDE DEF r
  <2>4. /\ m \in 1 .. 3 /\ n = m + 1 /\ 1 \in 1 .. m /\ 2 \in 2 .. n /\ 2 \in 1 .. n
        /\ 2 - 1 = 1 /\ 1 + 1 = 2 /\ \A j \in 2 .. m : j \in 1 .. m /\ j # 1
    BY <1>3
  <2>5. /\ s \in Seq(Timer) /\ Len(s) = m
        /\ \A j \in 1 .. m : s[j] = t.list[j + 1]
    BY <1>1, <2>1, TailElements
  <2> HIDE DEF s
  <2>6. d = Expiry(t, 2) /\ d \in Nat
    <3>1. s[1] = t.list[2]
      BY <2>4, <2>5
    <3>2. Expiry(t, 2) = Remaining(t) + t.list[2].ts /\ t.list[2].ts \in Nat
      BY <1>1, <2>4
    <3>3. d = t.list[2].ts + Remaining(t)
      BY <3>1
    <3>4. Remaining(t) \in Nat
      BY <1>1
    <3> HIDE DEF d, m
    <3> QED
      BY <3>2, <3>3, <3>4
  <2> HIDE DEF d, m
  <2>7. /\ rest \in Seq(Timer) /\ Len(rest) = m
        /\ \A j \in 1 .. m : /\ rest[j].id = s[j].id
                             /\ rest[j].ts = IF j = 1 THEN d ELSE s[j].ts
    <3>1. 1 \in 1 .. Len(s)
      BY <2>4, <2>5
    <3>2. rest = [s EXCEPT ![1].ts = d]
      OBVIOUS
    <3> HIDE DEF rest
    <3>3. /\ rest \in Seq(Timer) /\ Len(rest) = Len(s)
          /\ \A j \in 1 .. Len(s) : /\ rest[j].id = s[j].id
                                    /\ rest[j].ts = IF j = 1 THEN d ELSE s[j].ts
      <4>1. s \in Seq(Timer) /\ d \in Nat
        BY <2>5, <2>6
      <4> QED
        BY <3>1, <3>2, <4>1, ExceptElements
    <3> QED
      BY <2>5, <3>3
  <2> HIDE DEF rest
  <2>8. rest[1].ts = d
    BY <2>4, <2>7
  <2> DEFINE elapsed == IF t.running THEN 0 ELSE t.elapsed
             alarm == IF t.running THEN d ELSE t.alarm
  <2>9. r = With(t, rest, t.running, elapsed, alarm)
    <3>1. CASE t.running
      BY <2>1, <2>3, <2>8, <3>1 DEF With, TimerLists
    <3>2. CASE ~t.running
      BY <2>1, <2>3, <3>2 DEF With, TimerLists
    <3> QED
      BY <3>1, <3>2
  <2>10. elapsed \in Nat /\ alarm \in Int
    BY <2>1, <2>6
  <2> HIDE DEF elapsed, alarm
  <2>11. /\ r \in TimerLists /\ r.list = rest /\ r.running = t.running
         /\ r.elapsed = elapsed /\ r.alarm = alarm
         /\ r.left = t.left /\ r.late = t.late
    <3>1. rest \in Seq(Timer) /\ t \in TimerLists /\ t.running \in BOOLEAN
      BY <2>1, <2>7
    <3> QED
      BY <2>9, <2>10, <3>1, WithFields
  <2>12. Remaining(r) = d
    <3>1. CASE t.running
      BY <2>6, <2>8, <2>11, <3>1 DEF Remaining, Least, elapsed
    <3>2. CASE ~t.running
      BY <2>8, <2>11, <3>2 DEF Remaining
    <3> QED
      BY <3>1, <3>2
  <2>13. r.running => r.list # <<>> /\ r.elapsed + r.alarm = r.list[1].ts
    <3>1. rest # <<>>
      <4>1. Len(rest) # 0
        BY <2>4, <2>7
      <4> QED
        BY <2>7, <4>1, ListElements
    <3>2. t.running => elapsed + alarm = d
      BY <2>6 DEF elapsed, alarm
    <3> QED
      BY <2>8, <2>11, <3>1, <3>2
  <2>14. \A j \in 1 .. m : rest[j].id = t.list[j + 1].id
    BY <2>5, <2>7
  <2>15. \A j \in 2 .. m : rest[j].ts = t.list[j + 1].ts
    BY <2>4, <2>5, <2>7
  <2>16. Len(t.list) = m + 1 /\ Len(r.list) = m
    BY <1>1, <2>4, <2>7, <2>11
  <2>17. HeadOut(t, r, m)
    BY <2>6, <2>11, <2>12, <2>13, <2>14, <2>15, <2>16 DEF HeadOut
  <2>18. Good(r) /\ Armed(r) = Armed(t) \ {t.list[1].id}
    BY <2>4, <2>11, <2>17, HeadGone
  <2> QED
    BY <2>11, <2>18 DEF Ticking, r
<1> QED
  BY <1>2, <1>3

LEMMA OtherStops ==
  ASSUME NEW t, Good(t), t.list # <<>>, NEW i \in 2 .. 4, i <= Len(t.list)
  PROVE  LET r == StopOther(t, i)
         IN  /\ Good(r) /\ Armed(r) = Armed(t) \ {t.list[i].id}
             /\ Ticking(t) => Ticking(r)
<1> DEFINE r == StopOther(t, i)
           d == t.list[i + 1].ts + t.list[i].ts
           after == IF i = Len(t.list) THEN t.list
                    ELSE [t.list EXCEPT ![i + 1].ts = d]
           s == RemoveAt(after, i)
           at(j) == IF j < i THEN j ELSE j + 1
<1>1. PICK n \in 1 .. 4 :
         /\ n = Len(t.list) /\ DOMAIN t.list = 1 .. n
         /\ \A j \in 1 .. n : /\ t.list[j] \in Timer
                              /\ t.list[j].id \in TimerIds
                              /\ t.list[j].ts \in Nat
         /\ Once(t.list) /\ \A j \in 1 .. n : Drifts(t, j)
         /\ Remaining(t) \in Nat
         /\ Expiry(t, 1) = Remaining(t)
         /\ \A j \in 2 .. n : Expiry(t, j) = Expiry(t, j - 1) + t.list[j].ts
         /\ \A j \in 1 .. n : Expiry(t, j) \in Nat
  BY GoodLists
<1>2. /\ t \in TimerLists /\ t.list \in Seq(Timer)
      /\ t.running => t.elapsed + t.alarm = t.list[1].ts
  BY DEF Good, TimerLists
<1>3. i <= n
  BY <1>1
<1>4. r = [t EXCEPT !.list = s]
  BY DEF StopOther
<1> DEFINE m == n - 1
<1>5. /\ m \in 1 .. 4 /\ 1 \in 1 .. m /\ 1 < i /\ i # 1 /\ i \in 1 .. n
      /\ m \in 0 .. 4 /\ m # 0
  BY <1>3
<1> HIDE DEF r
<1>6. i < n => i + 1 \in 1 .. n /\ d \in Nat
  <2> SUFFICES ASSUME i < n
               PROVE  i + 1 \in 1 .. n /\ d \in Nat
    OBVIOUS
  <2>1. i + 1 \in 1 .. n /\ i \in 1 .. n
    BY <1>3
  <2>2. t.list[i + 1].ts \in Nat /\ t.list[i].ts \in Nat
    BY <1>1, <2>1
  <2> QED
    BY <2>1, <2>2
<1>7. /\ after \in Seq(Timer) /\ Len(after) = n
      /\ \A j \in 1 .. n :
           /\ after[j].id = t.list[j].id
           /\ after[j].ts = IF j = i + 1 THEN t.list[j].ts + t.list[i].ts
                            ELSE t.list[j].ts
  <2>1. CASE i = n
    <3>1. after = t.list
      BY <1>1, <2>1
    <3>2. \A j \in 1 .. n : j # i + 1
      BY <2>1
    <3> QED
      BY <1>1, <1>2, <3>1, <3>2
  <2>2. CASE i < n
    <3>1. i # Len(t.list) /\ i + 1 \in 1 .. n /\ d \in Nat
      BY <1>1, <1>6, <2>2
    <3>2. after = [t.list EXCEPT ![i + 1].ts = d]
      BY <3>1
    <3>3. i + 1 \in 1 .. Len(t.list)
      BY <1>1, <3>1
    <3> HIDE DEF after, d
    <3>4. /\ after \in Seq(Timer) /\ Len(after) = Len(t.list)
          /\ \A j \in 1 .. Len(t.list) :
               /\ after[j].id = t.list[j].id
               /\ after[j].ts = IF j = i + 1 THEN d ELSE t.list[j].ts
      BY <1>2, <3>1, <3>2, <3>3, ExceptElements
    <3> QED
      BY <1>1, <3>4 DEF d
  <2> QED
    BY <1>3, <2>1, <2>2
<1> HIDE DEF after, d
<1>8. /\ s \in Seq(Timer) /\ Len(s) = m
      /\ \A j \in 1 .. m : s[j] = after[at(j)]
  <2>1. i \in 1 .. Len(after)
    BY <1>5, <1>7
  <2>2. /\ s \in Seq(Timer) /\ Len(s) = Len(after) - 1
        /\ \A j \in 1 .. Len(after) - 1 :
             s[j] = IF j < i THEN after[j] ELSE after[j + 1]
    BY <1>7, <2>1, RemoveAtElements
  <2>3. \A j \in 1 .. m : s[j] = IF j < i THEN after[j] ELSE after[j + 1]
    BY <1>7, <2>2
  <2>4. s \in Seq(Timer) /\ Len(s) = m
    BY <1>7, <2>2
  <2> QED
    BY <2>3, <2>4
<1> HIDE DEF s
<1>9. \A j \in 1 .. m : at(j) \in 1 .. n
  OBVIOUS
<1>10. \A j \in 1 .. m : /\ s[j].id = t.list[at(j)].id
                         /\ s[j].ts = IF at(j) = i + 1
                                      THEN t.list[at(j)].ts + t.list[i].ts
                                      ELSE t.list[at(j)].ts
  <2> HIDE DEF at, m
  <2> QED
    BY <1>7, <1>8, <1>9
<1>11. /\ r \in TimerLists /\ r.list = s /\ r.running = t.running
       /\ r.elapsed = t.elapsed /\ r.alarm = t.alarm /\ r.late = t.late
       /\ r.left = t.left
  BY <1>2, <1>4, <1>8 DEF TimerLists
<1>12. s[1].ts = t.list[1].ts
  <2>1. at(1) = 1 /\ 1 # i + 1
    BY <1>5
  <2> QED
    BY <1>5, <1>10, <2>1
<1>13. Remaining(r) = Remaining(t)
  BY <1>11, <1>12 DEF Remaining
<1>14. /\ Expiry(r, 1) = Expiry(t, 1)
       /\ \A j \in 2 .. m : Expiry(r, j) = Expiry(r, j - 1) + s[j].ts
  <2>1. m = Len(r.list)
    BY <1>8, <1>11
  <2> HIDE DEF m
  <2>2. \A j \in 2 .. m : Expiry(r, j) = Expiry(r, j - 1) + r.list[j].ts
    BY <1>5, <1>11, <2>1, ExpiryOfEach
  <2>3. Expiry(r, 1) = Remaining(r)
    BY <1>5, <1>11, <2>1, ExpiryOfEach
  <2> QED
    BY <1>1, <1>11, <1>13, <2>2, <2>3
<1>15. \A j \in 1 .. m : Expiry(r, j) = Expiry(t, at(j))
  <2> DEFINE S == {j \in 1 .. m : Expiry(r, j) = Expiry(t, at(j))}
  <2>1. 1 \in S
    <3>1. at(1) = 1
      BY <1>5
    <3> QED
      BY <1>5, <1>14, <3>1
  <2>2. ASSUME NEW j \in 2 .. m, j - 1 \in S
        PROVE  j \in S
    <3>1. j \in 1 .. m /\ j \in Int
      OBVIOUS
    <3>2. Expiry(r, j) = Expiry(r, j - 1) + s[j].ts
      BY <1>14
    <3>3. Expiry(r, j - 1) = Expiry(t, at(j - 1))
      BY <2>2
    <3>4. CASE j < i
      <4>1. at(j) = j /\ at(j - 1) = j - 1 /\ j # i + 1 /\ j \in 2 .. n
        BY <3>4
      <4>2. s[j].ts = t.list[j].ts
        BY <1>10, <3>1, <4>1
      <4>3. Expiry(t, j) = Expiry(t, j - 1) + t.list[j].ts
        BY <1>1, <4>1
      <4>4. Expiry(r, j) = Expiry(t, at(j))
        BY <3>2, <3>3, <4>1, <4>2, <4>3
      <4> QED
        BY <3>1, <4>4
    <3>5. CASE j = i
      <4>1. /\ at(j) = i + 1 /\ at(j - 1) = i - 1 /\ i \in 2 .. n /\ i + 1 \in 2 .. n
            /\ (i + 1) - 1 = i /\ i - 1 \in 1 .. n /\ i + 1 \in 1 .. n
        BY <3>5
      <4>2. s[j].ts = t.list[i + 1].ts + t.list[i].ts
        BY <1>10, <3>1, <4>1
      <4>3. Expiry(t, i) = Expiry(t, i - 1) + t.list[i].ts
        BY <1>1, <4>1
      <4>4. Expiry(t, i + 1) = Expiry(t, i) + t.list[i + 1].ts
        BY <1>1, <4>1
      <4>5. Expiry(t, i - 1) \in Nat /\ t.list[i].ts \in Nat /\ t.list[i + 1].ts \in Nat
        BY <1>1, <1>5, <4>1
      <4>6. Expiry(r, j) = Expiry(t, i - 1) + (t.list[i + 1].ts + t.list[i].ts)
        BY <3>2, <3>3, <4>1, <4>2
      <4>7. Expiry(r, j) = Expiry(t, i + 1)
        BY <4>3, <4>4, <4>5, <4>6
      <4> QED
        BY <3>1, <4>1, <4>7
    <3>6. CASE j > i
      <4>1. /\ at(j) = j + 1 /\ at(j - 1) = (j - 1) + 1 /\ (j - 1) + 1 = j
            /\ j + 1 # i + 1 /\ j + 1 \in 2 .. n /\ (j + 1) - 1 = j
        BY <3>6
      <4>2. s[j].ts = t.list[j + 1].ts
        BY <1>10, <3>1, <4>1
      <4>3. Expiry(t, j + 1) = Expiry(t, j) + t.list[j + 1].ts
        BY <1>1, <4>1
      <4>4. Expiry(r, j) = Expiry(t, at(j))
        BY <3>2, <3>3, <4>1, <4>2, <4>3
      <4> QED
        BY <3>1, <4>4
    <3> QED
      BY <3>1, <3>4, <3>5, <3>6
  <2> HIDE DEF S, m, at
  <2>3. \A j \in 1 .. m : j \in S
    BY <1>5, <2>1, <2>2, InductionToFour
  <2> QED
    BY <2>3 DEF S
<1>16. s # <<>>
  <2>1. Len(s) # 0
    BY <1>5, <1>8
  <2> QED
    BY <1>8, <2>1, ListElements
<1>17. r.running => r.list # <<>> /\ r.elapsed + r.alarm = r.list[1].ts
  BY <1>2, <1>11, <1>12, <1>16
<1>18. OneOut(t, r, n, i)
  <2>1. \A j \in 1 .. n - 1 :
          /\ r.list[j].id = t.list[IF j < i THEN j ELSE j + 1].id
          /\ Expiry(r, j) = Expiry(t, IF j < i THEN j ELSE j + 1)
    BY <1>10, <1>11, <1>15
  <2>2. n = Len(t.list) /\ Len(r.list) = n - 1
    BY <1>1, <1>8, <1>11
  <2> QED
    BY <1>11, <1>17, <2>1, <2>2 DEF OneOut
<1>19. Good(r) /\ Armed(r) = Armed(t) \ {t.list[i].id}
  BY <1>5, <1>11, <1>18, Without
<1> QED
  BY <1>11, <1>19 DEF Ticking, r

LEMMA TimerStops ==
  ASSUME NEW t, Good(t), NEW id \in TimerIds
  PROVE  LET r == TimerStop(t, id)
         IN  /\ Good(r) /\ Armed(r) = Armed(t) \ {id}
             /\ Ticking(t) => Ticking(r)
<1> DEFINE r == TimerStop(t, id)
           i == CHOOSE j \in DOMAIN t.list : t.list[j].id = id
           u == IF i = 1 THEN StopHead(t) ELSE StopOther(t, i)
<1>1. CASE id \notin Armed(t)
  <2>1. r = t
    BY <1>1 DEF TimerStop
  <2> QED
    BY <1>1, <2>1
<1>2. CASE id \in Armed(t)
  <2>1. r = [u EXCEPT !.left[id] = 0]
    BY <1>2 DEF TimerStop
  <2> HIDE DEF r
  <2>2. i \in DOMAIN t.list /\ t.list[i].id = id
    BY <1>2 DEF Armed
  <2> HIDE DEF i
  <2>3. t.list # <<>>
    BY <2>2
  <2>4. PICK n \in 1 .. 4 : n = Len(t.list) /\ DOMAIN t.list = 1 .. n
    BY <2>3, GoodLists
  <2>5. /\ Good(u) /\ Armed(u) = Armed(t) \ {id}
        /\ Ticking(t) => Ticking(u)
    <3>1. CASE i = 1
      <4>1. t.list[1].id = id /\ u = StopHead(t)
        BY <2>2, <3>1
      <4> QED
        BY <2>3, <4>1, HeadStops
    <3>2. CASE i # 1
      <4>1. i \in 1 .. n
        BY <2>2, <2>4
      <4>2. i \in 2 .. 4 /\ i <= n
        BY <3>2, <4>1
      <4>3. i <= Len(t.list) /\ u = StopOther(t, i)
        BY <2>4, <3>2, <4>2
      <4> QED
        BY <2>2, <2>3, <4>2, <4>3, OtherStops
    <3> QED
      BY <3>1, <3>2
  <2> HIDE DEF u
  <2>6. id \notin Armed(u) /\ 0 \in Int
    BY <2>5
  <2>7. /\ Good(r) /\ Armed(r) = Armed(u)
        /\ r.list = u.list /\ r.running = u.running
    BY <2>1, <2>5, <2>6, LeftOfOther
  <2> QED
    BY <2>5, <2>7 DEF Ticking, r
<1> QED
  BY <1>1, <1>2

LEMMA Rearms ==
  ASSUME NEW t, Good(t), NEW id \in TimerIds, NEW value \in Nat
  PROVE  LET r == Rearm(t, id, value)
         IN  /\ Good(r) /\ Armed(r) = Armed(t) \cup {id}
             /\ Ticking(t) => Ticking(r)
<1> DEFINE u == TimerStop(t, id)
<1>1. /\ Good(u) /\ Armed(u) = Armed(t) \ {id}
      /\ Ticking(t) => Ticking(u)
  BY TimerStops
<1> HIDE DEF u
<1>2. LET r == TimerStart(u, id, value)
      IN  /\ Good(r) /\ Armed(r) = Armed(u) \cup {id}
          /\ Ticking(u) => Ticking(r)
  BY <1>1, TimerStarts
<1>3. (Armed(t) \ {id}) \cup {id} = Armed(t) \cup {id}
  OBVIOUS
<1> QED
  BY <1>1, <1>2, <1>3 DEF Rearm, u

(* TimerIrqHandler's loop begins and ends with the same times.             *)
LEMMA IrqBegins ==
  ASSUME NEW t, Good(t), t.list # <<>>
  PROVE  LET r == IrqBegin(t)
         IN  Good(r) /\ Armed(r) = Armed(t)
<1> DEFINE r == IrqBegin(t)
           rest == Remaining(t)
           s == [t.list EXCEPT ![1].ts = rest]
<1>1. PICK n \in 1 .. 4 :
         /\ n = Len(t.list) /\ DOMAIN t.list = 1 .. n
         /\ \A i \in 1 .. n : /\ t.list[i] \in Timer
                              /\ t.list[i].id \in TimerIds
                              /\ t.list[i].ts \in Nat
         /\ Once(t.list) /\ \A i \in 1 .. n : Drifts(t, i)
         /\ Remaining(t) \in Nat
         /\ Expiry(t, 1) = Remaining(t)
         /\ \A i \in 2 .. n : Expiry(t, i) = Expiry(t, i - 1) + t.list[i].ts
         /\ \A i \in 1 .. n : Expiry(t, i) \in Nat
  BY GoodLists
<1>2. t \in TimerLists /\ t.list \in Seq(Timer) /\ t.elapsed \in Nat /\ t.alarm \in Int
  BY DEF Good, TimerLists
<1>3. 1 \in 1 .. n /\ \A i \in 2 .. n : i \in 1 .. n /\ i # 1
  OBVIOUS
<1>4. r = With(t, s, FALSE, t.elapsed, t.alarm)
  BY <1>2 DEF IrqBegin, With, TimerLists
<1>5. rest \in Nat
  BY <1>1
<1> HIDE DEF r, rest
<1>6. /\ s \in Seq(Timer) /\ Len(s) = n
      /\ \A j \in 1 .. n : /\ s[j].id = t.list[j].id
                           /\ s[j].ts = IF j = 1 THEN rest ELSE t.list[j].ts
  <2>1. 1 \in 1 .. Len(t.list) /\ s = [t.list EXCEPT ![1].ts = rest]
    BY <1>1, <1>3
  <2> HIDE DEF s
  <2>2. /\ s \in Seq(Timer) /\ Len(s) = Len(t.list)
        /\ \A j \in 1 .. Len(t.list) :
             /\ s[j].id = t.list[j].id
             /\ s[j].ts = IF j = 1 THEN rest ELSE t.list[j].ts
    BY <1>2, <1>5, <2>1, ExceptElements
  <2> QED
    BY <1>1, <2>2
<1> HIDE DEF s
<1>7. /\ r \in TimerLists /\ r.list = s /\ r.running = FALSE
      /\ r.left = t.left /\ r.late = t.late
  <2>1. s \in Seq(Timer)
    BY <1>6
  <2> QED
    BY <1>2, <1>4, <2>1, StoppedFields
<1>8. Expiry(r, 1) = Expiry(t, 1)
      /\ \A j \in 2 .. n : Expiry(r, j) = Expiry(r, j - 1) + s[j].ts
  <2>1. n = Len(r.list)
    BY <1>6, <1>7
  <2>2. \A j \in 2 .. n : Expiry(r, j) = Expiry(r, j - 1) + r.list[j].ts
    BY <1>7, <2>1, ExpiryOfEach
  <2>3. Expiry(r, 1) = Remaining(r)
    BY <1>7, <2>1, ExpiryOfEach
  <2>4. Remaining(r) = rest
    BY <1>3, <1>6, <1>7 DEF Remaining
  <2> QED
    BY <1>1, <1>7, <2>2, <2>3, <2>4 DEF rest
<1>9. \A j \in 1 .. n : Expiry(r, j) = Expiry(t, j)
  <2> DEFINE S == {j \in 1 .. n : Expiry(r, j) = Expiry(t, j)}
  <2>1. 1 \in S
    BY <1>3, <1>8
  <2>2. ASSUME NEW j \in 2 .. n, j - 1 \in S
        PROVE  j \in S
    <3>1. Expiry(r, j) = Expiry(r, j - 1) + s[j].ts
      BY <1>8
    <3>2. s[j].ts = t.list[j].ts /\ j \in 1 .. n
      BY <1>3, <1>6
    <3>3. Expiry(t, j) = Expiry(t, j - 1) + t.list[j].ts
      BY <1>1
    <3> QED
      BY <2>2, <3>1, <3>2, <3>3
  <2>3. n \in 0 .. 4
    OBVIOUS
  <2> HIDE DEF S
  <2>4. \A j \in 1 .. n : j \in S
    BY <2>1, <2>2, <2>3, InductionToFour
  <2> QED
    BY <2>4 DEF S
<1>10. \A j \in 1 .. n : Drifts(r, j)
  <2> SUFFICES ASSUME NEW j \in 1 .. n
               PROVE  Drifts(r, j)
    OBVIOUS
  <2>1. Drifts(t, j) /\ r.list[j].id = t.list[j].id /\ Expiry(r, j) = Expiry(t, j)
    BY <1>1, <1>6, <1>7, <1>9
  <2> QED
    BY <1>7, <2>1, DriftsAlike
<1>11. Once(r.list)
  <2>1. \A i, j \in 1 .. n : t.list[i].id = t.list[j].id => i = j
    BY <1>1 DEF Once
  <2>2. \A i, j \in 1 .. n : s[i].id = s[j].id => i = j
    BY <1>6, <2>1
  <2> QED
    BY <1>6, <1>7, <2>2 DEF Once
<1>12. n = Len(r.list)
  BY <1>6, <1>7
<1>13. Good(r)
  BY <1>7, <1>10, <1>11, <1>12, GoodByEach
<1>14. Armed(r) = Armed(t)
  <2>1. DOMAIN s = 1 .. n
    BY <1>6, ListElements
  <2>2. Armed(r) = {s[j].id : j \in 1 .. n}
    BY <1>7, <2>1 DEF Armed
  <2>3. Armed(t) = {t.list[j].id : j \in 1 .. n}
    BY <1>1 DEF Armed
  <2> QED
    BY <1>6, <2>2, <2>3
<1> QED
  BY <1>13, <1>14 DEF r

LEMMA HeadTaken ==
  ASSUME NEW t, Good(t), HeadDue(t)
  PROVE  LET r == TakeHead(t)
         IN  Good(r) /\ Armed(r) = Armed(t) \ {t.list[1].id}
<1> DEFINE r == TakeHead(t)
           id == t.list[1].id
           s == Tail(t.list)
           u == IF Len(t.list) = 1 THEN Emptied(t)
                ELSE [t EXCEPT !.list = s, !.running = FALSE]
<1>1. t.list # <<>> /\ t.list[1].ts = 0
  BY DEF HeadDue
<1>2. /\ t \in TimerLists /\ t.list \in Seq(Timer) /\ t.running \in BOOLEAN
      /\ t.elapsed \in Nat /\ t.alarm \in Int
  BY DEF Good, TimerLists
<1>3. PICK n \in 1 .. 4 :
         /\ n = Len(t.list) /\ DOMAIN t.list = 1 .. n
         /\ \A i \in 1 .. n : /\ t.list[i] \in Timer
                              /\ t.list[i].id \in TimerIds
                              /\ t.list[i].ts \in Nat
         /\ Once(t.list) /\ \A i \in 1 .. n : Drifts(t, i)
         /\ Remaining(t) \in Nat
         /\ Expiry(t, 1) = Remaining(t)
         /\ \A i \in 2 .. n : Expiry(t, i) = Expiry(t, i - 1) + t.list[i].ts
         /\ \A i \in 1 .. n : Expiry(t, i) \in Nat
  BY <1>1, GoodLists
<1>4. r = [u EXCEPT !.left[id] = 0]
  <2>1. CASE Len(t.list) = 1
    BY <1>2, <2>1 DEF TakeHead, Emptied, TimerLists
  <2>2. CASE Len(t.list) # 1
    BY <1>2, <2>2 DEF TakeHead, TimerLists
  <2> QED
    BY <2>1, <2>2
<1>5. id \in TimerIds /\ 0 \in Int
  BY <1>3
<1> HIDE DEF r, id
<1>6. Good(u) /\ Armed(u) = Armed(t) \ {id}
  <2>1. CASE n = 1
    <3>1. Len(t.list) = 1
      BY <1>3, <2>1
    <3>2. u = Emptied(t)
      BY <3>1
    <3> QED
      BY <1>1, <3>1, <3>2, EmptiedLists DEF id
  <2>2. CASE n # 1
    <3> DEFINE m == n - 1
    <3>1. /\ m \in 1 .. 3 /\ n = m + 1 /\ 1 \in 1 .. m /\ 2 \in 2 .. n /\ 2 \in 1 .. n
          /\ 2 - 1 = 1 /\ 1 + 1 = 2 /\ \A j \in 2 .. m : j \in 1 .. m
      BY <2>2
    <3>2. /\ s \in Seq(Timer) /\ Len(s) = m
          /\ \A j \in 1 .. m : s[j] = t.list[j + 1]
      BY <1>1, <1>2, <1>3, TailElements
    <3> HIDE DEF s, m
    <3>3. Len(t.list) # 1
      BY <1>3, <2>2
    <3>4. u = With(t, s, FALSE, t.elapsed, t.alarm)
      BY <1>2, <3>3 DEF With, TimerLists
    <3> HIDE DEF u
    <3>5. s \in Seq(Timer)
      BY <3>2
    <3>6. /\ u \in TimerLists /\ u.list = s /\ u.running = FALSE
          /\ u.left = t.left /\ u.late = t.late
      BY <1>2, <3>4, <3>5, StoppedFields
    <3>7. Remaining(u) = Expiry(t, 2)
      <4>1. Remaining(u) = t.list[2].ts
        BY <3>1, <3>2, <3>6 DEF Remaining
      <4>2. Remaining(t) = 0
        BY <1>1, <1>2 DEF Remaining, Least
      <4>3. Expiry(t, 2) = Expiry(t, 1) + t.list[2].ts /\ t.list[2].ts \in Nat
        BY <1>3, <3>1
      <4> QED
        BY <1>3, <4>1, <4>2, <4>3
    <3>8. \A j \in 1 .. m : u.list[j].id = t.list[j + 1].id
      BY <3>2, <3>6
    <3>9. \A j \in 2 .. m : u.list[j].ts = t.list[j + 1].ts
      BY <3>1, <3>2, <3>6
    <3>10. Len(t.list) = m + 1 /\ Len(u.list) = m
      BY <1>3, <3>1, <3>2, <3>6
    <3>11. HeadOut(t, u, m)
      BY <1>1, <3>6, <3>7, <3>8, <3>9, <3>10 DEF HeadOut
    <3> QED
      BY <3>1, <3>6, <3>11, HeadGone DEF id
  <2> QED
    BY <2>1, <2>2
<1> HIDE DEF u
<1>7. id \notin Armed(u)
  BY <1>6
<1>8. Good(r) /\ Armed(r) = Armed(u)
  BY <1>4, <1>5, <1>6, <1>7, LeftOfOther
<1> QED
  BY <1>6, <1>8 DEF r, id

LEMMA SameRemaining ==
  ASSUME NEW t, NEW r, r.list = t.list, Remaining(r) = Remaining(t)
  PROVE  \A i : Expiry(r, i) = Expiry(t, i)
BY DEF Expiry

LEMMA IrqEnds ==
  ASSUME NEW t, Good(t)
  PROVE  LET r == IrqEnd(t)
         IN  Good(r) /\ Armed(r) = Armed(t) /\ Ticking(r)
<1> DEFINE r == IrqEnd(t)
<1>1. /\ t \in TimerLists /\ t.list \in Seq(Timer) /\ t.running \in BOOLEAN
  BY DEF Good, TimerLists
<1>2. CASE t.list = <<>> \/ t.running
  <2>1. r = t
    BY <1>2 DEF IrqEnd
  <2> QED
    BY <1>2, <2>1 DEF Ticking
<1>3. CASE t.list # <<>> /\ ~t.running
  <2> DEFINE ts == t.list[1].ts
  <2>1. PICK n \in 1 .. 4 : /\ n = Len(t.list) /\ DOMAIN t.list = 1 .. n
                            /\ \A i \in 1 .. n : t.list[i].ts \in Nat
                            /\ Once(t.list) /\ \A i \in 1 .. n : Drifts(t, i)
    BY <1>3, GoodLists
  <2>2. 1 \in 1 .. n
    OBVIOUS
  <2>3. ts \in Nat /\ ts \in Int
    BY <2>1, <2>2
  <2>4. r = SetTimeout([t EXCEPT !.running = TRUE])
    BY <1>3 DEF IrqEnd
  <2>5. r = With(t, t.list, TRUE, 0, ts)
    BY <1>1, <2>4 DEF SetTimeout, With, TimerLists
  <2> HIDE DEF ts, r
  <2>6. /\ r \in TimerLists /\ r.list = t.list /\ r.running = TRUE
        /\ r.elapsed = 0 /\ r.alarm = ts
        /\ r.left = t.left /\ r.late = t.late
    BY <1>1, <2>3, <2>5, StartedFields
  <2>7. Remaining(t) = ts
    BY <1>3 DEF Remaining, ts
  <2>8. Remaining(r) = ts
    BY <2>3, <2>6 DEF Remaining, Least, ts
  <2>9. \A i : Expiry(r, i) = Expiry(t, i)
    BY <2>6, <2>7, <2>8, SameRemaining
  <2>10. \A i \in 1 .. n : Drifts(r, i)
    BY <2>1, <2>6, <2>9, DriftsAlike
  <2>11. r.elapsed + r.alarm = r.list[1].ts
    BY <2>3, <2>6 DEF ts
  <2>12. Good(r)
    BY <1>3, <2>1, <2>6, <2>10, <2>11, GoodByEach
  <2>13. Armed(r) = Armed(t) /\ Ticking(r)
    BY <2>6 DEF Armed, Ticking
  <2> QED
    BY <2>12, <2>13 DEF r
<1> QED
  BY <1>1, <1>2, <1>3

LEMMA TickFields ==
  ASSUME NEW t \in TimerLists
  PROVE  LET r == Tick(t)
         IN  /\ r \in TimerLists /\ r.list = t.list /\ r.running = t.running
             /\ t.running => r.elapsed = t.elapsed + 1 /\ r.alarm = t.alarm - 1
             /\ \A id \in Armed(t) \cap TimerIds : r.left[id] = t.left[id] - 1
             /\ r.late = IF Overdue(t) THEN t.late + 1 ELSE t.late
<1> DEFINE r == Tick(t)
           elapsed == IF t.running THEN t.elapsed + 1 ELSE t.elapsed
           alarm == IF t.running THEN t.alarm - 1 ELSE t.alarm
           left == [id \in TimerIds |-> IF id \in Armed(t) THEN t.left[id] - 1 ELSE 0]
           late == IF Overdue(t) THEN t.late + 1 ELSE t.late
<1>1. /\ t.elapsed \in Nat /\ t.alarm \in Int /\ t.late \in Nat
      /\ t.left \in [TimerIds -> Int] /\ t.running \in BOOLEAN
  BY DEF TimerLists
<1>2. elapsed \in Nat /\ alarm \in Int /\ late \in Nat /\ left \in [TimerIds -> Int]
  <2>1. elapsed \in Nat /\ alarm \in Int
    BY <1>1
  <2>2. late \in Nat
    BY <1>1
  <2>3. left \in [TimerIds -> Int]
    BY <1>1
  <2> QED
    BY <2>1, <2>2, <2>3
<1>3. r = [t EXCEPT !.elapsed = elapsed, !.alarm = alarm, !.left = left, !.late = late]
  BY DEF Tick, TimerLists
<1>4. t.running => elapsed = t.elapsed + 1 /\ alarm = t.alarm - 1
  OBVIOUS
<1>5. \A id \in Armed(t) \cap TimerIds : left[id] = t.left[id] - 1
  OBVIOUS
<1> HIDE DEF r, elapsed, alarm, left
<1>6. late = IF Overdue(t) THEN t.late + 1 ELSE t.late
  OBVIOUS
<1> HIDE DEF late
<1>7. r \in TimerLists
  BY <1>2, <1>3 DEF TimerLists
<1>8. /\ r.list = t.list /\ r.running = t.running /\ r.elapsed = elapsed
      /\ r.alarm = alarm /\ r.left = left /\ r.late = late
  BY <1>3 DEF TimerLists
<1> QED
  BY <1>4, <1>5, <1>6, <1>7, <1>8 DEF r

LEMMA Ticks ==
  ASSUME NEW t, Good(t)
  PROVE  LET r == Tick(t)
         IN  Good(r) /\ Armed(r) = Armed(t) /\ (Ticking(t) => Ticking(r))
<1> DEFINE r == Tick(t)
<1>1. /\ t \in TimerLists /\ t.list \in Seq(Timer) /\ t.running \in BOOLEAN
      /\ t.elapsed \in Nat /\ t.alarm \in Int /\ t.late \in Nat
      /\ t.left \in [TimerIds -> Int]
      /\ t.running => t.list # <<>> /\ t.elapsed + t.alarm = t.list[1].ts
  BY DEF Good, TimerLists
<1>2. /\ r \in TimerLists /\ r.list = t.list /\ r.running = t.running
      /\ t.running => r.elapsed = t.elapsed + 1 /\ r.alarm = t.alarm - 1
      /\ \A id \in Armed(t) \cap TimerIds : r.left[id] = t.left[id] - 1
      /\ r.late = IF Overdue(t) THEN t.late + 1 ELSE t.late
  BY <1>1, TickFields
<1> HIDE DEF r
<1>3. Armed(r) = Armed(t) /\ (Ticking(t) => Ticking(r))
  BY <1>2 DEF Armed, Ticking
<1>4. r.running => r.elapsed + r.alarm = r.list[1].ts
  <2>1. t.running => (t.elapsed + 1) + (t.alarm - 1) = t.elapsed + t.alarm
    BY <1>1
  <2> QED
    BY <1>1, <1>2, <2>1
<1>5. CASE t.list = <<>>
  <2>1. 0 = Len(r.list) /\ Once(r.list)
    BY <1>2, <1>5 DEF Once
  <2>2. \A i \in 1 .. 0 : Drifts(r, i)
    OBVIOUS
  <2>3. ~r.running
    BY <1>1, <1>2, <1>5
  <2>4. Good(r)
    BY <1>2, <2>1, <2>2, <2>3, GoodByEach
  <2> QED
    BY <1>3, <2>4 DEF r
<1>6. CASE t.list # <<>>
  <2>1. PICK n \in 1 .. 4 :
           /\ n = Len(t.list) /\ DOMAIN t.list = 1 .. n
           /\ \A i \in 1 .. n : /\ t.list[i] \in Timer
                                /\ t.list[i].id \in TimerIds
                                /\ t.list[i].ts \in Nat
           /\ Once(t.list) /\ \A i \in 1 .. n : Drifts(t, i)
           /\ Remaining(t) \in Nat
           /\ Expiry(t, 1) = Remaining(t)
           /\ \A i \in 2 .. n : Expiry(t, i) = Expiry(t, i - 1) + t.list[i].ts
           /\ \A i \in 1 .. n : Expiry(t, i) \in Nat
    BY <1>6, GoodLists
  <2> DEFINE ts == t.list[1].ts
  <2>2. ts \in Nat
    <3>1. 1 \in 1 .. n
      OBVIOUS
    <3> QED
      BY <2>1, <3>1
  <2>3. /\ Remaining(t) = IF t.running THEN ts - Least(t.elapsed, ts) ELSE ts
        /\ Remaining(r) = IF t.running THEN ts - Least(t.elapsed + 1, ts) ELSE ts
    BY <1>2 DEF Remaining
  <2> HIDE DEF ts
  <2>4. ASSUME NEW i \in 1 .. n
        PROVE  /\ r.list[i].id = t.list[i].id
               /\ r.left[t.list[i].id] = t.left[t.list[i].id] - 1
               /\ t.left[t.list[i].id] \in Int
               /\ 0 <= Expiry(t, i) - t.left[t.list[i].id]
               /\ Expiry(t, i) - t.left[t.list[i].id] <= t.late
               /\ Expiry(t, i) \in Nat
    <3>1. t.list[i].id \in Armed(t) \cap TimerIds
      BY <2>1 DEF Armed
    <3>2. t.left[t.list[i].id] \in Int
      BY <1>1, <3>1
    <3>3. Drifts(t, i) /\ Expiry(t, i) \in Nat
      BY <2>1
    <3>4. /\ 0 <= Expiry(t, i) - t.left[t.list[i].id]
          /\ Expiry(t, i) - t.left[t.list[i].id] <= t.late
      BY <3>2, <3>3 DEF Drifts
    <3> QED
      BY <1>2, <3>1, <3>2, <3>3, <3>4
  <2>5. CASE Overdue(t)
    <3>1. Remaining(r) = Remaining(t)
      <4>1. CASE t.running
        <5>1. Remaining(t) = 0
          BY <2>5, <4>1 DEF Overdue
        <5>2. ts <= t.elapsed
          BY <1>1, <2>2, <2>3, <4>1, <5>1 DEF Least
        <5>3. Remaining(r) = 0
          BY <1>1, <2>2, <2>3, <4>1, <5>2 DEF Least
        <5> QED
          BY <5>1, <5>3
      <4>2. CASE ~t.running
        BY <2>3, <4>2
      <4> QED
        BY <4>1, <4>2
    <3>2. \A i : Expiry(r, i) = Expiry(t, i)
      BY <1>2, <3>1, SameRemaining
    <3>3. ASSUME NEW i \in 1 .. n
          PROVE  Drifts(r, i)
      <4> DEFINE e == Expiry(t, i)
                 l == t.left[t.list[i].id]
      <4>1. e \in Nat /\ l \in Int /\ 0 <= e - l /\ e - l <= t.late
        BY <2>4
      <4>2. Expiry(r, i) = e /\ r.left[r.list[i].id] = l - 1 /\ r.late = t.late + 1
        BY <1>2, <2>4, <2>5, <3>2
      <4> HIDE DEF e, l
      <4> QED
        BY <1>1, <4>1, <4>2 DEF Drifts
    <3> QED
      BY <1>2, <1>4, <1>6, <2>1, <3>3, GoodByEach, <1>3 DEF r
  <2>6. CASE ~Overdue(t)
    <3>1. t.running /\ Remaining(t) # 0
      BY <1>6, <2>6 DEF Overdue
    <3>2. Remaining(r) = Remaining(t) - 1
      BY <1>1, <2>2, <2>3, <3>1 DEF Least
    <3>3. \A i \in 1 .. n : Expiry(r, i) = Expiry(t, i) - 1
      <4> DEFINE S == {i \in 1 .. n : Expiry(r, i) = Expiry(t, i) - 1}
      <4>1. n = Len(r.list)
        BY <1>2, <2>1
      <4>2. /\ Expiry(r, 1) = Remaining(r)
            /\ \A i \in 2 .. n : Expiry(r, i) = Expiry(r, i - 1) + r.list[i].ts
        BY <1>2, <4>1, ExpiryOfEach
      <4>3. 1 \in S
        <5>1. 1 \in 1 .. n
          OBVIOUS
        <5> QED
          BY <2>1, <3>2, <4>2, <5>1
      <4>4. ASSUME NEW i \in 2 .. n, i - 1 \in S
            PROVE  i \in S
        <5>1. i \in 1 .. n /\ i - 1 \in 1 .. n
          OBVIOUS
        <5>2. Expiry(r, i) = Expiry(r, i - 1) + t.list[i].ts
          BY <1>2, <4>2
        <5>3. Expiry(t, i) = Expiry(t, i - 1) + t.list[i].ts
          BY <2>1
        <5>4. Expiry(t, i - 1) \in Nat /\ t.list[i].ts \in Nat
          BY <2>1, <5>1
        <5>5. Expiry(r, i - 1) = Expiry(t, i - 1) - 1
          BY <4>4
        <5>6. Expiry(r, i) = Expiry(t, i) - 1
          BY <5>2, <5>3, <5>4, <5>5
        <5> QED
          BY <5>1, <5>6
      <4>5. n \in 0 .. 4
        OBVIOUS
      <4> HIDE DEF S
      <4>6. \A i \in 1 .. n : i \in S
        BY <4>3, <4>4, <4>5, InductionToFour
      <4> QED
        BY <4>6 DEF S
    <3>4. ASSUME NEW i \in 1 .. n
          PROVE  Drifts(r, i)
      <4> DEFINE e == Expiry(t, i)
                 l == t.left[t.list[i].id]
      <4>1. e \in Nat /\ l \in Int /\ 0 <= e - l /\ e - l <= t.late
        BY <2>4
      <4>2. Expiry(r, i) = e - 1 /\ r.left[r.list[i].id] = l - 1 /\ r.late = t.late
        BY <1>2, <2>4, <2>6, <3>3
      <4> HIDE DEF e, l
      <4> QED
        BY <1>1, <4>1, <4>2 DEF Drifts
    <3> QED
      BY <1>2, <1>4, <1>6, <2>1, <3>4, GoodByEach, <1>3 DEF r
  <2> QED
    BY <2>5, <2>6
<1> QED
  BY <1>5, <1>6

-----------------------------------------------------------------------------
(* The statics of the device.                                              *)

Typed(n) == n \in Nodes /\ Good(n.timers)

(* A request is open only while the MAC is busy, and NextTx waits for a    *)
(* request only.                                                           *)
Requests(n) ==
  /\ ~n.nextTx => n.mcps /\ n.busy
  /\ n.mcps => n.busy
  /\ n.mlme => n.busy

Timed(n) == n.busy => Armed(n.timers) \cap {"StateCheck", "TxDelayed"} # {}

WillWake(n) ==
  n.state = "SLEEP" => \/ "TxNextPacket" \in Armed(n.timers)
                       \/ n.mlme /\ n.queued /\ n.busy

Sound(n) == Typed(n) /\ Requests(n) /\ Timed(n) /\ WillWake(n)

SameFlags(r, n) ==
  /\ r.state = n.state /\ r.nextTx = n.nextTx /\ r.busy = n.busy
  /\ r.joined = n.joined /\ r.mcps = n.mcps /\ r.mlme = n.mlme
  /\ r.queued = n.queued /\ r.calls = n.calls

LEMMA NewTimers ==
  ASSUME NEW n, n \in Nodes, NEW t, Good(t)
  PROVE  LET r == [n EXCEPT !.timers = t]
         IN  Typed(r) /\ SameFlags(r, n) /\ r.timers = t
<1> DEFINE r == [n EXCEPT !.timers = t]
           types == [list : Seq([id : TimerIds, ts : Nat]), running : BOOLEAN,
                     elapsed : Nat, alarm : Int, left : [TimerIds -> Int], late : Nat]
<1>1. t \in types
  BY DEF Good, TimerLists, Timer
<1> HIDE DEF types
<1>2. n \in [state : {"INIT", "JOIN", "SEND", "CYCLE", "SLEEP"}, nextTx : BOOLEAN,
             timers : types, busy : BOOLEAN, joined : BOOLEAN, mcps : BOOLEAN,
             mlme : BOOLEAN, queued : BOOLEAN, calls : Nat]
  BY DEF Nodes, types
<1>3. r \in [state : {"INIT", "JOIN", "SEND", "CYCLE", "SLEEP"}, nextTx : BOOLEAN,
             timers : types, busy : BOOLEAN, joined : BOOLEAN, mcps : BOOLEAN,
             mlme : BOOLEAN, queued : BOOLEAN, calls : Nat]
  BY <1>1, <1>2
<1>4. r \in Nodes
  BY <1>3 DEF Nodes, types
<1>5. SameFlags(r, n) /\ r.timers = t
  BY <1>2 DEF SameFlags
<1> QED
  BY <1>4, <1>5 DEF Typed

LEMMA Starts ==
  ASSUME NEW n, Typed(n), NEW id \in TimerIds, NEW value \in Nat
  PROVE  LET r == Start(n, id, value)
         IN  /\ Typed(r) /\ SameFlags(r, n)
             /\ Armed(r.timers) = Armed(n.timers) \cup {id}
             /\ Ticking(n.timers) => Ticking(r.timers)
<1> DEFINE t == Rearm(n.timers, id, value)
           r == [n EXCEPT !.timers = t]
<1>1. n \in Nodes /\ Good(n.timers)
  BY DEF Typed
<1>2. /\ Good(t) /\ Armed(t) = Armed(n.timers) \cup {id}
      /\ Ticking(n.timers) => Ticking(t)
  BY <1>1, Rearms
<1>3. r = Start(n, id, value)
  BY DEF Start
<1> HIDE DEF t
<1>4. Typed(r) /\ SameFlags(r, n) /\ r.timers = t
  BY <1>1, <1>2, NewTimers
<1> HIDE DEF r
<1> QED
  BY <1>2, <1>3, <1>4

LEMMA Stops ==
  ASSUME NEW n, Typed(n), NEW id \in TimerIds
  PROVE  LET r == Stop(n, id)
         IN  /\ Typed(r) /\ SameFlags(r, n)
             /\ Armed(r.timers) = Armed(n.timers) \ {id}
             /\ Ticking(n.timers) => Ticking(r.timers)
<1> DEFINE t == TimerStop(n.timers, id)
           r == [n EXCEPT !.timers = t]
<1>1. n \in Nodes /\ Good(n.timers)
  BY DEF Typed
<1>2. /\ Good(t) /\ Armed(t) = Armed(n.timers) \ {id}
      /\ Ticking(n.timers) => Ticking(t)
  BY <1>1, TimerStops
<1>3. r = Stop(n, id)
  BY DEF Stop
<1> HIDE DEF t
<1>4. Typed(r) /\ SameFlags(r, n) /\ r.timers = t
  BY <1>1, <1>2, NewTimers
<1> HIDE DEF r
<1> QED
  BY <1>2, <1>3, <1>4

LEMMA Ids ==
  /\ "TxNextPacket" \in TimerIds /\ "StateCheck" \in TimerIds
  /\ "TxDelayed" \in TimerIds /\ "Window" \in TimerIds
BY TimerAssumption

LEMMA Times ==
  /\ 1 \in Nat /\ RejoinDelay \in Nat
  /\ \A delay \in Delays \cup {0} : delay \in Nat
  /\ \A dutyCycle \in DutyCycles : dutyCycle \in Nat
BY TimeAssumption

(* Other flags leave the timers alone.                                     *)
LEMMA NewFlags ==
  ASSUME NEW n, Typed(n), NEW r, r \in Nodes, r.timers = n.timers
  PROVE  Typed(r)
BY DEF Typed

LEMMA Transmits ==
  ASSUME NEW n, Typed(n), NEW delay \in Nat
  PROVE  LET r == Transmit(n, delay)
         IN  /\ Typed(r) /\ r.busy = TRUE /\ Timed(r)
             /\ Armed(n.timers) \subseteq Armed(r.timers)
             /\ r.state = n.state /\ r.nextTx = n.nextTx /\ r.joined = n.joined
             /\ r.mcps = n.mcps /\ r.mlme = n.mlme /\ r.queued = n.queued
             /\ Ticking(n.timers) => Ticking(r.timers)
<1> DEFINE id == IF delay = 0 THEN "StateCheck" ELSE "TxDelayed"
           value == IF delay = 0 THEN 1 ELSE delay
           u == Start(n, id, value)
           r == [u EXCEPT !.busy = TRUE]
<1>1. r = Transmit(n, delay)
  <2>1. CASE delay = 0
    BY <2>1 DEF Transmit
  <2>2. CASE delay # 0
    BY <2>2 DEF Transmit
  <2> QED
    BY <2>1, <2>2
<1>2. id \in TimerIds /\ id \in {"StateCheck", "TxDelayed"} /\ value \in Nat
  BY Ids
<1> HIDE DEF id, value
<1>3. /\ Typed(u) /\ SameFlags(u, n)
      /\ Armed(u.timers) = Armed(n.timers) \cup {id}
      /\ Ticking(n.timers) => Ticking(u.timers)
  BY <1>2, Starts
<1> HIDE DEF u
<1>4. u \in Nodes
  BY <1>3 DEF Typed
<1>5. r \in Nodes
  BY <1>4 DEF Nodes
<1>6. /\ r.timers = u.timers /\ r.busy = TRUE
      /\ r.state = u.state /\ r.nextTx = u.nextTx /\ r.joined = u.joined
      /\ r.mcps = u.mcps /\ r.mlme = u.mlme /\ r.queued = u.queued
  BY <1>4 DEF Nodes
<1> HIDE DEF r
<1>7. Typed(r)
  BY <1>3, <1>5, <1>6, NewFlags
<1>8. Timed(r)
  BY <1>2, <1>3, <1>6 DEF Timed
<1> QED
  BY <1>1, <1>3, <1>6, <1>7, <1>8 DEF SameFlags

(* What a request or a callback leaves to the loop.                        *)
After(n, r) ==
  /\ Sound(r) /\ (n.state # "INIT" => r.state # "INIT")
  /\ Ticking(n.timers) => Ticking(r.timers)

LEMMA Joins ==
  ASSUME NEW n, Typed(n), Requests(n), Timed(n), NEW delay \in Nat
  PROVE  LET r == MlmeJoin(n, delay)
         IN  /\ Sound(r) /\ r.state # "INIT"
             /\ Ticking(n.timers) => Ticking(r.timers)
<1> DEFINE r == MlmeJoin(n, delay)
<1>1. n \in Nodes
  BY DEF Typed
<1>2. CASE n.busy
  <2>1. r = [n EXCEPT !.state = "CYCLE"]
    BY <1>2 DEF MlmeJoin
  <2> HIDE DEF r
  <2>2. r \in Nodes
    BY <1>1, <2>1 DEF Nodes
  <2>3. /\ r.timers = n.timers /\ r.state = "CYCLE" /\ r.nextTx = n.nextTx
        /\ r.busy = n.busy /\ r.mcps = n.mcps /\ r.mlme = n.mlme
    BY <1>1, <2>1 DEF Nodes
  <2>4. Typed(r)
    BY <2>2, <2>3, NewFlags
  <2>5. Requests(r) /\ Timed(r) /\ WillWake(r)
    BY <2>3 DEF Requests, Timed, WillWake
  <2> QED
    BY <2>3, <2>4, <2>5 DEF Sound, r
<1>3. CASE ~n.busy
  <2> DEFINE u == [n EXCEPT !.joined = FALSE, !.mlme = TRUE, !.queued = TRUE]
             v == Transmit(u, delay)
  <2>1. r = [v EXCEPT !.state = "SLEEP"]
    BY <1>3 DEF MlmeJoin
  <2> HIDE DEF r
  <2>2. u \in Nodes
    BY <1>1 DEF Nodes
  <2>3. /\ u.timers = n.timers /\ u.nextTx = n.nextTx /\ u.mcps = n.mcps
        /\ u.mlme = TRUE /\ u.queued = TRUE
    BY <1>1 DEF Nodes
  <2> HIDE DEF u
  <2>4. Typed(u)
    BY <2>2, <2>3, NewFlags
  <2>5. /\ Typed(v) /\ v.busy = TRUE /\ Timed(v)
        /\ v.nextTx = u.nextTx /\ v.mcps = u.mcps /\ v.mlme = u.mlme
        /\ v.queued = u.queued
        /\ Ticking(u.timers) => Ticking(v.timers)
    BY <2>4, Transmits
  <2> HIDE DEF v
  <2>6. v \in Nodes
    BY <2>5 DEF Typed
  <2>7. r \in Nodes
    BY <2>1, <2>6 DEF Nodes
  <2>8. /\ r.timers = v.timers /\ r.state = "SLEEP" /\ r.nextTx = v.nextTx
        /\ r.busy = v.busy /\ r.mcps = v.mcps /\ r.mlme = v.mlme
        /\ r.queued = v.queued
    BY <2>1, <2>6 DEF Nodes
  <2>9. Typed(r)
    BY <2>5, <2>7, <2>8, NewFlags
  <2>10. r.busy /\ r.mlme /\ r.queued
    BY <2>3, <2>5, <2>8
  <2>11. n.nextTx
    BY <1>3 DEF Requests
  <2>12. Requests(r) /\ WillWake(r)
    BY <2>3, <2>5, <2>8, <2>10, <2>11 DEF Requests, WillWake
  <2>13. Timed(r)
    BY <2>5, <2>8 DEF Timed
  <2> QED
    BY <2>3, <2>5, <2>8, <2>9, <2>12, <2>13 DEF Sound, r
<1> QED
  BY <1>2, <1>3

LEMMA Sends ==
  ASSUME NEW n, Typed(n), Requests(n), Timed(n), NEW refused \in BOOLEAN,
         NEW delay \in Nat
  PROVE  LET r == SendFrame(n, refused, delay)
         IN  /\ Typed(r) /\ Requests(r) /\ Timed(r)
             /\ Ticking(n.timers) => Ticking(r.timers)
<1> DEFINE r == SendFrame(n, refused, delay)
<1>1. n \in Nodes
  BY DEF Typed
<1>2. CASE n.busy \/ ~n.joined \/ refused
  <2>1. r = [n EXCEPT !.nextTx = TRUE]
    BY <1>2 DEF SendFrame
  <2> HIDE DEF r
  <2>2. r \in Nodes
    BY <1>1, <2>1 DEF Nodes
  <2>3. /\ r.timers = n.timers /\ r.nextTx = TRUE
        /\ r.busy = n.busy /\ r.mcps = n.mcps /\ r.mlme = n.mlme
    BY <1>1, <2>1 DEF Nodes
  <2>4. Typed(r)
    BY <2>2, <2>3, NewFlags
  <2>5. Requests(r) /\ Timed(r)
    BY <2>3 DEF Requests, Timed
  <2> QED
    BY <2>3, <2>4, <2>5 DEF r
<1>3. CASE ~(n.busy \/ ~n.joined \/ refused)
  <2> DEFINE u == [n EXCEPT !.mcps = TRUE]
             v == Transmit(u, delay)
  <2>1. r = [v EXCEPT !.nextTx = FALSE]
    BY <1>3 DEF SendFrame
  <2> HIDE DEF r
  <2>2. u \in Nodes
    BY <1>1 DEF Nodes
  <2>3. u.timers = n.timers /\ u.mcps = TRUE /\ u.mlme = n.mlme
    BY <1>1 DEF Nodes
  <2> HIDE DEF u
  <2>4. Typed(u)
    BY <2>2, <2>3, NewFlags
  <2>5. /\ Typed(v) /\ v.busy = TRUE /\ Timed(v)
        /\ v.mcps = u.mcps /\ v.mlme = u.mlme
        /\ Ticking(u.timers) => Ticking(v.timers)
    BY <2>4, Transmits
  <2> HIDE DEF v
  <2>6. v \in Nodes
    BY <2>5 DEF Typed
  <2>7. r \in Nodes
    BY <2>1, <2>6 DEF Nodes
  <2>8. /\ r.timers = v.timers /\ r.busy = v.busy /\ r.mcps = v.mcps
    BY <2>1, <2>6 DEF Nodes
  <2>9. Typed(r)
    BY <2>5, <2>7, <2>8, NewFlags
  <2>10. r.busy /\ r.mcps
    BY <2>3, <2>5, <2>8
  <2>11. Requests(r)
    BY <2>10 DEF Requests
  <2>12. Timed(r)
    BY <2>5, <2>8 DEF Timed
  <2> QED
    BY <2>3, <2>5, <2>8, <2>9, <2>11, <2>12 DEF r
<1> QED
  BY <1>2, <1>3

LEMMA TxNextPackets ==
  ASSUME NEW n, Typed(n), Requests(n), Timed(n), NEW delay \in Nat
  PROVE  LET r == OnTxNextPacketTimerEvent(n, delay)
         IN  /\ Sound(r) /\ r.state # "INIT"
             /\ Ticking(n.timers) => Ticking(r.timers)
<1> DEFINE u == Stop(n, "TxNextPacket")
           r == OnTxNextPacketTimerEvent(n, delay)
<1>1. /\ Typed(u) /\ SameFlags(u, n)
      /\ Armed(u.timers) = Armed(n.timers) \ {"TxNextPacket"}
      /\ Ticking(n.timers) => Ticking(u.timers)
  BY Stops, Ids
<1>2. r = IF n.joined THEN [u EXCEPT !.state = "SEND", !.nextTx = TRUE]
          ELSE MlmeJoin(u, delay)
  BY DEF OnTxNextPacketTimerEvent
<1> HIDE DEF r, u
<1>3. u \in Nodes
  BY <1>1 DEF Typed
<1>4. Requests(u) /\ Timed(u)
  <2>1. Requests(u)
    BY <1>1 DEF Requests, SameFlags
  <2>2. "TxNextPacket" \notin {"StateCheck", "TxDelayed"}
    OBVIOUS
  <2>3. Timed(u)
    BY <1>1, <2>2 DEF Timed, SameFlags
  <2> QED
    BY <2>1, <2>3
<1>5. CASE n.joined
  <2>1. r = [u EXCEPT !.state = "SEND", !.nextTx = TRUE]
    BY <1>2, <1>5
  <2>2. r \in Nodes
    BY <1>3, <2>1 DEF Nodes
  <2>3. /\ r.timers = u.timers /\ r.state = "SEND" /\ r.nextTx = TRUE
        /\ r.busy = u.busy /\ r.mcps = u.mcps /\ r.mlme = u.mlme
    BY <1>3, <2>1 DEF Nodes
  <2>4. Typed(r)
    BY <1>1, <2>2, <2>3, NewFlags
  <2>5. Requests(r) /\ Timed(r) /\ WillWake(r)
    BY <1>4, <2>3 DEF Requests, Timed, WillWake
  <2> QED
    BY <1>1, <2>3, <2>4, <2>5 DEF Sound, r
<1>6. CASE ~n.joined
  <2>1. r = MlmeJoin(u, delay)
    BY <1>2, <1>6
  <2>2. /\ Sound(r) /\ r.state # "INIT"
        /\ Ticking(u.timers) => Ticking(r.timers)
    BY <1>1, <1>4, <2>1, Joins
  <2> QED
    BY <1>1, <2>2 DEF r
<1> QED
  BY <1>5, <1>6

(* The confirms of a procedure that is over.                               *)
LEMMA Confirms ==
  ASSUME NEW n, Typed(n), n.busy = FALSE, ~n.nextTx => n.mcps,
         n.state = "SLEEP" => \/ "TxNextPacket" \in Armed(n.timers)
                              \/ n.mlme /\ n.queued
  PROVE  After(n, Confirmed(n))
<1> DEFINE data == IF n.mcps THEN McpsConfirm([n EXCEPT !.mcps = FALSE]) ELSE n
           join == IF data.mlme /\ data.queued THEN MlmeConfirm(data) ELSE data
           r == [join EXCEPT !.mlme = FALSE, !.queued = FALSE]
<1>1. r = Confirmed(n)
  BY DEF Confirmed
<1>2. n \in Nodes
  BY DEF Typed
<1>3. /\ data \in Nodes /\ data.timers = n.timers /\ data.state = n.state
      /\ data.nextTx = TRUE /\ data.mcps = FALSE /\ data.busy = n.busy
      /\ data.mlme = n.mlme /\ data.queued = n.queued /\ data.joined = n.joined
  <2>1. CASE n.mcps
    <3>1. data = [[n EXCEPT !.mcps = FALSE] EXCEPT !.nextTx = TRUE]
      BY <2>1 DEF McpsConfirm
    <3>2. data \in Nodes
      BY <1>2, <3>1 DEF Nodes
    <3> QED
      BY <1>2, <3>1, <3>2 DEF Nodes
  <2>2. CASE ~n.mcps
    <3>1. n.nextTx = TRUE /\ n.mcps = FALSE
      BY <1>2, <2>2 DEF Nodes
    <3> QED
      BY <1>2, <2>2, <3>1
  <2> QED
    BY <2>1, <2>2
<1> HIDE DEF data
<1>4. Typed(data)
  BY <1>3, NewFlags
<1>5. /\ Typed(join) /\ join.nextTx = TRUE /\ join.mcps = FALSE
      /\ join.busy = n.busy
      /\ join.state = "SLEEP" => "TxNextPacket" \in Armed(join.timers)
      /\ n.state # "INIT" => join.state # "INIT"
      /\ Ticking(n.timers) => Ticking(join.timers)
  <2>1. CASE ~(data.mlme /\ data.queued)
    <3>1. join = data
      BY <2>1
    <3> QED
      BY <1>3, <1>4, <2>1, <3>1
  <2>2. CASE data.mlme /\ data.queued /\ data.joined
    <3>1. join = [data EXCEPT !.state = "SEND", !.nextTx = TRUE]
      BY <2>2 DEF MlmeConfirm
    <3> HIDE DEF join
    <3>2. join \in Nodes
      BY <1>3, <3>1 DEF Nodes
    <3>3. /\ join.timers = data.timers /\ join.state = "SEND" /\ join.nextTx = TRUE
          /\ join.mcps = data.mcps /\ join.busy = data.busy
      BY <1>3, <3>1 DEF Nodes
    <3>4. Typed(join)
      BY <1>4, <3>2, <3>3, NewFlags
    <3> QED
      BY <1>3, <3>3, <3>4
  <2>3. CASE data.mlme /\ data.queued /\ ~data.joined
    <3> DEFINE u == Start(data, "TxNextPacket", RejoinDelay)
    <3>1. join = [u EXCEPT !.nextTx = TRUE]
      BY <2>3 DEF MlmeConfirm
    <3> HIDE DEF join
    <3>2. /\ Typed(u) /\ SameFlags(u, data)
          /\ Armed(u.timers) = Armed(data.timers) \cup {"TxNextPacket"}
          /\ Ticking(data.timers) => Ticking(u.timers)
      BY <1>4, Ids, Times, Starts
    <3> HIDE DEF u
    <3>3. u \in Nodes
      BY <3>2 DEF Typed
    <3>4. join \in Nodes
      BY <3>1, <3>3 DEF Nodes
    <3>5. /\ join.timers = u.timers /\ join.state = u.state /\ join.nextTx = TRUE
          /\ join.mcps = u.mcps /\ join.busy = u.busy
      BY <3>1, <3>3 DEF Nodes
    <3>6. Typed(join)
      BY <3>2, <3>4, <3>5, NewFlags
    <3>7. "TxNextPacket" \in Armed(join.timers)
      BY <3>2, <3>5
    <3>8. join.state = n.state /\ join.mcps = FALSE /\ join.busy = n.busy
      BY <1>3, <3>2, <3>5 DEF SameFlags
    <3> QED
      BY <1>3, <3>2, <3>5, <3>6, <3>7, <3>8
  <2> QED
    BY <2>1, <2>2, <2>3
<1> HIDE DEF join
<1>6. join \in Nodes
  BY <1>5 DEF Typed
<1>7. r \in Nodes
  BY <1>6 DEF Nodes
<1>8. /\ r.timers = join.timers /\ r.state = join.state /\ r.nextTx = join.nextTx
      /\ r.mcps = join.mcps /\ r.busy = join.busy /\ r.mlme = FALSE
  BY <1>6 DEF Nodes
<1> HIDE DEF r
<1>9. Typed(r)
  BY <1>5, <1>7, <1>8, NewFlags
<1>10. ~r.busy /\ ~r.mcps /\ ~r.mlme /\ r.nextTx
  BY <1>5, <1>8
<1>11. Requests(r) /\ Timed(r)
  BY <1>10 DEF Requests, Timed
<1>12. WillWake(r)
  BY <1>5, <1>8 DEF WillWake
<1> QED
  BY <1>1, <1>5, <1>8, <1>9, <1>11, <1>12 DEF After, Sound

LEMMA Indicates ==
  ASSUME NEW n, Sound(n), NEW r \in Reports
  PROVE  After(n, Indicated(n, r))
<1>1. r.delay \in Nat
  BY Times DEF Reports
<1>2. CASE r.pending
  <2>1. Indicated(n, r) = OnTxNextPacketTimerEvent(n, r.delay)
    BY <1>2 DEF Indicated
  <2> QED
    BY <1>1, <2>1, TxNextPackets DEF Sound, After
<1>3. CASE ~r.pending
  BY <1>3 DEF Indicated, After
<1> QED
  BY <1>2, <1>3

LEMMA StateChecks ==
  ASSUME NEW n, Typed(n), Requests(n), WillWake(n), NEW r \in Reports
  PROVE  After(n, OnMacStateCheck(n, r))
<1> DEFINE s == Stop(n, "StateCheck")
           stopped == [s EXCEPT !.joined = @ \/ r.accepted]
           waiting == [stopped EXCEPT !.busy = FALSE]
           ended == Confirmed(waiting)
           again == IF r.sticky THEN OnTxNextPacketTimerEvent(ended, r.delay)
                    ELSE ended
           sent == Transmit(stopped, r.delay)
           repeated == Start(sent, "StateCheck", 1)
<1>1. /\ Typed(s) /\ SameFlags(s, n)
      /\ Armed(s.timers) = Armed(n.timers) \ {"StateCheck"}
      /\ Ticking(n.timers) => Ticking(s.timers)
  BY Stops, Ids
<1>2. /\ r.delay \in Nat /\ r.accepted \in BOOLEAN
  BY Times DEF Reports
<1>3. OnMacStateCheck(n, r) = IF n.busy /\ ~r.over THEN Indicated(repeated, r)
                              ELSE Indicated(again, r)
  BY DEF OnMacStateCheck
<1> HIDE DEF s
<1>4. s \in Nodes
  BY <1>1 DEF Typed
<1>5. stopped \in Nodes
  <2> DEFINE joined == s.joined \/ r.accepted
  <2>1. joined \in BOOLEAN
    OBVIOUS
  <2>2. stopped = [s EXCEPT !.joined = joined]
    BY <1>4 DEF Nodes
  <2> HIDE DEF joined
  <2> QED
    BY <1>4, <2>1, <2>2 DEF Nodes
<1>6. /\ stopped.timers = s.timers /\ stopped.state = s.state
      /\ stopped.nextTx = s.nextTx /\ stopped.busy = s.busy
      /\ stopped.mcps = s.mcps /\ stopped.mlme = s.mlme
      /\ stopped.queued = s.queued
  BY <1>4 DEF Nodes
<1> HIDE DEF stopped
<1>7. Typed(stopped)
  BY <1>1, <1>5, <1>6, NewFlags
<1>8. /\ stopped.state = n.state /\ stopped.nextTx = n.nextTx
      /\ stopped.busy = n.busy /\ stopped.mcps = n.mcps /\ stopped.mlme = n.mlme
      /\ stopped.queued = n.queued
      /\ Ticking(n.timers) => Ticking(stopped.timers)
  BY <1>1, <1>6 DEF SameFlags
<1>9. "TxNextPacket" \in Armed(n.timers) => "TxNextPacket" \in Armed(stopped.timers)
  BY <1>1, <1>6
<1>10. ASSUME NEW q, After(n, q)
       PROVE  After(n, Indicated(q, r))
  <2>1. Sound(q)
    BY <1>10 DEF After
  <2>2. After(q, Indicated(q, r))
    BY <2>1, Indicates
  <2> QED
    BY <1>10, <2>2 DEF After
<1>11. CASE n.busy /\ ~r.over
  <2>1. /\ Typed(sent) /\ sent.busy = TRUE /\ Timed(sent)
        /\ Armed(stopped.timers) \subseteq Armed(sent.timers)
        /\ sent.state = stopped.state /\ sent.nextTx = stopped.nextTx
        /\ sent.mcps = stopped.mcps /\ sent.mlme = stopped.mlme
        /\ sent.queued = stopped.queued
        /\ Ticking(stopped.timers) => Ticking(sent.timers)
    BY <1>2, <1>7, Transmits
  <2> HIDE DEF sent
  <2>2. /\ Typed(repeated) /\ SameFlags(repeated, sent)
        /\ Armed(repeated.timers) = Armed(sent.timers) \cup {"StateCheck"}
        /\ Ticking(sent.timers) => Ticking(repeated.timers)
    BY <2>1, Ids, Times, Starts
  <2> HIDE DEF repeated
  <2>3. /\ repeated.state = n.state /\ repeated.nextTx = n.nextTx
        /\ repeated.busy = TRUE /\ repeated.mcps = n.mcps /\ repeated.mlme = n.mlme
        /\ repeated.queued = n.queued
    BY <1>8, <2>1, <2>2 DEF SameFlags
  <2>4. Requests(repeated)
    BY <2>3 DEF Requests
  <2>5. Timed(repeated)
    BY <2>2 DEF Timed
  <2>6. WillWake(repeated)
    BY <1>9, <2>1, <2>2, <2>3 DEF WillWake
  <2>7. After(n, repeated)
    BY <1>8, <2>1, <2>2, <2>3, <2>4, <2>5, <2>6 DEF After, Sound
  <2> QED
    BY <1>3, <1>10, <1>11, <2>7
<1>12. CASE ~(n.busy /\ ~r.over)
  <2>1. waiting \in Nodes
    BY <1>5 DEF Nodes
  <2>2. /\ waiting.timers = stopped.timers /\ waiting.state = stopped.state
        /\ waiting.nextTx = stopped.nextTx /\ waiting.busy = FALSE
        /\ waiting.mcps = stopped.mcps /\ waiting.mlme = stopped.mlme
        /\ waiting.queued = stopped.queued
    BY <1>5 DEF Nodes
  <2> HIDE DEF waiting
  <2>3. Typed(waiting)
    BY <1>7, <2>1, <2>2, NewFlags
  <2>4. ~waiting.nextTx => waiting.mcps
    BY <1>8, <2>2 DEF Requests
  <2>5. waiting.state = "SLEEP" => \/ "TxNextPacket" \in Armed(waiting.timers)
                                   \/ waiting.mlme /\ waiting.queued
    BY <1>8, <1>9, <2>2 DEF WillWake
  <2>6. After(waiting, ended)
    BY <2>2, <2>3, <2>4, <2>5, Confirms
  <2> HIDE DEF ended
  <2>7. After(n, ended)
    BY <1>8, <2>2, <2>6 DEF After
  <2>8. After(n, again)
    <3>1. CASE r.sticky
      <4>1. again = OnTxNextPacketTimerEvent(ended, r.delay)
        BY <3>1
      <4>2. Typed(ended) /\ Requests(ended) /\ Timed(ended)
        BY <2>7 DEF After, Sound
      <4>3. /\ Sound(again) /\ again.state # "INIT"
            /\ Ticking(ended.timers) => Ticking(again.timers)
        BY <1>2, <4>1, <4>2, TxNextPackets
      <4> QED
        BY <2>7, <4>3 DEF After
    <3>2. CASE ~r.sticky
      BY <2>7, <3>2
    <3> QED
      BY <3>1, <3>2
  <2> HIDE DEF again
  <2> QED
    BY <1>3, <1>10, <1>12, <2>8
<1> QED
  BY <1>11, <1>12

-----------------------------------------------------------------------------
(* The inductive invariant: the statics are sound; the head of the list    *)
(* has the alarm outside TimerIrqHandler; only setup() leads to INIT.      *)
Running ==
  /\ Sound(node)
  /\ pc \in {"LOOP", "MCU", "TIMERS"}
  /\ pc # "TIMERS" => Ticking(node.timers)
  /\ node.state = "INIT" => pc = "LOOP" /\ node.nextTx

LEMMA NoTimersGood ==
  Good(NoTimers) /\ Ticking(NoTimers)
<1> DEFINE t == NoTimers
           none == 0
           left == [id \in TimerIds |-> none]
<1>1. none \in Nat /\ none \in Int
  OBVIOUS
<1>2. /\ t.list = <<>> /\ t.running = FALSE
  BY DEF NoTimers
<1>3. t \in TimerLists
  <2>1. <<>> \in Seq(Timer)
    OBVIOUS
  <2>2. left \in [TimerIds -> Int]
    BY <1>1
  <2>3. t = [list |-> <<>>, running |-> FALSE, elapsed |-> none, alarm |-> none,
             left |-> left, late |-> none]
    BY DEF NoTimers
  <2>4. FALSE \in BOOLEAN
    OBVIOUS
  <2> HIDE DEF t, left, none
  <2> QED
    BY <1>1, <2>1, <2>2, <2>3, <2>4, Zenon DEF TimerLists
<1> HIDE DEF t
<1>4. 0 = Len(t.list) /\ Once(t.list)
  BY <1>2 DEF Once
<1>5. \A i \in 1 .. 0 : Drifts(t, i)
  OBVIOUS
<1>6. Good(t)
  BY <1>2, <1>3, <1>4, <1>5, GoodByEach
<1> QED
  BY <1>2, <1>6 DEF Ticking, t

NodesWith(types) ==
  [state : {"INIT", "JOIN", "SEND", "CYCLE", "SLEEP"}, nextTx : BOOLEAN,
   timers : types, busy : BOOLEAN, joined : BOOLEAN, mcps : BOOLEAN,
   mlme : BOOLEAN, queued : BOOLEAN, calls : Nat]

LEMMA NodesWithLists == Nodes = NodesWith(TimerLists)
BY DEF Nodes, NodesWith, TimerLists, Timer

(* setup() finds the MAC at rest.                                          *)
LEMMA Boots ==
  ASSUME NEW n, n \in Nodes, n.busy = FALSE, n.mcps = FALSE, n.mlme = FALSE
  PROVE  LET r == Boot(n)
         IN  Sound(r) /\ Ticking(r.timers) /\ r.nextTx = TRUE
<1> DEFINE t == NoTimers
           begun == [n EXCEPT !.nextTx = TRUE, !.timers = t, !.calls = 0]
           emptied == [begun EXCEPT !.queued = FALSE]
           reset == IF begun.joined THEN emptied
                    ELSE [emptied EXCEPT !.busy = FALSE, !.mcps = FALSE, !.mlme = FALSE]
           r == Boot(n)
<1>1. Good(t) /\ Ticking(t) /\ t \in TimerLists
  BY NoTimersGood DEF Good
<1>2. r = IF device[2] = "OTAA" THEN [begun EXCEPT !.state = "INIT", !.queued = FALSE]
          ELSE [reset EXCEPT !.state = "JOIN"]
  BY DEF Boot, LoRaMacInitialization
<1> HIDE DEF t, r
<1>3. n \in NodesWith(TimerLists)
  BY NodesWithLists
<1>4. begun \in NodesWith(TimerLists)
  BY <1>1, <1>3 DEF NodesWith
<1>5. /\ begun.nextTx = TRUE /\ begun.timers = t
      /\ begun.busy = FALSE /\ begun.mcps = FALSE /\ begun.mlme = FALSE
  BY <1>3 DEF NodesWith
<1> HIDE DEF begun
<1>6. /\ emptied \in NodesWith(TimerLists)
      /\ emptied.nextTx = TRUE /\ emptied.timers = t
      /\ emptied.busy = FALSE /\ emptied.mcps = FALSE /\ emptied.mlme = FALSE
  BY <1>4, <1>5 DEF NodesWith
<1> HIDE DEF emptied
<1>7. /\ reset \in NodesWith(TimerLists)
      /\ reset.nextTx = TRUE /\ reset.timers = t
      /\ reset.busy = FALSE /\ reset.mcps = FALSE /\ reset.mlme = FALSE
  BY <1>6 DEF NodesWith
<1> HIDE DEF reset
<1>8. /\ r \in NodesWith(TimerLists) /\ r.state # "SLEEP"
      /\ r.nextTx = TRUE /\ r.timers = t
      /\ r.busy = FALSE /\ r.mcps = FALSE /\ r.mlme = FALSE
  <2>1. CASE device[2] = "OTAA"
    BY <1>2, <1>4, <1>5, <2>1 DEF NodesWith
  <2>2. CASE device[2] # "OTAA"
    BY <1>2, <1>7, <2>2 DEF NodesWith
  <2> QED
    BY <2>1, <2>2
<1>9. Typed(r)
  BY <1>1, <1>8, NodesWithLists DEF Typed
<1>10. ~r.busy /\ ~r.mcps /\ ~r.mlme /\ r.nextTx
  BY <1>8
<1>11. Requests(r) /\ Timed(r) /\ WillWake(r)
  BY <1>8, <1>10 DEF Requests, Timed, WillWake
<1> QED
  BY <1>1, <1>8, <1>9, <1>11 DEF Sound, r

LEMMA InitRunning == Init => Running
<1> SUFFICES ASSUME Init
             PROVE  Running
  OBVIOUS
<1> DEFINE t == NoTimers
           n == PowerOn
<1>1. t \in TimerLists
  BY NoTimersGood DEF Good
<1>2. n = [state |-> "INIT", nextTx |-> TRUE, timers |-> t, busy |-> FALSE,
           joined |-> FALSE, mcps |-> FALSE, mlme |-> FALSE, queued |-> FALSE,
           calls |-> 0]
  BY DEF PowerOn
<1> HIDE DEF t, n
<1>3. n \in NodesWith(TimerLists)
  BY <1>1, <1>2 DEF NodesWith
<1>4. n.busy = FALSE /\ n.mcps = FALSE /\ n.mlme = FALSE
  BY <1>2
<1>5. LET r == Boot(n)
      IN  Sound(r) /\ Ticking(r.timers) /\ r.nextTx = TRUE
  BY <1>3, <1>4, NodesWithLists, Boots
<1>6. node = Boot(n) /\ pc = "LOOP"
  BY DEF Init, n
<1> QED
  BY <1>5, <1>6 DEF Running

(* A deep sleep comes only when the MAC is at rest.                        *)
LEMMA AtRest ==
  ASSUME Running, MayDeepSleep
  PROVE  /\ node.busy = FALSE /\ node.mcps = FALSE /\ node.mlme = FALSE
<1>1. Armed(node.timers) \cap {"StateCheck", "TxDelayed"} = {}
  BY DEF MayDeepSleep
<1>2. Requests(node) /\ Timed(node) /\ node \in Nodes
  BY DEF Running, Sound, Typed
<1>3. ~node.busy
  BY <1>1, <1>2 DEF Timed
<1>4. ~node.mcps /\ ~node.mlme
  BY <1>2, <1>3 DEF Requests
<1>5. node.busy \in BOOLEAN /\ node.mcps \in BOOLEAN /\ node.mlme \in BOOLEAN
  BY <1>2 DEF Nodes
<1> QED
  BY <1>3, <1>4, <1>5

(* The steps of the loop.                                                  *)
LEMMA LoopInitRunning ==
  ASSUME Running, LoopInit
  PROVE  Running'
<1> DEFINE n == LoRaMacInitialization(node)
           begun == Stop(n, "TxNextPacket")
<1>1. /\ pc = "LOOP" /\ node.state = "INIT" /\ pc' = pc
      /\ node' = [begun EXCEPT !.state = IF node.joined THEN "SEND" ELSE "JOIN"]
  BY DEF LoopInit, LoopIn
<1>2. /\ node \in Nodes /\ Typed(node) /\ Requests(node) /\ Timed(node)
      /\ Ticking(node.timers) /\ node.nextTx
  BY <1>1 DEF Running, Sound, Typed
<1>3. n = IF node.joined THEN [node EXCEPT !.queued = FALSE]
          ELSE [[node EXCEPT !.queued = FALSE] EXCEPT
                  !.busy = FALSE, !.mcps = FALSE, !.mlme = FALSE]
  BY DEF LoRaMacInitialization
<1> HIDE DEF n
<1>4. /\ Typed(n) /\ Requests(n) /\ Timed(n) /\ n.timers = node.timers
  <2>1. CASE node.joined
    <3>1. n = [node EXCEPT !.queued = FALSE]
      BY <1>3, <2>1
    <3>2. n \in Nodes
      BY <1>2, <3>1 DEF Nodes
    <3>3. /\ n.timers = node.timers /\ n.nextTx = node.nextTx /\ n.busy = node.busy
          /\ n.mcps = node.mcps /\ n.mlme = node.mlme
      BY <1>2, <3>1 DEF Nodes
    <3>4. Typed(n)
      BY <1>2, <3>2, <3>3, NewFlags
    <3> QED
      BY <1>2, <3>3, <3>4 DEF Requests, Timed
  <2>2. CASE ~node.joined
    <3> DEFINE u == [node EXCEPT !.queued = FALSE]
    <3>1. n = [u EXCEPT !.busy = FALSE, !.mcps = FALSE, !.mlme = FALSE]
      BY <1>3, <2>2
    <3>2. u \in Nodes
      BY <1>2 DEF Nodes
    <3>3. u.timers = node.timers /\ u.nextTx = node.nextTx
      BY <1>2 DEF Nodes
    <3> HIDE DEF u
    <3>4. n \in Nodes
      BY <3>1, <3>2 DEF Nodes
    <3>5. /\ n.timers = u.timers /\ n.nextTx = u.nextTx /\ n.busy = FALSE
          /\ n.mcps = FALSE /\ n.mlme = FALSE
      BY <3>1, <3>2 DEF Nodes
    <3>6. Typed(n)
      BY <1>2, <3>3, <3>4, <3>5, NewFlags
    <3>7. n.nextTx /\ ~n.busy /\ ~n.mcps /\ ~n.mlme
      BY <1>2, <3>3, <3>5
    <3> QED
      BY <3>3, <3>5, <3>6, <3>7 DEF Requests, Timed
  <2> QED
    BY <2>1, <2>2
<1>5. /\ Typed(begun) /\ SameFlags(begun, n)
      /\ Armed(begun.timers) = Armed(n.timers) \ {"TxNextPacket"}
      /\ Ticking(n.timers) => Ticking(begun.timers)
  BY <1>4, Ids, Stops
<1> HIDE DEF begun
<1>6. Requests(begun) /\ Timed(begun) /\ begun \in Nodes
  <2>1. Requests(begun)
    BY <1>4, <1>5 DEF Requests, SameFlags
  <2>2. Timed(begun)
    BY <1>4, <1>5 DEF Timed, SameFlags
  <2> QED
    BY <1>5, <2>1, <2>2 DEF Typed
<1>7. node' \in Nodes
  BY <1>1, <1>6 DEF Nodes
<1>8. /\ node'.timers = begun.timers /\ node'.nextTx = begun.nextTx
      /\ node'.busy = begun.busy /\ node'.mcps = begun.mcps
      /\ node'.mlme = begun.mlme /\ node'.state \in {"SEND", "JOIN"}
  BY <1>1, <1>6 DEF Nodes
<1>9. Typed(node')
  BY <1>5, <1>7, <1>8, NewFlags
<1>10. Requests(node') /\ Timed(node') /\ WillWake(node')
  BY <1>6, <1>8 DEF Requests, Timed, WillWake
<1> QED
  BY <1>1, <1>2, <1>4, <1>5, <1>8, <1>9, <1>10 DEF Running, Sound

LEMMA LoopJoinRunning ==
  ASSUME Running, NEW delay \in Delays \cup {0}, LoopJoin(delay)
  PROVE  Running'
<1>1. pc = "LOOP" /\ pc' = pc /\ node' = MlmeJoin(node, delay)
  BY DEF LoopJoin, LoopIn
<1>2. /\ Typed(node) /\ Requests(node) /\ Timed(node) /\ Ticking(node.timers)
  BY <1>1 DEF Running, Sound
<1>3. /\ Sound(node') /\ node'.state # "INIT" /\ Ticking(node'.timers)
  BY <1>1, <1>2, Times, Joins
<1> QED
  BY <1>1, <1>3 DEF Running

LEMMA LoopSendRunning ==
  ASSUME Running, NEW refused \in BOOLEAN, NEW delay \in Delays \cup {0},
         LoopSend(refused, delay)
  PROVE  Running'
<1> DEFINE n == IF node.nextTx THEN SendFrame(node, refused, delay) ELSE node
<1>1. pc = "LOOP" /\ pc' = pc /\ node' = [n EXCEPT !.state = "CYCLE"]
  BY DEF LoopSend, LoopIn
<1>2. /\ Typed(node) /\ Requests(node) /\ Timed(node) /\ Ticking(node.timers)
  BY <1>1 DEF Running, Sound
<1>3. Typed(n) /\ Requests(n) /\ Timed(n) /\ Ticking(n.timers)
  <2>1. CASE node.nextTx
    <3>1. n = SendFrame(node, refused, delay)
      BY <2>1
    <3> HIDE DEF n
    <3> QED
      BY <1>2, <3>1, Times, Sends
  <2>2. CASE ~node.nextTx
    BY <1>2, <2>2
  <2> QED
    BY <2>1, <2>2
<1> HIDE DEF n
<1>4. n \in Nodes
  BY <1>3 DEF Typed
<1>5. node' \in Nodes
  BY <1>1, <1>4 DEF Nodes
<1>6. /\ node'.timers = n.timers /\ node'.nextTx = n.nextTx
      /\ node'.busy = n.busy /\ node'.mcps = n.mcps
      /\ node'.mlme = n.mlme /\ node'.state = "CYCLE"
  BY <1>1, <1>4 DEF Nodes
<1>7. Typed(node')
  BY <1>3, <1>5, <1>6, NewFlags
<1>8. Requests(node') /\ Timed(node') /\ WillWake(node')
  BY <1>3, <1>6 DEF Requests, Timed, WillWake
<1> QED
  BY <1>1, <1>3, <1>6, <1>7, <1>8 DEF Running, Sound

LEMMA LoopCycleRunning ==
  ASSUME Running, NEW dutyCycle \in DutyCycles, LoopCycle(dutyCycle)
  PROVE  Running'
<1> DEFINE n == Start(node, "TxNextPacket", dutyCycle)
<1>1. pc = "LOOP" /\ pc' = pc /\ node' = [n EXCEPT !.state = "SLEEP"]
  BY DEF LoopCycle, LoopIn
<1>2. /\ Typed(node) /\ Requests(node) /\ Timed(node) /\ Ticking(node.timers)
  BY <1>1 DEF Running, Sound
<1>3. /\ Typed(n) /\ SameFlags(n, node)
      /\ Armed(n.timers) = Armed(node.timers) \cup {"TxNextPacket"}
      /\ Ticking(node.timers) => Ticking(n.timers)
  BY <1>2, Ids, Times, Starts
<1> HIDE DEF n
<1>4. n \in Nodes
  BY <1>3 DEF Typed
<1>5. node' \in Nodes
  BY <1>1, <1>4 DEF Nodes
<1>6. /\ node'.timers = n.timers /\ node'.nextTx = n.nextTx
      /\ node'.busy = n.busy /\ node'.mcps = n.mcps
      /\ node'.mlme = n.mlme /\ node'.state = "SLEEP"
  BY <1>1, <1>4 DEF Nodes
<1>7. Typed(node')
  BY <1>3, <1>5, <1>6, NewFlags
<1>8. Requests(node')
  BY <1>2, <1>3, <1>6 DEF Requests, SameFlags
<1>9. Timed(node')
  BY <1>2, <1>3, <1>6 DEF Timed, SameFlags
<1>10. WillWake(node')
  BY <1>3, <1>6 DEF WillWake
<1> QED
  BY <1>1, <1>2, <1>3, <1>6, <1>7, <1>8, <1>9, <1>10 DEF Running, Sound

LEMMA RadioRunning ==
  ASSUME Running, RadioQuiet \/ RadioTxDone \/ \E r \in Reports : RadioChecks(r)
  PROVE  Running'
<1>1. /\ Sound(node) /\ Typed(node) /\ Requests(node) /\ Timed(node)
      /\ WillWake(node)
  BY DEF Running, Sound
<1>2. CASE RadioQuiet
  BY <1>2 DEF RadioQuiet, LoopIn, Running
<1>3. CASE RadioTxDone
  <2>1. /\ pc = "LOOP" /\ node.state = "SLEEP" /\ pc' = "MCU"
        /\ node' = Start(node, "Window", 1)
    BY <1>3 DEF RadioTxDone, LoopIn
  <2>2. /\ Typed(node') /\ SameFlags(node', node)
        /\ Armed(node'.timers) = Armed(node.timers) \cup {"Window"}
        /\ Ticking(node.timers) => Ticking(node'.timers)
    BY <1>1, <2>1, Ids, Times, Starts
  <2>3. Requests(node')
    BY <1>1, <2>2 DEF Requests, SameFlags
  <2>4. Timed(node')
    BY <1>1, <2>2 DEF Timed, SameFlags
  <2>5. WillWake(node')
    BY <1>1, <2>2 DEF WillWake, SameFlags
  <2>6. Ticking(node.timers) /\ node'.state = "SLEEP"
    BY <2>1, <2>2 DEF Running, SameFlags
  <2> QED
    BY <2>1, <2>2, <2>3, <2>4, <2>5, <2>6 DEF Running, Sound
<1>4. ASSUME NEW r \in Reports, RadioChecks(r)
      PROVE  Running'
  <2>1. /\ pc = "LOOP" /\ node.state = "SLEEP" /\ pc' = "MCU"
        /\ node' = OnMacStateCheck(node, r)
    BY <1>4 DEF RadioChecks, LoopIn
  <2>2. After(node, node')
    BY <1>1, <2>1, StateChecks
  <2> QED
    BY <2>1, <2>2 DEF After, Running
<1> QED
  BY <1>2, <1>3, <1>4

(* The steps of Mcu.sleep.                                                 *)
LEMMA AwakeRunning ==
  ASSUME Running, McuAwake
  PROVE  Running'
<1>1. pc = "MCU" /\ pc' = "LOOP" /\ node' = [node EXCEPT !.calls = @ + 1]
  BY DEF McuAwake
<1>2. /\ node \in Nodes /\ Typed(node) /\ Requests(node) /\ Timed(node)
      /\ WillWake(node) /\ Ticking(node.timers) /\ node.state # "INIT"
  BY <1>1 DEF Running, Sound, Typed
<1> DEFINE calls == node.calls + 1
<1>. node \in NodesWith(TimerLists)
  BY <1>2, NodesWithLists
<1>. calls \in Nat
  BY DEF NodesWith
<1>. node' = [node EXCEPT !.calls = calls]
  BY <1>1
<1> HIDE DEF calls
<1>3. node' \in Nodes
  <2>1. node' \in NodesWith(TimerLists)
    BY DEF NodesWith
  <2> QED
    BY <2>1, NodesWithLists
<1>4. /\ node'.timers = node.timers /\ node'.state = node.state
      /\ node'.nextTx = node.nextTx /\ node'.busy = node.busy
      /\ node'.mcps = node.mcps /\ node'.mlme = node.mlme
      /\ node'.queued = node.queued
  BY DEF NodesWith
<1>5. Typed(node')
  BY <1>2, <1>3, <1>4, NewFlags
<1>6. Requests(node') /\ Timed(node') /\ WillWake(node')
  BY <1>2, <1>4 DEF Requests, Timed, WillWake
<1> QED
  BY <1>1, <1>2, <1>4, <1>5, <1>6 DEF Running, Sound

LEMMA DeepSleepRunning ==
  ASSUME Running, DeepSleep
  PROVE  Running'
<1>1. MayDeepSleep /\ node' = Boot(node) /\ pc' = "LOOP"
  BY DEF DeepSleep
<1>2. node.busy = FALSE /\ node.mcps = FALSE /\ node.mlme = FALSE
  BY <1>1, AtRest
<1>3. node \in Nodes
  BY DEF Running, Sound, Typed
<1>4. Sound(node') /\ Ticking(node'.timers) /\ node'.nextTx = TRUE
  BY <1>1, <1>2, <1>3, Boots
<1> QED
  BY <1>1, <1>4 DEF Running

(* TimerIrqHandler changes the timers, and keeps those that run.           *)
LEMMA TimersRunning ==
  ASSUME Running, NEW t, Good(t), Armed(t) = Armed(node.timers),
         node' = [node EXCEPT !.timers = t]
  PROVE  Sound(node') /\ node'.timers = t /\ SameFlags(node', node)
<1>1. /\ node \in Nodes /\ Requests(node) /\ Timed(node) /\ WillWake(node)
  BY DEF Running, Sound, Typed
<1>2. Typed(node') /\ SameFlags(node', node) /\ node'.timers = t
  BY <1>1, NewTimers
<1>3. Requests(node')
  BY <1>1, <1>2 DEF Requests, SameFlags
<1>4. Timed(node')
  BY <1>1, <1>2 DEF Timed, SameFlags
<1>5. WillWake(node')
  BY <1>1, <1>2 DEF WillWake, SameFlags
<1> QED
  BY <1>2, <1>3, <1>4, <1>5 DEF Sound

LEMMA McuTimersRunning ==
  ASSUME Running, McuTimers
  PROVE  Running'
<1>1. pc = "MCU"
  BY DEF McuTimers
<1>2. node.state # "INIT" /\ Ticking(node.timers) /\ Good(node.timers)
  BY <1>1 DEF Running, Sound, Typed
<1>3. CASE node.timers.list # <<>> /\ node.timers.alarm <= 0
  <2> DEFINE t == IrqBegin(node.timers)
  <2>1. node' = [node EXCEPT !.timers = t] /\ pc' = "TIMERS"
    BY <1>3 DEF McuTimers
  <2>2. Good(t) /\ Armed(t) = Armed(node.timers)
    BY <1>2, <1>3, IrqBegins
  <2> HIDE DEF t
  <2>3. Sound(node') /\ SameFlags(node', node)
    BY <2>1, <2>2, TimersRunning
  <2> QED
    BY <1>2, <2>1, <2>3 DEF Running, SameFlags
<1>4. CASE ~(node.timers.list # <<>> /\ node.timers.alarm <= 0)
  <2>1. node' = node /\ pc' = "LOOP"
    BY <1>4 DEF McuTimers
  <2> QED
    BY <1>2, <2>1 DEF Running
<1> QED
  BY <1>3, <1>4

LEMMA TimersDoneRunning ==
  ASSUME Running, TimersDone
  PROVE  Running'
<1> DEFINE t == IrqEnd(node.timers)
<1>1. pc = "TIMERS" /\ pc' = "LOOP" /\ node' = [node EXCEPT !.timers = t]
  BY DEF TimersDone
<1>2. node.state # "INIT" /\ Good(node.timers)
  BY <1>1 DEF Running, Sound, Typed
<1>3. Good(t) /\ Armed(t) = Armed(node.timers) /\ Ticking(t)
  BY <1>2, IrqEnds
<1> HIDE DEF t
<1>4. Sound(node') /\ node'.timers = t /\ SameFlags(node', node)
  BY <1>1, <1>3, TimersRunning
<1> QED
  BY <1>1, <1>2, <1>3, <1>4 DEF Running, SameFlags

LEMMA TimePassesRunning ==
  ASSUME Running, TimePasses
  PROVE  Running'
<1> DEFINE t == Tick(node.timers)
<1>1. pc' = pc /\ node' = [node EXCEPT !.timers = t]
  BY DEF TimePasses
<1>2. Good(node.timers)
  BY DEF Running, Sound, Typed
<1>3. /\ Good(t) /\ Armed(t) = Armed(node.timers)
      /\ Ticking(node.timers) => Ticking(t)
  BY <1>2, Ticks
<1> HIDE DEF t
<1>4. Sound(node') /\ node'.timers = t /\ SameFlags(node', node)
  BY <1>1, <1>3, TimersRunning
<1> QED
  BY <1>1, <1>3, <1>4 DEF Running, SameFlags

(* The timer callbacks.                                                    *)
LEMMA Fires ==
  ASSUME Running, NEW id \in TimerIds, Fire(id)
  PROVE  /\ Typed(Fired) /\ SameFlags(Fired, node)
         /\ Armed(Fired.timers) = Armed(node.timers) \ {id}
         /\ Requests(Fired) /\ node.state # "INIT"
         /\ pc = "TIMERS" /\ pc' = pc
<1> DEFINE t == TakeHead(node.timers)
<1>1. /\ pc = "TIMERS" /\ pc' = pc /\ HeadDue(node.timers)
      /\ node.timers.list[1].id = id
  BY DEF Fire
<1>2. /\ node.state # "INIT" /\ node \in Nodes /\ Good(node.timers)
      /\ Requests(node)
  BY <1>1 DEF Running, Sound, Typed
<1>3. Good(t) /\ Armed(t) = Armed(node.timers) \ {id}
  BY <1>1, <1>2, HeadTaken
<1>4. Fired = [node EXCEPT !.timers = t]
  BY DEF Fired
<1> HIDE DEF t
<1>5. Typed(Fired) /\ SameFlags(Fired, node) /\ Fired.timers = t
  BY <1>2, <1>3, <1>4, NewTimers
<1>6. Requests(Fired)
  BY <1>2, <1>5 DEF Requests, SameFlags
<1> QED
  BY <1>1, <1>2, <1>3, <1>5, <1>6

LEMMA FireTxNextPacketRunning ==
  ASSUME Running, NEW delay \in Delays \cup {0}, FireTxNextPacket(delay)
  PROVE  Running'
<1>1. Fire("TxNextPacket") /\ node' = OnTxNextPacketTimerEvent(Fired, delay)
  BY DEF FireTxNextPacket
<1>2. /\ Typed(Fired) /\ SameFlags(Fired, node)
      /\ Armed(Fired.timers) = Armed(node.timers) \ {"TxNextPacket"}
      /\ Requests(Fired) /\ pc = "TIMERS" /\ pc' = pc
  BY <1>1, Ids, Fires
<1>3. Timed(Fired)
  BY <1>2 DEF Timed, SameFlags, Running, Sound
<1>4. Sound(node') /\ node'.state # "INIT"
  BY <1>1, <1>2, <1>3, Times, TxNextPackets
<1> QED
  BY <1>2, <1>4 DEF Running

LEMMA FireStateCheckRunning ==
  ASSUME Running, NEW r \in Reports, FireStateCheck(r)
  PROVE  Running'
<1>1. Fire("StateCheck") /\ node' = OnMacStateCheck(Fired, r)
  BY DEF FireStateCheck
<1>2. /\ Typed(Fired) /\ SameFlags(Fired, node)
      /\ Armed(Fired.timers) = Armed(node.timers) \ {"StateCheck"}
      /\ Requests(Fired) /\ node.state # "INIT" /\ pc = "TIMERS" /\ pc' = pc
  BY <1>1, Ids, Fires
<1>3. WillWake(Fired)
  BY <1>2 DEF WillWake, SameFlags, Running, Sound
<1>4. After(Fired, node')
  BY <1>1, <1>2, <1>3, StateChecks
<1> QED
  BY <1>2, <1>4 DEF Running, After, SameFlags

LEMMA FireTxDelayedRunning ==
  ASSUME Running, NEW delay \in Delays \cup {0}, FireTxDelayed(delay)
  PROVE  Running'
<1>1. Fire("TxDelayed") /\ node' = Transmit(Fired, delay)
  BY DEF FireTxDelayed
<1>2. /\ Typed(Fired) /\ SameFlags(Fired, node)
      /\ Armed(Fired.timers) = Armed(node.timers) \ {"TxDelayed"}
      /\ Requests(Fired) /\ node.state # "INIT" /\ pc = "TIMERS" /\ pc' = pc
  BY <1>1, Ids, Fires
<1>3. WillWake(Fired)
  BY <1>2 DEF WillWake, SameFlags, Running, Sound
<1>4. /\ Typed(node') /\ node'.busy = TRUE /\ Timed(node')
      /\ Armed(Fired.timers) \subseteq Armed(node'.timers)
      /\ node'.state = Fired.state /\ node'.nextTx = Fired.nextTx
      /\ node'.mcps = Fired.mcps /\ node'.mlme = Fired.mlme
      /\ node'.queued = Fired.queued
  BY <1>1, <1>2, Times, Transmits
<1>5. node'.busy
  BY <1>4
<1>6. Requests(node')
  BY <1>2, <1>4, <1>5 DEF Requests
<1>7. WillWake(node')
  BY <1>3, <1>4, <1>5 DEF WillWake
<1> QED
  BY <1>2, <1>4, <1>6, <1>7 DEF Running, Sound, SameFlags

LEMMA FireWindowRunning ==
  ASSUME Running, FireWindow
  PROVE  Running'
<1>1. Fire("Window") /\ node' = Fired
  BY DEF FireWindow
<1>2. /\ Typed(Fired) /\ SameFlags(Fired, node)
      /\ Armed(Fired.timers) = Armed(node.timers) \ {"Window"}
      /\ Requests(Fired) /\ node.state # "INIT" /\ pc = "TIMERS" /\ pc' = pc
  BY <1>1, Ids, Fires
<1>3. Timed(Fired)
  BY <1>2 DEF Timed, SameFlags, Running, Sound
<1>4. WillWake(Fired)
  BY <1>2 DEF WillWake, SameFlags, Running, Sound
<1> QED
  BY <1>1, <1>2, <1>3, <1>4 DEF Running, Sound, SameFlags

-----------------------------------------------------------------------------
(* Whatever the sketch, the MAC and the timers do, and however late, the   *)
(* statics are sound, the list's head has the alarm whenever no interrupt  *)
(* is being handled, and a device in INIT is one that setup() just left.   *)
THEOREM InvarianceRunning == Spec => []Running
<1>1. Init => Running
  BY InitRunning
<1>2. Running /\ [Next]_vars => Running'
  <2> SUFFICES ASSUME Running, [Next]_vars
               PROVE  Running'
    OBVIOUS
  <2>1. CASE LoopInit
    BY <2>1, LoopInitRunning
  <2>2. CASE \E delay \in Delays \cup {0} : LoopJoin(delay)
    BY <2>2, LoopJoinRunning
  <2>3. CASE \E delay \in Delays \cup {0} : \E refused \in BOOLEAN :
               LoopSend(refused, delay)
    BY <2>3, LoopSendRunning
  <2>4. CASE \E dutyCycle \in DutyCycles : LoopCycle(dutyCycle)
    BY <2>4, LoopCycleRunning
  <2>5. CASE RadioQuiet \/ RadioTxDone \/ \E r \in Reports : RadioChecks(r)
    BY <2>5, RadioRunning
  <2>6. CASE McuAwake
    BY <2>6, AwakeRunning
  <2>7. CASE DeepSleep
    BY <2>7, DeepSleepRunning
  <2>8. CASE McuTimers
    BY <2>8, McuTimersRunning
  <2>9. CASE \E delay \in Delays \cup {0} : FireTxNextPacket(delay)
    BY <2>9, FireTxNextPacketRunning
  <2>10. CASE \E delay \in Delays \cup {0} : FireTxDelayed(delay)
    BY <2>10, FireTxDelayedRunning
  <2>11. CASE \E r \in Reports : FireStateCheck(r)
    BY <2>11, FireStateCheckRunning
  <2>12. CASE FireWindow
    BY <2>12, FireWindowRunning
  <2>13. CASE TimersDone
    BY <2>13, TimersDoneRunning
  <2>14. CASE TimePasses
    BY <2>14, TimePassesRunning
  <2>15. CASE UNCHANGED vars
    BY <2>15 DEF vars, Running
  <2> QED
    BY <2>1, <2>2, <2>3, <2>4, <2>5, <2>6, <2>7, <2>8, <2>9, <2>10, <2>11, <2>12,
       <2>13, <2>14, <2>15 DEF Next, Loop, Mcu
<1> QED
  BY <1>1, <1>2, PTL DEF Spec

(* The statics and the timer list have their types.                        *)
THEOREM TypesKept == Spec => []TypeOK
<1>1. Running => TypeOK
  BY DEF Running, Sound, Typed, TypeOK
<1> QED
  BY <1>1, InvarianceRunning, PTL

(* Every timer is in the list once, none expires before its time or later  *)
(* than the loop is late, and the alarm is the head's: whatever is         *)
(* started, stopped and fired, in every order.                             *)
THEOREM TimersOnTime == Spec => []OnTime
<1>1. Running => OnTime
  <2> SUFFICES ASSUME Running
               PROVE  OnTime
    OBVIOUS
  <2>1. Good(node.timers) /\ (pc # "TIMERS" => Ticking(node.timers))
    BY DEF Running, Sound, Typed
  <2> QED
    BY <2>1 DEF OnTime, Good, Ticking, AlarmOfHead
<1> QED
  BY <1>1, InvarianceRunning, PTL

(* A sleeping sketch has its send timer, or an open join.                  *)
THEOREM SleeperWakes == Spec => []Wakes
<1>1. Running => Wakes
  BY DEF Running, Sound, WillWake, Wakes
<1> QED
  BY <1>1, InvarianceRunning, PTL

(* NextTx waits for an open request, and a busy MAC has a timer.           *)
THEOREM NeverBlocked == Spec => []Unblocked
<1>1. Running => Unblocked
  BY DEF Running, Sound, Requests, Timed, Unblocked
<1> QED
  BY <1>1, InvarianceRunning, PTL

(* No deep sleep forgets a request, or a MAC that is busy.                 *)
THEOREM DeepSleepAtRest == Spec => SleepsAtRest
<1>1. Running /\ [Next]_vars =>
        [DeepSleep => ~node.busy /\ ~node.mcps /\ ~node.mlme]_vars
  <2> SUFFICES ASSUME Running, DeepSleep
               PROVE  ~node.busy /\ ~node.mcps /\ ~node.mlme
    OBVIOUS
  <2>1. MayDeepSleep
    BY DEF DeepSleep
  <2>2. node.busy = FALSE /\ node.mcps = FALSE /\ node.mlme = FALSE
    BY <2>1, AtRest
  <2> QED
    BY <2>2
<1> QED
  BY <1>1, InvarianceRunning, PTL DEF Spec, SleepsAtRest
=============================================================================
