---------------------------- MODULE TimingProofs ----------------------------
(***************************************************************************)
(* What Timing checks of tickers and aggregators, for every interval,      *)
(* period, jitter, grace, delay and precision; of the ticker as long as it *)
(* is no later than its interval leaves room for.                          *)
(***************************************************************************)
EXTENDS Timing, TLAPS

-----------------------------------------------------------------------------
(* Arithmetic. *)

(* A multiple of n strictly between -n and n is zero. *)
LEMMA SmallMultiple ==
  ASSUME NEW n \in Nat \ {0}, NEW k \in Int, -n < n * k, n * k < n
  PROVE  k = 0
<1>1. CASE k >= 1
  <2>1. n * k >= n
    BY <1>1
  <2> QED
    BY <2>1
<1>2. CASE k <= -1
  <2>1. n * k <= -n
    BY <1>2
  <2> QED
    BY <2>1
<1> QED
  BY <1>1, <1>2

(* Division with remainder. *)
LEMMA DivMod ==
  ASSUME NEW n \in Nat \ {0}, NEW x \in Int
  PROVE  /\ x % n \in 0..(n - 1) /\ x \div n \in Int
         /\ x = n * (x \div n) + (x % n)
  OBVIOUS

(* The remainder of a number between two multiples. *)
LEMMA ModShift ==
  ASSUME NEW n \in Nat \ {0}, NEW s \in Int, s % n = 0, NEW r \in 0..(n - 1)
  PROVE  (s + r) % n = r
<1>0. s + r \in Int
  OBVIOUS
<1>1. s = n * (s \div n) /\ s \div n \in Int
  BY DivMod
<1>2. /\ s + r = n * ((s + r) \div n) + ((s + r) % n)
      /\ (s + r) \div n \in Int /\ (s + r) % n \in 0..(n - 1)
  BY <1>0, DivMod, Zenon
<1>3. n * ((s \div n) - ((s + r) \div n)) = ((s + r) % n) - r
  BY <1>1, <1>2
<1>4. (s \div n) - ((s + r) \div n) = 0
  BY <1>1, <1>2, <1>3, SmallMultiple
<1> QED
  BY <1>2, <1>3, <1>4

(* The multiple after a multiple. *)
LEMMA ModNext ==
  ASSUME NEW n \in Nat \ {0}, NEW s \in Int, s % n = 0
  PROVE  (s + n) % n = 0
<1>0. s + n \in Int
  OBVIOUS
<1>1. s = n * (s \div n) /\ s \div n \in Int
  BY DivMod
<1>2. /\ s + n = n * ((s + n) \div n) + ((s + n) % n)
      /\ (s + n) \div n \in Int /\ (s + n) % n \in 0..(n - 1)
  BY <1>0, DivMod, Zenon
<1>3. n * ((s \div n) + 1 - ((s + n) \div n)) = (s + n) % n
  BY <1>1, <1>2
<1>4. (s \div n) + 1 - ((s + n) \div n) = 0
  BY <1>1, <1>2, <1>3, SmallMultiple
<1> QED
  BY <1>3, <1>4

(* The multiple before a multiple. *)
LEMMA ModPrevious ==
  ASSUME NEW n \in Nat \ {0}, NEW s \in Int, s % n = 0
  PROVE  (s - n) % n = 0
<1>0. s - n \in Int
  OBVIOUS
<1>1. s = n * (s \div n) /\ s \div n \in Int
  BY DivMod
<1>2. /\ s - n = n * ((s - n) \div n) + ((s - n) % n)
      /\ (s - n) \div n \in Int /\ (s - n) % n \in 0..(n - 1)
  BY <1>0, DivMod
<1>3. n * ((s \div n) - 1 - ((s - n) \div n)) = (s - n) % n
  BY <1>1, <1>2
<1>4. (s \div n) - 1 - ((s - n) \div n) = 0
  BY <1>1, <1>2, <1>3, SmallMultiple
<1> QED
  BY <1>3, <1>4

(* AlignTime gives the first multiple of the interval that is not before t. *)
LEMMA AlignTimeAligned ==
  ASSUME NEW n \in Nat \ {0}, NEW t \in Int
  PROVE  /\ AlignTime(t, n) \in Int /\ AlignTime(t, n) % n = 0
         /\ t <= AlignTime(t, n) /\ AlignTime(t, n) < t + n
<1> DEFINE r == t % n
<1>1. r \in 0..(n - 1) /\ t - r \in Int
  BY DivMod
<1>2. (t - r) % n = 0
  <2>1. /\ t - r = n * ((t - r) \div n) + ((t - r) % n)
        /\ (t - r) \div n \in Int /\ (t - r) % n \in 0..(n - 1)
    BY <1>1, DivMod
  <2>2. t = n * (t \div n) + r /\ t \div n \in Int
    BY DivMod
  <2>3. n * ((t \div n) - ((t - r) \div n)) = (t - r) % n
    BY <1>1, <2>1, <2>2
  <2>4. (t \div n) - ((t - r) \div n) = 0
    BY <2>1, <2>2, <2>3, SmallMultiple
  <2> QED
    BY <2>3, <2>4
<1>3. CASE r = 0
  BY <1>1, <1>2, <1>3 DEF AlignTime, Truncate
<1>4. CASE r # 0
  <2>1. AlignTime(t, n) = (t - r) + n
    BY <1>1, <1>4 DEF AlignTime, Truncate
  <2>2. ((t - r) + n) % n = 0
    BY <1>1, <1>2, ModNext, Zenon
  <2> HIDE DEF r
  <2> QED
    BY <1>1, <1>4, <2>1, <2>2
<1> QED
  BY <1>3, <1>4

(* There is one multiple in an interval. *)
LEMMA AlignedUnique ==
  ASSUME NEW n \in Nat \ {0}, NEW s \in Int, NEW u \in Int,
         s % n = 0, u % n = 0, s < u, u <= s + n
  PROVE  u = s + n
<1>1. CASE u < s + n
  <2>1. u - s \in 0..(n - 1) /\ s + (u - s) = u
    BY <1>1
  <2>2. u % n = u - s
    BY <2>1, ModShift, Zenon
  <2> QED
    BY <2>2
<1> QED
  BY <1>1

(* Rounding moves a time by half the precision at most. *)
LEMMA RoundNear ==
  ASSUME NEW t \in Int, NEW d \in Nat
  PROVE  /\ Round(t, d) \in Int
         /\ t - (d \div 2) <= Round(t, d) /\ Round(t, d) <= t + (d \div 2)
<1>1. CASE d = 0
  BY <1>1 DEF Round
<1>2. CASE d # 0
  <2> DEFINE r == t % d
  <2>1. r \in 0..(d - 1)
    BY <1>2, DivMod
  <2>2. Round(t, d) = IF 2 * r < d THEN t - r ELSE t - r + d
    BY <1>2 DEF Round
  <2> HIDE DEF r
  <2> QED
    BY <2>1, <2>2
<1> QED
  BY <1>1, <1>2

-----------------------------------------------------------------------------
(* Tickers. *)

Booked == MaxJitter + TickLag    \* how late a timer may be set

TickType ==
  /\ now \in Nat /\ startTime \in Nat /\ roundInterval \in BOOLEAN
  /\ ticking \in BOOLEAN
  /\ alarm \in Nat \cup {Never} /\ slept \in Nat \cup {Never}
  /\ timerC \in Seq(Nat) /\ Len(timerC) \in {0, 1}
  /\ slot \in Nat \cup {Never} /\ lastTick \in Nat \cup {Never}

(* Before runInputs there is no ticker. *)
Idle == ~ticking /\ timerC = <<>> /\ slept = Never /\ slot = Never /\ lastTick = Never

(* The aligned ticker: the timer is set or it has expired; after the first *)
(* tick it is set for the interval at slot, not later in it than Booked,   *)
(* and nobody is late.                                                     *)
AlignedPace ==
  /\ slept = Never
  /\ \/ timerC = <<>> /\ alarm # Never
     \/ /\ timerC # <<>> /\ alarm = Never
        /\ timerC[1] <= now /\ now <= timerC[1] + TickLag
  /\ slot # Never =>
       /\ slot % Interval = 0
       /\ alarm # Never =>
            slot <= alarm /\ alarm <= slot + Booked /\ now <= alarm + TickLag
       /\ timerC # <<>> =>
            slot <= timerC[1] /\ timerC[1] <= slot + Booked + TickLag

(* The other one: the time of the next tick is fixed, and the goroutine    *)
(* has taken and delivered the last one before it comes.                   *)
UnalignedPace ==
  /\ alarm # Never /\ slot # Never
  /\ \/ /\ timerC = <<>> /\ slept = Never
        /\ alarm = slot /\ now <= alarm + TickLag
     \/ /\ timerC # <<>> /\ slept = Never /\ alarm = slot + Interval
        /\ slot <= timerC[1] /\ timerC[1] <= slot + TickLag
        /\ timerC[1] <= now /\ now <= timerC[1] + TickLag
     \/ /\ timerC = <<>> /\ slept # Never /\ alarm = slot + Interval
        /\ slot <= slept /\ slept <= slot + 2 * TickLag + MaxJitter
        /\ now <= slept + TickLag

TickInv ==
  /\ TickType /\ PaceKept
  /\ pcGather = "off" => Idle
  /\ ticking => IF roundInterval THEN AlignedPace ELSE UnalignedPace

(* The durations of a ticker are numbers. *)
LEMMA TickConstants ==
  /\ Interval \in Nat \ {0} /\ Jitter \in Nat /\ MinInterval \in Nat
  /\ TickLag \in Nat /\ MaxJitter \in Nat /\ Booked \in Nat
  /\ MaxJitter + 2 * TickLag + MinInterval <= Interval
  /\ MaxJitter + 3 * TickLag < Interval
  BY TickerAssumption DEF MaxJitter, Booked

(* The random part of a duration stays below the configured jitter. *)
LEMMA JitterBounded ==
  ASSUME NEW j \in RandomDuration(Jitter)
  PROVE  j \in Nat /\ j <= MaxJitter
  BY TickConstants DEF RandomDuration, MaxJitter

(* AlignedTicker.next, at any time of the interval that starts at s that   *)
(* is not within MinInterval of its end, gives the end of that interval.   *)
LEMMA NextAlignedSlot ==
  ASSUME NEW s \in Int, s % Interval = 0, NEW t \in Nat,
         s <= t, t < s + Interval, t + MinInterval <= s + Interval
  PROVE  NextAligned(t) = s + Interval
<1> DEFINE u == t + MinInterval
           a == AlignTime(u, Interval)
<1>0. u \in Int /\ s <= u /\ u <= s + Interval
  BY TickConstants
<1>1. a \in Int /\ a % Interval = 0 /\ u <= a /\ a < u + Interval
  BY <1>0, TickConstants, AlignTimeAligned
<1>2. NextAligned(t) = IF a = t THEN t + Interval ELSE a
  BY DEF NextAligned
<1> HIDE DEF a, u
<1>3. CASE a = s
  BY <1>0, <1>1, <1>2, <1>3, TickConstants DEF u
<1>4. CASE a > s /\ a <= s + Interval
  <2>1. a = s + Interval
    BY <1>1, <1>4, TickConstants, AlignedUnique, Zenon
  <2> QED
    BY <1>2, <2>1, TickConstants
<1>5. CASE a > s + Interval
  <2>0. Interval \in Nat \ {0} /\ s + Interval \in Int
    BY TickConstants
  <2>1. (s + Interval) % Interval = 0
    BY <2>0, ModNext, Zenon
  <2>2. a <= (s + Interval) + Interval
    BY <1>0, <1>1, TickConstants
  <2>3. a = (s + Interval) + Interval
    BY <1>1, <1>5, <2>0, <2>1, <2>2, AlignedUnique
  <2> QED
    BY <1>0, <1>1, <2>3, TickConstants
<1> QED
  BY <1>0, <1>1, <1>3, <1>4, <1>5, TickConstants

(* AlignedTicker.next, at any time, gives a later multiple of the interval. *)
LEMMA NextAlignedLater ==
  ASSUME NEW t \in Nat
  PROVE  /\ NextAligned(t) \in Nat /\ NextAligned(t) % Interval = 0
         /\ t < NextAligned(t)
<1> DEFINE a == AlignTime(t + MinInterval, Interval)
<1>0. Interval \in Nat \ {0} /\ t + MinInterval \in Int /\ t \in Int
  BY TickConstants
<1>1. a \in Int /\ a % Interval = 0 /\ t + MinInterval <= a
  BY <1>0, AlignTimeAligned
<1>2. NextAligned(t) = IF a = t THEN t + Interval ELSE a
  BY DEF NextAligned
<1>3. CASE a = t
  <2>1. (t + Interval) % Interval = 0
    BY <1>0, <1>1, <1>3, ModNext
  <2> HIDE DEF a
  <2> QED
    BY <1>0, <1>2, <1>3, <2>1
<1>4. CASE a # t
  <2> HIDE DEF a
  <2> QED
    BY <1>1, <1>2, <1>4, TickConstants
<1> QED
  BY <1>3, <1>4

(* A timer that is set at t, TickLag after the tick at c at the latest, to *)
(* expire at n, expires in the interval at n.                              *)
LEMMA ArmedInTime ==
  ASSUME NEW t \in Nat, NEW c \in Nat, NEW n \in Nat, NEW j \in Nat, j <= MaxJitter,
         c < n, c <= t, t <= c + TickLag, NEW a, a = t + (n - c) + j
  PROVE  a \in Nat /\ n <= a /\ a <= n + Booked /\ t <= a + TickLag
  BY TickConstants DEF Booked

(* There is no ticker at the start. *)
LEMMA TickInit == Init => TickInv
<1> SUFFICES ASSUME Init PROVE TickInv
  OBVIOUS
<1>1. now \in Nat /\ startTime \in Nat /\ roundInterval \in BOOLEAN /\ TickerInit
  BY TimingAssumption DEF Init
<1>2. Idle
  BY <1>1 DEF TickerInit, Idle
<1>3. TickType
  <2>1. ticking \in BOOLEAN
    BY <1>1, Zenon DEF TickerInit
  <2>2. alarm = Never /\ slept = Never /\ slot = Never /\ lastTick = Never
    BY <1>1, Zenon DEF TickerInit
  <2>3. timerC \in Seq(Nat) /\ Len(timerC) = 0
    BY <1>1 DEF TickerInit
  <2> QED
    BY <1>1, <2>1, <2>2, <2>3 DEF TickType
<1> QED
  BY <1>2, <1>3 DEF TickInv, PaceKept, Idle

(* A ticker starts in pace: the first tick of the aligned one is not       *)
(* counted, the other one ticks at once.                                   *)
LEMMA TickNew == ASSUME TickInv, RunInputs PROVE TickInv'
<1>1. /\ pcGather' = "wait" /\ now' = now /\ NewTicker /\ Idle /\ ticking' = TRUE
      /\ UNCHANGED <<roundInterval, startTime, timerC, slept>>
  BY DEF RunInputs, TickInv, NewTicker, NewAlignedTicker, NewUnalignedTicker
<1>2. now \in Nat /\ startTime \in Nat /\ roundInterval \in BOOLEAN
  BY DEF TickInv, TickType
<1>3. CASE roundInterval
  <2>1. PICK j \in RandomDuration(Jitter) :
          alarm' = now + (NextAligned(startTime) - startTime) + j
    BY <1>1, <1>3 DEF NewTicker, NewAlignedTicker
  <2>2. j \in Nat
    BY JitterBounded
  <2>3. NextAligned(startTime) \in Nat /\ startTime < NextAligned(startTime)
    BY <1>2, NextAlignedLater
  <2>4. alarm' \in Nat
    BY <1>2, <2>1, <2>2, <2>3
  <2>5. slot' = Never /\ lastTick' = Never /\ timerC' = <<>> /\ slept' = Never
    BY <1>1, <1>3 DEF Idle, NewTicker, NewAlignedTicker
  <2>6. TickType'
    BY <1>1, <1>2, <2>4, <2>5 DEF TickType
  <2>7. PaceKept' /\ AlignedPace'
    BY <2>4, <2>5 DEF PaceKept, AlignedPace, Never
  <2> QED
    BY <1>1, <1>3, <2>6, <2>7 DEF TickInv
<1>4. CASE ~roundInterval
  <2>1. /\ alarm' = now + Interval /\ slot' = now + Interval /\ lastTick' = now
        /\ timerC' = <<>> /\ slept' = Never
    BY <1>1, <1>4 DEF Idle, NewTicker, NewUnalignedTicker
  <2>2. TickType'
    BY <1>1, <1>2, <2>1, TickConstants DEF TickType
  <2>3. PaceKept' /\ UnalignedPace'
    BY <1>1, <1>2, <2>1, TickConstants DEF PaceKept, UnalignedPace, Never
  <2> QED
    BY <1>1, <1>4, <2>2, <2>3 DEF TickInv
<1> QED
  BY <1>2, <1>3, <1>4

(* An expiry fills the channel, which is empty. *)
LEMMA TickExpire ==
  ASSUME TickInv, Expire, UNCHANGED <<now, pcGather>> PROVE TickInv'
<1>1. /\ ticking /\ alarm \in Nat /\ alarm <= now
      /\ alarm' = IF roundInterval THEN Never ELSE alarm + Interval
      /\ timerC' = IF timerC = <<>> THEN <<now>> ELSE timerC
      /\ UNCHANGED <<roundInterval, startTime, slept, ticking, slot, lastTick>>
  BY DEF Expire, TickInv, TickType
<1>0. pcGather' # "off"
  BY <1>1 DEF TickInv, Idle
<1>2. PaceKept'
  BY <1>1 DEF TickInv, PaceKept
<1>3. CASE roundInterval
  <2>1. AlignedPace /\ timerC = <<>>
    BY <1>1, <1>3 DEF TickInv, AlignedPace, Never
  <2>2. timerC' = <<now>> /\ alarm' = Never
    BY <1>1, <1>3, <2>1
  <2>3. TickType'
    BY <1>1, <2>2 DEF TickInv, TickType
  <2>4. AlignedPace'
    BY <1>1, <2>1, <2>2, TickConstants DEF AlignedPace, TickInv, TickType, Booked, Never
  <2> QED
    BY <1>0, <1>1, <1>2, <1>3, <2>3, <2>4 DEF TickInv
<1>4. CASE ~roundInterval
  <2>1. UnalignedPace /\ timerC = <<>> /\ slept = Never
    BY <1>1, <1>4, TickConstants DEF TickInv, TickType, UnalignedPace, Never
  <2>2. timerC' = <<now>> /\ alarm' = alarm + Interval
    BY <1>1, <1>4, <2>1
  <2>3. TickType'
    BY <1>1, <2>2, TickConstants DEF TickInv, TickType
  <2>4. UnalignedPace'
    BY <1>1, <2>1, <2>2, TickConstants DEF UnalignedPace, TickInv, TickType, Never
  <2> QED
    BY <1>0, <1>1, <1>2, <1>4, <2>3, <2>4 DEF TickInv
<1> QED
  BY <1>3, <1>4

(* The aligned ticker delivers in the interval it was set for, and sets    *)
(* the timer for the next one; after its first tick, for the interval at   *)
(* the alignment that follows.                                             *)
LEMMA TickAligned ==
  ASSUME TickInv, AlignedRun, UNCHANGED <<now, pcGather>> PROVE TickInv'
<1> DEFINE c == timerC[1]
<1>1. /\ ticking /\ roundInterval /\ timerC # <<>> /\ timerC' = <<>>
      /\ slot' = (IF slot = Never THEN NextAligned(c) ELSE slot + Interval)
      /\ lastTick' = (IF slot = Never THEN Never ELSE c)
      /\ UNCHANGED <<roundInterval, startTime, slept, ticking>>
  BY DEF AlignedRun, Deliver
<1>0. pcGather' # "off"
  BY <1>1 DEF TickInv, Idle
<1>2. AlignedPace /\ slept = Never /\ c <= now /\ now <= c + TickLag
  BY <1>1 DEF TickInv, AlignedPace
<1>3. c \in Nat /\ now \in Nat /\ slot \in Nat \cup {Never}
  BY <1>1 DEF TickInv, TickType
<1>4. PICK j \in RandomDuration(Jitter) : alarm' = now + (NextAligned(c) - c) + j
  BY DEF AlignedRun
<1>5. j \in Nat /\ j <= MaxJitter
  BY JitterBounded
<1>6. slot # Never =>
        slot % Interval = 0 /\ slot <= c /\ c <= slot + Booked + TickLag
  BY <1>1, <1>2 DEF AlignedPace
<1> HIDE DEF c
<1>7. /\ NextAligned(c) = slot' /\ slot' \in Nat /\ slot' % Interval = 0 /\ c < slot'
      /\ lastTick' \in Nat \cup {Never} /\ PaceKept'
  <2>1. CASE slot = Never
    BY <1>1, <1>3, <2>1, NextAlignedLater DEF PaceKept
  <2>2. CASE slot # Never
    <3>1. slot \in Nat /\ slot' = slot + Interval /\ lastTick' = c /\ slot \in Int
          /\ Interval \in Nat \ {0}
      BY <1>1, <1>3, <2>2, TickConstants
    <3>2. slot <= c /\ c < slot + Interval /\ c + MinInterval <= slot + Interval
      BY <1>3, <1>6, <2>2, <3>1, TickConstants DEF Booked
    <3>3. slot % Interval = 0
      BY <1>6, <2>2
    <3>4. NextAligned(c) = slot + Interval
      BY <1>3, <3>1, <3>2, <3>3, NextAlignedSlot, Zenon
    <3>5. (slot + Interval) % Interval = 0
      BY <3>1, <3>3, ModNext, Zenon
    <3>6. PaceKept'
      BY <1>3, <3>1, <3>2, TickConstants DEF PaceKept
    <3> QED
      BY <1>3, <3>1, <3>2, <3>4, <3>5, <3>6
  <2> QED
    BY <2>1, <2>2
<1>8. /\ alarm' \in Nat /\ slot' <= alarm' /\ alarm' <= slot' + Booked
      /\ now <= alarm' + TickLag
  <2>1. alarm' = now + (slot' - c) + j
    BY <1>4, <1>7
  <2>2. slot' \in Nat /\ c < slot'
    BY <1>7
  <2>3. c <= now /\ now <= c + TickLag
    BY <1>2
  <2>4. c \in Nat /\ now \in Nat /\ j \in Nat /\ j <= MaxJitter
    BY <1>3, <1>5
  <2> QED
    BY <2>1, <2>2, <2>3, <2>4, ArmedInTime
<1>9. TickType'
  BY <1>1, <1>3, <1>7, <1>8 DEF TickInv, TickType
<1>10. AlignedPace'
  BY <1>1, <1>2, <1>7, <1>8 DEF AlignedPace, Never
<1> QED
  BY <1>0, <1>1, <1>7, <1>9, <1>10 DEF TickInv

(* The other one sleeps for the jitter. *)
LEMMA TickUnaligned ==
  ASSUME TickInv, UnalignedRun, UNCHANGED <<now, pcGather>> PROVE TickInv'
<1>1. /\ ticking /\ ~roundInterval /\ timerC # <<>> /\ timerC' = <<>> /\ slept = Never
      /\ UNCHANGED <<roundInterval, startTime, alarm, ticking, slot, lastTick>>
  BY DEF UnalignedRun
<1>0. pcGather' # "off"
  BY <1>1 DEF TickInv, Idle
<1>2. PICK j \in RandomDuration(Jitter) : slept' = now + j
  BY DEF UnalignedRun
<1>3. j \in Nat /\ j <= MaxJitter
  BY JitterBounded
<1>4. /\ alarm = slot + Interval /\ alarm # Never /\ slot # Never
      /\ slot <= timerC[1] /\ timerC[1] <= slot + TickLag
      /\ timerC[1] <= now /\ now <= timerC[1] + TickLag
  BY <1>1 DEF TickInv, UnalignedPace
<1>5. timerC[1] \in Nat /\ now \in Nat /\ slot \in Nat
  BY <1>1, <1>4 DEF TickInv, TickType
<1>6. slept' \in Nat
  BY <1>2, <1>3, <1>5
<1>7. TickType' /\ PaceKept'
  BY <1>1, <1>6 DEF TickInv, TickType, PaceKept
<1>8. UnalignedPace'
  BY <1>1, <1>2, <1>3, <1>4, <1>5, <1>6, TickConstants DEF UnalignedPace, Never
<1> QED
  BY <1>0, <1>1, <1>7, <1>8 DEF TickInv

(* After the sleep it delivers, in the interval of its tick. *)
LEMMA TickWake ==
  ASSUME TickInv, Wake, UNCHANGED <<now, pcGather>> PROVE TickInv'
<1>1. /\ ticking /\ slept # Never /\ slept <= now /\ slept' = Never
      /\ slot # Never => slot' = slot + Interval /\ lastTick' = now
      /\ UNCHANGED <<roundInterval, startTime, alarm, timerC, ticking>>
  BY DEF Wake, Deliver
<1>0. pcGather' # "off"
  BY <1>1 DEF TickInv, Idle
<1>2. ~roundInterval
  BY <1>1 DEF TickInv, AlignedPace
<1>3. /\ timerC = <<>> /\ alarm = slot + Interval /\ alarm # Never /\ slot # Never
      /\ slot <= slept /\ slept <= slot + 2 * TickLag + MaxJitter
      /\ now <= slept + TickLag
  BY <1>1, <1>2 DEF TickInv, UnalignedPace
<1>4. slept \in Nat /\ now \in Nat /\ slot \in Nat
  BY <1>1, <1>3 DEF TickInv, TickType
<1>5. TickType'
  BY <1>1, <1>3, <1>4, TickConstants DEF TickInv, TickType
<1>6. PaceKept' /\ UnalignedPace'
  BY <1>1, <1>3, <1>4, TickConstants DEF PaceKept, UnalignedPace, Never
<1> QED
  BY <1>0, <1>1, <1>2, <1>5, <1>6 DEF TickInv

(* Time passes while nothing is late. *)
LEMMA TickAdvance == ASSUME TickInv, Advance PROVE TickInv'
<1>1. TickerOnTime /\ now' = now + 1 /\ UNCHANGED tickVars /\ pcGather' = pcGather
  BY DEF Advance
<1>2. TickType' /\ PaceKept'
  BY <1>1 DEF TickInv, TickType, PaceKept, tickVars
<1>3. ASSUME ticking, roundInterval PROVE AlignedPace'
  <2>1. CASE timerC = <<>>
    BY <1>1, <1>3, <2>1, TickConstants
       DEF TickInv, TickType, AlignedPace, TickerOnTime, tickVars
  <2>2. CASE timerC # <<>>
    <3>1. timerC[1] \in Nat
      BY <2>2 DEF TickInv, TickType
    <3> QED
      BY <1>1, <1>3, <2>2, <3>1, TickConstants
         DEF TickInv, TickType, AlignedPace, TickerOnTime, tickVars
  <2> QED
    BY <2>1, <2>2
<1>4. ASSUME ticking, ~roundInterval PROVE UnalignedPace'
  <2>1. CASE timerC = <<>>
    BY <1>1, <1>4, <2>1, TickConstants
       DEF TickInv, TickType, UnalignedPace, TickerOnTime, tickVars
  <2>2. CASE timerC # <<>>
    <3>1. timerC[1] \in Nat
      BY <2>2 DEF TickInv, TickType
    <3> QED
      BY <1>1, <1>4, <2>2, <3>1, TickConstants
         DEF TickInv, TickType, UnalignedPace, TickerOnTime, tickVars
  <2> QED
    BY <2>1, <2>2
<1>5. pcGather' = "off" => Idle'
  BY <1>1 DEF TickInv, Idle, tickVars
<1> QED
  BY <1>1, <1>2, <1>3, <1>4, <1>5 DEF TickInv, tickVars

(* The steps of the ticker keep its pace, and no other step matters. *)
LEMMA TickNext == TickInv /\ [Next]_vars => TickInv'
<1> SUFFICES ASSUME TickInv, [Next]_vars PROVE TickInv'
  OBVIOUS
<1>1. CASE Advance
  BY <1>1, TickAdvance
<1>2. CASE Tick
  BY <1>2, TickExpire, TickAligned, TickUnaligned, TickWake DEF Tick, TickerStep
<1>3. CASE TakeTick /\ now' = now /\ pcGather' # "off"
  BY <1>3 DEF TakeTick, TickInv, TickType, PaceKept, AlignedPace, UnalignedPace
<1>4. CASE UNCHANGED <<now, tickVars>> /\ (pcGather' = "off" => pcGather = "off")
  BY <1>4 DEF tickVars, TickInv, TickType, PaceKept, AlignedPace, UnalignedPace, Idle
<1>5. CASE GatherDone
  BY <1>5, Zenon DEF GatherDone, TickInv, TickType, PaceKept
<1>6. CASE RunInputs
  BY <1>6, TickNew
<1> QED
  BY <1>1, <1>2, <1>3, <1>4, <1>5, <1>6
     DEF Next, Start, StartAggregators, Gather, GatherStart, GatherSkip, GatherAdd,
         GatherEnd, Cancel, Aggregate, vars

(* From the first tick of an input on there is one in each interval, for   *)
(* any interval, jitter and start, however long the start-up took, as long *)
(* as what the runtime is late stays in the interval.                      *)
THEOREM TickerKeepsPace == Spec => []PaceKept
<1>1. TickInv => PaceKept
  BY DEF TickInv
<1> QED
  BY <1>1, TickInit, TickNext, PTL DEF Spec

-----------------------------------------------------------------------------
(* The aggregator. *)

Discard == [metric : Nat, at : Nat, end : Int]

AggType ==
  /\ now \in Nat /\ startTime \in Nat /\ roundInterval \in BOOLEAN
  /\ periodStart \in Int /\ periodEnd \in Int
  /\ stamps \in Seq(Int) /\ born \in Seq(Nat) /\ Len(born) = Len(stamps)
  /\ src \in Seq(Nat) /\ Len(src) <= Len(stamps)
  /\ srcClosed \in BOOLEAN /\ addDone \in BOOLEAN
  /\ pcPush \in {"off", "wait", "done"}
  /\ pushes \in Seq(SUBSET Nat) /\ cache \in SUBSET Nat

(* How many metrics the aggregator has taken from the channel. *)
Taken == Len(stamps) - Len(src)

(* Metrics arrive in the order they were made; their time is when they     *)
(* were made, rounded.                                                     *)
SrcInv ==
  /\ \A i \in 1..Len(src) : src[i] = Taken + i
  /\ \A m \in 1..Len(born) : stamps[m] = Round(born[m], Precision) /\ born[m] <= now

(* The window that is open is the one after as many periods as there were  *)
(* pushes, and it has begun; and the goroutines end one after the other.   *)
WindowInv ==
  /\ startTime <= now
  /\ pcPush = "off" => Len(pushes) = 0
  /\ pcPush = "wait" =>
       /\ periodStart = Boundary(Len(pushes)) /\ periodEnd = periodStart + Period
       /\ periodStart <= now
  /\ addDone => pcPush # "off" /\ src = <<>> /\ srcClosed
  /\ pcPush = "done" => addDone

(* What was discarded stays discarded for the reason it was.               *)
DiscardInv ==
  /\ discarded \subseteq Discard
  /\ \A x \in discarded : x.metric \in 1..Len(stamps)
  /\ DiscardedOnlyLate

AggInv == AggType /\ SrcInv /\ WindowInv /\ DiscardInv

(* The durations of an aggregator are numbers. *)
LEMMA AggConstants ==
  Period \in Nat \ {0} /\ Grace \in Nat /\ Delay \in Nat /\ Precision \in Nat
  BY AggregatorAssumption

(* updateWindow: the window of the aggregator at its start holds the start. *)
LEMMA FirstWindow ==
  ASSUME NEW start \in Int, NEW round \in BOOLEAN
  PROVE  /\ FirstEnd(start, round) \in Int
         /\ start <= FirstEnd(start, round)
         /\ FirstEnd(start, round) <= start + Period
<1> DEFINE a == AlignTime(start, Period)
           b == AlignTime(start + 1, Period)
<1>0. Period \in Nat \ {0} /\ start + 1 \in Int
  BY AggConstants
<1>1. a \in Int /\ start <= a /\ a < start + Period
  BY <1>0, AlignTimeAligned
<1>2. b \in Int /\ start + 1 <= b /\ b < (start + 1) + Period
  BY <1>0, AlignTimeAligned
<1>3. FirstEnd(start, round) =
        IF ~round THEN start + Period ELSE IF a = start THEN b ELSE a
  BY DEF FirstEnd
<1> HIDE DEF a, b
<1> QED
  BY <1>0, <1>1, <1>2, <1>3

(* Push moves the window from one boundary to the next. *)
LEMMA NextBoundary ==
  ASSUME AggType, NEW k \in Nat
  PROVE  Boundary(k) \in Int /\ Boundary(k + 1) = Boundary(k) + Period
<1>1. FirstEnd(startTime, roundInterval) \in Int
  BY FirstWindow DEF AggType
<1>2. (k - 1) * Period \in Int /\ ((k + 1) - 1) * Period = (k - 1) * Period + Period
  BY AggConstants
<1> QED
  BY <1>1, <1>2, AggConstants DEF Boundary

(* A reason to discard stays one when metrics and pushes are added. *)
LEMMA DiscardStays ==
  ASSUME AggType, DiscardInv, discarded' = discarded,
         UNCHANGED <<startTime, roundInterval>>,
         Len(stamps') \in Nat, Len(pushes') \in Nat,
         Len(stamps) <= Len(stamps'), Len(pushes) <= Len(pushes'),
         \A m \in 1..Len(stamps) : stamps'[m] = stamps[m]
  PROVE  DiscardInv'
<1>1. \A k : Boundary(k)' = Boundary(k)
  BY DEF Boundary
<1>2. discarded' \subseteq Discard
  BY DEF DiscardInv
<1>3. Len(stamps) \in Nat /\ Len(pushes) \in Nat
  BY DEF AggType
<1>4. \A x \in discarded' : x.metric \in 1..Len(stamps')
  BY <1>3 DEF DiscardInv
<1>5. ASSUME NEW x \in discarded'
      PROVE  \/ \E k \in 0..Len(pushes') :
                  stamps'[x.metric] + Grace < Boundary(k)' /\ Boundary(k)' <= x.at
             \/ 2 * (x.at - x.end) + Precision > 2 * Delay
  <2>1. x \in discarded /\ x.metric \in 1..Len(stamps)
    BY DEF DiscardInv
  <2>2. stamps'[x.metric] = stamps[x.metric]
    BY <2>1
  <2>3. CASE 2 * (x.at - x.end) + Precision > 2 * Delay
    BY <2>3
  <2>4. CASE \E k \in 0..Len(pushes) :
               stamps[x.metric] + Grace < Boundary(k) /\ Boundary(k) <= x.at
    <3>1. PICK k \in 0..Len(pushes) :
                 stamps[x.metric] + Grace < Boundary(k) /\ Boundary(k) <= x.at
      BY <2>4
    <3>2. k \in 0..Len(pushes')
      BY <1>3
    <3> QED
      BY <1>1, <2>2, <3>1, <3>2
  <2> QED
    BY <2>1, <2>3, <2>4 DEF DiscardInv, DiscardedOnlyLate
<1>6. DiscardedOnlyLate'
  BY <1>5 DEF DiscardedOnlyLate
<1> QED
  BY <1>2, <1>4, <1>6 DEF DiscardInv

(* At the start there are no metrics. *)
LEMMA AggInit == Init => AggInv
<1> SUFFICES ASSUME Init PROVE AggInv
  OBVIOUS
<1>1. /\ now \in Nat /\ startTime \in Nat /\ roundInterval \in BOOLEAN
      /\ periodEnd = 0 /\ periodStart = 0
      /\ stamps = <<>> /\ born = <<>> /\ src = <<>> /\ srcClosed = FALSE
      /\ addDone = FALSE /\ pcPush = "off" /\ discarded = {} /\ pushes = <<>>
      /\ cache = {}
  BY TimingAssumption DEF Init, AggregatorInit
<1>2. Len(stamps) = 0 /\ Len(born) = 0 /\ Len(src) = 0 /\ Len(pushes) = 0
  BY <1>1
<1>3. WindowInv
  <2>1. startTime <= now
    BY <1>1 DEF Init
  <2> QED
    BY <1>1, <1>2, <2>1 DEF WindowInv
<1>4. AggType
  <2>1. <<>> \in Seq(Int) /\ <<>> \in Seq(Nat) /\ <<>> \in Seq(SUBSET Nat)
    OBVIOUS
  <2>2. srcClosed \in BOOLEAN /\ addDone \in BOOLEAN /\ pcPush \in {"off", "wait", "done"}
    BY <1>1, Zenon
  <2>3. stamps \in Seq(Int) /\ born \in Seq(Nat) /\ src \in Seq(Nat)
        /\ pushes \in Seq(SUBSET Nat) /\ cache \in SUBSET Nat
    BY <1>1, <2>1
  <2> QED
    BY <1>1, <1>2, <2>2, <2>3 DEF AggType
<1>5. SrcInv
  BY <1>1, <1>2 DEF SrcInv
<1>6. DiscardInv
  BY <1>1 DEF DiscardInv, DiscardedOnlyLate
<1> QED
  BY <1>3, <1>4, <1>5, <1>6 DEF AggInv

(* runAggregators opens the window of the start. *)
LEMMA AggStart == ASSUME AggInv, StartAggregators PROVE AggInv'
<1>1. /\ pcPush = "off" /\ pcPush' = "wait" /\ now' = now
      /\ periodEnd' = FirstEnd(startTime, roundInterval)
      /\ periodStart' = periodEnd' - Period
      /\ UNCHANGED <<stamps, born, src, srcClosed, cache, addDone, pushes, discarded,
                     startTime, roundInterval>>
  BY DEF StartAggregators, RunAggregators, tickVars
<1>2. /\ startTime \in Int /\ roundInterval \in BOOLEAN /\ now \in Nat
      /\ startTime <= now /\ Len(pushes) = 0
  BY <1>1 DEF AggInv, AggType, WindowInv
<1>3. /\ FirstEnd(startTime, roundInterval) \in Int
      /\ FirstEnd(startTime, roundInterval) <= startTime + Period
  BY <1>2, FirstWindow
<1>4. /\ periodStart' \in Int /\ periodEnd' \in Int
      /\ periodEnd' = periodStart' + Period /\ periodStart' <= now
  BY <1>1, <1>2, <1>3, AggConstants
<1>5. periodStart' = Boundary(Len(pushes))'
  BY <1>1, <1>2, <1>3, AggConstants DEF Boundary
<1>6. AggType' /\ SrcInv'
  BY <1>1, <1>4 DEF AggInv, AggType, SrcInv, Taken
<1>7. WindowInv'
  BY <1>1, <1>2, <1>4, <1>5 DEF AggInv, WindowInv
<1>8. DiscardInv'
  BY <1>1, DiscardStays DEF AggInv, AggType
<1> QED
  BY <1>6, <1>7, <1>8 DEF AggInv

(* A metric that an input makes is the newest. *)
LEMMA AggSend ==
  ASSUME AggInv, SendMetric, UNCHANGED <<now, startTime, roundInterval>>
  PROVE  AggInv'
<1> DEFINE L == Len(stamps)
           K == Len(src)
<1>1. /\ stamps' = Append(stamps, Round(now, Precision)) /\ born' = Append(born, now)
      /\ src' = Append(src, Len(stamps')) /\ ~srcClosed
      /\ UNCHANGED <<periodStart, periodEnd, srcClosed, cache, addDone, pcPush, pushes,
                     discarded>>
  BY DEF SendMetric
<1>2. Round(now, Precision) \in Int /\ now \in Nat
  BY RoundNear, AggConstants DEF AggInv, AggType
<1>3. L \in Nat /\ K \in Nat /\ K <= L /\ Len(born) = L
  BY DEF AggInv, AggType
<1>4. Len(stamps') = L + 1 /\ Len(born') = L + 1 /\ Len(src') = K + 1
  BY <1>1 DEF AggInv, AggType
<1>5. /\ \A m \in 1..L : stamps'[m] = stamps[m] /\ born'[m] = born[m]
      /\ stamps'[L + 1] = Round(now, Precision) /\ born'[L + 1] = now
      /\ \A i \in 1..K : src'[i] = src[i]
      /\ src'[K + 1] = L + 1
  BY <1>1, <1>3, <1>4 DEF AggInv, AggType
<1>6. AggType'
  BY <1>1, <1>2, <1>3, <1>4 DEF AggInv, AggType
<1>7. /\ \A m \in 1..L : born[m] \in Nat /\ born[m] <= now
      /\ \A m \in 1..L : stamps[m] = Round(born[m], Precision)
  <2>1. \A m \in 1..Len(born) : born[m] \in Nat
    BY DEF AggInv, AggType
  <2> QED
    BY <1>3, <2>1 DEF AggInv, SrcInv
<1>10. \A i \in 1..K : src[i] = L - K + i
  BY DEF AggInv, SrcInv, Taken
<1>11. Taken' = L - K
  <2> HIDE DEF L, K
  <2> QED
    BY <1>3, <1>4 DEF Taken
<1>8. SrcInv'
  <2>1. \A i \in 1..Len(src') : src'[i] = Taken' + i
    <3> HIDE DEF L, K
    <3> QED
      BY <1>3, <1>4, <1>5, <1>10, <1>11
  <2>2. ASSUME NEW m \in 1..Len(born')
        PROVE  stamps'[m] = Round(born'[m], Precision) /\ born'[m] <= now'
    <3> HIDE DEF L, K
    <3>1. CASE m = L + 1
      BY <1>2, <1>5, <3>1
    <3>2. CASE m \in 1..L
      BY <1>5, <1>7, <3>2
    <3> QED
      BY <1>3, <1>4, <3>1, <3>2
  <2> QED
    BY <2>1, <2>2 DEF SrcInv
<1>9. WindowInv'
  BY <1>1 DEF AggInv, WindowInv, Boundary
<1>12. DiscardInv'
  <2>1. Len(stamps') \in Nat /\ Len(stamps) <= Len(stamps')
        /\ Len(pushes') \in Nat /\ Len(pushes) <= Len(pushes')
    BY <1>1, <1>3, <1>4 DEF AggInv, AggType
  <2> QED
    BY <1>1, <1>5, <2>1, DiscardStays DEF AggInv
<1> QED
  BY <1>6, <1>8, <1>9, <1>12 DEF AggInv

(* The metric at the head of the channel has been made. *)
LEMMA HeadTaken == ASSUME AggInv, src # <<>> PROVE src[1] \in 1..Len(born)
<1>1. Len(src) \in Nat /\ Len(stamps) \in Nat /\ Len(src) >= 1
  BY DEF AggInv, AggType
<1>2. src[1] = Len(stamps) - Len(src) + 1
  BY <1>1 DEF AggInv, SrcInv, Taken
<1> QED
  BY <1>1, <1>2 DEF AggInv, AggType

(* When the metric at the head of the channel is outside the window, it is *)
(* too old, because a period has ended since, or the push is late.         *)
LEMMA HeadOutside ==
  ASSUME AggInv, pcPush = "wait", src # <<>>, ~InWindow(stamps[src[1]])
  PROVE  \/ /\ stamps[src[1]] + Grace < Boundary(Len(pushes))
            /\ Boundary(Len(pushes)) <= now
         \/ 2 * (now - periodEnd) + Precision > 2 * Delay
<1> DEFINE b == born[src[1]]
           s == stamps[src[1]]
<1>1. src[1] \in 1..Len(born)
  BY HeadTaken
<1>2. b \in Nat /\ b <= now /\ s = Round(b, Precision)
  BY <1>1 DEF AggInv, AggType, SrcInv
<1>3. periodStart = Boundary(Len(pushes)) /\ periodStart <= now
  BY DEF AggInv, WindowInv
<1>4. s < periodStart - Grace \/ s > periodEnd + Delay
  <2>1. s \in Int
    BY <1>1 DEF AggInv, AggType
  <2> QED
    BY <2>1, AggConstants DEF InWindow, AggInv, AggType
<1> HIDE DEF b, s
<1>5. s \in Int /\ s <= b + (Precision \div 2)
  <2>1. b \in Int /\ Precision \in Nat
    BY <1>2, AggConstants
  <2> QED
    BY <1>2, <2>1, RoundNear
<1>6. Precision \div 2 \in Nat /\ 2 * (Precision \div 2) <= Precision
  BY AggConstants
<1>7. now \in Nat /\ periodStart \in Int /\ periodEnd \in Int
  BY DEF AggInv, AggType
<1>8. CASE s < periodStart - Grace
  <2>1. s + Grace < periodStart
    BY <1>5, <1>7, <1>8, AggConstants
  <2> QED
    BY <1>3, <2>1 DEF s
<1>9. CASE s > periodEnd + Delay
  BY <1>2, <1>5, <1>6, <1>7, <1>9, AggConstants
<1> QED
  BY <1>4, <1>8, <1>9

(* Add takes the metric at the head of the channel. *)
LEMMA AggAdd ==
  ASSUME AggInv, Add, UNCHANGED <<now, startTime, roundInterval>>
  PROVE  AggInv' /\ cache' \subseteq cache \cup {Taken + 1} /\ Taken' = Taken + 1
<1> DEFINE L == Len(stamps)
           K == Len(src)
<1>1. /\ src # <<>> /\ src' = Tail(src) /\ pcPush # "off"
      /\ UNCHANGED <<periodStart, periodEnd, stamps, born, srcClosed, addDone, pcPush,
                     pushes>>
  BY DEF Add
<1>2. cache' \subseteq cache \cup {src[1]}
  BY DEF Add
<1>3. L \in Nat /\ K \in Nat /\ 1 <= K /\ K <= L /\ Len(born) = L
  BY <1>1 DEF AggInv, AggType
<1>4. /\ src' \in Seq(Nat) /\ Len(src') = K - 1
      /\ \A i \in 1..(K - 1) : src'[i] = src[i + 1]
  BY <1>1, <1>3 DEF AggInv, AggType
<1>5. \A i \in 1..K : src[i] = L - K + i
  BY DEF AggInv, SrcInv, Taken
<1>6. Taken' = L - (K - 1) /\ Taken = L - K
  BY <1>1, <1>4 DEF Taken
<1>7. pcPush = "wait"
  BY <1>1 DEF AggInv, AggType, WindowInv
<1>9. AggType'
  <2>1. src[1] \in Nat /\ cache' \in SUBSET Nat
    BY <1>1, <1>2, <1>3 DEF AggInv, AggType
  <2> QED
    BY <1>1, <1>3, <1>4, <2>1 DEF AggInv, AggType
<1>10. SrcInv'
  <2>1. \A i \in 1..Len(src') : src'[i] = Taken' + i
    <3> HIDE DEF L, K
    <3> QED
      BY <1>3, <1>4, <1>5, <1>6
  <2> QED
    BY <1>1, <2>1 DEF AggInv, SrcInv
<1>11. WindowInv'
  <2>1. ~addDone
    BY <1>1 DEF AggInv, WindowInv
  <2> QED
    BY <1>1, <2>1 DEF AggInv, WindowInv, Boundary
<1>12. src[1] = Taken + 1 /\ Taken' = Taken + 1
  <2> HIDE DEF L, K
  <2> QED
    BY <1>3, <1>5, <1>6
<1>13. CASE UNCHANGED discarded
  <2>1. DiscardInv'
    BY <1>1, <1>3, <1>13, DiscardStays DEF AggInv, AggType
  <2> QED
    BY <1>2, <1>9, <1>10, <1>11, <1>12, <2>1 DEF AggInv
<1>14. CASE ~InWindow(stamps[src[1]])
  <2> DEFINE x == [metric |-> src[1], at |-> now, end |-> periodEnd]
  <2>1. discarded' = discarded \cup {x}
    BY <1>14 DEF Add
  <2>2. src[1] \in 1..Len(stamps) /\ src[1] \in Nat /\ now \in Nat /\ periodEnd \in Int
    BY <1>1, HeadTaken DEF AggInv, AggType
  <2>3. x \in Discard /\ x.metric = src[1] /\ x.at = now /\ x.end = periodEnd
    BY <2>2 DEF Discard
  <2>4. \/ stamps[x.metric] + Grace < Boundary(Len(pushes)) /\ Boundary(Len(pushes)) <= x.at
        \/ 2 * (x.at - x.end) + Precision > 2 * Delay
    BY <1>1, <1>7, <1>14, <2>3, HeadOutside
  <2>5. Len(pushes) \in 0..Len(pushes)
    BY DEF AggInv, AggType
  <2> HIDE DEF x
  <2>6. \/ \E k \in 0..Len(pushes) :
             stamps[x.metric] + Grace < Boundary(k) /\ Boundary(k) <= x.at
        \/ 2 * (x.at - x.end) + Precision > 2 * Delay
    BY <2>4, <2>5
  <2>7. \A k : Boundary(k)' = Boundary(k)
    BY DEF Boundary
  <2>8. \A y \in discarded' :
          \/ \E k \in 0..Len(pushes) :
               stamps[y.metric] + Grace < Boundary(k) /\ Boundary(k) <= y.at
          \/ 2 * (y.at - y.end) + Precision > 2 * Delay
    BY <2>1, <2>6, Zenon DEF AggInv, DiscardInv, DiscardedOnlyLate
  <2>9. DiscardedOnlyLate'
    BY <1>1, <2>7, <2>8, Zenon DEF DiscardedOnlyLate
  <2>10. discarded' \subseteq Discard /\ \A y \in discarded' : y.metric \in 1..Len(stamps')
    BY <1>1, <2>1, <2>2, <2>3, Zenon DEF AggInv, DiscardInv
  <2> QED
    BY <1>2, <1>9, <1>10, <1>11, <1>12, <2>9, <2>10 DEF AggInv, DiscardInv
<1> QED
  BY <1>13, <1>14 DEF Add

(* A push opens the next window, which has begun unless it was the last. *)
LEMMA AggPush ==
  ASSUME AggInv, PushPeriod \/ PushLast, UNCHANGED <<now, startTime, roundInterval>>
  PROVE  AggInv'
<1> DEFINE P == Len(pushes)
<1>1. /\ periodStart' = periodEnd /\ periodEnd' = periodEnd + Period /\ pcPush = "wait"
      /\ pushes' = Append(pushes, cache) /\ cache' = {} /\ pcPush' \in {"wait", "done"}
      /\ pcPush' = "wait" => periodEnd <= now
      /\ pcPush' = "done" => addDone
      /\ UNCHANGED <<stamps, born, src, srcClosed, addDone, discarded>>
  BY DEF PushPeriod, PushLast, Push
<1>2. P \in Nat /\ pushes \in Seq(SUBSET Nat) /\ cache \in SUBSET Nat
  BY DEF AggInv, AggType
<1>3. Len(pushes') = P + 1 /\ pushes' \in Seq(SUBSET Nat)
  BY <1>1, <1>2
<1>4. AggType'
  <2>1. periodStart' \in Int /\ periodEnd' \in Int
    BY <1>1, AggConstants DEF AggInv, AggType
  <2> QED
    BY <1>1, <1>3, <2>1 DEF AggInv, AggType
<1>5. SrcInv'
  BY <1>1 DEF AggInv, SrcInv, Taken
<1>6. WindowInv'
  <2>1. periodStart = Boundary(P) /\ periodEnd = periodStart + Period
    BY <1>1 DEF AggInv, WindowInv
  <2>2. Boundary(P + 1) = Boundary(P) + Period
    BY <1>2, NextBoundary DEF AggInv
  <2>3. \A k : Boundary(k)' = Boundary(k)
    BY DEF Boundary
  <2>4. periodStart' = Boundary(Len(pushes))'
    BY <1>1, <1>3, <2>1, <2>2, <2>3
  <2> QED
    BY <1>1, <2>4 DEF AggInv, WindowInv
<1>7. DiscardInv'
  BY <1>1, <1>2, <1>3, DiscardStays DEF AggInv, AggType
<1> QED
  BY <1>4, <1>5, <1>6, <1>7 DEF AggInv

(* Time passes: windows stay begun. *)
LEMMA AggAdvance == ASSUME AggInv, Advance PROVE AggInv'
<1>1. now' = now + 1 /\ UNCHANGED aggVars /\ UNCHANGED <<startTime, roundInterval>>
  BY DEF Advance, tickVars
<1>2. AggType' /\ Taken' = Taken
  BY <1>1 DEF AggInv, AggType, aggVars, Taken
<1>3. WindowInv'
  BY <1>1 DEF AggInv, AggType, WindowInv, aggVars, Boundary
<1>4. \A m \in 1..Len(born) : born[m] \in Nat
  BY DEF AggInv, AggType
<1>5. \A m \in 1..Len(born) : born[m] <= now + 1
  <2>1. now \in Nat /\ \A m \in 1..Len(born) : born[m] <= now
    BY DEF AggInv, AggType, SrcInv
  <2> QED
    BY <1>4, <2>1
<1>6. SrcInv'
  BY <1>1, <1>2, <1>5 DEF AggInv, SrcInv, aggVars
<1>7. DiscardInv'
  BY <1>1, DiscardStays DEF AggInv, AggType, aggVars
<1> QED
  BY <1>2, <1>3, <1>6, <1>7 DEF AggInv

(* No step discards a metric without one of the reasons. *)
LEMMA AggNext == AggInv /\ [Next]_vars => AggInv'
<1> SUFFICES ASSUME AggInv, [Next]_vars PROVE AggInv'
  OBVIOUS
<1>1. CASE Advance
  BY <1>1, AggAdvance
<1>2. CASE GatherAdd
  BY <1>2, AggSend DEF GatherAdd, tickVars
<1>3. CASE Aggregate
  <2>1. CASE Add
    BY <1>3, <2>1, AggAdd DEF Aggregate, tickVars
  <2>2. CASE AddEnds
    <3>1. UNCHANGED <<now, startTime, roundInterval>>
      BY <1>3 DEF Aggregate, tickVars
    <3>2. DiscardInv'
      BY <2>2, <3>1, DiscardStays DEF AddEnds, AggInv, AggType
    <3>3. AggType' /\ SrcInv' /\ WindowInv'
      BY <2>2, <3>1
         DEF AddEnds, AggInv, AggType, SrcInv, Taken, WindowInv, Boundary
    <3> QED
      BY <3>2, <3>3 DEF AggInv
  <2>3. CASE PushPeriod \/ PushLast
    BY <1>3, <2>3, AggPush DEF Aggregate, tickVars
  <2> QED
    BY <1>3, <2>1, <2>2, <2>3 DEF Aggregate, AggregatorStep
<1>4. CASE StartAggregators
  BY <1>4, AggStart
<1>5. CASE /\ UNCHANGED <<now, startTime, roundInterval, periodStart, periodEnd, stamps,
                         born, src, cache, addDone, pcPush, pushes, discarded>>
           /\ srcClosed' \in BOOLEAN /\ (srcClosed => srcClosed')
  <2>1. DiscardInv'
    BY <1>5, DiscardStays DEF AggInv, AggType
  <2>2. AggType' /\ SrcInv' /\ WindowInv'
    BY <1>5 DEF AggInv, AggType, SrcInv, Taken, WindowInv, Boundary
  <2> QED
    BY <2>1, <2>2 DEF AggInv
<1>6. srcClosed \in BOOLEAN
  BY DEF AggInv, AggType
<1>7. CASE GatherDone \/ RunInputs \/ Tick \/ GatherStart \/ GatherSkip
  <2>1. UNCHANGED <<now, startTime, roundInterval>>
    BY <1>7 DEF GatherDone, RunInputs, NewTicker, NewAlignedTicker, NewUnalignedTicker,
                Tick, TickerStep, Expire, AlignedRun, UnalignedRun, Wake, GatherStart,
                GatherSkip, TakeTick
  <2>2. /\ UNCHANGED <<periodStart, periodEnd, stamps, born, src, cache, addDone, pcPush,
                       pushes, discarded>>
        /\ srcClosed' \in BOOLEAN /\ (srcClosed => srcClosed')
    BY <1>6, <1>7, Zenon
       DEF GatherDone, RunInputs, Tick, GatherStart, GatherSkip, aggVars
  <2> QED
    BY <1>5, <2>1, <2>2
<1>8. CASE GatherEnd \/ Cancel \/ UNCHANGED vars
  <2>1. UNCHANGED <<now, tickVars, aggVars>>
    BY <1>8 DEF GatherEnd, Cancel, vars
  <2> QED
    BY <1>5, <1>6, <2>1, Zenon DEF tickVars, aggVars
<1> QED
  BY <1>1, <1>2, <1>3, <1>4, <1>7, <1>8 DEF Next, Start, Gather

(* A metric is discarded only because a period ended more than the grace   *)
(* after its time or because a push is late, for every period, grace,      *)
(* delay and precision, and however late goroutines and metrics are.       *)
THEOREM OnlyLateDiscarded == Spec => []DiscardedOnlyLate
<1>1. AggInv => DiscardedOnlyLate
  BY DEF AggInv, DiscardInv
<1> QED
  BY <1>1, AggInit, AggNext, PTL DEF Spec

-----------------------------------------------------------------------------
(* What was taken is in the cache or in a push, and nothing else is there. *)
PushInv ==
  /\ pushes \in Seq(SUBSET Nat)
  /\ cache \subseteq 1..Taken
  /\ \A i \in 1..Len(pushes) : pushes[i] \subseteq 1..Taken
  /\ PushedOnce

(* Nothing is pushed at the start. *)
LEMMA PushInit == Init => PushInv
<1> SUFFICES ASSUME Init PROVE PushInv
  OBVIOUS
<1>1. cache = {} /\ pushes = <<>> /\ pcPush = "off"
  BY DEF Init, AggregatorInit
<1>2. <<>> \in Seq(SUBSET Nat) /\ Len(pushes) = 0 /\ DOMAIN pushes = {}
  BY <1>1
<1> QED
  BY <1>1, <1>2 DEF PushInv, PushedOnce

(* Add puts into the cache what was never there. *)
LEMMA PushAdd ==
  ASSUME AggInv, PushInv, Add, UNCHANGED <<now, startTime, roundInterval>>
  PROVE  PushInv'
<1> DEFINE T == Taken
<1>1. cache' \subseteq cache \cup {T + 1} /\ Taken' = T + 1
  BY AggAdd
<1>2. T \in Nat
  BY DEF AggInv, AggType, Taken
<1>3. pushes' = pushes /\ pcPush' = pcPush /\ src # <<>>
  BY DEF Add
<1>4. pcPush # "done"
  BY <1>3 DEF PushInv, PushedOnce
<1>5. cache \subseteq 1..T /\ \A i \in 1..Len(pushes) : pushes[i] \subseteq 1..T
  BY DEF PushInv
<1>6. DOMAIN pushes = 1..Len(pushes)
  BY DEF PushInv
<1> HIDE DEF T
<1>7. cache' \subseteq 1..(T + 1) /\ \A i \in 1..Len(pushes) : pushes[i] \subseteq 1..(T + 1)
  BY <1>1, <1>2, <1>5
<1>8. T + 1 \notin 1..T
  BY <1>2
<1>9. \A i \in DOMAIN pushes : pushes[i] \cap cache' = {}
  BY <1>1, <1>5, <1>6, <1>8 DEF PushInv, PushedOnce
<1>10. PushedOnce'
  BY <1>3, <1>4, <1>9 DEF PushInv, PushedOnce
<1> QED
  BY <1>1, <1>3, <1>7, <1>10 DEF PushInv

(* A push empties the cache; the last one comes when nothing is under way. *)
LEMMA PushPush ==
  ASSUME AggInv, PushInv, PushPeriod \/ PushLast, now' = now
  PROVE  PushInv'
<1> DEFINE P == Len(pushes)
<1>1. /\ pushes' = Append(pushes, cache) /\ cache' = {}
      /\ UNCHANGED <<stamps, src>>
  BY DEF PushPeriod, PushLast, Push
<1>2. Taken' = Taken /\ Taken \in Nat
  BY <1>1 DEF Taken, AggInv, AggType
<1>3. cache \in SUBSET Nat
  BY <1>2 DEF PushInv
<1>4. pushes \in Seq(SUBSET Nat) /\ P \in Nat /\ DOMAIN pushes = 1..P
  BY DEF PushInv
<1>5. /\ pushes' \in Seq(SUBSET Nat) /\ Len(pushes') = P + 1 /\ DOMAIN pushes' = 1..(P + 1)
      /\ \A i \in 1..P : pushes'[i] = pushes[i]
      /\ pushes'[P + 1] = cache
  BY <1>1, <1>3, <1>4
<1>6. pcPush' = "done" => src' = <<>>
  BY <1>1 DEF PushPeriod, PushLast, AggInv, WindowInv
<1>7. \A i \in 1..P : pushes[i] \cap cache = {}
  BY <1>4 DEF PushInv, PushedOnce
<1>8. \A i, j \in 1..P : i # j => pushes[i] \cap pushes[j] = {}
  BY <1>4 DEF PushInv, PushedOnce
<1>9. \A i \in 1..Len(pushes') : pushes'[i] \subseteq 1..Taken'
  <2>1. cache \subseteq 1..Taken /\ \A i \in 1..P : pushes[i] \subseteq 1..Taken
    BY DEF PushInv
  <2> HIDE DEF P
  <2> QED
    BY <1>2, <1>4, <1>5, <2>1
<1> HIDE DEF P
<1>10. ASSUME NEW i \in 1..(P + 1), NEW j \in 1..(P + 1), i # j
       PROVE  pushes'[i] \cap pushes'[j] = {}
  <2>1. CASE i = P + 1
    BY <1>4, <1>5, <1>7, <1>10, <2>1
  <2>2. CASE j = P + 1
    BY <1>4, <1>5, <1>7, <1>10, <2>2
  <2>3. CASE i \in 1..P /\ j \in 1..P
    BY <1>5, <1>8, <1>10, <2>3
  <2> QED
    BY <1>4, <2>1, <2>2, <2>3
<1>11. PushedOnce'
  BY <1>1, <1>5, <1>6, <1>10 DEF PushedOnce
<1> QED
  BY <1>1, <1>5, <1>9, <1>11 DEF PushInv

(* No step loses what was added or pushes it twice. *)
LEMMA PushNext == AggInv /\ PushInv /\ [Next]_vars => PushInv'
<1> SUFFICES ASSUME AggInv, PushInv, [Next]_vars PROVE PushInv'
  OBVIOUS
<1>1. CASE Aggregate
  <2>1. CASE Add
    BY <1>1, <2>1, PushAdd DEF Aggregate, tickVars
  <2>2. CASE AddEnds
    BY <2>2, Zenon DEF AddEnds, PushInv, PushedOnce, Taken
  <2>3. CASE PushPeriod \/ PushLast
    BY <1>1, <2>3, PushPush DEF Aggregate
  <2> QED
    BY <1>1, <2>1, <2>2, <2>3 DEF Aggregate, AggregatorStep
<1>2. CASE GatherAdd
  <2>1. /\ src' = Append(src, Len(stamps')) /\ stamps' = Append(stamps, Round(now, Precision))
        /\ ~srcClosed /\ UNCHANGED <<cache, pushes, pcPush>>
    BY <1>2 DEF GatherAdd, SendMetric
  <2>2. Taken' = Taken
    BY <2>1 DEF Taken, AggInv, AggType
  <2>3. pcPush # "done"
    BY <2>1 DEF AggInv, WindowInv
  <2> QED
    BY <2>1, <2>2, <2>3 DEF PushInv, PushedOnce
<1>3. CASE UNCHANGED <<stamps, src, cache, pcPush, pushes>>
  BY <1>3 DEF PushInv, PushedOnce, Taken
<1>4. CASE StartAggregators
  BY <1>4 DEF StartAggregators, RunAggregators, PushInv, PushedOnce, Taken
<1> QED
  BY <1>1, <1>2, <1>3, <1>4
     DEF Next, Start, RunInputs, Advance, Tick, Gather, GatherStart, GatherSkip,
         GatherEnd, GatherDone, Cancel, vars, aggVars

(* The aggregator pushes what it added once, and all of it: the last push  *)
(* comes after the last metric.                                            *)
THEOREM AggregatesPushedOnce == Spec => []PushedOnce
<1>1. PushInv => PushedOnce
  BY DEF PushInv
<1> QED
  BY <1>1, AggInit, AggNext, PushInit, PushNext, PTL DEF Spec
=============================================================================
