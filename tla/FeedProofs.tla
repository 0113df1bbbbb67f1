----------------------------- MODULE FeedProofs -----------------------------
(***************************************************************************)
(* Proofs about Feed, for every schedule, every fan-out, every length of   *)
(* the grace, the window, the delays and the parks, and every number of    *)
(* jumps of the clock.  The invariant bounds each instant by the steps the *)
(* clock has taken back so far, keeps the nap behind the park, and says    *)
(* where the calls that an at-tick slot owes are kept.                     *)
(***************************************************************************)
EXTENDS Feed, WellFoundedInduction, TLAPS

-----------------------------------------------------------------------------
(* Numbers.                                                                *)

LEMMA Constants ==
    /\ Every \in Nat /\ Jitter \in Nat /\ AtGrace \in Nat /\ Window \in Nat /\ Cap \in Nat
    /\ MaxPark \in Nat /\ StaleAfter \in Nat /\ Ahead \in Nat /\ Back \in Nat /\ MaxJumps \in Nat
    /\ Period \in Nat \ {0} /\ DOMAIN Schedule = 0..(Period - 1)
  BY FeedAssumption

\* The greater of two.
LEMMA MaxTwo ==
    ASSUME NEW a \in Int, NEW b \in Int
    PROVE  Max({a, b}) = IF a >= b THEN a ELSE b
<1>1. \E x \in {a, b} : \A y \in {a, b} : x >= y
  OBVIOUS
<1>2. Max({a, b}) \in {a, b} /\ \A y \in {a, b} : Max({a, b}) >= y
  BY <1>1 DEF Max
<1> QED BY <1>2

\* The greatest of three.
LEMMA MaxThree ==
    ASSUME NEW a \in Int, NEW b \in Int, NEW c \in Int
    PROVE  Max({a, b, c}) \in {a, b, c} /\ Max({a, b, c}) >= a /\ Max({a, b, c}) >= b /\ Max({a, b, c}) >= c
<1>1. \E x \in {a, b, c} : \A y \in {a, b, c} : x >= y
  OBVIOUS
<1>2. Max({a, b, c}) \in {a, b, c} /\ \A y \in {a, b, c} : Max({a, b, c}) >= y
  BY <1>1 DEF Max
<1> QED BY <1>2

\* Multiples.
LEMMA TimesGrow ==
    ASSUME NEW m \in Nat, NEW n \in Nat, NEW b \in Nat
    PROVE  /\ m * b \in Nat
           /\ (m + 1) * b = m * b + b
           /\ m <= n => m * b <= n * b
<1>1. m * b \in Nat /\ (m + 1) * b = m * b + b
  OBVIOUS
<1>2. ASSUME m <= n PROVE m * b <= n * b
  <2>1. PICK e \in Nat : n = m + e
    <3>1. n - m \in Nat /\ n = m + (n - m)
      BY <1>2
    <3> QED BY <3>1
  <2>2. n * b = m * b + e * b /\ e * b \in Nat
    BY <2>1
  <2> QED BY <1>1, <2>2
<1> QED BY <1>1, <1>2

\* The period turns.
LEMMA Turns ==
    ASSUME NEW a \in Nat, NEW p \in Nat \ {0}, NEW k \in 0..(p - 1)
    PROVE  \E d \in 0..(p - 1) : (a + d) % p = k
<1>1. PICK q \in Nat, r \in 0..(p - 1) : a = p * q + r
  <2>1. a \div p \in Nat /\ a % p \in 0..(p - 1)
    OBVIOUS
  <2>2. a = p * (a \div p) + (a % p)
    OBVIOUS
  <2> QED BY <2>1, <2>2
<1>2. CASE k >= r
  <2>1. PICK d \in 0..(p - 1) : d = k - r
    BY <1>1, <1>2
  <2>2. a + d = p * q + k
    BY <1>1, <2>1
  <2>3. (p * q + k) % p = k
    BY <1>1
  <2> QED BY <2>1, <2>2, <2>3
<1>3. CASE k < r
  <2>1. PICK d \in 0..(p - 1) : d = k - r + p
    BY <1>1, <1>3
  <2>2. a + d = p * (q + 1) + k
    BY <1>1, <2>1
  <2>3. q + 1 \in Nat /\ (p * (q + 1) + k) % p = k
    BY <1>1
  <2> QED BY <2>1, <2>2, <2>3
<1> QED BY <1>1, <1>2, <1>3

\* next_fire finds a slot, at `from' or later and within a period.
LEMMA NextFireIs ==
    ASSUME phase \in DOMAIN Schedule, last = Never \/ last \in Int, NEW from \in Nat
    PROVE  NextFire(from) \in Nat /\ from <= NextFire(from) /\ NextFire(from) <= from + Period
<1>1. PICK seen : seen = IF last = Never THEN from - 1 ELSE IF last > from THEN from ELSE last
  OBVIOUS
<1>2. seen \in Int /\ seen <= from
  BY <1>1
<1>3. PICK t : t = Max({from, seen + 1})
  OBVIOUS
<1>4. t \in Nat /\ from <= t /\ t <= from + 1
  BY <1>2, <1>3, MaxTwo
<1>5. PICK k \in 0..(Period - 1) : Schedule[k] # "none"
  BY FeedAssumption
<1>6. Period \in Nat \ {0} /\ phase \in 0..(Period - 1) /\ phase + t \in Nat
  BY <1>4, Constants
<1>7. PICK e \in 0..(Period - 1) : ((phase + t) + e) % Period = k
  BY <1>6, Turns
<1>8. PICK T : T = {d \in Nat : d >= t /\ FireAt(d) # "none"}
  OBVIOUS
<1>9. t + e \in T
  <2>1. phase + (t + e) = (phase + t) + e /\ t + e \in Nat /\ t + e >= t
    BY <1>4, <1>6, <1>7
  <2>2. FireAt(t + e) = Schedule[k]
    BY <1>7, <2>1 DEF FireAt
  <2> QED BY <1>5, <1>8, <2>1, <2>2
<1>10. PICK d \in T : \A y \in T : ~(<<y, d>> \in OpToRel(<, Nat))
  <2>1. T \subseteq Nat /\ T # {}
    BY <1>8, <1>9
  <2> QED BY <2>1, WFMin, NatLessThanWellFounded
<1>11. ASSUME NEW y \in T PROVE d <= y
  <2>1. y \in Nat /\ d \in Nat
    BY <1>8
  <2>2. ~(y < d)
    BY <1>10, <2>1 DEF OpToRel
  <2> QED BY <2>1, <2>2
<1>12. d \in t..(t + Period - 1) /\ FireAt(d) # "none" /\ \A f \in t..(d - 1) : FireAt(f) = "none"
  <2>1. d \in Nat /\ d >= t /\ FireAt(d) # "none" /\ d <= t + e
    BY <1>8, <1>9, <1>10, <1>11
  <2>2. d <= t + Period - 1
    BY <1>4, <1>6, <1>7, <2>1
  <2>3. ASSUME NEW f \in t..(d - 1) PROVE FireAt(f) = "none"
    <3>1. f \in Nat /\ f >= t /\ ~(d <= f)
      BY <1>4, <2>1, <2>3
    <3> QED BY <1>8, <1>11, <3>1
  <2> QED BY <1>4, <1>6, <2>1, <2>2, <2>3
<1>13. NextFire(from) = CHOOSE x \in t..(t + Period - 1) :
                           FireAt(x) # "none" /\ \A f \in t..(x - 1) : FireAt(f) = "none"
  BY <1>1, <1>3 DEF NextFire
<1>14. NextFire(from) \in t..(t + Period - 1)
  BY <1>12, <1>13
<1> QED BY <1>4, <1>6, <1>14

-----------------------------------------------------------------------------
(* The invariant.                                                          *)

\* How far the clock has stepped back, and the bounds of an instant.
Slack == jumps * Back
Top == Longest + Period + Jitter
Floor == -(StepsBack + 1 + Max({Window, Graces, StaleAfter}))
Within(x, hi) == x \in Int /\ Floor <= x /\ x <= hi + Slack

Switches ==
    /\ kind \in Kinds /\ pc \in {"start", "next", "nap", "run", "stopped"}
    /\ left \subseteq Calls /\ failed \subseteq [call: Calls, class: Classes] /\ ok \in BOOLEAN
    /\ tick \in {"none", "waiting", "closed"}
    /\ health \in {"connecting", "live", "stalled", "backoff", "down"}
    /\ up \in BOOLEAN /\ stop \in BOOLEAN /\ owed \subseteq Calls

Counters == phase \in 0..(Period - 1) /\ jumps \in 0..MaxJumps

Recs ==
    /\ retry = None \/ retry \in RetryRec(Int, Int)
    /\ next = None \/ next \in NextRec(Int)
    /\ (next = None) <=> pc \notin {"nap", "run"}

\* An instant lies ahead by no more than the longest delay, a period and the
\* steps back so far.
Times ==
    /\ last = Never \/ Within(last, Top)
    /\ gate = Never \/ Within(gate, Longest)
    /\ Within(item, 0)
    /\ retry # None => Within(retry.slot, Top) /\ Within(retry.at, Longest)
    /\ next # None => Within(next.slot, Top) /\ Within(next.at, Top)

\* The park is over for good, whatever steps back are left.
Over == gate <= Slack - StepsBack - 1

\* Neither the retry nor the nap ends before the park.
Parked ==
    gate # Never =>
        /\ pc # "start"
        /\ retry # None => retry.at >= gate \/ Over
        /\ pc = "nap" => next.at >= gate \/ Over

\* Where the owed calls are.
Owing ==
    /\ pc = "nap" /\ ~next.fresh => retry # None /\ next.calls = retry.calls
    /\ pc = "run" => retry = None
    /\ kind = "tick" => pc # "run" /\ retry = None
    /\ OwedIsRetried

FeedInv == Switches /\ Counters /\ Recs /\ Times /\ Parked /\ Owing

\* The bounds are whole numbers.
LEMMA BoundsTyped ==
    /\ Graces \in Nat /\ Longest \in Nat /\ Top \in Nat /\ StepsBack \in Nat
    /\ Cap <= Longest /\ MaxPark <= Longest /\ Longest <= Top /\ Longest + Period + Jitter = Top
    /\ Floor \in Int /\ Floor <= -(StepsBack + 1) /\ Floor <= -(StepsBack + Window + 1)
    /\ Floor <= -(StepsBack + Graces + 1) /\ Floor <= -(StepsBack + StaleAfter + 1) /\ Floor <= -1
    /\ Forever \in Nat
<1>1. Graces \in Nat
  BY Constants, MaxTwo DEF Graces
<1>2. Longest \in Nat /\ Cap <= Longest /\ MaxPark <= Longest
  BY Constants, MaxTwo DEF Longest
<1>3. StepsBack \in Nat
  BY Constants, TimesGrow DEF StepsBack
<1>4. Top \in Nat /\ Longest <= Top /\ Longest + Period + Jitter = Top
  BY Constants, <1>2 DEF Top
<1>5. PICK m : m = Max({Window, Graces, StaleAfter})
  OBVIOUS
<1>6. m \in Nat /\ m >= Window /\ m >= Graces /\ m >= StaleAfter
  <2>1. Window \in Int /\ Graces \in Int /\ StaleAfter \in Int
    BY <1>1, Constants
  <2>2. m \in {Window, Graces, StaleAfter} /\ m >= Window /\ m >= Graces /\ m >= StaleAfter
    BY <1>5, <2>1, MaxThree
  <2> QED BY <1>1, <2>2, Constants
<1>7. Floor = -(StepsBack + 1 + m)
  BY <1>5 DEF Floor
<1>8. Forever \in Nat
  BY <1>1, <1>3 DEF Forever
<1> QED BY <1>1, <1>2, <1>3, <1>4, <1>6, <1>7, <1>8, Constants

\* The clock has not stepped back further than it may.
LEMMA SlackTyped ==
    ASSUME jumps \in 0..MaxJumps
    PROVE  Slack \in Nat /\ Slack <= StepsBack
<1>1. jumps \in Nat /\ MaxJumps \in Nat /\ Back \in Nat /\ jumps <= MaxJumps
  BY Constants
<1> QED BY <1>1, TimesGrow DEF Slack, StepsBack

\* An instant stays within its bounds when the clock moves.
LEMMA ShiftWithin ==
    ASSUME NEW x \in Int, NEW k \in Int, NEW w \in {0, Window, Graces, StaleAfter},
           NEW hi \in Nat, x - k <= hi
    PROVE  /\ Shift(x, k, w) \in Int /\ Floor <= Shift(x, k, w) /\ Shift(x, k, w) <= hi
           /\ Shift(x, k, w) = IF x - k >= -(StepsBack + w + 1) THEN x - k ELSE -(StepsBack + w + 1)
<1>1. x # Never
  BY FeedAssumption DEF Never
<1>2. w \in Nat /\ StepsBack \in Nat /\ Floor \in Int /\ Floor <= -(StepsBack + w + 1)
  BY BoundsTyped, Constants
<1>3. PICK c : c = -(StepsBack + w + 1)
  OBVIOUS
<1>4. c \in Int /\ Floor <= c /\ c < 0 /\ x - k \in Int
  BY <1>2, <1>3
<1>5. Shift(x, k, w) = Max({x - k, c})
  BY <1>1, <1>3 DEF Shift
<1>6. Shift(x, k, w) = IF x - k >= c THEN x - k ELSE c
  BY <1>4, <1>5, MaxTwo
<1>7. Shift(x, k, w) \in Int /\ Floor <= Shift(x, k, w) /\ Shift(x, k, w) <= hi
  BY <1>2, <1>4, <1>6
<1> QED BY <1>3, <1>6, <1>7

-----------------------------------------------------------------------------
(* The invariant holds.                                                    *)

\* No feed has begun.
LEMMA InitFeed == Init => FeedInv
<1> SUFFICES ASSUME Init PROVE FeedInv
  OBVIOUS
<1>1. Switches
  BY DEF Init, Switches
<1>2. Counters
  BY Constants DEF Init, Counters
<1>3. Recs
  BY DEF Init, Recs
<1>4. Times
  <2>1. Slack = 0
    BY Constants DEF Slack, Init
  <2> QED BY <2>1, BoundsTyped DEF Init, Times, Within
<1>5. Parked /\ Owing
  BY DEF Init, Parked, Owing, OwedIsRetried
<1> QED BY <1>1, <1>2, <1>3, <1>4, <1>5 DEF FeedInv

\* How the clock moves: on, or back by no more than the slack grows.
LEMMA MoveIs ==
    ASSUME FeedInv, Tick \/ Jump
    PROVE  \E k \in Int : /\ Moved(k) /\ Counters' /\ Slack' \in Nat /\ Slack - k <= Slack'
                          /\ UNCHANGED <<kind, pc, runVars, tick, health, up, stop, owed>>
<1>0. phase \in 0..(Period - 1) /\ jumps \in 0..MaxJumps /\ jumps \in Nat
      /\ Slack \in Nat /\ Slack <= StepsBack /\ Period \in Nat \ {0} /\ MaxJumps \in Nat
      /\ Back \in Nat /\ Ahead \in Nat
  BY SlackTyped, Constants DEF FeedInv, Counters
<1>1. \A k \in Int : (phase + k) % Period \in 0..(Period - 1)
  BY <1>0
<1>2. CASE Tick
  <2>1. Moved(1) /\ UNCHANGED <<kind, pc, runVars, tick, health, up, stop, owed>> /\ jumps' = jumps
    BY <1>2 DEF Tick, envVars
  <2>2. Slack' = Slack
    BY <2>1 DEF Slack
  <2>3. Counters'
    BY <1>0, <1>1, <2>1 DEF Counters, Moved
  <2> QED BY <1>0, <2>1, <2>2, <2>3
<1>3. CASE Jump
  <2>1. /\ jumps < MaxJumps /\ jumps' = jumps + 1 /\ (Moved(Ahead) \/ Moved(-Back))
        /\ UNCHANGED <<kind, pc, runVars, tick, health, up, stop, owed>>
    BY <1>3 DEF Jump
  <2>2. Slack' = Slack + Back
    BY <1>0, <2>1, TimesGrow DEF Slack
  <2>3. PICK k \in Int : Moved(k) /\ k >= -Back
    <3>1. -Back \in Int /\ Ahead \in Int /\ Ahead >= -Back /\ -Back >= -Back
      BY <1>0
    <3> QED BY <2>1, <3>1
  <2>4. Counters'
    <3>1. phase' \in 0..(Period - 1)
      BY <1>1, <2>3 DEF Moved
    <3>2. jumps' \in 0..MaxJumps
      BY <1>0, <2>1
    <3> QED BY <3>1, <3>2 DEF Counters
  <2>5. Slack' \in Nat /\ Slack - k <= Slack'
    BY <1>0, <2>2, <2>3
  <2> QED BY <2>1, <2>3, <2>4, <2>5
<1> QED BY <1>2, <1>3

\* The clock moves.
LEMMA MoveFeed ==
    ASSUME FeedInv, Tick \/ Jump
    PROVE  FeedInv'
<1>0. PICK k \in Int : /\ Moved(k) /\ Counters' /\ Slack' \in Nat /\ Slack - k <= Slack'
                       /\ UNCHANGED <<kind, pc, runVars, tick, health, up, stop, owed>>
  BY MoveIs
<1>1. Slack \in Nat /\ Slack <= StepsBack /\ StepsBack \in Nat /\ Top \in Nat /\ Longest \in Nat
      /\ Window \in Nat /\ Graces \in Nat /\ StaleAfter \in Nat
  BY SlackTyped, BoundsTyped, Constants DEF FeedInv, Counters
<1>2. ASSUME NEW x \in Int, NEW w \in {0, Window, Graces, StaleAfter}, NEW hi \in Nat, Within(x, hi)
      PROVE  /\ Shift(x, k, w) \in Int /\ Floor <= Shift(x, k, w) /\ Shift(x, k, w) <= hi + Slack'
             /\ Shift(x, k, w) = IF x - k >= -(StepsBack + w + 1) THEN x - k ELSE -(StepsBack + w + 1)
  <2>0. PICK s0, s1 : s0 = Slack /\ s1 = Slack'
    OBVIOUS
  <2>1. s0 \in Nat /\ s1 \in Nat /\ s0 - k <= s1 /\ x <= hi + s0
    BY <1>0, <1>1, <1>2, <2>0 DEF Within
  <2>2. x - k <= hi + s1 /\ hi + s1 \in Nat
    BY <2>1
  <2> QED BY <2>0, <2>2, <1>2, ShiftWithin
<1>3. Switches'
  BY <1>0 DEF FeedInv, Switches, runVars
<1>4. \/ last' = Never /\ last = Never
      \/ last' \in Int /\ Floor <= last' /\ last' <= Top + Slack'
  <2>1. CASE last = Never
    BY <1>0, <2>1 DEF Moved, Shift
  <2>2. CASE last # Never
    <3>1. last \in Int /\ Within(last, Top)
      BY <2>2 DEF FeedInv, Times, Within
    <3>2. last' = Shift(last, k, 0)
      BY <1>0 DEF Moved
    <3> QED BY <1>1, <1>2, <3>1, <3>2
  <2> QED BY <2>1, <2>2
<1>5. \/ gate' = Never /\ gate = Never
      \/ /\ gate \in Int /\ gate # Never /\ gate' \in Int /\ Floor <= gate' /\ gate' <= Longest + Slack'
         /\ gate' = IF gate - k >= -(StepsBack + 1) THEN gate - k ELSE -(StepsBack + 1)
  <2>1. CASE gate = Never
    BY <1>0, <2>1 DEF Moved, Shift
  <2>2. CASE gate # Never
    <3>1. gate \in Int /\ Within(gate, Longest)
      BY <2>2 DEF FeedInv, Times, Within
    <3>2. gate' = Shift(gate, k, 0)
      BY <1>0 DEF Moved
    <3>3. StepsBack + 0 + 1 = StepsBack + 1
      BY <1>1
    <3> QED BY <1>1, <1>2, <2>2, <3>1, <3>2, <3>3
  <2> QED BY <2>1, <2>2
<1>6. item' \in Int /\ Floor <= item' /\ item' <= 0 + Slack'
  <2>1. item \in Int /\ Within(item, 0)
    BY DEF FeedInv, Times, Within
  <2>2. item' = Shift(item, k, StaleAfter)
    BY <1>0 DEF Moved
  <2>3. 0 \in Nat
    OBVIOUS
  <2> QED BY <1>2, <2>1, <2>2, <2>3
<1>7. \/ retry' = None /\ retry = None
      \/ /\ retry # None /\ retry \in RetryRec(Int, Int) /\ retry' \in RetryRec(Int, Int)
         /\ retry' # None /\ retry'.calls = retry.calls
         /\ retry'.slot \in Int /\ Floor <= retry'.slot /\ retry'.slot <= Top + Slack'
         /\ retry'.at \in Int /\ Floor <= retry'.at /\ retry'.at <= Longest + Slack'
         /\ retry.at \in Int /\ (retry'.at = retry.at - k \/ (retry.at - k < -(StepsBack + 1) /\ retry'.at = -(StepsBack + 1)))
  <2>1. CASE retry = None
    BY <1>0, <2>1 DEF Moved
  <2>2. CASE retry # None
    <3>1. retry \in RetryRec(Int, Int) /\ Within(retry.slot, Top) /\ Within(retry.at, Longest)
          /\ retry.slot \in Int /\ retry.at \in Int
      BY <2>2 DEF FeedInv, Times, Recs, Within
    <3>2. PICK a : a = Shift(retry.slot, k, Window)
      OBVIOUS
    <3>3. PICK b : b = Shift(retry.at, k, 0)
      OBVIOUS
    <3>4. a \in Int /\ Floor <= a /\ a <= Top + Slack'
      BY <1>1, <1>2, <3>1, <3>2
    <3>5. b \in Int /\ Floor <= b /\ b <= Longest + Slack'
          /\ b = IF retry.at - k >= -(StepsBack + 0 + 1) THEN retry.at - k ELSE -(StepsBack + 0 + 1)
      BY <1>1, <1>2, <3>1, <3>3
    <3>6. retry' = [retry EXCEPT !.slot = a, !.at = b]
      BY <1>0, <2>2, <3>2, <3>3 DEF Moved
    <3>7. retry' \in RetryRec(Int, Int) /\ retry'.slot = a /\ retry'.at = b /\ retry'.calls = retry.calls
      <4>1. a \in Int /\ b \in Int /\ retry \in RetryRec(Int, Int)
        BY <3>1, <3>4, <3>5
      <4> QED BY <3>6, <4>1 DEF RetryRec
    <3>8. retry' # None
      BY <3>7, FeedAssumption
    <3>9. b = retry.at - k \/ (retry.at - k < -(StepsBack + 1) /\ b = -(StepsBack + 1))
      BY <1>1, <3>1, <3>5
    <3> QED BY <2>2, <3>1, <3>4, <3>5, <3>7, <3>8, <3>9
  <2> QED BY <2>1, <2>2
<1>8. \/ next' = None /\ next = None
      \/ /\ next # None /\ next \in NextRec(Int) /\ next' \in NextRec(Int) /\ next' # None
         /\ next'.calls = next.calls /\ next'.fresh = next.fresh
         /\ next'.slot \in Int /\ Floor <= next'.slot /\ next'.slot <= Top + Slack'
         /\ next'.at \in Int /\ Floor <= next'.at /\ next'.at <= Top + Slack'
         /\ next.at \in Int /\ next'.at >= next.at - k
  <2>1. CASE next = None
    BY <1>0, <2>1 DEF Moved
  <2>2. CASE next # None
    <3>1. next \in NextRec(Int) /\ Within(next.slot, Top) /\ Within(next.at, Top)
          /\ next.slot \in Int /\ next.at \in Int
      BY <2>2 DEF FeedInv, Times, Recs, Within
    <3>2. PICK a : a = Shift(next.slot, k, Window)
      OBVIOUS
    <3>3. PICK b : b = Shift(next.at, k, Graces)
      OBVIOUS
    <3>4. a \in Int /\ Floor <= a /\ a <= Top + Slack'
      BY <1>1, <1>2, <3>1, <3>2
    <3>5. b \in Int /\ Floor <= b /\ b <= Top + Slack'
          /\ b = IF next.at - k >= -(StepsBack + Graces + 1) THEN next.at - k ELSE -(StepsBack + Graces + 1)
      BY <1>1, <1>2, <3>1, <3>3
    <3>6. next' = [next EXCEPT !.slot = a, !.at = b]
      BY <1>0, <2>2, <3>2, <3>3 DEF Moved
    <3>7. /\ next' \in NextRec(Int) /\ next'.slot = a /\ next'.at = b
          /\ next'.calls = next.calls /\ next'.fresh = next.fresh
      <4>1. a \in Int /\ b \in Int /\ next \in NextRec(Int)
        BY <3>1, <3>4, <3>5
      <4> QED BY <3>6, <4>1 DEF NextRec
    <3>8. next' # None
      BY <3>7, FeedAssumption
    <3>9. b >= next.at - k
      BY <1>1, <3>1, <3>5
    <3> QED BY <2>2, <3>1, <3>4, <3>5, <3>7, <3>8, <3>9
  <2> QED BY <2>1, <2>2
<1>9. Recs'
  BY <1>0, <1>7, <1>8 DEF FeedInv, Recs, RetryRec, NextRec
<1>10. Times'
  <2>1. Floor' = Floor /\ Never' = Never
    BY DEF Floor, Never, StepsBack, Graces
  <2> QED BY <1>4, <1>5, <1>6, <1>7, <1>8, <2>1 DEF Times, Within, Top, Longest
<1>11. Parked'
  <2> SUFFICES ASSUME gate' # Never
               PROVE  /\ pc' # "start"
                      /\ retry' # None => retry'.at >= gate' \/ Over'
                      /\ pc' = "nap" => next'.at >= gate' \/ Over'
    BY DEF Parked, Never
  <2>1. /\ gate \in Int /\ gate # Never /\ gate' \in Int
        /\ gate' = IF gate - k >= -(StepsBack + 1) THEN gate - k ELSE -(StepsBack + 1)
    BY <1>5
  <2>2. Over' <=> gate' <= Slack' - StepsBack - 1
    BY DEF Over, StepsBack
  <2>0. PICK s0, s1, g0, g1 : s0 = Slack /\ s1 = Slack' /\ g0 = gate /\ g1 = gate'
    OBVIOUS
  <2>10. /\ s0 \in Nat /\ s1 \in Nat /\ s0 - k <= s1 /\ g0 \in Int /\ g1 \in Int
         /\ g1 = IF g0 - k >= -(StepsBack + 1) THEN g0 - k ELSE -(StepsBack + 1)
    BY <1>0, <1>1, <2>0, <2>1
  <2>3. Over => Over'
    <3>1. ASSUME g0 <= s0 - StepsBack - 1 PROVE g1 <= s1 - StepsBack - 1
      BY <1>1, <2>10, <3>1
    <3> QED BY <2>0, <2>2, <3>1 DEF Over
  <2>4. ASSUME NEW x \in Int, NEW y \in Int, x >= gate, y >= x - k PROVE y >= gate' \/ Over'
    <3>1. y >= g1 \/ g1 <= s1 - StepsBack - 1
      <4>1. x >= g0
        BY <2>0, <2>4
      <4> QED BY <1>1, <2>10, <2>4, <4>1
    <3> QED BY <2>0, <2>2, <3>1
  <2>5. pc' # "start"
    BY <1>0, <2>1 DEF FeedInv, Parked
  <2>6. ASSUME retry' # None PROVE retry'.at >= gate' \/ Over'
    <3>1. /\ retry # None /\ retry.at \in Int /\ retry'.at \in Int
          /\ (retry'.at = retry.at - k \/ (retry.at - k < -(StepsBack + 1) /\ retry'.at = -(StepsBack + 1)))
      BY <1>7, <2>6
    <3>2. retry'.at >= retry.at - k
      BY <1>0, <1>1, <3>1
    <3>3. retry.at >= gate \/ Over
      BY <2>1, <3>1 DEF FeedInv, Parked
    <3> QED BY <2>3, <2>4, <3>1, <3>2, <3>3
  <2>7. ASSUME pc' = "nap" PROVE next'.at >= gate' \/ Over'
    <3>1. pc = "nap" /\ next # None
      BY <1>0, <2>7 DEF FeedInv, Recs
    <3>2. next.at \in Int /\ next'.at \in Int /\ next'.at >= next.at - k
      BY <1>8, <3>1
    <3>3. next.at >= gate \/ Over
      BY <2>1, <3>1 DEF FeedInv, Parked
    <3> QED BY <2>3, <2>4, <3>2, <3>3
  <2> QED BY <2>5, <2>6, <2>7
<1>12. Owing'
  <2>1. pc' = pc /\ kind' = kind /\ owed' = owed
    BY <1>0
  <2>2. pc \in {"nap", "run"} => next' # None /\ next'.calls = next.calls /\ next'.fresh = next.fresh
    BY <1>8 DEF FeedInv, Recs
  <2>3. (retry' = None <=> retry = None) /\ (retry # None => retry'.calls = retry.calls)
    BY <1>7
  <2>4. OwedIsRetried'
    BY <2>1, <2>2, <2>3 DEF FeedInv, Owing, OwedIsRetried
  <2> QED BY <2>1, <2>2, <2>3, <2>4 DEF FeedInv, Owing
<1> QED BY <1>0, <1>3, <1>9, <1>10, <1>11, <1>12 DEF FeedInv

\* run_on_start: a slot now.
LEMMA StartFeed ==
    ASSUME FeedInv, Start
    PROVE  FeedInv'
<1>0. /\ pc = "start" /\ pc' = "nap"
      /\ UNCHANGED <<kind, phase, last, gate, retry, left, failed, ok, tick, health, item,
                     up, stop, jumps, owed>>
  BY DEF Start, runVars, healthVars, envVars
<1>1. PICK b : b = (\A k \in DOMAIN Schedule : Schedule[k] # "grid")
  OBVIOUS
<1>2. next' = [at |-> 0, slot |-> 0, fresh |-> TRUE, grace |-> Forever, calls |-> Calls, atTick |-> b]
  BY <1>1 DEF Start
<1>3. next' \in NextRec(Int)
  <2>1. Calls \in (SUBSET Calls) \ {{}} /\ Forever \in Nat /\ b \in BOOLEAN /\ 0 \in Int
    BY <1>1, BoundsTyped, FeedAssumption
  <2> QED BY <1>2, <2>1 DEF NextRec
<1>4. next' # None /\ next'.at = 0 /\ next'.slot = 0 /\ next'.fresh = TRUE
  <2>1. next' # None
    BY <1>3, FeedAssumption
  <2> QED BY <1>2, <2>1
<1>5. Slack' = Slack /\ Slack \in Nat
  BY <1>0, SlackTyped DEF Slack, FeedInv, Counters
<1>6. Switches' /\ Counters'
  BY <1>0 DEF FeedInv, Switches, Counters
<1>7. Recs'
  BY <1>0, <1>3, <1>4 DEF FeedInv, Recs
<1>8. Times'
  <2>1. \A x, hi : Within(x, hi)' <=> Within(x, hi)
    BY <1>5 DEF Within, Floor, StepsBack, Graces
  <2>2. Within(0, Top)
    BY <1>5, BoundsTyped DEF Within
  <2> QED BY <1>0, <1>4, <1>5, <2>1, <2>2 DEF FeedInv, Times, Within, Floor, StepsBack, Graces, Top, Longest
<1>9. Parked'
  BY <1>0 DEF FeedInv, Parked, Never
<1>10. Owing'
  BY <1>0, <1>4 DEF FeedInv, Owing, OwedIsRetried
<1> QED BY <1>6, <1>7, <1>8, <1>9, <1>10 DEF FeedInv

\* The nap that FeedRunner::next plans keeps the invariant when it is a slot,
\* or the retry, and does not end before the park.
LEMMA NapFeed ==
    ASSUME FeedInv, pc = "next", pc' = "nap",
           UNCHANGED <<kind, phase, last, gate, retry, left, failed, ok, tick, health, item,
                       up, stop, jumps, owed>>,
           next' \in NextRec(Int), Within(next'.slot, Top), Within(next'.at, Top),
           gate # Never => next'.at >= gate \/ Over,
           next'.fresh \/ (retry # None /\ next'.calls = retry.calls)
    PROVE  FeedInv'
<1>1. next' # None
  BY FeedAssumption
<1>2. Slack' = Slack /\ Slack \in Nat
  BY SlackTyped DEF Slack, FeedInv, Counters
<1>3. Switches' /\ Counters'
  BY DEF FeedInv, Switches, Counters
<1>4. Recs'
  BY <1>1 DEF FeedInv, Recs
<1>5. Times'
  BY <1>1, <1>2 DEF FeedInv, Times, Within, Floor, StepsBack, Graces, Top, Longest
<1>6. Parked'
  BY <1>2 DEF FeedInv, Parked, Over, StepsBack, Never
<1>7. Owing'
  BY DEF FeedInv, Owing, OwedIsRetried
<1> QED BY <1>3, <1>4, <1>5, <1>6, <1>7 DEF FeedInv

\* FeedRunner::next: the pending retry, or the next slot.
LEMMA PlanFeed ==
    ASSUME FeedInv, Plan
    PROVE  FeedInv'
<1>0. /\ pc = "next" /\ pc' = "nap"
      /\ UNCHANGED <<kind, phase, last, gate, retry, left, failed, ok, tick, health, item,
                     up, stop, jumps, owed>>
  BY DEF Plan, runVars, healthVars, envVars
<1>1. /\ phase \in DOMAIN Schedule /\ (last = Never \/ last \in Int)
      /\ gate = Never \/ (gate \in Int /\ gate <= Longest + Slack)
      /\ Slack \in Nat
  BY SlackTyped, Constants DEF FeedInv, Counters, Times, Within
<1>2. From \in Nat /\ From <= Longest + Slack /\ (gate # Never => From >= gate)
  BY <1>1, BoundsTyped, MaxTwo DEF From
<1>3. PICK d : d = NextFire(From)
  OBVIOUS
<1>4. d \in Nat /\ From <= d /\ d <= From + Period
  BY <1>1, <1>2, <1>3, NextFireIs
<1>5. Period \in Nat /\ Jitter \in Nat /\ Longest \in Nat /\ Top \in Nat /\ Floor \in Int
      /\ Floor <= -1 /\ Longest + Period + Jitter = Top
  BY Constants, BoundsTyped
<1>6. CASE /\ retry # None /\ retry.at < d
           /\ next' = [at |-> retry.at, slot |-> retry.slot, fresh |-> FALSE,
                       grace |-> Forever, calls |-> retry.calls, atTick |-> retry.atTick]
  <2>1. retry \in RetryRec(Int, Int) /\ Within(retry.slot, Top) /\ Within(retry.at, Longest)
    BY <1>6 DEF FeedInv, Recs, Times
  <2>2. /\ retry.at \in Int /\ retry.slot \in Int /\ retry.calls \in (SUBSET Calls) \ {{}}
        /\ retry.atTick \in BOOLEAN
    BY <2>1 DEF RetryRec
  <2>3. next' \in NextRec(Int)
    <3>1. Forever \in Nat
      BY BoundsTyped
    <3> QED BY <1>6, <2>2, <3>1 DEF NextRec
  <2>4. next'.at = retry.at /\ next'.slot = retry.slot /\ next'.calls = retry.calls
    BY <1>6
  <2>5. Within(retry.at, Top)
    BY <1>1, <1>5, <2>1 DEF Within
  <2>6. gate # Never => retry.at >= gate \/ Over
    BY <1>6 DEF FeedInv, Parked
  <2> QED BY <1>0, <1>6, <2>1, <2>3, <2>4, <2>5, <2>6, NapFeed
<1>7. ASSUME NEW j \in 0..(IF FireAt(d) = "grid" THEN Jitter ELSE 0),
             next' = [at |-> d + j, slot |-> d, fresh |-> TRUE, grace |-> Grace(FireAt(d)),
                      calls |-> Calls, atTick |-> FireAt(d) = "at"]
      PROVE  FeedInv'
  <2>1. j \in Nat /\ j <= Jitter
    BY <1>5, <1>7
  <2>2. d \in Int /\ d + j \in Int /\ d + j >= From /\ d <= Top + Slack /\ d + j <= Top + Slack
        /\ Floor <= d /\ Floor <= d + j
    BY <1>1, <1>2, <1>4, <1>5, <2>1
  <2>3. next' \in NextRec(Int)
    <3>1. PICK g, b : g = Grace(FireAt(d)) /\ b = (FireAt(d) = "at")
      OBVIOUS
    <3>2. g \in Nat
      BY <3>1, BoundsTyped, Constants DEF Grace
    <3>3. b \in BOOLEAN /\ Calls \in (SUBSET Calls) \ {{}}
      BY <3>1, FeedAssumption
    <3> QED BY <1>7, <2>2, <3>1, <3>2, <3>3 DEF NextRec
  <2>4. next'.at = d + j /\ next'.slot = d /\ next'.fresh = TRUE
    BY <1>7
  <2>5. Within(d, Top) /\ Within(d + j, Top)
    BY <2>2 DEF Within
  <2>6. gate # Never => d + j >= gate
    BY <1>1, <1>2, <2>2
  <2> QED BY <1>0, <2>3, <2>4, <2>5, <2>6, NapFeed
<1>8. \/ /\ retry # None /\ retry.at < d
         /\ next' = [at |-> retry.at, slot |-> retry.slot, fresh |-> FALSE,
                     grace |-> Forever, calls |-> retry.calls, atTick |-> retry.atTick]
      \/ \E j \in 0..(IF FireAt(d) = "grid" THEN Jitter ELSE 0) :
            next' = [at |-> d + j, slot |-> d, fresh |-> TRUE, grace |-> Grace(FireAt(d)),
                     calls |-> Calls, atTick |-> FireAt(d) = "at"]
  BY <1>3, Zenon DEF Plan
<1> QED BY <1>6, <1>7, <1>8

\* The nap is over: the retry is dropped, and so is what is owed when the run
\* is a slot's.
LEMMA WakesIs ==
    ASSUME FeedInv, Wakes
    PROVE  /\ pc = "nap" /\ next # None /\ next \in NextRec(Int)
           /\ UNCHANGED <<kind, phase, gate, up, stop, jumps>>
           /\ retry' = None /\ owed' \subseteq Calls
           /\ last' = Never \/ Within(last', Top)
           /\ next.fresh => owed' = {}
           /\ ~next.fresh => owed' \subseteq next.calls
           /\ Slack' = Slack /\ Slack \in Nat
<1>1. /\ pc = "nap" /\ retry' = None /\ UNCHANGED <<kind, phase, gate, up, stop, jumps>>
      /\ last' = IF next.fresh THEN next.slot ELSE last
      /\ owed' = IF next.fresh THEN {} ELSE owed
  BY DEF Wakes, envVars
<1>2. next # None /\ next \in NextRec(Int)
  BY <1>1 DEF FeedInv, Recs
<1>3. last' = Never \/ Within(last', Top)
  BY <1>1, <1>2 DEF FeedInv, Times
<1>4. ~next.fresh => owed' \subseteq next.calls
  BY <1>1 DEF FeedInv, Owing, OwedIsRetried
<1>5. owed' \subseteq Calls
  BY <1>1 DEF FeedInv, Switches
<1>6. Slack' = Slack /\ Slack \in Nat
  BY <1>1, SlackTyped DEF Slack, FeedInv, Counters
<1> QED BY <1>1, <1>2, <1>3, <1>4, <1>5, <1>6

\* The row after a run or a skipped one.
LEMMA RowTyped ==
    ASSUME FeedInv, \/ DropReported \/ UNCHANGED healthVars
                    \/ \E e \in {"none", "backoff", "down"}, items \in BOOLEAN : Reported(e, items)
    PROVE  /\ health' \in {"connecting", "live", "stalled", "backoff", "down"}
           /\ item' = item \/ item' = 0
  BY DEF DropReported, Refreshed, Reported, healthVars, FeedInv, Switches

\* What a run or a skipped slot does to an item's instant.
LEMMA ItemWithin ==
    ASSUME FeedInv, item' = item \/ item' = 0
    PROVE  Within(item', 0)
<1>1. Within(0, 0)
  BY SlackTyped, BoundsTyped DEF FeedInv, Counters, Within
<1> QED BY <1>1 DEF FeedInv, Times

\* A slot is skipped, or a tick is sent, refused or skipped.
LEMMA SkipFeed ==
    ASSUME FeedInv, SkipLate \/ SkipTick \/ SendTick \/ RefuseTick
    PROVE  FeedInv'
<1>0. Wakes /\ pc' = "next" /\ next' = None /\ UNCHANGED <<left, failed, ok>>
      /\ tick' \in {"none", "waiting", "closed"} /\ (TooLate \/ kind = "tick")
  BY DEF SkipLate, SkipTick, SendTick, RefuseTick, runVars, FeedInv, Switches
<1>1. /\ pc = "nap" /\ next # None /\ UNCHANGED <<kind, phase, gate, up, stop, jumps>>
      /\ retry' = None /\ owed' \subseteq Calls /\ (last' = Never \/ Within(last', Top))
      /\ (next.fresh => owed' = {}) /\ Slack' = Slack /\ Slack \in Nat
  BY <1>0, WakesIs
<1>2. health' \in {"connecting", "live", "stalled", "backoff", "down"} /\ (item' = item \/ item' = 0)
  <2>1. \/ DropReported \/ UNCHANGED healthVars
        \/ \E e \in {"none", "backoff", "down"}, items \in BOOLEAN : Reported(e, items)
    BY DEF SkipLate, SkipTick, SendTick, RefuseTick
  <2> QED BY <2>1, RowTyped
<1>3. Within(item', 0)
  BY <1>2, ItemWithin
<1>4. next.fresh
  BY <1>0, <1>1 DEF TooLate, FeedInv, Owing
<1>5. Switches'
  BY <1>0, <1>1, <1>2 DEF FeedInv, Switches
<1>6. Counters'
  BY <1>1 DEF FeedInv, Counters
<1>7. Recs'
  BY <1>0, <1>1 DEF Recs
<1>8. Times'
  BY <1>0, <1>1, <1>3 DEF FeedInv, Times, Within, Floor, StepsBack, Graces, Top, Longest, Never
<1>9. Parked'
  BY <1>0, <1>1 DEF Parked
<1>10. Owing'
  BY <1>0, <1>1, <1>4 DEF Owing, OwedIsRetried
<1> QED BY <1>5, <1>6, <1>7, <1>8, <1>9, <1>10 DEF FeedInv

\* The calls begin.
LEMMA BeginFeed ==
    ASSUME FeedInv, BeginRun
    PROVE  FeedInv'
<1>0. /\ Wakes /\ kind = "tool" /\ pc' = "run" /\ left' = next.calls /\ failed' = {} /\ ok' = FALSE
      /\ UNCHANGED <<next, tick, health, item>>
  BY DEF BeginRun, healthVars
<1>1. /\ pc = "nap" /\ next # None /\ next \in NextRec(Int)
      /\ UNCHANGED <<kind, phase, gate, up, stop, jumps>>
      /\ retry' = None /\ owed' \subseteq Calls /\ (last' = Never \/ Within(last', Top))
      /\ (next.fresh => owed' = {}) /\ (~next.fresh => owed' \subseteq next.calls)
      /\ Slack' = Slack /\ Slack \in Nat
  BY <1>0, WakesIs
<1>2. next.calls \subseteq Calls
  BY <1>1 DEF NextRec
<1>3. Switches'
  BY <1>0, <1>1, <1>2 DEF FeedInv, Switches
<1>4. Counters'
  BY <1>1 DEF FeedInv, Counters
<1>5. Recs'
  BY <1>0, <1>1 DEF Recs
<1>6. Times'
  BY <1>0, <1>1 DEF FeedInv, Times, Within, Floor, StepsBack, Graces, Top, Longest, Never
<1>7. Parked'
  BY <1>0, <1>1 DEF Parked
<1>8. Owing'
  BY <1>0, <1>1 DEF Owing, OwedIsRetried
<1> QED BY <1>3, <1>4, <1>5, <1>6, <1>7, <1>8 DEF FeedInv

\* A delay is some wait of the longest one.
LEMMA DelayTyped ==
    ASSUME NEW d \in Delays
    PROVE  d.ms \in Int /\ 1 <= d.ms /\ d.ms <= Longest
<1>1. \/ \E e \in 1..Cap : d = [ms |-> e, park |-> FALSE]
      \/ \E e \in 1..MaxPark : d = [ms |-> e, park |-> TRUE]
      \/ \E e \in (Cap + 1)..MaxPark : d = [ms |-> e, park |-> TRUE]
  BY DEF Delays
<1>2. Cap \in Nat /\ MaxPark \in Nat /\ Longest \in Nat /\ Cap <= Longest /\ MaxPark <= Longest
  BY Constants, BoundsTyped
<1>3. \/ \E e \in 1..Cap : d.ms = e
      \/ \E e \in 1..MaxPark : d.ms = e
      \/ \E e \in (Cap + 1)..MaxPark : d.ms = e
  <2>1. \A e : [ms |-> e, park |-> FALSE].ms = e /\ [ms |-> e, park |-> TRUE].ms = e
    OBVIOUS
  <2> QED BY <1>1, <2>1
<1> QED BY <1>2, <1>3

\* settle: some failure is retried.
LEMMA RetryFeed ==
    ASSUME FeedInv, SettleRetries
    PROVE  FeedInv'
<1>0. /\ pc = "run" /\ pc' = "next" /\ next' = None /\ failed' = {} /\ ok' = FALSE
      /\ UNCHANGED <<kind, phase, last, left, tick, up, stop, jumps>>
  BY DEF SettleRetries, Settled, envVars
<1>1. next # None /\ next \in NextRec(Int) /\ Within(next.slot, Top) /\ kind # "tick"
      /\ failed \subseteq [call: Calls, class: Classes] /\ Slack' = Slack /\ Slack \in Nat
  BY <1>0, SlackTyped DEF FeedInv, Recs, Times, Owing, Switches, Counters, Slack
<1>2. PICK d \in Delays :
         /\ gate' = IF d.park THEN d.ms ELSE Never
         /\ retry' = [slot |-> next.slot, calls |-> CallsOf(Retryable), at |-> d.ms,
                      atTick |-> next.atTick]
  BY DEF SettleRetries
<1>3. d.ms \in Int /\ 1 <= d.ms /\ d.ms <= Longest
  BY DelayTyped
<1>4. CallsOf(Retryable) \in (SUBSET Calls) \ {{}} /\ CallsOf(failed) \subseteq Calls
  BY <1>1 DEF SettleRetries, CallsOf, Retryable
<1>5. retry' \in RetryRec(Int, Int)
  <2>1. next.slot \in Int /\ next.atTick \in BOOLEAN
    BY <1>1 DEF NextRec
  <2> QED BY <1>2, <1>3, <1>4, <2>1 DEF RetryRec
<1>6. /\ retry' # None /\ retry'.slot = next.slot /\ retry'.at = d.ms
      /\ retry'.calls = CallsOf(Retryable)
  <2>1. retry' # None
    BY <1>5, FeedAssumption
  <2> QED BY <1>2, <2>1
<1>7. health' \in {"connecting", "live", "stalled", "backoff", "down"} /\ (item' = item \/ item' = 0)
  <2>1. ok \in BOOLEAN
    BY DEF FeedInv, Switches
  <2> QED BY <2>1, RowTyped DEF SettleRetries
<1>8. Within(item', 0)
  BY <1>7, ItemWithin
<1>9. owed' \subseteq Calls /\ owed' \subseteq CallsOf(Retryable)
  <2>1. owed' = IF InWindow THEN CallsOf(failed) ELSE {}
    BY DEF SettleRetries
  <2>2. InWindow => Retryable = failed
    BY DEF Retryable
  <2> QED BY <1>4, <2>1, <2>2
<1>10. Switches'
  BY <1>0, <1>7, <1>9 DEF FeedInv, Switches
<1>11. Counters'
  BY <1>0 DEF FeedInv, Counters
<1>12. Recs'
  BY <1>0, <1>5 DEF Recs
<1>13. Times'
  <2>1. Within(d.ms, Longest)
    BY <1>1, <1>3, BoundsTyped DEF Within
  <2>2. gate' = Never \/ gate' = d.ms
    BY <1>2
  <2> QED BY <1>0, <1>1, <1>6, <1>8, <2>1, <2>2
      DEF FeedInv, Times, Within, Floor, StepsBack, Graces, Top, Longest, Never
<1>14. Parked'
  <2>1. gate' # Never => retry'.at >= gate'
    BY <1>2, <1>3, <1>6
  <2> QED BY <1>0, <2>1 DEF Parked, Never
<1>15. Owing'
  BY <1>0, <1>1, <1>6, <1>9 DEF Owing, OwedIsRetried
<1> QED BY <1>10, <1>11, <1>12, <1>13, <1>14, <1>15 DEF FeedInv

\* settle: nothing to retry.
LEMMA DoneFeed ==
    ASSUME FeedInv, SettleDone
    PROVE  FeedInv'
<1>0. /\ pc = "run" /\ pc' = "next" /\ next' = None /\ failed' = {} /\ ok' = FALSE
      /\ gate' = Never /\ owed' = {}
      /\ UNCHANGED <<kind, phase, last, left, tick, up, stop, jumps, retry>>
  BY DEF SettleDone, Settled, envVars
<1>1. Slack' = Slack /\ retry = None
  BY <1>0 DEF Slack, FeedInv, Owing
<1>2. health' \in {"connecting", "live", "stalled", "backoff", "down"} /\ (item' = item \/ item' = 0)
  <2>1. ok \in BOOLEAN
    BY DEF FeedInv, Switches
  <2>2. \E e \in {"none", "backoff", "down"} : Reported(e, ok)
    BY DEF SettleDone
  <2> QED BY <2>1, <2>2, RowTyped
<1>3. Within(item', 0)
  BY <1>2, ItemWithin
<1>4. Switches'
  BY <1>0, <1>2 DEF FeedInv, Switches
<1>5. Counters' /\ Recs'
  BY <1>0, <1>1 DEF FeedInv, Counters, Recs
<1>6. Times'
  BY <1>0, <1>1, <1>3 DEF FeedInv, Times, Within, Floor, StepsBack, Graces, Top, Longest, Never
<1>7. Parked' /\ Owing'
  BY <1>0, <1>1 DEF Parked, Owing, OwedIsRetried, Never
<1> QED BY <1>4, <1>5, <1>6, <1>7 DEF FeedInv

\* A beat, the end of a tick's event or of a call, the stop, the service.
LEMMA QuietFeed ==
    ASSUME FeedInv,
           UNCHANGED <<kind, phase, pc, last, gate, retry, next, item, jumps>>,
           Switches', owed' \subseteq owed
    PROVE  FeedInv'
<1>1. Slack' = Slack
  BY DEF Slack
<1>2. Counters' /\ Recs'
  BY DEF FeedInv, Counters, Recs
<1>3. Times'
  BY <1>1 DEF FeedInv, Times, Within, Floor, StepsBack, Graces, Top, Longest, Never
<1>4. Parked'
  BY <1>1 DEF FeedInv, Parked, Over, StepsBack, Never
<1>5. Owing'
  BY DEF FeedInv, Owing, OwedIsRetried
<1> QED BY <1>2, <1>3, <1>4, <1>5 DEF FeedInv

\* run_feed returns.
LEMMA ReturnFeed ==
    ASSUME FeedInv, Return
    PROVE  FeedInv'
<1>0. /\ pc # "run" /\ pc' = "stopped" /\ next' = None /\ retry' = None /\ owed' = {}
      /\ UNCHANGED <<kind, phase, last, gate, left, failed, ok, tick, health, item, up, stop, jumps>>
  BY DEF Return, runVars, healthVars, envVars
<1>1. Slack' = Slack
  BY <1>0 DEF Slack
<1>2. Switches'
  BY <1>0 DEF FeedInv, Switches
<1>3. Counters' /\ Recs'
  BY <1>0 DEF FeedInv, Counters, Recs
<1>4. Times'
  BY <1>0, <1>1 DEF FeedInv, Times, Within, Floor, StepsBack, Graces, Top, Longest, Never
<1>5. Parked' /\ Owing'
  BY <1>0 DEF Parked, Owing, OwedIsRetried
<1> QED BY <1>2, <1>3, <1>4, <1>5 DEF FeedInv

\* Every step keeps the invariant.
LEMMA NextFeed == FeedInv /\ [Next]_vars => FeedInv'
<1> SUFFICES ASSUME FeedInv, [Next]_vars PROVE FeedInv'
  OBVIOUS
<1>1. CASE Start
  BY <1>1, StartFeed
<1>2. CASE Plan
  BY <1>2, PlanFeed
<1>3. CASE SkipLate \/ SkipTick \/ SendTick \/ RefuseTick
  BY <1>3, SkipFeed
<1>4. CASE BeginRun
  BY <1>4, BeginFeed
<1>5. CASE SettleRetries
  BY <1>5, RetryFeed
<1>6. CASE SettleDone
  BY <1>6, DoneFeed
<1>7. CASE Return
  BY <1>7, ReturnFeed
<1>8. CASE Tick \/ Jump
  BY <1>8, MoveFeed
<1>9. CASE Beat
  <2>1. UNCHANGED <<kind, phase, pc, last, gate, retry, next, item, jumps, owed>> /\ Switches'
    BY <1>9 DEF Beat, Refreshed, FeedInv, Switches, runVars, envVars
  <2> QED BY <2>1, QuietFeed
<1>10. CASE TickDone
  <2>1. UNCHANGED <<kind, phase, pc, last, gate, retry, next, item, jumps, owed>> /\ Switches'
    BY <1>10 DEF TickDone, FeedInv, Switches, runVars, envVars, healthVars
  <2> QED BY <2>1, QuietFeed
<1>11. ASSUME NEW c \in Calls, CallEnds(c) PROVE FeedInv'
  <2>1. CASE CallOk(c)
    <3>1. UNCHANGED <<kind, phase, pc, last, gate, retry, next, item, jumps>> /\ Switches' /\ owed' \subseteq owed
      BY <2>1 DEF CallOk, FeedInv, Switches, runVars, envVars, healthVars
    <3> QED BY <3>1, QuietFeed
  <2>2. CASE CallSkipped(c)
    <3>1. UNCHANGED <<kind, phase, pc, last, gate, retry, next, item, jumps>> /\ Switches' /\ owed' \subseteq owed
      BY <2>2 DEF CallSkipped, FeedInv, Switches, runVars, envVars, healthVars
    <3> QED BY <3>1, QuietFeed
  <2>3. ASSUME NEW k \in Classes, CallFails(c, k) PROVE FeedInv'
    <3>1. UNCHANGED <<kind, phase, pc, last, gate, retry, next, item, jumps, owed, ok, tick, health, up, stop>>
      BY <2>3 DEF CallFails, envVars, healthVars
    <3>2. failed' \subseteq [call: Calls, class: Classes] /\ left' \subseteq Calls
      BY <2>3 DEF CallFails, FeedInv, Switches
    <3>3. Switches'
      BY <3>1, <3>2 DEF FeedInv, Switches
    <3> QED BY <3>1, <3>3, QuietFeed
  <2> QED BY <1>11, <2>1, <2>2, <2>3 DEF CallEnds
<1>12. CASE Stop \/ Service
  <2>1. UNCHANGED <<kind, phase, pc, last, gate, retry, next, item, jumps, owed>> /\ Switches'
    BY <1>12 DEF Stop, Service, FeedInv, Switches, runVars, envVars, healthVars
  <2> QED BY <2>1, QuietFeed
<1>13. CASE UNCHANGED vars
  <2>1. UNCHANGED <<kind, phase, pc, last, gate, retry, next, item, jumps, owed>> /\ Switches'
    BY <1>13 DEF vars, FeedInv, Switches, runVars, envVars, healthVars
  <2> QED BY <2>1, QuietFeed
<1> QED BY <1>1, <1>2, <1>3, <1>4, <1>5, <1>6, <1>7, <1>8, <1>9, <1>10, <1>11, <1>12, <1>13
        DEF Next, FeedStep

LEMMA FeedHolds == Spec => []FeedInv
  BY InitFeed, NextFeed, PTL DEF Spec

-----------------------------------------------------------------------------
(* The theorems.                                                           *)

\* Every instant, plan and row has its type, and no wait is longer than the
\* longest delay and the steps back of the clock.
THEOREM FeedTyped == Spec => []TypeOK
<1>1. FeedInv => TypeOK
  <2> SUFFICES ASSUME FeedInv PROVE TypeOK
    OBVIOUS
  <2>1. Slack \in Nat /\ Slack <= StepsBack /\ StepsBack \in Nat /\ Longest \in Nat /\ Top \in Nat
        /\ Floor \in Int /\ Longest + Period + Jitter = Top /\ Period \in Nat /\ Jitter \in Nat
        /\ Longest <= Top
    BY SlackTyped, BoundsTyped, Constants DEF FeedInv, Counters
  <2>2. Instants = Floor..(Top + StepsBack)
    <3>1. Longest + Period + StepsBack + Jitter = Top + StepsBack
      BY <2>1
    <3> QED BY <3>1 DEF Instants, Floor
  <2>3. \A x : Within(x, Top) => x \in Instants
    BY <2>1, <2>2 DEF Within
  <2>4. \A x : Within(x, Longest) => x \in Waits
    BY <2>1, <2>2 DEF Within, Waits
  <2>5. item \in Instants
    BY <2>1, <2>2 DEF FeedInv, Times, Within
  <2>6. last \in Instants \cup {Never} /\ gate \in Waits \cup {Never}
    BY <2>3, <2>4 DEF FeedInv, Times
  <2>7. retry = None \/ retry \in RetryRec(Instants, Waits)
    <3>1. ASSUME retry # None PROVE retry \in RetryRec(Instants, Waits)
      <4>1. retry \in RetryRec(Int, Int) /\ retry.slot \in Instants /\ retry.at \in Waits
        BY <2>3, <2>4, <3>1 DEF FeedInv, Recs, Times
      <4> QED BY <4>1 DEF RetryRec
    <3> QED BY <3>1
  <2>8. next = None \/ next \in NextRec(Instants)
    <3>1. ASSUME next # None PROVE next \in NextRec(Instants)
      <4>1. next \in NextRec(Int) /\ next.slot \in Instants /\ next.at \in Instants
        BY <2>3, <3>1 DEF FeedInv, Recs, Times
      <4> QED BY <4>1 DEF NextRec
    <3> QED BY <3>1
  <2>9. phase \in DOMAIN Schedule /\ jumps \in 0..MaxJumps
    BY Constants DEF FeedInv, Counters
  <2>10. (next = None) <=> pc \notin {"nap", "run"}
    BY DEF FeedInv, Recs
  <2>11. Switches
    BY DEF FeedInv
  <2> QED BY <2>5, <2>6, <2>7, <2>8, <2>9, <2>10, <2>11 DEF TypeOK, Switches
<1> QED BY <1>1, FeedHolds, PTL

\* A call of an at-tick slot that failed inside the slot's window is in the
\* pending retry or in the run going on, until a newer slot takes its place.
THEOREM OwedCallsRetried == Spec => []OwedIsRetried
<1>1. FeedInv => OwedIsRetried
  BY DEF FeedInv, Owing
<1> QED BY <1>1, FeedHolds, PTL

\* No call begins while the feed is parked, whatever jumps the clock took.
THEOREM ParksHold == Spec => ParkHolds
<1>1. FeedInv /\ [Next]_vars => [pc # "run" /\ pc' = "run" => gate = Never \/ gate <= 0]_vars
  <2> SUFFICES ASSUME FeedInv, Next, pc # "run", pc' = "run", gate # Never
               PROVE  gate <= 0
    BY DEF vars
  <2>1. BeginRun
    BY DEF Next, FeedStep, Start, Plan, SkipLate, SkipTick, SendTick, RefuseTick, SettleRetries,
           SettleDone, Settled, Return, Beat, TickDone, CallEnds, CallOk, CallFails, CallSkipped,
           Stop, Service, Tick, Jump
  <2>2. pc = "nap" /\ next.at <= 0
    BY <2>1 DEF BeginRun, Wakes
  <2>3. next # None /\ next.at \in Int /\ gate \in Int /\ (next.at >= gate \/ Over)
    BY <2>2 DEF FeedInv, Recs, Times, Within, Parked
  <2>4. Slack \in Nat /\ Slack <= StepsBack /\ StepsBack \in Nat
    BY SlackTyped, BoundsTyped DEF FeedInv, Counters
  <2> QED BY <2>2, <2>3, <2>4 DEF Over
<1> QED BY <1>1, FeedHolds, PTL DEF Spec, ParkHolds
=============================================================================
