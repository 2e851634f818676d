----------------------------- MODULE RuleEvalProofs -----------------------------
(***************************************************************************)
(* Proofs about module RuleEval: type correctness, that a condition never  *)
(* triggers on fewer failures in a row than fail_count asks for, and that  *)
(* it does trigger on as many where its window has room for them.          *)
(***************************************************************************)
EXTENDS RuleEval, FiniteSetTheorems, TLAPS

\* Shapes the normalised condition has, whatever the request: without a
\* window the condition needs a single failure.
Normalised ==
    /\ cond.interval \in MinInterval .. LongestInterval
    /\ cond.failCount \in 1 .. MaxFailCount
    /\ cond.failWindow \in 0 .. Horizon
    /\ cond.failWindow = 0 => cond.failCount = 1

\* The failures in a row in check_results are no more than there were.
StreakCounted ==
    /\ IsFiniteSet(results)
    /\ failing < MaxFailCount => Cardinality(Streak(results)) <= failing
    /\ last => failing >= 1

IInv == EvalTypeOK /\ Normalised /\ StreakCounted /\ NoBlipAlert

LEMMA Extremes ==
    ASSUME NEW a \in Nat, NEW b \in Nat
    PROVE  /\ Larger(a, b) \in Nat /\ Larger(a, b) >= a /\ Larger(a, b) >= b
           /\ Smaller(a, b) \in Nat /\ Smaller(a, b) <= a /\ Smaller(a, b) <= b
           /\ Larger(a, b) \in {a, b} /\ Smaller(a, b) \in {a, b}
BY DEF Larger, Smaller

\* What the API stores is within the limits.
LEMMA AcceptedNormalised ==
    ASSUME NEW request \in Request
    PROVE  LET c == Accepted(request) IN
           /\ c \in [interval : MinInterval .. LongestInterval, failCount : 1 .. MaxFailCount,
                     failWindow : 0 .. Horizon]
           /\ c.failWindow = 0 => c.failCount = 1
<1> DEFINE i == Smaller(Larger(request.interval, MinInterval), LongestInterval)
           n == Smaller(Larger(request.failCount, 1), MaxFailCount)
           w == normalizeFailWindow(n, request.failWindow, i)
<1>1. request.interval \in Nat /\ request.failCount \in Nat /\ request.failWindow \in 0 .. MaxWindow + 1
  BY EvalAssumption DEF Request
<1>2. i \in MinInterval .. LongestInterval /\ n \in 1 .. MaxFailCount
  BY <1>1, EvalAssumption DEF Larger, Smaller
<1>3. w \in 0 .. Horizon /\ (w = 0 => n = 1)
  <2>1. CASE n <= 1
    BY <1>1, <1>2, <2>1, EvalAssumption DEF normalizeFailWindow, Horizon
  <2>2. CASE n > 1
    <3>1. n * i \in Nat /\ n * i > 0
      BY <1>2, EvalAssumption
    <3>2. w = Smaller(Larger(request.failWindow, n * i), MaxWindow)
      BY <1>2, <2>2, EvalAssumption DEF normalizeFailWindow
    <3>. HIDE DEF i, n, w
    <3>. QED  BY <1>1, <3>1, <3>2, EvalAssumption DEF Larger, Smaller, Horizon
  <2>. QED  BY <1>2, <2>1, <2>2, EvalAssumption
<1>4. Accepted(request) = [interval |-> i, failCount |-> n, failWindow |-> w]
  BY DEF Accepted
<1>. HIDE DEF i, n, w
<1>. QED  BY <1>2, <1>3, <1>4

LEMMA EvaluationIsBoolean ==
    ASSUME NEW rs, NEW newest \in BOOLEAN
    PROVE  evaluateCondition(rs, newest) \in BOOLEAN
<1>1. CASE cond.failWindow > 0
  <2>1. evaluateCondition(rs, newest) = (Cardinality(Streak(Recent(rs))) >= cond.failCount)
    BY <1>1 DEF evaluateCondition
  <2>2. (Cardinality(Streak(Recent(rs))) >= cond.failCount) \in BOOLEAN
    OBVIOUS
  <2>. QED  BY <2>1, <2>2
<1>2. CASE ~(cond.failWindow > 0)
  BY <1>2 DEF evaluateCondition
<1>. QED  BY <1>1, <1>2

LEMMA RoomForInterval ==
    ASSUME Normalised
    PROVE  /\ Larger(cond.interval, MaxDuration) \in Nat
           /\ cond.interval \in 0 .. Larger(cond.interval, MaxDuration)
           /\ MaxDuration \in 0 .. Larger(cond.interval, MaxDuration)
BY EvalAssumption DEF Normalised, Larger

\* Growing older makes no more results of a set.
LEMMA AgedSet ==
    ASSUME NEW S, IsFiniteSet(S)
    PROVE  LET aged == {[r EXCEPT !.age = @ + 1] : r \in S}
           IN  IsFiniteSet(aged) /\ Cardinality(aged) <= Cardinality(S)
<1> DEFINE aged == {[r EXCEPT !.age = @ + 1] : r \in S}
           f == [r \in S |-> [r EXCEPT !.age = @ + 1]]
<1>1. f \in Surjection(S, aged)
  BY DEF Surjection
<1>. QED  BY <1>1, FS_Surjection

\* A window only takes results away from the streak.
LEMMA RecentStreak ==
    ASSUME EvalTypeOK, Normalised, IsFiniteSet(results)
    PROVE  /\ IsFiniteSet(Streak(results))
           /\ Cardinality(Streak(Recent(results))) <= Cardinality(Streak(results))
<1>1. Streak(Recent(results)) \subseteq Streak(results)
  BY EvalAssumption DEF Streak, Recent, EvalTypeOK, Normalised, Horizon
<1>2. IsFiniteSet(Streak(results))
  BY FS_Subset DEF Streak
<1>. QED  BY <1>1, <1>2, FS_Subset

\* What evaluateCondition finds is a streak the history knows of.
LEMMA TriggeredCounted ==
    ASSUME EvalTypeOK, Normalised, StreakCounted, evaluateCondition(results, last)
    PROVE  failing >= cond.failCount
<1>1. CASE cond.failWindow > 0
  <2>1. Cardinality(Streak(Recent(results))) >= cond.failCount
    BY <1>1 DEF evaluateCondition
  <2>2. Cardinality(Streak(results)) \in Nat /\ Cardinality(Streak(Recent(results))) \in Nat
    <3>1. IsFiniteSet(Streak(results)) /\ IsFiniteSet(Streak(Recent(results)))
      BY FS_Subset DEF Streak, Recent, StreakCounted
    <3>. QED  BY <3>1, FS_CardinalityType
  <2>3. Cardinality(Streak(results)) >= cond.failCount
    BY <2>1, <2>2, RecentStreak DEF StreakCounted, Normalised
  <2>. QED  BY <2>2, <2>3, EvalAssumption DEF StreakCounted, Normalised, EvalTypeOK
<1>2. CASE ~(cond.failWindow > 0)
  BY <1>2, EvalAssumption DEF evaluateCondition, Normalised, StreakCounted, EvalTypeOK, Horizon
<1>. QED  BY <1>1, <1>2

LEMMA InvInit == EvalInit => IInv
<1> SUFFICES ASSUME EvalInit PROVE IInv
  OBVIOUS
<1>1. PICK request \in Request : cond = Accepted(request)
  BY DEF EvalInit
<1>2. Normalised /\ cond \in [interval : MinInterval .. LongestInterval, failCount : 1 .. MaxFailCount,
                             failWindow : 0 .. Horizon]
  BY <1>1, AcceptedNormalised DEF Normalised
<1>3. EvalTypeOK
  <2>1. 0 \in 0 .. Larger(cond.interval, MaxDuration)
    BY <1>2, RoomForInterval
  <2>2. 0 \in 0 .. MaxFailCount /\ 0 \in 0 .. MaxDuration
    BY EvalAssumption
  <2>. HIDE DEF Normalised
  <2>. QED  BY <1>2, <2>1, <2>2 DEF EvalInit, EvalTypeOK
<1>4. Streak(results) = {}
  BY DEF EvalInit, Streak
<1>. QED  BY <1>2, <1>3, <1>4, FS_EmptySet, EvalAssumption DEF EvalInit, IInv, StreakCounted, NoBlipAlert

LEMMA InvInductive == IInv /\ [EvalNext]_evalVars => IInv'
<1> SUFFICES ASSUME IInv, [EvalNext]_evalVars PROVE IInv'
  OBVIOUS
<1> USE DEF IInv
<1>1. CASE Tick
  <2> DEFINE kept == {q \in results : q.age < Horizon}
             older(r) == [r EXCEPT !.age = @ + 1]
  <2>1. results' = {older(r) : r \in kept}
    BY <1>1 DEF Tick
  <2>2. \A r \in kept : older(r).age = r.age + 1 /\ older(r).match = r.match
                        /\ older(r) \in [age : 0 .. Horizon, match : BOOLEAN]
    BY EvalAssumption DEF EvalTypeOK, Horizon
  <2>3. EvalTypeOK' /\ Normalised'
    BY <1>1, <2>1, <2>2, EvalAssumption DEF Tick, EvalTypeOK, Normalised, Larger, Horizon
  <2>4. IsFiniteSet(kept) /\ IsFiniteSet(Streak(results))
    BY FS_Subset DEF StreakCounted, Streak
  <2>5. IsFiniteSet(results')
    BY <2>1, <2>4, AgedSet
  <2>6. Streak(results') \subseteq {older(r) : r \in Streak(results)}
    <3> SUFFICES ASSUME NEW x \in Streak(results') PROVE x \in {older(r) : r \in Streak(results)}
      OBVIOUS
    <3>1. PICK r \in kept : x = older(r)
      BY <2>1 DEF Streak
    <3>2. ASSUME NEW q \in results, q.age <= r.age PROVE q.match
      <4>1. q \in kept /\ older(q) \in results' /\ older(q).age <= x.age
        BY <2>1, <2>2, <3>1, <3>2, EvalAssumption DEF EvalTypeOK, Horizon
      <4>. QED  BY <2>2, <4>1 DEF Streak
    <3>3. r \in Streak(results)
      BY <3>2 DEF Streak
    <3>. QED  BY <3>1, <3>3
  <2>7. Cardinality(Streak(results')) <= Cardinality(Streak(results))
    <3>1. IsFiniteSet({older(r) : r \in Streak(results)})
          /\ Cardinality({older(r) : r \in Streak(results)}) <= Cardinality(Streak(results))
      BY <2>4, AgedSet
    <3>2. IsFiniteSet(Streak(results'))
      BY <2>6, <3>1, FS_Subset
    <3>3. Cardinality(Streak(results')) <= Cardinality({older(r) : r \in Streak(results)})
      BY <2>6, <3>1, FS_Subset
    <3>. QED  BY <2>4, <3>1, <3>2, <3>3, FS_CardinalityType
  <2>8. StreakCounted'
    <3>1. Cardinality(Streak(results)) \in Nat /\ Cardinality(Streak(results')) \in Nat
      BY <2>4, <2>5, FS_CardinalityType, FS_Subset DEF Streak
    <3>. QED  BY <1>1, <2>5, <2>7, <3>1 DEF Tick, StreakCounted, EvalTypeOK, Streak
  <2>. QED  BY <1>1, <2>3, <2>8 DEF Tick, NoBlipAlert
<1>2. CASE StartRun
  <2>1. EvalTypeOK'
    BY <1>2, EvalAssumption DEF StartRun, EvalTypeOK, Larger
  <2>. QED  BY <1>2, <2>1 DEF StartRun, Normalised, StreakCounted, NoBlipAlert, Streak
<1>3. ASSUME NEW match \in BOOLEAN, EndRun(match) PROVE IInv'
  <2> DEFINE new == [age |-> 0, match |-> match]
  <2>1. EvalTypeOK' /\ Normalised'
    <3>1. failing' \in 0 .. MaxFailCount
      BY <1>3, EvalAssumption DEF EndRun, EvalTypeOK, Smaller
    <3>2. results' \in SUBSET [age : 0 .. Horizon, match : BOOLEAN]
      BY <1>3, EvalAssumption DEF EndRun, EvalTypeOK, Horizon
    <3>3. triggered' \in BOOLEAN
      BY <1>3, EvaluationIsBoolean DEF EndRun
    <3>4. left' \in 0 .. Larger(cond.interval, MaxDuration)
      BY <1>3, RoomForInterval DEF EndRun
    <3>. QED  BY <1>3, <3>1, <3>2, <3>3, <3>4 DEF EndRun, EvalTypeOK, Normalised
  <2>2. IsFiniteSet(results') /\ IsFiniteSet(Streak(results)) /\ IsFiniteSet(Streak(results'))
    <3>1. IsFiniteSet(results')
      BY <1>3, FS_AddElement DEF EndRun, StreakCounted
    <3>. QED  BY <3>1, FS_Subset DEF Streak, StreakCounted
  <2>3. StreakCounted'
    <3>1. CASE match
      <4>1. Streak(results') \subseteq Streak(results) \cup {new}
        BY <1>3 DEF EndRun, Streak
      <4>2. Cardinality(Streak(results')) <= Cardinality(Streak(results)) + 1
        <5>1. /\ IsFiniteSet(Streak(results) \cup {new})
              /\ Cardinality(Streak(results) \cup {new}) <= Cardinality(Streak(results)) + 1
          <6>1. Cardinality(Streak(results)) \in Nat
            BY <2>2, FS_CardinalityType
          <6>2. /\ IsFiniteSet(Streak(results) \cup {new})
                /\ Cardinality(Streak(results) \cup {new}) =
                     IF new \in Streak(results) THEN Cardinality(Streak(results))
                     ELSE Cardinality(Streak(results)) + 1
            <7>. HIDE DEF new
            <7>. QED  BY <2>2, FS_AddElement
          <6>. QED  BY <6>1, <6>2
        <5>. QED  BY <2>2, <4>1, <5>1, FS_Subset, FS_CardinalityType
      <4>3. Cardinality(Streak(results)) \in Nat /\ Cardinality(Streak(results')) \in Nat
        BY <2>2, FS_CardinalityType
      <4>4. failing' = Smaller(failing + 1, MaxFailCount) /\ last' = match
        BY <1>3, <3>1 DEF EndRun
      <4>. QED  BY <2>2, <4>2, <4>3, <4>4, EvalAssumption DEF StreakCounted, EvalTypeOK, Smaller
    <3>2. CASE ~match
      <4>1. Streak(results') = {}
        <5> SUFFICES ASSUME NEW r \in Streak(results') PROVE FALSE
          OBVIOUS
        <5>1. new \in results' /\ new.age <= r.age
          BY <1>3, <2>1 DEF EndRun, EvalTypeOK, Streak
        <5>. QED  BY <3>2, <5>1 DEF Streak
      <4>. QED  BY <1>3, <2>2, <3>2, <4>1, FS_EmptySet DEF EndRun, StreakCounted
    <3>. QED  BY <3>1, <3>2
  <2>4. triggered' => evaluateCondition(results, last)'
    BY <1>3 DEF EndRun, evaluateCondition, Recent, Streak
  <2>5. NoBlipAlert'
    BY <2>1, <2>3, <2>4, TriggeredCounted, PTL DEF NoBlipAlert
  <2>. QED  BY <2>1, <2>3, <2>5
<1>4. CASE Reevaluate
  <2>1. EvalTypeOK' /\ Normalised' /\ StreakCounted'
    BY <1>4, EvaluationIsBoolean DEF Reevaluate, EvalTypeOK, Normalised, StreakCounted, Streak
  <2>2. triggered' => failing >= cond.failCount
    BY <1>4, TriggeredCounted DEF Reevaluate
  <2>. QED  BY <1>4, <2>1, <2>2 DEF Reevaluate, NoBlipAlert
<1>5. CASE UNCHANGED evalVars
  BY <1>5 DEF evalVars, EvalTypeOK, Normalised, StreakCounted, NoBlipAlert, Streak
<1>. QED  BY <1>1, <1>2, <1>3, <1>4, <1>5 DEF EvalNext

\* The types, for every value of the limits.
THEOREM TypeCorrect == EvalSpec => []EvalTypeOK
<1>1. IInv => EvalTypeOK
  BY DEF IInv
<1>. QED  BY <1>1, InvInit, InvInductive, PTL DEF EvalSpec

\* A condition never triggers on fewer failures in a row than fail_count.
THEOREM BlipsIgnored == EvalSpec => []NoBlipAlert
<1>1. IInv => NoBlipAlert
  BY DEF IInv
<1>. QED  BY <1>1, InvInit, InvInductive, PTL DEF EvalSpec
-----------------------------------------------------------------------------
(* The window has room.  Streak may also lose results to the window: what  *)
(* is needed is how old each of them can be.                               *)

\* The time a turn of the check takes at most, and since the newest result at most.
Turn == cond.interval + slowest
SinceResult == IF phase = "waiting" THEN cond.interval - left ELSE Turn - left

\* The age the k-th newest result has at most.
Reach(k) == SinceResult + (k - 1) * Turn
Newest(age) == {r \in Streak(results) : r.age <= age}

\* Results are an interval apart at least and a turn at most, and what the floor and the cap
\* of the API make of the window.
Spaced ==
    /\ \A r \in results : r.age >= cond.interval - (IF phase = "waiting" THEN left ELSE 0)
    /\ \A k \in 1 .. failing : Reach(k) <= Horizon => Cardinality(Newest(Reach(k))) >= k
    /\ failing >= 1 => last
    /\ cond.failCount > 1 => cond.failWindow >= Smaller(cond.failCount * cond.interval, MaxWindow)

RoomInv == IInv /\ Spaced /\ RoomyFailureTriggers

LEMMA LongerTurns ==
    ASSUME NEW m \in Nat, NEW n \in Nat, NEW t \in Nat, m <= n
    PROVE  t * m \in Int /\ t * n \in Int /\ t * m <= t * n
<1>1. n = m + (n - m) /\ n - m \in Nat
  OBVIOUS
<1>2. t * (n - m) \in Nat
  BY <1>1
<1>3. t * n = t * m + t * (n - m)
  BY <1>1
<1>. QED  BY <1>2, <1>3

LEMMA SumsGrow ==
    ASSUME NEW a \in Int, NEW b \in Int, NEW m \in Int, NEW n \in Int, a <= b, m <= n
    PROVE  a + m \in Int /\ b + n \in Int /\ a + m <= b + n
OBVIOUS

LEMMA ReachTyped ==
    ASSUME EvalTypeOK, NEW k \in Int
    PROVE  Turn \in Nat /\ SinceResult \in Int /\ (k - 1) * Turn \in Int /\ Reach(k) \in Int
<1>1. cond.interval \in Nat /\ left \in Int /\ slowest \in Nat
  BY EvalAssumption DEF EvalTypeOK, Larger
<1>2. Turn \in Nat /\ SinceResult \in Int
  BY <1>1 DEF Turn, SinceResult
<1>3. (k - 1) * Turn \in Int
  BY <1>2
<1>. QED  BY <1>2, <1>3 DEF Reach

\* With room in the window, evaluateCondition finds every failure it needs.
LEMMA RoomSuffices ==
    ASSUME IInv, Spaced, HasRoom \/ cond.failWindow = 0, failing >= cond.failCount
    PROVE  evaluateCondition(results, last)
<1> USE DEF IInv
<1> DEFINE n == cond.failCount
           i == cond.interval
           w == cond.failWindow
<1>1. n \in Nat /\ n >= 1 /\ i \in Nat /\ w \in Nat /\ w <= Horizon /\ slowest \in Nat /\ left \in Nat
      /\ failing \in Nat /\ n * i \in Nat
  BY EvalAssumption DEF EvalTypeOK, Normalised, Horizon, Larger
<1>2. CASE w = 0
  BY <1>1, <1>2 DEF evaluateCondition, Spaced, Normalised
<1>3. CASE w > 0
  <2>1. Turn \in Nat /\ n * Turn \in Nat
    BY <1>1 DEF Turn
  <2>2. n * Turn <= w
    <3>1. CASE n * (i + slowest) <= w
      BY <3>1 DEF Turn
    <3>2. CASE n > 1 /\ slowest = 0 /\ n * i <= MaxWindow
      <4>1. Turn = i
        BY <1>1, <3>2 DEF Turn
      <4>2. w >= Smaller(n * i, MaxWindow)
        BY <3>2 DEF Spaced
      <4>3. Smaller(n * i, MaxWindow) = n * i
        BY <3>2 DEF Smaller
      <4>. QED  BY <4>1, <4>2, <4>3
    <3>. QED  BY <1>3, <3>1, <3>2 DEF HasRoom
  <2>3. Reach(n) \in Int /\ Reach(n) <= w
    <3>1. SinceResult \in Int /\ SinceResult <= Turn
      BY <1>1 DEF SinceResult, Turn
    <3>2. (n - 1) * Turn = n * Turn - Turn
      BY <1>1, <2>1
    <3>3. Reach(n) = SinceResult + (n * Turn - Turn)
      BY <3>2 DEF Reach
    <3>. HIDE DEF n, w
    <3>. QED  BY <1>1, <2>1, <2>2, <3>1, <3>3
  <2>4. Cardinality(Newest(Reach(n))) >= n
    <3>1. n \in 1 .. failing /\ Reach(n) <= Horizon
      BY <1>1, <2>3, EvalAssumption DEF Horizon
    <3>. QED  BY <3>1 DEF Spaced
  <2>5. Newest(Reach(n)) \subseteq Streak(Recent(results))
    <3>1. \A r \in results : r.age \in Nat
      BY DEF EvalTypeOK
    <3>. QED  BY <1>1, <2>3, <3>1 DEF Newest, Streak, Recent
  <2>6. IsFiniteSet(Streak(Recent(results)))
    BY FS_Subset DEF Streak, Recent, StreakCounted
  <2>7. /\ Cardinality(Newest(Reach(n))) \in Nat
        /\ Cardinality(Streak(Recent(results))) \in Nat
        /\ Cardinality(Newest(Reach(n))) <= Cardinality(Streak(Recent(results)))
    BY <2>5, <2>6, FS_Subset, FS_CardinalityType
  <2>8. Cardinality(Streak(Recent(results))) >= n
    BY <1>1, <2>4, <2>7
  <2>. QED  BY <1>3, <2>8 DEF evaluateCondition
<1>. QED  BY <1>1, <1>2, <1>3

\* What the API stores has the floor, up to the cap.
LEMMA AcceptedFloor ==
    ASSUME NEW request \in Request
    PROVE  LET c == Accepted(request) IN
           c.failCount > 1 => c.failWindow >= Smaller(c.failCount * c.interval, MaxWindow)
<1> DEFINE i == Smaller(Larger(request.interval, MinInterval), LongestInterval)
           n == Smaller(Larger(request.failCount, 1), MaxFailCount)
           w == normalizeFailWindow(n, request.failWindow, i)
<1>1. request.interval \in Nat /\ request.failCount \in Nat /\ request.failWindow \in Nat
  BY EvalAssumption DEF Request
<1>2. i \in Nat /\ n \in Nat
  BY <1>1, EvalAssumption DEF Larger, Smaller
<1>3. n * i \in Nat
  BY <1>2
<1>4. n > 1 => w = Smaller(Larger(request.failWindow, n * i), MaxWindow)
  BY <1>2 DEF normalizeFailWindow
<1>5. Accepted(request) = [interval |-> i, failCount |-> n, failWindow |-> w]
  BY DEF Accepted
<1>. HIDE DEF i, n, w
<1>6. n > 1 => w >= Smaller(n * i, MaxWindow)
  BY <1>1, <1>3, <1>4, EvalAssumption DEF Larger, Smaller
<1>. QED  BY <1>5, <1>6

LEMMA RoomInit == EvalInit => RoomInv
<1> SUFFICES ASSUME EvalInit PROVE RoomInv
  OBVIOUS
<1>1. PICK request \in Request : cond = Accepted(request)
  BY DEF EvalInit
<1>2. IInv
  BY InvInit
<1>3. cond.failCount >= 1
  BY <1>2, EvalAssumption DEF IInv, Normalised
<1>4. cond.failCount > 1 => cond.failWindow >= Smaller(cond.failCount * cond.interval, MaxWindow)
  BY <1>1, AcceptedFloor
<1>5. failing = 0 /\ results = {} /\ 1 .. failing = {}
  BY DEF EvalInit
<1>6. Spaced
  BY <1>4, <1>5 DEF Spaced
<1>7. ~(failing >= cond.failCount)
  BY <1>2, <1>3, <1>5, EvalAssumption DEF IInv, Normalised
<1>. QED  BY <1>2, <1>6, <1>7 DEF RoomInv, RoomyFailureTriggers

\* Of the newest results none is lost when they grow older within the horizon.
LEMMA NewestOlder ==
    ASSUME IInv, Tick, NEW b \in Int, b + 1 <= Horizon
    PROVE  /\ IsFiniteSet(Newest(b)) /\ IsFiniteSet(Newest(b + 1)')
           /\ Cardinality(Newest(b)) <= Cardinality(Newest(b + 1)')
<1> DEFINE older(r) == [r EXCEPT !.age = @ + 1]
           f == [r \in Newest(b) |-> older(r)]
<1>1. results' = {older(r) : r \in {q \in results : q.age < Horizon}}
  BY DEF Tick
<1>2. \A r \in results : older(r).age = r.age + 1 /\ older(r).match = r.match
                         /\ r.age \in Nat /\ r = [age |-> r.age, match |-> r.match]
  BY DEF IInv, EvalTypeOK
<1>3. IsFiniteSet(results')
  BY InvInductive DEF EvalNext, IInv, StreakCounted
<1>4. IsFiniteSet(Newest(b)) /\ IsFiniteSet(Newest(b + 1)')
  BY <1>3, FS_Subset DEF Newest, Streak, IInv, StreakCounted
<1>5. \A r \in Newest(b) : older(r) \in Newest(b + 1)'
  <2> SUFFICES ASSUME NEW r \in Newest(b) PROVE older(r) \in Newest(b + 1)'
    OBVIOUS
  <2>1. r \in results /\ r.age <= b /\ \A q \in results : q.age <= r.age => q.match
    BY DEF Newest, Streak
  <2>2. older(r) \in results' /\ older(r).age <= b + 1
    BY <1>1, <1>2, <2>1, EvalAssumption DEF Horizon
  <2>3. ASSUME NEW q \in results', q.age <= older(r).age PROVE q.match
    <3>1. PICK p \in results : q = older(p)
      BY <1>1
    <3>2. p.age <= r.age
      BY <1>2, <2>1, <2>3, <3>1
    <3>. QED  BY <1>2, <2>1, <3>1, <3>2
  <2>. QED  BY <2>2, <2>3 DEF Newest, Streak
<1>6. f \in Injection(Newest(b), Newest(b + 1)')
  <2>1. \A r, q \in Newest(b) : older(r) = older(q) => r = q
    BY <1>2 DEF Newest, Streak
  <2>2. f \in [Newest(b) -> Newest(b + 1)']
    BY <1>5
  <2>. QED  BY <2>1, <2>2 DEF Injection, IsInjective
<1>. QED  BY <1>4, <1>6, FS_Injection

LEMMA RoomTick == RoomInv /\ Tick => Spaced'
<1> SUFFICES ASSUME RoomInv, Tick PROVE Spaced'
  OBVIOUS
<1> USE DEF RoomInv
<1>1. cond.interval \in Nat /\ left \in Nat /\ slowest \in Nat /\ failing \in Nat
      /\ \A r \in results : r.age \in Nat
  BY EvalAssumption DEF IInv, EvalTypeOK, Larger
<1>2. \A r \in results' : r.age >= cond'.interval - (IF phase' = "waiting" THEN left' ELSE 0)
  <2> SUFFICES ASSUME NEW r \in results'
               PROVE  r.age >= cond'.interval - (IF phase' = "waiting" THEN left' ELSE 0)
    OBVIOUS
  <2>1. PICK q \in results : r = [q EXCEPT !.age = @ + 1]
    BY DEF Tick
  <2>2. r.age = q.age + 1
    BY <2>1 DEF IInv, EvalTypeOK
  <2>. QED  BY <1>1, <2>2 DEF Tick, Spaced
<1>3. ASSUME NEW k \in 1 .. failing', Reach(k)' <= Horizon PROVE Cardinality(Newest(Reach(k))') >= k
  <2>1. k \in Nat /\ k \in 1 .. failing
    BY <1>1, <1>3 DEF Tick
  <2>2. Reach(k) \in Int /\ (k - 1) * Turn \in Int /\ SinceResult \in Int
    BY <2>1, ReachTyped DEF IInv
  <2>3. Reach(k)' = Reach(k) + 1
    <3>1. SinceResult' = SinceResult + 1 /\ Turn' = Turn
      BY <1>1 DEF Tick, SinceResult, Turn
    <3>. QED  BY <2>2, <3>1 DEF Reach
  <2>4. Horizon \in Nat
    BY EvalAssumption DEF Horizon
  <2>5. Cardinality(Newest(Reach(k))) >= k
    BY <1>3, <2>1, <2>2, <2>3, <2>4 DEF Spaced
  <2>6. PICK b \in Int : b = Reach(k)
    BY <2>2
  <2>7. b + 1 <= Horizon
    BY <1>3, <2>3, <2>6
  <2>8. Newest(Reach(k))' = Newest(b + 1)' /\ Newest(Reach(k)) = Newest(b)
    BY <2>3, <2>6 DEF Newest
  <2>9. /\ IsFiniteSet(Newest(b)) /\ IsFiniteSet(Newest(b + 1)')
        /\ Cardinality(Newest(b)) <= Cardinality(Newest(b + 1)')
    BY <2>7, NewestOlder
  <2>. QED  BY <2>1, <2>5, <2>8, <2>9, FS_CardinalityType
<1>. QED  BY <1>2, <1>3 DEF Tick, Spaced

LEMMA RoomStart == RoomInv /\ StartRun => Spaced' /\ RoomyFailureTriggers'
<1> SUFFICES ASSUME RoomInv, StartRun PROVE Spaced' /\ RoomyFailureTriggers'
  OBVIOUS
<1> USE DEF RoomInv
<1>1. cond.interval \in Nat /\ left = 0 /\ slowest \in Nat /\ failing \in Nat
      /\ cond.failCount \in Nat /\ phase = "waiting" /\ phase' = "running"
      /\ (\A r \in results : r.age \in Nat)
      /\ left' \in Nat /\ slowest' \in Nat /\ slowest' >= slowest /\ left' <= slowest'
  BY EvalAssumption DEF IInv, EvalTypeOK, Normalised, StartRun, Larger
<1>2. \A r \in results' : r.age >= cond'.interval - (IF phase' = "waiting" THEN left' ELSE 0)
  BY <1>1 DEF StartRun, Spaced
<1>3. Turn \in Nat /\ Turn' \in Nat /\ Turn <= Turn' /\ SinceResult \in Int /\ SinceResult' \in Int
      /\ SinceResult <= SinceResult'
  BY <1>1 DEF StartRun, Turn, SinceResult
<1>4. ASSUME NEW k \in 1 .. failing', Reach(k)' <= Horizon PROVE Cardinality(Newest(Reach(k))') >= k
  <2>1. k \in Nat /\ k - 1 \in Nat /\ k \in 1 .. failing /\ Horizon \in Nat
    BY <1>1, <1>4, EvalAssumption DEF StartRun, Horizon
  <2>2. (k - 1) * Turn \in Int /\ (k - 1) * Turn' \in Int /\ (k - 1) * Turn <= (k - 1) * Turn'
    BY <1>3, <2>1, LongerTurns
  <2>3. Reach(k) \in Int /\ Reach(k)' \in Int /\ Reach(k) <= Reach(k)'
    <3>1. LET now == SinceResult + (k - 1) * Turn
              then == SinceResult' + (k - 1) * Turn'
          IN  now \in Int /\ then \in Int /\ now <= then
      BY <1>3, <2>2, SumsGrow
    <3>. QED  BY <3>1 DEF Reach
  <2>4. Cardinality(Newest(Reach(k))) >= k
    BY <1>4, <2>1, <2>3 DEF Spaced
  <2>5. Newest(Reach(k)) \subseteq Newest(Reach(k))'
    BY <1>1, <2>3 DEF StartRun, Newest, Streak
  <2>6. IsFiniteSet(Newest(Reach(k))')
    BY FS_Subset DEF StartRun, Newest, Streak, IInv, StreakCounted
  <2>. QED  BY <2>1, <2>4, <2>5, <2>6, FS_Subset, FS_CardinalityType
<1>5. Spaced'
  BY <1>2, <1>4 DEF StartRun, Spaced
<1>6. HasRoom' => HasRoom
  <2>1. cond.failCount * (cond.interval + slowest) <= cond.failCount * (cond.interval + slowest')
    <3>1. cond.interval + slowest \in Nat /\ cond.interval + slowest' \in Nat
          /\ cond.interval + slowest <= cond.interval + slowest'
      BY <1>1
    <3>. QED  BY <1>1, <3>1, LongerTurns
  <2>2. cond.failCount * (cond.interval + slowest) \in Nat
        /\ cond.failCount * (cond.interval + slowest') \in Nat /\ cond.failWindow \in Nat
    BY <1>1, EvalAssumption DEF IInv, Normalised, Horizon
  <2>3. slowest' = 0 => slowest = 0
    BY <1>1
  <2>. QED  BY <2>1, <2>2, <2>3 DEF HasRoom, StartRun
<1>7. RoomyFailureTriggers'
  BY <1>6 DEF RoomyFailureTriggers, StartRun
<1>. QED  BY <1>5, <1>7

LEMMA RoomEnd == ASSUME NEW match \in BOOLEAN PROVE RoomInv /\ EndRun(match) => Spaced'
<1> SUFFICES ASSUME RoomInv, EndRun(match) PROVE Spaced'
  OBVIOUS
<1> USE DEF RoomInv
<1> DEFINE new == [age |-> 0, match |-> match]
<1>1. cond.interval \in Nat /\ cond.interval > 0 /\ left = 0 /\ slowest \in Nat /\ failing \in Nat
      /\ phase = "running" /\ phase' = "waiting" /\ left' = cond.interval
      /\ (\A r \in results : r.age \in Nat) /\ Horizon \in Nat
  BY EvalAssumption DEF IInv, EvalTypeOK, EndRun, Horizon
<1>2. \A r \in results : r.age >= cond.interval
  BY <1>1 DEF Spaced
<1>3. results' = results \cup {new} /\ new.age = 0
  BY DEF EndRun
<1>4. \A r \in results' : r.age >= cond'.interval - (IF phase' = "waiting" THEN left' ELSE 0)
  BY <1>1, <1>2, <1>3 DEF EndRun
<1>5. ASSUME NEW k \in 1 .. failing', Reach(k)' <= Horizon PROVE Cardinality(Newest(Reach(k))') >= k
  <2>1. match /\ k \in Nat /\ k >= 1 /\ (k > 1 => k - 1 \in 1 .. failing)
    BY <1>1, <1>5, EvalAssumption DEF EndRun, Smaller, IInv, EvalTypeOK
  <2>2. Turn \in Nat /\ Turn' = Turn /\ SinceResult = Turn /\ SinceResult' = 0
    BY <1>1 DEF EndRun, Turn, SinceResult
  <2>3. Reach(k)' = (k - 1) * Turn /\ (k - 1) * Turn \in Nat
    BY <2>1, <2>2 DEF Reach
  <2>4. IsFiniteSet(results') /\ IsFiniteSet(Newest(Reach(k))')
    <3>1. IsFiniteSet(results')
      BY <1>3, FS_AddElement DEF IInv, StreakCounted
    <3>. QED  BY <3>1, FS_Subset DEF Newest, Streak
  <2>5. new \in Newest(Reach(k))'
    <3>1. \A q \in results' : q.age <= new.age => q.match
      BY <1>1, <1>2, <1>3, <2>1
    <3>. QED  BY <1>3, <2>3, <3>1 DEF Newest, Streak
  <2>6. CASE k = 1
    <3>1. {new} \subseteq Newest(Reach(k))' /\ IsFiniteSet({new}) /\ Cardinality({new}) = 1
      BY <2>5, FS_Singleton
    <3>. HIDE DEF new
    <3>. QED  BY <2>4, <2>6, <3>1, FS_Subset, FS_CardinalityType
  <2>7. CASE k > 1
    <3>1. PICK b \in Int : b = Reach(k - 1)
      BY <2>1, ReachTyped DEF IInv
    <3>2. b = (k - 1) * Turn
      <4>1. b = Turn + (k - 1 - 1) * Turn
        BY <2>2, <3>1 DEF Reach
      <4>2. (k - 1 - 1) * Turn = (k - 1) * Turn - Turn
        BY <2>1, <2>2
      <4>. QED  BY <2>2, <2>3, <4>1, <4>2
    <3>3. Cardinality(Newest(b)) >= k - 1
      BY <1>5, <2>1, <2>3, <2>7, <3>1, <3>2 DEF Spaced
    <3>4. Newest(b) \cup {new} \subseteq Newest(Reach(k))'
      <4>1. ASSUME NEW r \in Newest(b) PROVE r \in Newest(Reach(k))'
        BY <1>3, <2>1, <2>3, <3>2 DEF Newest, Streak
      <4>. QED  BY <2>5, <4>1
    <3>5. new \notin Newest(b) /\ IsFiniteSet(Newest(b))
      <4>1. IsFiniteSet(Newest(b))
        BY FS_Subset DEF Newest, Streak, IInv, StreakCounted
      <4>. QED  BY <1>1, <1>2, <1>3, <4>1 DEF Newest, Streak
    <3>. HIDE DEF new
    <3>6. IsFiniteSet(Newest(b) \cup {new}) /\ Cardinality(Newest(b) \cup {new}) = Cardinality(Newest(b)) + 1
      BY <3>5, FS_AddElement
    <3>7. Cardinality(Newest(b) \cup {new}) <= Cardinality(Newest(Reach(k))')
      BY <2>4, <3>4, FS_Subset
    <3>8. Cardinality(Newest(b)) \in Nat /\ Cardinality(Newest(Reach(k))') \in Nat
      BY <2>4, <3>5, FS_CardinalityType
    <3>. QED  BY <2>1, <3>3, <3>6, <3>7, <3>8
  <2>. QED  BY <2>1, <2>6, <2>7
<1>6. failing' >= 1 => last'
  BY DEF EndRun
<1>. QED  BY <1>4, <1>5, <1>6 DEF EndRun, Spaced

LEMMA RoomInductive == RoomInv /\ [EvalNext]_evalVars => RoomInv'
<1> SUFFICES ASSUME RoomInv, [EvalNext]_evalVars PROVE RoomInv'
  OBVIOUS
<1>1. IInv'
  BY InvInductive DEF RoomInv
<1>2. CASE Tick
  <2>1. RoomyFailureTriggers'
    BY <1>2 DEF Tick, RoomInv, RoomyFailureTriggers, HasRoom
  <2>. QED  BY <1>1, <1>2, <2>1, RoomTick DEF RoomInv
<1>3. CASE StartRun
  BY <1>1, <1>3, RoomStart DEF RoomInv
<1>4. ASSUME NEW match \in BOOLEAN, EndRun(match) PROVE RoomInv'
  <2>1. Spaced'
    BY <1>4, RoomEnd
  <2>2. evaluateCondition(results, last)' => triggered'
    BY <1>4 DEF EndRun, evaluateCondition, Recent, Streak
  <2>3. RoomyFailureTriggers'
    BY <1>1, <2>1, <2>2, RoomSuffices, PTL DEF RoomyFailureTriggers
  <2>. QED  BY <1>1, <2>1, <2>3 DEF RoomInv
<1>5. CASE Reevaluate
  <2>1. Spaced'
    BY <1>5 DEF Reevaluate, RoomInv, Spaced, Reach, SinceResult, Turn, Newest, Streak
  <2>2. evaluateCondition(results, last)' => triggered'
    BY <1>5 DEF Reevaluate, evaluateCondition, Recent, Streak
  <2>3. RoomyFailureTriggers'
    BY <1>1, <2>1, <2>2, RoomSuffices, PTL DEF RoomyFailureTriggers
  <2>. QED  BY <1>1, <2>1, <2>3 DEF RoomInv
<1>6. CASE UNCHANGED evalVars
  BY <1>1, <1>6 DEF evalVars, RoomInv, Spaced, Reach, SinceResult, Turn, Newest, Streak,
     RoomyFailureTriggers, HasRoom
<1>. QED  BY <1>2, <1>3, <1>4, <1>5, <1>6 DEF EvalNext

\* Where the window has room for fail_count turns of the check, however long runs have taken,
\* a failure that has lasted fail_count results triggers the condition and keeps it triggered,
\* for any limits of the API and any length of the runs.
THEOREM RoomyTriggers == EvalSpec => []RoomyFailureTriggers
<1>1. RoomInv => RoomyFailureTriggers
  BY DEF RoomInv
<1>. QED  BY <1>1, RoomInit, RoomInductive, PTL DEF EvalSpec
===============================================================================
