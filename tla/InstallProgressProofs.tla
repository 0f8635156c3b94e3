------------------------ MODULE InstallProgressProofs ------------------------
(***************************************************************************)
(* The progress shown never goes back and no row is full too early, for    *)
(* every table of pulses that satisfies PulsesAssumption; TLC evaluates    *)
(* the assumption for the table of install().                              *)
(***************************************************************************)
EXTENDS InstallProgress, TLAPS

\* What the assumption says of one pulse.
LEMMA PulseFacts ==
    ASSUME NEW k \in 1 .. Len(Pulses)
    PROVE  LET p == Pulses[k]
           IN  /\ p.start \in Nat /\ p.end \in Nat /\ p.first \in Nat /\ p.last \in Nat
               /\ p.start <= p.end /\ p.end <= 100
               /\ p.first < p.last /\ p.last <= 100
               /\ \A i \in 1 .. Len(p.marks) : p.marks[i] \in Nat /\ p.marks[i] < p.last
               /\ p.beat = "measured" => p.last > 90
               /\ Len(p.marks) \in Nat
  <1> DEFINE R == PulseRecords
  <1>1. Pulses \in Seq(R)
    BY PulsesAssumption
  <1> HIDE DEF R
  <1>2. Pulses[k] \in R
    BY <1>1
  <1>3. Pulses[k] \in PulseRecords
    BY <1>2 DEF R
  <1>4. PulseValid(Pulses[k])
    BY PulsesAssumption
  <1> DEFINE m == Pulses[k].marks
  <1>5. m \in Seq(Nat)
    BY <1>3 DEF PulseRecords
  <1>6. Len(m) \in Nat /\ \A i \in 1 .. Len(m) : m[i] \in Nat
    BY <1>5
  <1> QED
    BY <1>3, <1>4, <1>6 DEF PulseRecords, PulseValid

LEMMA LenFacts == Len(Pulses) \in 1 .. 7 /\ Pulses[Len(Pulses)].last = 100
  BY PulsesAssumption

LEMMA FollowFacts ==
    ASSUME NEW k \in 1 .. Len(Pulses) - 1
    PROVE  PulsesFollow(k, Pulses[k], Pulses[k + 1])
  BY PulsesAssumption

-----------------------------------------------------------------------------
\* Rounding.

\* A half is the furthest Round moves from n/d.
LEMMA RoundBounds ==
    ASSUME NEW n \in Nat, NEW d \in Nat \ {0}
    PROVE  /\ Round(n, d) \in Nat
           /\ 2 * n <= (2 * (d * Round(n, d))) + d
           /\ (2 * (d * Round(n, d))) <= (2 * n) + d
  <1> DEFINE q == n \div d
             r == n % d
  <1>1. q \in Nat /\ r \in 0 .. d - 1 /\ n = (d * q) + r
    OBVIOUS
  <1>2. d * (q + 1) = (d * q) + d /\ d * q \in Nat
    BY <1>1
  <1> HIDE DEF q, r
  <1>3. \/ Round(n, d) = q /\ 2 * r <= d
        \/ Round(n, d) = q + 1 /\ 2 * r >= d
    BY <1>1 DEF Round, q, r
  <1>4. CASE Round(n, d) = q /\ 2 * r <= d
    BY <1>1, <1>2, <1>4
  <1>5. CASE Round(n, d) = q + 1 /\ 2 * r >= d
    BY <1>1, <1>2, <1>5
  <1> QED
    BY <1>3, <1>4, <1>5

\* Rounding keeps the order.
LEMMA RoundMonotone ==
    ASSUME NEW d \in Nat \ {0}, NEW a \in Nat, NEW b \in Nat, a <= b
    PROVE  Round(a, d) <= Round(b, d)
  <1>1. SUFFICES ASSUME Round(b, d) < Round(a, d) PROVE FALSE
    BY RoundBounds
  <1> DEFINE x == Round(a, d)
             y == Round(b, d)
  <1>2. /\ x \in Nat /\ y \in Nat
        /\ 2 * (d * x) <= (2 * a) + d
        /\ 2 * b <= (2 * (d * y)) + d
    BY RoundBounds
  <1>3. y < x
    BY <1>1
  <1> HIDE DEF x, y
  <1>4. d * (y + 1) <= d * x /\ d * (y + 1) = (d * y) + d /\ d * y \in Nat /\ d * x \in Nat
    BY <1>2, <1>3
  <1>5. a = b
    BY <1>2, <1>4
  <1> QED
    BY <1>1, <1>5, <1>2, <1>3 DEF x, y

\* A whole number is not moved.
LEMMA RoundExact ==
    ASSUME NEW d \in Nat \ {0}, NEW k \in Nat
    PROVE  Round(k * d, d) = k
  <1> DEFINE n == k * d
             x == Round(n, d)
  <1>1. n \in Nat
    OBVIOUS
  <1>2. x \in Nat /\ 2 * n <= (2 * (d * x)) + d /\ 2 * (d * x) <= (2 * n) + d
    BY <1>1, RoundBounds
  <1>3. n = d * k
    OBVIOUS
  <1> SUFFICES x = k
    OBVIOUS
  <1> HIDE DEF n, x
  <1>4. CASE x >= k + 1
    <2>1. d * (k + 1) <= d * x /\ d * (k + 1) = (d * k) + d /\ d * k \in Nat
      BY <1>2, <1>4
    <2> QED
      BY <2>1, <1>1, <1>2, <1>3
  <1>5. CASE k >= x + 1
    <2>1. d * (x + 1) <= d * k /\ d * (x + 1) = (d * x) + d /\ d * x \in Nat
      BY <1>2, <1>5
    <2> QED
      BY <2>1, <1>1, <1>2, <1>3
  <1> QED
    BY <1>2, <1>4, <1>5

\* The overall percentage of a pulse starts and ends where its range does and
\* never falls as the stage's percentage grows.
LEMMA OverallFacts ==
    ASSUME NEW k \in 1 .. Len(Pulses),
           NEW x \in Nat, NEW y \in Nat,
           Pulses[k].first <= x, x <= y, y <= Pulses[k].last
    PROVE  LET p == Pulses[k]
           IN  /\ Overall(p, x) <= Overall(p, y)
               /\ Overall(p, x) \in 0 .. 100 /\ Overall(p, y) \in 0 .. 100
               /\ Overall(p, p.first) = p.start
               /\ Overall(p, p.last) = p.end
  <1> DEFINE p == Pulses[k]
             d == p.last - p.first
             w == p.end - p.start
             num(v) == (p.start * d) + (w * (v - p.first))
  <1>1. /\ p.start \in Nat /\ p.end \in Nat /\ p.first \in Nat /\ p.last \in Nat
        /\ p.start <= p.end /\ p.end <= 100 /\ p.first < p.last
    BY PulseFacts
  <1>2. d \in Nat \ {0} /\ w \in Nat /\ x - p.first \in Nat /\ y - p.first \in Nat
    BY <1>1
  <1>3. \A v : Overall(p, v) = Round(num(v), d)
    BY DEF Overall, Span
  <1>4. \A u, v \in Nat : p.first <= u /\ u <= v => num(u) \in Nat /\ num(v) \in Nat /\ num(u) <= num(v)
    <2> TAKE u \in Nat, v \in Nat
    <2> HAVE p.first <= u /\ u <= v
    <2> DEFINE g == u - p.first
               h == v - p.first
    <2>1. g \in Nat /\ h \in Nat /\ g <= h
      BY <1>1
    <2>2. p.start * d \in Nat
      BY <1>1, <1>2
    <2> HIDE DEF g, h, w, d
    <2>3. w * g \in Nat /\ w * h \in Nat /\ w * g <= w * h
      BY <1>2, <2>1
    <2> QED
      BY <2>2, <2>3 DEF g, h
  <1>5. num(p.first) = p.start * d
    BY <1>1, <1>2
  <1>6. num(p.last) = p.end * d
    <2>1. num(p.last) = (p.start * d) + (w * d)
      OBVIOUS
    <2>2. p.end = p.start + w
      BY <1>1
    <2> HIDE DEF d, w
    <2>3. (p.start + w) * d = (p.start * d) + (w * d)
      BY <1>1, <1>2
    <2> QED
      BY <2>1, <2>2, <2>3
  <1>7. Overall(p, p.first) = p.start
    <2> HIDE DEF d, num, p
    <2> QED
      BY <1>1, <1>2, <1>3, <1>5, RoundExact
  <1>8. Overall(p, p.last) = p.end
    <2> HIDE DEF d, num, p
    <2> QED
      BY <1>1, <1>2, <1>3, <1>6, RoundExact
  <1>9. \A u, v \in Nat : p.first <= u /\ u <= v => Overall(p, u) \in Nat /\ Overall(p, v) \in Nat /\ Overall(p, u) <= Overall(p, v)
    <2> HIDE DEF d, num, p
    <2> QED
      BY <1>2, <1>3, <1>4, RoundMonotone, RoundBounds
  <1> HIDE DEF p, d, w, num
  <1>10. /\ Overall(p, x) <= Overall(p, y)
         /\ Overall(p, x) \in Nat /\ Overall(p, y) \in Nat
         /\ Overall(p, y) <= Overall(p, p.last)
    BY <1>1, <1>9 DEF p
  <1>11. Overall(p, x) \in 0 .. 100 /\ Overall(p, y) \in 0 .. 100
    <2> DEFINE a == Overall(p, x)
               b == Overall(p, y)
               e == Overall(p, p.last)
               f == p.end
    <2>1. a \in Nat /\ b \in Nat /\ a <= b /\ b <= e /\ e = f /\ f <= 100 /\ f \in Nat
      BY <1>1, <1>8, <1>10 DEF p
    <2> HIDE DEF a, b, e, f
    <2>2. a \in 0 .. 100 /\ b \in 0 .. 100
      BY <2>1
    <2> QED
      BY <2>2 DEF a, b
  <1> QED
    BY <1>7, <1>8, <1>10, <1>11 DEF p

-----------------------------------------------------------------------------
\* The inductive invariant.

\* While a pulse is at work its percentage lies below its end and is what the
\* screen shows; between two pulses the screen shows the end of the last one.
AtWork ==
    mark # 0 => /\ stage <= Len(Pulses)
                /\ pulse.first <= at /\ at < pulse.last
                /\ shown = Show(stage, at)

Between ==
    mark = 0 /\ run # "complete" =>
        \/ stage = 1 /\ shown = [progress |-> 0, index |-> 0, percent |-> 0]
        \/ stage > 1 /\ shown = Show(stage - 1, Pulses[stage - 1].last)

Finished ==
    run = "complete" => /\ stage = Len(Pulses) + 1
                        /\ shown.index = Len(Pulses) - 1

ProgressInv == TypeOK /\ AtWork /\ Between /\ Finished

LEMMA PercentKept ==
    ASSUME NEW l \in Nat, l <= 100, NEW x \in Nat, x <= l
    PROVE  x \in 0 .. 100 /\ Lesser(Greater(0, x), 100) = x
  <1>1. x <= 100
    OBVIOUS
  <1> QED
    BY <1>1 DEF Lesser, Greater

\* A percentage of a stage is shown as it is.
LEMMA ShowFacts ==
    ASSUME NEW k \in 1 .. Len(Pulses), NEW x \in Nat,
           Pulses[k].first <= x, x <= Pulses[k].last
    PROVE  /\ Show(k, x) \in [progress : 0 .. 100, index : 0 .. 6, percent : 0 .. 100]
           /\ Show(k, x).progress = Overall(Pulses[k], x)
           /\ Show(k, x).index = k - 1
           /\ Show(k, x).percent = x
           /\ x \in 0 .. 100
  <1>1. Pulses[k].last \in Nat /\ Pulses[k].last <= 100
    BY PulseFacts
  <1>2. x \in 0 .. 100 /\ Lesser(Greater(0, x), 100) = x
    BY <1>1, PercentKept
  <1>4. Overall(Pulses[k], x) \in 0 .. 100
    <2>1. x <= x
      OBVIOUS
    <2> QED
      BY <2>1, OverallFacts, Zenon
  <1>5. k - 1 \in 0 .. 6
    BY LenFacts
  <1> QED
    BY <1>2, <1>4, <1>5 DEF Show

\* Within its range, emit shows the larger of what it was and what it is given.
LEMMA EmitFacts ==
    ASSUME stage \in 1 .. Len(Pulses), at \in Nat,
           pulse.first <= at, at <= pulse.last,
           NEW x \in Nat, Emit(x)
    PROVE  /\ at' \in Nat /\ at <= at' /\ at' <= pulse.last /\ pulse.first <= at'
           /\ shown' = Show(stage, at')
           /\ (x < pulse.last /\ at < pulse.last) => at' < pulse.last
           /\ x >= pulse.last => at' = pulse.last
  <1>1. pulse.first \in Nat /\ pulse.last \in Nat
    BY PulseFacts DEF pulse
  <1> DEFINE l == pulse.last
             f == pulse.first
  <1>2. at' = Greater(at, Lesser(l, x)) /\ shown' = Show(stage, at')
    BY DEF Emit
  <1>3. f \in Nat /\ l \in Nat /\ f <= at /\ at <= l
    BY <1>1
  <1> HIDE DEF l, f
  <1>4. /\ at' \in Nat /\ at <= at' /\ at' <= l /\ f <= at'
        /\ (x < l /\ at < l) => at' < l
        /\ x >= l => at' = l
    BY <1>2, <1>3 DEF Greater, Lesser
  <1> QED
    BY <1>2, <1>4 DEF l, f

\* advance emits something below the end of the stage or nothing.
LEMMA AdvanceFacts ==
    ASSUME stage \in 1 .. Len(Pulses), at \in Nat,
           pulse.first <= at, at < pulse.last, Advance
    PROVE  \/ UNCHANGED <<at, shown>>
           \/ \E x \in Nat : x < pulse.last /\ Emit(x)
  <1>1. pulse.last \in Nat
    BY PulseFacts DEF pulse
  <1> DEFINE l == pulse.last
             step == Greater(1, (l - at) \div 18)
             x == Lesser(l - 1, at + step)
  <1>2. l - at \in Nat
    BY <1>1
  <1>3. (l - at) \div 18 \in Nat
    BY <1>2
  <1>4. step \in Nat
    BY <1>3 DEF Greater
  <1>5. CASE at >= l - 1
    BY <1>5 DEF Advance
  <1>6. CASE ~(at >= l - 1)
    <2>1. Emit(x)
      BY <1>6 DEF Advance
    <2>2. l - 1 \in Nat /\ at + step \in Nat
      BY <1>1, <1>4, <1>6
    <2> HIDE DEF step
    <2>3. x \in Nat /\ x < l
      BY <1>1, <2>2 DEF Lesser
    <2> QED
      BY <2>1, <2>3
  <1> QED
    BY <1>5, <1>6

\* Later stages are not shown on earlier rows.
LEMMA RowOrder ==
    ASSUME NEW j \in Nat, NEW k \in Nat, j <= k
    PROVE  VisualRow(j) \in Rows /\ VisualRow(j) <= VisualRow(k)
  BY DEF VisualRow, Rows

\* On the same row a larger percentage is no step back.
LEMMA SameStage ==
    ASSUME NEW k \in Nat, shown.index = k, shown'.index = k,
           shown.progress <= shown'.progress, shown.percent <= shown'.percent
    PROVE  NoStepBack
  <1> SUFFICES ASSUME NEW row \in Rows
               PROVE  RowPercent(shown, row) <= RowPercent(shown', row)
    BY DEF NoStepBack
  <1>1. VisualRow(k) \in Rows
    BY RowOrder
  <1> DEFINE v == VisualRow(k)
             a == shown.percent
             b == shown'.percent
  <1>2. /\ RowPercent(shown, row) = IF row < v THEN 100 ELSE IF row > v THEN 0 ELSE a
        /\ RowPercent(shown', row) = IF row < v THEN 100 ELSE IF row > v THEN 0 ELSE b
    BY DEF RowPercent
  <1>3. v \in Int /\ row \in Int /\ a <= b
    BY <1>1 DEF Rows
  <1> HIDE DEF v, a, b
  <1> QED
    BY <1>2, <1>3

\* An emission of a pulse at work keeps it in its range and is no step back.
LEMMA Emission ==
    ASSUME ProgressInv, mark # 0, NEW x \in Nat, Emit(x)
    PROVE  /\ at' \in 0 .. 100 /\ pulse.first <= at' /\ at' <= pulse.last
           /\ shown' \in [progress : 0 .. 100, index : 0 .. 6, percent : 0 .. 100]
           /\ shown' = Show(stage, at')
           /\ x < pulse.last => at' < pulse.last
           /\ x >= pulse.last => at' = pulse.last
           /\ NoStepBack
  <1>1. /\ stage \in 1 .. Len(Pulses) /\ at \in Nat
        /\ pulse.first <= at /\ at < pulse.last
        /\ shown = Show(stage, at)
    BY LenFacts DEF ProgressInv, TypeOK, AtWork
  <1>2. pulse.last \in Nat /\ pulse.first \in Nat
    BY <1>1, PulseFacts DEF pulse
  <1>3. at <= pulse.last
    BY <1>1, <1>2
  <1>4. /\ at' \in Nat /\ at <= at' /\ at' <= pulse.last /\ pulse.first <= at'
        /\ shown' = Show(stage, at')
        /\ x < pulse.last => at' < pulse.last
        /\ x >= pulse.last => at' = pulse.last
    BY <1>1, <1>3, EmitFacts
  <1>5. /\ shown.index = stage - 1 /\ shown.percent = at
        /\ shown.progress = Overall(Pulses[stage], at)
    BY <1>1, <1>3, ShowFacts DEF pulse
  <1>6. /\ shown'.index = stage - 1 /\ shown'.percent = at'
        /\ shown'.progress = Overall(Pulses[stage], at')
        /\ shown' \in [progress : 0 .. 100, index : 0 .. 6, percent : 0 .. 100]
        /\ at' \in 0 .. 100
    BY <1>1, <1>4, ShowFacts DEF pulse
  <1>7. Overall(Pulses[stage], at) <= Overall(Pulses[stage], at')
    BY <1>1, <1>4, OverallFacts, Zenon DEF pulse
  <1>8. stage - 1 \in Nat
    BY <1>1
  <1>9. NoStepBack
    BY <1>4, <1>5, <1>6, <1>7, <1>8, SameStage
  <1> QED
    BY <1>4, <1>6, <1>9

LEMMA ProgressInit == Init => ProgressInv
  <1> SUFFICES ASSUME Init PROVE ProgressInv
    OBVIOUS
  <1>1. TypeOK
    BY LenFacts DEF Init, TypeOK
  <1>2. AtWork /\ Between /\ Finished
    BY DEF Init, AtWork, Between, Finished
  <1> QED
    BY <1>1, <1>2 DEF ProgressInv

\* The first line of a pulse continues where the one before it ended.
LEMMA BeginStep ==
    ASSUME ProgressInv, Begin
    PROVE  ProgressInv' /\ NoStepBack
  <1>1. /\ stage \in 1 .. Len(Pulses) /\ run = "going" /\ mark = 0
        /\ at' = pulse.first /\ shown' = Show(stage, at')
        /\ mark' = 1 /\ stage' = stage /\ run' = run
    BY LenFacts DEF Begin, ProgressInv, TypeOK
  <1> DEFINE p == Pulses[stage]
  <1>2. /\ p.first \in Nat /\ p.last \in Nat /\ p.start \in Nat
        /\ p.first <= p.first /\ p.first < p.last /\ p.first <= p.last
    BY <1>1, PulseFacts
  <1>3. /\ shown' \in [progress : 0 .. 100, index : 0 .. 6, percent : 0 .. 100]
        /\ shown'.progress = Overall(p, p.first)
        /\ shown'.index = stage - 1 /\ shown'.percent = p.first /\ p.first \in 0 .. 100
    BY <1>1, <1>2, ShowFacts DEF pulse
  <1>4. Overall(p, p.first) = p.start
    BY <1>1, <1>2, OverallFacts, Zenon
  <1>5. ProgressInv'
    <2>1. TypeOK'
      BY <1>1, <1>3, LenFacts DEF TypeOK, pulse
    <2>2. AtWork'
      BY <1>1, <1>2, LenFacts DEF AtWork, pulse
    <2>3. Between' /\ Finished'
      BY <1>1 DEF Between, Finished
    <2> QED
      BY <2>1, <2>2, <2>3 DEF ProgressInv
  <1> SUFFICES NoStepBack
    BY <1>5
  <1>6. CASE stage = 1
    <2>1. shown.index = 0 /\ shown.progress = 0 /\ shown.percent = 0
      BY <1>1, <1>6 DEF ProgressInv, Between
    <2>2. shown'.index = 0 /\ shown'.progress \in Nat /\ shown'.percent \in Nat
      BY <1>3, <1>4, <1>2, <1>6
    <2> QED
      BY <2>1, <2>2, SameStage
  <1>7. CASE stage > 1
    <2> DEFINE j == stage - 1
               o == Pulses[j]
    <2>1. j \in 1 .. Len(Pulses) - 1 /\ j \in 1 .. Len(Pulses) /\ j + 1 = stage
      BY <1>1, <1>7, LenFacts
    <2>2. /\ o.first \in Nat /\ o.last \in Nat /\ o.end \in Nat
          /\ o.first <= o.last /\ o.last <= o.last /\ o.last <= 100
      BY <2>1, PulseFacts
    <2>3. /\ shown.progress = Overall(o, o.last)
          /\ shown.index = j - 1 /\ shown.percent = o.last
      BY <1>1, <1>7, <2>1, <2>2, ShowFacts DEF ProgressInv, Between
    <2>4. Overall(o, o.last) = o.end
      BY <2>1, <2>2, OverallFacts, Zenon
    <2>5. PulsesFollow(j, o, p)
      BY <2>1, FollowFacts
    <2>6. shown.progress <= shown'.progress
      BY <1>3, <1>4, <2>3, <2>4, <2>5 DEF PulsesFollow
    <2> SUFFICES ASSUME NEW row \in Rows
                 PROVE  RowPercent(shown, row) <= RowPercent(shown', row)
      BY <2>6 DEF NoStepBack
    <2> DEFINE v == VisualRow(j - 1)
               w == VisualRow(j)
               a == o.last
               b == p.first
    <2>7. /\ RowPercent(shown, row) = IF row < v THEN 100 ELSE IF row > v THEN 0 ELSE a
          /\ RowPercent(shown', row) = IF row < w THEN 100 ELSE IF row > w THEN 0 ELSE b
      BY <1>3, <2>3 DEF RowPercent
    <2>8. v \in Int /\ w \in Int /\ row \in Int /\ a \in Nat /\ b \in Nat /\ a <= 100
      <3>1. j - 1 \in Nat /\ j \in Nat /\ j - 1 <= j-1 /\ j <= j
        BY <2>1
      <3>2. v \in Rows /\ w \in Rows
        BY <3>1, RowOrder
      <3> QED
        BY <3>2, <1>2, <2>2 DEF Rows
    <2>9. v < w \/ (v = w /\ a <= b)
      BY <2>5 DEF PulsesFollow
    <2> HIDE DEF v, w, a, b
    <2> QED
      BY <2>7, <2>8, <2>9
  <1> QED
    BY <1>1, <1>5, <1>6, <1>7

\* A pulse at work that emits something below its end stays at work.
LEMMA WorkStep ==
    ASSUME ProgressInv, run = "going", mark # 0, mark' \in Nat, mark' # 0,
           stage' = stage, run' = run,
           \/ UNCHANGED <<at, shown>>
           \/ \E x \in Nat : x < pulse.last /\ Emit(x)
    PROVE  ProgressInv' /\ NoStepBack
  <1>1. /\ stage \in 1 .. Len(Pulses) /\ at \in 0 .. 100
        /\ pulse.first <= at /\ at < pulse.last /\ shown = Show(stage, at)
        /\ shown \in [progress : 0 .. 100, index : 0 .. 6, percent : 0 .. 100]
    BY LenFacts DEF ProgressInv, TypeOK, AtWork
  <1>2. pulse' = pulse
    BY DEF pulse
  <1>3. /\ at' \in 0 .. 100 /\ pulse.first <= at' /\ at' < pulse.last
        /\ shown' = Show(stage, at')
        /\ shown' \in [progress : 0 .. 100, index : 0 .. 6, percent : 0 .. 100]
        /\ NoStepBack
    <2>1. CASE UNCHANGED <<at, shown>>
      <3>1. shown.progress <= shown'.progress /\ shown.percent <= shown'.percent
        <4>1. shown.progress \in 0 .. 100 /\ shown.percent \in 0 .. 100
          BY <1>1
        <4> QED
          BY <2>1, <4>1
      <3>2. shown.index \in Nat /\ shown'.index = shown.index
        BY <1>1, <2>1
      <3>3. NoStepBack
        BY <3>1, <3>2, SameStage
      <3> QED
        BY <1>1, <2>1, <3>3
    <2>2. CASE \E x \in Nat : x < pulse.last /\ Emit(x)
      <3>1. PICK x \in Nat : x < pulse.last /\ Emit(x)
        BY <2>2
      <3> QED
        BY <3>1, Emission
    <2> QED
      BY <2>1, <2>2
  <1>4. TypeOK'
    BY <1>1, <1>3, LenFacts DEF TypeOK
  <1>5. AtWork'
    BY <1>1, <1>2, <1>3, LenFacts DEF AtWork
  <1>6. Between' /\ Finished'
    BY DEF Between, Finished
  <1> QED
    BY <1>3, <1>4, <1>5, <1>6 DEF ProgressInv

LEMMA MilestoneStep ==
    ASSUME ProgressInv, Milestone
    PROVE  ProgressInv' /\ NoStepBack
  <1>1. stage \in 1 .. Len(Pulses) /\ mark \in Nat
    BY LenFacts DEF Milestone, ProgressInv, TypeOK
  <1>2. Len(pulse.marks) \in Nat
    BY <1>1, PulseFacts DEF pulse
  <1>3. mark # 0 /\ mark' \in Nat /\ mark' # 0
    BY <1>1, <1>2 DEF Milestone
  <1>4. pulse.marks[mark] \in Nat /\ pulse.marks[mark] < pulse.last
    BY <1>1, PulseFacts DEF Milestone, pulse
  <1> QED
    BY <1>3, <1>4, WorkStep DEF Milestone

LEMMA HeartbeatStep ==
    ASSUME ProgressInv, Heartbeat \/ MeasuredHeartbeat
    PROVE  ProgressInv' /\ NoStepBack
  <1>1. /\ stage \in 1 .. Len(Pulses) /\ mark \in Nat /\ run = "going"
        /\ mark > Len(pulse.marks) /\ at \in 0 .. 100
        /\ UNCHANGED <<stage, mark, run>>
    BY LenFacts DEF Heartbeat, MeasuredHeartbeat, WorkBegun, ProgressInv, TypeOK
  <1>2. Len(pulse.marks) \in Nat /\ pulse.last \in Nat
    BY <1>1, PulseFacts DEF pulse
  <1>3. mark # 0 /\ mark' \in Nat /\ mark' # 0
    BY <1>1, <1>2
  <1>4. pulse.first <= at /\ at < pulse.last /\ at \in Nat
    BY <1>1, <1>3 DEF ProgressInv, AtWork
  <1>5. CASE Advance
    BY <1>1, <1>3, <1>4, <1>5, AdvanceFacts, WorkStep
  <1>6. CASE \E m \in Measurements : m # NotMeasured /\ pulse.beat = "measured"
                                    /\ Emit(IF m > at THEN m ELSE at)
    <2>1. PICK m \in Measurements : m # NotMeasured /\ pulse.beat = "measured"
                                   /\ Emit(IF m > at THEN m ELSE at)
      BY <1>6
    <2>2. m \in 0 .. 90
      BY <2>1 DEF Measurements
    <2>3. pulse.last > 90
      BY <1>1, <2>1, PulseFacts DEF pulse
    <2> DEFINE x == IF m > at THEN m ELSE at
    <2>4. x \in Nat /\ x < pulse.last /\ Emit(x)
      BY <1>2, <1>4, <2>1, <2>2, <2>3
    <2> HIDE DEF x
    <2> QED
      BY <1>1, <1>3, <2>4, WorkStep
  <1> QED
    BY <1>5, <1>6 DEF Heartbeat, MeasuredHeartbeat

LEMMA CompleteStep ==
    ASSUME ProgressInv, Complete
    PROVE  ProgressInv' /\ NoStepBack
  <1>1. /\ stage \in 1 .. Len(Pulses) /\ mark \in Nat /\ run = "going"
        /\ mark > Len(pulse.marks) /\ mark' = 0 /\ stage' = stage + 1
        /\ run' = run /\ Emit(pulse.last)
    BY LenFacts DEF Complete, WorkBegun, ProgressInv, TypeOK
  <1>2. Len(pulse.marks) \in Nat /\ pulse.last \in Nat
    BY <1>1, PulseFacts DEF pulse
  <1>3. mark # 0 /\ pulse.last >= pulse.last
    BY <1>1, <1>2
  <1>4. /\ at' \in 0 .. 100 /\ at' = pulse.last
        /\ shown' = Show(stage, at')
        /\ shown' \in [progress : 0 .. 100, index : 0 .. 6, percent : 0 .. 100]
        /\ NoStepBack
    BY <1>1, <1>2, <1>3, Emission
  <1>5. TypeOK'
    BY <1>1, <1>4, LenFacts DEF TypeOK
  <1>6. stage' > 1 /\ stage' - 1 = stage
    BY <1>1
  <1>7. AtWork' /\ Between' /\ Finished'
    BY <1>1, <1>4, <1>6 DEF AtWork, Between, Finished, pulse
  <1> QED
    BY <1>4, <1>5, <1>7 DEF ProgressInv

LEMMA FinishStep ==
    ASSUME ProgressInv, Finish
    PROVE  ProgressInv' /\ NoStepBack
  <1> DEFINE n == Len(Pulses)
  <1>1. /\ run = "going" /\ stage = n + 1 /\ run' = "complete"
        /\ shown' = [progress |-> 100, index |-> shown.index, percent |-> 100]
        /\ UNCHANGED <<stage, mark, at>>
    BY DEF Finish
  <1>2. /\ n \in 1 .. 7 /\ n + 1 > 1 /\ (n + 1) - 1 = n /\ ~(n + 1 <= n) /\ n + 1 # 1
    <2>1. n \in 1 .. 7
      BY LenFacts
    <2> HIDE DEF n
    <2> QED
      BY <2>1
  <1>3. shown \in [progress : 0 .. 100, index : 0 .. 6, percent : 0 .. 100]
    BY DEF ProgressInv, TypeOK
  <1>4. mark = 0
    BY <1>1, <1>2 DEF ProgressInv, AtWork
  <1>5. shown = Show(n, Pulses[n].last)
    BY <1>1, <1>2, <1>4 DEF ProgressInv, Between
  <1>6. shown.index = n - 1
    BY <1>5 DEF Show
  <1>7. /\ shown' \in [progress : 0 .. 100, index : 0 .. 6, percent : 0 .. 100]
        /\ shown'.index = n - 1 /\ shown'.progress = 100 /\ shown'.percent = 100
    <2>1. shown.index \in 0 .. 6 /\ 100 \in 0 .. 100
      BY <1>3
    <2> HIDE DEF n
    <2> QED
      BY <1>1, <1>6, <2>1
  <1>8. TypeOK'
    BY <1>1, <1>7 DEF TypeOK, ProgressInv
  <1>9. AtWork' /\ Between' /\ Finished'
    BY <1>1, <1>4, <1>7 DEF AtWork, Between, Finished
  <1>10. n - 1 \in Nat /\ shown.progress <= 100 /\ shown.percent <= 100
    <2>1. shown.progress \in 0 .. 100 /\ shown.percent \in 0 .. 100
      BY <1>3
    <2> HIDE DEF n
    <2> QED
      BY <1>2, <2>1
  <1>11. NoStepBack
    BY <1>6, <1>7, <1>10, SameStage
  <1> QED
    BY <1>8, <1>9, <1>11 DEF ProgressInv

LEMMA StandingStep ==
    ASSUME ProgressInv, Stop \/ UNCHANGED vars
    PROVE  ProgressInv' /\ NoStepBack
  <1>1. /\ UNCHANGED <<stage, mark, at, shown>>
        /\ run' = run \/ (run = "going" /\ run' = "stopped")
    BY DEF Stop, vars
  <1>2. TypeOK' /\ AtWork' /\ Between' /\ Finished'
    BY <1>1 DEF ProgressInv, TypeOK, AtWork, Between, Finished, pulse
  <1>3. shown.index \in 0 .. 6 /\ shown.progress \in 0 .. 100 /\ shown.percent \in 0 .. 100
    BY DEF ProgressInv, TypeOK
  <1>4. /\ shown'.index = shown.index
        /\ shown.progress <= shown'.progress /\ shown.percent <= shown'.percent
    BY <1>1, <1>3
  <1>5. NoStepBack
    BY <1>3, <1>4, SameStage
  <1> QED
    BY <1>2, <1>5 DEF ProgressInv

LEMMA ProgressStep ==
    ASSUME ProgressInv, [Next]_vars
    PROVE  ProgressInv' /\ NoStepBack
  BY BeginStep, MilestoneStep, HeartbeatStep, CompleteStep, FinishStep, StandingStep
  DEF Next

\* No row counts as full before its last stage has completed.
LEMMA FullRows == ProgressInv => FullRowsAreDone
  <1> SUFFICES ASSUME ProgressInv,
                      NEW row \in Rows, NEW k \in 1 .. Len(Pulses),
                      RowPercent(shown, row) = 100, VisualRow(k - 1) = row
               PROVE  k < stage
    BY DEF FullRowsAreDone
  <1>1. stage \in 1 .. Len(Pulses) + 1 /\ Len(Pulses) \in 1 .. 7 /\ k - 1 \in Nat
    BY LenFacts DEF ProgressInv, TypeOK
  <1>2. \A i \in Nat : VisualRow(i) \in Rows
    BY RowOrder
  <1>4. SUFFICES ASSUME k >= stage, stage <= Len(Pulses) PROVE FALSE
    BY <1>1
  <1>5. run # "complete"
    BY <1>4, <1>1 DEF ProgressInv, Finished
  <1>6. stage - 1 \in Nat /\ stage - 1 <= k - 1
    BY <1>1, <1>4
  <1>7. VisualRow(stage - 1) <= row /\ VisualRow(stage - 1) \in Rows
    BY <1>1, <1>6, RowOrder
  <1>8. CASE mark # 0
    <2>1. /\ stage \in 1 .. Len(Pulses) /\ at \in Nat /\ shown = Show(stage, at)
          /\ pulse.first <= at /\ at < pulse.last
      BY <1>1, <1>4, <1>8 DEF ProgressInv, TypeOK, AtWork
    <2>2. pulse.last \in Nat /\ pulse.last <= 100
      BY <2>1, PulseFacts DEF pulse
    <2>3. at <= pulse.last /\ at < 100
      BY <2>1, <2>2
    <2>4. shown.index = stage - 1 /\ shown.percent = at
      BY <2>1, <2>3, ShowFacts DEF pulse
    <2> QED
      BY <1>7, <2>3, <2>4 DEF RowPercent, Rows
  <1>9. CASE mark = 0 /\ stage = 1
    <2>1. shown.index = 0 /\ shown.percent = 0
      BY <1>5, <1>9 DEF ProgressInv, Between
    <2> QED
      BY <1>7, <1>9, <2>1 DEF RowPercent, Rows
  <1>10. CASE mark = 0 /\ stage > 1
    <2> DEFINE j == stage - 1
               o == Pulses[j]
    <2>1. j \in 1 .. Len(Pulses) - 1 /\ j \in 1 .. Len(Pulses) /\ j + 1 = stage
      BY <1>1, <1>4, <1>10
    <2>2. /\ o.first \in Nat /\ o.last \in Nat
          /\ o.first <= o.last /\ o.last <= 100
      BY <2>1, PulseFacts
    <2>3. shown = Show(j, o.last)
      BY <1>5, <1>10 DEF ProgressInv, Between
    <2>4. shown.index = j - 1 /\ shown.percent = o.last
      BY <2>1, <2>2, <2>3, ShowFacts
    <2>5. PulsesFollow(j, o, Pulses[j + 1])
      BY <2>1, FollowFacts
    <2>6. VisualRow(j - 1) \in Rows /\ VisualRow(j) \in Rows
      BY <2>1, RowOrder, <1>2
    <2> DEFINE v == VisualRow(j - 1)
               w == VisualRow(j)
               a == o.last
    <2>7. v < w \/ (v = w /\ a < 100)
      BY <2>5 DEF PulsesFollow
    <2>8. RowPercent(shown, row) = IF row < v THEN 100 ELSE IF row > v THEN 0 ELSE a
      BY <2>4 DEF RowPercent
    <2>9. v \in Int /\ w \in Int /\ row \in Int /\ w <= row /\ a \in Nat
      BY <1>7, <2>2, <2>6 DEF Rows
    <2>10. RowPercent(shown, row) = 100
      OBVIOUS
    <2> HIDE DEF v, w, a
    <2> QED
      BY <2>7, <2>8, <2>9, <2>10
  <1> QED
    BY <1>1, <1>8, <1>9, <1>10

-----------------------------------------------------------------------------
\* The invariant holds of every installation.
THEOREM ProgressInvariant == Spec => []ProgressInv
  <1>1. ProgressInv /\ [Next]_vars => ProgressInv'
    BY ProgressStep
  <1> QED
    BY ProgressInit, <1>1, PTL DEF Spec

\* No emission, heartbeat or change of stage moves the overall bar or a row of
\* ProgressScreen.qml back.
THEOREM MonotoneProgress == Spec => NeverBackwards
  <1>1. ProgressInv /\ [Next]_vars => [NoStepBack]_vars
    BY ProgressStep
  <1> QED
    BY ProgressInvariant, <1>1, PTL DEF Spec, NeverBackwards

\* However many heartbeats a command takes, its row is not full before it and
\* the rest of the row's stages are done.
THEOREM FullRowsTheorem == Spec => []FullRowsAreDone
  BY ProgressInvariant, FullRows, PTL
=============================================================================
