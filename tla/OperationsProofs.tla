-------------------------- MODULE OperationsProofs --------------------------
(***************************************************************************)
(* What next_run and missed_periods promise about fixed intervals, once    *)
(* and cron schedules, for every anchor, period and time: the cursor of    *)
(* such a schedule is always the next instant it names, ahead of the tick  *)
(* that moved it, and the periods missed are the instants jumped.          *)
(* Calendar intervals stay with TLC: months have no common length.         *)
(*                                                                         *)
(* Then the monitors: pruning keeps every past day's figures, and no page  *)
(* is green for a monitor whose newest check failed, for any number of     *)
(* monitors, any length of a day, any retention and any windows.           *)
(***************************************************************************)
EXTENDS MCOperations, TLAPS, FiniteSetTheorems


\* Integer division by a positive number, spelled out for the provers.
LEMMA DivisionBounds ==
    ASSUME NEW g \in Nat, NEW p \in Nat \ {0}
    PROVE  /\ g \div p \in Nat
           /\ (g \div p) * p <= g
           /\ g < ((g \div p) + 1) * p
  OBVIOUS

\* A product grows with its first factor.
LEMMA ProductMonotone ==
    ASSUME NEW m \in Int, NEW n \in Int, NEW p \in Nat \ {0}, m <= n
    PROVE  m * p <= n * p
  OBVIOUS

\* The quotient is the only number with the bounds of DivisionBounds.
LEMMA DivisionUnique ==
    ASSUME NEW g \in Nat, NEW p \in Nat \ {0}, NEW q \in Nat,
           q * p <= g, g < (q + 1) * p
    PROVE  g \div p = q
<1> DEFINE d == g \div p
<1>1. d \in Nat /\ d * p <= g /\ g < (d + 1) * p
  BY DivisionBounds
<1> HIDE DEF d
<1>2. CASE d < q
  <2>1. d + 1 <= q
    BY <1>1, <1>2
  <2>2. (d + 1) * p <= q * p
    BY <1>1, <2>1, ProductMonotone
  <2> QED
    BY <1>1, <2>2
<1>3. CASE q < d
  <2>1. q + 1 <= d
    BY <1>1, <1>3
  <2>2. (q + 1) * p <= d * p
    BY <1>1, <2>1, ProductMonotone
  <2> QED
    BY <1>1, <2>2
<1>4. d = q
  BY <1>1, <1>2, <1>3
<1> QED
  BY <1>4 DEF d

\* _step_interval on a timedelta: "Smallest ``anchor + k*delta`` > ``after``".
\* The fire is after `after', it is a multiple of the period away from the
\* anchor, and no earlier multiple is after `after'.
THEOREM FixedStepIsSmallest ==
    ASSUME NEW anchor \in Nat, NEW period \in Nat \ {0}, NEW after \in Nat
    PROVE  LET fire == FixedStep(anchor, period, after)
           IN  /\ fire \in Nat /\ fire > after
               /\ \E k \in Nat : fire = anchor + k * period
               /\ \A k \in Nat : anchor + k * period > after => fire <= anchor + k * period
<1> DEFINE fire == FixedStep(anchor, period, after)
<1> SUFFICES /\ fire \in Nat /\ fire > after
             /\ \E k \in Nat : fire = anchor + k * period
             /\ \A k \in Nat : anchor + k * period > after => fire <= anchor + k * period
  OBVIOUS
<1>0. \A k \in Nat : k * period \in Nat
  OBVIOUS
<1>1. CASE after < anchor
  <2>1. fire = anchor
    BY <1>1 DEF FixedStep
  <2>2. fire = anchor + 0 * period
    BY <2>1
  <2> QED
    BY <2>1, <2>2, <1>1, <1>0
<1>2. CASE after >= anchor
  <2> DEFINE g == after - anchor
             q == g \div period
  <2>1. g \in Nat
    BY <1>2
  <2>2. q \in Nat /\ q * period <= g /\ g < (q + 1) * period
    BY <2>1, DivisionBounds
  <2>3. fire = anchor + (q + 1) * period
    BY <1>2 DEF FixedStep
  <2> HIDE DEF q
  <2>4. (q + 1) * period \in Nat
    BY <2>2, <1>0
  <2>5. fire \in Nat /\ fire > after
    BY <2>2, <2>3, <2>4
  <2>6. \E k \in Nat : fire = anchor + k * period
    BY <2>2, <2>3
  <2>7. ASSUME NEW k \in Nat, anchor + k * period > after
        PROVE  fire <= anchor + k * period
    <3>1. k * period \in Nat /\ k * period > g
      BY <1>0, <2>7
    <3>2. CASE k <= q
      <4>1. k * period <= q * period
        BY <3>2, <2>2, ProductMonotone
      <4> QED
        BY <4>1, <3>1, <2>2, <1>0
    <3>3. CASE k > q
      <4>1. q + 1 <= k
        BY <3>3, <2>2
      <4>2. (q + 1) * period <= k * period
        BY <4>1, <2>2, ProductMonotone
      <4> QED
        BY <4>2, <2>3, <2>4, <3>1
    <3> QED
      BY <3>2, <3>3, <2>2
  <2> QED
    BY <2>5, <2>6, <2>7
<1> QED
  BY <1>1, <1>2

\* A fixed interval.
Fixed(period, anchor) ==
    [type |-> "interval", delta |-> [unit |-> "fixed", n |-> period], anchor |-> anchor]

\* next_run and missed_periods compute separately what a late tick jumps over.
\* They agree: the cursor moves on by exactly the missed periods and one more.
THEOREM MissedFitsNext ==
    ASSUME NEW anchor \in Nat, NEW period \in Nat \ {0}, NEW k \in Nat,
           NEW t \in Nat, anchor + k * period <= t
    PROVE  LET due == anchor + k * period
               s   == Fixed(period, anchor)
           IN  NextRun(s, t) = due + (MissedPeriods(s, due, t) + 1) * period
<1> DEFINE due == anchor + k * period
           s   == Fixed(period, anchor)
           g   == t - due
           q   == g \div period
<1>0. k * period \in Nat /\ due \in Nat /\ g \in Nat
  OBVIOUS
<1>1. q \in Nat /\ q * period <= g /\ g < (q + 1) * period
  BY <1>0, DivisionBounds
<1>2. MissedPeriods(s, due, t) = q
  <2>1. CASE t = due
    <3>1. g = 0
      BY <2>1, <1>0
    <3>2. q = 0
      BY <3>1, <1>1, DivisionUnique
    <3> QED
      BY <2>1, <3>2, <1>0 DEF MissedPeriods
  <2>2. CASE t # due
    BY <2>2, <1>0 DEF MissedPeriods, Fixed
  <2> QED
    BY <2>1, <2>2
<1>3. NextRun(s, t) = FixedStep(anchor, period, t)
  BY DEF NextRun, StepInterval, Fixed, NoTime
<1>4. t - anchor \in Nat /\ t - anchor = g + k * period
  BY <1>0
<1> HIDE DEF q
<1>5. (k + q) * period = k * period + q * period
      /\ (k + q + 1) * period = k * period + (q + 1) * period
  BY <1>1
<1>6. (t - anchor) \div period = k + q
  <2>1. k + q \in Nat
    BY <1>1
  <2>2. (k + q) * period <= t - anchor /\ t - anchor < (k + q + 1) * period
    BY <1>0, <1>1, <1>4, <1>5
  <2> HIDE DEF g
  <2> QED
    BY <2>1, <2>2, <1>4, DivisionUnique
<1>7. NextRun(s, t) = anchor + (k + q + 1) * period
  BY <1>3, <1>4, <1>6 DEF FixedStep
<1>8. NextRun(s, t) = due + (q + 1) * period
  BY <1>0, <1>1, <1>5, <1>7
<1> QED
  BY <1>2, <1>8

\* The schedules whose next fire is found without a walk.
Walkless ==
    [type : {"once"}, at : Nat]
      \cup [type : {"cron"}, cron : [every : Nat \ {0}, phase : Nat]]
      \cup [type : {"interval"}, delta : [unit : {"fixed"}, n : Nat \ {0}],
            anchor : Nat \cup {NoTime}]

\* next_run: "the next fire time strictly after ``after``", or None.
LEMMA NextRunStrictlyAfter ==
    ASSUME NEW s \in Walkless, NEW after \in Nat
    PROVE  \/ NextRun(s, after) = NoTime
           \/ NextRun(s, after) \in Nat /\ NextRun(s, after) > after
<1>1. CASE s \in [type : {"once"}, at : Nat]
  BY <1>1 DEF NextRun
<1>2. CASE s \in [type : {"cron"}, cron : [every : Nat \ {0}, phase : Nat]]
  <2> DEFINE r == (s.cron.phase - (after + 1)) % s.cron.every
  <2>1. r \in Nat
    BY <1>2
  <2>2. NextRun(s, after) = after + 1 + r
    BY <1>2 DEF NextRun, CronNext
  <2> HIDE DEF r
  <2> QED
    BY <2>1, <2>2
<1>3. CASE s \in [type : {"interval"}, delta : [unit : {"fixed"}, n : Nat \ {0}],
                  anchor : Nat \cup {NoTime}]
  <2> DEFINE from == IF s.anchor = NoTime THEN after ELSE s.anchor
  <2>1. from \in Nat /\ s.delta.n \in Nat \ {0}
    BY <1>3
  <2>2. NextRun(s, after) = FixedStep(from, s.delta.n, after)
    BY <1>3 DEF NextRun, StepInterval
  <2> HIDE DEF from
  <2>3. FixedStep(from, s.delta.n, after) \in Nat /\ FixedStep(from, s.delta.n, after) > after
    BY <2>1, FixedStepIsSmallest
  <2> QED
    BY <2>2, <2>3
<1> QED
  BY <1>1, <1>2, <1>3 DEF Walkless


\* A tick never leaves the cursor where the same tick would find the schedule
\* due again, for any schedule but a calendar interval.
THEOREM CursorAlwaysAhead == Spec /\ sched \in Walkless => []StrictlyAfter
<1> DEFINE Inv == /\ sched \in Walkless /\ now \in 0..MaxTime
                  /\ next = NoTime \/ next \in Nat
                  /\ StrictlyAfter
<1>1. Init /\ sched \in Walkless => Inv
  BY MaxTimeAssumption, NextRunStrictlyAfter DEF Init, StrictlyAfter
<1>2. Inv /\ [Next]_vars => Inv'
  <2> SUFFICES ASSUME Inv, [Next]_vars PROVE Inv'
    OBVIOUS
  <2>1. CASE Next
    <3>1. PICK t \in 0..MaxTime : Tick(t)
      BY <2>1 DEF Next
    <3>2. sched' = sched /\ now' = t /\ next' = NextRun(sched, t) /\ t \in Nat
      BY <3>1, MaxTimeAssumption DEF Tick
    <3>3. next' = NoTime \/ (next' \in Nat /\ next' > t)
      BY <3>2, NextRunStrictlyAfter
    <3> QED
      BY <3>2, <3>3 DEF StrictlyAfter
  <2>2. CASE UNCHANGED vars
    BY <2>2 DEF vars, StrictlyAfter
  <2> QED
    BY <2>1, <2>2
<1>3. Inv => StrictlyAfter
  OBVIOUS
<1> QED
  BY <1>1, <1>2, <1>3, PTL DEF Spec

----------------------------------------------------------------------------
(* The whole cursor.                                                       *)

\* A set of natural numbers has a least element, and a greatest one if it is bounded.
LEMMA LeastExists ==
    ASSUME NEW S \in SUBSET Nat, S # {}
    PROVE  \E x \in S : \A y \in S : x <= y
<1> DEFINE R == {ss \in Nat \X Nat : ss[1] < ss[2]}
<1>1. IsWellFoundedOn(R, Nat)
  BY NatLessThanWellFounded DEF OpToRel
<1>2. PICK x \in S : \A y \in S : <<y, x>> \notin R
  <2> HIDE DEF R
  <2> QED BY <1>1, WFMin
<1>3. \A y \in S : x <= y
  <2> TAKE y \in S
  <2>1. x \in Nat /\ y \in Nat
    OBVIOUS
  <2>2. y < x => <<y, x>> \in R
    BY <2>1
  <2> QED BY <1>2, <2>1, <2>2
<1> QED BY <1>3

LEMMA GreatestExists ==
    ASSUME NEW S \in SUBSET Nat, S # {}, NEW n \in Nat, \A x \in S : x <= n
    PROVE  \E x \in S : \A y \in S : x >= y
<1> DEFINE T == {n - x : x \in S}
<1>1. T \in SUBSET Nat /\ T # {}
  <2>1. \A x \in S : n - x \in Nat
    OBVIOUS
  <2>2. PICK x \in S : TRUE
    OBVIOUS
  <2>3. n - x \in T
    BY <2>2
  <2> QED BY <2>1, <2>3
<1>2. PICK t \in T : \A u \in T : t <= u
  BY <1>1, LeastExists
<1>3. PICK x \in S : t = n - x
  BY <1>2
<1>4. ASSUME NEW y \in S PROVE x >= y
  <2>1. n - y \in T
    BY <1>4
  <2>2. n - x <= n - y
    BY <1>2, <1>3, <2>1
  <2> QED BY <2>2
<1> QED BY <1>3, <1>4

\* A multiple of a period.
Multiple(n, x) == \E k \in Int : x = k * n

\* The only multiple nearer to zero than the period is zero.
LEMMA SmallMultiple ==
    ASSUME NEW k \in Int, NEW n \in Nat \ {0}, k * n < n, 0 - n < k * n
    PROVE  k = 0
<1>1. CASE k >= 1
  <2>1. 1 * n <= k * n
    BY <1>1, ProductMonotone
  <2> QED BY <2>1
<1>2. CASE k <= -1
  <2>1. k * n <= (-1) * n
    BY <1>2, ProductMonotone
  <2>2. (-1) * n = 0 - n /\ k * n \in Int
    OBVIOUS
  <2> QED BY <2>1, <2>2
<1> QED BY <1>1, <1>2

LEMMA Remainder ==
    ASSUME NEW x \in Int, NEW n \in Nat \ {0}
    PROVE  /\ x % n \in Nat /\ x % n < n
           /\ \E q \in Int : x = q * n + (x % n)
<1>1. x % n \in Nat /\ x % n < n
  OBVIOUS
<1>2. x \div n \in Int /\ x = (x \div n) * n + (x % n)
  OBVIOUS
<1> QED BY <1>1, <1>2

\* Multiples add up and differ by multiples.
LEMMA MultiplesCombine ==
    ASSUME NEW n \in Nat \ {0}, NEW x \in Int, NEW y \in Int, Multiple(n, x), Multiple(n, y)
    PROVE  Multiple(n, x - y) /\ Multiple(n, x + y)
<1>1. PICK j \in Int : x = j * n
  BY DEF Multiple
<1>2. PICK k \in Int : y = k * n
  BY DEF Multiple
<1>3. x - y = (j - k) * n /\ x + y = (j + k) * n
  BY <1>1, <1>2
<1>4. j - k \in Int /\ j + k \in Int
  OBVIOUS
<1> QED BY <1>3, <1>4 DEF Multiple

\* Two numbers with the same remainder differ by a multiple.
LEMMA SameRemainder ==
    ASSUME NEW n \in Nat \ {0}, NEW x \in Int, NEW y \in Int
    PROVE  (x % n = y % n) <=> Multiple(n, x - y)
<1>1. PICK q \in Int : x = q * n + (x % n)
  BY Remainder
<1>2. PICK p \in Int : y = p * n + (y % n)
  BY Remainder
<1> DEFINE r == x % n
           s == y % n
<1>3. r \in Nat /\ r < n /\ s \in Nat /\ s < n /\ x = q * n + r /\ y = p * n + s
  BY <1>1, <1>2, Remainder
<1> HIDE DEF r, s
<1>4. q * n \in Int /\ p * n \in Int /\ q * n - p * n = (q - p) * n
  OBVIOUS
<1>5. ASSUME r = s PROVE Multiple(n, x - y)
  <2>1. x - y = (q - p) * n /\ q - p \in Int
    BY <1>3, <1>4, <1>5
  <2> QED BY <2>1 DEF Multiple
<1>6. ASSUME Multiple(n, x - y) PROVE r = s
  <2>1. PICK k \in Int : x - y = k * n
    BY <1>6 DEF Multiple
  <2>2. (k - (q - p)) * n = k * n - (q - p) * n /\ k * n \in Int
    OBVIOUS
  <2>3. (k - (q - p)) * n = r - s
    BY <1>3, <1>4, <2>1, <2>2
  <2>4. k - (q - p) = 0
    <3>1. k - (q - p) \in Int
      OBVIOUS
    <3>2. r - s < n /\ 0 - n < r - s
      BY <1>3
    <3> QED BY <2>3, <3>1, <3>2, SmallMultiple
  <2>5. 0 * n = 0
    OBVIOUS
  <2>6. r - s = 0
    BY <2>3, <2>4, <2>5
  <2> QED BY <1>3, <2>6
<1> QED BY <1>5, <1>6 DEF r, s

\* The instants a schedule that recurs names.
Step(s) == IF s.type = "cron" THEN s.cron.every ELSE s.delta.n
Base(s) == IF s.type = "cron" THEN s.cron.phase ELSE s.anchor
From(s) == IF s.type = "cron" THEN 0 ELSE s.anchor
Recurring == {s \in Walkless : s.type = "cron" \/ (s.type = "interval" /\ s.anchor # NoTime)}
Named(s, t) == t \in Nat /\ t >= From(s) /\ Multiple(Step(s), t - Base(s))

LEMMA RecurringTyped ==
    ASSUME NEW s \in Recurring
    PROVE  Step(s) \in Nat \ {0} /\ Base(s) \in Nat /\ From(s) \in Nat
BY DEF Recurring, Walkless, Step, Base, From

\* Every named instant between two is a whole number of periods from either.
LEMMA NamedApart ==
    ASSUME NEW s \in Recurring, NEW a, NEW b, Named(s, a), Named(s, b)
    PROVE  Multiple(Step(s), b - a)
<1>1. Step(s) \in Nat \ {0} /\ Base(s) \in Nat /\ a \in Nat /\ b \in Nat
  BY RecurringTyped DEF Named
<1>2. Multiple(Step(s), a - Base(s)) /\ Multiple(Step(s), b - Base(s))
  BY DEF Named
<1>3. a - Base(s) \in Int /\ b - Base(s) \in Int
      /\ (b - Base(s)) - (a - Base(s)) = b - a
  BY <1>1
<1>4. Multiple(Step(s), (b - Base(s)) - (a - Base(s)))
  BY <1>1, <1>2, <1>3, MultiplesCombine
<1> QED BY <1>3, <1>4

\* _step_interval: "Smallest ``anchor + k*delta`` > ``after``", and cron's next match.
LEMMA NextIsNamed ==
    ASSUME NEW s \in Recurring, NEW after \in Nat
    PROVE  LET fire == NextRun(s, after)
           IN  /\ Named(s, fire) /\ fire > after
               /\ fire <= after + Step(s) \/ fire = From(s)
               /\ \A t : Named(s, t) /\ t > after => fire <= t
<1> DEFINE fire == NextRun(s, after)
           n == Step(s)
<1>0. n \in Nat \ {0} /\ Base(s) \in Nat /\ From(s) \in Nat
  BY RecurringTyped
<1>1. Named(s, fire) /\ fire > after /\ (fire <= after + n \/ fire = From(s))
  <2>1. CASE s.type = "cron"
    <3> DEFINE c == s.cron
               x == c.phase - (after + 1)
    <3>1. fire = after + 1 + (x % c.every) /\ n = c.every /\ Base(s) = c.phase /\ From(s) = 0
      BY <2>1 DEF NextRun, CronNext, Step, Base, From
    <3>2. x \in Int
      BY <1>0, <3>1
    <3> DEFINE r == x % n
    <3>3. PICK q \in Int : x = q * n + r
      BY <1>0, <3>2, Remainder
    <3>4. r \in Nat /\ r < n
      BY <1>0, <3>2, Remainder
    <3> HIDE DEF r
    <3>5. fire = after + 1 + r
      BY <3>1 DEF r
    <3>6. fire - c.phase = r - x
      BY <1>0, <3>1, <3>2, <3>4, <3>5
    <3>7. r - x = (0 - q) * n /\ 0 - q \in Int
      <4>1. (0 - q) * n = 0 - q * n /\ q * n \in Int
        BY <1>0
      <4> QED BY <3>3, <3>4, <4>1
    <3>8. Multiple(n, fire - Base(s))
      BY <3>1, <3>6, <3>7 DEF Multiple
    <3> HIDE DEF fire, n
    <3> QED BY <1>0, <3>1, <3>4, <3>5, <3>8 DEF Named, n
  <2>2. CASE s.type = "interval"
    <3> DEFINE a == s.anchor
    <3>1. a \in Nat /\ n = s.delta.n /\ Base(s) = a /\ From(s) = a /\ s.delta.unit = "fixed"
      BY <2>2 DEF Recurring, Walkless, NoTime, Step, Base, From
    <3>2. fire = FixedStep(a, n, after)
      BY <2>2, <3>1 DEF NextRun, StepInterval, NoTime
    <3> HIDE DEF fire, n, a
    <3>3. fire \in Nat /\ fire > after /\ \E k \in Nat : fire = a + k * n
      <4> DEFINE f == FixedStep(a, n, after)
      <4>1. f \in Nat /\ f > after /\ \E k \in Nat : f = a + k * n
        <5>1. a \in Nat /\ n \in Nat \ {0}
          BY <1>0, <3>1
        <5> QED BY <5>1, FixedStepIsSmallest, ZenonT(60)
      <4> HIDE DEF f
      <4>2. fire = f
        BY <3>2 DEF f
      <4> QED BY <4>1, <4>2
    <3>4. PICK k \in Nat : fire = a + k * n
      BY <3>3
    <3>5. k * n \in Nat
      BY <1>0
    <3>6. fire >= a /\ fire - a = k * n
      BY <3>1, <3>4, <3>5
    <3>7. fire <= after + n \/ fire = a
      <4>1. CASE after - a < 0
        BY <3>2, <4>1 DEF FixedStep
      <4>2. CASE after - a >= 0
        <5> DEFINE g == after - a
                   q == g \div n
        <5>1. g \in Nat /\ after = a + g
          BY <3>1, <4>2
        <5>2. fire = a + (q + 1) * n
          BY <3>1, <3>2, <4>2 DEF FixedStep
        <5>3. q \in Nat /\ q * n <= g
          BY <1>0, <5>1, DivisionBounds
        <5> HIDE DEF q, g
        <5>4. (q + 1) * n = q * n + n /\ q * n \in Nat
          BY <1>0, <5>3
        <5> QED BY <1>0, <3>1, <5>1, <5>2, <5>3, <5>4
      <4> QED BY <3>1, <4>1, <4>2
    <3>8. Multiple(n, fire - Base(s))
      BY <3>1, <3>6 DEF Multiple
    <3> QED BY <3>1, <3>3, <3>6, <3>7, <3>8 DEF Named, n
  <2> QED BY <2>1, <2>2 DEF Recurring
<1>2. ASSUME NEW t, Named(s, t), t > after, t < fire PROVE FALSE
  <2>1. Multiple(n, fire - t) /\ t \in Nat /\ fire \in Nat
    BY <1>1, <1>2, NamedApart DEF Named
  <2>2. PICK k \in Int : fire - t = k * n
    BY <2>1 DEF Multiple
  <2>3. CASE fire <= after + n
    <3>1. k * n < n /\ 0 - n < k * n
      <4> HIDE DEF fire, n
      <4> QED BY <1>0, <1>2, <2>1, <2>2, <2>3
    <3>2. k = 0
      BY <1>0, <3>1, SmallMultiple
    <3>3. fire - t = 0
      <4> HIDE DEF fire, n
      <4> QED BY <1>0, <2>2, <3>2
    <3> HIDE DEF fire
    <3> QED BY <1>2, <2>1, <3>3
  <2>4. CASE fire = From(s)
    BY <1>2, <2>1, <2>4 DEF Named
  <2> QED BY <1>1, <2>3, <2>4
<1> HIDE DEF fire, n
<1>3. \A t : Named(s, t) /\ t > after => fire <= t
  <2> SUFFICES ASSUME NEW t, Named(s, t), t > after PROVE fire <= t
    OBVIOUS
  <2>1. t \in Nat /\ fire \in Nat
    BY <1>1 DEF Named
  <2> QED BY <1>2, <2>1
<1> QED BY <1>1, <1>3 DEF fire, n

\* The walk of missed_periods over a cron from one of its matches takes one period a step.
LEMMA CronWalk ==
    ASSUME NEW c, c.every \in Nat \ {0}, c.phase \in Nat, NEW due \in Nat,
           Multiple(c.every, due - c.phase), NEW w,
           w = CHOOSE f : f = [i \in 0..MaxSteps |-> IF i = 0 THEN due ELSE CronNext(c, f[i - 1])]
    PROVE  \A i \in 0..MaxSteps : w[i] = due + i * c.every
<1> DEFINE n == c.every
           g == [i \in 0..MaxSteps |-> due + i * n]
<1>0. n \in Nat \ {0} /\ MaxSteps \in Nat /\ \A i \in Nat : i * n \in Nat
  BY CalendarAssumption
<1>1. ASSUME NEW x \in Nat, Multiple(n, x - c.phase)
      PROVE  CronNext(c, x) = x + n
  <2> DEFINE s == [type |-> "cron", cron |-> [every |-> n, phase |-> c.phase]]
             fire == NextRun(s, x)
  <2>1. s \in Recurring
    BY <1>0 DEF Recurring, Walkless
  <2>2. Step(s) = n /\ Base(s) = c.phase /\ From(s) = 0 /\ fire = CronNext(c, x)
    BY DEF Step, Base, From, NextRun, CronNext
  <2> HIDE DEF s, fire
  <2>3. Named(s, fire) /\ fire > x /\ (fire <= x + n \/ fire = 0)
    BY <1>1, <2>1, <2>2, NextIsNamed DEF fire
  <2>4. Named(s, x)
    BY <1>0, <1>1, <2>2 DEF Named
  <2>5. Multiple(n, fire - x)
    BY <2>1, <2>2, <2>3, <2>4, NamedApart
  <2>6. PICK k \in Int : fire - x = k * n
    BY <2>5 DEF Multiple
  <2>7. fire \in Nat /\ fire > x /\ fire <= x + n
    BY <2>3, <1>1 DEF Named
  <2> HIDE DEF n
  <2>8. (k - 1) * n = k * n - n /\ k * n \in Int /\ k - 1 \in Int
    BY <1>0
  <2>9. (k - 1) * n < n /\ 0 - n < (k - 1) * n
    BY <1>0, <1>1, <2>6, <2>7, <2>8
  <2>10. k - 1 = 0
    BY <1>0, <2>8, <2>9, SmallMultiple
  <2>11. (k - 1) * n = 0
    BY <1>0, <2>10
  <2> QED BY <1>0, <1>1, <2>2, <2>6, <2>7, <2>8, <2>11
<1>2. \A i \in Nat : Multiple(n, (due + i * n) - c.phase) /\ due + i * n \in Nat
  <2> SUFFICES ASSUME NEW i \in Nat
      PROVE  Multiple(n, (due + i * n) - c.phase) /\ due + i * n \in Nat
    OBVIOUS
  <2> HIDE DEF n
  <2>1. i * n \in Nat /\ Multiple(n, i * n)
    BY <1>0 DEF Multiple
  <2>2. Multiple(n, (due - c.phase) + i * n)
    <3>1. Multiple(n, due - c.phase)
      BY DEF n
    <3>2. due - c.phase \in Int /\ i * n \in Int
      BY <2>1
    <3> QED BY <1>0, <2>1, <3>1, <3>2, MultiplesCombine
  <2>3. (due - c.phase) + i * n = (due + i * n) - c.phase
    BY <2>1
  <2> QED BY <2>1, <2>2, <2>3
<1>3. \A i \in 0..MaxSteps : i # 0 => CronNext(c, due + (i - 1) * n) = due + i * n
  <2> SUFFICES ASSUME NEW i \in 1..MaxSteps
      PROVE  CronNext(c, due + (i - 1) * n) = due + i * n
    BY <1>0
  <2>1. i - 1 \in Nat
    BY <1>0
  <2> HIDE DEF n
  <2>2. (i - 1) * n = i * n - n /\ i * n \in Int
    BY <1>0
  <2>3. CronNext(c, due + (i - 1) * n) = (due + (i - 1) * n) + n
    BY <1>1, <1>2, <2>1
  <2> QED BY <1>0, <2>2, <2>3
<1>4. g = [i \in 0..MaxSteps |-> IF i = 0 THEN due ELSE CronNext(c, g[i - 1])]
  <2> SUFFICES ASSUME NEW i \in 0..MaxSteps
               PROVE  g[i] = IF i = 0 THEN due ELSE CronNext(c, g[i - 1])
    OBVIOUS
  <2>1. g[i] = due + i * n
    OBVIOUS
  <2>2. CASE i = 0
    <3>1. i * n = 0
      BY <1>0, <2>2
    <3> QED BY <2>1, <2>2, <3>1
  <2>3. CASE i # 0
    <3>1. i - 1 \in 0..MaxSteps
      BY <1>0, <2>3
    <3>2. g[i - 1] = due + (i - 1) * n
      BY <3>1
    <3> HIDE DEF g, n
    <3> QED BY <1>3, <2>1, <2>3, <3>2
  <2> QED BY <2>2, <2>3
<1>5. w = [i \in 0..MaxSteps |-> IF i = 0 THEN due ELSE CronNext(c, w[i - 1])]
  <2> HIDE DEF g
  <2> QED BY <1>4
<1>6. \A i \in 0..MaxSteps : w[i] = IF i = 0 THEN due ELSE CronNext(c, w[i - 1])
  BY <1>5
<1> DEFINE Wrong == {i \in 0..MaxSteps : w[i] # due + i * n}
<1>7. Wrong = {}
  <2> SUFFICES ASSUME Wrong # {} PROVE FALSE
    OBVIOUS
  <2>1. Wrong \in SUBSET Nat
    BY <1>0
  <2>2. PICK i \in Wrong : \A j \in Wrong : i <= j
    BY <2>1, LeastExists
  <2>3. i \in 0..MaxSteps /\ w[i] # due + i * n /\ i \in Nat
    BY <2>1, <2>2
  <2>4. CASE i = 0
    <3>1. i * n = 0
      BY <1>0, <2>4
    <3> QED BY <1>6, <2>3, <2>4, <3>1
  <2>5. CASE i # 0
    <3>1. i - 1 \in 0..MaxSteps /\ i - 1 < i
      BY <1>0, <2>3, <2>5
    <3>2. i - 1 \notin Wrong
      <4> HIDE DEF Wrong
      <4> QED BY <2>1, <2>2, <2>3, <3>1
    <3>3. w[i - 1] = due + (i - 1) * n
      BY <3>1, <3>2
    <3> HIDE DEF n, Wrong
    <3> QED BY <1>3, <1>6, <2>3, <2>5, <3>3
  <2> QED BY <2>4, <2>5
<1> HIDE DEF n
<1>8. QED BY <1>7 DEF n

\* A late tick's missed periods are the whole periods since the due time.
LEMMA MissedAre ==
    ASSUME NEW s \in Recurring, NEW due, Named(s, due), NEW t \in Nat, due <= t, t < MaxSteps
    PROVE  MissedPeriods(s, due, t) = (t - due) \div Step(s)
<1> DEFINE n == Step(s)
           g == t - due
           q == g \div n
<1>0. n \in Nat \ {0} /\ due \in Nat /\ g \in Nat /\ MaxSteps \in Nat
  BY RecurringTyped, CalendarAssumption DEF Named
<1>1. q \in Nat /\ q * n <= g /\ g < (q + 1) * n
  BY <1>0, DivisionBounds
<1>2. CASE t = due
  <2>1. g = 0
    BY <1>0, <1>2
  <2> HIDE DEF g, n
  <2>2. 0 * n <= g /\ g < (0 + 1) * n
    BY <1>0, <2>1
  <2>3. q = 0
    BY <1>0, <2>2, DivisionUnique
  <2>4. MissedPeriods(s, due, t) = 0
    BY <1>0, <1>2 DEF MissedPeriods
  <2> QED BY <2>3, <2>4 DEF g, n
<1>3. CASE t > due /\ s.type = "interval"
  <2>1. s.delta.unit = "fixed" /\ n = s.delta.n
    BY <1>3 DEF Recurring, Walkless, Step
  <2>2. ~(t <= due)
    BY <1>0, <1>3
  <2>3. MissedPeriods(s, due, t) = g \div s.delta.n
    BY <1>3, <2>1, <2>2 DEF MissedPeriods
  <2> QED BY <2>1, <2>3
<1>4. CASE t > due /\ s.type = "cron"
  <2> DEFINE c == s.cron
             w == CHOOSE f : f = [i \in 0..MaxSteps |-> IF i = 0 THEN due ELSE CronNext(c, f[i - 1])]
             Past(i) == w[i] > t /\ \A j \in 1..(i - 1) : w[j] <= t
  <2>1. n = c.every /\ c.every \in Nat \ {0} /\ c.phase \in Nat /\ Multiple(c.every, due - c.phase)
    BY <1>0, <1>4, RecurringTyped DEF Recurring, Walkless, Step, Base, Named
  <2>2. \A i \in 0..MaxSteps : w[i] = due + i * n
    <3> HIDE DEF c, n
    <3>1. \A i \in 0..MaxSteps : w[i] = due + i * c.every
      <4> DEFINE v == w
      <4>1. v = CHOOSE f : f = [i \in 0..MaxSteps |-> IF i = 0 THEN due ELSE CronNext(c, f[i - 1])]
        OBVIOUS
      <4> HIDE DEF v
      <4>2. \A i \in 0..MaxSteps : v[i] = due + i * c.every
        BY <1>0, <2>1, <4>1, CronWalk
      <4> QED BY <4>2 DEF v
    <3> QED BY <2>1, <3>1
  <2>3. ~(t <= due)
    BY <1>0, <1>4
  <2>4. MissedPeriods(s, due, t) = (CHOOSE i \in 1..MaxSteps : Past(i)) - 1
    BY <1>4, <2>3 DEF MissedPeriods
  <2> HIDE DEF w, n
  <2>5. q + 1 \in 1..MaxSteps
    <3>1. q * 1 <= q * n
      BY <1>0, <1>1
    <3>2. q * n \in Nat /\ g < MaxSteps
      BY <1>0, <1>1
    <3> HIDE DEF q, g
    <3>3. q <= g
      BY <1>0, <1>1, <3>1, <3>2
    <3> QED BY <1>0, <1>1, <3>2, <3>3
  <2>6. Past(q + 1)
    <3> HIDE DEF q
    <3>1. w[q + 1] = due + (q + 1) * n /\ (q + 1) * n \in Nat
      BY <1>0, <1>1, <2>2, <2>5
    <3>2. w[q + 1] > t
      BY <1>0, <1>1, <3>1
    <3>3. ASSUME NEW j \in 1..((q + 1) - 1) PROVE w[j] <= t
      <4>1. j \in 0..MaxSteps /\ j <= q /\ j \in Nat
        BY <1>0, <1>1, <2>5
      <4>2. j * n <= q * n /\ j * n \in Nat /\ q * n \in Nat
        BY <1>0, <1>1, <4>1, ProductMonotone
      <4> QED BY <1>0, <1>1, <2>2, <4>1, <4>2
    <3> QED BY <3>2, <3>3
  <2>7. ASSUME NEW i \in 1..MaxSteps, Past(i) PROVE i = q + 1
    <3>1. i \in 0..MaxSteps /\ i - 1 \in Nat /\ i \in Nat
      BY <1>0
    <3>2. i * n \in Nat /\ (i - 1) * n \in Nat
      BY <1>0, <3>1
    <3>3. g < i * n
      <4>1. w[i] = due + i * n /\ w[i] > t
        BY <2>2, <2>7, <3>1
      <4> QED BY <1>0, <3>2, <4>1
    <3>4. (i - 1) * n <= g
      <4>1. CASE i = 1
        <5>1. (i - 1) * n = 0
          BY <1>0, <4>1
        <5> QED BY <1>0, <5>1
      <4>2. CASE i # 1
        <5>1. i - 1 \in 1..(i - 1) /\ i - 1 \in 0..MaxSteps
          BY <1>0, <3>1, <4>2
        <5>2. w[i - 1] <= t /\ w[i - 1] = due + (i - 1) * n
          BY <2>2, <2>7, <5>1
        <5> QED BY <1>0, <3>2, <5>2
      <4> QED BY <4>1, <4>2
    <3>5. (i - 1) + 1 = i
      BY <3>1
    <3>6. q = i - 1
      <4> HIDE DEF g
      <4> QED BY <1>0, <3>1, <3>3, <3>4, <3>5, DivisionUnique
    <3> HIDE DEF q
    <3> QED BY <3>1, <3>6
  <2>8. (CHOOSE i \in 1..MaxSteps : Past(i)) = q + 1
    <3> HIDE DEF Past, q
    <3> QED BY <2>5, <2>6, <2>7
  <2> DEFINE first == CHOOSE i \in 1..MaxSteps : Past(i)
  <2>9. MissedPeriods(s, due, t) = first - 1 /\ first = q + 1
    BY <2>4, <2>8
  <2> HIDE DEF first, q
  <2>10. MissedPeriods(s, due, t) = q
    BY <1>1, <2>9
  <2> QED BY <2>10 DEF q, n
<1>5. t = due \/ t > due
  BY <1>0
<1> QED BY <1>2, <1>3, <1>4, <1>5 DEF Recurring

\* A progression has as many members as it has steps.
Progression(a, n, q) == {a + i * n : i \in 1..q}

LEMMA CountOfSteps ==
    ASSUME NEW a \in Int, NEW n \in Nat \ {0}, NEW q \in Nat
    PROVE  Cardinality(Progression(a, n, q)) = q
<1> DEFINE f == [i \in 1..q |-> a + i * n]
           T == Progression(a, n, q)
<1>1. f \in [1..q -> T] /\ \A t \in T : \E i \in 1..q : f[i] = t
  BY DEF Progression
<1>2. ASSUME NEW i \in 1..q, NEW j \in 1..q, f[i] = f[j] PROVE i = j
  <2>1. a + i * n = a + j * n
    BY <1>2
  <2>2. i * n \in Int /\ j * n \in Int /\ (i - j) * n = i * n - j * n /\ i - j \in Int
    OBVIOUS
  <2>3. (i - j) * n = 0
    BY <2>1, <2>2
  <2>4. i - j = 0
    <3>1. (i - j) * n < n /\ 0 - n < (i - j) * n
      BY <2>3
    <3> QED BY <2>2, <3>1, SmallMultiple
  <2> QED BY <2>4
<1> HIDE DEF f, T
<1>3. f \in Bijection(1..q, T)
  BY <1>1, <1>2 DEF Bijection, Injection, Surjection, IsInjective
<1>4. ExistsBijection(1..q, T)
  BY <1>3 DEF ExistsBijection
<1>5. IsFiniteSet(1..q) /\ Cardinality(1..q) = q
  BY FS_Interval
<1> QED BY <1>4, <1>5, FS_Bijection DEF T

\* Within the horizon of the reference definitions: no period is longer than the clock
\* runs, and no anchor lies beyond the instants looked at.
WithinHorizon ==
    {s \in Walkless : \/ s.type = "once"
                      \/ /\ s.type = "cron" /\ s.cron.every <= MaxTime
                      \/ /\ s.type = "interval" /\ s.delta.n <= MaxTime
                         /\ s.anchor <= 2 * MaxTime}

\* The grid of the reference definition is the named instants.
LEMMA GridIs ==
    ASSUME sched \in Recurring, NEW t \in Instants
    PROVE  t \in Grid <=> Named(sched, t)
<1> DEFINE n == Step(sched)
           b == Base(sched)
<1>1. n \in Nat \ {0} /\ b \in Nat /\ From(sched) \in Nat /\ t \in Nat
  BY RecurringTyped, MaxTimeAssumption DEF Instants
<1>2. CASE sched.type = "cron"
  <2>1. n = sched.cron.every /\ b = sched.cron.phase /\ From(sched) = 0
    BY <1>2 DEF Step, Base, From
  <2>2. t \in Grid <=> t % n = b % n
    BY <1>2, <2>1 DEF Grid
  <2> HIDE DEF n, b
  <2>3. (t % n = b % n) <=> Multiple(n, t - b)
    <3>1. n \in Nat \ {0} /\ t \in Int /\ b \in Int
      BY <1>1 DEF n, b
    <3> QED BY <3>1, SameRemainder
  <2> QED BY <1>1, <2>1, <2>2, <2>3 DEF Named, n, b
<1>3. CASE sched.type = "interval"
  <2>1. n = sched.delta.n /\ b = sched.anchor /\ From(sched) = b /\ sched.delta.unit = "fixed"
    BY <1>3 DEF Recurring, Walkless, Step, Base, From
  <2>2. t \in Grid <=> t >= b /\ (t - b) % n = 0
    BY <1>3, <2>1 DEF Grid
  <2> HIDE DEF n, b
  <2>3. ((t - b) % n = 0 % n) <=> Multiple(n, (t - b) - 0)
    <3> DEFINE x == t - b
    <3>1. n \in Nat \ {0} /\ x \in Int /\ 0 \in Int
      BY <1>1 DEF n, b
    <3> HIDE DEF x
    <3>2. (x % n = 0 % n) <=> Multiple(n, x - 0)
      BY <3>1, SameRemainder
    <3> QED BY <3>2 DEF x
  <2>4. 0 % n = 0 /\ (t - b) - 0 = t - b
    BY <1>1
  <2> QED BY <1>1, <2>1, <2>2, <2>3, <2>4 DEF Named, n, b
<1> QED BY <1>2, <1>3 DEF Recurring

\* The cursor is where next_run puts it, and the last tick's count is missed_periods'.
CursorInv ==
    /\ sched \in Walkless /\ now \in 0..MaxTime /\ next = NextRun(sched, now)
    /\ prev = NoTime \/ (prev \in Nat /\ prev <= now)
    /\ prev # NoTime /\ Anchored => /\ missed = MissedPeriods(sched, prev, now)
                                    /\ sched \in Recurring => Named(sched, prev)

LEMMA CursorKeeps ==
    ASSUME CursorInv, [Next]_vars
    PROVE  CursorInv'
<1>1. CASE UNCHANGED vars
  BY <1>1 DEF vars, CursorInv, Anchored
<1>2. CASE Next
  <2>1. PICK t \in 0..MaxTime : Tick(t)
    BY <1>2 DEF Next
  <2>2. /\ sched' = sched /\ now' = t /\ next' = NextRun(sched, t) /\ prev' = next
        /\ missed' = MissedPeriods(sched, next, t) /\ next # NoTime /\ next <= t
    BY <2>1 DEF Tick
  <2>3. now \in Nat /\ sched \in Walkless /\ next = NextRun(sched, now)
    BY MaxTimeAssumption DEF CursorInv
  <2>4. next \in Nat
    BY <2>2, <2>3, NextRunStrictlyAfter
  <2>5. sched \in Recurring => Named(sched, next)
    BY <2>3, NextIsNamed
  <2> QED BY <2>1, <2>2, <2>4, <2>5 DEF CursorInv
<1> QED BY <1>1, <1>2

\* The cursor is on the very next named instant ...
LEMMA CursorOnGrid ==
    ASSUME sched \in WithinHorizon, CursorInv
    PROVE  OnTheGrid
<1>0. sched \in Walkless /\ now \in Nat /\ now <= MaxTime /\ MaxTime \in Nat /\ next = NextRun(sched, now)
  BY MaxTimeAssumption DEF CursorInv
<1>1. CASE sched.type = "once"
  <2>1. Grid = {sched.at} /\ sched.at \in Nat
    BY <1>0, <1>1 DEF Grid, Walkless
  <2>2. next = IF sched.at > now THEN sched.at ELSE NoTime
    BY <1>0, <1>1 DEF NextRun
  <2> QED BY <1>0, <2>1, <2>2 DEF OnTheGrid, NoTime
<1>2. CASE sched.type # "once" /\ Anchored
  <2>1. sched \in Recurring
    BY <1>0, <1>2 DEF Recurring, Anchored, Walkless
  <2>2. /\ Named(sched, next) /\ next > now
        /\ next <= now + Step(sched) \/ next = From(sched)
        /\ \A t : Named(sched, t) /\ t > now => next <= t
    BY <1>0, <2>1, NextIsNamed
  <2>3. Step(sched) <= MaxTime /\ From(sched) <= 2 * MaxTime /\ Step(sched) \in Nat /\ From(sched) \in Nat
    BY <1>0, <1>2, <2>1, RecurringTyped DEF WithinHorizon, Step, From
  <2>4. next \in Nat /\ next \in Instants
    BY <1>0, <2>2, <2>3 DEF Named, Instants
  <2>5. next \in Grid
    BY <2>1, <2>2, <2>4, GridIs
  <2>6. \A t \in Grid : t \in Instants
    BY <2>1 DEF Grid, Recurring, Walkless
  <2>7. \A t \in Grid : t > now => next <= t
    BY <2>1, <2>2, <2>6, GridIs
  <2>8. next # NoTime
    BY <2>4 DEF NoTime
  <2> QED BY <2>5, <2>7, <2>8 DEF OnTheGrid
<1> QED BY <1>1, <1>2 DEF OnTheGrid

\* ... and the instants jumped are the ones counted.
LEMMA CursorCounts ==
    ASSUME MaxTime < MaxSteps, CursorInv
    PROVE  MissedAreTheJumped
<1> SUFFICES ASSUME Anchored, prev # NoTime
             PROVE  missed = IF sched.type = "once" THEN 0
                             ELSE Cardinality({t \in Grid : prev < t /\ t <= now})
  BY DEF MissedAreTheJumped
<1>0. /\ sched \in Walkless /\ now \in Nat /\ now <= MaxTime /\ MaxTime \in Nat /\ MaxTime < MaxSteps
      /\ prev \in Nat /\ prev <= now /\ missed = MissedPeriods(sched, prev, now)
  BY MaxTimeAssumption DEF CursorInv
<1>1. CASE sched.type = "once"
  BY <1>0, <1>1 DEF MissedPeriods
<1>2. CASE sched.type # "once"
  <2> DEFINE n == Step(sched)
             g == now - prev
             q == g \div n
             T == {t \in Grid : prev < t /\ t <= now}
  <2>1. sched \in Recurring
    BY <1>0, <1>2 DEF Recurring, Anchored, Walkless
  <2>2. Named(sched, prev) /\ n \in Nat \ {0} /\ Base(sched) \in Nat
    BY <2>1, RecurringTyped DEF CursorInv
  <2>3. missed = q
    <3>1. now < MaxSteps
      BY <1>0, CalendarAssumption
    <3> QED BY <1>0, <2>1, <2>2, <3>1, MissedAre
  <2>4. g \in Nat /\ q \in Nat /\ q * n <= g /\ g < (q + 1) * n
    BY <1>0, <2>2, DivisionBounds
  <2> HIDE DEF q, g
  <2>5. ASSUME NEW t \in T PROVE \E i \in 1..q : t = prev + i * n
    <3>1. t \in Instants
      BY <2>1 DEF Grid, Recurring, Walkless
    <3>2. t \in Nat /\ Named(sched, t) /\ prev < t /\ t <= now
      BY <2>1, <3>1, GridIs, MaxTimeAssumption DEF Instants
    <3>3. PICK i \in Int : t - prev = i * n
      BY <2>1, <2>2, <3>2, NamedApart DEF Multiple
    <3> HIDE DEF n
    <3>4. i * n \in Int /\ i * n > 0 /\ i * n <= g
      BY <1>0, <2>2, <3>2, <3>3 DEF g
    <3>5. i >= 1
      <4>1. CASE i <= 0
        <5>1. i * n <= 0 * n /\ 0 * n = 0
          BY <2>2, <4>1, ProductMonotone
        <5> QED BY <3>4, <5>1
      <4> QED BY <4>1
    <3>6. i <= q
      <4>1. CASE q + 1 <= i
        <5>1. (q + 1) * n <= i * n /\ (q + 1) * n \in Int
          BY <2>2, <2>4, <4>1, ProductMonotone
        <5> QED BY <2>4, <3>4, <5>1
      <4> QED BY <2>4, <4>1
    <3>7. t = prev + i * n
      BY <1>0, <3>2, <3>3, <3>4
    <3> QED BY <2>4, <3>5, <3>6, <3>7
  <2>6. ASSUME NEW i \in 1..q PROVE prev + i * n \in T
    <3> DEFINE t == prev + i * n
    <3> HIDE DEF n
    <3>1. i \in Nat /\ i >= 1 /\ i <= q
      BY <2>4
    <3>2. i * n \in Nat /\ q * n \in Nat /\ i * n <= q * n /\ 1 * n <= i * n /\ 1 * n = n
      BY <2>2, <2>4, <3>1, ProductMonotone
    <3>3. t \in Nat /\ prev < t /\ t <= now /\ t \in Instants
      BY <1>0, <2>2, <2>4, <3>2 DEF g, Instants
    <3>4. Multiple(n, t - Base(sched))
      <4>1. Multiple(n, prev - Base(sched)) /\ Multiple(n, i * n)
        BY <2>2, <3>1 DEF Named, Multiple, n
      <4>2. prev - Base(sched) \in Int /\ i * n \in Int
        BY <1>0, <2>2, <3>2
      <4>3. Multiple(n, (prev - Base(sched)) + i * n)
        BY <2>2, <4>1, <4>2, MultiplesCombine
      <4>4. (prev - Base(sched)) + i * n = t - Base(sched)
        BY <1>0, <2>2, <3>2
      <4> QED BY <4>3, <4>4
    <3>5. t >= From(sched)
      <4>1. From(sched) \in Nat /\ prev >= From(sched)
        BY <2>1, <2>2, RecurringTyped DEF Named
      <4> HIDE DEF t
      <4> QED BY <1>0, <3>3, <4>1
    <3>6. Named(sched, t)
      BY <3>3, <3>4, <3>5 DEF Named, n
    <3>7. t \in Grid
      BY <2>1, <3>3, <3>6, GridIs
    <3> HIDE DEF t
    <3> QED BY <3>3, <3>7 DEF t
  <2>7. T = Progression(prev, n, q)
    <3> HIDE DEF T
    <3>1. T \subseteq Progression(prev, n, q)
      BY <2>5 DEF Progression
    <3> QED BY <2>6, <3>1 DEF Progression
  <2>8. Cardinality(T) = q
    <3> HIDE DEF T, n
    <3>1. prev \in Int /\ q \in Nat /\ n \in Nat \ {0}
      BY <1>0, <2>2, <2>4
    <3> QED BY <2>7, <3>1, CountOfSteps
  <2> QED BY <1>2, <2>3, <2>8
<1> QED BY <1>1, <1>2

\* After a tick that comes at any lateness the cursor is the very next instant a once, cron
\* or fixed-interval schedule names, and the periods reported missed are the ones jumped.
THEOREM CursorIsExact ==
    ASSUME MaxTime < MaxSteps
    PROVE  Spec /\ sched \in WithinHorizon => []CursorExact
<1> DEFINE Inv == CursorInv /\ sched \in WithinHorizon
<1>1. Init /\ sched \in WithinHorizon => Inv
  BY DEF Init, CursorInv, WithinHorizon
<1>2. Inv /\ [Next]_vars => Inv'
  <2> SUFFICES ASSUME Inv, [Next]_vars PROVE Inv'
    OBVIOUS
  <2>1. sched' = sched
    BY DEF Next, Tick, vars
  <2> QED BY <2>1, CursorKeeps
<1>3. Inv => CursorExact
  BY CursorOnGrid, CursorCounts DEF CursorExact
<1> QED BY <1>1, <1>2, <1>3, PTL DEF Spec

----------------------------------------------------------------------------
(* Monitoring: days and counts.                                            *)

\* The instance counts as the library does.
LEMMA CountsAlike == ASSUME NEW S PROVE Mon!Cardinality(S) = Cardinality(S)
BY DEF Cardinality, Mon!Cardinality

\* The lesser and the greater of two.
LEMMA MinOfTwo ==
    ASSUME NEW a \in Int, NEW b \in Int
    PROVE  Mon!Min({a, b}) \in {a, b} /\ Mon!Min({a, b}) <= a /\ Mon!Min({a, b}) <= b
<1>1. \E x \in {a, b} : \A y \in {a, b} : x <= y
  OBVIOUS
<1> QED BY <1>1 DEF Mon!Min

LEMMA MaxOfTwo ==
    ASSUME NEW a \in Int, NEW b \in Int
    PROVE  Mon!Max({a, b}) \in {a, b}
<1>1. \E x \in {a, b} : \A y \in {a, b} : x >= y
  OBVIOUS
<1> QED BY <1>1 DEF Mon!Max

\* The minutes of a day are those between its bounds.
LEMMA DayOf ==
    ASSUME NEW m \in Nat
    PROVE  /\ Mon!Day(m) \in Nat
           /\ \A d \in Nat : Mon!Day(m) = d <=> d * DayLen <= m /\ m < (d + 1) * DayLen
<1>1. m \div DayLen \in Nat /\ (m \div DayLen) * DayLen <= m /\ m < ((m \div DayLen) + 1) * DayLen
  BY MonitoringAssumption, DivisionBounds
<1>2. \A d \in Nat : d * DayLen <= m /\ m < (d + 1) * DayLen => m \div DayLen = d
  BY MonitoringAssumption, DivisionUnique
<1> QED BY <1>1, <1>2 DEF Mon!Day

\* A later minute is on no earlier day.
LEMMA DaysPass ==
    ASSUME NEW m \in Nat, NEW n \in Nat, m <= n
    PROVE  Mon!Day(m) <= Mon!Day(n)
<1> DEFINE a == Mon!Day(m)
           b == Mon!Day(n)
<1>1. a \in Nat /\ b \in Nat /\ a * DayLen <= m /\ n < (b + 1) * DayLen
  BY DayOf
<1> HIDE DEF a, b
<1>2. ASSUME b < a PROVE FALSE
  <2>1. (b + 1) * DayLen <= a * DayLen
    BY <1>1, <1>2, ProductMonotone, MonitoringAssumption
  <2>2. (b + 1) * DayLen \in Int /\ a * DayLen \in Int
    BY <1>1, MonitoringAssumption
  <2> QED BY <1>1, <2>1, <2>2
<1> QED BY <1>1, <1>2 DEF a, b

\* A minute older than the retention is on a day before today.
LEMMA OldIsPast ==
    ASSUME NEW m \in Nat, NEW c \in Nat, m < c - Retention * DayLen
    PROVE  Mon!Day(m) < Mon!Day(c)
<1> DEFINE a == Mon!Day(m)
           b == Mon!Day(c)
           keep == Retention * DayLen
<1>1. a \in Nat /\ b \in Nat /\ a * DayLen <= m /\ c < (b + 1) * DayLen
  BY DayOf
<1>2. keep \in Nat /\ keep >= DayLen
  BY MonitoringAssumption, ProductMonotone
<1>3. m < c - keep
  OBVIOUS
<1> HIDE DEF a, b, keep
<1>4. ASSUME b <= a PROVE FALSE
  <2>1. (b + 1) * DayLen <= (a + 1) * DayLen
    BY <1>1, <1>4, ProductMonotone, MonitoringAssumption
  <2>2. (a + 1) * DayLen = a * DayLen + DayLen /\ a * DayLen \in Int /\ (b + 1) * DayLen \in Int
    BY <1>1, MonitoringAssumption
  <2> QED BY <1>1, <1>2, <1>3, <2>1, <2>2, MonitoringAssumption
<1> QED BY <1>1, <1>4 DEF a, b

\* The day before today has ended by now.
LEMMA PastHasEnded ==
    ASSUME NEW c \in Nat, NEW d \in Nat, d < Mon!Day(c)
    PROVE  (d + 1) * DayLen <= c /\ (d + 1) * DayLen \in Nat
<1> DEFINE b == Mon!Day(c)
<1>1. b \in Nat /\ b * DayLen <= c /\ d + 1 <= b
  BY DayOf
<1> HIDE DEF b
<1> QED BY <1>1, ProductMonotone, MonitoringAssumption

----------------------------------------------------------------------------
(* Monitoring: what a day's figure is made of.                             *)

\* The excluded minutes of [from, to), and the checks expected on day d at minute c.
Excluded(ws, k, from, to) ==
    {m \in from .. (to - 1) : \E w \in {x \in ws : x.key = k} : w.sla /\ w.start <= m /\ m < w.end}
ExpectedAt(ws, e, c, k, d) ==
    LET start == IF e # -1 THEN Mon!Max({d * DayLen, e}) ELSE d * DayLen
        end   == Mon!Min({(d + 1) * DayLen, c})
    IN  IF end <= start THEN 0 ELSE (end - start) - Cardinality(Excluded(ws, k, start, end))

LEMMA ExpectedIs ==
    ASSUME NEW k, NEW d
    PROVE  /\ Mon!expected_intervals_for_day(k, d) = ExpectedAt(windows, epoch[k], clock, k, d)
           /\ Mon!expected_intervals_for_day(k, d)' = ExpectedAt(windows', epoch'[k], clock', k, d)
BY CountsAlike DEF Mon!expected_intervals_for_day, Mon!day_bounds, Mon!None, Mon!get_excluded_seconds,
       Mon!get_excluded_ranges, Mon!WindowsOf, ExpectedAt, Excluded

LEMMA ExpectedTyped ==
    ASSUME NEW ws, NEW e \in Int, NEW c \in Nat, NEW k, NEW d \in Nat
    PROVE  ExpectedAt(ws, e, c, k, d) \in Int
<1> DEFINE start == IF e # -1 THEN Mon!Max({d * DayLen, e}) ELSE d * DayLen
           end   == Mon!Min({(d + 1) * DayLen, c})
           X     == Excluded(ws, k, start, end)
<1>1. d * DayLen \in Int /\ (d + 1) * DayLen \in Int
  BY MonitoringAssumption
<1>2. start \in Int /\ end \in Int
  <2> DEFINE lo == d * DayLen
             hi == (d + 1) * DayLen
  <2>1. lo \in Int /\ hi \in Int
    BY <1>1
  <2> HIDE DEF lo, hi
  <2>2. c \in Int
    OBVIOUS
  <2>3. Mon!Max({lo, e}) \in {lo, e} /\ Mon!Min({hi, c}) \in {hi, c}
    BY <2>1, <2>2, MinOfTwo, MaxOfTwo, Zenon
  <2>4. Mon!Max({lo, e}) \in Int /\ Mon!Min({hi, c}) \in Int
    BY <2>1, <2>2, <2>3
  <2> QED BY <2>1, <2>4 DEF lo, hi
<1>3. Cardinality(X) \in Nat
  <2> HIDE DEF start, end
  <2>1. IsFiniteSet(start .. (end - 1)) /\ X \subseteq start .. (end - 1)
    BY <1>2, FS_Interval DEF Excluded
  <2> QED BY <2>1, FS_Subset, FS_CardinalityType
<1>4. ExpectedAt(ws, e, c, k, d) = IF end <= start THEN 0 ELSE (end - start) - Cardinality(X)
  BY DEF ExpectedAt
<1> HIDE DEF start, end, X
<1> QED BY <1>2, <1>3, <1>4

\* For a day that is over the clock no longer matters.
LEMMA ExpectedKept ==
    ASSUME NEW ws, NEW e, NEW k, NEW d \in Nat, NEW c \in Nat, NEW n \in Nat,
           (d + 1) * DayLen <= c, (d + 1) * DayLen <= n, (d + 1) * DayLen \in Nat
    PROVE  ExpectedAt(ws, e, c, k, d) = ExpectedAt(ws, e, n, k, d)
<1> DEFINE hi == (d + 1) * DayLen
<1>1. hi \in Nat /\ hi <= c /\ hi <= n
  OBVIOUS
<1>2. Mon!Min({hi, c}) = hi /\ Mon!Min({hi, n}) = hi
      => ExpectedAt(ws, e, c, k, d) = ExpectedAt(ws, e, n, k, d)
  BY DEF ExpectedAt
<1> HIDE DEF hi
<1>3. Mon!Min({hi, c}) = hi /\ Mon!Min({hi, n}) = hi
  <2>1. hi \in Int /\ c \in Int /\ n \in Int
    BY <1>1
  <2>2. /\ Mon!Min({hi, c}) \in {hi, c} /\ Mon!Min({hi, c}) <= hi
        /\ Mon!Min({hi, n}) \in {hi, n} /\ Mon!Min({hi, n}) <= hi
    BY <2>1, MinOfTwo, Zenon
  <2> QED BY <1>1, <2>1, <2>2
<1> QED BY <1>2, <1>3

\* The beats B of a day, less those in excluded ranges, by status.
OnDay(B, d) == {m \in Mon!Minutes : B[m] # "none" /\ Mon!Day(m) = d}
Counted(B, ws, k, d) == OnDay(B, d) \ Excluded(ws, k, d * DayLen, (d + 1) * DayLen)
With(B, S, status) == {m \in S : B[m] = status}

----------------------------------------------------------------------------
(* Monitoring: the inductive invariant.                                    *)

DayRow == [live : BOOLEAN, ok : Nat, fail : Nat, maint : Nat, expected : Int, uptime : Int \X Int]

MonTyped ==
    /\ clock \in Mon!Minutes
    /\ beats \in [Keys -> [Mon!Minutes -> {"none", "ok", "fail"}]]
    /\ daily \in [Keys -> [Mon!Days -> DayRow]]
    /\ epoch \in [Keys -> Int]
    /\ tick \in [Keys -> {-1} \cup Mon!Minutes]

\* Beats and checks in flight are of minutes that have come; the first beat starts the epoch.
BeatsPast == \A k \in Keys, m \in Mon!Minutes : beats[k][m] # "none" => m <= clock /\ epoch[k] # -1
TicksPast == \A k \in Keys : tick[k] <= clock

\* The percentage of a row under the given windows, epoch and clock.
RateOf(r, ws, e, c, k, d) == Mon!Percent(r.ok, Mon!Max({r.ok + r.fail, ExpectedAt(ws, e, c, k, d)}))

\* Only past days have a summary, and a synced one stores its present percentage.
StoredFits ==
    \A k \in Keys, d \in Mon!Days :
        daily[k][d].live =>
            /\ d < Mon!Day(clock)
            /\ <<k, d>> \in synced => daily[k][d].uptime = RateOf(daily[k][d], windows, epoch[k], clock, k, d)

MonInv == MonTyped /\ BeatsPast /\ TicksPast /\ StoredFits

\* Minutes and days are natural numbers, and a minute's day is one of the days.
LEMMA MinutesAndDays ==
    /\ Mon!Minutes \subseteq Nat /\ Mon!Days \subseteq Nat /\ IsFiniteSet(Mon!Minutes)
    /\ \A m \in Mon!Minutes : Mon!Day(m) \in Mon!Days
<1>1. Mon!Minutes \subseteq Nat /\ LastMinute \in Nat /\ Mon!Minutes = 0 .. LastMinute
  BY MonitoringAssumption DEF Mon!Minutes
<1>2. Mon!Day(LastMinute) \in Nat
  BY <1>1, DayOf
<1>3. Mon!Days = 0 .. Mon!Day(LastMinute)
  BY DEF Mon!Days, Mon!Day
<1>4. ASSUME NEW m \in Mon!Minutes PROVE Mon!Day(m) \in Mon!Days
  <2>1. m \in Nat /\ m <= LastMinute
    BY <1>1
  <2>2. Mon!Day(m) \in Nat /\ Mon!Day(m) <= Mon!Day(LastMinute)
    BY <1>1, <2>1, DayOf, DaysPass
  <2> QED BY <1>2, <1>3, <2>2
<1>5. IsFiniteSet(Mon!Minutes)
  BY <1>1, FS_Interval
<1> QED BY <1>1, <1>2, <1>3, <1>4, <1>5

\* A percentage of natural counts is a pair of integers.
LEMMA RateTyped ==
    ASSUME NEW ok \in Nat, NEW fail \in Nat, NEW e \in Int
    PROVE  Mon!Percent(ok, Mon!Max({ok + fail, e})) \in Int \X Int
<1>1. ok + fail \in Int
  OBVIOUS
<1>2. Mon!Max({ok + fail, e}) \in {ok + fail, e}
  BY <1>1, MaxOfTwo, Zenon
<1>3. Mon!Max({ok + fail, e}) \in Int
  BY <1>1, <1>2
<1> QED BY <1>3 DEF Mon!Percent

\* A past day's expected checks change with its windows and epoch alone.
LEMMA PastExpected ==
    ASSUME MonTyped, clock' \in Mon!Minutes, clock <= clock', NEW k \in Keys, NEW d \in Mon!Days,
           d < Mon!Day(clock), NEW ws, NEW e
    PROVE  /\ d < Mon!Day(clock')
           /\ ExpectedAt(ws, e, clock', k, d) = ExpectedAt(ws, e, clock, k, d)
<1>1. clock \in Nat /\ clock' \in Nat /\ d \in Nat
  BY MinutesAndDays DEF MonTyped
<1>2. Mon!Day(clock) <= Mon!Day(clock') /\ Mon!Day(clock) \in Nat /\ Mon!Day(clock') \in Nat
  BY <1>1, DaysPass, DayOf
<1>3. d < Mon!Day(clock')
  BY <1>1, <1>2
<1>4. (d + 1) * DayLen <= clock /\ (d + 1) * DayLen \in Nat
  BY <1>1, PastHasEnded
<1>5. (d + 1) * DayLen <= clock'
  BY <1>1, <1>3, PastHasEnded
<1> QED BY <1>1, <1>3, <1>4, <1>5, ExpectedKept

\* Summaries that are not written stay right.
LEMMA StoredKept ==
    ASSUME MonInv, clock' \in Mon!Minutes, clock <= clock', UNCHANGED daily,
           \A k \in Keys, d \in Mon!Days : <<k, d>> \in synced' =>
               <<k, d>> \in synced /\ windows' = windows /\ epoch'[k] = epoch[k]
    PROVE  StoredFits'
<1> SUFFICES ASSUME NEW k \in Keys, NEW d \in Mon!Days, daily[k][d].live
    PROVE  /\ d < Mon!Day(clock')
           /\ <<k, d>> \in synced' =>
                 daily[k][d].uptime = RateOf(daily[k][d], windows', epoch'[k], clock', k, d)
  BY DEF StoredFits
<1>1. /\ d < Mon!Day(clock)
      /\ <<k, d>> \in synced => daily[k][d].uptime = RateOf(daily[k][d], windows, epoch[k], clock, k, d)
  BY DEF MonInv, StoredFits
<1>2. d < Mon!Day(clock')
  BY <1>1, PastExpected DEF MonInv
<1>3. ASSUME <<k, d>> \in synced'
      PROVE  daily[k][d].uptime = RateOf(daily[k][d], windows', epoch'[k], clock', k, d)
  <2>1. <<k, d>> \in synced /\ windows' = windows /\ epoch'[k] = epoch[k]
    BY <1>3
  <2>2. ExpectedAt(windows, epoch[k], clock', k, d) = ExpectedAt(windows, epoch[k], clock, k, d)
    BY <1>1, PastExpected DEF MonInv
  <2> QED BY <1>1, <2>1, <2>2 DEF RateOf
<1> QED BY <1>2, <1>3

\* Time passes, a check starts and a check is lost without a trace in the rows.
LEMMA TickKeeps ==
    ASSUME MonInv, Mon!Tick
    PROVE  MonInv'
<1>1. clock \in Nat /\ clock' = clock + 1 /\ clock' \in Mon!Minutes
  BY MinutesAndDays, MonitoringAssumption DEF MonInv, MonTyped, Mon!Tick, Mon!Minutes
<1>2. MonTyped'
  BY <1>1 DEF MonInv, MonTyped, Mon!Tick
<1>3. BeatsPast'
  BY <1>1, MinutesAndDays DEF MonInv, BeatsPast, Mon!Tick
<1>4. TicksPast'
  <2>1. {-1} \cup Mon!Minutes \subseteq Int
    BY MinutesAndDays
  <2>2. \A k \in Keys : tick[k] \in {-1} \cup Mon!Minutes
    BY DEF MonInv, MonTyped
  <2>3. \A k \in Keys : tick[k] \in Int
    BY <2>1, <2>2
  <2> QED BY <1>1, <2>3 DEF MonInv, TicksPast, Mon!Tick
<1>5. StoredFits'
  <2>1. clock <= clock'
    BY <1>1
  <2>2. UNCHANGED <<daily, windows, epoch, synced>>
    BY DEF Mon!Tick
  <2> QED BY <1>1, <2>1, <2>2, StoredKept
<1> QED BY <1>2, <1>3, <1>4, <1>5 DEF MonInv

\* What leaves clock, beats and summaries alone keeps them right.
LEMMA AsideKeeps ==
    ASSUME MonInv, UNCHANGED <<clock, beats, daily>>, epoch' \in [Keys -> Int],
           tick' \in [Keys -> {-1} \cup Mon!Minutes], TicksPast',
           \A k \in Keys : epoch[k] # -1 => epoch'[k] # -1,
           \A k \in Keys, d \in Mon!Days : <<k, d>> \in synced' =>
               <<k, d>> \in synced /\ windows' = windows /\ epoch'[k] = epoch[k]
    PROVE  MonInv'
<1>1. MonTyped'
  BY DEF MonInv, MonTyped
<1>2. BeatsPast'
  BY DEF MonInv, BeatsPast
<1>3. StoredFits'
  <2>1. clock \in Nat /\ clock' = clock /\ clock' \in Mon!Minutes
    BY MinutesAndDays DEF MonInv, MonTyped
  <2>2. clock <= clock'
    BY <2>1
  <2> QED BY <2>1, <2>2, StoredKept
<1> QED BY <1>1, <1>2, <1>3 DEF MonInv

LEMMA CheckStartKeeps ==
    ASSUME MonInv, NEW k \in Keys, Mon!run_all_monitors(k) \/ Mon!TickLost(k)
    PROVE  MonInv'
<1>1. /\ clock \in Mon!Minutes /\ clock \in Nat /\ tick \in [Keys -> {-1} \cup Mon!Minutes]
      /\ epoch \in [Keys -> Int]
  BY MinutesAndDays DEF MonInv, MonTyped
<1>2. /\ UNCHANGED <<clock, beats, daily, windows, epoch, synced>>
      /\ tick' = [tick EXCEPT ![k] = clock] \/ tick' = [tick EXCEPT ![k] = -1]
  BY DEF Mon!run_all_monitors, Mon!TickLost, Mon!None
<1>3. tick' \in [Keys -> {-1} \cup Mon!Minutes]
  BY <1>1, <1>2
<1>4. TicksPast'
  BY <1>1, <1>2 DEF MonInv, TicksPast
<1> QED BY <1>1, <1>2, <1>3, <1>4, AsideKeeps

\* The beat of a check is written, and the first one starts the epoch.
LEMMA BeatKeeps ==
    ASSUME MonInv, NEW k \in Keys, NEW status \in {"ok", "fail"}, Mon!run_monitor_check(k, status)
    PROVE  MonInv'
<1> DEFINE t  == tick[k]
           bs == [beats[k] EXCEPT ![t] = status]
           e  == IF epoch[k] # -1 THEN epoch[k] ELSE Mon!Min({m \in Mon!Minutes : bs[m] # "none"})
<1>1. /\ clock \in Mon!Minutes /\ t \in Mon!Minutes /\ t <= clock
      /\ beats \in [Keys -> [Mon!Minutes -> {"none", "ok", "fail"}]] /\ epoch \in [Keys -> Int]
      /\ UNCHANGED <<clock, daily, windows>>
  <2>1. t \in {-1} \cup Mon!Minutes /\ t # -1
    BY DEF MonInv, MonTyped, Mon!run_monitor_check, Mon!None
  <2> QED BY <2>1 DEF MonInv, MonTyped, TicksPast, Mon!run_monitor_check
<1>2. bs \in [Mon!Minutes -> {"none", "ok", "fail"}] /\ bs[t] = status
      /\ \A m \in Mon!Minutes : m # t => bs[m] = beats[k][m]
  BY <1>1
<1>3. beats' = [beats EXCEPT ![k] = bs] /\ beats'[k] = bs
  <2>1. beats' = [beats EXCEPT ![k][tick[k]] = status]
    BY DEF Mon!run_monitor_check
  <2> QED BY <1>1, <2>1
<1>4. epoch' = [epoch EXCEPT ![k] = e]
  BY <1>3 DEF Mon!run_monitor_check, Mon!ensure_epoch, Mon!None
<1>5. e \in Int /\ e # -1
  <2>1. CASE epoch[k] = -1
    <3> DEFINE S == {m \in Mon!Minutes : bs[m] # "none"}
    <3>1. t \in S /\ S \subseteq Nat
      BY <1>1, <1>2, MinutesAndDays
    <3> HIDE DEF bs, t
    <3>2. Mon!Min(S) \in S
      <4>1. IsFiniteSet(S)
        BY MinutesAndDays, FS_Subset
      <4>2. \E x \in S : \A y \in S : x <= y
        BY <3>1, LeastExists
      <4> QED BY <4>2 DEF Mon!Min
    <3> QED BY <2>1, <3>1, <3>2
  <2>2. CASE epoch[k] # -1
    BY <1>1, <2>2
  <2> QED BY <2>1, <2>2
<1>6. synced' = IF epoch[k] = -1 THEN {} ELSE synced
  BY DEF Mon!run_monitor_check, Mon!None
<1>7. tick' = [tick EXCEPT ![k] = -1]
  BY DEF Mon!run_monitor_check, Mon!None
<1>8. epoch' \in [Keys -> Int] /\ epoch'[k] = e
      /\ \A i \in Keys : i # k => epoch'[i] = epoch[i]
  BY <1>1, <1>4, <1>5
<1>9. epoch[k] # -1 => e = epoch[k]
  OBVIOUS
<1> HIDE DEF bs, e, t
<1>10. MonTyped'
  BY <1>1, <1>2, <1>3, <1>7, <1>8 DEF MonInv, MonTyped
<1>11. BeatsPast'
  <2> SUFFICES ASSUME NEW i \in Keys, NEW m \in Mon!Minutes, beats'[i][m] # "none"
      PROVE  m <= clock /\ epoch'[i] # -1
    BY <1>1 DEF BeatsPast
  <2>1. CASE i = k /\ m = t
    BY <1>1, <1>5, <1>8, <2>1
  <2>2. CASE i # k \/ m # t
    <3>1. beats[i][m] # "none"
      BY <1>1, <1>2, <1>3, <2>2
    <3>2. m <= clock /\ epoch[i] # -1
      BY <3>1 DEF MonInv, BeatsPast
    <3> QED BY <1>5, <1>8, <3>2
  <2> QED BY <2>1, <2>2
<1>12. TicksPast'
  <2>1. clock \in Nat
    BY <1>1, MinutesAndDays
  <2> QED BY <1>1, <1>7, <2>1 DEF MonInv, MonTyped, TicksPast
<1>13. StoredFits'
  <2>1. clock <= clock' /\ clock' \in Mon!Minutes
    BY <1>1, MinutesAndDays
  <2>2. \A i \in Keys, d \in Mon!Days : <<i, d>> \in synced' =>
            <<i, d>> \in synced /\ windows' = windows /\ epoch'[i] = epoch[i]
    BY <1>1, <1>6, <1>8, <1>9
  <2> QED BY <1>1, <2>1, <2>2, StoredKept
<1> QED BY <1>10, <1>11, <1>12, <1>13 DEF MonInv

\* The summary a batch is folded into is a row that stores its present percentage.
LEMMA FoldedIs ==
    ASSUME MonTyped, NEW k \in Keys, NEW d \in Mon!Days, NEW batch \in SUBSET Mon!Minutes
    PROVE  LET r == Mon!Folded(k, d, batch)
               counted == batch \ Excluded(windows, k, d * DayLen, (d + 1) * DayLen)
           IN  /\ r \in DayRow /\ r.live
               /\ r.ok = daily[k][d].ok + Cardinality(With(beats[k], counted, "ok"))
               /\ r.fail = daily[k][d].fail + Cardinality(With(beats[k], counted, "fail"))
               /\ r.uptime = RateOf(r, windows, epoch[k], clock, k, d)
<1> DEFINE X  == Excluded(windows, k, d * DayLen, (d + 1) * DayLen)
           C  == batch \ X
           ok == daily[k][d].ok + Cardinality(With(beats[k], C, "ok"))
           fl == daily[k][d].fail + Cardinality(With(beats[k], C, "fail"))
           mt == daily[k][d].maint + Cardinality(batch \cap X)
           e  == ExpectedAt(windows, epoch[k], clock, k, d)
           u  == Mon!Percent(ok, Mon!Max({ok + fl, e}))
           r  == [live |-> TRUE, ok |-> ok, fail |-> fl, maint |-> mt, expected |-> e, uptime |-> u]
<1>1. Mon!Folded(k, d, batch) = r
  <2>1. Mon!expected_intervals_for_day(k, d) = e
    BY ExpectedIs
  <2>2. batch \ (batch \cap X) = C
    OBVIOUS
  <2>3. Mon!get_excluded_ranges(k, d * DayLen, (d + 1) * DayLen) = X
    BY DEF Mon!get_excluded_ranges, Mon!WindowsOf, Excluded
  <2>4. /\ Mon!Count(k, C, "ok") = Cardinality(With(beats[k], C, "ok"))
        /\ Mon!Count(k, C, "fail") = Cardinality(With(beats[k], C, "fail"))
        /\ Mon!Cardinality(batch \cap X) = Cardinality(batch \cap X)
    BY CountsAlike DEF Mon!Count, With
  <2> HIDE DEF X, C, e
  <2> QED BY <2>1, <2>2, <2>3, <2>4 DEF Mon!Folded, Mon!day_bounds
<1>2. daily[k][d] \in DayRow
  BY DEF MonTyped
<1>3. daily[k][d].ok \in Nat /\ daily[k][d].fail \in Nat /\ daily[k][d].maint \in Nat
  BY <1>2 DEF DayRow
<1>4. /\ Cardinality(With(beats[k], C, "ok")) \in Nat /\ Cardinality(With(beats[k], C, "fail")) \in Nat
      /\ Cardinality(batch \cap X) \in Nat
  <2>1. IsFiniteSet(batch)
    BY MinutesAndDays, FS_Subset
  <2>2. With(beats[k], C, "ok") \subseteq batch /\ With(beats[k], C, "fail") \subseteq batch
        /\ batch \cap X \subseteq batch
    BY DEF With
  <2> HIDE DEF C, X
  <2> QED BY <2>1, <2>2, FS_Subset, FS_CardinalityType
<1>5. e \in Int
  <2>1. clock \in Nat /\ d \in Nat /\ epoch[k] \in Int
    BY MinutesAndDays DEF MonTyped
  <2> QED BY <2>1, ExpectedTyped
<1>6. ok \in Nat /\ fl \in Nat /\ mt \in Nat
  BY <1>3, <1>4
<1> HIDE DEF ok, fl, mt, e, X, C
<1>7. u \in Int \X Int
  BY <1>5, <1>6, RateTyped
<1> HIDE DEF u
<1>8. r \in DayRow /\ r.live /\ r.ok = ok /\ r.fail = fl /\ r.uptime = u
  BY <1>5, <1>6, <1>7 DEF DayRow
<1>9. u = RateOf(r, windows, epoch[k], clock, k, d)
  BY <1>8 DEF u, e, RateOf
<1> HIDE DEF r
<1> QED BY <1>1, <1>8, <1>9 DEF ok, fl, C, X

\* The beats of day d that pruning folds.
Batch(k, d) == {m \in Mon!Old(k) : Mon!Day(m) = d}

LEMMA BatchPast ==
    ASSUME MonTyped, NEW k \in Keys, NEW d \in Mon!Days
    PROVE  /\ Mon!Old(k) \in SUBSET Mon!Minutes /\ Batch(k, d) \in SUBSET Mon!Minutes
           /\ Batch(k, d) # {} => d < Mon!Day(clock)
<1>1. Mon!Old(k) \in SUBSET Mon!Minutes
  BY DEF Mon!Old, Mon!Recorded
<1>2. ASSUME NEW m \in Batch(k, d) PROVE d < Mon!Day(clock)
  <2>1. m \in Nat /\ clock \in Nat /\ m < clock - Retention * DayLen /\ Mon!Day(m) = d
    BY <1>1, <1>2, MinutesAndDays DEF Batch, Mon!Old, MonTyped
  <2> QED BY <2>1, OldIsPast
<1> QED BY <1>1, <1>2 DEF Batch

LEMMA PruneWrites ==
    ASSUME MonTyped, Mon!prune_old_heartbeats
    PROVE  /\ daily' \in [Keys -> [Mon!Days -> DayRow]]
           /\ \A k \in Keys, d \in Mon!Days :
                 daily'[k][d] = IF Batch(k, d) = {} THEN daily[k][d] ELSE Mon!Folded(k, d, Batch(k, d))
<1> DEFINE r(k, d) == IF Batch(k, d) = {} THEN daily[k][d] ELSE Mon!Folded(k, d, Batch(k, d))
<1>1. daily' = [k \in Keys |-> [d \in Mon!Days |-> r(k, d)]]
  BY DEF Mon!prune_old_heartbeats, Mon!write_daily_summaries, Batch
<1>2. ASSUME NEW k \in Keys, NEW d \in Mon!Days PROVE r(k, d) \in DayRow
  BY BatchPast, FoldedIs DEF MonTyped
<1> QED BY <1>1, <1>2

LEMMA PruneKeeps ==
    ASSUME MonInv, Mon!prune_old_heartbeats
    PROVE  MonInv'
<1>0. UNCHANGED <<clock, windows, epoch, tick>>
  BY DEF Mon!prune_old_heartbeats
<1>1. beats' = [k \in Keys |-> [m \in Mon!Minutes |-> IF m \in Mon!Old(k) THEN "none" ELSE beats[k][m]]]
  BY DEF Mon!prune_old_heartbeats
<1>2. MonTyped'
  <2>1. beats' \in [Keys -> [Mon!Minutes -> {"none", "ok", "fail"}]]
    BY <1>1 DEF MonInv, MonTyped
  <2> QED BY <1>0, <2>1, PruneWrites DEF MonInv, MonTyped
<1>3. BeatsPast'
  BY <1>0, <1>1 DEF MonInv, BeatsPast
<1>4. TicksPast'
  BY <1>0 DEF MonInv, TicksPast
<1>5. StoredFits'
  <2> SUFFICES ASSUME NEW k \in Keys, NEW d \in Mon!Days, daily'[k][d].live
      PROVE  /\ d < Mon!Day(clock)
             /\ <<k, d>> \in synced' =>
                   daily'[k][d].uptime = RateOf(daily'[k][d], windows, epoch[k], clock, k, d)
    BY <1>0 DEF StoredFits
  <2>1. CASE Batch(k, d) = {}
    <3>1. daily'[k][d] = daily[k][d]
      BY <2>1, PruneWrites DEF MonInv
    <3>2. <<k, d>> \in synced' => <<k, d>> \in synced
      BY <2>1 DEF Mon!prune_old_heartbeats, Batch
    <3> QED BY <3>1, <3>2 DEF MonInv, StoredFits
  <2>2. CASE Batch(k, d) # {}
    <3>1. daily'[k][d] = Mon!Folded(k, d, Batch(k, d))
      BY <2>2, PruneWrites DEF MonInv
    <3> QED BY <2>2, <3>1, BatchPast, FoldedIs DEF MonInv
  <2> QED BY <2>1, <2>2
<1> QED BY <1>2, <1>3, <1>4, <1>5 DEF MonInv

\* Repair only drops rows ...
LEMMA RepairKeeps ==
    ASSUME MonInv, Mon!repair_summaries
    PROVE  MonInv'
<1>0. UNCHANGED <<clock, beats, windows, epoch, tick, synced>>
  BY DEF Mon!repair_summaries
<1>1. /\ daily' \in [Keys -> [Mon!Days -> DayRow]]
      /\ \A k \in Keys, d \in Mon!Days : daily'[k][d] = daily[k][d] \/ daily'[k][d] = Mon!NoRow
  <2> DEFINE small(k, d) == /\ daily[k][d].expected > 0
                            /\ 20 * (daily[k][d].ok + daily[k][d].fail) < daily[k][d].expected
  <2>1. daily' = [k \in Keys |-> [d \in Mon!Days |->
                    IF small(k, d) THEN Mon!NoRow ELSE daily[k][d]]]
    BY DEF Mon!repair_summaries
  <2>2. Mon!NoRow \in DayRow
    BY DEF Mon!NoRow, DayRow
  <2> HIDE DEF small
  <2> QED BY <2>1, <2>2 DEF MonInv, MonTyped
<1>2. MonTyped' /\ BeatsPast' /\ TicksPast'
  BY <1>0, <1>1 DEF MonInv, MonTyped, BeatsPast, TicksPast
<1>3. StoredFits'
  <2> SUFFICES ASSUME NEW k \in Keys, NEW d \in Mon!Days, daily'[k][d].live
      PROVE  /\ d < Mon!Day(clock)
             /\ <<k, d>> \in synced =>
                   daily'[k][d].uptime = RateOf(daily'[k][d], windows, epoch[k], clock, k, d)
    BY <1>0 DEF StoredFits
  <2>1. daily'[k][d] = daily[k][d]
    BY <1>1 DEF Mon!NoRow
  <2> QED BY <2>1 DEF MonInv, StoredFits
<1> QED BY <1>2, <1>3 DEF MonInv

\* ... and re-prorating stores every row's present percentage.
LEMMA ReprorateKeeps ==
    ASSUME MonInv, Mon!reprorate
    PROVE  MonInv'
<1> DEFINE e(k, d) == ExpectedAt(windows, epoch[k], clock, k, d)
           u(k, d) == Mon!Percent(daily[k][d].ok, Mon!Max({daily[k][d].ok + daily[k][d].fail, e(k, d)}))
           r(k, d) == [daily[k][d] EXCEPT !.expected = e(k, d), !.uptime = u(k, d)]
<1>0. UNCHANGED <<clock, beats, windows, epoch, tick>>
  BY DEF Mon!reprorate
<1>1. daily' = [k \in Keys |-> [d \in Mon!Days |-> IF ~daily[k][d].live THEN daily[k][d] ELSE r(k, d)]]
  <2>1. \A k \in Keys, d \in Mon!Days : Mon!expected_intervals_for_day(k, d) = e(k, d)
    BY ExpectedIs
  <2> HIDE DEF e
  <2> QED BY <2>1 DEF Mon!reprorate
<1>2. ASSUME NEW k \in Keys, NEW d \in Mon!Days
      PROVE  r(k, d) \in DayRow /\ r(k, d).ok = daily[k][d].ok /\ r(k, d).fail = daily[k][d].fail
             /\ r(k, d).uptime = u(k, d)
  <2>1. daily[k][d] \in DayRow /\ clock \in Nat /\ d \in Nat /\ epoch[k] \in Int
    BY MinutesAndDays DEF MonInv, MonTyped
  <2>2. e(k, d) \in Int
    BY <2>1, ExpectedTyped
  <2> HIDE DEF e
  <2>3. daily[k][d].ok \in Nat /\ daily[k][d].fail \in Nat
    BY <2>1 DEF DayRow
  <2>4. u(k, d) \in Int \X Int
    BY <2>2, <2>3, RateTyped
  <2> HIDE DEF u
  <2> QED BY <2>1, <2>2, <2>4 DEF DayRow
<1>3. ASSUME NEW k \in Keys, NEW d \in Mon!Days, daily[k][d].live
      PROVE  r(k, d).uptime = RateOf(r(k, d), windows, epoch[k], clock, k, d)
  <2>1. /\ r(k, d).ok = daily[k][d].ok /\ r(k, d).fail = daily[k][d].fail
        /\ r(k, d).uptime = u(k, d)
    BY <1>2
  <2> HIDE DEF r
  <2> QED BY <2>1 DEF RateOf
<1> HIDE DEF r, u, e
<1>4. MonTyped' /\ BeatsPast' /\ TicksPast'
  <2>1. daily' \in [Keys -> [Mon!Days -> DayRow]]
    BY <1>1, <1>2 DEF MonInv, MonTyped
  <2> QED BY <1>0, <2>1 DEF MonInv, MonTyped, BeatsPast, TicksPast
<1>5. StoredFits'
  <2> SUFFICES ASSUME NEW k \in Keys, NEW d \in Mon!Days, daily'[k][d].live
      PROVE  /\ d < Mon!Day(clock)
             /\ daily'[k][d].uptime = RateOf(daily'[k][d], windows, epoch[k], clock, k, d)
    BY <1>0 DEF StoredFits
  <2>1. daily[k][d].live /\ daily'[k][d] = r(k, d)
    BY <1>1
  <2>2. d < Mon!Day(clock)
    BY <2>1 DEF MonInv, StoredFits
  <2> QED BY <1>3, <2>1, <2>2
<1> QED BY <1>4, <1>5 DEF MonInv

\* A window, an epoch or a row edited by hand leaves nothing it changes synced.
LEMMA EditsKeep ==
    ASSUME MonInv, Mon!Edits
    PROVE  MonInv'
<1>0. UNCHANGED <<clock, beats, daily, tick>>
  BY DEF Mon!Edits, Mon!Edit
<1>1. \/ synced' = {} /\ UNCHANGED epoch
      \/ \E k \in Keys, at \in EditMinutes : synced' = {} /\ epoch' = [epoch EXCEPT ![k] = at]
      \/ UNCHANGED <<synced, epoch, windows>>
  <2>1. PICK k \in Keys :
          \/ \E s, e \in EditMinutes, sla \in BOOLEAN : Mon!maintenance_create(k, s, e, sla)
          \/ Mon!open_window_for(k, 1)
          \/ \E future \in BOOLEAN : Mon!close_windows(k, future)
          \/ \E w \in windows, s, e \in EditMinutes, sla \in BOOLEAN : Mon!maintenance_edit(w, s, e, sla)
          \/ \E w \in windows : Mon!maintenance_delete(w)
          \/ \E at \in EditMinutes : Mon!reset_epoch(k, at)
          \/ \E on, shown \in BOOLEAN : Mon!MonitoredEndpointCRUDView(k, on, shown)
          \/ \E yes \in BOOLEAN : Mon!get_exposed_surfaces(k, yes)
    BY DEF Mon!Edits
  <2>2. ASSUME NEW ws, Mon!SetWindows(ws) PROVE synced' = {} /\ UNCHANGED epoch
    BY <2>2 DEF Mon!SetWindows
  <2>3. CASE \E s, e \in EditMinutes, sla \in BOOLEAN : Mon!maintenance_create(k, s, e, sla)
    BY <2>2, <2>3 DEF Mon!maintenance_create, Mon!open_window
  <2>4. CASE Mon!open_window_for(k, 1)
    BY <2>2, <2>4 DEF Mon!open_window_for, Mon!open_window
  <2>5. CASE \E future \in BOOLEAN : Mon!close_windows(k, future)
    BY <2>2, <2>5 DEF Mon!close_windows
  <2>6. CASE \E w \in windows, s, e \in EditMinutes, sla \in BOOLEAN : Mon!maintenance_edit(w, s, e, sla)
    BY <2>2, <2>6 DEF Mon!maintenance_edit
  <2>7. CASE \E w \in windows : Mon!maintenance_delete(w)
    BY <2>2, <2>7 DEF Mon!maintenance_delete
  <2>8. CASE \E at \in EditMinutes : Mon!reset_epoch(k, at)
    BY <2>8 DEF Mon!reset_epoch
  <2>9. CASE \/ \E on, shown \in BOOLEAN : Mon!MonitoredEndpointCRUDView(k, on, shown)
             \/ \E yes \in BOOLEAN : Mon!get_exposed_surfaces(k, yes)
    BY <2>9 DEF Mon!MonitoredEndpointCRUDView, Mon!get_exposed_surfaces, Mon!SetRow
  <2> QED BY <2>1, <2>3, <2>4, <2>5, <2>6, <2>7, <2>8, <2>9
<1>2. epoch \in [Keys -> Int] /\ tick \in [Keys -> {-1} \cup Mon!Minutes]
  BY DEF MonInv, MonTyped
<1>3. epoch' \in [Keys -> Int] /\ \A k \in Keys : epoch[k] # -1 => epoch'[k] # -1
  <2>1. EditMinutes \subseteq Nat
    BY MonitoringAssumption
  <2> QED BY <1>1, <1>2, <2>1
<1>4. TicksPast'
  BY <1>0 DEF MonInv, TicksPast
<1>5. \A k \in Keys, d \in Mon!Days : <<k, d>> \in synced' =>
          <<k, d>> \in synced /\ windows' = windows /\ epoch'[k] = epoch[k]
  BY <1>1
<1> QED BY <1>0, <1>2, <1>3, <1>4, <1>5, AsideKeeps

\* Every step keeps the invariant.
LEMMA MonitoringKeeps ==
    ASSUME MonInv, Mon!Next \/ UNCHANGED monVars
    PROVE  MonInv'
<1>1. CASE UNCHANGED monVars
  BY <1>1 DEF monVars, MonInv, MonTyped, BeatsPast, TicksPast, StoredFits
<1>2. CASE Mon!Tick
  BY <1>2, TickKeeps
<1>3. CASE \E k \in Keys : Mon!run_all_monitors(k) \/ Mon!TickLost(k)
  BY <1>3, CheckStartKeeps
<1>4. CASE \E k \in Keys, status \in {"ok", "fail"} : Mon!run_monitor_check(k, status)
  BY <1>4, BeatKeeps
<1>5. CASE Mon!prune_old_heartbeats
  BY <1>5, PruneKeeps
<1>6. CASE Mon!repair_summaries
  BY <1>6, RepairKeeps
<1>7. CASE Mon!reprorate
  BY <1>7, ReprorateKeeps
<1>8. CASE Mon!Edits
  BY <1>8, EditsKeep
<1> QED BY <1>1, <1>2, <1>3, <1>4, <1>5, <1>6, <1>7, <1>8 DEF Mon!Next

\* At first nothing has been recorded.
LEMMA MonitoringStarts ==
    ASSUME Mon!Init
    PROVE  MonInv
<1>1. MonTyped
  <2>1. 0 \in Mon!Minutes
    BY MonitoringAssumption DEF Mon!Minutes
  <2>2. Mon!NoRow \in DayRow
    BY DEF Mon!NoRow, DayRow
  <2>3. /\ beats = [k \in Keys |-> [m \in Mon!Minutes |-> "none"]] /\ clock = 0
        /\ daily = [k \in Keys |-> [d \in Mon!Days |-> Mon!NoRow]]
        /\ epoch = [k \in Keys |-> -1] /\ tick = [k \in Keys |-> -1]
    BY DEF Mon!Init, Mon!None
  <2> QED BY <2>1, <2>2, <2>3 DEF MonTyped
<1>2. BeatsPast
  BY DEF Mon!Init, BeatsPast
<1>3. TicksPast
  BY DEF Mon!Init, Mon!None, TicksPast
<1>4. StoredFits
  BY DEF Mon!Init, Mon!NoRow, StoredFits
<1> QED BY <1>1, <1>2, <1>3, <1>4 DEF MonInv

----------------------------------------------------------------------------
(* Monitoring: the pages.                                                  *)

\* The percentage stored for a day that is synced and whose beats are all pruned is the
\* one the timeline computes.
LEMMA SummariesMatch ==
    ASSUME MonInv
    PROVE  Mon!SummaryMatchesStatus
<1> SUFFICES ASSUME NEW k \in Keys, NEW d \in Mon!PastDays,
                    Mon!SLADetailView(k).days[d].live,
                    \A m \in Mon!Recorded(k) : Mon!Day(m) # d,
                    <<k, d>> \in synced
             PROVE  Mon!SLADetailView(k).days[d].uptime = Mon!daily_uptime_map(k, d)
  BY DEF Mon!SummaryMatchesStatus
<1> DEFINE r == daily[k][d]
           e == ExpectedAt(windows, epoch[k], clock, k, d)
<1>1. Mon!SLADetailView(k).days[d] = r
  BY DEF Mon!SLADetailView
<1>2. d \in Mon!Days /\ d < Mon!Day(clock)
  <2> DEFINE n == Mon!Day(clock)
             z == LastMinute \div DayLen
  <2>1. n \in Nat /\ n \in 0 .. z /\ d \in 0 .. (n - 1)
    BY MinutesAndDays DEF MonInv, MonTyped, Mon!PastDays, Mon!Days
  <2>2. z \in Int
    BY MonitoringAssumption
  <2> HIDE DEF n, z
  <2>3. d \in 0 .. z /\ d < n
    BY <2>1, <2>2
  <2> QED BY <2>3 DEF n, z, Mon!Days
<1>3. r \in DayRow /\ r.ok \in Nat /\ r.fail \in Nat /\ Mon!Day(clock) \in Nat
  <2>1. r \in DayRow /\ Mon!Day(clock) \in Mon!Days
    BY <1>2, MinutesAndDays DEF MonInv, MonTyped
  <2> QED BY <2>1, MinutesAndDays DEF DayRow
<1>4. r.uptime = Mon!Percent(r.ok, Mon!Max({r.ok + r.fail, e}))
  BY <1>1, <1>2 DEF MonInv, StoredFits, RateOf
<1>5. Mon!daily_uptime_map(k, d) = Mon!Percent(r.ok + 0, Mon!Max({r.ok + r.fail + 0, e}))
  <2>1. Mon!expected_intervals_for_day(k, d) = e
    BY ExpectedIs
  <2>2. d # Mon!Day(clock)
    BY <1>2, <1>3
  <2> HIDE DEF e
  <2> QED BY <1>1, <2>1, <2>2 DEF Mon!daily_uptime_map
<1>6. r.ok + 0 = r.ok /\ r.ok + r.fail + 0 = r.ok + r.fail
  BY <1>3
<1> HIDE DEF r, e
<1> QED BY <1>1, <1>4, <1>5, <1>6

\* A slot around a failed check has a failure in it.
LEMMA SlotFails ==
    ASSUME MonTyped, NEW k \in Keys, NEW m \in Mon!Recorded(k), beats[k][m] = "fail",
           NEW from \in Int, NEW to \in Int, from <= m, m < to
    PROVE  Mon!SlotCounts(k, from, to)[2] > 0
<1> DEFINE S == Mon!Recorded(k) \cap (from .. (to - 1))
           F == {i \in S : beats[k][i] = "fail"}
<1>1. m \in Nat /\ IsFiniteSet(F)
  <2>1. Mon!Recorded(k) \subseteq Mon!Minutes
    BY DEF Mon!Recorded
  <2> QED BY <2>1, MinutesAndDays, FS_Subset
<1>2. m \in F
  BY <1>1
<1>3. Cardinality(F) \in Nat /\ Cardinality(F) # 0
  <2> HIDE DEF F
  <2> QED BY <1>1, <1>2, FS_CardinalityType, FS_EmptySet
<1>4. Mon!SlotCounts(k, from, to)[2] = Cardinality(F)
  BY CountsAlike DEF Mon!SlotCounts, Mon!Count
<1> HIDE DEF F
<1> QED BY <1>3, <1>4

\* A monitor whose newest check failed is down on every page.
LEMMA FailingIsShown ==
    ASSUME MonInv
    PROVE  Mon!NoGreenWhileFailing
<1> SUFFICES ASSUME NEW k \in Mon!get_monitors, Mon!Recorded(k) # {},
                    beats[k][Mon!NewestBeat(k)] = "fail", ~Mon!is_in_maintenance(k, clock)
             PROVE  LET m == Mon!NewestBeat(k) IN
                    /\ k \in Mon!PublicMonitors =>
                          Mon!StatusPageView = "down" /\ Mon!status_json[k] = "down"
                    /\ Mon!status_overview_context = "down"
                    /\ Mon!build_site_card(k, TRUE) = "down"
                    /\ Mon!HeartbeatDashboardView(k).status = "down"
                    /\ Mon!HeartbeatDashboardView(k).minutes[m] # "ok"
                    /\ Mon!MonitorDetailView(k).state = "down"
                    /\ Mon!build_24h_timeline(k, m - 1, m + 1) # "ok"
                    /\ Mon!build_hourly_timeline(k, m, m + 2) # "up"
  BY DEF Mon!NoGreenWhileFailing
<1> DEFINE m == Mon!NewestBeat(k)
<1>0. k \in Keys
  BY DEF Mon!get_monitors
<1>1. m \in Mon!Recorded(k) /\ m \in Nat /\ clock \in Nat /\ m <= clock
  <2>1. Mon!Recorded(k) \in SUBSET Nat /\ clock \in Nat /\ \A x \in Mon!Recorded(k) : x <= clock
    BY <1>0, MinutesAndDays DEF MonInv, MonTyped, BeatsPast, Mon!Recorded
  <2>2. \E x \in Mon!Recorded(k) : \A y \in Mon!Recorded(k) : x >= y
    BY <2>1, GreatestExists
  <2>3. m \in Mon!Recorded(k)
    BY <2>2 DEF Mon!NewestBeat, Mon!Max
  <2> QED BY <2>1, <2>3
<1>2. Mon!get_status_data(k) = "down"
  BY DEF Mon!get_status_data
<1>3. k \in Mon!PublicMonitors => Mon!StatusPageView = "down" /\ Mon!status_json[k] = "down"
  BY <1>2 DEF Mon!StatusPageView, Mon!status_json, Mon!Overall
<1>4. /\ Mon!status_overview_context = "down" /\ Mon!build_site_card(k, TRUE) = "down"
      /\ Mon!MonitorDetailView(k).state = "down" /\ Mon!HeartbeatDashboardView(k).status = "down"
  <2>1. Mon!monitor_overview_state(k) = "down"
    BY <1>2 DEF Mon!monitor_overview_state
  <2>2. Mon!status_overview_context = "down"
    BY <2>1 DEF Mon!status_overview_context, Mon!Overall
  <2>3. Mon!build_site_card(k, TRUE) = "down"
    BY <2>1 DEF Mon!build_site_card
  <2>4. Mon!MonitorDetailView(k).state = "down"
    BY <2>1 DEF Mon!MonitorDetailView
  <2>5. Mon!HeartbeatDashboardView(k).status = "down"
    BY <1>2 DEF Mon!HeartbeatDashboardView
  <2> QED BY <2>2, <2>3, <2>4, <2>5
<1>5. Mon!HeartbeatDashboardView(k).minutes[m] # "ok"
  <2> HIDE DEF m
  <2>1. beats[k][m] = "fail"
    BY DEF m
  <2>2. Mon!build_minute_timeline(k, m) # "ok"
    BY <2>1 DEF Mon!build_minute_timeline
  <2>3. m \in 0 .. clock
    BY <1>1
  <2>4. Mon!HeartbeatDashboardView(k).minutes = [i \in 0 .. clock |-> Mon!build_minute_timeline(k, i)]
    BY DEF Mon!HeartbeatDashboardView
  <2> QED BY <2>2, <2>3, <2>4
<1>6. Mon!build_24h_timeline(k, m - 1, m + 1) # "ok"
  <2> DEFINE c == Mon!SlotCounts(k, m - 1, m + 1)
  <2> HIDE DEF m
  <2>1. m - 1 \in Int /\ m + 1 \in Int /\ m - 1 <= m /\ m < m + 1 /\ beats[k][m] = "fail"
    BY <1>1 DEF m
  <2>2. c[2] > 0
    BY <1>0, <1>1, <2>1, SlotFails DEF MonInv
  <2> HIDE DEF c
  <2>3. c # <<0, 0>>
    BY <2>2
  <2> QED BY <2>2, <2>3 DEF Mon!build_24h_timeline, c
<1>7. Mon!build_hourly_timeline(k, m, m + 2) # "up"
  <2> DEFINE c == Mon!SlotCounts(k, m, m + 2)
  <2> HIDE DEF m
  <2>1. m \in Int /\ m + 2 \in Int /\ m <= m /\ m < m + 2 /\ beats[k][m] = "fail"
    BY <1>1 DEF m
  <2>2. c[2] > 0
    BY <1>0, <1>1, <2>1, SlotFails DEF MonInv
  <2> HIDE DEF c
  <2>3. c # <<0, 0>>
    BY <2>2
  <2> QED BY <2>2, <2>3 DEF Mon!build_hourly_timeline, c
<1> HIDE DEF m
<1>8. QED BY <1>3, <1>4, <1>5, <1>6, <1>7 DEF m

\* Whatever happens to beats, windows, epochs and rows, no page shows green for a monitor
\* whose newest check failed, and a day's stored percentage is the one its timeline shows.
THEOREM PagesAreHonest == AllSpec => []PagesHonest
<1>1. AllInit => MonInv
  BY MonitoringStarts DEF AllInit
<1>2. MonInv /\ [AllNext]_<<part, vars, monVars>> => MonInv'
  <2> SUFFICES ASSUME MonInv, [AllNext]_<<part, vars, monVars>> PROVE MonInv'
    OBVIOUS
  <2>1. Mon!Next \/ UNCHANGED monVars
    BY DEF AllNext
  <2> QED BY <2>1, MonitoringKeeps
<1>3. MonInv => PagesHonest
  BY SummariesMatch, FailingIsShown DEF PagesHonest, Mon!PagesHonest
<1> QED BY <1>1, <1>2, <1>3, PTL DEF AllSpec

----------------------------------------------------------------------------
(* Monitoring: what a fold keeps.                                          *)

\* A day's figure as the pages compute it, from the day's summary and the raw beats.
UptimeOf(r, B, ws, e, c, k, d) ==
    LET rec      == {m \in Mon!Minutes : B[m] # "none"}
        counted  == (rec \cap (d * DayLen .. ((d + 1) * DayLen - 1)))
                        \ Excluded(ws, k, d * DayLen, (d + 1) * DayLen)
        hasRaw   == \E m \in rec : Mon!Day(m) = d
        ok       == r.ok + (IF hasRaw THEN Cardinality(With(B, counted, "ok")) ELSE 0)
        observed == r.ok + r.fail + (IF hasRaw THEN Cardinality(counted) ELSE 0)
    IN  IF ~r.live /\ ~hasRaw THEN <<0, 0>>
        ELSE IF d = Mon!Day(c) THEN Mon!Percent(ok, observed)
        ELSE Mon!Percent(ok, Mon!Max({observed, ExpectedAt(ws, e, c, k, d)}))

\* ... and from the counted beats alone.
FigureOf(r, B, ws, e, c, k, d) ==
    IF ~r.live /\ OnDay(B, d) = {} THEN <<0, 0>>
    ELSE Mon!Percent(r.ok + Cardinality(With(B, Counted(B, ws, k, d), "ok")),
                     Mon!Max({r.ok + r.fail + Cardinality(Counted(B, ws, k, d)),
                              ExpectedAt(ws, e, c, k, d)}))

LEMMA UptimeIs ==
    ASSUME NEW k, NEW d
    PROVE  /\ Mon!daily_uptime_map(k, d)
                = UptimeOf(daily[k][d], beats[k], windows, epoch[k], clock, k, d)
           /\ Mon!daily_uptime_map(k, d)'
                = UptimeOf(daily'[k][d], beats'[k], windows', epoch'[k], clock', k, d)
<1> DEFINE lo == d * DayLen
           hi == (d + 1) * DayLen
           R(B) == {m \in Mon!Minutes : B[m] # "none"}
           C(B, ws) == (R(B) \cap (lo .. (hi - 1))) \ Excluded(ws, k, lo, hi)
           g == Mon!get_non_maintenance_counts(k, lo, hi)
<1>1. /\ g = <<Cardinality(With(beats[k], C(beats[k], windows), "ok")),
               Cardinality(C(beats[k], windows))>>
      /\ g' = <<Cardinality(With(beats'[k], C(beats'[k], windows'), "ok")),
                Cardinality(C(beats'[k], windows'))>>
  BY CountsAlike DEF Mon!get_non_maintenance_counts, Mon!Count, With, Mon!Recorded, Excluded,
         Mon!get_excluded_ranges, Mon!WindowsOf
<1>2. Mon!Recorded(k) = R(beats[k]) /\ Mon!Recorded(k)' = R(beats'[k])
  BY DEF Mon!Recorded
<1>3. /\ g[1] = Cardinality(With(beats[k], C(beats[k], windows), "ok"))
      /\ g[2] = Cardinality(C(beats[k], windows))
      /\ (g')[1] = Cardinality(With(beats'[k], C(beats'[k], windows'), "ok"))
      /\ (g')[2] = Cardinality(C(beats'[k], windows'))
  BY <1>1
<1>4. Mon!day_bounds(d)[1] = lo /\ Mon!day_bounds(d)[2] = hi
  BY DEF Mon!day_bounds
<1> QED BY <1>2, <1>3, <1>4, ExpectedIs DEF Mon!daily_uptime_map, UptimeOf

\* For a day other than today the two agree.
LEMMA FigureIs ==
    ASSUME NEW r, r.ok \in Nat, r.fail \in Nat, NEW B, NEW ws, NEW e, NEW c, NEW k,
           NEW d \in Nat, d # Mon!Day(c)
    PROVE  UptimeOf(r, B, ws, e, c, k, d) = FigureOf(r, B, ws, e, c, k, d)
<1> DEFINE lo == d * DayLen
           hi == (d + 1) * DayLen
           R  == {m \in Mon!Minutes : B[m] # "none"}
           C  == Counted(B, ws, k, d)
           E  == ExpectedAt(ws, e, c, k, d)
           raw == \E m \in R : Mon!Day(m) = d
           ok  == r.ok + (IF raw THEN Cardinality(With(B, C, "ok")) ELSE 0)
           obs == r.ok + r.fail + (IF raw THEN Cardinality(C) ELSE 0)
<1>1. R \cap (lo .. (hi - 1)) = OnDay(B, d)
  <2>1. lo \in Int /\ hi \in Int
    BY MonitoringAssumption
  <2>2. \A m \in R : m \in Nat /\ (Mon!Day(m) = d <=> lo <= m /\ m < hi)
    BY MinutesAndDays, DayOf
  <2>3. OnDay(B, d) = {m \in R : Mon!Day(m) = d}
    BY DEF OnDay
  <2> HIDE DEF R, lo, hi
  <2> QED BY <2>1, <2>2, <2>3
<1>2. raw <=> OnDay(B, d) # {}
  BY DEF OnDay
<1>3. UptimeOf(r, B, ws, e, c, k, d) =
        IF ~r.live /\ ~raw THEN <<0, 0>> ELSE Mon!Percent(ok, Mon!Max({obs, E}))
  <2>1. (R \cap (lo .. (hi - 1))) \ Excluded(ws, k, lo, hi) = C
    BY <1>1 DEF Counted
  <2> HIDE DEF C, E
  <2> QED BY <2>1 DEF UptimeOf, E
<1>4. ~raw => Cardinality(With(B, C, "ok")) = 0 /\ Cardinality(C) = 0
  BY <1>2, FS_EmptySet DEF Counted, With
<1>5. ok = r.ok + Cardinality(With(B, C, "ok")) /\ obs = r.ok + r.fail + Cardinality(C)
  <2> HIDE DEF raw, C
  <2> QED BY <1>4
<1> HIDE DEF raw, ok, obs, R
<1> QED BY <1>2, <1>3, <1>5 DEF FigureOf

\* The sizes of a finite set's two halves add up.
LEMMA Halves ==
    ASSUME NEW S, IsFiniteSet(S), NEW T, NEW U, S = T \cup U, T \cap U = {}
    PROVE  Cardinality(S) = Cardinality(T) + Cardinality(U)
           /\ Cardinality(T) \in Nat /\ Cardinality(U) \in Nat
<1>1. IsFiniteSet(T) /\ IsFiniteSet(U)
  BY FS_Subset
<1>2. Cardinality(T \cup U) = Cardinality(T) + Cardinality(U) - Cardinality(T \cap U)
  BY <1>1, FS_Union
<1>3. Cardinality(T \cap U) = 0 /\ Cardinality(T) \in Nat /\ Cardinality(U) \in Nat
  BY <1>1, FS_EmptySet, FS_CardinalityType
<1> QED BY <1>2, <1>3

\* Row r2 is row r with those of the pruned beats P that are of day d folded in; B2 is
\* what is left of the beats B.
FoldedInto(r, r2, B, B2, P, ws, k, d) ==
    LET batch == {m \in P : Mon!Day(m) = d}
        X     == Excluded(ws, k, d * DayLen, (d + 1) * DayLen)
    IN  /\ B \in [Mon!Minutes -> {"none", "ok", "fail"}] /\ P \in SUBSET Mon!Minutes
        /\ \A m \in P : B[m] # "none"
        /\ B2 = [m \in Mon!Minutes |-> IF m \in P THEN "none" ELSE B[m]]
        /\ r.ok \in Nat /\ r.fail \in Nat
        /\ batch # {} /\ r2.live
        /\ r2.ok = r.ok + Cardinality(With(B, batch \ X, "ok"))
        /\ r2.fail = r.fail + Cardinality(With(B, batch \ X, "fail"))

\* Folding the beats of a day into its summary keeps the day's figure.
LEMMA FoldKeepsFigure ==
    ASSUME NEW r, NEW r2, NEW B, NEW B2, NEW P, NEW ws, NEW e, NEW c, NEW k, NEW d \in Nat,
           FoldedInto(r, r2, B, B2, P, ws, k, d)
    PROVE  FigureOf(r2, B2, ws, e, c, k, d) = FigureOf(r, B, ws, e, c, k, d)
<1> DEFINE X  == Excluded(ws, k, d * DayLen, (d + 1) * DayLen)
           C  == Counted(B, ws, k, d)
           C2 == Counted(B2, ws, k, d)
           batch == {m \in P : Mon!Day(m) = d}
           F  == batch \ X
<1>0. /\ B \in [Mon!Minutes -> {"none", "ok", "fail"}] /\ P \in SUBSET Mon!Minutes
      /\ \A m \in P : B[m] # "none"
      /\ \A m \in Mon!Minutes : B2[m] = IF m \in P THEN "none" ELSE B[m]
      /\ r.ok \in Nat /\ r.fail \in Nat /\ batch # {} /\ r2.live
      /\ r2.ok = r.ok + Cardinality(With(B, F, "ok"))
      /\ r2.fail = r.fail + Cardinality(With(B, F, "fail"))
  BY DEF FoldedInto
<1>1. C = F \cup C2 /\ F \cap C2 = {}
  <2>1. OnDay(B, d) = batch \cup OnDay(B2, d) /\ batch \cap OnDay(B2, d) = {}
    BY <1>0 DEF OnDay
  <2> HIDE DEF X
  <2> QED BY <2>1 DEF Counted, X
<1>2. IsFiniteSet(C)
  <2>1. C \subseteq Mon!Minutes
    BY DEF Counted, OnDay
  <2> QED BY <2>1, MinutesAndDays, FS_Subset
<1>3. With(B, C, "ok") = With(B, F, "ok") \cup With(B2, C2, "ok")
      /\ With(B, F, "ok") \cap With(B2, C2, "ok") = {}
  <2>1. \A m \in C2 : m \in Mon!Minutes /\ m \notin P /\ B2[m] = B[m]
    BY <1>0 DEF Counted, OnDay
  <2> HIDE DEF C, C2, F
  <2> QED BY <1>1, <2>1 DEF With
<1>4. F = With(B, F, "ok") \cup With(B, F, "fail") /\ With(B, F, "ok") \cap With(B, F, "fail") = {}
  <2>1. \A m \in F : B[m] = "ok" \/ B[m] = "fail"
    BY <1>0
  <2> HIDE DEF F
  <2> QED BY <2>1 DEF With
<1>5. OnDay(B, d) # {}
  BY <1>0 DEF OnDay
<1> HIDE DEF X, C, C2, batch, F
<1>6. /\ Cardinality(C) = Cardinality(F) + Cardinality(C2)
      /\ Cardinality(F) \in Nat /\ Cardinality(C2) \in Nat /\ IsFiniteSet(F)
  <2>1. F \subseteq C
    BY <1>1
  <2>2. IsFiniteSet(F)
    BY <1>2, <2>1, FS_Subset
  <2> QED BY <1>1, <1>2, <2>2, Halves
<1>7. /\ Cardinality(With(B, C, "ok")) = Cardinality(With(B, F, "ok")) + Cardinality(With(B2, C2, "ok"))
      /\ Cardinality(With(B, F, "ok")) \in Nat /\ Cardinality(With(B2, C2, "ok")) \in Nat
  <2>1. With(B, C, "ok") \subseteq C
    BY DEF With
  <2>2. IsFiniteSet(With(B, C, "ok"))
    BY <1>2, <2>1, FS_Subset
  <2> QED BY <1>3, <2>2, Halves
<1>8. /\ Cardinality(F) = Cardinality(With(B, F, "ok")) + Cardinality(With(B, F, "fail"))
      /\ Cardinality(With(B, F, "fail")) \in Nat
  BY <1>4, <1>6, Halves
<1>9. r2.ok + Cardinality(With(B2, C2, "ok")) = r.ok + Cardinality(With(B, C, "ok"))
      /\ r2.ok + r2.fail + Cardinality(C2) = r.ok + r.fail + Cardinality(C)
  BY <1>0, <1>6, <1>7, <1>8
<1> QED BY <1>0, <1>5, <1>9 DEF FigureOf, C, C2

\* A prune changes no past day's figure ...
LEMMA PruneKeepsFigure ==
    ASSUME MonInv, Mon!prune_old_heartbeats, NEW k \in Keys, NEW d \in Mon!PastDays
    PROVE  Mon!daily_uptime_map(k, d)' = Mon!daily_uptime_map(k, d)
<1> DEFINE r  == daily[k][d]
           r2 == daily'[k][d]
           B  == beats[k]
           B2 == beats'[k]
           P  == Mon!Old(k)
           b  == Batch(k, d)
<1>1. d \in Mon!Days /\ d \in Nat /\ d # Mon!Day(clock)
  <2> DEFINE n == Mon!Day(clock)
             z == LastMinute \div DayLen
  <2>1. n \in Nat /\ n \in 0 .. z /\ d \in 0 .. (n - 1)
    BY MinutesAndDays DEF MonInv, MonTyped, Mon!PastDays, Mon!Days
  <2>2. z \in Int
    BY MonitoringAssumption
  <2> HIDE DEF n, z
  <2>3. d \in 0 .. z /\ d \in Nat /\ d # n
    BY <2>1, <2>2
  <2> QED BY <2>3 DEF n, z, Mon!Days
<1>2. /\ r \in DayRow /\ r2 \in DayRow /\ B \in [Mon!Minutes -> {"none", "ok", "fail"}]
      /\ UNCHANGED <<clock, windows, epoch>>
  <2>1. daily' \in [Keys -> [Mon!Days -> DayRow]]
    BY PruneWrites DEF MonInv
  <2> QED BY <1>1, <2>1 DEF MonInv, MonTyped, Mon!prune_old_heartbeats
<1>3. B2 = [m \in Mon!Minutes |-> IF m \in P THEN "none" ELSE B[m]]
  BY DEF Mon!prune_old_heartbeats
<1>4. P \in SUBSET Mon!Minutes /\ (\A m \in P : B[m] # "none") /\ b = {m \in P : Mon!Day(m) = d}
  BY DEF Mon!Old, Mon!Recorded, Batch
<1>5. r2 = IF b = {} THEN r ELSE Mon!Folded(k, d, b)
  BY <1>1, PruneWrites DEF MonInv
<1>6. /\ Mon!daily_uptime_map(k, d) = FigureOf(r, B, windows, epoch[k], clock, k, d)
      /\ Mon!daily_uptime_map(k, d)' = FigureOf(r2, B2, windows, epoch[k], clock, k, d)
  <2>1. r.ok \in Nat /\ r.fail \in Nat /\ r2.ok \in Nat /\ r2.fail \in Nat
    BY <1>2 DEF DayRow
  <2>2. /\ Mon!daily_uptime_map(k, d) = UptimeOf(r, B, windows, epoch[k], clock, k, d)
        /\ Mon!daily_uptime_map(k, d)' = UptimeOf(r2, B2, windows, epoch[k], clock, k, d)
    <3>1. windows' = windows /\ epoch'[k] = epoch[k] /\ clock' = clock
      BY <1>2
    <3> QED BY <3>1, UptimeIs
  <2> HIDE DEF r, r2, B, B2
  <2> QED BY <1>1, <2>1, <2>2, FigureIs
<1>7. CASE b = {}
  <2>1. r2 = r
    BY <1>5, <1>7
  <2>2. OnDay(B2, d) = OnDay(B, d) /\ \A m \in OnDay(B, d) : B2[m] = B[m]
    <3> HIDE DEF B, B2, P, b
    <3> QED BY <1>3, <1>4, <1>7 DEF OnDay
  <2>3. /\ Counted(B2, windows, k, d) = Counted(B, windows, k, d)
        /\ With(B2, Counted(B2, windows, k, d), "ok") = With(B, Counted(B, windows, k, d), "ok")
    <3> HIDE DEF B, B2, P, b
    <3> QED BY <2>2 DEF Counted, With
  <2> HIDE DEF r, r2, B, B2
  <2> QED BY <1>6, <2>1, <2>2, <2>3 DEF FigureOf
<1>8. CASE b # {}
  <2> DEFINE X == Excluded(windows, k, d * DayLen, (d + 1) * DayLen)
  <2>1. /\ r2.live /\ r2.ok = r.ok + Cardinality(With(B, b \ X, "ok"))
        /\ r2.fail = r.fail + Cardinality(With(B, b \ X, "fail"))
    <3>1. b \in SUBSET Mon!Minutes /\ r2 = Mon!Folded(k, d, b)
      BY <1>4, <1>5, <1>8
    <3> HIDE DEF b, r2
    <3> QED BY <1>1, <3>1, FoldedIs DEF MonInv
  <2>2. r.ok \in Nat /\ r.fail \in Nat
    BY <1>2 DEF DayRow
  <2>3. FoldedInto(r, r2, B, B2, P, windows, k, d)
    <3> HIDE DEF r, r2, B, B2, P
    <3> QED BY <1>2, <1>3, <1>4, <1>8, <2>1, <2>2 DEF FoldedInto
  <2>4. FigureOf(r2, B2, windows, epoch[k], clock, k, d) = FigureOf(r, B, windows, epoch[k], clock, k, d)
    <3> HIDE DEF r, r2, B, B2, P
    <3> QED BY <1>1, <2>3, FoldKeepsFigure
  <2> QED BY <1>6, <2>4
<1> QED BY <1>7, <1>8

\* ... nor the epoch, which a recorded beat has already started ...
LEMMA PruneKeepsEpoch ==
    ASSUME MonInv, Mon!prune_old_heartbeats, NEW k \in Keys
    PROVE  Mon!get_epoch(k)' = Mon!get_epoch(k)
<1>1. epoch' = epoch
  BY DEF Mon!prune_old_heartbeats
<1>2. CASE epoch[k] # -1
  BY <1>1, <1>2 DEF Mon!get_epoch, Mon!None
<1>3. CASE epoch[k] = -1
  <2>1. Mon!Recorded(k) = {}
    BY <1>3 DEF MonInv, BeatsPast, Mon!Recorded
  <2>2. Mon!Recorded(k)' = {}
    BY <2>1 DEF Mon!prune_old_heartbeats, Mon!Recorded
  <2> QED BY <1>1, <1>3, <2>1, <2>2 DEF Mon!get_epoch, Mon!None
<1> QED BY <1>2, <1>3

\* ... and so neither the timeline nor the calendar.
LEMMA PruneKeepsFigures ==
    ASSUME MonInv, Mon!prune_old_heartbeats
    PROVE  Mon!DayFigures' = Mon!DayFigures
<1> DEFINE figs(k, d) == <<Mon!daily_uptime_map(k, d), Mon!build_daily_timeline(k)[d],
                           Mon!build_calendar_months(k)[d]>>
<1>1. UNCHANGED <<clock, windows>>
  BY DEF Mon!prune_old_heartbeats
<1>2. Mon!PastDays' = Mon!PastDays /\ Mon!Day(clock)' = Mon!Day(clock)
  BY <1>1 DEF Mon!PastDays
<1>3. ASSUME NEW k \in Keys, NEW d \in Mon!PastDays
      PROVE  figs(k, d)' = figs(k, d)
  <2>1. Mon!daily_uptime_map(k, d)' = Mon!daily_uptime_map(k, d)
    BY <1>3, PruneKeepsFigure
  <2>2. Mon!get_epoch(k)' = Mon!get_epoch(k)
    BY PruneKeepsEpoch
  <2>3. Mon!classify_day(k, d)' = Mon!classify_day(k, d)
    BY <2>1, <2>2 DEF Mon!classify_day
  <2>4. d \in 0 .. Mon!Day(clock)
    <3>1. Mon!Day(clock) \in Nat
      BY MinutesAndDays DEF MonInv, MonTyped
    <3> QED BY <3>1 DEF Mon!PastDays
  <2>5. /\ Mon!build_daily_timeline(k)[d] = Mon!classify_day(k, d)
        /\ Mon!build_daily_timeline(k)[d]' = Mon!classify_day(k, d)'
    BY <1>2, <2>4 DEF Mon!build_daily_timeline
  <2>6. Mon!maintenance_by_date(k, d)' = Mon!maintenance_by_date(k, d)
    BY <1>1 DEF Mon!maintenance_by_date, Mon!WindowsOf
  <2>7. Mon!build_calendar_months(k)[d]' = Mon!build_calendar_months(k)[d]
    BY <1>2, <2>3, <2>4, <2>6 DEF Mon!build_calendar_months
  <2> QED BY <2>1, <2>3, <2>5, <2>7
<1>4. /\ Mon!DayFigures = [k \in Keys |-> [d \in Mon!PastDays |-> figs(k, d)]]
      /\ Mon!DayFigures' = [k \in Keys |-> [d \in Mon!PastDays |-> figs(k, d)']]
  BY <1>2 DEF Mon!DayFigures
<1> HIDE DEF figs
<1> QED BY <1>3, <1>4

\* No other step takes a beat away.
LEMMA OnlyPruneForgets ==
    ASSUME MonInv, Mon!Next, NEW k \in Keys, NEW m \in Mon!Minutes,
           beats[k][m] # "none", beats'[k][m] = "none"
    PROVE  Mon!prune_old_heartbeats
<1>1. beats' # beats
  OBVIOUS
<1>2. CASE \E i \in Keys, status \in {"ok", "fail"} : Mon!run_monitor_check(i, status)
  <2>1. PICK i \in Keys, status \in {"ok", "fail"} : Mon!run_monitor_check(i, status)
    BY <1>2
  <2>2. beats' = [beats EXCEPT ![i][tick[i]] = status] /\ status # "none"
    BY <2>1 DEF Mon!run_monitor_check
  <2>3. beats \in [Keys -> [Mon!Minutes -> {"none", "ok", "fail"}]]
    BY DEF MonInv, MonTyped
  <2> QED BY <2>2, <2>3
<1>3. ~Mon!Tick /\ ~Mon!repair_summaries /\ ~Mon!reprorate
  BY <1>1 DEF Mon!Tick, Mon!repair_summaries, Mon!reprorate
<1>4. ~Mon!Edits
  BY <1>1 DEF Mon!Edits, Mon!Edit
<1>5. ~\E i \in Keys : Mon!run_all_monitors(i) \/ Mon!TickLost(i)
  BY <1>1 DEF Mon!run_all_monitors, Mon!TickLost
<1> QED BY <1>2, <1>3, <1>4, <1>5 DEF Mon!Next

\* However a day's beats are split over prunes, folding them into its summary changes no
\* past day's uptime, nor what the timeline and the calendar make of it.
THEOREM PruningKeepsUptime == AllSpec => PruneKeepsUptime
<1>1. AllInit => MonInv
  BY MonitoringStarts DEF AllInit
<1>2. MonInv /\ [AllNext]_<<part, vars, monVars>> => MonInv'
  <2> SUFFICES ASSUME MonInv, [AllNext]_<<part, vars, monVars>> PROVE MonInv'
    OBVIOUS
  <2>1. Mon!Next \/ UNCHANGED monVars
    BY DEF AllNext
  <2> QED BY <2>1, MonitoringKeeps
<1>3. MonInv /\ [AllNext]_<<part, vars, monVars>>
        => [(\E k \in Keys, m \in Mon!Minutes : beats[k][m] # "none" /\ beats'[k][m] = "none")
             => Mon!DayFigures' = Mon!DayFigures]_(Mon!monVars)
  <2> SUFFICES ASSUME MonInv, [AllNext]_<<part, vars, monVars>>,
                      NEW k \in Keys, NEW m \in Mon!Minutes,
                      beats[k][m] # "none", beats'[k][m] = "none"
               PROVE  Mon!DayFigures' = Mon!DayFigures
    OBVIOUS
  <2>1. Mon!Next
    BY DEF AllNext, monVars
  <2> QED BY <2>1, OnlyPruneForgets, PruneKeepsFigures
<1> QED BY <1>1, <1>2, <1>3, PTL DEF AllSpec, PruneKeepsUptime, Mon!PruneKeepsUptime
=============================================================================
