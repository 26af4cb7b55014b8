------------------------- MODULE AutomationsProofs -------------------------
(***************************************************************************)
(* For any automations, servers, users and schedules, any length of a day  *)
(* and a week and any change of the clock of at most a day: the next run   *)
(* of an automation is its schedule's first, and what the operations make  *)
(* of the rows, whoever else is at work.                                   *)
(***************************************************************************)
EXTENDS Automations, WellFoundedInduction, FiniteSetTheorems, TLAPS

-----------------------------------------------------------------------------
(* Numbers.                                                                *)

\* A set of numbers has a least one.
LEMMA Least ==
  ASSUME NEW S \in SUBSET Nat, S # {}
  PROVE  Min(S) \in S /\ \A y \in S : Min(S) <= y
<1> DEFINE R == OpToRel(<, Nat)
<1>1. IsWellFoundedOn(R, Nat) BY NatLessThanWellFounded
<1>2. ASSUME NEW x \in Nat, NEW y \in Nat, y < x PROVE <<y, x>> \in R
  BY <1>2 DEF OpToRel
<1> HIDE DEF R
<1>3. PICK x \in S : \A y \in S : ~(<<y, x>> \in R) BY <1>1, WFMin
<1>4. ASSUME NEW y \in S PROVE x <= y
  <2>1. x \in Nat /\ y \in Nat OBVIOUS
  <2>2. ~(y < x) BY <1>2, <1>3, <2>1
  <2> QED BY <2>1, <2>2
<1> QED BY <1>4 DEF Min

\* The least and the greatest of one or two numbers.
LEMMA OneOrTwo ==
  ASSUME NEW i \in Int, NEW j \in Int, i <= j
  PROVE  Min({i}) = i /\ Max({i}) = i /\ Min({i, j}) = i /\ Max({i, j}) = j
  BY DEF Min, Max

\* A day has DayTicks ticks.
LEMMA DaysAre ==
  ASSUME NEW w \in Nat
  PROVE  /\ DayOf(w) \in Nat /\ w % DayTicks \in 0..(DayTicks - 1)
         /\ w = DayOf(w) * DayTicks + (w % DayTicks)
         /\ DayTicks \in Nat \ {0} /\ DayOf(w) * DayTicks \in Nat
  BY AutomationsAssumption DEF DayOf

\* A day and an hour make one moment.
LEMMA MomentIs ==
  ASSUME NEW d \in Nat, NEW h \in 0..(DayTicks - 1)
  PROVE  /\ (d * DayTicks + h) % DayTicks = h /\ DayOf(d * DayTicks + h) = d
         /\ d * DayTicks + h \in Nat
<1>1. DayTicks \in Nat \ {0} /\ h \in Nat /\ h < DayTicks BY AutomationsAssumption
<1> QED BY <1>1 DEF DayOf

\* Days follow each other.
LEMMA DaysFollow ==
  ASSUME NEW d \in Nat, NEW e \in Nat, e < d
  PROVE  e * DayTicks + DayTicks <= d * DayTicks /\ e * DayTicks \in Nat /\ d * DayTicks \in Nat
  BY AutomationsAssumption

-----------------------------------------------------------------------------
(* Zones.                                                                  *)

AllZones == {"fixed", "fold", "gap"}

\* The wall times that come twice, and the moments at which they come again.
Repeated == Change..(Change + Shift - 1)

\* The constants are numbers, and the clock changes by no more than a day.
LEMMA ConstantsAre ==
  /\ Change \in Nat /\ Shift \in Nat /\ Shift <= Change /\ Shift <= DayTicks
  /\ DayTicks \in Nat \ {0} /\ WeekDays \in Nat \ {0} /\ MaxTime \in Nat
  /\ MaxCommands \in Nat /\ MaxFailures \in Nat
  BY AutomationsAssumption

\* A zone's wall clock.
LEMMA WallIs ==
  ASSUME NEW z \in AllZones, NEW t \in Nat
  PROVE  /\ z = "fixed" => Wall(z, t) = t
         /\ z = "fold" => Wall(z, t) = IF t < Change THEN t + Shift ELSE t
         /\ z = "gap" => Wall(z, t) = IF t < Change THEN t ELSE t + Shift
         /\ Wall(z, t) \in Nat
  BY ConstantsAre DEF Wall, Offset, AllZones

\* What moment a wall time is.
Moment(z, w, fold) ==
  IF \/ z = "fold" /\ w \in Repeated /\ fold = 0
     \/ z = "fold" /\ w < Change /\ w >= Shift
     \/ z = "gap" /\ w >= Change + Shift
  THEN w - Shift ELSE w

\* The two readings of a wall time, and the reading of one that is skipped.
LEMMA UtcIs ==
  ASSUME NEW z \in AllZones, NEW w \in Nat, NEW fold \in {0, 1}
  PROVE  Utc(z, w, fold) = Moment(z, w, fold)
<1> DEFINE before == w - Shift
           ts == {t \in {w, before} : t >= 0 /\ Wall(z, t) = w}
<1>1. before \in Int /\ before <= w /\ w \in Int /\ before + Shift = w BY ConstantsAre
<1>2. Utc(z, w, fold) = IF ts = {} THEN w ELSE IF fold = 1 THEN Max(ts) ELSE Min(ts)
  BY DEF Utc
<1>3. w \in ts <=> Wall(z, w) = w
  BY <1>1
<1>5. before \in ts <=> before >= 0 /\ Wall(z, before) = w
  OBVIOUS
<1>7. ts \subseteq {w, before} OBVIOUS
<1> HIDE DEF ts
<1>4. w \in ts <=> \/ Shift = 0
                   \/ z = "fixed"
                   \/ z = "fold" /\ w >= Change
                   \/ z = "gap" /\ w < Change
  <2>1. CASE z = "fixed" BY <1>3, <2>1, WallIs
  <2>2. CASE z = "fold" BY <1>3, <2>2, WallIs, ConstantsAre
  <2>3. CASE z = "gap" BY <1>3, <2>3, WallIs, ConstantsAre
  <2> QED BY <2>1, <2>2, <2>3 DEF AllZones
<1> HIDE DEF before
<1>6. before \in ts <=> /\ before >= 0
                       /\ \/ Shift = 0
                          \/ z = "fold" /\ before < Change
                          \/ z = "gap" /\ before >= Change
  <2>1. CASE before >= 0
    <3>1. before \in Nat BY <1>1, <2>1
    <3> QED BY <1>1, <1>5, <2>1, <3>1, WallIs, ConstantsAre DEF AllZones
  <2> QED BY <1>5, <2>1
<1>8. ASSUME w \in ts, before \notin ts PROVE Utc(z, w, fold) = w
  <2>1. ts = {w} BY <1>7, <1>8
  <2>2. Min({w}) = w /\ Max({w}) = w BY <1>1, OneOrTwo
  <2> QED BY <1>2, <2>1, <2>2
<1>9. ASSUME w \notin ts, before \in ts PROVE Utc(z, w, fold) = before
  <2>1. ts = {before} BY <1>7, <1>9
  <2>2. Min({before}) = before /\ Max({before}) = before BY <1>1, OneOrTwo
  <2> QED BY <1>2, <2>1, <2>2
<1>10. ASSUME w \in ts, before \in ts PROVE Utc(z, w, fold) = IF fold = 1 THEN w ELSE before
  <2>1. ts = {before, w} BY <1>7, <1>10
  <2>2. Min({before, w}) = before /\ Max({before, w}) = w BY <1>1, OneOrTwo
  <2> QED BY <1>2, <2>1, <2>2
<1>11. ASSUME w \notin ts, before \notin ts PROVE Utc(z, w, fold) = w
  <2>1. ts = {} BY <1>7, <1>11
  <2> QED BY <1>2, <2>1
<1>12. CASE Shift = 0
  BY <1>1, <1>8, <1>9, <1>10, <1>11, <1>12 DEF Moment
<1>13. CASE Shift > 0 /\ z = "fixed"
  BY <1>1, <1>4, <1>6, <1>8, <1>13 DEF Moment
<1>14. CASE Shift > 0 /\ z = "fold"
  BY <1>1, <1>4, <1>6, <1>8, <1>9, <1>10, <1>11, <1>14, ConstantsAre DEF before, Moment, Repeated
<1>15. CASE Shift > 0 /\ z = "gap"
  BY <1>1, <1>4, <1>6, <1>8, <1>9, <1>11, <1>15, ConstantsAre DEF before, Moment
<1> QED
  BY <1>12, <1>13, <1>14, <1>15, ConstantsAre DEF AllZones

\* A wall time is read at most the change of the clock earlier.
LEMMA UtcNear ==
  ASSUME NEW z \in AllZones, NEW w \in Nat, NEW fold \in {0, 1}
  PROVE  Utc(z, w, fold) \in Nat /\ w - Shift <= Utc(z, w, fold) /\ Utc(z, w, fold) <= w
<1>1. CASE z = "fold" BY <1>1, UtcIs, ConstantsAre DEF Moment, Repeated
<1>2. CASE z # "fold" BY <1>2, UtcIs, ConstantsAre DEF Moment
<1> QED BY <1>1, <1>2

-----------------------------------------------------------------------------
(* Schedules.                                                              *)

\* The first wall time of a schedule after another, and no other within a day.
FirstWall(s, w, v) ==
  /\ v \in Nat /\ v > w /\ IsWallOf(s, v)
  /\ \A u \in Nat : IsWallOf(s, u) /\ u > w => u = v \/ u >= v + DayTicks

\* A wall time of a schedule is its hour on its day.
LEMMA WallIsOnDay ==
  ASSUME NEW s, NEW u \in Nat, IsWallOf(s, u)
  PROVE  u = OnDay(s, DayOf(u)) /\ DayOf(u) \in Nat
  BY DaysAre DEF IsWallOf, OnDay

\* A later time is on the same day or a later one.
LEMMA LaterDay ==
  ASSUME NEW w \in Nat, NEW u \in Nat, u >= w
  PROVE  DayOf(u) >= DayOf(w)
<1>1. SUFFICES ASSUME DayOf(u) < DayOf(w) PROVE FALSE BY DaysAre
<1>2. DayOf(u) * DayTicks + DayTicks <= DayOf(w) * DayTicks BY <1>1, DaysAre, DaysFollow
<1> QED BY <1>2, DaysAre

\* Two hours of different days are a day apart.
LEMMA HoursAreApart ==
  ASSUME NEW s, s.hour \in Nat, NEW d \in Nat, NEW e \in Nat, e < d
  PROVE  OnDay(s, e) + DayTicks <= OnDay(s, d)
  BY DaysFollow, ConstantsAre DEF OnDay

\* The wall time a daily schedule looks for.
LEMMA DailyFirst ==
  ASSUME NEW s, s.kind = "daily", s.hour \in 0..(DayTicks - 1), NEW w \in Nat
  PROVE  /\ OnDay(s, DayOf(w)) > w =>
              /\ FirstWall(s, w, OnDay(s, DayOf(w)))
              /\ DayOf(OnDay(s, DayOf(w))) = DayOf(w)
         /\ OnDay(s, DayOf(w)) <= w =>
              /\ FirstWall(s, w, OnDay(s, DayOf(w)) + DayTicks)
              /\ DayOf(OnDay(s, DayOf(w)) + DayTicks) = DayOf(w) + 1
         /\ OnDay(s, DayOf(w)) \in Nat
<1> DEFINE d == DayOf(w)
<1>10. d \in Nat /\ w = d * DayTicks + (w % DayTicks) /\ w % DayTicks \in 0..(DayTicks - 1)
  BY DaysAre
<1>11. s.hour \in Nat BY ConstantsAre
<1> HIDE DEF d
<1>1. d \in Nat /\ d + 1 \in Nat /\ s.hour \in Nat BY <1>10, <1>11
<1>12. (d + 1) * DayTicks = d * DayTicks + DayTicks /\ d * DayTicks \in Nat BY <1>1, ConstantsAre
<1>2. OnDay(s, d) + DayTicks = OnDay(s, d + 1) /\ OnDay(s, d) \in Nat /\ OnDay(s, d + 1) \in Nat
  BY <1>1, <1>12, ConstantsAre DEF OnDay
<1>3. IsWallOf(s, OnDay(s, d)) /\ IsWallOf(s, OnDay(s, d + 1))
  BY <1>1, MomentIs DEF OnDay, IsWallOf
<1>4. DayOf(OnDay(s, d)) = d /\ DayOf(OnDay(s, d + 1)) = d + 1
  BY <1>1, MomentIs DEF OnDay
<1>5. w < OnDay(s, d + 1)
  BY <1>1, <1>10, <1>12, ConstantsAre DEF OnDay
<1>6. ASSUME NEW u \in Nat, IsWallOf(s, u), u > w
      PROVE  /\ u = OnDay(s, d) \/ u >= OnDay(s, d) + DayTicks
             /\ OnDay(s, d) <= w => u = OnDay(s, d + 1) \/ u >= OnDay(s, d + 1) + DayTicks
  <2> DEFINE e == DayOf(u)
  <2>1. u = OnDay(s, e) /\ e \in Nat /\ e >= d BY <1>6, WallIsOnDay, LaterDay DEF d
  <2> HIDE DEF e
  <2>2. e > d => u >= OnDay(s, d) + DayTicks BY <1>1, <2>1, HoursAreApart
  <2>3. e > d + 1 => u >= OnDay(s, d + 1) + DayTicks BY <1>1, <2>1, HoursAreApart
  <2>4. e = d \/ e = d + 1 \/ e > d + 1 BY <1>1, <2>1
  <2> QED BY <1>1, <1>2, <1>6, <2>1, <2>2, <2>3, <2>4, ConstantsAre
<1>7. OnDay(s, d) > w => FirstWall(s, w, OnDay(s, d))
  BY <1>2, <1>3, <1>6 DEF FirstWall
<1>8. OnDay(s, d) <= w => FirstWall(s, w, OnDay(s, d + 1))
  BY <1>2, <1>3, <1>5, <1>6 DEF FirstWall
<1> QED BY <1>2, <1>4, <1>7, <1>8 DEF d

\* The k-th day of any week.
LEMMA KthDay ==
  ASSUME NEW m \in Nat, NEW k \in 0..(WeekDays - 1)
  PROVE  (m * WeekDays + k) % WeekDays = k
<1>1. WeekDays \in Nat \ {0} /\ k \in Nat /\ k < WeekDays BY ConstantsAre
<1> QED BY <1>1

\* One of the days after d, no more than a week on, is the k-th of its week.
LEMMA DayOfWeek ==
  ASSUME NEW d \in Nat, NEW k \in 0..(WeekDays - 1)
  PROVE  \E e \in (d + 1)..(d + WeekDays) : e % WeekDays = k
<1> DEFINE m == (d + 1) \div WeekDays
           r == (d + 1) % WeekDays
<1>1. WeekDays \in Nat \ {0} /\ k \in Nat /\ k < WeekDays BY ConstantsAre
<1>2. m \in Nat /\ r \in 0..(WeekDays - 1) /\ d + 1 = m * WeekDays + r /\ m * WeekDays \in Nat
  BY <1>1
<1> HIDE DEF m, r
<1>3. m + 1 \in Nat /\ (m + 1) * WeekDays = m * WeekDays + WeekDays BY <1>1, <1>2
<1>4. CASE k >= r
  <2>1. (m * WeekDays + k) % WeekDays = k BY <1>2, KthDay
  <2>2. m * WeekDays + k \in (d + 1)..(d + WeekDays) BY <1>1, <1>2, <1>4
  <2> QED BY <2>1, <2>2
<1>5. CASE k < r
  <2>1. ((m + 1) * WeekDays + k) % WeekDays = k BY <1>3, KthDay
  <2>2. (m + 1) * WeekDays + k \in (d + 1)..(d + WeekDays) BY <1>1, <1>2, <1>3, <1>5
  <2> QED BY <2>1, <2>2
<1> QED BY <1>1, <1>2, <1>4, <1>5

\* The wall time a weekly schedule looks for.
LEMMA WeeklyFirst ==
  ASSUME NEW s, s.kind = "weekly", s.hour \in 0..(DayTicks - 1),
         s.days \subseteq 0..(WeekDays - 1), s.days # {}, NEW w \in Nat
  PROVE  LET later == {d \in DayOf(w)..(DayOf(w) + 2 * WeekDays) :
                         d % WeekDays \in s.days /\ OnDay(s, d) > w}
         IN  FirstWall(s, w, OnDay(s, Min(later)))
<1> DEFINE d == DayOf(w)
           later == {e \in d..(d + 2 * WeekDays) : e % WeekDays \in s.days /\ OnDay(s, e) > w}
<1>1. d \in Nat /\ w = d * DayTicks + (w % DayTicks) /\ w % DayTicks \in 0..(DayTicks - 1)
  BY DaysAre
<1>2. s.hour \in Nat BY ConstantsAre
<1>3. ASSUME NEW u \in Nat, IsWallOf(s, u), u > w PROVE u = OnDay(s, DayOf(u)) /\ DayOf(u) >= d
  BY <1>3, WallIsOnDay, LaterDay
<1> HIDE DEF d
<1>4. PICK k \in s.days : k \in 0..(WeekDays - 1) OBVIOUS
<1>5. PICK e \in (d + 1)..(d + WeekDays) : e % WeekDays = k BY <1>1, <1>4, DayOfWeek
<1>6. e \in later
  <2>1. OnDay(s, d) + DayTicks <= OnDay(s, e) BY <1>1, <1>2, <1>5, ConstantsAre, HoursAreApart
  <2>2. w < OnDay(s, d) + DayTicks
    <3>1. d * DayTicks \in Nat BY <1>1, ConstantsAre
    <3> QED BY <1>1, <1>2, <3>1, ConstantsAre DEF OnDay
  <2>3. OnDay(s, e) \in Nat /\ OnDay(s, d) \in Nat
    <3>1. e \in Nat BY <1>1, <1>5, ConstantsAre
    <3> QED BY <1>1, <3>1, MomentIs DEF OnDay
  <2>4. e \in d..(d + 2 * WeekDays) BY <1>1, <1>5, ConstantsAre
  <2> QED BY <1>4, <1>5, <2>1, <2>2, <2>3, <2>4, ConstantsAre
<1>7. later \in SUBSET Nat BY <1>1, ConstantsAre
<1>8. Min(later) \in later /\ \A x \in later : Min(later) <= x BY <1>6, <1>7, Least
<1> DEFINE least == Min(later)
<1>9. /\ least \in Nat /\ least >= d /\ least <= d + 2 * WeekDays
      /\ least % WeekDays \in s.days /\ OnDay(s, least) > w
  BY <1>1, <1>7, <1>8, ConstantsAre
<1>10. ASSUME NEW x \in Nat, x >= d, x % WeekDays \in s.days, OnDay(s, x) > w PROVE least <= x
  <2>1. CASE x <= d + 2 * WeekDays
    <3>1. x \in later BY <1>1, <1>10, <2>1, ConstantsAre
    <3> QED BY <1>8, <3>1
  <2>2. CASE x > d + 2 * WeekDays BY <1>1, <1>9, <2>2, ConstantsAre
  <2> QED BY <1>1, <2>1, <2>2, ConstantsAre
<1> HIDE DEF least, later
<1>11. OnDay(s, least) \in Nat /\ IsWallOf(s, OnDay(s, least))
  BY <1>2, <1>9, MomentIs DEF OnDay, IsWallOf
<1>12. ASSUME NEW u \in Nat, IsWallOf(s, u), u > w
       PROVE  u = OnDay(s, least) \/ u >= OnDay(s, least) + DayTicks
  <2> DEFINE x == DayOf(u)
  <2>1. u = OnDay(s, x) /\ x \in Nat /\ x >= d BY <1>3, <1>12, DaysAre
  <2>2. x % WeekDays \in s.days BY <1>12 DEF IsWallOf
  <2> HIDE DEF x
  <2>3. least <= x BY <1>10, <1>12, <2>1, <2>2
  <2>4. least < x => OnDay(s, least) + DayTicks <= u BY <1>2, <1>9, <2>1, HoursAreApart
  <2> QED BY <1>9, <1>11, <2>1, <2>3, <2>4, ConstantsAre
<1>13. FirstWall(s, w, OnDay(s, least)) BY <1>9, <1>11, <1>12 DEF FirstWall
<1> QED BY <1>13 DEF least, later, d

\* What the program computes is a reading of the first wall time after the moment's,
\* and it drops the fold but for a daily schedule on the day itself.
LEMMA NextRunIs ==
  ASSUME NEW s, Valid(s), s.kind # "interval", NEW z \in AllZones, NEW t \in Nat
  PROVE  \E v \in Nat : \E fold \in {0, 1} :
           /\ next_run_after(s, z, t) = Utc(z, v, fold)
           /\ FirstWall(s, Wall(z, t), v)
           /\ fold = 1 => FoldOf(z, t) = 1
           /\ s.kind = "daily" /\ DayOf(v) = DayOf(Wall(z, t)) => fold = FoldOf(z, t)
<1> DEFINE w == Wall(z, t)
           today == OnDay(s, DayOf(w))
<1>1. w \in Nat /\ DayOf(w) \in Nat BY WallIs, DaysAre
<1>2. FoldOf(z, t) \in {0, 1} BY DEF FoldOf
<1>3. CASE s.kind = "daily"
  <2>1. s.hour \in 0..(DayTicks - 1) BY <1>3 DEF Valid, Daily
  <2>2. next_run_after(s, z, t) = IF today <= w THEN Utc(z, today + DayTicks, 0)
                                  ELSE Utc(z, today, FoldOf(z, t))
    BY <1>3 DEF next_run_after, NextDay
  <2> HIDE DEF w
  <2>3. /\ today > w => FirstWall(s, w, today) /\ DayOf(today) = DayOf(w)
        /\ today <= w => FirstWall(s, w, today + DayTicks) /\ DayOf(today + DayTicks) = DayOf(w) + 1
        /\ today \in Nat
    BY <1>1, <1>3, <2>1, DailyFirst
  <2> HIDE DEF today
  <2>4. CASE today > w
    <3>1. next_run_after(s, z, t) = Utc(z, today, FoldOf(z, t)) BY <1>1, <2>2, <2>3, <2>4
    <3> QED BY <1>2, <2>3, <2>4, <3>1 DEF w
  <2>5. CASE today <= w
    <3>1. next_run_after(s, z, t) = Utc(z, today + DayTicks, 0) BY <2>2, <2>5
    <3>2. DayOf(today + DayTicks) # DayOf(w) /\ today + DayTicks \in Nat
      BY <1>1, <2>3, <2>5, ConstantsAre
    <3> QED BY <2>3, <2>5, <3>1, <3>2 DEF w
  <2> QED BY <1>1, <2>3, <2>4, <2>5
<1>4. CASE s.kind = "weekly"
  <2> DEFINE later == {d \in DayOf(w)..(DayOf(w) + 2 * WeekDays) :
                         d % WeekDays \in s.days /\ OnDay(s, d) > w}
  <2>1. /\ s.hour \in 0..(DayTicks - 1)
        /\ s.days \subseteq 0..(WeekDays - 1) /\ s.days # {}
    BY <1>4 DEF Valid, Weekly
  <2>2. next_run_after(s, z, t) = Utc(z, OnDay(s, Min(later)), 0)
    BY <1>4 DEF next_run_after, NextWeekday
  <2> HIDE DEF w
  <2>3. FirstWall(s, w, OnDay(s, Min(later))) BY <1>1, <1>4, <2>1, WeeklyFirst
  <2> HIDE DEF later
  <2>4. OnDay(s, Min(later)) \in Nat BY <2>3 DEF FirstWall
  <2> QED BY <1>4, <2>2, <2>3, <2>4 DEF w
<1> QED BY <1>3, <1>4 DEF Valid

-----------------------------------------------------------------------------
(* Next runs.                                                              *)

\* A later wall time is a later moment, unless it comes twice, the first has
\* passed and it is read as the first.
LEMMA LaterWall ==
  ASSUME NEW z \in AllZones, NEW t \in Nat, NEW v \in Nat, NEW fold \in {0, 1}, v > Wall(z, t),
         ~(z = "fold" /\ t >= Change /\ v \in Repeated /\ fold = 0)
  PROVE  Utc(z, v, fold) > t
<1>1. CASE z = "fixed" BY <1>1, WallIs, UtcIs DEF Moment
<1>2. CASE z = "fold" BY <1>2, WallIs, UtcIs, ConstantsAre DEF Moment, Repeated
<1>3. CASE z = "gap" BY <1>3, WallIs, UtcIs, ConstantsAre DEF Moment
<1> QED BY <1>1, <1>2, <1>3 DEF AllZones

\* Where the fold matters, it is kept.
LEMMA FoldIsKept ==
  ASSUME NEW a, NEW t \in Nat, NEW v \in Nat, NEW fold \in {0, 1}, zone = "fold",
         schedule[a].kind # "interval", Steady(a), IsWallOf(schedule[a], v), v > Wall(zone, t),
         schedule[a].kind = "daily" /\ DayOf(v) = DayOf(Wall(zone, t)) => fold = FoldOf(zone, t),
         t >= Change, v \in Repeated
  PROVE  fold = 1
<1>1. Wall(zone, t) = t
  <2>1. zone \in AllZones BY DEF AllZones
  <2> QED BY <2>1, WallIs, ConstantsAre
<1>2. v \in (Change + 1)..(Change + Shift - 1) /\ t \in Repeated
  BY <1>1, ConstantsAre DEF Repeated
<1>3. schedule[a].kind = "daily" /\ DayOf(v) = DayOf(Change) BY <1>2 DEF Steady
<1>4. DayOf(v) = DayOf(t)
  <2>1. DayOf(v) >= DayOf(t) /\ DayOf(t) >= DayOf(Change) BY <1>1, LaterDay, ConstantsAre
  <2>2. DayOf(v) \in Nat /\ DayOf(t) \in Nat BY DaysAre
  <2> QED BY <1>3, <2>1, <2>2
<1> QED BY <1>1, <1>2, <1>3, <1>4 DEF FoldOf, Repeated

\* What next_run_after gives a steady automation is its schedule's first run.
LEMMA FirstRun ==
  ASSUME NEW a, Valid(schedule[a]), zone \in AllZones, Steady(a), NEW from \in Nat,
         NEW next, next = NextRun(a, from)
  PROVE  LET s == schedule[a]
             walls == {w \in 0..(next + Shift) : IsWallOf(s, w)}
         IN  /\ next \in Nat /\ from < next
             /\ s.kind # "interval" =>
                  /\ \E w \in walls : \E fold \in {0, 1} : next = Utc(zone, w, fold)
                  /\ \A w \in walls : \A fold \in {0, 1} :
                       from < Utc(zone, w, fold) /\ Utc(zone, w, fold) < next => w <= Wall(zone, from)
<1> DEFINE s == schedule[a]
           walls == {w \in 0..(next + Shift) : IsWallOf(s, w)}
           here == Wall(zone, from)
<1>1. CASE s.kind = "interval"
  <2>1. s.every \in Nat \ {0} BY <1>1 DEF Valid
  <2>2. next = from + s.every BY <1>1 DEF NextRun, next_run_after
  <2> QED BY <1>1, <2>1, <2>2
<1>2. CASE s.kind # "interval"
  <2>1. PICK v \in Nat, fold \in {0, 1} :
          /\ next = Utc(zone, v, fold)
          /\ FirstWall(s, here, v)
          /\ fold = 1 => FoldOf(zone, from) = 1
          /\ s.kind = "daily" /\ DayOf(v) = DayOf(here) => fold = FoldOf(zone, from)
    BY <1>2, NextRunIs DEF NextRun
  <2>2. /\ v > here /\ IsWallOf(s, v)
        /\ \A u \in Nat : IsWallOf(s, u) /\ u > here => u = v \/ u >= v + DayTicks
    BY <2>1 DEF FirstWall
  <2>3. here \in Nat BY WallIs
  <2>4. from < next
    <3>1. ~(zone = "fold" /\ from >= Change /\ v \in Repeated /\ fold = 0)
      BY <1>2, <2>1, <2>2, FoldIsKept
    <3> QED BY <2>1, <2>2, <3>1, LaterWall
  <2>5. next \in Nat /\ v - Shift <= next /\ next <= v BY <2>1, UtcNear
  <2>6. v \in walls BY <2>2, <2>5, ConstantsAre
  <2>7. ASSUME NEW u \in walls, NEW g \in {0, 1}, from < Utc(zone, u, g), Utc(zone, u, g) < next, u > here
        PROVE  FALSE
    <3>1. u \in Nat /\ IsWallOf(s, u) BY <2>5, ConstantsAre
    <3>2. Utc(zone, u, g) \in Nat /\ u - Shift <= Utc(zone, u, g) BY <3>1, UtcNear
    <3>3. CASE u = v
      <4>1. fold = 1 /\ zone = "fold" /\ from >= Change
        BY <2>1, <2>7, <3>3, UtcIs, ConstantsAre DEF Moment, FoldOf
      <4> QED BY <2>1, <2>7, <3>1, <3>3, <4>1, UtcIs, ConstantsAre DEF Moment, Repeated
    <3>4. CASE u >= v + DayTicks BY <2>5, <2>7, <3>1, <3>2, <3>4, ConstantsAre
    <3> QED BY <2>2, <2>7, <3>1, <3>3, <3>4
  <2>8. \A u \in walls : u \in Nat BY <2>5, ConstantsAre
  <2> HIDE DEF walls, here
  <2>9. \A u \in walls : \A g \in {0, 1} :
          from < Utc(zone, u, g) /\ Utc(zone, u, g) < next => u <= here
    BY <2>3, <2>7, <2>8
  <2>10. \E u \in walls : \E g \in {0, 1} : next = Utc(zone, u, g) BY <2>1, <2>6
  <2> QED BY <2>4, <2>5, <2>9, <2>10 DEF walls, here
<1> QED BY <1>1, <1>2

-----------------------------------------------------------------------------
(* The invariant.  While nothing overlaps, an operation has what is in the *)
(* rows, and a server fires a moment that is later than the last.          *)

Reads    == UNION {[as -> Row] : as \in SUBSET Autos}
Working  == {"create", "update", "set"}
Jobs     == [step : Working \cup {"idle", "ended"}, todo : Seq(Autos), read : Reads, at : Nat]
Distinct(s) == \A i, j \in 1..Len(s) : s[i] = s[j] => i = j

Types ==
  /\ now \in 0..MaxTime /\ zone \in Zones /\ schedule \in Schedules
  /\ row \in [Autos -> Row] /\ fired \in [Autos -> Nat] /\ job \in [Procs -> Jobs]
  /\ twice \subseteq Autos /\ overlapped \subseteq Autos /\ cut \subseteq Autos
  /\ commands \in 0..MaxCommands /\ failures \in 0..MaxFailures

\* A process at work has automations in hand, each once, and has read them; a server
\* has those that were due.
HandIs(p) ==
  /\ job[p].step \in Working <=> job[p].todo # <<>>
  /\ Distinct(job[p].todo) /\ InHand(p) \subseteq DOMAIN job[p].read /\ job[p].at <= now
  /\ p \in Servers => \A a \in InHand(p) : job[p].read[a].next \in 1..job[p].at

InHandIs == \A p \in Procs : HandIs(p)

\* A next run was computed from a time, and one that is enabled has one.
RowsAre ==
  \A a \in Autos :
    /\ row[a].next = Never \/ row[a].next = NextRun(a, row[a].from)
    /\ a \notin overlapped => (row[a].enabled => row[a].next # Never)
    /\ fired[a] <= now

\* Only one process has it in hand, with the row as it is, since the last launch or for it.
Alone(a) ==
  /\ \A p, q \in Procs : a \in InHand(p) /\ a \in InHand(q) => p = q
  /\ \A p \in Procs : a \in InHand(p) =>
       /\ job[p].step # "set" => job[p].read[a] = row[a]
       /\ fired[a] <= job[p].at

\* A server has launched it and has still to move it on.
Moving(a) == \E s \in Servers : job[s].step = "update" /\ a = Head(job[s].todo)

Ahead(a) == row[a].next = Never \/ row[a].next > fired[a] \/ Moving(a)

IInv ==
  /\ Types /\ InHandIs /\ RowsAre
  /\ \A a \in Autos \ overlapped : Alone(a)
  /\ \A a \in Autos \ (overlapped \cup cut) : Steady(a) => Ahead(a)
  /\ LaunchedOnce

-----------------------------------------------------------------------------
(* Sequences and jobs.                                                     *)

\* The head and the rest of what is in hand.
LEMMA HeadAndTail ==
  ASSUME NEW S, NEW s \in Seq(S), s # <<>>
  PROVE  /\ Head(s) \in Range(s) /\ Range(s) \subseteq S
         /\ Tail(s) \in Seq(S) /\ Range(Tail(s)) \subseteq Range(s) /\ Len(s) \in Nat
         /\ Len(s) # 1 => Tail(s) # <<>>
         /\ Distinct(s) => Distinct(Tail(s)) /\ Head(s) \notin Range(Tail(s))
<1>1. Len(s) \in Nat \ {0} /\ DOMAIN s = 1..Len(s) /\ Head(s) = s[1] OBVIOUS
<1>2. /\ Tail(s) \in Seq(S) /\ Len(Tail(s)) = Len(s) - 1 /\ DOMAIN Tail(s) = 1..(Len(s) - 1)
      /\ \A i \in 1..(Len(s) - 1) : Tail(s)[i] = s[i + 1]
  OBVIOUS
<1>3. Head(s) \in Range(s) /\ Range(s) \subseteq S BY <1>1 DEF Range
<1>4. Range(Tail(s)) \subseteq Range(s) BY <1>1, <1>2 DEF Range
<1>5. Len(s) # 1 => Tail(s) # <<>> BY <1>1, <1>2
<1>6. Distinct(s) => Distinct(Tail(s)) BY <1>1, <1>2 DEF Distinct
<1>7. ASSUME Distinct(s), Head(s) \in Range(Tail(s)) PROVE FALSE
  <2>1. PICK i \in 1..(Len(s) - 1) : Tail(s)[i] = s[1] BY <1>1, <1>2, <1>7 DEF Range
  <2>2. s[i + 1] = s[1] /\ i + 1 \in 1..Len(s) /\ i + 1 # 1 BY <1>1, <1>2, <2>1
  <2> QED BY <1>1, <1>7, <2>2 DEF Distinct
<1> QED BY <1>1, <1>2, <1>3, <1>4, <1>5, <1>6, <1>7

\* An order of some automations has each of them once.
LEMMA OrderIs ==
  ASSUME NEW as \in SUBSET Autos, NEW s \in Ordered(as)
  PROVE  s \in Seq(Autos) /\ Distinct(s) /\ Range(s) = as /\ (as # {} => s # <<>>)
<1> DEFINE n == Cardinality(as)
<1>1. IsFiniteSet(as) /\ n \in Nat BY AutomationsAssumption, FS_Subset, FS_CardinalityType
<1>2. s \in [1..n -> as] /\ Range(s) = as BY DEF Ordered
<1> HIDE DEF n
<1>3. IsFiniteSet(1..n) /\ Cardinality(1..n) = n
  <2>1. 1 \in Int /\ n \in Int BY <1>1
  <2>2. IsFiniteSet(1..n) /\ Cardinality(1..n) = IF 1 > n THEN 0 ELSE n - 1 + 1 BY <2>1, FS_Interval
  <2> QED BY <1>1, <2>2
<1>4. s \in Surjection(1..n, as) BY <1>2 DEF Surjection, Range
<1>5. s \in Injection(1..n, as) BY <1>3, <1>4, FS_SurjSameCardinalityImpliesInj DEF n
<1>6. s \in Seq(Autos) /\ Len(s) = n
  <2>1. s \in [1..n -> Autos] BY <1>2
  <2> QED BY <1>1, <2>1
<1>7. Distinct(s)
  <2>1. IsInjective(s) /\ DOMAIN s = 1..n BY <1>2, <1>5 DEF Injection
  <2> QED BY <1>6, <2>1 DEF Distinct, IsInjective
<1>8. as # {} => s # <<>>
  <2>1. ASSUME NEW x \in as PROVE n # 0
    <3>1. PICK i \in 1..n : s[i] = x BY <1>2 DEF Range
    <3> QED BY <1>1, <3>1
  <2> QED BY <1>6, <2>1
<1> QED BY <1>2, <1>6, <1>7, <1>8

\* A process with nothing to do.
LEMMA IdleIs ==
  /\ Idle \in Jobs /\ Ended \in Jobs
  /\ Idle.step = "idle" /\ Idle.todo = <<>> /\ Range(Idle.todo) = {} /\ Idle.at = 0
  /\ Ended.step = "ended" /\ Ended.todo = <<>> /\ Range(Ended.todo) = {} /\ Ended.at = 0
<1>1. <<>> \in [{} -> Row] /\ <<>> \in Seq(Autos) OBVIOUS
<1>2. <<>> \in Reads BY <1>1 DEF Reads
<1>3. Range(<<>>) = {} BY DEF Range
<1> QED BY <1>1, <1>2, <1>3 DEF Idle, Ended, Jobs

\* The job of an operation that begins, and of one that goes on.
LEMMA JobIs ==
  ASSUME NEW st \in Working, NEW s \in Seq(Autos), NEW r \in Reads, NEW t \in Nat
  PROVE  [step |-> st, todo |-> s, read |-> r, at |-> t] \in Jobs
  BY DEF Jobs

\* A job goes on to its UPDATE.
LEMMA JobGoesOn ==
  ASSUME NEW j \in Jobs, NEW st \in Working
  PROVE  LET k == [j EXCEPT !.step = st]
         IN  k \in Jobs /\ k.step = st /\ k.todo = j.todo /\ k.read = j.read /\ k.at = j.at
  BY DEF Jobs

\* A job goes on to its next automation.
LEMMA JobGoesOnToNext ==
  ASSUME NEW j \in Jobs, j.todo # <<>>
  PROVE  LET k == [j EXCEPT !.step = "create", !.todo = Tail(@)]
         IN  /\ k \in Jobs /\ k.step = "create" /\ k.todo = Tail(j.todo)
             /\ k.read = j.read /\ k.at = j.at
  BY HeadAndTail DEF Jobs, Working

\* A next run is a moment, after all.
LEMMA NextRunIsLater ==
  ASSUME NEW a \in Autos, zone \in Zones, schedule \in Schedules, NEW t \in Nat
  PROVE  /\ NextRun(a, t) \in Nat \ {0}
         /\ Steady(a) => NextRun(a, t) > t
<1>1. Valid(schedule[a]) /\ zone \in AllZones BY AutomationsAssumption DEF AllZones
<1>2. Steady(a) => NextRun(a, t) \in Nat /\ NextRun(a, t) > t BY <1>1, FirstRun
<1>3. CASE schedule[a].kind = "interval"
  BY <1>2, <1>3 DEF Steady
<1>4. CASE schedule[a].kind # "interval"
  <2>1. PICK v \in Nat, fold \in {0, 1} : NextRun(a, t) = Utc(zone, v, fold) /\ v > Wall(zone, t)
    BY <1>1, <1>4, NextRunIs DEF NextRun, FirstWall
  <2>2. NextRun(a, t) \in Nat /\ v - Shift <= NextRun(a, t) BY <1>1, <2>1, UtcNear
  <2>3. CASE zone = "fold" /\ t >= Change /\ v \in Repeated
    <3>1. v > Change BY <1>1, <2>1, <2>3, WallIs, ConstantsAre
    <3> QED BY <1>2, <2>2, <3>1, ConstantsAre
  <2>4. CASE ~(zone = "fold" /\ t >= Change /\ v \in Repeated)
    <3>1. NextRun(a, t) > t BY <1>1, <2>1, <2>4, LaterWall
    <3> QED BY <1>2, <2>2, <3>1
  <2> QED BY <2>3, <2>4
<1> QED BY <1>3, <1>4

-----------------------------------------------------------------------------
(* Every variable keeps to its values.                                     *)

\* The row an UPDATE writes, by a server or a command.
LEMMA RescheduledIs ==
  ASSUME Types, NEW p \in Procs, NEW a \in Autos, a \in DOMAIN job[p].read, NEW on \in BOOLEAN
  PROVE  LET r == Rescheduled(p, a)
             e == [r EXCEPT !.enabled = on]
             next == IF job[p].read[a].enabled THEN NextRun(a, job[p].at) ELSE Never
         IN  /\ r \in Row /\ r.enabled = row[a].enabled /\ r.from = job[p].at /\ r.next = next
             /\ e \in Row /\ e.enabled = on /\ e.from = job[p].at /\ e.next = next
<1>1. job[p].at \in Nat /\ job[p].read[a] \in Row BY DEF Types, Jobs, Reads
<1>2. NextRun(a, job[p].at) \in Nat BY <1>1, NextRunIsLater DEF Types
<1>3. row[a].enabled \in BOOLEAN BY DEF Types, Row
<1> QED BY <1>1, <1>2, <1>3 DEF Rescheduled, Row, Never

\* The automation at the head of what is in hand has been read.
LEMMA HeadIs ==
  ASSUME Types, InHandIs, NEW p \in Procs, job[p].step \in Working
  PROVE  /\ job[p].todo \in Seq(Autos) /\ job[p].todo # <<>>
         /\ Head(job[p].todo) \in InHand(p) /\ Head(job[p].todo) \in Autos
         /\ Head(job[p].todo) \in DOMAIN job[p].read
         /\ job[p] \in Jobs /\ job[p].at \in Nat
  BY HeadAndTail DEF Types, InHandIs, HandIs, Jobs, InHand

\* The job of a process after an automation.
LEMMA OnwardIs ==
  ASSUME Types, InHandIs, NEW p \in Procs, job[p].step \in Working
  PROVE  LET k == Onward(p)
             a == Head(job[p].todo)
         IN  /\ k \in Jobs /\ Range(k.todo) \subseteq InHand(p) /\ a \notin Range(k.todo)
             /\ \/ k = Idle
                \/ /\ k.step = "create" /\ k.todo # <<>> /\ Distinct(k.todo)
                   /\ k.read = job[p].read /\ k.at = job[p].at
<1>1. job[p] \in Jobs /\ job[p].todo \in Seq(Autos) /\ job[p].todo # <<>> /\ Distinct(job[p].todo)
  BY HeadIs DEF InHandIs, HandIs
<1>2. CASE Len(job[p].todo) = 1 BY <1>2, IdleIs DEF Onward
<1>3. CASE Len(job[p].todo) # 1
  <2>1. Onward(p) = [job[p] EXCEPT !.step = "create", !.todo = Tail(@)] BY <1>3 DEF Onward
  <2>2. /\ Onward(p) \in Jobs /\ Onward(p).step = "create" /\ Onward(p).todo = Tail(job[p].todo)
        /\ Onward(p).read = job[p].read /\ Onward(p).at = job[p].at
    BY <1>1, <2>1, JobGoesOnToNext
  <2> QED BY <1>1, <1>3, <2>2, HeadAndTail DEF InHand
<1> QED BY <1>2, <1>3

-----------------------------------------------------------------------------
(* The steps.                                                              *)

\* A process's job is another; the others' are what they were.
LEMMA JobAfter ==
  ASSUME Types, NEW p \in Procs, NEW k \in Jobs, Goes(p, k)
  PROVE  /\ job' \in [Procs -> Jobs] /\ job'[p] = k /\ InHand(p)' = Range(k.todo)
         /\ \A q \in Procs \ {p} : job'[q] = job[q] /\ InHand(q)' = InHand(q)
  BY DEF Types, Goes, InHand

\* The hands of the others are in order, whatever the clock does.
LEMMA OtherHands ==
  ASSUME InHandIs, Types, Types', now' >= now, NEW q \in Procs, job'[q] = job[q]
  PROVE  HandIs(q)'
<1>1. InHand(q)' = InHand(q) BY DEF InHand
<1>2. HandIs(q) /\ job[q].at \in Nat /\ now \in Nat /\ now' \in Nat BY DEF InHandIs, Types, Jobs
<1> QED BY <1>1, <1>2 DEF HandIs

\* Zones and schedules stay what they are.
LEMMA FixedStays ==
  ASSUME UNCHANGED fixed, NEW a
  PROVE  /\ Steady(a)' <=> Steady(a)
         /\ NextRun(a, row[a].from)' = NextRun(a, row'[a].from)
  BY DEF fixed, Steady, NextRun

\* The clock ticks.
LEMMA TickKeeps ==
  ASSUME IInv, Tick
  PROVE  IInv'
<1>1. now \in 0..MaxTime /\ now' \in 0..MaxTime /\ now' = now + 1 BY ConstantsAre DEF IInv, Types, Tick
<1>2. /\ UNCHANGED <<row, job, fired, twice, overlapped, cut, commands, failures>>
      /\ UNCHANGED fixed /\ UNCHANGED <<zone, schedule>>
  BY DEF Tick, fixed
<1>3. Types' BY <1>1, <1>2 DEF IInv, Types
<1>4. InHandIs' BY <1>1, <1>2, <1>3, OtherHands DEF IInv, InHandIs
<1>5. RowsAre'
  <2>1. \A a \in Autos : fired[a] \in Nat /\ fired[a] <= now BY DEF IInv, Types, RowsAre
  <2> QED BY <1>1, <1>2, <2>1, FixedStays DEF IInv, RowsAre
<1>6. \A a \in Autos : (Alone(a)' <=> Alone(a)) /\ (Ahead(a)' <=> Ahead(a))
  BY <1>2 DEF Alone, Ahead, Moving, InHand
<1>7. LaunchedOnce' BY <1>2, FixedStays DEF IInv, LaunchedOnce
<1> QED BY <1>2, <1>3, <1>4, <1>5, <1>6, <1>7, FixedStays DEF IInv

\* An operation begins.
LEMMA BeginKeeps ==
  ASSUME IInv, NEW p \in Procs, NEW st \in {"create", "set"}, NEW s \in Seq(Autos), s # <<>>, Distinct(s),
         NEW r \in Reads, Range(s) \subseteq DOMAIN r,
         st = "create" => \A a \in Range(s) : r[a] = row[a],
         p \in Servers => \A a \in Range(s) : r[a].next \in 1..now,
         Begin(p, st, s, r), UNCHANGED <<now, fixed, row, fired, twice, cut, failures>>,
         commands' \in 0..MaxCommands
  PROVE  IInv'
<1> DEFINE k == [step |-> st, todo |-> s, read |-> r, at |-> now]
<1>1. now \in Nat /\ Types /\ InHandIs BY ConstantsAre DEF IInv, Types
<1>2. k \in Jobs /\ k.step = st /\ k.todo = s /\ k.read = r /\ k.at = now
  BY <1>1, JobIs DEF Working
<1>3. Goes(p, k) /\ job[p] = Idle BY DEF Begin, Goes
<1>4. overlapped' = overlapped \cup (Range(s) \cap UNION {InHand(q) : q \in Procs \ {p}}) BY DEF Begin
<1> HIDE DEF k
<1>5. /\ job' \in [Procs -> Jobs] /\ job'[p] = k /\ InHand(p)' = Range(s)
      /\ \A q \in Procs \ {p} : job'[q] = job[q] /\ InHand(q)' = InHand(q)
  BY <1>1, <1>2, <1>3, JobAfter
<1>6. Range(s) \subseteq Autos BY HeadAndTail
<1>7. Types'
  BY <1>1, <1>4, <1>5, <1>6 DEF Types, fixed
<1>8. HandIs(p)' BY <1>1, <1>2, <1>5 DEF HandIs, Working
<1>9. InHandIs' BY <1>1, <1>5, <1>7, <1>8, OtherHands DEF InHandIs
<1>10. RowsAre' BY <1>4, FixedStays DEF IInv, RowsAre
<1>11. ASSUME NEW a \in Autos \ overlapped' PROVE Alone(a)'
  <2>1. a \notin overlapped /\ Alone(a) BY <1>4, <1>11 DEF IInv
  <2>2. \A q \in Procs \ {p} : a \in Range(s) => a \notin InHand(q) BY <1>4, <1>11
  <2>3. \A q1, q2 \in Procs : a \in InHand(q1)' /\ a \in InHand(q2)' => q1 = q2
    BY <1>5, <2>1, <2>2 DEF Alone
  <2>4. ASSUME NEW q \in Procs, a \in InHand(q)'
        PROVE  (job'[q].step # "set" => job'[q].read[a] = row'[a]) /\ fired'[a] <= job'[q].at
    <3>1. CASE q = p
      <4>1. fired[a] <= now BY DEF IInv, RowsAre
      <4> QED BY <1>2, <1>5, <2>4, <3>1, <4>1
    <3>2. CASE q # p BY <1>5, <2>1, <2>4, <3>2 DEF Alone
    <3> QED BY <3>1, <3>2
  <2> QED BY <2>3, <2>4 DEF Alone
<1>12. ASSUME NEW a \in Autos, Ahead(a) PROVE Ahead(a)'
  <2>1. ASSUME NEW q \in Servers, job[q].step = "update" PROVE job'[q] = job[q]
    BY <1>3, <1>5, <2>1, IdleIs DEF Procs
  <2> QED BY <1>12, <2>1 DEF Ahead, Moving
<1>13. LaunchedOnce' BY <1>4, FixedStays DEF IInv, LaunchedOnce
<1>14. \A a \in Autos \ (overlapped' \cup cut') : Steady(a)' => Ahead(a)'
  BY <1>4, <1>12, FixedStays DEF IInv
<1> QED BY <1>7, <1>9, <1>10, <1>11, <1>13, <1>14 DEF IInv

\* A task is created.  A server's is for a moment that is later than the last: nobody
\* else is moving the automation on.
LEMMA CreateTaskKeeps ==
  ASSUME IInv, NEW p \in Procs, CreateTask(p)
  PROVE  IInv'
<1> DEFINE k == [job[p] EXCEPT !.step = "update"]
<1>0. PICK a : a = Head(job[p].todo) OBVIOUS
<1>1. Types /\ InHandIs /\ HandIs(p) /\ job[p].step = "create" BY DEF IInv, InHandIs, CreateTask
<1>2. /\ a \in InHand(p) /\ a \in Autos /\ a \in DOMAIN job[p].read
      /\ job[p] \in Jobs /\ job[p].at \in Nat
  BY <1>0, <1>1, HeadIs DEF Working
<1>3. k \in Jobs /\ k.step = "update" /\ k.todo = job[p].todo /\ k.read = job[p].read /\ k.at = job[p].at
  BY <1>2, JobGoesOn DEF Working
<1>4. Goes(p, k) /\ UNCHANGED <<now, zone, schedule, row, overlapped, cut, commands, failures>> /\ UNCHANGED fixed
  BY DEF CreateTask, fixed
<1>5. /\ twice' = IF p \in Servers /\ job[p].read[a].next <= fired[a] THEN twice \cup {a} ELSE twice
      /\ fired' = IF p \in Servers THEN [fired EXCEPT ![a] = job[p].read[a].next] ELSE fired
  BY <1>0 DEF CreateTask, Launches
<1> HIDE DEF k
<1>6. /\ job' \in [Procs -> Jobs] /\ job'[p] = k
      /\ \A q \in Procs \ {p} : job'[q] = job[q] /\ InHand(q)' = InHand(q)
  BY <1>1, <1>3, <1>4, JobAfter
<1>7. \A q \in Procs : InHand(q)' = InHand(q) BY <1>1, <1>3, <1>4, JobAfter DEF InHand
<1>8. p \in Servers => job[p].read[a].next \in 1..job[p].at BY <1>1, <1>2 DEF HandIs
<1>9. /\ fired' \in [Autos -> Nat] /\ twice' \subseteq Autos
      /\ \A b \in Autos \ {a} : fired'[b] = fired[b]
      /\ p \notin Servers => fired' = fired /\ twice' = twice
      /\ p \in Servers => fired'[a] = job[p].read[a].next
  BY <1>1, <1>2, <1>5, <1>8 DEF Types
<1>10. Types' BY <1>1, <1>4, <1>6, <1>9 DEF Types
<1>11. HandIs(p)' BY <1>1, <1>3, <1>4, <1>6, <1>7 DEF HandIs, Working
<1>12. InHandIs'
  <2>1. now' >= now BY <1>1, <1>4, ConstantsAre DEF Types
  <2> QED BY <1>1, <1>6, <1>10, <1>11, <2>1, OtherHands DEF InHandIs
<1>13. RowsAre'
  <2>1. \A b \in Autos : fired'[b] <= now
    <3>1. \A b \in Autos : fired[b] <= now BY DEF IInv, RowsAre
    <3>2. p \in Servers => job[p].read[a].next <= now
      <4>1. job[p].at <= now /\ now \in Nat BY <1>1, ConstantsAre DEF HandIs, Types
      <4> QED BY <1>2, <1>8, <4>1
    <3> QED BY <1>9, <3>1, <3>2
  <2> QED BY <1>4, <2>1, FixedStays DEF IInv, RowsAre
<1>14. ASSUME NEW b \in Autos \ overlapped PROVE Alone(b)'
  <2>1. Alone(b) BY <1>14 DEF IInv
  <2>2. \A q1, q2 \in Procs : b \in InHand(q1)' /\ b \in InHand(q2)' => q1 = q2
    BY <1>7, <2>1 DEF Alone
  <2>3. ASSUME NEW q \in Procs, b \in InHand(q)'
        PROVE  (job'[q].step # "set" => job'[q].read[b] = row'[b]) /\ fired'[b] <= job'[q].at
    <3>1. b \in InHand(q) /\ fired[b] <= job[q].at /\ (job[q].step # "set" => job[q].read[b] = row[b])
      BY <1>7, <2>1, <2>3 DEF Alone
    <3>2. job'[q].step # "set" => job'[q].read[b] = row'[b] BY <1>1, <1>3, <1>4, <1>6, <3>1
    <3>3. job'[q].at = job[q].at BY <1>3, <1>6
    <3>4. CASE b # a BY <1>9, <1>14, <3>1, <3>2, <3>3, <3>4
    <3>5. CASE b = a
      <4>1. q = p BY <1>2, <2>1, <3>1, <3>5 DEF Alone
      <4> QED BY <1>2, <1>8, <1>9, <3>1, <3>2, <3>3, <3>5, <4>1
    <3> QED BY <3>2, <3>4, <3>5
  <2> QED BY <2>2, <2>3 DEF Alone
<1>15. ASSUME NEW b \in Autos, Moving(b) PROVE Moving(b)'
  BY <1>1, <1>6, <1>15 DEF Moving, Procs
<1>16. p \in Servers => Moving(a)' BY <1>0, <1>3, <1>6 DEF Moving
<1>17. ASSUME NEW b \in Autos \ (overlapped' \cup cut'), Steady(b)' PROVE Ahead(b)'
  <2>1. Ahead(b) BY <1>4, <1>17, FixedStays DEF IInv
  <2>2. CASE b = a /\ p \in Servers BY <1>16, <2>2 DEF Ahead
  <2>3. CASE b # a \/ p \notin Servers BY <1>4, <1>9, <1>15, <2>1, <2>3 DEF Ahead
  <2> QED BY <2>2, <2>3
<1>18. ASSUME p \in Servers, a \notin overlapped \cup cut, Steady(a) PROVE job[p].read[a].next > fired[a]
  <2>1. Alone(a) /\ Ahead(a) BY <1>2, <1>18 DEF IInv
  <2>2. job[p].read[a] = row[a] BY <1>1, <1>2, <2>1 DEF Alone
  <2>3. ~Moving(a)
    <3>1. ASSUME NEW q \in Servers, job[q].step = "update", a = Head(job[q].todo) PROVE FALSE
      <4>1. q \in Procs /\ a \in InHand(q) BY <1>1, <3>1, HeadIs DEF Procs, Working
      <4> QED BY <1>1, <1>2, <2>1, <3>1, <4>1 DEF Alone
    <3> QED BY <3>1 DEF Moving
  <2> QED BY <1>8, <1>18, <2>1, <2>2, <2>3 DEF Ahead, Never
<1>19. LaunchedOnce'
  <2>1. fired[a] \in Nat BY <1>1, <1>2 DEF Types
  <2>2. twice' = twice \/ (twice' = twice \cup {a} /\ (a \in overlapped \cup cut \/ ~Steady(a)))
    BY <1>2, <1>5, <1>8, <1>18, <2>1
  <2> QED BY <1>4, <2>2, FixedStays DEF IInv, LaunchedOnce
<1>20. \A b \in Autos \ overlapped' : Alone(b)' BY <1>4, <1>14
<1> QED BY <1>10, <1>12, <1>13, <1>17, <1>19, <1>20 DEF IInv

\* A process leaves what it was at; what a server had launched is cut off.
LEMMA LeavesKeeps ==
  ASSUME IInv, NEW p \in Procs, NEW k \in {Idle, Ended}, Goes(p, k),
         UNCHANGED <<now, fixed, row, fired, twice, overlapped, commands>>, failures' \in 0..MaxFailures,
         cut' = IF job[p].step = "update" THEN cut \cup {Head(job[p].todo)} ELSE cut
  PROVE  IInv'
<1>1. Types /\ InHandIs /\ UNCHANGED <<zone, schedule>> BY DEF IInv, fixed
<1>2. k \in Jobs /\ k.step \notin Working /\ k.todo = <<>> /\ k.at = 0 /\ Range(k.todo) = {}
  BY IdleIs DEF Working
<1>3. /\ job' \in [Procs -> Jobs] /\ job'[p] = k /\ InHand(p)' = {}
      /\ \A q \in Procs \ {p} : job'[q] = job[q] /\ InHand(q)' = InHand(q)
  BY <1>1, <1>2, JobAfter
<1>4. cut' \subseteq Autos /\ cut \subseteq cut'
  BY <1>1, HeadIs DEF Types, Working
<1>5. Types' BY <1>1, <1>3, <1>4 DEF Types
<1>6. HandIs(p)'
  <2>1. Distinct(<<>>) BY DEF Distinct
  <2>2. 0 <= now BY <1>1, ConstantsAre DEF Types
  <2> QED BY <1>2, <1>3, <2>1, <2>2 DEF HandIs
<1>7. InHandIs'
  <2>1. now' >= now BY <1>1, ConstantsAre DEF Types
  <2> QED BY <1>1, <1>3, <1>5, <1>6, <2>1, OtherHands DEF InHandIs
<1>8. RowsAre' BY FixedStays DEF IInv, RowsAre
<1>9. ASSUME NEW a \in Autos \ overlapped PROVE Alone(a)'
  BY <1>3, <1>9 DEF IInv, Alone
<1>10. ASSUME NEW a \in Autos \ (overlapped' \cup cut'), Steady(a)' PROVE Ahead(a)'
  <2>1. Ahead(a) BY <1>4, <1>10, FixedStays DEF IInv
  <2>2. ASSUME NEW q \in Servers, job[q].step = "update", a = Head(job[q].todo) PROVE job'[q] = job[q]
    BY <1>3, <1>10, <2>2 DEF Procs
  <2> QED BY <2>1, <2>2 DEF Ahead, Moving
<1>11. LaunchedOnce' BY <1>4, FixedStays DEF IInv, LaunchedOnce
<1> QED BY <1>5, <1>7, <1>8, <1>9, <1>10, <1>11 DEF IInv

\* A row is written and its automation leaves the hand: the next run is after the time
\* the operation took, and so after the last launch.
LEMMA UpdateKeeps ==
  ASSUME IInv, NEW p \in Procs, job[p].step \in {"update", "set"},
         NEW a, a = Head(job[p].todo), NEW new \in Row, row' = [row EXCEPT ![a] = new],
         new.from = job[p].at,
         new.next = IF job[p].read[a].enabled THEN NextRun(a, job[p].at) ELSE Never,
         a \notin overlapped => (new.enabled => job[p].read[a].enabled),
         NEW k \in Jobs, Goes(p, k), Range(k.todo) \subseteq InHand(p), a \notin Range(k.todo),
         \/ k = Idle
         \/ /\ job[p].step = "update" /\ k.step = "create" /\ k.todo # <<>> /\ Distinct(k.todo)
            /\ k.read = job[p].read /\ k.at = job[p].at,
         UNCHANGED <<now, fixed, fired, twice, overlapped, cut, commands, failures>>
  PROVE  IInv'
<1>1. Types /\ InHandIs /\ HandIs(p) /\ UNCHANGED <<zone, schedule>> BY DEF IInv, InHandIs, fixed
<1>2. /\ a \in InHand(p) /\ a \in Autos /\ a \in DOMAIN job[p].read
      /\ job[p] \in Jobs /\ job[p].at \in Nat
  BY <1>1, HeadIs DEF Working
<1>3. /\ job' \in [Procs -> Jobs] /\ job'[p] = k /\ InHand(p)' = Range(k.todo)
      /\ \A q \in Procs \ {p} : job'[q] = job[q] /\ InHand(q)' = InHand(q)
  BY <1>1, JobAfter
<1>4. row' \in [Autos -> Row] /\ row'[a] = new /\ \A b \in Autos \ {a} : row'[b] = row[b]
  BY <1>1, <1>2 DEF Types
<1>5. Types' BY <1>1, <1>3, <1>4 DEF Types
<1>6. HandIs(p)'
  <2>1. CASE k = Idle
    <3>1. Distinct(<<>>) BY DEF Distinct
    <3>2. 0 <= now BY <1>1, ConstantsAre DEF Types
    <3> QED BY <1>3, <2>1, <3>1, <3>2, IdleIs DEF HandIs, Working
  <2>2. CASE k # Idle BY <1>1, <1>3, <2>2 DEF HandIs, Working
  <2> QED BY <2>1, <2>2
<1>7. InHandIs'
  <2>1. now' >= now BY <1>1, ConstantsAre DEF Types
  <2> QED BY <1>1, <1>3, <1>5, <1>6, <2>1, OtherHands DEF InHandIs
<1>8. /\ NextRun(a, job[p].at) \in Nat \ {0}
      /\ Steady(a) => NextRun(a, job[p].at) > job[p].at
  BY <1>1, <1>2, NextRunIsLater DEF Types
<1>9. RowsAre'
  <2>1. ASSUME NEW b \in Autos
        PROVE  /\ row'[b].next = Never \/ row'[b].next = NextRun(b, row[b].from)'
               /\ b \notin overlapped' => (row'[b].enabled => row'[b].next # Never)
               /\ fired'[b] <= now'
    <3>1. /\ row[b].next = Never \/ row[b].next = NextRun(b, row[b].from)
          /\ b \notin overlapped => (row[b].enabled => row[b].next # Never)
          /\ fired[b] <= now
      BY DEF IInv, RowsAre
    <3>2. CASE b # a
      <4>1. NextRun(b, row[b].from)' = NextRun(b, row[b].from) BY <1>4, <3>2, FixedStays
      <4> QED BY <1>4, <3>1, <3>2, <4>1
    <3>3. CASE b = a
      <4>1. NextRun(b, row[b].from)' = NextRun(a, job[p].at) BY <1>4, <3>3, FixedStays
      <4> QED BY <1>4, <1>8, <3>1, <3>3, <4>1 DEF Never
    <3> QED BY <3>2, <3>3
  <2> QED BY <2>1 DEF RowsAre
<1>10. ASSUME NEW b \in Autos \ overlapped' PROVE Alone(b)'
  <2>1. Alone(b) BY <1>10 DEF IInv
  <2>2. \A q \in Procs : b \in InHand(q)' => b \in InHand(q) BY <1>3
  <2>3. \A q1, q2 \in Procs : b \in InHand(q1)' /\ b \in InHand(q2)' => q1 = q2
    BY <2>1, <2>2 DEF Alone
  <2>4. ASSUME NEW q \in Procs, b \in InHand(q)'
        PROVE  (job'[q].step # "set" => job'[q].read[b] = row'[b]) /\ fired'[b] <= job'[q].at
    <3>1. b \in InHand(q) /\ fired[b] <= job[q].at /\ (job[q].step # "set" => job[q].read[b] = row[b])
      BY <2>1, <2>2, <2>4 DEF Alone
    <3>2. b # a
      <4>1. CASE q = p BY <1>3, <2>4, <4>1
      <4>2. CASE q # p BY <1>2, <2>1, <3>1, <4>2 DEF Alone
      <4> QED BY <4>1, <4>2
    <3>3. row'[b] = row[b] /\ fired'[b] = fired[b] BY <1>4, <1>10, <3>2
    <3>4. CASE q # p BY <1>3, <3>1, <3>3, <3>4
    <3>5. CASE q = p
      <4>1. k # Idle BY <1>3, <2>4, <3>5, IdleIs
      <4> QED BY <1>3, <3>1, <3>3, <3>5, <4>1
    <3> QED BY <3>4, <3>5
  <2> QED BY <2>3, <2>4 DEF Alone
<1>11. ASSUME NEW b \in Autos \ (overlapped' \cup cut'), Steady(b)' PROVE Ahead(b)'
  <2>1. Ahead(b) /\ Alone(b) /\ Steady(b) BY <1>11, FixedStays DEF IInv
  <2>2. CASE b = a
    <3>1. fired[a] \in Nat /\ fired[a] <= job[p].at BY <1>1, <1>2, <2>1, <2>2 DEF Types, Alone
    <3>2. fired' = fired /\ row'[b] = new BY <1>4, <2>2
    <3>3. Steady(a) BY <2>1, <2>2
    <3>4. new.next = Never \/ new.next > fired[a] BY <1>2, <1>8, <3>1, <3>3
    <3> QED BY <2>2, <3>2, <3>4 DEF Ahead
  <2>3. CASE b # a
    <3>1. ASSUME NEW q \in Servers, job[q].step = "update", b = Head(job[q].todo) PROVE job'[q] = job[q]
      BY <1>3, <2>3, <3>1 DEF Procs
    <3> QED BY <1>4, <1>11, <2>1, <2>3, <3>1 DEF Ahead, Moving
  <2> QED BY <2>2, <2>3
<1>12. LaunchedOnce' BY FixedStays DEF IInv, LaunchedOnce
<1> QED BY <1>5, <1>7, <1>9, <1>10, <1>11, <1>12 DEF IInv

\* A command begins on one automation.
LEMMA CommandKeeps ==
  ASSUME IInv, NEW u \in Users, Command(u)
  PROVE  IInv'
<1>1. /\ commands < MaxCommands /\ commands' = commands + 1
      /\ UNCHANGED <<now, fixed, row, fired, twice, cut, failures>>
      /\ Types /\ u \in Procs /\ u \notin Servers
  BY AutomationsAssumption DEF Command, IInv, Procs
<1>2. commands' \in 0..MaxCommands BY <1>1, ConstantsAre DEF Types
<1>3. PICK a \in Autos :
        \/ \E on \in BOOLEAN : Begin(u, "set", <<a>>, [x \in {a} |-> [row[a] EXCEPT !.enabled = on]])
        \/ Begin(u, "create", <<a>>, [x \in {a} |-> row[a]])
  BY DEF Command
<1>4. <<a>> \in Seq(Autos) /\ <<a>> # <<>> /\ Distinct(<<a>>) /\ Range(<<a>>) = {a}
  BY DEF Distinct, Range
<1>5. row[a] \in Row BY <1>1 DEF Types
<1>6. ASSUME NEW r \in Row PROVE [x \in {a} |-> r] \in Reads
  <2>1. [x \in {a} |-> r] \in [{a} -> Row] /\ {a} \in SUBSET Autos OBVIOUS
  <2> QED BY <2>1 DEF Reads
<1>7. ASSUME NEW on \in BOOLEAN, Begin(u, "set", <<a>>, [x \in {a} |-> [row[a] EXCEPT !.enabled = on]])
      PROVE  IInv'
  <2> DEFINE r == [row[a] EXCEPT !.enabled = on]
  <2>1. r \in Row BY <1>5 DEF Row
  <2> HIDE DEF r
  <2>2. [x \in {a} |-> r] \in Reads /\ Range(<<a>>) \subseteq DOMAIN [x \in {a} |-> r] BY <1>4, <1>6, <2>1
  <2>3. Begin(u, "set", <<a>>, [x \in {a} |-> r]) BY <1>7 DEF r
  <2> QED BY <1>1, <1>2, <1>4, <2>2, <2>3, BeginKeeps
<1>8. ASSUME Begin(u, "create", <<a>>, [x \in {a} |-> row[a]])
      PROVE  IInv'
  <2> DEFINE r == [x \in {a} |-> row[a]]
  <2>1. r \in Reads /\ Range(<<a>>) \subseteq DOMAIN r /\ \A x \in Range(<<a>>) : r[x] = row[x]
    BY <1>4, <1>5, <1>6
  <2> HIDE DEF r
  <2>2. Begin(u, "create", <<a>>, r) BY <1>8 DEF r
  <2> QED BY <1>1, <1>2, <1>4, <2>1, <2>2, BeginKeeps
<1> QED BY <1>3, <1>7, <1>8

\* A pass begins on what is due.
LEMMA RunDueKeeps ==
  ASSUME IInv, NEW s \in Servers, RunDue(s)
  PROVE  IInv'
<1> DEFINE due == {a \in Autos : Due(a)}
           r == [a \in due |-> row[a]]
<1>1. /\ UNCHANGED <<now, fixed, row, fired, twice, cut, commands, failures>>
      /\ due # {} /\ Types /\ s \in Procs
  BY DEF RunDue, IInv, Procs
<1>2. PICK as \in Ordered(due) : Begin(s, "create", as, r) BY DEF RunDue
<1>3. as \in Seq(Autos) /\ as # <<>> /\ Distinct(as) /\ Range(as) = due BY <1>1, OrderIs
<1>4. \A a \in due : row[a] \in Row /\ row[a].next \in 1..now
  <2>1. \A a \in Autos : row[a] \in Row /\ row[a].next \in Nat BY <1>1 DEF Types, Row
  <2>2. now \in Nat BY <1>1, ConstantsAre DEF Types
  <2> QED BY <2>1, <2>2 DEF Due, Never
<1>5. due \in SUBSET Autos OBVIOUS
<1> HIDE DEF due
<1>6. r \in Reads /\ DOMAIN r = due /\ \A a \in due : r[a] = row[a] /\ r[a].next \in 1..now
  <2>1. r \in [due -> Row] BY <1>4
  <2> QED BY <1>4, <1>5, <2>1 DEF Reads
<1> HIDE DEF r
<1>7. commands' \in 0..MaxCommands BY <1>1 DEF Types
<1> QED BY <1>1, <1>2, <1>3, <1>6, <1>7, BeginKeeps

\* The UPDATE after a task.
LEMMA UpdateStepKeeps ==
  ASSUME IInv, NEW p \in Procs, Update(p)
  PROVE  IInv'
<1>0. PICK a : a = Head(job[p].todo) OBVIOUS
<1>1. /\ job[p].step = "update" /\ row' = [row EXCEPT ![a] = Rescheduled(p, a)] /\ Goes(p, Onward(p))
      /\ UNCHANGED <<now, fixed, fired, twice, overlapped, cut, commands, failures>>
      /\ Types /\ InHandIs
  BY <1>0 DEF Update, IInv
<1>2. a \in InHand(p) /\ a \in Autos /\ a \in DOMAIN job[p].read BY <1>0, <1>1, HeadIs DEF Working
<1>3. /\ Rescheduled(p, a) \in Row /\ Rescheduled(p, a).enabled = row[a].enabled
      /\ Rescheduled(p, a).from = job[p].at
      /\ Rescheduled(p, a).next = IF job[p].read[a].enabled THEN NextRun(a, job[p].at) ELSE Never
  BY <1>1, <1>2, RescheduledIs
<1>4. a \notin overlapped => job[p].read[a] = row[a]
  BY <1>1, <1>2 DEF IInv, Alone
<1>5. /\ Onward(p) \in Jobs /\ Range(Onward(p).todo) \subseteq InHand(p) /\ a \notin Range(Onward(p).todo)
      /\ \/ Onward(p) = Idle
         \/ /\ Onward(p).step = "create" /\ Onward(p).todo # <<>> /\ Distinct(Onward(p).todo)
            /\ Onward(p).read = job[p].read /\ Onward(p).at = job[p].at
  BY <1>0, <1>1, OnwardIs DEF Working
<1> DEFINE new == Rescheduled(p, a)
           k == Onward(p)
<1> HIDE DEF new, k
<1>6. /\ new \in Row /\ row' = [row EXCEPT ![a] = new] /\ new.from = job[p].at
      /\ new.next = IF job[p].read[a].enabled THEN NextRun(a, job[p].at) ELSE Never
      /\ a \notin overlapped => (new.enabled => job[p].read[a].enabled)
  BY <1>1, <1>3, <1>4 DEF new
<1>7. /\ k \in Jobs /\ Goes(p, k) /\ Range(k.todo) \subseteq InHand(p) /\ a \notin Range(k.todo)
      /\ \/ k = Idle
         \/ /\ job[p].step = "update" /\ k.step = "create" /\ k.todo # <<>> /\ Distinct(k.todo)
            /\ k.read = job[p].read /\ k.at = job[p].at
  BY <1>1, <1>5 DEF k
<1> QED BY <1>0, <1>1, <1>6, <1>7, UpdateKeeps

\* The UPDATE of set_enabled.
LEMMA SetEnabledKeeps ==
  ASSUME IInv, NEW u \in Users, SetEnabled(u)
  PROVE  IInv'
<1>0. PICK a : a = Head(job[u].todo) OBVIOUS
<1> DEFINE on  == job[u].read[a].enabled
           new == [Rescheduled(u, a) EXCEPT !.enabled = on]
<1>1. /\ job[u].step = "set" /\ row' = [row EXCEPT ![a] = new] /\ Goes(u, Idle)
      /\ UNCHANGED <<now, fixed, fired, twice, overlapped, cut, commands, failures>>
      /\ Types /\ InHandIs /\ u \in Procs
  BY <1>0 DEF SetEnabled, IInv, Procs
<1>2. a \in InHand(u) /\ a \in Autos /\ a \in DOMAIN job[u].read /\ job[u] \in Jobs
  BY <1>0, <1>1, HeadIs DEF Working
<1>3. on \in BOOLEAN BY <1>2 DEF Jobs, Reads, Row
<1>4. /\ new \in Row /\ new.enabled = on /\ new.from = job[u].at
      /\ new.next = IF on THEN NextRun(a, job[u].at) ELSE Never
  BY <1>1, <1>2, <1>3, RescheduledIs
<1> HIDE DEF new
<1>5. Idle \in Jobs /\ Range(Idle.todo) = {} BY IdleIs
<1> QED BY <1>0, <1>1, <1>4, <1>5, UpdateKeeps

\* At the start nobody has anything in hand, and nothing was launched.
LEMMA InitIs == Init => IInv
<1> SUFFICES ASSUME Init PROVE IInv OBVIOUS
<1>1. Idle \in Jobs /\ Idle.step \notin Working /\ Idle.todo = <<>> /\ Range(<<>>) = {} /\ Idle.at = 0
  BY IdleIs DEF Working
<1>2. /\ now = 0 /\ zone \in Zones /\ schedule \in Schedules
      /\ job = [p \in Procs |-> Idle] /\ fired = [a \in Autos |-> Never]
      /\ twice = {} /\ overlapped = {} /\ cut = {} /\ commands = 0 /\ failures = 0
  BY DEF Init
<1>3. PICK ons \in SUBSET Autos : row = [a \in Autos |-> Created(a, a \in ons)] BY DEF Init
<1>4. ASSUME NEW a \in Autos
      PROVE  /\ row[a] \in Row /\ (row[a].enabled => row[a].next # Never)
             /\ row[a].next = Never \/ row[a].next = NextRun(a, row[a].from)
  <2>1. NextRun(a, 0) \in Nat \ {0} BY <1>2, NextRunIsLater
  <2>2. row[a] = [enabled |-> a \in ons, next |-> IF a \in ons THEN NextRun(a, 0) ELSE Never, from |-> 0]
    BY <1>3 DEF Created
  <2>3. CASE a \in ons
    <3>1. row[a] = [enabled |-> TRUE, next |-> NextRun(a, 0), from |-> 0] BY <2>2, <2>3
    <3> QED BY <2>1, <3>1 DEF Row, Never
  <2>4. CASE a \notin ons
    <3>1. (a \in ons) = FALSE BY <2>4
    <3>2. row[a] = [enabled |-> FALSE, next |-> IF FALSE THEN NextRun(a, 0) ELSE Never, from |-> 0]
      BY <2>2, <3>1
    <3> QED BY <3>2 DEF Row, Never
  <2> QED BY <2>3, <2>4
<1>5. Types
  <2>1. row \in [Autos -> Row] BY <1>3, <1>4
  <2> QED BY <1>1, <1>2, <2>1, ConstantsAre DEF Types, Never
<1>6. InHandIs
  <2>1. Distinct(<<>>) BY DEF Distinct
  <2> QED BY <1>1, <1>2, <2>1 DEF InHandIs, HandIs, InHand
<1>7. RowsAre BY <1>2, <1>4 DEF RowsAre, Never
<1>8. \A a \in Autos : Alone(a) BY <1>1, <1>2 DEF Alone, InHand
<1>9. \A a \in Autos : Ahead(a)
  <2>1. \A a \in Autos : row[a].next \in Nat BY <1>4 DEF Row
  <2> QED BY <1>2, <2>1 DEF Ahead, Never
<1> QED BY <1>2, <1>5, <1>6, <1>7, <1>8, <1>9 DEF IInv, LaunchedOnce

\* Every step keeps the invariant.
LEMMA StepKeeps == IInv /\ [Next]_vars => IInv'
<1> SUFFICES ASSUME IInv, [Next]_vars PROVE IInv' OBVIOUS
<1>1. CASE Tick BY <1>1, TickKeeps
<1>2. CASE \E u \in Users : Command(u) BY <1>2, CommandKeeps
<1>3. CASE \E u \in Users : SetEnabled(u) BY <1>3, SetEnabledKeeps
<1>4. CASE \E s \in Servers : RunDue(s) BY <1>4, RunDueKeeps
<1>5. CASE \E p \in Procs : CreateTask(p) BY <1>5, CreateTaskKeeps
<1>6. CASE \E p \in Procs : Update(p) BY <1>6, UpdateStepKeeps
<1>7. ASSUME NEW p \in Procs, Fails(p) PROVE IInv'
  <2> DEFINE k == IF p \in Servers THEN Ended ELSE Idle
  <2>1. /\ Goes(p, k) /\ UNCHANGED <<now, fixed, row, fired, twice, overlapped, commands>>
        /\ cut' = IF job[p].step = "update" THEN cut \cup {Head(job[p].todo)} ELSE cut
        /\ failures < MaxFailures /\ failures' = failures + 1
    BY <1>7 DEF Fails
  <2>2. failures' \in 0..MaxFailures BY <2>1, ConstantsAre DEF IInv, Types
  <2>3. k \in {Idle, Ended} OBVIOUS
  <2> HIDE DEF k
  <2> QED BY <2>1, <2>2, <2>3, LeavesKeeps
<1>8. ASSUME NEW s \in Servers, Restart(s) PROVE IInv'
  <2>1. /\ job[s] = Ended /\ Goes(s, Idle) /\ s \in Procs
        /\ UNCHANGED <<now, fixed, row, fired, twice, overlapped, cut, commands, failures>>
    BY <1>8 DEF Restart, Procs
  <2>2. failures' \in 0..MaxFailures /\ job[s].step # "update" BY <2>1, IdleIs DEF IInv, Types
  <2> QED BY <2>1, <2>2, LeavesKeeps
<1>9. CASE UNCHANGED vars
  <2>1. /\ UNCHANGED <<now, zone, schedule, row, job, fired, twice, overlapped, cut, commands, failures>>
        /\ UNCHANGED fixed
    BY <1>9 DEF vars, fixed
  <2>2. Types' /\ InHandIs' BY <2>1 DEF IInv, Types, InHandIs, HandIs, InHand
  <2>3. RowsAre' BY <2>1, FixedStays DEF IInv, RowsAre
  <2>4. \A a \in Autos : (Alone(a)' <=> Alone(a)) /\ (Ahead(a)' <=> Ahead(a))
    BY <2>1 DEF Alone, Ahead, Moving, InHand
  <2>5. LaunchedOnce' BY <2>1, FixedStays DEF IInv, LaunchedOnce
  <2> QED BY <2>1, <2>2, <2>3, <2>4, <2>5, FixedStays DEF IInv
<1> QED
  BY <1>1, <1>2, <1>3, <1>4, <1>5, <1>6, <1>7, <1>8, <1>9 DEF Next, Serve, Procs

\* The invariant is inductive.
LEMMA Invariant == Spec => []IInv
  BY InitIs, StepKeeps, PTL DEF Spec

-----------------------------------------------------------------------------
(* The theorems.                                                           *)

\* Every variable keeps to its values: rows, and what each process has in hand and has
\* read (automation_manager.py:476-575).
THEOREM TypesAreRight == Spec => []TypeOK
<1>1. ASSUME IInv PROVE TypeOK
  <2>1. ASSUME NEW p \in Procs
        PROVE  /\ job[p].step \in {"idle", "create", "update", "set", "ended"}
               /\ job[p].step \in {"create", "update", "set"} <=> job[p].todo # <<>>
               /\ Range(job[p].todo) \subseteq DOMAIN job[p].read
               /\ \A a \in DOMAIN job[p].read : a \in Autos /\ job[p].read[a] \in Row
    <3>1. job[p] \in Jobs /\ HandIs(p) BY <1>1 DEF IInv, Types, InHandIs
    <3>2. PICK as \in SUBSET Autos : job[p].read \in [as -> Row] BY <3>1 DEF Jobs, Reads
    <3>3. DOMAIN job[p].read = as BY <3>2
    <3> QED BY <3>1, <3>2, <3>3 DEF Jobs, HandIs, InHand, Working
  <2> QED BY <1>1, <2>1 DEF IInv, Types, TypeOK
<1> QED BY <1>1, Invariant, PTL

\* The next run of a steady automation is after the time it was computed from, and no
\* wall time of its schedule between is left out but one the clock had passed: what
\* next_run_after gives, through every write of the row (automation_manager.py:196-257).
THEOREM NextRunsAreFirst == Spec => []NextIsFirst
<1>1. ASSUME IInv PROVE NextIsFirst
  <2>1. ASSUME NEW a \in Autos, row[a].next # Never, Steady(a)
        PROVE  LET s == schedule[a]
                   from == row[a].from
                   next == row[a].next
                   walls == {w \in 0..(next + Shift) : IsWallOf(s, w)}
               IN  /\ from < next
                   /\ s.kind # "interval" =>
                        /\ \E w \in walls : \E fold \in {0, 1} : next = Utc(zone, w, fold)
                        /\ \A w \in walls : \A fold \in {0, 1} :
                             from < Utc(zone, w, fold) /\ Utc(zone, w, fold) < next => w <= Wall(zone, from)
    <3>1. PICK from : from = row[a].from OBVIOUS
    <3>2. PICK next : next = row[a].next OBVIOUS
    <3>3. from \in Nat /\ next = NextRun(a, from) BY <1>1, <2>1, <3>1, <3>2 DEF IInv, RowsAre, Types, Row
    <3>4. Valid(schedule[a]) /\ zone \in AllZones
      BY <1>1, AutomationsAssumption DEF IInv, Types, AllZones
    <3> QED BY <2>1, <3>1, <3>2, <3>3, <3>4, FirstRun
  <2> QED BY <2>1 DEF NextIsFirst
<1> QED BY <1>1, Invariant, PTL

\* An automation that is enabled has a next run, whatever fails, as long as no two
\* operations on it overlap: what an operation read of it is what the row still is
\* (automation_manager.py:476-509, 561-575).
THEOREM EnabledRunsAgain == Spec => []EnabledIsScheduled
<1>1. IInv => EnabledIsScheduled BY DEF IInv, RowsAre, EnabledIsScheduled
<1> QED BY <1>1, Invariant, PTL

\* Servers launch a steady automation at most once for each moment and in their order,
\* unless two operations on it overlapped or one was cut off: a server has it in hand
\* alone, and moves it on past what it launched (automation_manager.py:490-575).
THEOREM MomentsAreLaunchedOnce == Spec => []LaunchedOnce
<1>1. IInv => LaunchedOnce BY DEF IInv
<1> QED BY <1>1, Invariant, PTL
=============================================================================
