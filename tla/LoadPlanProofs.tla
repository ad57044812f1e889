---------------------------- MODULE LoadPlanProofs ----------------------------
(***************************************************************************)
(* The load plans, the windows of the analyzers and the helpers for every  *)
(* option, ladder, key, weight and sample.                                 *)
(*                                                                         *)
(* What a recursive function computes is proved in two steps.  Iterates    *)
(* gives a function that satisfies the equation, so that the one the       *)
(* definition chooses does; a property of its values follows by Induction, *)
(* which is the least-number principle for sets of natural numbers.        *)
(***************************************************************************)
EXTENDS LoadPlan, WellFoundedInduction, TLAPS

-----------------------------------------------------------------------------
(* Induction over the natural numbers, stated for sets                     *)

LEMMA LeastNumber ==
  ASSUME NEW T \in SUBSET Nat, T # {}
  PROVE  \E m \in T : \A n \in T : m <= n
<1>. DEFINE R == {ss \in Nat \X Nat : ss[1] < ss[2]}
<1>1. IsWellFoundedOn(R, Nat)
  <2>1. R = OpToRel(<, Nat)
    BY DEF OpToRel
  <2>. QED
    BY <2>1, NatLessThanWellFounded
<1>2. \E m \in T : \A n \in T : ~(<<n, m>> \in R)
  BY <1>1, WFMin, Zenon
<1>3. PICK m \in T : \A n \in T : ~(<<n, m>> \in R)
  BY <1>2
<1>4. ASSUME NEW n \in T PROVE m <= n
  <2>1. m \in Nat /\ n \in Nat /\ ~(<<n, m>> \in R)
    BY <1>3
  <2>2. ~(n < m)
    BY <2>1
  <2>. QED
    BY <2>1, <2>2
<1>. QED
  BY <1>3, <1>4

LEMMA Induction ==
  ASSUME NEW S \in SUBSET Nat, 0 \in S, \A n \in S : n + 1 \in S
  PROVE  \A n \in Nat : n \in S
<1>. DEFINE T == Nat \ S
<1>1. CASE T # {}
  <2>1. PICK m \in T : \A n \in T : m <= n
    BY <1>1, LeastNumber
  <2>2. m # 0 /\ m - 1 \in Nat /\ m - 1 \notin T
    BY <2>1
  <2>3. (m - 1) + 1 \in S
    BY <2>2
  <2>. QED
    BY <2>1, <2>3
<1>. QED
  BY <1>1

\* A function that begins with a and goes on by step.
Follows(f, n, a, step) == f[0] = a /\ \A i \in 1 .. n : f[i] = step[<<i, f[i - 1]>>]

LEMMA Iterates ==
  ASSUME NEW S, NEW a \in S, NEW n \in Nat, NEW step \in [(1 .. n) \X S -> S]
  PROVE  \E f \in [0 .. n -> S] : Follows(f, n, a, step)
<1>. DEFINE Good == {m \in Nat : m <= n => \E f \in [0 .. m -> S] : Follows(f, m, a, step)}
<1>1. 0 \in Good
  <2>1. [i \in 0 .. 0 |-> a] \in [0 .. 0 -> S] /\ Follows([i \in 0 .. 0 |-> a], 0, a, step)
    BY DEF Follows
  <2>. QED
    BY <2>1
<1>2. ASSUME NEW m \in Good PROVE m + 1 \in Good
  <2>. SUFFICES ASSUME m + 1 <= n
                PROVE  \E g \in [0 .. m + 1 -> S] : Follows(g, m + 1, a, step)
    OBVIOUS
  <2>1. PICK f \in [0 .. m -> S] : Follows(f, m, a, step)
    OBVIOUS
  <2>. DEFINE g == [i \in 0 .. m + 1 |-> IF i <= m THEN f[i] ELSE step[<<m + 1, f[m]>>]]
  <2>2. step[<<m + 1, f[m]>>] \in S
    <3>1. m + 1 \in 1 .. n /\ f[m] \in S
      OBVIOUS
    <3>2. <<m + 1, f[m]>> \in (1 .. n) \X S
      BY <3>1
    <3>. QED
      BY <3>2
  <2>3. g \in [0 .. m + 1 -> S]
    <3>1. ASSUME NEW i \in 0 .. m + 1 PROVE g[i] \in S
      <4>1. CASE i <= m
        BY <4>1
      <4>2. CASE ~(i <= m)
        BY <2>2, <4>2
      <4>. QED
        BY <4>1, <4>2
    <3>. QED
      BY <3>1
  <2>4. Follows(g, m + 1, a, step)
    <3>1. g[0] = a
      BY <2>1 DEF Follows
    <3>2. ASSUME NEW i \in 1 .. m + 1 PROVE g[i] = step[<<i, g[i - 1]>>]
      <4>1. CASE i <= m
        BY <2>1, <4>1 DEF Follows
      <4>2. CASE i = m + 1
        <5>1. g[m] = f[m] /\ g[m + 1] = step[<<m + 1, f[m]>>]
          OBVIOUS
        <5>2. i - 1 = m
          BY <4>2
        <5>. HIDE DEF g
        <5>. QED
          BY <4>2, <5>1, <5>2
      <4>. QED
        BY <4>1, <4>2
    <3>. HIDE DEF g
    <3>. QED
      BY <3>1, <3>2 DEF Follows
  <2>. QED
    BY <2>3, <2>4
<1>. HIDE DEF Good
<1>3. n \in Good
  <2>1. Good \in SUBSET Nat
    BY DEF Good
  <2>. QED
    BY <1>1, <1>2, <2>1, Induction
<1>. QED
  BY <1>3 DEF Good

\* Induction up to a bound.
LEMMA UpTo ==
  ASSUME NEW n \in Nat, NEW G, 0 \in G, \A i \in 1 .. n : i - 1 \in G => i \in G
  PROVE  \A i \in 0 .. n : i \in G
<1>. DEFINE Good == {m \in Nat : m <= n => m \in G}
<1>1. 0 \in Good
  OBVIOUS
<1>2. ASSUME NEW m \in Good PROVE m + 1 \in Good
  <2>. SUFFICES ASSUME m + 1 <= n PROVE m + 1 \in G
    OBVIOUS
  <2>1. m + 1 \in 1 .. n /\ (m + 1) - 1 = m /\ m \in G
    OBVIOUS
  <2>. QED
    BY <2>1
<1>3. Good \in SUBSET Nat
  OBVIOUS
<1>. HIDE DEF Good
<1>4. \A m \in Nat : m \in Good
  BY <1>1, <1>2, <1>3, Induction
<1>. QED
  BY <1>4 DEF Good

\* A set that a function begins in and never leaves.
LEMMA StaysIn ==
  ASSUME NEW f, NEW S, NEW n \in Nat, f[0] \in S,
         \A i \in 1 .. n : f[i - 1] \in S => f[i] \in S
  PROVE  \A i \in 0 .. n : f[i] \in S
<1>. DEFINE G == {i \in 0 .. n : f[i] \in S}
<1>1. 0 \in G
  OBVIOUS
<1>2. \A i \in 1 .. n : i - 1 \in G => i \in G
  OBVIOUS
<1>3. \A i \in 0 .. n : i \in G
  <2>. HIDE DEF G
  <2>. QED
    BY <1>1, <1>2, UpTo
<1>. QED
  BY <1>3

-----------------------------------------------------------------------------
(* When the stages of a scenario end                                       *)

StageType    == [target : Nat, duration : Nat]
ScenarioType == [start : Nat, from : Nat, stages : Seq(StageType), stop : Nat]

LEMMA EndsAre ==
  ASSUME NEW sc \in ScenarioType
  PROVE  /\ Ends(sc)[0] = sc.start
         /\ \A i \in 1 .. Len(sc.stages) : Ends(sc)[i] = Ends(sc)[i - 1] + sc.stages[i].duration
         /\ \A i \in 0 .. Len(sc.stages) : Ends(sc)[i] \in Nat
<1>. DEFINE n == Len(sc.stages)
            step == [w \in (1 .. n) \X Nat |-> w[2] + sc.stages[w[1]].duration]
<1>1. n \in Nat /\ sc.start \in Nat /\ \A i \in 1 .. n : sc.stages[i].duration \in Nat
  <2>1. sc.start \in Nat /\ sc.stages \in Seq(StageType)
    BY DEF ScenarioType
  <2>2. ASSUME NEW i \in 1 .. n PROVE sc.stages[i] \in StageType
    BY <2>1
  <2>. QED
    BY <2>1, <2>2 DEF StageType
<1>. HIDE DEF n
<1>2. step \in [(1 .. n) \X Nat -> Nat]
  BY <1>1
<1>3. PICK f \in [0 .. n -> Nat] : Follows(f, n, sc.start, step)
  <2>. HIDE DEF step
  <2>. QED
    BY <1>1, <1>2, Iterates
<1>4. f = [i \in 0 .. n |-> IF i = 0 THEN sc.start ELSE f[i - 1] + sc.stages[i].duration]
  <2>1. ASSUME NEW i \in 1 .. n PROVE f[i] = f[i - 1] + sc.stages[i].duration
    <3>1. <<i, f[i - 1]>> \in (1 .. n) \X Nat
      BY <1>1
    <3>. QED
      BY <1>3, <3>1 DEF Follows
  <2>. HIDE DEF step
  <2>2. f[0] = sc.start
    BY <1>3 DEF Follows
  <2>. QED
    BY <1>1, <2>1, <2>2
<1>. HIDE DEF step
<1>5. Ends(sc) = [i \in 0 .. n |-> IF i = 0 THEN sc.start
                                            ELSE Ends(sc)[i - 1] + sc.stages[i].duration]
  BY <1>4 DEF Ends, n
<1>6. /\ Ends(sc)[0] = sc.start
      /\ \A i \in 1 .. n : Ends(sc)[i] = Ends(sc)[i - 1] + sc.stages[i].duration
  BY <1>1, <1>5
<1>7. \A i \in 0 .. n : Ends(sc)[i] \in Nat
  <2>1. ASSUME NEW i \in 1 .. n, Ends(sc)[i - 1] \in Nat PROVE Ends(sc)[i] \in Nat
    <3>1. Ends(sc)[i] = Ends(sc)[i - 1] + sc.stages[i].duration /\ sc.stages[i].duration \in Nat
      BY <1>1, <1>6
    <3>. QED
      BY <2>1, <3>1
  <2>2. Ends(sc)[0] \in Nat
    BY <1>1, <1>6
  <2>. QED
    BY <1>1, <2>1, <2>2, StaysIn
<1>. QED
  BY <1>6, <1>7 DEF n

\* A scenario that is steady for some time is so for every part of it.
LEMMA SteadyWithin ==
  ASSUME NEW sc \in ScenarioType, NEW rate, NEW a \in Int, NEW b \in Int,
         NEW c \in Int, NEW d \in Int, SteadyAt(sc, rate, a, b), a <= c, d <= b
  PROVE  SteadyAt(sc, rate, c, d)
<1>1. \A i \in 1 .. Len(sc.stages) : Ends(sc)[i - 1] \in Nat /\ Ends(sc)[i] \in Nat
  <2>1. Len(sc.stages) \in Nat
    BY DEF ScenarioType
  <2>. QED
    BY <2>1, EndsAre
<1>2. DOMAIN sc.stages = 1 .. Len(sc.stages)
  BY DEF ScenarioType
<1>3. PICK i \in 1 .. Len(sc.stages) :
        /\ sc.stages[i].target = rate
        /\ rate = IF i = 1 THEN sc.from ELSE sc.stages[i - 1].target
        /\ Ends(sc)[i - 1] <= a /\ b <= Ends(sc)[i]
  BY <1>2 DEF SteadyAt
<1>4. Ends(sc)[i - 1] <= c /\ d <= Ends(sc)[i]
  BY <1>1, <1>3
<1>. QED
  BY <1>2, <1>3, <1>4 DEF SteadyAt

\* One stage at one rate.
LEMMA ConstantScenario ==
  ASSUME NEW start \in Nat, NEW rate \in Nat, NEW duration \in Nat, NEW stop \in Nat
  PROVE  /\ Constant(start, rate, duration, stop) \in ScenarioType
         /\ Over(Constant(start, rate, duration, stop)) = start + duration + stop
         /\ SteadyAt(Constant(start, rate, duration, stop), rate, start, start + duration)
<1>. DEFINE sc == Constant(start, rate, duration, stop)
<1>1. /\ sc \in ScenarioType
      /\ sc.start = start /\ sc.from = rate /\ sc.stop = stop
      /\ Len(sc.stages) = 1 /\ DOMAIN sc.stages = {1}
      /\ sc.stages[1].target = rate /\ sc.stages[1].duration = duration
  BY DEF Constant, Scenario, RateStage, ScenarioType, StageType
<1>. HIDE DEF sc
<1>2. Ends(sc)[0] = start /\ Ends(sc)[1] = start + duration
  BY <1>1, EndsAre
<1>3. Over(sc) = start + duration + stop
  BY <1>1, <1>2 DEF Over
<1>4. SteadyAt(sc, rate, start, start + duration)
  BY <1>1, <1>2 DEF SteadyAt
<1>. QED
  BY <1>1, <1>3, <1>4 DEF sc

-----------------------------------------------------------------------------
(* Ladders and their schedules                                             *)

\* The ends e of stages that climb and hold by turns.
Rungs(e, steps, first, ramp, hold) ==
  /\ e[0] = first
  /\ \A i \in 0 .. 2 * Len(steps) : e[i] \in Nat
  /\ \A k \in 1 .. Len(steps) : /\ e[2 * k - 1] = e[2 * k - 2] + ramp
                                /\ e[2 * k] = e[2 * k - 1] + hold

\* The schedule is the one of a scenario that climbs the same ladder.
LEMMA ScheduleIs ==
  ASSUME NEW steps \in Seq(Nat), NEW first \in Nat, NEW ramp \in Nat, NEW hold \in Nat,
         NEW e, Rungs(e, steps, first, ramp, hold)
  PROVE  /\ DOMAIN Schedule(steps, first, ramp, hold) = 1 .. Len(steps)
         /\ \A k \in 1 .. Len(steps) :
              Schedule(steps, first, ramp, hold)[k] =
                [rate |-> steps[k], holdStart |-> e[2 * k - 1], holdEnd |-> e[2 * k]]
<1>. DEFINE n == Len(steps)
            At(f) == [k \in 1 .. n |-> IF k = 1 THEN first ELSE f[k - 1] + ramp + hold]
            g == [k \in 1 .. n |-> e[2 * k - 2]]
            t == CHOOSE f : f = At(f)
<1>. USE DEF Rungs
<1>1. n \in Nat
  OBVIOUS
<1>2. g = At(g)
  <2>1. ASSUME NEW k \in 1 .. n, k # 1 PROVE g[k] = g[k - 1] + ramp + hold
    <3>1. /\ k - 1 \in 1 .. n
          /\ g[k] = e[2 * k - 2] /\ g[k - 1] = e[2 * (k - 1) - 2]
      BY <1>1, <2>1
    <3>2. /\ e[2 * (k - 1) - 1] = e[2 * (k - 1) - 2] + ramp
          /\ e[2 * (k - 1)] = e[2 * (k - 1) - 1] + hold
      BY <3>1
    <3>3. 2 * (k - 1) = 2 * k - 2
      BY <1>1
    <3>. QED
      BY <3>1, <3>2, <3>3
  <2>2. ASSUME 1 \in 1 .. n PROVE g[1] = first
    BY <1>1, <2>2
  <2>. HIDE DEF n
  <2>. QED
    BY <1>1, <2>1, <2>2
<1>. HIDE DEF g
<1>3. t = At(t)
  BY <1>2
<1>. HIDE DEF t
<1>4. \A k \in 1 .. n : t[k] = e[2 * k - 2]
  <2>. DEFINE S == {m \in Nat : m + 1 <= n => t[m + 1] = e[2 * m]}
  <2>1. 0 \in S
    <3>1. ASSUME 1 <= n PROVE t[1] = first /\ e[0] = first
      BY <1>1, <1>3, <3>1
    <3>2. 2 * 0 = 0 /\ 0 + 1 = 1
      OBVIOUS
    <3>. QED
      BY <3>1, <3>2
  <2>2. ASSUME NEW m \in S PROVE m + 1 \in S
    <3>. SUFFICES ASSUME m + 2 <= n PROVE t[m + 2] = e[2 * m + 2]
      OBVIOUS
    <3>1. t[m + 2] = t[m + 1] + ramp + hold
      <4>1. m + 2 \in 1 .. n /\ m + 2 # 1 /\ (m + 2) - 1 = m + 1
        BY <1>1
      <4>. HIDE DEF S, n
      <4>. QED
        BY <1>3, <4>1
    <3>2. t[m + 1] = e[2 * m]
      OBVIOUS
    <3>3. m + 1 \in 1 .. n /\ 2 * (m + 1) = 2 * m + 2
      BY <1>1
    <3>4. e[2 * m + 1] = e[2 * m] + ramp /\ e[2 * m + 2] = e[2 * m + 1] + hold
      BY <3>3
    <3>. QED
      BY <3>1, <3>2, <3>4
  <2>3. S \in SUBSET Nat
    OBVIOUS
  <2>. HIDE DEF S, n
  <2>4. \A m \in Nat : m \in S
    BY <2>1, <2>2, <2>3, Induction
  <2>5. ASSUME NEW k \in 1 .. n PROVE t[k] = e[2 * k - 2]
    <3>1. k - 1 \in S
      BY <1>1, <2>4
    <3>2. (k - 1) + 1 = k /\ 2 * (k - 1) = 2 * k - 2
      OBVIOUS
    <3>. QED
      BY <1>1, <3>1, <3>2 DEF S
  <2>. QED
    BY <2>5
<1>5. Schedule(steps, first, ramp, hold) =
        [k \in 1 .. n |-> [rate |-> steps[k], holdStart |-> t[k] + ramp,
                           holdEnd |-> t[k] + ramp + hold]]
  BY DEF Schedule, t
<1>6. ASSUME NEW k \in 1 .. n
      PROVE  t[k] + ramp = e[2 * k - 1] /\ t[k] + ramp + hold = e[2 * k]
  BY <1>4
<1>7. ASSUME NEW k \in 1 .. n
      PROVE  Schedule(steps, first, ramp, hold)[k] =
               [rate |-> steps[k], holdStart |-> e[2 * k - 1], holdEnd |-> e[2 * k]]
  BY <1>5, <1>6
<1>. QED
  BY <1>5, <1>7

\* A scenario climbs a ladder first.
Climbs(sc, steps, ramp, hold) ==
  /\ 2 * Len(steps) <= Len(sc.stages)
  /\ \A i \in 1 .. 2 * Len(steps) : sc.stages[i] = Ladder(steps, ramp, hold)[i]

\* A scenario that climbs a ladder is steady in every hold.
LEMMA LadderIsSteady ==
  ASSUME NEW steps \in Seq(Nat), NEW ramp \in Nat, NEW hold \in Nat, NEW sc \in ScenarioType,
         Climbs(sc, steps, ramp, hold)
  PROVE  \A k \in 1 .. Len(steps) :
           /\ Ends(sc)[2 * k - 1] = Ends(sc)[2 * k - 2] + ramp
           /\ Ends(sc)[2 * k] = Ends(sc)[2 * k - 1] + hold
           /\ SteadyAt(sc, steps[k], Ends(sc)[2 * k - 1], Ends(sc)[2 * k])
<1>. USE DEF Climbs
<1>1. Len(steps) \in Nat /\ Len(sc.stages) \in Nat /\ DOMAIN sc.stages = 1 .. Len(sc.stages)
  BY DEF ScenarioType
<1>2. SUFFICES ASSUME NEW k \in 1 .. Len(steps)
               PROVE  /\ Ends(sc)[2 * k - 1] = Ends(sc)[2 * k - 2] + ramp
                      /\ Ends(sc)[2 * k] = Ends(sc)[2 * k - 1] + hold
                      /\ SteadyAt(sc, steps[k], Ends(sc)[2 * k - 1], Ends(sc)[2 * k])
  BY <1>1
<1>3. /\ 2 * k - 1 \in 1 .. 2 * Len(steps) /\ 2 * k \in 1 .. 2 * Len(steps)
      /\ 2 * k - 1 \in 1 .. Len(sc.stages) /\ 2 * k \in 1 .. Len(sc.stages)
  BY <1>1
<1>4. /\ (2 * k) \div 2 = k /\ (2 * k + 1) \div 2 = k
      /\ (2 * k - 1) % 2 = 1 /\ (2 * k) % 2 = 0
  BY <1>1
<1>5. sc.stages[2 * k - 1] = RateStage(steps[k], ramp)
  <2>1. Ladder(steps, ramp, hold)[2 * k - 1] =
          RateStage(steps[((2 * k - 1) + 1) \div 2], IF (2 * k - 1) % 2 = 1 THEN ramp ELSE hold)
    BY <1>3 DEF Ladder
  <2>2. (2 * k - 1) + 1 = 2 * k
    OBVIOUS
  <2>. QED
    BY <1>3, <1>4, <2>1, <2>2
<1>6. sc.stages[2 * k] = RateStage(steps[k], hold)
  <2>1. Ladder(steps, ramp, hold)[2 * k] =
          RateStage(steps[(2 * k + 1) \div 2], IF (2 * k) % 2 = 1 THEN ramp ELSE hold)
    BY <1>3 DEF Ladder
  <2>. QED
    BY <1>3, <1>4, <2>1
<1>7. /\ Ends(sc)[2 * k - 1] = Ends(sc)[2 * k - 2] + ramp
      /\ Ends(sc)[2 * k] = Ends(sc)[2 * k - 1] + hold
      /\ Ends(sc)[2 * k - 1] \in Nat /\ Ends(sc)[2 * k] \in Nat
  <2>1. ASSUME NEW i \in 1 .. Len(sc.stages)
        PROVE  Ends(sc)[i] = Ends(sc)[i - 1] + sc.stages[i].duration /\ Ends(sc)[i] \in Nat
    BY <1>1, EndsAre
  <2>2. Ends(sc)[2 * k - 1] = Ends(sc)[2 * k - 2] + ramp /\ Ends(sc)[2 * k - 1] \in Nat
    <3>. DEFINE i == 2 * k - 1
    <3>1. i \in 1 .. Len(sc.stages) /\ i - 1 = 2 * k - 2 /\ sc.stages[i].duration = ramp
      BY <1>3, <1>5 DEF RateStage
    <3>2. Ends(sc)[i] = Ends(sc)[2 * k - 2] + ramp /\ Ends(sc)[i] \in Nat
      <4>. HIDE DEF i
      <4>. QED
        BY <2>1, <3>1
    <3>. QED
      BY <3>2
  <2>3. Ends(sc)[2 * k] = Ends(sc)[2 * k - 1] + hold /\ Ends(sc)[2 * k] \in Nat
    <3>. DEFINE i == 2 * k
    <3>1. i \in 1 .. Len(sc.stages) /\ i - 1 = 2 * k - 1 /\ sc.stages[i].duration = hold
      BY <1>3, <1>6 DEF RateStage
    <3>2. Ends(sc)[i] = Ends(sc)[2 * k - 1] + hold /\ Ends(sc)[i] \in Nat
      <4>. HIDE DEF i
      <4>. QED
        BY <2>1, <3>1
    <3>. QED
      BY <3>2
  <2>. QED
    BY <2>2, <2>3
<1>8. SteadyAt(sc, steps[k], Ends(sc)[2 * k - 1], Ends(sc)[2 * k])
  <2>1. sc.stages[2 * k].target = steps[k] /\ sc.stages[2 * k - 1].target = steps[k] /\ 2 * k # 1
    BY <1>5, <1>6 DEF RateStage
  <2>. DEFINE i == 2 * k
  <2>2. /\ i \in DOMAIN sc.stages /\ i # 1
        /\ sc.stages[i].target = steps[k] /\ sc.stages[i - 1].target = steps[k]
        /\ Ends(sc)[i - 1] <= Ends(sc)[i - 1] /\ Ends(sc)[i] <= Ends(sc)[i]
    BY <1>1, <1>3, <1>7, <2>1
  <2>. HIDE DEF i
  <2>3. SteadyAt(sc, steps[k], Ends(sc)[i - 1], Ends(sc)[i])
    BY <2>2 DEF SteadyAt
  <2>. QED
    BY <2>3 DEF i
<1>. QED
  BY <1>7, <1>8

-----------------------------------------------------------------------------
(* The plans of the scripts                                                *)

\* A plan whose warm-up is over in time and whose schedule is what k6 does.
SoundPlan(p) ==
  /\ p.main \in ScenarioType
  /\ Over(p.warm) <= p.main.start
  /\ \A k \in DOMAIN p.schedule :
       LET e == p.schedule[k] IN
       /\ e.holdStart \in Nat /\ e.holdEnd \in Nat
       /\ SteadyAt(p.main, e.rate, e.holdStart, e.holdEnd)

\* A ladder after a warm-up, perhaps with one more stage behind it.
LEMMA LadderPlan ==
  ASSUME NEW steps \in Seq(Nat), NEW first \in Nat, NEW ramp \in Nat, NEW hold \in Nat,
         NEW stop \in Nat, NEW warm, Over(warm) \in Nat, Over(warm) <= first,
         NEW stages \in {Ladder(steps, ramp, hold),
                         Append(Ladder(steps, ramp, hold), RateStage(0, 5))}
  PROVE  SoundPlan(Plan(warm, Scenario(first, 0, stages, stop),
                        Schedule(steps, first, ramp, hold)))
<1>. DEFINE sc == Scenario(first, 0, stages, stop)
            p  == Plan(warm, sc, Schedule(steps, first, ramp, hold))
<1>1. /\ Len(steps) \in Nat
      /\ Ladder(steps, ramp, hold) \in Seq(StageType)
      /\ Len(Ladder(steps, ramp, hold)) = 2 * Len(steps)
  <2>1. ASSUME NEW i \in 1 .. 2 * Len(steps)
        PROVE  Ladder(steps, ramp, hold)[i] \in StageType
    <3>1. (i + 1) \div 2 \in 1 .. Len(steps)
      OBVIOUS
    <3>2. steps[(i + 1) \div 2] \in Nat
      BY <3>1
    <3>. QED
      BY <3>2 DEF Ladder, RateStage, StageType
  <2>2. Ladder(steps, ramp, hold) = [i \in 1 .. 2 * Len(steps) |-> Ladder(steps, ramp, hold)[i]]
    BY DEF Ladder
  <2>. QED
    BY <2>1, <2>2
<1>2. RateStage(0, 5) \in StageType
  BY DEF RateStage, StageType
<1>3. /\ stages \in Seq(StageType)
      /\ 2 * Len(steps) <= Len(stages)
      /\ \A i \in 1 .. 2 * Len(steps) : stages[i] = Ladder(steps, ramp, hold)[i]
  <2>1. CASE stages = Ladder(steps, ramp, hold)
    BY <1>1, <2>1
  <2>2. CASE stages = Append(Ladder(steps, ramp, hold), RateStage(0, 5))
    <3>. DEFINE ladder == Ladder(steps, ramp, hold)
                last   == RateStage(0, 5)
    <3>. HIDE DEF ladder, last
    <3>1. ladder \in Seq(StageType) /\ last \in StageType /\ Len(ladder) = 2 * Len(steps)
      BY <1>1, <1>2 DEF ladder, last
    <3>2. /\ Append(ladder, last) \in Seq(StageType)
          /\ Len(Append(ladder, last)) = 2 * Len(steps) + 1
          /\ \A i \in 1 .. 2 * Len(steps) : Append(ladder, last)[i] = ladder[i]
      BY <1>1, <3>1
    <3>. QED
      BY <1>1, <2>2, <3>2 DEF ladder, last
  <2>. QED
    BY <2>1, <2>2
<1>4. /\ sc \in ScenarioType
      /\ sc.start = first /\ sc.stages = stages
  BY <1>3 DEF Scenario, ScenarioType
<1>. HIDE DEF sc
<1>5. \A k \in 1 .. Len(steps) :
        /\ Ends(sc)[2 * k - 1] = Ends(sc)[2 * k - 2] + ramp
        /\ Ends(sc)[2 * k] = Ends(sc)[2 * k - 1] + hold
        /\ SteadyAt(sc, steps[k], Ends(sc)[2 * k - 1], Ends(sc)[2 * k])
  <2>1. Climbs(sc, steps, ramp, hold)
    BY <1>3, <1>4 DEF Climbs
  <2>. QED
    BY <1>4, <2>1, LadderIsSteady
<1>6. Ends(sc)[0] = first /\ \A i \in 0 .. 2 * Len(steps) : Ends(sc)[i] \in Nat
  <2>1. /\ Ends(sc)[0] = first
        /\ \A i \in 0 .. Len(stages) : Ends(sc)[i] \in Nat
    BY <1>4, EndsAre
  <2>2. Len(stages) \in Nat
    BY <1>3
  <2>. QED
    BY <1>1, <1>3, <2>1, <2>2
<1>7. /\ DOMAIN Schedule(steps, first, ramp, hold) = 1 .. Len(steps)
      /\ \A k \in 1 .. Len(steps) :
           Schedule(steps, first, ramp, hold)[k] =
             [rate |-> steps[k], holdStart |-> Ends(sc)[2 * k - 1], holdEnd |-> Ends(sc)[2 * k]]
  <2>. DEFINE e == Ends(sc)
  <2>1. Rungs(e, steps, first, ramp, hold)
    BY <1>5, <1>6 DEF Rungs
  <2>. HIDE DEF e
  <2>2. /\ DOMAIN Schedule(steps, first, ramp, hold) = 1 .. Len(steps)
        /\ \A k \in 1 .. Len(steps) :
             Schedule(steps, first, ramp, hold)[k] =
               [rate |-> steps[k], holdStart |-> e[2 * k - 1], holdEnd |-> e[2 * k]]
    BY <2>1, ScheduleIs
  <2>. QED
    BY <2>2 DEF e
<1>8. ASSUME NEW k \in DOMAIN p.schedule
      PROVE  /\ p.schedule[k].holdStart \in Nat /\ p.schedule[k].holdEnd \in Nat
             /\ SteadyAt(sc, p.schedule[k].rate, p.schedule[k].holdStart, p.schedule[k].holdEnd)
  <2>1. k \in 1 .. Len(steps)
        /\ p.schedule[k] = [rate |-> steps[k], holdStart |-> Ends(sc)[2 * k - 1],
                            holdEnd |-> Ends(sc)[2 * k]]
    BY <1>7 DEF Plan
  <2>2. 2 * k - 1 \in 0 .. 2 * Len(steps) /\ 2 * k \in 0 .. 2 * Len(steps)
    BY <1>1, <2>1
  <2>3. Ends(sc)[2 * k - 1] \in Nat /\ Ends(sc)[2 * k] \in Nat
    BY <1>6, <2>2
  <2>. QED
    BY <1>5, <2>1, <2>3
<1>9. p.main = sc /\ p.warm = warm
  BY DEF Plan
<1>. HIDE DEF p
<1>10. SoundPlan(p)
  BY <1>4, <1>8, <1>9 DEF SoundPlan
<1>. QED
  BY <1>10 DEF p, sc

LEMMA WarmupOver ==
  \A rate, duration, stop \in Nat : Over(Constant(0, rate, duration, stop)) = duration + stop
<1>1. SUFFICES ASSUME NEW rate \in Nat, NEW duration \in Nat, NEW stop \in Nat
               PROVE  Over(Constant(0, rate, duration, stop)) = duration + stop
  OBVIOUS
<1>. DEFINE sc == Constant(0, rate, duration, stop)
<1>2. Over(sc) = 0 + duration + stop
  BY ConstantScenario
<1>. HIDE DEF sc
<1>3. Over(sc) = duration + stop
  BY <1>2
<1>. QED
  BY <1>3 DEF sc

LEMMA OptionType ==
  ASSUME NEW o \in Option
  PROVE  /\ o.steps \in Seq(Nat) /\ o.ramp \in Nat /\ o.hold \in Nat /\ o.warm \in Nat
         /\ o.duration \in [n : Nat, unit : {"s", "m"}]
         /\ Seconds(o.duration) \in Nat /\ ParseInt(o.duration) \in Nat
         /\ ParseInt(o.duration) <= Seconds(o.duration)
<1>1. /\ o.steps \in Ladders /\ o.ramp \in Ramps /\ o.hold \in Holds /\ o.warm \in Warmups
      /\ o.duration \in Durations
  BY DEF Option
<1>2. /\ o.steps \in Seq(Nat) /\ o.ramp \in Nat /\ o.hold \in Nat /\ o.warm \in Nat
      /\ o.duration \in [n : Nat, unit : {"s", "m"}]
  BY <1>1, PlanAssumption
<1>3. o.duration.n \in Nat
  BY <1>2
<1>. QED
  BY <1>2, <1>3 DEF Seconds, ParseInt

LEMMA BreakingPointIsSound == \A o \in Option : SoundPlan(BreakingPoint(o))
<1>1. SUFFICES ASSUME NEW o \in Option PROVE SoundPlan(BreakingPoint(o))
  OBVIOUS
<1>2. /\ o.steps \in Seq(Nat) /\ o.ramp \in Nat /\ o.hold \in Nat /\ o.warm \in Nat
  BY OptionType
<1>. DEFINE warm == Constant(0, 50, o.warm, 5)
<1>3. Over(warm) = o.warm + 5
  BY <1>2, WarmupOver
<1>. HIDE DEF warm
<1>4. Over(warm) \in Nat /\ Over(warm) <= o.warm + 10 /\ o.warm + 10 \in Nat
  BY <1>2, <1>3
<1>5. SoundPlan(Plan(warm, Scenario(o.warm + 10, 0, Ladder(o.steps, o.ramp, o.hold), 10),
                     Schedule(o.steps, o.warm + 10, o.ramp, o.hold)))
  BY <1>2, <1>4, LadderPlan
<1>. QED
  BY <1>5 DEF BreakingPoint, warm

LEMMA GeneratorSanityIsSound == \A o \in Option : SoundPlan(GeneratorSanity(o))
<1>1. SUFFICES ASSUME NEW o \in Option PROVE SoundPlan(GeneratorSanity(o))
  OBVIOUS
<1>2. /\ o.steps \in Seq(Nat) /\ o.ramp \in Nat /\ o.hold \in Nat
  BY OptionType
<1>. DEFINE warm == Constant(0, 200, 15, 3)
<1>3. Over(warm) = 15 + 3
  BY WarmupOver
<1>. HIDE DEF warm
<1>4. Over(warm) \in Nat /\ Over(warm) <= 20
  BY <1>3
<1>5. SoundPlan(Plan(warm, Scenario(20, 0, Ladder(o.steps, o.ramp, o.hold), 5),
                     Schedule(o.steps, 20, o.ramp, o.hold)))
  BY <1>2, <1>4, LadderPlan
<1>. QED
  BY <1>5 DEF GeneratorSanity, warm

LEMMA ClosedModelIsSound == \A o \in Option : SoundPlan(ClosedModel(o))
<1>1. SUFFICES ASSUME NEW o \in Option PROVE SoundPlan(ClosedModel(o))
  OBVIOUS
<1>2. /\ o.steps \in Seq(Nat) /\ o.ramp \in Nat /\ o.hold \in Nat
  BY OptionType
<1>. DEFINE warm == Constant(0, 10, 60, 5)
<1>3. Over(warm) = 60 + 5
  BY WarmupOver
<1>. HIDE DEF warm
<1>4. Over(warm) \in Nat /\ Over(warm) <= 70
  BY <1>3
<1>. DEFINE stages == Append(Ladder(o.steps, o.ramp, o.hold), RateStage(0, 5))
<1>5. SoundPlan(Plan(warm, Scenario(70, 0, stages, 30), Schedule(o.steps, 70, o.ramp, o.hold)))
  BY <1>2, <1>4, LadderPlan
<1>. QED
  BY <1>5 DEF ClosedModel, warm

\* A constant rate after a warm-up, with a hold that is not longer than it.
LEMMA ConstantPlan ==
  ASSUME NEW warm, NEW start \in Nat, NEW rate \in Nat, NEW duration \in Nat, NEW stop \in Nat,
         NEW hold \in Nat, Over(warm) <= start, hold <= duration
  PROVE  SoundPlan(Plan(warm, Constant(start, rate, duration, stop),
                        <<[rate |-> rate, holdStart |-> start, holdEnd |-> start + hold]>>))
<1>. DEFINE sc == Constant(start, rate, duration, stop)
            e  == [rate |-> rate, holdStart |-> start, holdEnd |-> start + hold]
            p  == Plan(warm, sc, <<e>>)
<1>1. sc \in ScenarioType /\ SteadyAt(sc, rate, start, start + duration)
  BY ConstantScenario
<1>2. sc.start = start
  BY DEF Constant, Scenario
<1>. HIDE DEF sc
<1>3. SteadyAt(sc, rate, start, start + hold)
  <2>1. start + duration \in Int /\ start + hold \in Int /\ start + hold <= start + duration
    OBVIOUS
  <2>. QED
    BY <1>1, <2>1, SteadyWithin
<1>4. /\ p.main = sc /\ p.warm = warm
      /\ DOMAIN p.schedule = {1} /\ p.schedule[1] = e
  BY DEF Plan
<1>5. e.rate = rate /\ e.holdStart = start /\ e.holdEnd = start + hold
  OBVIOUS
<1>. HIDE DEF p, e
<1>6. SoundPlan(p)
  BY <1>1, <1>2, <1>3, <1>4, <1>5 DEF SoundPlan
<1>. QED
  BY <1>6 DEF p, e, sc

LEMMA LbTestIsSound == \A o \in Option : SoundPlan(LbTest(o))
<1>1. SUFFICES ASSUME NEW o \in Option PROVE SoundPlan(LbTest(o))
  OBVIOUS
<1>2. /\ o.warm \in Nat /\ Seconds(o.duration) \in Nat /\ ParseInt(o.duration) \in Nat
      /\ ParseInt(o.duration) <= Seconds(o.duration)
  BY OptionType
<1>. DEFINE warm == Constant(0, 100, o.warm, 3)
<1>3. Over(warm) = o.warm + 3
  BY <1>2, WarmupOver
<1>. HIDE DEF warm
<1>4. Over(warm) <= o.warm + 5 /\ o.warm + 5 \in Nat
  BY <1>2, <1>3
<1>5. SoundPlan(Plan(warm, Constant(o.warm + 5, 900, Seconds(o.duration), 10),
        <<[rate |-> 900, holdStart |-> o.warm + 5, holdEnd |-> (o.warm + 5) + ParseInt(o.duration)]>>))
  BY <1>2, <1>4, ConstantPlan
<1>. QED
  BY <1>5 DEF LbTest, warm

LEMMA TlsFixedIsSound == \A o \in Option : SoundPlan(TlsFixed(o))
<1>1. SUFFICES ASSUME NEW o \in Option PROVE SoundPlan(TlsFixed(o))
  OBVIOUS
<1>2. /\ o.warm \in Nat /\ Seconds(o.duration) \in Nat /\ ParseInt(o.duration) \in Nat
      /\ ParseInt(o.duration) <= Seconds(o.duration)
  BY OptionType
<1>. DEFINE warm == Constant(0, 50, o.warm, 5)
<1>3. Over(warm) = o.warm + 5
  BY <1>2, WarmupOver
<1>. HIDE DEF warm
<1>4. Over(warm) <= o.warm + 10 /\ o.warm + 10 \in Nat
  BY <1>2, <1>3
<1>5. SoundPlan(Plan(warm, Constant(o.warm + 10, 300, Seconds(o.duration), 10),
        <<[rate |-> 300, holdStart |-> o.warm + 10, holdEnd |-> (o.warm + 10) + ParseInt(o.duration)]>>))
  BY <1>2, <1>4, ConstantPlan
<1>. QED
  BY <1>5 DEF TlsFixed, warm

-----------------------------------------------------------------------------
(* The windows of the analyzers                                            *)

AnalyzerType == [head : Nat, tail : Nat, back : SUBSET Nat, skips : BOOLEAN]

\* A window, and what is read before it, lie within the hold, even for a k6 that
\* starts late.
LEMMA WindowWithin ==
  ASSUME NEW a \in AnalyzerType, NEW e, e.holdStart \in Nat, e.holdEnd \in Nat,
         NEW lag \in Nat, NEW back \in Nat, lag + back <= a.head,
         e.holdEnd - e.holdStart > a.tail + lag + back
  PROVE  /\ Window(a, e).to - lag \in Int
         /\ Window(a, e).to - lag - Window(a, e).w - back \in Int
         /\ e.holdStart <= Window(a, e).to - lag - Window(a, e).w - back
         /\ Window(a, e).to - lag <= e.holdEnd
<1>1. a.head \in Nat /\ a.tail \in Nat
  BY DEF AnalyzerType
<1>. DEFINE from == e.holdStart + a.head
            to   == e.holdEnd - a.tail
<1>2. /\ Window(a, e).to = to
      /\ Window(a, e).w = IF to - from > 1 THEN to - from ELSE 1
  BY DEF Window
<1>3. CASE to - from > 1
  BY <1>1, <1>2, <1>3
<1>4. CASE ~(to - from > 1)
  BY <1>1, <1>2, <1>4
<1>. QED
  BY <1>3, <1>4

LEMMA ReadsAreSound ==
  ASSUME NEW o \in Option, NEW ap \in Reads(o)
  PROVE  ap[1] \in AnalyzerType /\ SoundPlan(ap[2])
<1>1. CASE ap \in {<<Analyze, p>> : p \in {BreakingPoint(o), GeneratorSanity(o), ClosedModel(o)}}
  <2>1. PICK p \in {BreakingPoint(o), GeneratorSanity(o), ClosedModel(o)} : ap = <<Analyze, p>>
    BY <1>1
  <2>2. SoundPlan(p)
    BY BreakingPointIsSound, GeneratorSanityIsSound, ClosedModelIsSound, Zenon
  <2>3. Analyze \in AnalyzerType
    BY DEF Analyze, Analyzer, AnalyzerType
  <2>. QED
    BY <2>1, <2>2, <2>3
<1>2. CASE ap \in {<<AnalyzeTls, TlsFixed(o)>>}
  <2>1. AnalyzeTls \in AnalyzerType
    BY DEF AnalyzeTls, Analyzer, AnalyzerType
  <2>2. ap[1] = AnalyzeTls /\ ap[2] = TlsFixed(o)
    BY <1>2
  <2>. QED
    BY <2>1, <2>2, TlsFixedIsSound
<1>3. CASE ap \in {<<a, LbTest(o)>> :
                     a \in {AnalyzeApp, AnalyzePool, AnalyzeProxy, AnalyzeCache, AnalyzeMq}}
  <2>1. PICK a \in {AnalyzeApp, AnalyzePool, AnalyzeProxy, AnalyzeCache, AnalyzeMq} :
          ap = <<a, LbTest(o)>>
    BY <1>3
  <2>2. a \in AnalyzerType
    <3>1. PICK back \in SUBSET Nat : a = Analyzer(20, 3, back, FALSE)
      <4>1. {0} \subseteq Nat /\ {0, 1} \subseteq Nat /\ {0, 1, 15} \subseteq Nat
        OBVIOUS
      <4>. QED
        BY <2>1, <4>1 DEF AnalyzeApp, AnalyzePool, AnalyzeProxy, AnalyzeCache, AnalyzeMq
    <3>. QED
      BY <3>1 DEF Analyzer, AnalyzerType
  <2>. QED
    BY <2>1, <2>2, LbTestIsSound
<1>. QED
  BY <1>1, <1>2, <1>3 DEF Reads

\* The warm-up of final.js is over before any of its three modes begins.
LEMMA FinalIsSound ==
  ASSUME NEW o \in Option, NEW p \in Final(o)
  PROVE  Over(p.warm) <= p.main.start
<1>1. o.warm \in Nat
  BY OptionType
<1>. DEFINE warm == Constant(0, 100, o.warm, 5)
<1>2. Over(warm) = o.warm + 5
  BY <1>1, WarmupOver
<1>3. PICK sc \in FinalMode(o) : p = Plan(warm, sc, <<>>)
  BY DEF Final
<1>4. sc.start = o.warm + 5
  BY DEF FinalMode, Constant, Scenario
<1>5. p.warm = warm /\ p.main = sc
  BY <1>3 DEF Plan
<1>. HIDE DEF warm
<1>. QED
  BY <1>1, <1>2, <1>4, <1>5

\* What an analyzer reads of a hold at one rate keeps to that rate.
LEMMA HoldIsRead ==
  ASSUME NEW sc \in ScenarioType, NEW a \in AnalyzerType, NEW e,
         e.holdStart \in Nat, e.holdEnd \in Nat, SteadyAt(sc, e.rate, e.holdStart, e.holdEnd)
  PROVE  ReadsSteady(sc, a, e)
<1>1. ASSUME NEW lag \in Lags, NEW back \in a.back, lag + back <= a.head,
             e.holdEnd - e.holdStart > a.tail + lag + back
      PROVE  SteadyAt(sc, e.rate, Window(a, e).to - lag - Window(a, e).w - back,
                      Window(a, e).to - lag)
  <2>1. lag \in Nat /\ back \in Nat
    BY PlanAssumption DEF AnalyzerType
  <2>. DEFINE to   == Window(a, e).to - lag
              from == to - Window(a, e).w - back
  <2>2. to \in Int /\ from \in Int /\ e.holdStart <= from /\ to <= e.holdEnd
    BY <1>1, <2>1, WindowWithin
  <2>. HIDE DEF to, from
  <2>3. SteadyAt(sc, e.rate, from, to)
    BY <2>2, SteadyWithin
  <2>. QED
    BY <2>3 DEF to, from
<1>. QED
  BY <1>1 DEF ReadsSteady

\* A spike begins 30 s into the hold and is over 70 s into it.
LEMMA SpikeIsInside ==
  ASSUME NEW o \in Option
  PROVE  LET e == LbTest(o).schedule[1] IN
         e.holdEnd - e.holdStart > 70 => e.holdStart < LbSpike(o).start /\ Over(LbSpike(o)) < e.holdEnd
<1>1. o.warm \in Nat /\ ParseInt(o.duration) \in Nat
  BY OptionType
<1>. DEFINE start == o.warm + 5 + 30
<1>2. start \in Nat /\ start = o.warm + 35
  BY <1>1
<1>3. LbSpike(o) = Constant(start, 3000, 30, 10)
  BY DEF LbSpike
<1>. HIDE DEF start
<1>4. LbSpike(o).start = start /\ Over(LbSpike(o)) = start + 30 + 10
  BY <1>2, <1>3, ConstantScenario DEF Constant, Scenario
<1>5. LET e == LbTest(o).schedule[1] IN
      e.holdStart = o.warm + 5 /\ e.holdEnd = o.warm + 5 + ParseInt(o.duration)
  BY DEF LbTest, Plan
<1>. QED
  BY <1>1, <1>2, <1>4, <1>5

\* k6 was at the rate that a schedule states for as long as it states, and what
\* the analyzers read of it lies in that time, the samples before their windows
\* included, whatever the options and even for a k6 that starts a little late.
THEOREM PlansAreSteady == WindowsAreSteady
<1>1. SUFFICES ASSUME input \in PlanInput
               PROVE  WindowsAreSteady
  BY DEF WindowsAreSteady
<1>. DEFINE o == input.option
<1>2. o \in Option
  BY <1>1 DEF PlanInput
<1>. HIDE DEF o
<1>3. \A p \in Final(o) : Over(p.warm) <= p.main.start
  BY <1>2, FinalIsSound
<1>4. ASSUME NEW ap \in Reads(o)
      PROVE  /\ Over(ap[2].warm) <= ap[2].main.start
             /\ \A k \in DOMAIN ap[2].schedule :
                  LET e == ap[2].schedule[k] IN
                  /\ SteadyAt(ap[2].main, e.rate, e.holdStart, e.holdEnd)
                  /\ ReadsSteady(ap[2].main, ap[1], e)
  <2>. DEFINE a == ap[1]
              p == ap[2]
  <2>1. a \in AnalyzerType /\ SoundPlan(p)
    BY <1>2, ReadsAreSound
  <2>. HIDE DEF a, p
  <2>2. p.main \in ScenarioType /\ Over(p.warm) <= p.main.start
    BY <2>1 DEF SoundPlan
  <2>3. ASSUME NEW k \in DOMAIN p.schedule
        PROVE  LET e == p.schedule[k] IN
               SteadyAt(p.main, e.rate, e.holdStart, e.holdEnd) /\ ReadsSteady(p.main, a, e)
    <3>. DEFINE e == p.schedule[k]
    <3>1. e.holdStart \in Nat /\ e.holdEnd \in Nat /\ SteadyAt(p.main, e.rate, e.holdStart, e.holdEnd)
      BY <2>1 DEF SoundPlan
    <3>. HIDE DEF e
    <3>2. ReadsSteady(p.main, a, e)
      BY <2>1, <2>2, <3>1, HoldIsRead
    <3>. QED
      BY <3>1, <3>2 DEF e
  <2>. QED
    BY <2>2, <2>3 DEF a, p
<1>5. LET e == LbTest(o).schedule[1] IN
      e.holdEnd - e.holdStart > 70 => e.holdStart < LbSpike(o).start /\ Over(LbSpike(o)) < e.holdEnd
  BY <1>2, SpikeIsInside
<1>. QED
  BY <1>3, <1>4, <1>5, Zenon DEF WindowsAreSteady, o

-----------------------------------------------------------------------------
(* The keys of the requests                                                *)

\* Division with remainder, for the two fields of a sequence number.
LEMMA Fields ==
  ASSUME NEW b \in Nat \ {0}, NEW p \in Nat, p < b * b
  PROVE  /\ p = b * (p \div b) + (p % b)
         /\ p \div b \in Nat /\ p \div b < b
         /\ p % b \in Nat /\ p % b < b
<1>1. p = b * (p \div b) + (p % b) /\ p \div b \in Int /\ p % b \in 0 .. b - 1
  OBVIOUS
<1>2. p \div b \in Nat
  BY <1>1
<1>3. p \div b < b
  <2>. DEFINE q == p \div b
  <2>1. ASSUME q >= b PROVE FALSE
    <3>1. b * q >= b * b
      BY <1>2, <2>1
    <3>. QED
      BY <1>1, <1>2, <3>1
  <2>. QED
    BY <1>2, <2>1
<1>. QED
  BY <1>1, <1>2, <1>3

\* The key tells the virtual user and the number of the request.
LEMMA KeysAreInjective ==
  ASSUME NEW v \in 1 .. Field - 1, NEW w \in 1 .. Field - 1,
         NEW p \in 0 .. Requests, NEW q \in 0 .. Requests, NextKey(v, p) = NextKey(w, q)
  PROVE  v = w /\ p = q
<1>1. Field \in Nat \ {0} /\ Requests \in Nat /\ Requests < Field * Field
  BY PlanAssumption, FieldAssumption
<1>2. /\ v % Field = w % Field
      /\ (p \div Field) % Field = (q \div Field) % Field
      /\ p % Field = q % Field
  BY DEF NextKey
<1>3. \A m \in 0 .. Field - 1 : m % Field = m
  BY <1>1
<1>4. v = w
  BY <1>1, <1>2, <1>3
<1>5. Field * Field \in Nat
  BY <1>1
<1>6. p \in Nat /\ p < Field * Field /\ q \in Nat /\ q < Field * Field
  BY <1>1, <1>5
<1>7. /\ p = Field * (p \div Field) + (p % Field) /\ p \div Field \in 0 .. Field - 1
      /\ q = Field * (q \div Field) + (q % Field) /\ q \div Field \in 0 .. Field - 1
  <2>1. ASSUME NEW m \in Nat, m < Field * Field
        PROVE  m = Field * (m \div Field) + (m % Field) /\ m \div Field \in 0 .. Field - 1
    <3>1. /\ m = Field * (m \div Field) + (m % Field)
          /\ m \div Field \in Nat /\ m \div Field < Field
      BY <1>1, <2>1, Fields
    <3>. QED
      BY <1>1, <3>1
  <2>. QED
    BY <1>6, <2>1
<1>8. p \div Field = q \div Field
  BY <1>2, <1>3, <1>7
<1>. QED
  BY <1>2, <1>4, <1>7, <1>8

LEMMA SentIs ==
  ASSUME NEW vu \in 1 .. Field - 1, NEW again \in Dice
  PROVE  /\ Sent(vu, again)[0] = [seq |-> 0, lastKey |-> NoKey]
         /\ \A i \in 1 .. Requests :
              Sent(vu, again)[i] =
                IF again[i] /\ Sent(vu, again)[i - 1].lastKey # NoKey THEN Sent(vu, again)[i - 1]
                ELSE [seq |-> Sent(vu, again)[i - 1].seq + 1,
                      lastKey |-> NextKey(vu, Sent(vu, again)[i - 1].seq + 1)]
<1>. DEFINE n == Requests
            S == [seq : Nat, lastKey : {NoKey} \cup {NextKey(vu, m) : m \in Nat}]
            first == [seq |-> 0, lastKey |-> NoKey]
            Next(i, s) == IF again[i] /\ s.lastKey # NoKey THEN s
                          ELSE [seq |-> s.seq + 1, lastKey |-> NextKey(vu, s.seq + 1)]
            step == [w \in (1 .. n) \X S |-> Next(w[1], w[2])]
            At(f) == [i \in 0 .. n |-> IF i = 0 THEN first ELSE Next(i, f[i - 1])]
<1>1. n \in Nat /\ Len(again) = n
  BY PlanAssumption DEF Dice
<1>. HIDE DEF n
<1>2. first \in S
  OBVIOUS
<1>3. ASSUME NEW i \in 1 .. n, NEW s \in S PROVE Next(i, s) \in S
  OBVIOUS
<1>. HIDE DEF S, first, Next
<1>4. step \in [(1 .. n) \X S -> S]
  BY <1>3
<1>5. PICK f \in [0 .. n -> S] : Follows(f, n, first, step)
  <2>. HIDE DEF step
  <2>. QED
    BY <1>1, <1>2, <1>4, Iterates
<1>6. f = At(f)
  <2>1. ASSUME NEW i \in 1 .. n PROVE f[i] = Next(i, f[i - 1])
    <3>1. <<i, f[i - 1]>> \in (1 .. n) \X S
      BY <1>1
    <3>. QED
      BY <1>5, <3>1 DEF Follows
  <2>2. f[0] = first
    BY <1>5 DEF Follows
  <2>. QED
    BY <1>1, <2>1, <2>2
<1>. DEFINE g == CHOOSE h : h = At(h)
<1>7. g = At(g)
  BY <1>6
<1>8. Sent(vu, again) = g
  BY <1>1 DEF Sent, first, Next
<1>. HIDE DEF g
<1>9. g[0] = first /\ \A i \in 1 .. n : g[i] = Next(i, g[i - 1])
  BY <1>1, <1>7
<1>. QED
  BY <1>8, <1>9 DEF first, Next, n

\* Before its first request a virtual user has no key; after it the last key is
\* the one of its sequence number.
LEMMA LastKey ==
  ASSUME NEW vu \in 1 .. Field - 1, NEW again \in Dice
  PROVE  \A i \in 1 .. Requests :
           /\ Sent(vu, again)[i].seq \in 1 .. i
           /\ Sent(vu, again)[i].lastKey = NextKey(vu, Sent(vu, again)[i].seq)
<1>. DEFINE s == Sent(vu, again)
            Keyed(i) == s[i].seq \in 1 .. i /\ s[i].lastKey = NextKey(vu, s[i].seq)
            G == {i \in 0 .. Requests : i # 0 => Keyed(i)}
<1>1. Requests \in Nat
  BY PlanAssumption
<1>2. s[0] = [seq |-> 0, lastKey |-> NoKey]
  BY SentIs
<1>3. ASSUME NEW i \in 1 .. Requests
      PROVE  s[i] = IF again[i] /\ s[i - 1].lastKey # NoKey THEN s[i - 1]
                    ELSE [seq |-> s[i - 1].seq + 1, lastKey |-> NextKey(vu, s[i - 1].seq + 1)]
  BY SentIs
<1>. HIDE DEF s
<1>4. 0 \in G
  BY <1>1
<1>5. ASSUME NEW i \in 1 .. Requests, i - 1 \in G PROVE i \in G
  <2>1. CASE i = 1
    <3>1. s[i - 1].seq = 0 /\ s[i - 1].lastKey = NoKey
      BY <1>2, <2>1
    <3>2. s[i] = [seq |-> 1, lastKey |-> NextKey(vu, 1)]
      BY <1>3, <3>1
    <3>. QED
      BY <2>1, <3>2
  <2>2. CASE i # 1
    <3>1. s[i - 1].seq \in 1 .. i - 1 /\ s[i - 1].lastKey = NextKey(vu, s[i - 1].seq)
      BY <1>5, <2>2
    <3>2. CASE s[i] = s[i - 1]
      BY <3>1, <3>2
    <3>3. CASE s[i] = [seq |-> s[i - 1].seq + 1, lastKey |-> NextKey(vu, s[i - 1].seq + 1)]
      BY <3>1, <3>3
    <3>. QED
      BY <1>3, <3>2, <3>3
  <2>. QED
    BY <2>1, <2>2
<1>. HIDE DEF G
<1>6. \A i \in 0 .. Requests : i \in G
  BY <1>1, <1>4, <1>5, UpTo
<1>. QED
  BY <1>1, <1>6 DEF G, s

\* The sequence number never falls, and while it stands still the dice ask for
\* the last key.
LEMMA SequenceGrows ==
  ASSUME NEW vu \in 1 .. Field - 1, NEW again \in Dice,
         NEW i \in 1 .. Requests, NEW j \in 1 .. Requests, i <= j
  PROVE  /\ Sent(vu, again)[i].seq <= Sent(vu, again)[j].seq
         /\ Sent(vu, again)[i].seq = Sent(vu, again)[j].seq => \A m \in i + 1 .. j : again[m]
<1>. DEFINE s == Sent(vu, again)
            Grows(k) == /\ s[i].seq <= s[k].seq
                        /\ s[i].seq = s[k].seq => \A m \in i + 1 .. k : again[m]
            G == {k \in 0 .. Requests : i <= k => Grows(k)}
<1>1. Requests \in Nat
  BY PlanAssumption
<1>2. ASSUME NEW k \in 1 .. Requests
      PROVE  s[k] = IF again[k] /\ s[k - 1].lastKey # NoKey THEN s[k - 1]
                    ELSE [seq |-> s[k - 1].seq + 1, lastKey |-> NextKey(vu, s[k - 1].seq + 1)]
  BY SentIs
<1>3. ASSUME NEW k \in 1 .. Requests PROVE s[k].seq \in Nat
  <2>1. s[k].seq \in 1 .. k
    BY LastKey
  <2>. QED
    BY <2>1
<1>. HIDE DEF s
<1>4. 0 \in G
  BY <1>1
<1>5. ASSUME NEW k \in 1 .. Requests, k - 1 \in G PROVE k \in G
  <2>. SUFFICES ASSUME i <= k PROVE Grows(k)
    OBVIOUS
  <2>1. CASE i = k
    BY <1>3, <2>1
  <2>2. CASE i # k
    <3>1. k - 1 \in 1 .. Requests /\ i <= k - 1
      BY <1>1, <2>2
    <3>2. Grows(k - 1)
      BY <1>5, <3>1
    <3>3. s[i].seq \in Nat /\ s[k - 1].seq \in Nat
      BY <1>3, <3>1
    <3>4. CASE again[k] /\ s[k] = s[k - 1]
      <4>1. ASSUME s[i].seq = s[k].seq, NEW m \in i + 1 .. k PROVE again[m]
        <5>1. m = k \/ m \in i + 1 .. k - 1
          OBVIOUS
        <5>. QED
          BY <3>2, <3>4, <4>1, <5>1
      <4>. QED
        BY <3>2, <3>4, <4>1
    <3>5. CASE s[k].seq = s[k - 1].seq + 1
      BY <3>2, <3>3, <3>5
    <3>6. CASE again[k] /\ s[k - 1].lastKey # NoKey
      BY <1>2, <3>4, <3>6
    <3>7. CASE ~(again[k] /\ s[k - 1].lastKey # NoKey)
      <4>1. s[k] = [seq |-> s[k - 1].seq + 1, lastKey |-> NextKey(vu, s[k - 1].seq + 1)]
        BY <1>2, <3>7
      <4>. QED
        BY <3>5, <4>1
    <3>. QED
      BY <3>6, <3>7
  <2>. QED
    BY <2>1, <2>2
<1>. HIDE DEF G
<1>6. \A k \in 0 .. Requests : k \in G
  BY <1>1, <1>4, <1>5, UpTo
<1>7. j \in G
  BY <1>1, <1>6
<1>. QED
  BY <1>7 DEF G, s

LEMMA KeysAreUnique ==
  ASSUME NEW v \in 1 .. Field - 1, NEW w \in 1 .. Field - 1, NEW c \in Dice, NEW d \in Dice
  PROVE  KeysDiffer(v, c, w, d)
<1>1. SUFFICES ASSUME NEW i \in 1 .. Requests, NEW j \in 1 .. Requests,
                      Sent(v, c)[i].lastKey = Sent(w, d)[j].lastKey,
                      v = w => c = d /\ i < j
               PROVE  v = w /\ \A m \in i + 1 .. j : c[m]
  BY DEF KeysDiffer
<1>2. Requests \in Nat
  BY PlanAssumption
<1>3. /\ Sent(v, c)[i].seq \in 1 .. i
      /\ Sent(v, c)[i].lastKey = NextKey(v, Sent(v, c)[i].seq)
      /\ Sent(w, d)[j].seq \in 1 .. j
      /\ Sent(w, d)[j].lastKey = NextKey(w, Sent(w, d)[j].seq)
  BY LastKey
<1>4. Sent(v, c)[i].seq \in 0 .. Requests /\ Sent(w, d)[j].seq \in 0 .. Requests
  BY <1>2, <1>3
<1>5. v = w /\ Sent(v, c)[i].seq = Sent(w, d)[j].seq
  <2>. DEFINE p == Sent(v, c)[i].seq
              q == Sent(w, d)[j].seq
  <2>1. p \in 0 .. Requests /\ q \in 0 .. Requests /\ NextKey(v, p) = NextKey(w, q)
    BY <1>1, <1>3, <1>4
  <2>. HIDE DEF p, q
  <2>2. v = w /\ p = q
    BY <2>1, KeysAreInjective
  <2>. QED
    BY <2>2 DEF p, q
<1>6. c = d /\ i <= j
  BY <1>1, <1>5
<1>7. \A m \in i + 1 .. j : c[m]
  BY <1>5, <1>6, SequenceGrows
<1>. QED
  BY <1>5, <1>7

-----------------------------------------------------------------------------
(* The events of the requests                                              *)

Monotone(cdf) == \A i, j \in 0 .. Events - 1 : i <= j => cdf[i] <= cdf[j]
Shares == {cdf \in [0 .. Events - 1 -> Nat] : Monotone(cdf)}

LEMMA CdfGrows ==
  ASSUME NEW weight \in [0 .. Events - 1 -> Weights]
  PROVE  ZipfCdf(weight) \in Shares
<1>. DEFINE n == Events - 1
            step == [w \in (1 .. n) \X Nat |-> w[2] + weight[w[1]]]
            At(f) == [i \in 0 .. n |-> IF i = 0 THEN weight[0] ELSE f[i - 1] + weight[i]]
<1>1. n \in Nat /\ \A i \in 0 .. n : weight[i] \in Nat
  <2>1. Events \in Nat \ {0} /\ Weights \subseteq Nat
    BY PlanAssumption
  <2>2. n \in Nat
    BY <2>1
  <2>. HIDE DEF n, step, At
  <2>3. \A i \in 0 .. n : weight[i] \in Weights
    BY DEF n
  <2>. QED
    BY <2>1, <2>2, <2>3
<1>. DEFINE cdf == CHOOSE h : h = At(h)
<1>4. ZipfCdf(weight) = cdf
  BY DEF ZipfCdf
<1>5. Monotone(cdf) <=> \A i, j \in 0 .. n : i <= j => cdf[i] <= cdf[j]
  BY DEF Monotone
<1>. HIDE DEF n
<1>6. step \in [(1 .. n) \X Nat -> Nat]
  BY <1>1
<1>7. PICK f \in [0 .. n -> Nat] : Follows(f, n, weight[0], step)
  <2>. DEFINE a == weight[0]
  <2>1. a \in Nat
    BY <1>1
  <2>. HIDE DEF step, a
  <2>. QED
    <3>1. \E f \in [0 .. n -> Nat] : Follows(f, n, a, step)
      BY <1>1, <1>6, <2>1, Iterates
    <3>. QED
      BY <3>1 DEF a
<1>8. f = At(f)
  <2>1. ASSUME NEW i \in 1 .. n PROVE f[i] = f[i - 1] + weight[i]
    <3>1. <<i, f[i - 1]>> \in (1 .. n) \X Nat
      BY <1>1
    <3>. QED
      BY <1>7, <3>1 DEF Follows
  <2>2. f[0] = weight[0]
    BY <1>7 DEF Follows
  <2>. QED
    BY <1>1, <2>1, <2>2
<1>9. cdf = At(cdf)
  BY <1>8
<1>. HIDE DEF cdf
<1>10. cdf[0] = weight[0] /\ \A i \in 1 .. n : cdf[i] = cdf[i - 1] + weight[i]
  BY <1>1, <1>9
<1>11. \A i \in 0 .. n : cdf[i] \in Nat
  <2>1. cdf[0] \in Nat
    BY <1>1, <1>10
  <2>2. ASSUME NEW i \in 1 .. n, cdf[i - 1] \in Nat PROVE cdf[i] \in Nat
    <3>1. weight[i] \in Nat /\ cdf[i] = cdf[i - 1] + weight[i]
      BY <1>1, <1>10
    <3>. QED
      BY <2>2, <3>1
  <2>. QED
    BY <1>1, <2>1, <2>2, StaysIn
<1>12. ASSUME NEW i \in 0 .. n, NEW j \in 0 .. n, i <= j PROVE cdf[i] <= cdf[j]
  <2>. DEFINE G == {k \in 0 .. n : i <= k => cdf[i] <= cdf[k]}
  <2>1. 0 \in G
    BY <1>1, <1>11
  <2>2. ASSUME NEW k \in 1 .. n, k - 1 \in G PROVE k \in G
    <3>. SUFFICES ASSUME i <= k PROVE cdf[i] <= cdf[k]
      OBVIOUS
    <3>1. CASE i = k
      BY <1>11, <3>1
    <3>2. CASE i # k
      <4>1. i <= k - 1 /\ cdf[i] <= cdf[k - 1]
        BY <1>1, <2>2, <3>2
      <4>2. cdf[k] = cdf[k - 1] + weight[k] /\ weight[k] \in Nat
        BY <1>1, <1>10
      <4>3. cdf[i] \in Nat /\ cdf[k - 1] \in Nat
        BY <1>1, <1>11
      <4>. QED
        BY <4>1, <4>2, <4>3
    <3>. QED
      BY <3>1, <3>2
  <2>. HIDE DEF G
  <2>3. \A k \in 0 .. n : k \in G
    BY <1>1, <2>1, <2>2, UpTo
  <2>. QED
    BY <1>12, <2>3 DEF G
<1>13. cdf \in [0 .. n -> Nat]
  <2>1. cdf = [i \in 0 .. n |-> cdf[i]]
    BY <1>9
  <2>. QED
    BY <1>11, <2>1
<1>14. Monotone(cdf)
  BY <1>5, <1>12
<1>. QED
  BY <1>4, <1>13, <1>14 DEF n, Shares

\* k is the first place between lo and hi whose share reaches r, or the last
\* place if none does.
FirstIn(cdf, r, lo, hi, k) ==
  /\ k \in lo .. hi
  /\ k = hi \/ cdf[k] >= r
  /\ \A m \in lo .. k - 1 : cdf[m] < r

LEMMA FirstExists ==
  ASSUME NEW cdf \in Shares, NEW r \in Nat,
         NEW lo \in 0 .. Events - 1, NEW hi \in 0 .. Events - 1, lo <= hi
  PROVE  \E k \in 0 .. Events - 1 : FirstIn(cdf, r, lo, hi, k)
<1>1. Events \in Nat \ {0} /\ \A i \in 0 .. Events - 1 : cdf[i] \in Nat
  BY PlanAssumption DEF Shares
<1>. DEFINE T == {k \in lo .. hi : k = hi \/ cdf[k] >= r}
<1>2. T \in SUBSET Nat /\ hi \in T
  BY <1>1
<1>3. PICK k \in T : \A m \in T : k <= m
  <2>. HIDE DEF T
  <2>. QED
    BY <1>2, LeastNumber
<1>4. k \in 0 .. Events - 1 /\ k \in lo .. hi
  BY <1>1
<1>5. ASSUME NEW m \in lo .. k - 1 PROVE cdf[m] < r
  <2>1. m \in 0 .. Events - 1 /\ m \in lo .. hi /\ ~(k <= m)
    BY <1>1, <1>4
  <2>2. ~(cdf[m] >= r)
    BY <1>3, <2>1
  <2>. QED
    BY <1>1, <2>1, <2>2
<1>. QED
  BY <1>4, <1>5 DEF FirstIn

LEMMA FirstIsUnique ==
  ASSUME NEW cdf \in Shares, NEW r \in Nat,
         NEW lo \in 0 .. Events - 1, NEW hi \in 0 .. Events - 1,
         NEW k \in 0 .. Events - 1, NEW m \in 0 .. Events - 1,
         FirstIn(cdf, r, lo, hi, k), FirstIn(cdf, r, lo, hi, m)
  PROVE  k = m
<1>1. Events \in Nat \ {0} /\ \A i \in 0 .. Events - 1 : cdf[i] \in Nat
  BY PlanAssumption DEF Shares
<1>2. ~(k < m) /\ ~(m < k)
  BY <1>1 DEF FirstIn
<1>. QED
  BY <1>1, <1>2

LEMMA Midpoint ==
  ASSUME NEW lo \in Nat, NEW hi \in Nat, lo < hi
  PROVE  (lo + hi) \div 2 \in lo .. hi - 1
OBVIOUS

\* One step of the binary search keeps the place it looks for.
LEMMA FirstInHalf ==
  ASSUME NEW cdf \in Shares, NEW r \in Nat,
         NEW lo \in 0 .. Events - 1, NEW hi \in 0 .. Events - 1, lo < hi,
         NEW mid \in lo .. hi - 1, NEW k
  PROVE  /\ cdf[mid] < r /\ FirstIn(cdf, r, mid + 1, hi, k) => FirstIn(cdf, r, lo, hi, k)
         /\ ~(cdf[mid] < r) /\ FirstIn(cdf, r, lo, mid, k) => FirstIn(cdf, r, lo, hi, k)
<1>1. Events \in Nat \ {0} /\ \A i \in 0 .. Events - 1 : cdf[i] \in Nat
  BY PlanAssumption DEF Shares
<1>2. mid \in lo .. hi - 1 /\ mid \in 0 .. Events - 1
  BY <1>1
<1>3. ASSUME cdf[mid] < r, FirstIn(cdf, r, mid + 1, hi, k)
      PROVE  FirstIn(cdf, r, lo, hi, k)
  <2>1. k \in mid + 1 .. hi /\ (k = hi \/ cdf[k] >= r)
    BY <1>3 DEF FirstIn
  <2>2. ASSUME NEW m \in lo .. k - 1 PROVE cdf[m] < r
    <3>1. CASE m <= mid
      <4>1. m \in 0 .. Events - 1 /\ cdf[m] <= cdf[mid]
        BY <1>1, <1>2, <3>1 DEF Shares, Monotone
      <4>. QED
        BY <1>1, <1>2, <1>3, <4>1
    <3>2. CASE m > mid
      BY <1>2, <1>3, <2>1, <3>2 DEF FirstIn
    <3>. QED
      BY <1>2, <3>1, <3>2
  <2>. QED
    BY <1>2, <2>1, <2>2 DEF FirstIn
<1>4. ASSUME ~(cdf[mid] < r), FirstIn(cdf, r, lo, mid, k)
      PROVE  FirstIn(cdf, r, lo, hi, k)
  BY <1>1, <1>2, <1>4 DEF FirstIn
<1>. QED
  BY <1>3, <1>4

LEMMA SearchIs ==
  ASSUME NEW cdf \in Shares, NEW r \in Nat
  PROVE  \A lo, hi \in 0 .. Events - 1 :
           lo <= hi => FirstIn(cdf, r, lo, hi, Search(cdf, r)[<<lo, hi>>])
<1>. DEFINE P == 0 .. Events - 1
            Half(f, lo, hi, mid) == IF lo >= hi THEN lo
                                    ELSE IF cdf[mid] < r THEN f[<<mid + 1, hi>>] ELSE f[<<lo, mid>>]
            At(f) == [w \in P \X P |-> Half(f, w[1], w[2], (w[1] + w[2]) \div 2)]
            Found(lo, hi) == IF lo >= hi THEN lo ELSE CHOOSE k \in P : FirstIn(cdf, r, lo, hi, k)
            g == [w \in P \X P |-> Found(w[1], w[2])]
<1>1. Events \in Nat \ {0} /\ P \subseteq Nat
  BY PlanAssumption
<1>2. ASSUME NEW lo \in P, NEW hi \in P
      PROVE  g[<<lo, hi>>] = Found(lo, hi)
  <2>. HIDE DEF Found
  <2>1. <<lo, hi>> \in P \X P /\ <<lo, hi>>[1] = lo /\ <<lo, hi>>[2] = hi
    OBVIOUS
  <2>. QED
    BY <2>1
<1>. HIDE DEF g
<1>3. ASSUME NEW lo \in P, NEW hi \in P
      PROVE  /\ g[<<lo, hi>>] \in P
             /\ lo <= hi => FirstIn(cdf, r, lo, hi, g[<<lo, hi>>])
             /\ lo >= hi => g[<<lo, hi>>] = lo
  <2>1. CASE lo >= hi
    BY <1>1, <1>2, <2>1 DEF FirstIn
  <2>2. CASE lo < hi
    <3>1. \E k \in P : FirstIn(cdf, r, lo, hi, k)
      BY <1>1, <2>2, FirstExists
    <3>2. g[<<lo, hi>>] = CHOOSE k \in P : FirstIn(cdf, r, lo, hi, k)
      BY <1>1, <1>2, <2>2
    <3>. QED
      BY <1>1, <2>2, <3>1, <3>2
  <2>. QED
    BY <1>1, <2>1, <2>2
<1>4. ASSUME NEW lo \in P, NEW hi \in P
      PROVE  g[<<lo, hi>>] = Half(g, lo, hi, (lo + hi) \div 2)
  <2>1. CASE lo >= hi
    BY <1>3, <2>1
  <2>2. CASE lo < hi
    <3>. DEFINE mid == (lo + hi) \div 2
    <3>0. mid \in lo .. hi - 1
      BY <1>1, <2>2, Midpoint
    <3>. HIDE DEF mid
    <3>1. /\ \A k : cdf[mid] < r /\ FirstIn(cdf, r, mid + 1, hi, k) => FirstIn(cdf, r, lo, hi, k)
          /\ \A k : ~(cdf[mid] < r) /\ FirstIn(cdf, r, lo, mid, k) => FirstIn(cdf, r, lo, hi, k)
      BY <2>2, <3>0, FirstInHalf
    <3>2. mid \in P /\ mid + 1 \in P /\ lo <= mid /\ mid + 1 <= hi
      BY <1>1, <3>0
    <3>3. g[<<lo, hi>>] \in P /\ FirstIn(cdf, r, lo, hi, g[<<lo, hi>>])
      BY <1>1, <1>3, <2>2
    <3>4. CASE cdf[mid] < r
      <4>1. g[<<mid + 1, hi>>] \in P /\ FirstIn(cdf, r, lo, hi, g[<<mid + 1, hi>>])
        BY <1>3, <3>1, <3>2, <3>4
      <4>2. g[<<lo, hi>>] = g[<<mid + 1, hi>>]
        BY <3>3, <4>1, FirstIsUnique
      <4>. QED
        BY <1>1, <2>2, <3>4, <4>2 DEF mid
    <3>5. CASE ~(cdf[mid] < r)
      <4>1. g[<<lo, mid>>] \in P /\ FirstIn(cdf, r, lo, hi, g[<<lo, mid>>])
        BY <1>3, <3>1, <3>2, <3>5
      <4>2. g[<<lo, hi>>] = g[<<lo, mid>>]
        BY <3>3, <4>1, FirstIsUnique
      <4>. QED
        BY <1>1, <2>2, <3>5, <4>2 DEF mid
    <3>. QED
      BY <3>4, <3>5
  <2>. QED
    BY <1>1, <2>1, <2>2
<1>5. g = At(g)
  <2>. HIDE DEF Half, Found
  <2>1. ASSUME NEW w \in P \X P PROVE g[w] = Half(g, w[1], w[2], (w[1] + w[2]) \div 2)
    <3>1. w[1] \in P /\ w[2] \in P /\ w = <<w[1], w[2]>>
      OBVIOUS
    <3>2. g[<<w[1], w[2]>>] = Half(g, w[1], w[2], (w[1] + w[2]) \div 2)
      BY <1>4, <3>1
    <3>. QED
      BY <3>1, <3>2
  <2>2. g = [w \in P \X P |-> g[w]]
    BY DEF g
  <2>. QED
    BY <2>1, <2>2
<1>. DEFINE f == CHOOSE h : h = At(h)
<1>6. Search(cdf, r) = f
  BY DEF Search
<1>7. f = At(f)
  <2>. HIDE DEF Half
  <2>. QED
    BY <1>5
<1>. HIDE DEF f
<1>8. ASSUME NEW lo \in P, NEW hi \in P
      PROVE  f[<<lo, hi>>] = Half(f, lo, hi, (lo + hi) \div 2)
  <2>. HIDE DEF Half
  <2>1. <<lo, hi>> \in P \X P /\ <<lo, hi>>[1] = lo /\ <<lo, hi>>[2] = hi
    OBVIOUS
  <2>. QED
    BY <1>7, <2>1
<1>. DEFINE S == {n \in Nat : \A lo, hi \in P :
                    lo <= hi /\ hi <= lo + n => FirstIn(cdf, r, lo, hi, f[<<lo, hi>>])}
<1>9. 0 \in S
  <2>1. ASSUME NEW lo \in P, NEW hi \in P, lo <= hi, hi <= lo + 0
        PROVE  FirstIn(cdf, r, lo, hi, f[<<lo, hi>>])
    <3>1. lo = hi
      BY <1>1, <2>1
    <3>2. lo >= hi
      BY <1>1, <3>1
    <3>3. f[<<lo, hi>>] = lo
      BY <1>8, <3>2, Zenon
    <3>. QED
      BY <1>1, <3>1, <3>3 DEF FirstIn
  <2>. QED
    BY <2>1
<1>10. ASSUME NEW n \in S PROVE n + 1 \in S
  <2>1. ASSUME NEW lo \in P, NEW hi \in P, lo < hi, hi <= lo + (n + 1)
        PROVE  FirstIn(cdf, r, lo, hi, f[<<lo, hi>>])
    <3>. DEFINE mid == (lo + hi) \div 2
    <3>0. mid \in lo .. hi - 1
      BY <1>1, <2>1, Midpoint
    <3>2. f[<<lo, hi>>] = IF cdf[mid] < r THEN f[<<mid + 1, hi>>] ELSE f[<<lo, mid>>]
      BY <1>1, <1>8, <2>1
    <3>. HIDE DEF mid
    <3>1. /\ \A k : cdf[mid] < r /\ FirstIn(cdf, r, mid + 1, hi, k) => FirstIn(cdf, r, lo, hi, k)
          /\ \A k : ~(cdf[mid] < r) /\ FirstIn(cdf, r, lo, mid, k) => FirstIn(cdf, r, lo, hi, k)
      BY <2>1, <3>0, FirstInHalf
    <3>3. /\ mid \in P /\ mid + 1 \in P /\ n \in Nat
          /\ mid + 1 <= hi /\ hi <= (mid + 1) + n /\ lo <= mid /\ mid <= lo + n
      BY <1>1, <2>1, <3>0
    <3>4. /\ FirstIn(cdf, r, mid + 1, hi, f[<<mid + 1, hi>>])
          /\ FirstIn(cdf, r, lo, mid, f[<<lo, mid>>])
      BY <3>3
    <3>. HIDE DEF S
    <3>. QED
      BY <3>1, <3>2, <3>4
  <2>2. ASSUME NEW lo \in P, NEW hi \in P, lo <= hi, hi <= lo + (n + 1)
        PROVE  FirstIn(cdf, r, lo, hi, f[<<lo, hi>>])
    <3>1. CASE lo = hi
      <4>1. hi <= lo + n
        BY <1>1, <3>1
      <4>. QED
        BY <2>2, <4>1
    <3>2. CASE lo # hi
      BY <1>1, <2>1, <2>2, <3>2
    <3>. QED
      BY <3>1, <3>2
  <2>. QED
    BY <2>2
<1>11. ASSUME NEW lo \in P, NEW hi \in P, lo <= hi
       PROVE  FirstIn(cdf, r, lo, hi, f[<<lo, hi>>])
  <2>1. \A n \in Nat : n \in S
    <3>1. S \in SUBSET Nat
      OBVIOUS
    <3>. HIDE DEF S
    <3>. QED
      BY <1>9, <1>10, <3>1, Induction
  <2>2. hi - lo \in Nat /\ hi <= lo + (hi - lo)
    BY <1>1, <1>11
  <2>3. hi - lo \in S
    BY <2>1, <2>2
  <2>. QED
    BY <1>11, <2>2, <2>3
<1>. QED
  BY <1>6, <1>11

LEMMA PickIs ==
  ASSUME NEW weight \in [0 .. Events - 1 -> Weights]
  PROVE  PickIsFirst(ZipfCdf(weight))
<1>. DEFINE cdf == ZipfCdf(weight)
            last == Events - 1
<1>1. Events \in Nat \ {0} /\ 0 \in 0 .. last /\ last \in 0 .. last /\ last \in Nat
  BY PlanAssumption
<1>2. cdf \in Shares
  BY CdfGrows
<1>. HIDE DEF cdf
<1>3. cdf[last] \in Nat
  BY <1>1, <1>2 DEF Shares
<1>4. ASSUME NEW r \in 0 .. cdf[last]
      PROVE  LET e == PickZipf(cdf, r) IN
             e \in 1 .. Events /\ cdf[e - 1] >= r /\ \A k \in 0 .. e - 2 : cdf[k] < r
  <2>. DEFINE k == Search(cdf, r)[<<0, last>>]
  <2>1. r \in Nat /\ r <= cdf[last]
    BY <1>3
  <2>2. FirstIn(cdf, r, 0, last, k)
    BY <1>1, <1>2, <2>1, SearchIs
  <2>3. PickZipf(cdf, r) = k + 1
    BY DEF PickZipf
  <2>. HIDE DEF k
  <2>4. /\ k \in 0 .. last /\ cdf[k] >= r
        /\ \A m \in 0 .. k - 1 : cdf[m] < r
    BY <1>3, <2>1, <2>2 DEF FirstIn
  <2>5. k + 1 \in 1 .. Events /\ (k + 1) - 1 = k /\ (k + 1) - 2 = k - 1
    BY <1>1, <2>4
  <2>. HIDE DEF last
  <2>. QED
    BY <2>3, <2>4, <2>5
<1>. QED
  BY <1>4 DEF PickIsFirst, cdf

-----------------------------------------------------------------------------
(* The slope of a column                                                   *)

\* The five samples of a column, one by one.
LEMMA SumOfFive ==
  ASSUME NEW f, f[1] \in Int, f[2] \in Int, f[3] \in Int, f[4] \in Int, f[5] \in Int
  PROVE  SumOver(5, f) = f[1] + f[2] + f[3] + f[4] + f[5]
<1>. DEFINE At(h) == [i \in 0 .. 5 |-> IF i = 0 THEN 0 ELSE h[i - 1] + f[i]]
            g == [i \in 0 .. 5 |->
                    IF i = 0 THEN 0
                    ELSE IF i = 1 THEN f[1]
                    ELSE IF i = 2 THEN f[1] + f[2]
                    ELSE IF i = 3 THEN f[1] + f[2] + f[3]
                    ELSE IF i = 4 THEN f[1] + f[2] + f[3] + f[4]
                    ELSE f[1] + f[2] + f[3] + f[4] + f[5]]
            s == CHOOSE h : h = At(h)
<1>1. g = At(g)
  OBVIOUS
<1>2. s = At(s)
  <2>. HIDE DEF g
  <2>. QED
    BY <1>1
<1>3. SumOver(5, f) = s[5]
  BY DEF SumOver
<1>. HIDE DEF s, g
<1>4. /\ s[0] = 0 /\ s[1] = s[0] + f[1] /\ s[2] = s[1] + f[2] /\ s[3] = s[2] + f[3]
      /\ s[4] = s[3] + f[4] /\ s[5] = s[4] + f[5]
  BY <1>2
<1>. QED
  BY <1>3, <1>4

LEMMA SlopeIs ==
  ASSUME NEW x \in [1 .. 5 -> Int], NEW y \in [1 .. 5 -> Int]
  PROVE  SlopeIsRegression(x, y)
<1>. DEFINE t   == [i \in 1 .. 5 |-> x[i] - x[1]]
            dx  == [i \in 1 .. 5 |-> 5 * x[i] - SumOver(5, x)]
            dy  == [i \in 1 .. 5 |-> 5 * y[i] - SumOver(5, y)]
            cov == SumOver(5, [i \in 1 .. 5 |-> dx[i] * dy[i]])
            var == SumOver(5, [i \in 1 .. 5 |-> dx[i] * dx[i]])
            tt  == SumOver(5, [i \in 1 .. 5 |-> t[i] * t[i]])
            ty  == SumOver(5, [i \in 1 .. 5 |-> t[i] * y[i]])
            T   == SumOver(5, t)
            Y   == SumOver(5, y)
            d   == 5 * tt - T * T
            c   == 5 * ty - T * Y
<1>1. Len(x) = 5
  OBVIOUS
<1>2. SlopePerMin(x, y) = IF d = 0 THEN NoSlope ELSE <<c, d>>
  BY <1>1 DEF SlopePerMin
<1>3. ASSUME NEW f \in [1 .. 5 -> Int]
      PROVE  SumOver(5, f) = f[1] + f[2] + f[3] + f[4] + f[5] /\ SumOver(5, f) \in Int
  <2>1. f[1] \in Int /\ f[2] \in Int /\ f[3] \in Int /\ f[4] \in Int /\ f[5] \in Int
    OBVIOUS
  <2>2. SumOver(5, f) = f[1] + f[2] + f[3] + f[4] + f[5]
    BY <2>1, SumOfFive
  <2>. QED
    BY <2>1, <2>2
<1>4. ASSUME NEW a \in [1 .. 5 -> Int], NEW b \in [1 .. 5 -> Int]
      PROVE  /\ SumOver(5, [i \in 1 .. 5 |-> a[i] * b[i]]) =
                  a[1] * b[1] + a[2] * b[2] + a[3] * b[3] + a[4] * b[4] + a[5] * b[5]
             /\ SumOver(5, [i \in 1 .. 5 |-> a[i] * b[i]]) \in Int
  <2>. DEFINE f == [i \in 1 .. 5 |-> a[i] * b[i]]
  <2>1. f \in [1 .. 5 -> Int]
    <3>1. ASSUME NEW i \in 1 .. 5 PROVE a[i] * b[i] \in Int
      OBVIOUS
    <3>. QED
      BY <3>1
  <2>2. /\ f[1] = a[1] * b[1] /\ f[2] = a[2] * b[2] /\ f[3] = a[3] * b[3]
        /\ f[4] = a[4] * b[4] /\ f[5] = a[5] * b[5]
    OBVIOUS
  <2>. HIDE DEF f
  <2>3. /\ SumOver(5, f) = a[1] * b[1] + a[2] * b[2] + a[3] * b[3] + a[4] * b[4] + a[5] * b[5]
        /\ SumOver(5, f) \in Int
    BY <1>3, <2>1, <2>2
  <2>. QED
    BY <2>3 DEF f
<1>5. /\ t \in [1 .. 5 -> Int]
      /\ t[1] = x[1] - x[1] /\ t[2] = x[2] - x[1] /\ t[3] = x[3] - x[1]
      /\ t[4] = x[4] - x[1] /\ t[5] = x[5] - x[1]
  OBVIOUS
<1>6. /\ SumOver(5, x) = x[1] + x[2] + x[3] + x[4] + x[5] /\ SumOver(5, x) \in Int
      /\ Y = y[1] + y[2] + y[3] + y[4] + y[5] /\ Y \in Int
  BY <1>3
<1>7. /\ dx \in [1 .. 5 -> Int]
      /\ \A i \in 1 .. 5 : dx[i] = 5 * x[i] - SumOver(5, x)
  BY <1>6
<1>8. /\ dy \in [1 .. 5 -> Int]
      /\ \A i \in 1 .. 5 : dy[i] = 5 * y[i] - Y
  BY <1>6
<1>. HIDE DEF t, dx, dy
<1>9. /\ cov = dx[1] * dy[1] + dx[2] * dy[2] + dx[3] * dy[3] + dx[4] * dy[4] + dx[5] * dy[5]
      /\ cov \in Int
  BY <1>4, <1>7, <1>8
<1>10. /\ var = dx[1] * dx[1] + dx[2] * dx[2] + dx[3] * dx[3] + dx[4] * dx[4] + dx[5] * dx[5]
       /\ var \in Int
  BY <1>4, <1>7
<1>11. /\ tt = t[1] * t[1] + t[2] * t[2] + t[3] * t[3] + t[4] * t[4] + t[5] * t[5] /\ tt \in Int
       /\ ty = t[1] * y[1] + t[2] * y[2] + t[3] * y[3] + t[4] * y[4] + t[5] * y[5] /\ ty \in Int
  BY <1>4, <1>5
<1>12. T = t[1] + t[2] + t[3] + t[4] + t[5] /\ T \in Int
  BY <1>3, <1>5
<1>. HIDE DEF cov, var, tt, ty, T, Y
<1>13. c \in Int /\ d \in Int
  BY <1>6, <1>11, <1>12
<1>14. cov = 5 * c /\ var = 5 * d
  <2>1. x[1] \in Int /\ x[2] \in Int /\ x[3] \in Int /\ x[4] \in Int /\ x[5] \in Int
    OBVIOUS
  <2>2. y[1] \in Int /\ y[2] \in Int /\ y[3] \in Int /\ y[4] \in Int /\ y[5] \in Int
    OBVIOUS
  <2>. DEFINE x1 == x[1]  x2 == x[2]  x3 == x[3]  x4 == x[4]  x5 == x[5]
              y1 == y[1]  y2 == y[2]  y3 == y[3]  y4 == y[4]  y5 == y[5]
              X  == SumOver(5, x)
  <2>3. /\ dx[1] = 5 * x1 - X /\ dx[2] = 5 * x2 - X /\ dx[3] = 5 * x3 - X
        /\ dx[4] = 5 * x4 - X /\ dx[5] = 5 * x5 - X
    BY <1>7
  <2>4. /\ dy[1] = 5 * y1 - Y /\ dy[2] = 5 * y2 - Y /\ dy[3] = 5 * y3 - Y
        /\ dy[4] = 5 * y4 - Y /\ dy[5] = 5 * y5 - Y
    BY <1>8
  <2>5. /\ X = x1 + x2 + x3 + x4 + x5
        /\ Y = y1 + y2 + y3 + y4 + y5
        /\ T = (x1 - x1) + (x2 - x1) + (x3 - x1) + (x4 - x1) + (x5 - x1)
        /\ ty = (x1 - x1) * y1 + (x2 - x1) * y2 + (x3 - x1) * y3
                 + (x4 - x1) * y4 + (x5 - x1) * y5
        /\ tt = (x1 - x1) * (x1 - x1) + (x2 - x1) * (x2 - x1) + (x3 - x1) * (x3 - x1)
                 + (x4 - x1) * (x4 - x1) + (x5 - x1) * (x5 - x1)
    BY <1>5, <1>6, <1>11, <1>12
  <2>. HIDE DEF x1, x2, x3, x4, x5, y1, y2, y3, y4, y5, X
  <2>6. /\ x1 \in Int /\ x2 \in Int /\ x3 \in Int /\ x4 \in Int /\ x5 \in Int
        /\ y1 \in Int /\ y2 \in Int /\ y3 \in Int /\ y4 \in Int /\ y5 \in Int
    BY <2>1, <2>2 DEF x1, x2, x3, x4, x5, y1, y2, y3, y4, y5
  <2>7. (5 * x1 - X) * (5 * y1 - Y) + (5 * x2 - X) * (5 * y2 - Y)
           + (5 * x3 - X) * (5 * y3 - Y) + (5 * x4 - X) * (5 * y4 - Y)
           + (5 * x5 - X) * (5 * y5 - Y)
         = 5 * (5 * ty - T * Y)
    BY <2>5, <2>6
  <2>8. (5 * x1 - X) * (5 * x1 - X) + (5 * x2 - X) * (5 * x2 - X)
           + (5 * x3 - X) * (5 * x3 - X) + (5 * x4 - X) * (5 * x4 - X)
           + (5 * x5 - X) * (5 * x5 - X)
         = 5 * (5 * tt - T * T)
    BY <2>5, <2>6
  <2>9. cov = 5 * c
    BY <1>9, <2>3, <2>4, <2>7
  <2>10. var = 5 * d
    BY <1>10, <2>3, <2>8
  <2>. QED
    BY <2>9, <2>10
<1>. HIDE DEF c, d
<1>15. SlopePerMin(x, y)[1] * var = SlopePerMin(x, y)[2] * cov
  <2>1. CASE d = 0
    BY <1>2, <1>13, <1>14, <2>1 DEF NoSlope
  <2>2. CASE d # 0
    <3>1. SlopePerMin(x, y)[1] = c /\ SlopePerMin(x, y)[2] = d
      BY <1>2, <2>2
    <3>2. c * (5 * d) = d * (5 * c)
      BY <1>13
    <3>. QED
      BY <1>14, <3>1, <3>2
  <2>. QED
    BY <2>1, <2>2
<1>. QED
  BY <1>15 DEF SlopeIsRegression, cov, var, dx, dy

-----------------------------------------------------------------------------
(* The helpers                                                             *)

\* Two requests of different virtual users or of different sequence numbers
\* carry different keys, pickZipf finds the first event whose share reaches the
\* throw of the dice, and the slope is the one of the regression: for every
\* number of requests, events and weights.
THEOREM HelpersCompute == HelpersAreExact
<1>1. ASSUME input \in KeyInput PROVE KeysDiffer(input.v, input.c, input.w, input.d)
  <2>1. /\ input.v \in 1 .. Field - 1 /\ input.w \in 1 .. Field - 1
        /\ input.c \in Dice /\ input.d \in Dice
    BY <1>1 DEF KeyInput
  <2>. QED
    BY <2>1, KeysAreUnique
<1>2. ASSUME input \in ZipfInput PROVE PickIsFirst(ZipfCdf(input.weight))
  <2>1. input.weight \in [0 .. Events - 1 -> Weights]
    BY <1>2 DEF ZipfInput
  <2>. QED
    BY <2>1, PickIs
<1>3. ASSUME input \in SampleInput
      PROVE  SlopeIsRegression([i \in 1 .. 5 |-> input.t0 + input.step * i * i], input.y)
  <2>. DEFINE x == [i \in 1 .. 5 |-> input.t0 + input.step * i * i]
  <2>1. input.y \in [1 .. 5 -> Values] /\ input.t0 \in Int /\ input.step \in Int
    BY <1>3 DEF SampleInput
  <2>2. input.y \in [1 .. 5 -> Int]
    BY <2>1, PlanAssumption
  <2>3. x \in [1 .. 5 -> Int]
    BY <2>1
  <2>. HIDE DEF x
  <2>4. SlopeIsRegression(x, input.y)
    BY <2>2, <2>3, SlopeIs
  <2>. QED
    BY <2>4 DEF x
<1>. QED
  BY <1>1, <1>2, <1>3 DEF HelpersAreExact
=============================================================================
