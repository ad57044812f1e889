------------------------------- MODULE LoadPlan -------------------------------
(***************************************************************************)
(* What the measurements rest on, as definitions: the load plans of the k6 *)
(* scripts and the schedules they leave behind, the windows the analyzers  *)
(* cut out of them, the keys and the events of the requests, and the slope *)
(* of the memory report.  Time is in seconds.                              *)
(***************************************************************************)
EXTENDS Integers, Sequences, FiniteSets

CONSTANTS
  Ladders,   \* STEPS and VU_STEPS: sequences of rates
  Ramps, Holds,        \* STEP_RAMP, STEP_HOLD
  Warmups,   \* WARMUP_SEC
  Durations, \* DURATION: a number and its unit
  Lags,      \* from startEpoch (run-*.sh) until k6 starts
  Field,     \* what a field of four hex digits holds: 16^4
  Requests,  \* requests of one virtual user
  Events,    \* EVENT_COUNT
  Weights, Values,     \* ranges for weights and samples
  NoInput

ASSUME PlanAssumption ==
  /\ Ladders \subseteq Seq(Nat)
  /\ Durations \subseteq [n : Nat, unit : {"s", "m"}]
  /\ Ramps \cup Holds \cup Warmups \cup Lags \cup Weights \cup Values \subseteq Nat
  /\ Field \in Nat \ {0} /\ Requests \in Nat /\ Events \in Nat \ {0}

\* The sequence number of a virtual user stays within its two fields.
ASSUME FieldAssumption == Requests < Field * Field

-----------------------------------------------------------------------------
(* k6 scenarios and the plans of the scripts                               *)

RateStage(target, duration) == [target |-> target, duration |-> duration]

\* A scenario begins with rate (or VUs) from, goes through its stages, and has
\* stop seconds for the requests still under way (gracefulStop).
Scenario(start, from, stages, stop) ==
  [start |-> start, from |-> from, stages |-> stages, stop |-> stop]
Constant(start, rate, duration, stop) ==
  Scenario(start, rate, <<RateStage(rate, duration)>>, stop)

Ends(sc) ==
  LET end[i \in 0 .. Len(sc.stages)] ==
        IF i = 0 THEN sc.start ELSE end[i - 1] + sc.stages[i].duration
  IN end
Over(sc) == Ends(sc)[Len(sc.stages)] + sc.stop

\* From a to b the scenario keeps to one rate.
SteadyAt(sc, rate, a, b) == \E i \in DOMAIN sc.stages :
  /\ sc.stages[i].target = rate
  /\ rate = IF i = 1 THEN sc.from ELSE sc.stages[i - 1].target
  /\ Ends(sc)[i - 1] <= a /\ b <= Ends(sc)[i]

Ladder(steps, ramp, hold) ==
  [i \in 1 .. 2 * Len(steps) |->
     RateStage(steps[(i + 1) \div 2], IF i % 2 = 1 THEN ramp ELSE hold)]

\* What handleSummary works out on its own.
Schedule(steps, first, ramp, hold) ==
  LET t[k \in 1 .. Len(steps)] == IF k = 1 THEN first ELSE t[k - 1] + ramp + hold
  IN [k \in 1 .. Len(steps) |->
        [rate |-> steps[k], holdStart |-> t[k] + ramp, holdEnd |-> t[k] + ramp + hold]]

Seconds(d)  == IF d.unit = "m" THEN 60 * d.n ELSE d.n
ParseInt(d) == d.n

Option == [steps : Ladders, ramp : Ramps, hold : Holds, warm : Warmups, duration : Durations]

\* The warm-up, what is measured, and the schedule of it.
Plan(warm, main, schedule) == [warm |-> warm, main |-> main, schedule |-> schedule]

BreakingPoint(o) ==
  Plan(Constant(0, 50, o.warm, 5),
       Scenario(o.warm + 10, 0, Ladder(o.steps, o.ramp, o.hold), 10),
       Schedule(o.steps, o.warm + 10, o.ramp, o.hold))

GeneratorSanity(o) ==
  Plan(Constant(0, 200, 15, 3),
       Scenario(20, 0, Ladder(o.steps, o.ramp, o.hold), 5),
       Schedule(o.steps, 20, o.ramp, o.hold))

ClosedModel(o) ==
  Plan(Constant(0, 10, 60, 5),
       Scenario(70, 0, Append(Ladder(o.steps, o.ramp, o.hold), RateStage(0, 5)), 30),
       Schedule(o.steps, 70, o.ramp, o.hold))

LbTest(o) ==
  Plan(Constant(0, 100, o.warm, 3),
       Constant(o.warm + 5, 900, Seconds(o.duration), 10),
       <<[rate |-> 900, holdStart |-> o.warm + 5, holdEnd |-> o.warm + 5 + ParseInt(o.duration)]>>)

\* SPIKE=1: a second scenario of lb-test.js on top of the steady one.
LbSpike(o) == Constant(o.warm + 5 + 30, 3000, 30, 10)

TlsFixed(o) ==
  Plan(Constant(0, 50, o.warm, 5),
       Constant(o.warm + 10, 300, Seconds(o.duration), 10),
       <<[rate |-> 300, holdStart |-> o.warm + 10, holdEnd |-> o.warm + 10 + ParseInt(o.duration)]>>)

\* The three modes of final.js leave no schedule: the whole run is analyzed.
FinalMode(o) ==
  {Constant(o.warm + 5, 1000, 600, 15), Constant(o.warm + 5, 1000, 180, 15),
   Scenario(o.warm + 5, 0, <<RateStage(0, 20), RateStage(2000, 1), RateStage(2000, 60), RateStage(0, 1),
                             RateStage(0, 40)>>, 15)}
Final(o) == {Plan(Constant(0, 100, o.warm, 5), sc, <<>>) : sc \in FinalMode(o)}

-----------------------------------------------------------------------------
(* Windows of the analyzers: the w seconds that end at to.  A counter is    *)
(* looked at over these seconds; a query that asks every few of them for a  *)
(* rate or for the last sample of a gauge reads samples from before.        *)

\* back: how many seconds before the window its queries read; skips: whether a
\* window that is empty is left out.
Analyzer(head, tail, back, skips) == [head |-> head, tail |-> tail, back |-> back, skips |-> skips]

Analyze      == Analyzer(15, 2, {0, 10}, TRUE)
AnalyzeTls   == Analyzer(20, 3, {0, 15}, FALSE)
AnalyzeApp   == Analyzer(20, 3, {0, 1, 15}, FALSE)
AnalyzePool  == Analyzer(20, 3, {0, 1}, FALSE)
AnalyzeProxy == Analyzer(20, 3, {0, 1}, FALSE)
AnalyzeCache == Analyzer(20, 3, {0}, FALSE)
AnalyzeMq    == Analyzer(20, 3, {0}, FALSE)

\* Fault: nothing is cut off at the head, and k6 is late.
WindowNoHead(a, e) ==
  LET to == e.holdEnd - a.tail IN [to |-> to, w |-> to - e.holdStart]

Window(a, e) ==
  LET from == e.holdStart + a.head
      to   == e.holdEnd - a.tail
  IN [to |-> to, w |-> IF to - from > 1 THEN to - from ELSE 1]

Measured(a, e) == a.skips => e.holdStart + a.head < e.holdEnd - a.tail

\* Which analyzers read which plans.
Reads(o) ==
  {<<Analyze, p>> : p \in {BreakingPoint(o), GeneratorSanity(o), ClosedModel(o)}}
    \cup {<<AnalyzeTls, TlsFixed(o)>>}
    \cup {<<a, LbTest(o)>> : a \in {AnalyzeApp, AnalyzePool, AnalyzeProxy, AnalyzeCache, AnalyzeMq}}

-----------------------------------------------------------------------------
(* Keys and events of the requests                                         *)

\* Fault: only the low field of the sequence number is used.
NextKeyLow(vu, seq) == <<vu % Field, 0, seq % Field>>

\* nextIdempotencyKey; run id and clock only add to the difference.
NextKey(vu, seq) == <<vu % Field, (seq \div Field) % Field, seq % Field>>

NoKey == <<>>

\* reservationRequest: the state of a virtual user after each of its requests;
\* again[i] says whether the dice of DUP_RATIO ask for the last key.
Sent(vu, again) ==
  LET s[i \in 0 .. Len(again)] ==
        IF i = 0 THEN [seq |-> 0, lastKey |-> NoKey]
        ELSE IF again[i] /\ s[i - 1].lastKey # NoKey THEN s[i - 1]
        ELSE [seq |-> s[i - 1].seq + 1, lastKey |-> NextKey(vu, s[i - 1].seq + 1)]
  IN s

\* zipfCdf, with whole numbers for the weights and without the division.
ZipfCdf(weight) ==
  LET sum[i \in 0 .. Events - 1] == IF i = 0 THEN weight[0] ELSE sum[i - 1] + weight[i]
  IN sum

\* What the loop of pickZipf finds between lo and hi.
Search(cdf, r) ==
  LET found[w \in (0 .. Events - 1) \X (0 .. Events - 1)] ==
        LET lo  == w[1]
            hi  == w[2]
            mid == (lo + hi) \div 2
        IN IF lo >= hi THEN lo
           ELSE IF cdf[mid] < r THEN found[<<mid + 1, hi>>]
           ELSE found[<<lo, mid>>]
  IN found

PickZipf(cdf, r) == Search(cdf, r)[<<0, Events - 1>>] + 1

-----------------------------------------------------------------------------
(* The slope of a column over time, as a fraction per second               *)

SumOver(n, f) ==
  LET sum[i \in 0 .. n] == IF i = 0 THEN 0 ELSE sum[i - 1] + f[i] IN sum[n]

NoSlope == <<0, 0>>

SlopePerMin(x, y) ==
  LET n  == Len(x)
      t  == [i \in 1 .. n |-> x[i] - x[1]]
      tt == SumOver(n, [i \in 1 .. n |-> t[i] * t[i]])
      ty == SumOver(n, [i \in 1 .. n |-> t[i] * y[i]])
      d  == n * tt - SumOver(n, t) * SumOver(n, t)
  IN IF n < 5 \/ d = 0 THEN NoSlope
     ELSE <<n * ty - SumOver(n, t) * SumOver(n, y), d>>

-----------------------------------------------------------------------------
(* What the definitions are applied to, one at a time: the options of a    *)
(* run, the dice of two virtual users, the weights of the events, the      *)
(* samples of a column.                                                    *)

VARIABLE input

Dice        == [1 .. Requests -> BOOLEAN]
PlanInput   == [option : Option]
KeyInput    == [v : 1 .. Field - 1, w : 1 .. Field - 1, c : Dice, d : Dice]
ZipfInput   == [weight : [0 .. Events - 1 -> Weights]]
SampleInput == [y : [1 .. 5 -> Values], step : {1, 2}, t0 : {0, 7}]
Input       == PlanInput \cup KeyInput \cup ZipfInput \cup SampleInput

\* What an analyzer reads of a hold keeps to its rate, if k6 is late by lag and
\* the query reads back seconds before the window, and both together are no more
\* than what is cut off at the head, nor than the hold leaves for them.
ReadsSteady(sc, a, e) == \A lag \in Lags, back \in a.back :
  LET to == Window(a, e).to - lag IN
  Measured(a, e) /\ lag + back <= a.head /\ e.holdEnd - e.holdStart > a.tail + lag + back
    => SteadyAt(sc, e.rate, to - Window(a, e).w - back, to)

\* analyze.mjs:22, run-k6.sh:6: the requests of the warm-up are over before the
\* measured scenario begins; k6 was at the rate that the schedule states for as
\* long as it states; and what an analyzer reads lies in that time, the samples
\* before the window included.  The rates of the CPU columns reach back so far
\* that they do so only while k6 is at most 5 s late: nothing in the scripts
\* keeps a later k6, or a hold too short for them, from mixing the ramp in.
\* lb-test.js:83: a spike has ordinary load on both sides, in a hold that is
\* longer than 70 s; its windows are then those of both scenarios.
WindowsAreSteady == input \in PlanInput =>
  LET o == input.option IN
  /\ \A p \in Final(o) : Over(p.warm) <= p.main.start
  /\ \A ap \in Reads(o) :
       LET p == ap[2] IN
       /\ Over(p.warm) <= p.main.start
       /\ \A k \in DOMAIN p.schedule :
            LET e == p.schedule[k] IN
            SteadyAt(p.main, e.rate, e.holdStart, e.holdEnd) /\ ReadsSteady(p.main, ap[1], e)
  /\ LET e == LbTest(o).schedule[1] IN
     e.holdEnd - e.holdStart > 70 => e.holdStart < LbSpike(o).start /\ Over(LbSpike(o)) < e.holdEnd

\* Two requests carry the same key only if they are of one virtual user and the
\* dice asked for its last key all the time in between.
KeysDiffer(v, c, w, d) == \A i, j \in 1 .. Requests :
  Sent(v, c)[i].lastKey = Sent(w, d)[j].lastKey /\ (v = w => c = d /\ i < j)
    => v = w /\ \A m \in i + 1 .. j : c[m]

\* The binary search finds the first event whose share reaches r.
PickIsFirst(cdf) == \A r \in 0 .. cdf[Events - 1] :
  LET e == PickZipf(cdf, r) IN
  e \in 1 .. Events /\ cdf[e - 1] >= r /\ \A k \in 0 .. e - 2 : cdf[k] < r

\* The shortened sums are those of the regression around the means, whatever
\* the time of the first sample.
SlopeIsRegression(x, y) ==
  LET dx  == [i \in 1 .. 5 |-> 5 * x[i] - SumOver(5, x)]
      dy  == [i \in 1 .. 5 |-> 5 * y[i] - SumOver(5, y)]
      cov == SumOver(5, [i \in 1 .. 5 |-> dx[i] * dy[i]])
      var == SumOver(5, [i \in 1 .. 5 |-> dx[i] * dx[i]])
  IN SlopePerMin(x, y)[1] * var = SlopePerMin(x, y)[2] * cov

\* What the generator sends and what the report computes is what the comments
\* promise: unique keys unless a duplicate is asked for (lib.js:25), events in
\* the proportions of the weights (lib.js:46-49), the slope of the regression
\* (analyze-final.mjs:59).
HelpersAreExact ==
  /\ input \in KeyInput    => KeysDiffer(input.v, input.c, input.w, input.d)
  /\ input \in ZipfInput   => PickIsFirst(ZipfCdf(input.weight))
  /\ input \in SampleInput =>
       SlopeIsRegression([i \in 1 .. 5 |-> input.t0 + input.step * i * i], input.y)
=============================================================================
