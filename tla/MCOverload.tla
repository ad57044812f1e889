------------------------------ MODULE MCOverload ------------------------------
(* A small instance of Overload, and of LoadPlan, whose load it is under.  A *)
(* behaviour is one of Overload, or is an input of LoadPlan and nothing else. *)
EXTENDS Overload, LoadPlan

CONSTANTS r1, r2, r3

S(max, inflight, slow, timeout, acquire, lag, async) ==
  [max |-> max, inflight |-> inflight, slow |-> slow, timeout |-> timeout,
   acquire |-> acquire, lag |-> lag, async |-> async]

\* The bare pool with its own timeout; a bulkhead of two behind a delay;
\* the same with a request timeout; shedding by queue length and by the
\* loop's delay on the asynchronous path.
MCSettings == {S(0, 0, FALSE, FALSE, TRUE, FALSE, FALSE), S(2, 0, TRUE, FALSE, FALSE, FALSE, FALSE),
               S(2, 0, FALSE, TRUE, FALSE, FALSE, FALSE), S(0, 1, FALSE, FALSE, FALSE, TRUE, TRUE)}
MCResults  == {Ok("created"), Ok("accepted"), Err("ECONNREFUSED", "other"), Err("57P01", "other")}

\* One step and several, up, level and down; holds from too short to measure to
\* the usual ones; k6 ready at once, late, and too late for some queries.
MCLadders   == {<<1>>, <<2, 5>>, <<3, 3, 1>>}
MCRamps     == {0, 5}
MCHolds     == {1, 17, 18, 60}
MCWarmups   == {20, 30}
MCDurations == {[n |-> n, unit |-> "s"] : n \in {3, 23, 40, 90}} \cup {[n |-> 2, unit |-> "m"]}
MCLags      == {0, 3, 5, 15, 20}

MCInit == Init /\ \/ input = NoInput
                  \/ input \in Input /\ set.max = 0 /\ set.inflight = 0
MCNext == input = NoInput /\ Next /\ UNCHANGED input
MCSpec == MCInit /\ [][MCNext]_<<vars, input>> /\ Fairness
=============================================================================
