------------------------------ MODULE GateProofs ------------------------------
(***************************************************************************)
(* The stock gate of AsyncWrite, as long as Redis keeps the counters, no   *)
(* command to it fails and no confirm is lost: for any finite sets of      *)
(* calls and slots, any keys, reused or not, and any number of the other   *)
(* failures, it does not hand out a seat the database cannot give.         *)
(*                                                                         *)
(* The counter is compared with every call that may still take its row,    *)
(* Debtor: also those that nobody promised anything any more, but whose    *)
(* message is on its way (the app died before it answered).                *)
(***************************************************************************)
EXTENDS AsyncWriteProofs

-----------------------------------------------------------------------------
(* What a set of calls weighs                                              *)

Held(rq, calls)  == UNION {{c} \X (1 .. rq[c].qty) : c \in calls}
Weigh(rq, calls) == Cardinality(Held(rq, calls))

LEMMA SeatsOfCall ==
  ASSUME NEW rq \in [Call -> Request], NEW c \in Call
  PROVE  /\ rq[c].qty \in Nat \ {0}
         /\ IsFiniteSet({c} \X (1 .. rq[c].qty))
         /\ Cardinality({c} \X (1 .. rq[c].qty)) = rq[c].qty
<1>1. rq[c].qty \in Nat \ {0}
  BY RequestAssumption
<1>2. IsFiniteSet(1 .. rq[c].qty) /\ Cardinality(1 .. rq[c].qty) = rq[c].qty
  BY <1>1, FS_Interval
<1>3. IsFiniteSet({c}) /\ Cardinality({c}) = 1
  BY FS_Singleton
<1>4. Cardinality({c} \X (1 .. rq[c].qty)) = 1 * rq[c].qty /\ IsFiniteSet({c} \X (1 .. rq[c].qty))
  BY <1>2, <1>3, FS_Product
<1>. QED
  BY <1>1, <1>4

LEMMA HeldFinite ==
  ASSUME NEW rq \in [Call -> Request], NEW S \in SUBSET Call
  PROVE  IsFiniteSet(Held(rq, S)) /\ Weigh(rq, S) \in Nat
<1>. DEFINE T == {{c} \X (1 .. rq[c].qty) : c \in S}
            f == [c \in S |-> {c} \X (1 .. rq[c].qty)]
<1>1. IsFiniteSet(S)
  BY CallAssumption, FS_Subset
<1>2. f \in Surjection(S, T)
  BY DEF Surjection
<1>. HIDE DEF f
<1>3. IsFiniteSet(T)
  BY <1>1, <1>2, FS_Surjection
<1>4. \A t \in T : IsFiniteSet(t)
  BY SeatsOfCall
<1>5. IsFiniteSet(UNION T)
  BY <1>3, <1>4, FS_UNION
<1>. QED
  BY <1>5, FS_CardinalityType DEF Held, Weigh

LEMMA WeighAdd ==
  ASSUME NEW rq \in [Call -> Request], NEW S \in SUBSET Call, NEW c \in Call, c \notin S
  PROVE  Weigh(rq, S \cup {c}) = Weigh(rq, S) + rq[c].qty
<1>. DEFINE own == {c} \X (1 .. rq[c].qty)
<1>1. IsFiniteSet(own) /\ Cardinality(own) = rq[c].qty /\ rq[c].qty \in Nat
  BY SeatsOfCall
<1>2. IsFiniteSet(Held(rq, S)) /\ Weigh(rq, S) \in Nat
  BY HeldFinite
<1>3. Held(rq, S \cup {c}) = Held(rq, S) \cup own
  BY DEF Held
<1>4. Held(rq, S) \cap own = {}
  <2>1. ASSUME NEW x \in Held(rq, S), x \in own PROVE FALSE
    <3>1. PICK d \in S : x \in {d} \X (1 .. rq[d].qty)
      BY <2>1 DEF Held
    <3>2. x[1] = d /\ x[1] = c
      BY <2>1, <3>1
    <3>. QED
      BY <3>1, <3>2
  <2>. QED
    BY <2>1
<1>. HIDE DEF own
<1>5. Cardinality(Held(rq, S) \cup own) = Cardinality(Held(rq, S)) + Cardinality(own) - Cardinality({})
  BY <1>1, <1>2, <1>4, FS_Union
<1>6. Cardinality({}) = 0
  BY FS_EmptySet
<1>7. Weigh(rq, S \cup {c}) = Weigh(rq, S) + Cardinality(own) - 0
  BY <1>3, <1>5, <1>6 DEF Weigh
<1>. QED
  BY <1>1, <1>2, <1>7

LEMMA WeighRemove ==
  ASSUME NEW rq \in [Call -> Request], NEW S \in SUBSET Call, NEW c \in S
  PROVE  Weigh(rq, S \ {c}) = Weigh(rq, S) - rq[c].qty /\ rq[c].qty <= Weigh(rq, S)
<1>1. (S \ {c}) \cup {c} = S /\ c \in Call
  OBVIOUS
<1>2. Weigh(rq, S) = Weigh(rq, S \ {c}) + rq[c].qty
  BY <1>1, WeighAdd
<1>3. Weigh(rq, S \ {c}) \in Nat /\ rq[c].qty \in Nat
  BY HeldFinite, SeatsOfCall
<1>. QED
  BY <1>2, <1>3

LEMMA WeighMono ==
  ASSUME NEW rq \in [Call -> Request], NEW S \in SUBSET Call, NEW T \in SUBSET S
  PROVE  /\ Weigh(rq, T) <= Weigh(rq, S)
         /\ Weigh(rq, S) \in Nat /\ Weigh(rq, T) \in Nat
<1>1. Held(rq, T) \subseteq Held(rq, S)
  BY DEF Held
<1>2. T \in SUBSET Call
  OBVIOUS
<1>. QED
  BY <1>1, <1>2, HeldFinite, FS_Subset DEF Weigh

LEMMA WeighNothing ==
  ASSUME NEW rq
  PROVE  Weigh(rq, {}) = 0
<1>1. Held(rq, {}) = {}
  BY DEF Held
<1>. QED
  BY <1>1, FS_EmptySet DEF Weigh

-----------------------------------------------------------------------------
(* Who may still take a row, and what the gate has to cover                *)

\* None of the failures that break the count: see README.
Steady == Faults \cap {"redis", "evict", "confirm"} = {}

Avail(e) == IF e \in Event THEN remaining[e] ELSE 0

Debtor(c) ==
  \/ step[c] \in {"undo", "publish", "release"}
  \/ (step[c] = "confirm" \/ answer[c] = "accepted" \/ Copied(c)) /\ ~KeyBooked(c)

Debt(e) == {c \in Call : EventOf(c) = e /\ Debtor(c)}

\* Those who did not find too little.
Firm(e) == {c \in Call : EventOf(c) = e /\ Debtor(c) /\ step[c] # "undo"}

Covered(e) ==
  /\ Weigh(req, Firm(e)) <= Avail(e)
  /\ gate[e] + Weigh(req, Debt(e)) <= Avail(e)

Course(c) ==
  /\ step[c] # "sync"
  /\ Copied(c) => step[c] \in {"confirm", "done"}
  /\ answer[c] # "none" => step[c] = "done"

\* The database refuses a message only because its row is there.
TrueVerdict(c) == consumed[c] \cap {"sold_out", "not_found"} # {} => KeyBooked(c)

GateInv ==
  /\ \A e \in EventId : Covered(e)
  /\ \A c \in Call : Course(c) /\ TrueVerdict(c)

LEMMA GateTypes ==
  ASSUME TypeOK
  PROVE  /\ req \in [Call -> Request]
         /\ \A e \in EventId : Avail(e) \in Nat /\ gate[e] \in Int
         /\ \A c \in Call : EventOf(c) \in EventId
         /\ \A e : Debt(e) \subseteq Call /\ Firm(e) \subseteq Debt(e)
         /\ \A e : Weigh(req, Debt(e)) \in Nat /\ Weigh(req, Firm(e)) \in Nat
<1>1. req \in [Call -> Request]
  BY DEF TypeOK
<1>2. \A e \in EventId : Avail(e) \in Nat /\ gate[e] \in Int
  BY DEF TypeOK, Avail
<1>3. \A c \in Call : EventOf(c) \in EventId
  BY TakeGiveType
<1>4. \A e : Debt(e) \subseteq Call /\ Firm(e) \subseteq Debt(e)
  BY DEF Debt, Firm
<1>5. \A e : Weigh(req, Debt(e)) \in Nat /\ Weigh(req, Firm(e)) \in Nat
  BY <1>1, <1>4, HeldFinite
<1>. QED
  BY <1>1, <1>2, <1>3, <1>4, <1>5

\* Fewer debtors and the same seats.
LEMMA CoveredStays ==
  ASSUME TypeOK, TypeOK', NEW e \in EventId, Covered(e), req' = req,
         Debt(e)' \subseteq Debt(e), Firm(e)' \subseteq Firm(e),
         gate'[e] <= gate[e], Avail(e)' = Avail(e)
  PROVE  Covered(e)'
<1>1. /\ Weigh(req, Debt(e)') <= Weigh(req, Debt(e))
      /\ Weigh(req, Firm(e)') <= Weigh(req, Firm(e))
      /\ Weigh(req, Debt(e)') \in Nat /\ Weigh(req, Firm(e)') \in Nat
  BY GateTypes, WeighMono
<1>2. gate[e] \in Int /\ gate'[e] \in Int /\ Avail(e) \in Nat
      /\ Weigh(req, Debt(e)) \in Nat /\ Weigh(req, Firm(e)) \in Nat
  BY GateTypes DEF TypeOK
<1>3. Covered(e)' <=> /\ Weigh(req, Firm(e)') <= Avail(e)
                      /\ gate'[e] + Weigh(req, Debt(e)') <= Avail(e)
  BY DEF Covered
<1>. QED
  BY <1>1, <1>2, <1>3 DEF Covered

\* Nobody becomes a debtor.
Calmer ==
  /\ req' = req
  /\ \A c \in Call : /\ Debtor(c)' => Debtor(c)
                     /\ Debtor(c)' /\ step'[c] # "undo" => step[c] # "undo"

LEMMA CalmerDebt ==
  ASSUME Calmer, NEW e
  PROVE  Debt(e)' \subseteq Debt(e) /\ Firm(e)' \subseteq Firm(e)
  BY DEF Calmer, Debt, Firm, EventOf

LEMMA CalmStep ==
  ASSUME TypeOK, TypeOK', GateInv, Calmer, UNCHANGED <<gate, remaining>>, NEW e \in EventId
  PROVE  Covered(e)'
<1>1. Avail(e)' = Avail(e)
  BY DEF Avail
<1>2. gate'[e] <= gate[e]
  BY DEF TypeOK
<1>. QED
  BY <1>1, <1>2, CalmerDebt, CoveredStays DEF GateInv, Calmer

-----------------------------------------------------------------------------
(* The three ways the account moves: seats are taken, given back, booked   *)

\* What an API step leaves alone.
LEMMA CopiedStays ==
  ASSUME UNCHANGED <<queues, slots>>, NEW c
  PROVE  Copied(c)' <=> Copied(c)
  BY DEF queues, slots, Copied, CopiesOf

\* What one call does to the debts of its event, and not to others.
LEMMA OneCall ==
  ASSUME TypeOK, NEW c \in Call, req' = req,
         \A d \in Call : d # c => (Debtor(d)' <=> Debtor(d)) /\ step'[d] = step[d], NEW e
  PROVE  /\ e # EventOf(c) => Debt(e)' = Debt(e) /\ Firm(e)' = Firm(e)
         /\ ~Debtor(c) /\ Debtor(c)' /\ e = EventOf(c) => Debt(e)' = Debt(e) \cup {c} /\ c \notin Debt(e)
         /\ ~Debtor(c) /\ Debtor(c)' /\ step'[c] = "undo" => Firm(e)' = Firm(e)
         /\ ~Debtor(c) /\ Debtor(c)' /\ step'[c] # "undo" /\ e = EventOf(c) => Firm(e)' = Firm(e) \cup {c}
         /\ Debtor(c) /\ ~Debtor(c)' /\ e = EventOf(c) => Debt(e)' = Debt(e) \ {c} /\ c \in Debt(e)
         /\ Debtor(c) /\ ~Debtor(c)' => Firm(e)' \subseteq Firm(e)
  BY DEF Debt, Firm, EventOf

LEMMA DecrCovers ==
  ASSUME TypeOK, TypeOK', GateInv, NEW c \in Call, Decr(c), NEW e \in EventId
  PROVE  Covered(e)'
<1>1. /\ step[c] = "decr" /\ gate' = [gate EXCEPT ![EventOf(c)] = @ - req[c].qty]
      /\ req' = req /\ UNCHANGED <<queues, slots, answer, db>>
      /\ step' = [step EXCEPT ![c] = IF gate'[EventOf(c)] < 0 THEN "undo" ELSE "publish"]
  BY DEF Decr, Take, Goto
<1>2. answer[c] = "none" /\ ~Copied(c)
  BY <1>1 DEF GateInv, Course
<1>3. ~Debtor(c) /\ Debtor(c)'
  BY <1>1, <1>2 DEF Debtor, TypeOK
<1>4. \A d \in Call : d # c => (Debtor(d)' <=> Debtor(d)) /\ step'[d] = step[d]
  BY <1>1, CopiedStays DEF Debtor, TypeOK, db, KeyBooked
<1>5. EventOf(c) \in EventId /\ req[c].qty \in Nat \ {0} /\ Covered(e) /\ Avail(e)' = Avail(e)
  BY <1>1, TakeGiveType DEF GateInv, Avail, db
<1>6. CASE e # EventOf(c)
  <2>1. Debt(e)' = Debt(e) /\ Firm(e)' = Firm(e)
    BY <1>1, <1>4, <1>6, OneCall
  <2>2. gate'[e] <= gate[e]
    BY <1>1, <1>6 DEF TypeOK
  <2>. QED
    BY <1>1, <1>5, <2>1, <2>2, CoveredStays
<1>7. CASE e = EventOf(c)
  <2>1. gate'[e] = gate[e] - req[c].qty
    BY <1>1, <1>7 DEF TypeOK
  <2>2. Debt(e)' = Debt(e) \cup {c} /\ c \notin Debt(e)
    BY <1>1, <1>3, <1>4, <1>7, OneCall
  <2>3. Weigh(req, Debt(e)') = Weigh(req, Debt(e)) + req[c].qty
    BY <2>2, GateTypes, WeighAdd
  <2>4. /\ gate[e] \in Int /\ Avail(e) \in Nat /\ Weigh(req, Debt(e)) \in Nat
        /\ Weigh(req, Firm(e)) \in Nat
        /\ gate[e] + Weigh(req, Debt(e)) <= Avail(e)
        /\ Weigh(req, Firm(e)) <= Avail(e)
    BY <1>5, GateTypes DEF Covered
  <2>5. gate'[e] + Weigh(req, Debt(e)') <= Avail(e)
    BY <1>5, <2>1, <2>3, <2>4
  <2>6. Weigh(req, Firm(e)') <= Avail(e)
    <3>1. CASE gate'[e] < 0
      <4>1. Firm(e)' = Firm(e)
        BY <1>1, <1>3, <1>4, <1>7, <3>1, OneCall DEF TypeOK
      <4>. QED
        BY <2>4, <4>1
    <3>2. CASE ~(gate'[e] < 0)
      <4>1. Firm(e)' \subseteq Debt(e)' /\ Debt(e)' \subseteq Call
        BY DEF Firm, Debt
      <4>2. /\ Weigh(req, Firm(e)') <= Weigh(req, Debt(e)')
            /\ Weigh(req, Firm(e)') \in Nat /\ Weigh(req, Debt(e)') \in Nat
        BY <4>1, GateTypes, WeighMono
      <4>3. gate'[e] \in Int
        BY DEF TypeOK
      <4>. QED
        BY <2>4, <2>5, <3>2, <4>2, <4>3
    <3>. QED
      BY <3>1, <3>2
  <2>. QED
    BY <1>1, <1>5, <2>5, <2>6 DEF Covered
<1>. QED
  BY <1>6, <1>7

LEMMA GiveCovers ==
  ASSUME TypeOK, TypeOK', GateInv, NEW c \in Call, Undo(c) \/ Release(c), NEW e \in EventId
  PROVE  Covered(e)'
<1>1. /\ step[c] \in {"undo", "release"} /\ gate' = [gate EXCEPT ![EventOf(c)] = @ + req[c].qty]
      /\ req' = req /\ UNCHANGED <<queues, slots, db>>
      /\ step' = [step EXCEPT ![c] = "done"]
      /\ \E o \in {"sold_out", "error"} : answer' = [answer EXCEPT ![c] = o]
  BY DEF Undo, Release, Give, Goto, Finish
<1>2. ~Copied(c)
  BY <1>1 DEF GateInv, Course
<1>3. Debtor(c) /\ ~Debtor(c)'
  BY <1>1, <1>2, CopiedStays DEF Debtor, TypeOK
<1>4. \A d \in Call : d # c => (Debtor(d)' <=> Debtor(d)) /\ step'[d] = step[d]
  BY <1>1, CopiedStays DEF Debtor, TypeOK, db, KeyBooked
<1>5. EventOf(c) \in EventId /\ req[c].qty \in Nat \ {0} /\ Covered(e) /\ Avail(e)' = Avail(e)
  BY <1>1, TakeGiveType DEF GateInv, Avail, db
<1>6. CASE e # EventOf(c)
  <2>1. Debt(e)' = Debt(e) /\ Firm(e)' = Firm(e)
    BY <1>1, <1>4, <1>6, OneCall
  <2>2. gate'[e] <= gate[e]
    BY <1>1, <1>6 DEF TypeOK
  <2>. QED
    BY <1>1, <1>5, <2>1, <2>2, CoveredStays
<1>7. CASE e = EventOf(c)
  <2>1. gate'[e] = gate[e] + req[c].qty
    BY <1>1, <1>7 DEF TypeOK
  <2>2. Debt(e)' = Debt(e) \ {c} /\ c \in Debt(e) /\ Firm(e)' \subseteq Firm(e)
    BY <1>1, <1>3, <1>4, <1>7, OneCall
  <2>3. Weigh(req, Debt(e)') = Weigh(req, Debt(e)) - req[c].qty
    BY <2>2, GateTypes, WeighRemove
  <2>4. Firm(e) \subseteq Call
    BY DEF Firm
  <2>5. Weigh(req, Firm(e)') <= Weigh(req, Firm(e)) /\ Weigh(req, Firm(e)') \in Nat
    BY <2>2, <2>4, GateTypes, WeighMono
  <2>6. /\ gate[e] \in Int /\ Avail(e) \in Nat /\ Weigh(req, Debt(e)) \in Nat
        /\ Weigh(req, Firm(e)) \in Nat
        /\ gate[e] + Weigh(req, Debt(e)) <= Avail(e)
        /\ Weigh(req, Firm(e)) <= Avail(e)
    BY <1>5, GateTypes DEF Covered
  <2>7. gate'[e] + Weigh(req, Debt(e)') <= Avail(e) /\ Weigh(req, Firm(e)') <= Avail(e)
    BY <1>5, <2>1, <2>3, <2>5, <2>6
  <2>. QED
    BY <1>1, <1>5, <2>7 DEF Covered
<1>. QED
  BY <1>6, <1>7

\* A call whose message is on its way and whose key is free is owed its seats:
\* the database has them.
LEMMA CopiedIsOwed ==
  ASSUME TypeOK, GateInv, NEW c \in Call, Copied(c), ~KeyBooked(c)
  PROVE  /\ c \in Firm(EventOf(c)) /\ c \in Debt(EventOf(c))
         /\ EventOf(c) \in Event /\ req[c].qty <= remaining[EventOf(c)]
<1>1. Course(c) /\ EventOf(c) \in EventId /\ req[c].qty \in Nat \ {0}
  BY TakeGiveType DEF GateInv
<1>2. c \in Firm(EventOf(c)) /\ c \in Debt(EventOf(c))
  BY <1>1 DEF Course, Debtor, Firm, Debt
<1>3. Firm(EventOf(c)) \in SUBSET Call
  BY DEF Firm
<1>4. req[c].qty <= Weigh(req, Firm(EventOf(c)))
  BY <1>2, <1>3, GateTypes, WeighRemove
<1>5. Weigh(req, Firm(EventOf(c))) <= Avail(EventOf(c))
  BY <1>1 DEF GateInv, Covered
<1>6. /\ Weigh(req, Firm(EventOf(c))) \in Nat /\ Avail(EventOf(c)) \in Nat
      /\ req[c].qty <= Avail(EventOf(c))
  BY <1>1, <1>4, <1>5, GateTypes
<1>. QED
  BY <1>1, <1>2, <1>6 DEF Avail

LEMMA BookKeys ==
  ASSUME TypeOK, NEW c \in Call, Book(req[c]), req' = req
  PROVE  KeyBooked(c)' /\ \A d \in Call : KeyBooked(d) => KeyBooked(d)'
  BY DEF Book, KeyBooked, KeysOf

LEMMA BookCovers ==
  ASSUME TypeOK, TypeOK', GateInv, NEW c \in Call, Copied(c),
         WorkerOutcome(req[c]) = "created", Book(req[c]),
         UNCHANGED <<gate, req, step, answer>>,
         \A d \in Call : Copied(d)' => Copied(d),
         NEW e \in EventId
  PROVE  Covered(e)'
<1>. DEFINE f == EventOf(c)
<1>1. /\ f \in Event /\ f \in EventId /\ req[c].qty \in Nat \ {0}
      /\ ~KeyBooked(c) /\ KeyBooked(c)'
  BY BookType, BookKeys, TakeGiveType DEF TypeOK, EventOf, KeyBooked
<1>2. \A d \in EventId : Avail(d)' = IF d = f THEN Avail(d) - req[c].qty ELSE Avail(d)
  BY <1>1 DEF Book, Avail, TypeOK, EventOf
<1>3. step[c] \in {"confirm", "done"}
  BY DEF GateInv, Course
<1>4. ~Debtor(c)' /\ \A d \in Call : Debtor(d)' => Debtor(d)
  BY <1>1, <1>3, BookKeys DEF Debtor
<1>5. /\ Debt(e)' \subseteq Debt(e) \ {c} /\ Firm(e)' \subseteq Firm(e) \ {c}
      /\ Debt(e) \subseteq Call /\ Firm(e) \subseteq Call
  BY <1>4 DEF Debt, Firm, EventOf
<1>6. CASE e # f
  <2>1. gate'[e] <= gate[e]
    BY DEF TypeOK
  <2>2. Debt(e)' \subseteq Debt(e) /\ Firm(e)' \subseteq Firm(e)
    BY <1>5
  <2>. QED
    BY <1>2, <1>6, <2>1, <2>2, CoveredStays DEF GateInv
<1>7. CASE e = f
  <2>1. c \in Firm(e) /\ c \in Debt(e)
    BY <1>1, <1>7, CopiedIsOwed
  <2>2. /\ Weigh(req, Debt(e) \ {c}) = Weigh(req, Debt(e)) - req[c].qty
        /\ Weigh(req, Firm(e) \ {c}) = Weigh(req, Firm(e)) - req[c].qty
    BY <1>5, <2>1, GateTypes, WeighRemove
  <2>3. /\ Weigh(req, Debt(e)') <= Weigh(req, Debt(e) \ {c}) /\ Weigh(req, Debt(e)') \in Nat
        /\ Weigh(req, Firm(e)') <= Weigh(req, Firm(e) \ {c}) /\ Weigh(req, Firm(e)') \in Nat
    <3>1. Debt(e) \ {c} \in SUBSET Call /\ Firm(e) \ {c} \in SUBSET Call
      BY <1>5
    <3>. QED
      BY <1>5, <3>1, GateTypes, WeighMono
  <2>4. /\ gate[e] \in Int /\ Avail(e) \in Nat /\ Weigh(req, Debt(e)) \in Nat
        /\ Weigh(req, Firm(e)) \in Nat
        /\ gate[e] + Weigh(req, Debt(e)) <= Avail(e)
        /\ Weigh(req, Firm(e)) <= Avail(e)
    BY GateTypes DEF GateInv, Covered
  <2>5. Avail(e)' = Avail(e) - req[c].qty
    BY <1>2, <1>7
  <2>6. gate[e] + Weigh(req, Debt(e)') <= Avail(e)' /\ Weigh(req, Firm(e)') <= Avail(e)'
    BY <1>1, <2>2, <2>3, <2>4, <2>5
  <2>. QED
    BY <2>6 DEF Covered
<1>. QED
  BY <1>6, <1>7

-----------------------------------------------------------------------------
(* The invariant                                                           *)

LEMMA ApiGate ==
  ASSUME Steady, TypeOK, TypeOK', GateInv, NEW c \in Call, ApiStep(c)
  PROVE  GateInv'
<1>0. /\ UNCHANGED <<req, queues, slots, counts>>
      /\ \A d \in Call : d # c => step'[d] = step[d] /\ answer'[d] = answer[d]
      /\ step \in [Call -> Step] /\ step' \in [Call -> Step]
  BY ApiStepKinds DEF TypeOK
<1>1. Course(c)
  BY DEF GateInv
<1>2. \/ Submit(c) \/ Decr(c) \/ Undo(c) \/ Confirm(c) \/ Release(c) \/ SendFails(c) \/ AppCrash(c)
  BY <1>1 DEF ApiStep, Steady, Happens, GateFails, ConfirmLost, ReleaseFails, Sync, SyncFails, Course
<1>3. UNCHANGED db
  BY <1>2 DEF Submit, Decr, Undo, Confirm, Release, SendFails, AppCrash
<1>4. /\ step'[c] # "sync"
      /\ Copied(c)' => step'[c] \in {"confirm", "done"}
      /\ answer'[c] # "none" => step'[c] = "done"
  <2>1. Copied(c)' <=> Copied(c)
    BY <1>0, CopiedStays
  <2>2. CASE Submit(c) \/ Decr(c)
    BY <1>1, <2>1, <2>2 DEF Submit, Decr, Goto, Course, TypeOK
  <2>3. CASE Undo(c) \/ Confirm(c) \/ Release(c) \/ AppCrash(c)
    BY <1>1, <2>1, <2>3 DEF Undo, Confirm, Release, AppCrash, Goto, Finish, Course, TypeOK
  <2>4. CASE SendFails(c)
    BY <1>1, <2>1, <2>4 DEF SendFails, Goto, Course, TypeOK
  <2>. QED
    BY <1>2, <2>2, <2>3, <2>4
<1>5. ASSUME NEW d \in Call PROVE Course(d)' /\ TrueVerdict(d)'
  <2>1. TrueVerdict(d)'
    BY <1>0, <1>3 DEF GateInv, TrueVerdict, KeyBooked, db, counts
  <2>2. CASE d = c
    BY <1>4, <2>1, <2>2 DEF Course
  <2>3. CASE d # c
    BY <1>0, <2>1, <2>3, CopiedStays DEF GateInv, Course
  <2>. QED
    BY <2>2, <2>3
<1>6. ASSUME NEW e \in EventId PROVE Covered(e)'
  <2>1. CASE Decr(c)
    BY <2>1, DecrCovers
  <2>2. CASE Undo(c) \/ Release(c)
    BY <2>2, GiveCovers
  <2>3. CASE Submit(c) \/ Confirm(c) \/ SendFails(c) \/ AppCrash(c)
    <3>1. \A d \in Call : d # c => (Debtor(d)' <=> Debtor(d)) /\ step'[d] = step[d]
      BY <1>0, <1>3, CopiedStays DEF Debtor, KeyBooked, db
    <3>2. (Debtor(c)' => Debtor(c)) /\ step'[c] # "undo"
      <4>0. Copied(c)' <=> Copied(c)
        BY <1>0, CopiedStays
      <4>1. CASE Submit(c) \/ SendFails(c)
        BY <1>0, <1>1, <1>3, <4>0, <4>1 DEF Submit, SendFails, Goto, TypeOK, Debtor, Course, KeyBooked, db
      <4>2. CASE Confirm(c) \/ AppCrash(c)
        BY <1>0, <1>1, <1>3, <4>0, <4>2 DEF Confirm, AppCrash, Goto, Finish, TypeOK, Debtor, Course, KeyBooked, db
      <4>. QED
        BY <2>3, <4>1, <4>2
    <3>3. Debtor(c)' => step[c] # "undo"
      <4>1. CASE Submit(c) \/ Confirm(c) \/ SendFails(c)
        BY <4>1 DEF Submit, Confirm, SendFails
      <4>2. CASE AppCrash(c)
        <5>1. step[c] = "undo" => ~Copied(c)'
          BY <1>0, <1>1, CopiedStays DEF Course
        <5>. QED
          BY <4>2, <5>1 DEF AppCrash, Finish, Goto, Debtor, TypeOK
      <4>. QED
        BY <2>3, <4>1, <4>2
    <3>4. Calmer
      BY <1>0, <3>1, <3>2, <3>3 DEF Calmer
    <3>5. UNCHANGED <<gate, remaining>>
      BY <2>3 DEF Submit, Confirm, SendFails, AppCrash, db
    <3>. QED
      BY <3>4, <3>5, CalmStep
  <2>. QED
    BY <1>2, <2>1, <2>2, <2>3
<1>. QED
  BY <1>5, <1>6 DEF GateInv

\* The publish: the message stands for the seats that were taken.
LEMMA SendGate ==
  ASSUME TypeOK, TypeOK', GateInv, NEW c \in Call, Send(c)
  PROVE  GateInv'
<1>0. /\ UNCHANGED <<db, gate, req, answer, retry, slots, counts>>
      /\ step[c] = "publish" /\ step' = [step EXCEPT ![c] = "confirm"]
      /\ main' = Put(main, [call |-> c, attempt |-> 0])
  BY DEF Send, Goto
<1>1. [call |-> c, attempt |-> 0] \in Copy
  BY MaxRetryAssumption DEF Copy
<1>2. \A m \in Copy : m # [call |-> c, attempt |-> 0] => main'[m] = main[m]
  BY <1>0 DEF Put, TypeOK
<1>3. ASSUME NEW d \in Call, d # c PROVE Copied(d)' <=> Copied(d)
  <2>1. \A m \in CopiesOf(d) : main'[m] = main[m]
    BY <1>2, <1>3 DEF CopiesOf
  <2>. QED
    BY <1>0, <2>1 DEF slots, Copied, CopiesOf
<1>4. ASSUME NEW d \in Call PROVE Course(d)' /\ TrueVerdict(d)'
  <2>1. TrueVerdict(d)'
    BY <1>0 DEF GateInv, TrueVerdict, KeyBooked, db, counts
  <2>2. Course(d)'
    BY <1>0, <1>3 DEF GateInv, Course, TypeOK
  <2>. QED
    BY <2>1, <2>2
<1>5. Calmer
  <2>1. Debtor(c) /\ step'[c] # "undo"
    BY <1>0 DEF Debtor, TypeOK
  <2>2. \A d \in Call : d # c => (Debtor(d)' <=> Debtor(d)) /\ step'[d] = step[d]
    BY <1>0, <1>3 DEF Debtor, KeyBooked, db, TypeOK
  <2>3. step[c] # "undo"
    BY <1>0
  <2>. QED
    BY <1>0, <2>1, <2>2, <2>3 DEF Calmer
<1>. QED
  BY <1>0, <1>4, <1>5, CalmStep DEF GateInv, db

\* A message that is on its way is not multiplied: no call is copied anew.
NotCopied == \A c \in Call : Copied(c)' => Copied(c)

LEMMA MoveCopies ==
  ASSUME TypeOK, TypeOK', Counted, MoveStep
  PROVE  NotCopied
<1>. SUFFICES ASSUME NEW c \in Call, Copied(c)' PROVE Copied(c)
  BY DEF NotCopied
<1>. DEFINE InQueue(m) == main[m] > 0 \/ retry[m] > 0
            InHand(s)  == job[s] \in CopiesOf(c)
<1>0. /\ CopiesOf(c) \subseteq Copy /\ CopiesOf(c)' = CopiesOf(c) /\ NoCopy \notin CopiesOf(c)
      /\ Copied(c) <=> (\E m \in CopiesOf(c) : InQueue(m)) \/ (\E s \in Slot : InHand(s))
      /\ Copied(c)' <=> (\E m \in CopiesOf(c) : InQueue(m)') \/ (\E s \in Slot : InHand(s)')
  BY NoCopyAssumption DEF CopiesOf, Copied
<1>1. ASSUME NEW s \in Slot, Deliver(s) PROVE Copied(c)
  <2>1. PICK n \in Copy : main[n] > 0 /\ main' = Drop(main, n) /\ job' = [job EXCEPT ![s] = n]
    BY <1>1 DEF Deliver
  <2>2. \A m \in Copy : main'[m] > 0 => main[m] > 0
    BY <2>1 DEF Drop, TypeOK
  <2>3. \A m \in CopiesOf(c) : InQueue(m)' => InQueue(m)
    BY <1>0, <1>1, <2>2 DEF Deliver
  <2>4. \A t \in Slot : t # s /\ InHand(t)' => InHand(t)
    BY <1>0, <2>1 DEF TypeOK
  <2>5. InHand(s)' => n \in CopiesOf(c) /\ InQueue(n)
    BY <1>0, <2>1 DEF TypeOK
  <2>. HIDE DEF InQueue, InHand
  <2>. QED
    BY <1>0, <2>3, <2>4, <2>5
<1>2. ASSUME NEW s \in Slot, ScheduleRetry(s) PROVE Copied(c)
  <2>1. stage[s] = "retry" /\ job[s] \in Copy /\ job[s].attempt < MaxRetry
    BY <1>2, CopyType DEF ScheduleRetry, Counted, SlotCounts
  <2>2. PICK n \in Copy : n = Next1(job[s]) /\ n.call = job[s].call
    BY <2>1, Next1Type
  <2>3. retry' = Put(retry, n) /\ UNCHANGED <<main, job>>
    BY <1>2, <2>2 DEF ScheduleRetry, Next1
  <2>4. \A m \in Copy : m # n => retry'[m] = retry[m]
    BY <2>3, QueueType DEF TypeOK
  <2>5. \A m \in CopiesOf(c) : m # n /\ InQueue(m)' => InQueue(m)
    BY <1>0, <2>3, <2>4
  <2>6. n \in CopiesOf(c) => InHand(s)
    BY <2>1, <2>2 DEF CopiesOf
  <2>7. \A t \in Slot : InHand(t)' => InHand(t)
    BY <1>0, <2>3
  <2>. HIDE DEF InQueue, InHand
  <2>. QED
    BY <1>0, <2>5, <2>6, <2>7
<1>3. ASSUME NEW s \in Slot, Ack(s) \/ DeadLetter(s) PROVE Copied(c)
  <2>1. UNCHANGED <<main, retry>> /\ job' = [job EXCEPT ![s] = NoCopy]
    BY <1>3 DEF Ack, DeadLetter, Frees, queues
  <2>2. \A t \in Slot : InHand(t)' => InHand(t)
    BY <1>0, <2>1 DEF TypeOK
  <2>. QED
    BY <1>0, <2>1, <2>2
<1>4. ASSUME NEW n \in Copy, Expire(n) PROVE Copied(c)
  <2>1. \A m \in Copy : m # n => main'[m] = main[m]
    BY <1>4, QueueType DEF Expire, TypeOK
  <2>2. \A m \in Copy : retry'[m] > 0 => retry[m] > 0
    BY <1>4 DEF Expire, Drop, TypeOK
  <2>3. \A m \in CopiesOf(c) : InQueue(m)' => InQueue(m)
    BY <1>0, <1>4, <2>1, <2>2 DEF Expire
  <2>. QED
    BY <1>0, <1>4, <2>3 DEF Expire, slots
<1>. QED
  BY <1>1, <1>2, <1>3, <1>4 DEF MoveStep

LEMMA SeverCopies ==
  ASSUME TypeOK, NEW lost, NEW runs, NEW ended, SeverStep(lost, runs, ended), UNCHANGED retry
  PROVE  NotCopied
<1>. SUFFICES ASSUME NEW c \in Call, Copied(c)' PROVE Copied(c)
  BY DEF NotCopied
<1>1. CopiesOf(c) \subseteq Copy /\ NoCopy \notin CopiesOf(c) /\ lost \subseteq Slot
  BY NoCopyAssumption DEF CopiesOf, SeverStep
<1>2. ASSUME NEW m \in CopiesOf(c), main'[m] > 0 \/ retry'[m] > 0 PROVE Copied(c)
  BY <1>1, <1>2, SeverStepType DEF Copied
<1>3. ASSUME NEW s \in Slot, job'[s] \in CopiesOf(c) PROVE Copied(c)
  BY <1>1, <1>3, SeverStepType DEF Copied
<1>. QED
  BY <1>2, <1>3 DEF Copied, CopiesOf

\* What neither books nor touches the calls keeps the account.
LEMMA QuietGate ==
  ASSUME TypeOK, TypeOK', GateInv, NotCopied, UNCHANGED <<db, gate, api>>,
         \A c \in Call : TrueVerdict(c)'
  PROVE  GateInv'
<1>1. UNCHANGED <<remaining, booked, gate, step, req, answer>>
  BY DEF db, api
<1>2. \A c \in Call : Course(c)'
  BY <1>1 DEF GateInv, Course, NotCopied
<1>3. Calmer
  BY <1>1 DEF Calmer, Debtor, NotCopied, KeyBooked
<1>. QED
  BY <1>1, <1>2, <1>3, CalmStep DEF GateInv

\* A transaction for c that books its row.
LEMMA BookGate ==
  ASSUME TypeOK, TypeOK', GateInv, NotCopied, UNCHANGED <<gate, api>>,
         NEW c \in Call, Copied(c), WorkerOutcome(req[c]) = "created", Book(req[c]),
         \A d \in Call : TrueVerdict(d)'
  PROVE  GateInv'
<1>1. UNCHANGED <<gate, step, req, answer>>
  BY DEF api
<1>2. \A d \in Call : Course(d)'
  BY <1>1 DEF GateInv, Course, NotCopied
<1>. QED
  BY <1>1, <1>2, BookCovers DEF GateInv, NotCopied

LEMMA InHandIsCopied ==
  ASSUME TypeOK, NEW s \in Slot, stage[s] # "empty"
  PROVE  job[s].call \in Call /\ Copied(job[s].call) /\ Asks(s) = req[job[s].call]
  BY CopyType DEF Copied, CopiesOf, Asks

\* The database's verdict on a message is sold_out or not_found only if its row
\* is there.
LEMMA VerdictIsTrue ==
  ASSUME TypeOK, GateInv, NEW c \in Call, Copied(c)
  PROVE  WorkerOutcome(req[c]) \in {"sold_out", "not_found"} => KeyBooked(c)
<1>1. CASE KeyBooked(c)
  BY <1>1
<1>2. CASE ~KeyBooked(c)
  <2>1. req[c].event \in Event /\ req[c].qty <= remaining[req[c].event]
    BY <1>2, CopiedIsOwed DEF EventOf
  <2>2. req[c].qty \in Nat /\ remaining[req[c].event] \in Nat
    BY <2>1, TakeGiveType DEF TypeOK
  <2>. QED
    BY <2>1, <2>2 DEF WorkerOutcome
<1>. QED
  BY <1>1, <1>2

LEMMA VerdictsStay ==
  ASSUME TypeOK, GateInv, NEW s \in Slot, stage[s] # "empty", req' = req, booked \subseteq booked',
         Count(s, WorkerOutcome(Asks(s))) \/ UNCHANGED consumed
  PROVE  \A d \in Call : TrueVerdict(d)'
<1>1. \A d \in Call : KeyBooked(d) => KeyBooked(d)'
  BY DEF KeyBooked, KeysOf
<1>2. CASE UNCHANGED consumed
  BY <1>1, <1>2 DEF GateInv, TrueVerdict
<1>3. CASE Count(s, WorkerOutcome(Asks(s)))
  <2>1. /\ job[s].call \in Call /\ Copied(job[s].call) /\ Asks(s) = req[job[s].call]
        /\ Asks(s) \in Request
    BY InHandIsCopied, CopyType
  <2>2. WorkerOutcome(Asks(s)) \in {"sold_out", "not_found"} => KeyBooked(job[s].call)
    BY <2>1, VerdictIsTrue
  <2>3. /\ consumed'[job[s].call] = consumed[job[s].call] \cup {WorkerOutcome(Asks(s))}
        /\ \A d \in Call : d # job[s].call => consumed'[d] = consumed[d]
    BY <1>3, <2>1, OutcomeType, ConsumedType
  <2>4. ASSUME NEW d \in Call PROVE TrueVerdict(d)'
    <3>1. CASE d = job[s].call
      BY <1>1, <2>1, <2>2, <2>3, <3>1 DEF GateInv, TrueVerdict
    <3>2. CASE d # job[s].call
      BY <1>1, <2>3, <3>2 DEF GateInv, TrueVerdict
    <3>. QED
      BY <3>1, <3>2
  <2>. QED
    BY <2>4
<1>. QED
  BY <1>2, <1>3

LEMMA SlotGate ==
  ASSUME TypeOK, TypeOK', GateInv, NEW s \in Slot, Handle(s) \/ HandleFails(s) \/ ZombieEnds(s)
  PROVE  GateInv'
<1>1. stage[s] # "empty" /\ UNCHANGED <<gate, api>> /\ req' = req
  BY DEF Handle, HandleFails, ZombieEnds, api
<1>2. job[s].call \in Call /\ Copied(job[s].call) /\ Asks(s) = req[job[s].call]
  BY <1>1, InHandIsCopied
<1>3. NotCopied
  <2>1. CASE Handle(s) \/ HandleFails(s)
    BY <2>1 DEF Handle, HandleFails, queues, NotCopied, Copied, CopiesOf
  <2>2. CASE ZombieEnds(s)
    BY <2>2, ZombieSevers, SeverCopies DEF ZombieEnds
  <2>. QED
    BY <2>1, <2>2
<1>4. \/ UNCHANGED db
      \/ Book(Asks(s)) /\ WorkerOutcome(Asks(s)) = "created"
  BY DEF Handle, HandleFails, ZombieEnds, Apply, db
<1>5. Count(s, WorkerOutcome(Asks(s))) \/ UNCHANGED consumed
  BY DEF Handle, HandleFails, ZombieEnds
<1>6. booked \subseteq booked'
  BY <1>4 DEF Book, db
<1>7. \A d \in Call : TrueVerdict(d)'
  BY <1>1, <1>5, <1>6, VerdictsStay
<1>. QED
  BY <1>1, <1>2, <1>3, <1>4, <1>7, QuietGate, BookGate

LEMMA GateStep ==
  ASSUME Steady, Inv, Inv', GateInv, [Next]_vars
  PROVE  GateInv'
<1>. TypeOK /\ TypeOK' /\ Counted
  BY DEF Inv
<1>1. ASSUME UNCHANGED <<req, booked, consumed>> PROVE \A d \in Call : TrueVerdict(d)'
  BY <1>1 DEF GateInv, TrueVerdict, KeyBooked
<1>2. CASE MoveStep
  <2>1. UNCHANGED <<db, gate, api, counts>>
    BY <1>2 DEF MoveStep, Deliver, ScheduleRetry, Ack, DeadLetter, Expire
  <2>. QED
    BY <1>1, <1>2, <2>1, MoveCopies, QuietGate DEF db, api, counts
<1>3. ASSUME NEW w \in Worker, WorkerGone(w) PROVE GateInv'
  <2>1. UNCHANGED <<db, gate, api, counts, retry>>
    BY <1>3 DEF WorkerGone
  <2>. QED
    BY <1>1, <1>3, <2>1, GoneSevers, SeverCopies, QuietGate DEF db, api, counts
<1>4. CASE UNCHANGED vars
  <2>1. UNCHANGED <<db, gate, api, counts>> /\ NotCopied
    BY <1>4 DEF vars, queues, slots, NotCopied, Copied, CopiesOf
  <2>. QED
    BY <1>1, <2>1, QuietGate DEF db, api, counts
<1>5. ~GateLost
  BY DEF Steady, GateLost, Happens
<1>. QED
  BY <1>2, <1>3, <1>4, <1>5, ApiGate, SendGate, SlotGate, StepKinds

LEMMA GateInit == Init => GateInv
<1>. SUFFICES ASSUME Init PROVE GateInv
  OBVIOUS
<1>1. \A c \in Call : ~Copied(c) /\ ~Debtor(c)
  BY NoCopyAssumption DEF Init, Copied, CopiesOf, Debtor
<1>2. \A c \in Call : Course(c) /\ TrueVerdict(c)
  BY <1>1 DEF Init, Course, TrueVerdict
<1>3. ASSUME NEW e \in EventId PROVE Covered(e)
  <2>1. Debt(e) = {} /\ Firm(e) = {}
    BY <1>1 DEF Debt, Firm
  <2>2. Avail(e) = gate[e] /\ Avail(e) \in Nat
    BY TotalAssumption DEF Init, Avail
  <2>. QED
    BY <2>1, <2>2, WeighNothing DEF Covered
<1>. QED
  BY <1>2, <1>3 DEF GateInv

LEMMA GateHolds == ASSUME Steady PROVE Spec => []GateInv
<1>1. Inv /\ Inv' /\ GateInv /\ [Next]_vars => GateInv'
  BY GateStep
<1>. QED
  BY <1>1, GateInit, InvHolds, PTL DEF Spec

-----------------------------------------------------------------------------
\* Reused keys, failed publishes, crashes of apps and workers, failed
\* transactions, lost replies of the database, retries and redeliveries never
\* let the gate hand out a seat the database cannot give, while Redis and the
\* confirms hold.
THEOREM GateIsSound == ASSUME Steady PROVE Spec => []GateNeverOversells
<1>1. ASSUME TypeOK, GateInv PROVE GateNeverOversells
  <2>. SUFFICES ASSUME NEW e \in Event
                PROVE  /\ Cardinality(SeatsHeld(Owed(e) \ Refused(e))) <= remaining[e]
                       /\ gate[e] + Cardinality(SeatsHeld(Owed(e))) <= remaining[e]
    BY DEF GateNeverOversells
  <2>1. e \in EventId /\ Covered(e) /\ Avail(e) = remaining[e] /\ Avail(e) \in Nat /\ gate[e] \in Int
    BY <1>1, EventAssumption DEF GateInv, Avail, TypeOK
  <2>2. \A S : Cardinality(SeatsHeld(S)) = Weigh(req, S)
    BY DEF SeatsHeld, Weigh, Held
  <2>3. Owed(e) \subseteq Debt(e) /\ Owed(e) \ Refused(e) \subseteq Firm(e)
    BY DEF Owed, Refused, Debt, Firm, Debtor
  <2>4. Debt(e) \subseteq Call /\ Firm(e) \subseteq Call
    BY DEF Debt, Firm
  <2>5. /\ Weigh(req, Owed(e)) <= Weigh(req, Debt(e))
        /\ Weigh(req, Owed(e) \ Refused(e)) <= Weigh(req, Firm(e))
        /\ Weigh(req, Debt(e)) \in Nat /\ Weigh(req, Firm(e)) \in Nat
        /\ Weigh(req, Owed(e)) \in Nat /\ Weigh(req, Owed(e) \ Refused(e)) \in Nat
    BY <1>1, <2>3, <2>4, GateTypes, WeighMono
  <2>. QED
    BY <2>1, <2>2, <2>5 DEF Covered
<1>2. Inv /\ GateInv => GateNeverOversells
  BY <1>1 DEF Inv
<1>. QED
  BY <1>2, InvHolds, GateHolds, PTL

\* A 202 is kept: the database rejects an accepted message only when the
\* reservation it asks for is there already.
THEOREM PromisesAreKept == ASSUME Steady PROVE Spec => []PromiseKept
<1>1. GateInv => PromiseKept
  BY DEF GateInv, TrueVerdict, PromiseKept
<1>. QED
  BY <1>1, GateHolds, PTL

-----------------------------------------------------------------------------
(* The promises: AsyncWrite implements PromiseStore                        *)

PromiseStep == Promises!Next \/ UNCHANGED Promises!vars

LEMMA SameVocabulary ==
  /\ \A c : Promises!KeyBooked(c) <=> KeyBooked(c)
  /\ \A S : Promises!Cardinality(Promises!Seats(S)) = Weigh(req, S)
<1>1. \A S : Promises!Cardinality(S) = Cardinality(S)
  BY DEF Promises!Cardinality, Cardinality
<1>. QED
  BY <1>1 DEF Promises!KeyBooked, Promises!KeysOf, KeyBooked, KeysOf, Promises!Seats, Weigh, Held

\* A promise that nobody was told of may go; nothing else changes.
LEMMA OnlyWithdrawn ==
  ASSUME UNCHANGED <<remaining, booked, req>>, Accepted' = Accepted, Promised' \subseteq Promised
  PROVE  PromiseStep
<1>. DEFINE C == Promised \ Promised'
<1>1. C \in SUBSET (Promised \ Accepted)
  BY DEF Promised, Accepted, KeyBooked
<1>2. Promised' = Promised \ C
  OBVIOUS
<1>. HIDE DEF C
<1>3. CASE C = {}
  BY <1>2, <1>3 DEF PromiseStep, Promises!vars
<1>4. CASE C # {}
  <2>1. Promises!Withdraw(C)
    BY <1>2, <1>4 DEF Promises!Withdraw
  <2>. QED
    BY <1>1, <2>1 DEF PromiseStep, Promises!Next
<1>. QED
  BY <1>3, <1>4

\* The gate lets a call through: its seats and those promised before are there.
LEMMA DecrPromises ==
  ASSUME TypeOK, TypeOK', GateInv, GateInv', NEW c \in Call, Decr(c)
  PROVE  PromiseStep
<1>0. PICK e \in EventId : e = EventOf(c)
  BY TakeGiveType
<1>. DEFINE X == Promises!Holding(e) \cup {c}
<1>1. /\ step[c] = "decr" /\ step'[c] \in {"undo", "publish"}
      /\ \A d \in Call : d # c => step'[d] = step[d]
      /\ UNCHANGED <<remaining, booked, req, answer, queues, slots>>
  BY DEF Decr, Goto, db, TypeOK
<1>2. \A d \in Call : (KeyBooked(d)' <=> KeyBooked(d)) /\ (Copied(d)' <=> Copied(d))
  BY <1>1, CopiedStays DEF KeyBooked
<1>3. answer[c] = "none" /\ ~Copied(c)
  BY <1>1 DEF GateInv, Course
<1>4. Accepted' = Accepted
  BY <1>1 DEF Accepted
<1>5. \A d \in Call : d # c => (d \in Promised' <=> d \in Promised)
  BY <1>1, <1>2 DEF Promised
<1>6. /\ c \notin Promised /\ Promised \subseteq Call /\ Promised' \subseteq Call
      /\ (c \in Promised' <=> ~KeyBooked(c) /\ step'[c] = "publish")
  BY <1>1, <1>2, <1>3 DEF Promised
<1>7. CASE c \notin Promised'
  BY <1>1, <1>4, <1>5, <1>6, <1>7, OnlyWithdrawn
<1>8. CASE c \in Promised'
  <2>1. Promised' = Promised \cup {c}
    BY <1>5, <1>6, <1>8
  <2>2. \A d \in Promised' : EventOf(d)' = EventOf(d) /\ d \in Firm(EventOf(d))'
    BY <1>1, <1>6 DEF Promised, Firm, Debtor, EventOf, GateInv, Course
  <2>3. X \subseteq Firm(e)' /\ Firm(e)' \subseteq Call
    <3>1. \A d \in X : d \in Promised' /\ EventOf(d) = e
      BY <1>0, <1>8, <2>1 DEF Promises!Holding, EventOf
    <3>. QED
      BY <2>2, <3>1 DEF Firm
  <2>4. req[c].qty \in Nat \ {0} /\ req \in [Call -> Request]
    BY TakeGiveType DEF TypeOK
  <2>5. /\ Weigh(req, X) <= Weigh(req, Firm(e)') /\ Weigh(req, Firm(e)') \in Nat
        /\ req[c].qty <= Weigh(req, X) /\ Weigh(req, X) \in Nat
    <3>1. X \in SUBSET Call /\ c \in X
      BY <2>3
    <3>. HIDE DEF X
    <3>. QED
      BY <2>3, <2>4, <3>1, WeighMono, WeighRemove
  <2>6. Weigh(req, Firm(e)') <= Avail(e) /\ Avail(e) \in Nat
    <3>1. Weigh(req', Firm(e)') <= Avail(e)'
      BY DEF GateInv, Covered
    <3>2. Avail(e)' = Avail(e)
      BY <1>1 DEF Avail
    <3>. QED
      BY <1>1, <3>1, <3>2, GateTypes
  <2>7. e \in Event /\ Weigh(req, X) <= remaining[e]
    BY <2>4, <2>5, <2>6 DEF Avail
  <2>8. Promises!Cardinality(Promises!Seats(X)) <= remaining[e]
    BY <2>7, SameVocabulary
  <2>9. Promises!Promise(c)
    <3>1. /\ req[c].event \in Event
          /\ Promises!Cardinality(Promises!Seats(Promises!Holding(req[c].event) \cup {c}))
               <= remaining[req[c].event]
      BY <1>0, <2>7, <2>8 DEF EventOf
    <3>2. ~Promises!KeyBooked(c)
      BY <1>6, <1>8, SameVocabulary
    <3>. QED
      BY <1>1, <1>4, <1>6, <2>1, <3>1, <3>2 DEF Promises!Promise
  <2>. QED
    BY <2>9 DEF PromiseStep, Promises!Next
<1>. QED
  BY <1>7, <1>8

\* The other steps of a call promise nothing; only the confirm tells the caller.
LEMMA ApiPromises ==
  ASSUME Steady, TypeOK, TypeOK', GateInv, GateInv', NEW c \in Call, ApiStep(c)
  PROVE  PromiseStep
<1>0. /\ UNCHANGED <<req, queues, slots>>
      /\ \A d \in Call : d # c => step'[d] = step[d] /\ answer'[d] = answer[d]
      /\ step \in [Call -> Step] /\ answer \in [Call -> ApiAnswer]
  BY ApiStepKinds DEF TypeOK
<1>1. Course(c)
  BY DEF GateInv
<1>2. \/ Submit(c) \/ Decr(c) \/ Undo(c) \/ Confirm(c) \/ Release(c) \/ SendFails(c) \/ AppCrash(c)
  BY <1>1 DEF ApiStep, Steady, Happens, GateFails, ConfirmLost, ReleaseFails, Sync, SyncFails, Course
<1>3. UNCHANGED <<remaining, booked>>
  BY <1>2 DEF Submit, Decr, Undo, Confirm, Release, SendFails, AppCrash, db
<1>4. \A d \in Call : (KeyBooked(d)' <=> KeyBooked(d)) /\ (Copied(d)' <=> Copied(d))
  BY <1>0, <1>3, CopiedStays DEF KeyBooked
<1>5. \A d \in Call : d # c => (d \in Promised' <=> d \in Promised) /\ (d \in Accepted' <=> d \in Accepted)
  BY <1>0, <1>4 DEF Promised, Accepted
<1>6. Promised \subseteq Call /\ Promised' \subseteq Call /\ Accepted \subseteq Call /\ Accepted' \subseteq Call
  BY DEF Promised, Accepted
<1>7. CASE Submit(c) \/ SendFails(c)
  <2>1. /\ answer' = answer
        /\ \/ step[c] = "idle" /\ step'[c] = "decr"
           \/ step[c] = "publish" /\ step'[c] = "release"
    BY <1>0, <1>7 DEF Submit, SendFails, Goto
  <2>2. (c \in Promised' => c \in Promised) /\ (c \in Accepted' <=> c \in Accepted)
    BY <1>4, <2>1 DEF Promised, Accepted
  <2>. QED
    BY <1>0, <1>3, <1>5, <1>6, <2>2, OnlyWithdrawn
<1>8. CASE Undo(c) \/ Release(c) \/ AppCrash(c)
  <2>1. /\ step[c] # "done" /\ step'[c] = "done" /\ answer'[c] \in {"sold_out", "error", "crashed"}
    BY <1>0, <1>8 DEF Undo, Release, AppCrash, Goto, Finish
  <2>2. (c \in Promised' => c \in Promised) /\ (c \in Accepted' <=> c \in Accepted)
    BY <1>1, <1>4, <2>1 DEF Promised, Accepted, Course
  <2>. QED
    BY <1>0, <1>3, <1>5, <1>6, <2>2, OnlyWithdrawn
<1>9. CASE Confirm(c)
  <2>1. step[c] = "confirm" /\ step'[c] = "done" /\ answer'[c] = "accepted"
    BY <1>0, <1>9 DEF Confirm, Goto, Finish
  <2>2. c \notin Accepted /\ Accepted' = Accepted \cup {c} /\ Promised' = Promised
    <3>1. c \notin Accepted /\ c \in Accepted' /\ (c \in Promised' <=> c \in Promised)
      BY <1>1, <1>4, <2>1 DEF Promised, Accepted, Course
    <3>. QED
      BY <1>5, <1>6, <3>1
  <2>3. c \in Promised \/ Promises!KeyBooked(c)
    BY <2>1, SameVocabulary DEF Promised
  <2>4. Promises!Accept(c)
    BY <1>0, <1>3, <2>2, <2>3 DEF Promises!Accept
  <2>. QED
    BY <2>4 DEF PromiseStep, Promises!Next
<1>. QED
  BY <1>2, <1>7, <1>8, <1>9, DecrPromises

\* The message of a publish stands for the promise.
LEMMA SendPromises ==
  ASSUME TypeOK, NEW c \in Call, Send(c)
  PROVE  PromiseStep
<1>0. /\ UNCHANGED <<remaining, booked, req, answer, retry, job>>
      /\ step[c] = "publish" /\ step' = [step EXCEPT ![c] = "confirm"]
      /\ main' = Put(main, [call |-> c, attempt |-> 0])
      /\ step \in [Call -> Step]
  BY DEF Send, Goto, db, slots, TypeOK
<1>1. \A m \in Copy : m.call # c => main'[m] = main[m]
  BY <1>0 DEF Put, TypeOK
<1>2. ASSUME NEW d \in Call, d # c PROVE d \in Promised' <=> d \in Promised
  <2>1. Copied(d)' <=> Copied(d)
    BY <1>0, <1>1, <1>2 DEF Copied, CopiesOf
  <2>. QED
    BY <1>0, <1>2, <2>1 DEF Promised, KeyBooked
<1>3. c \in Promised' => c \in Promised
  BY <1>0 DEF Promised, KeyBooked
<1>4. Accepted' = Accepted /\ Promised' \subseteq Promised
  BY <1>0, <1>2, <1>3 DEF Accepted, Promised
<1>. QED
  BY <1>0, <1>4, OnlyWithdrawn

LEMMA QuietPromises ==
  ASSUME NotCopied, UNCHANGED <<db, api>>
  PROVE  PromiseStep
<1>1. UNCHANGED <<remaining, booked, step, req, answer>>
  BY DEF db, api
<1>2. Accepted' = Accepted /\ Promised' \subseteq Promised
  BY <1>1 DEF Accepted, Promised, NotCopied, KeyBooked
<1>. QED
  BY <1>1, <1>2, OnlyWithdrawn

\* A worker's transaction fulfils the promise of its message.
LEMMA BookPromises ==
  ASSUME TypeOK, GateInv, NotCopied, UNCHANGED api,
         NEW c \in Call, Copied(c), WorkerOutcome(req[c]) = "created", Book(req[c])
  PROVE  PromiseStep
<1>. DEFINE C == {d \in Promised : ~KeyBooked(d)' /\ d \notin Promised'}
<1>1. UNCHANGED <<step, req, answer>> /\ Accepted' = Accepted
  BY DEF api, Accepted
<1>2. ~KeyBooked(c) /\ c \in Promised
  BY BookType DEF TypeOK, KeyBooked, Promised
<1>3. C \in SUBSET (Promised \ Accepted)
  BY <1>1 DEF Promised, Accepted
<1>4. \A d \in Call : KeyBooked(d)' <=> KeyBooked(d) \/ req[d].key = req[c].key
  BY <1>1 DEF Book, KeyBooked, KeysOf
<1>5. \A d \in Call : d \in Promised' => d \in Promised
  BY <1>1, <1>4 DEF Promised, NotCopied
<1>6. Promised' = {d \in Promised \ C : req[d].key # req[c].key}
  <2>1. /\ Promised \subseteq Call /\ Promised' \subseteq Call
        /\ \A d \in Promised : ~KeyBooked(d)
        /\ \A d \in Promised' : ~KeyBooked(d)'
    BY DEF Promised
  <2>. QED
    BY <1>4, <1>5, <2>1
<1>. HIDE DEF C
<1>7. Promises!Fulfil(c, C)
  BY <1>1, <1>2, <1>6 DEF Promises!Fulfil, Book
<1>. QED
  BY <1>3, <1>7 DEF PromiseStep, Promises!Next

LEMMA SlotPromises ==
  ASSUME TypeOK, GateInv, NEW s \in Slot, Handle(s) \/ HandleFails(s) \/ ZombieEnds(s)
  PROVE  PromiseStep
<1>1. stage[s] # "empty" /\ UNCHANGED api
  BY DEF Handle, HandleFails, ZombieEnds
<1>2. job[s].call \in Call /\ Copied(job[s].call) /\ Asks(s) = req[job[s].call]
  BY <1>1, InHandIsCopied
<1>3. NotCopied
  <2>1. CASE Handle(s) \/ HandleFails(s)
    BY <2>1 DEF Handle, HandleFails, queues, NotCopied, Copied, CopiesOf
  <2>2. CASE ZombieEnds(s)
    BY <2>2, ZombieSevers, SeverCopies DEF ZombieEnds
  <2>. QED
    BY <2>1, <2>2
<1>4. \/ UNCHANGED db
      \/ Book(Asks(s)) /\ WorkerOutcome(Asks(s)) = "created"
  BY DEF Handle, HandleFails, ZombieEnds, Apply, db
<1>. QED
  BY <1>1, <1>2, <1>3, <1>4, QuietPromises, BookPromises

LEMMA PromisesStep ==
  ASSUME Steady, Inv, Inv', GateInv, GateInv', [Next]_vars
  PROVE  PromiseStep
<1>. TypeOK /\ TypeOK' /\ Counted
  BY DEF Inv
<1>1. CASE MoveStep
  <2>1. UNCHANGED <<db, api>>
    BY <1>1 DEF MoveStep, Deliver, ScheduleRetry, Ack, DeadLetter, Expire
  <2>. QED
    BY <1>1, <2>1, MoveCopies, QuietPromises
<1>2. ASSUME NEW w \in Worker, WorkerGone(w) PROVE PromiseStep
  <2>1. UNCHANGED <<db, api, retry>>
    BY <1>2 DEF WorkerGone
  <2>. QED
    BY <1>2, <2>1, GoneSevers, SeverCopies, QuietPromises
<1>3. CASE UNCHANGED vars
  <2>1. UNCHANGED <<db, api>> /\ NotCopied
    BY <1>3 DEF vars, queues, slots, NotCopied, Copied, CopiesOf
  <2>. QED
    BY <2>1, QuietPromises
<1>4. ~GateLost
  BY DEF Steady, GateLost, Happens
<1>. QED
  BY <1>1, <1>2, <1>3, <1>4, ApiPromises, SendPromises, SlotPromises, StepKinds

\* While Redis keeps its counters and no confirm is lost, every behaviour of the
\* gate, the queues, the workers and their retries is one of PromiseStore: seats
\* are promised only when the event covers them with all promises before, only a
\* promised call gets a row, and no 202 is taken back.
THEOREM AsyncImplementsPromises == ASSUME Steady PROVE Spec => ImplementsPromises
<1>1. Init => Promises!Init
  <2>1. Init => Promised = {} /\ Accepted = {}
    BY NoCopyAssumption DEF Init, Promised, Accepted, Copied, CopiesOf
  <2>. QED
    BY <2>1 DEF Init, Promises!Init
<1>2. Inv /\ Inv' /\ GateInv /\ GateInv' /\ [Next]_vars => [Promises!Next]_(Promises!vars)
  BY PromisesStep DEF PromiseStep
<1>. QED
  BY <1>1, <1>2, InvHolds, GateHolds, PTL DEF Spec, ImplementsPromises, Promises!Spec

\* What PromiseStore guarantees by itself: no step of AsyncWrite is used.
HeldOf(e) == {c \in Promised : req[c].event = e}

StoreInv ==
  /\ req \in [Call -> Request] /\ remaining \in [Event -> Int]
  /\ Promised \subseteq Call
  /\ \A c \in Promised : req[c].event \in Event
  /\ \A e \in Event : Weigh(req, HeldOf(e)) <= remaining[e]
  /\ \A c \in Accepted : c \in Promised \/ KeyBooked(c)

LEMMA PromiseKeeps ==
  ASSUME StoreInv, NEW c \in Call, Promises!Promise(c)
  PROVE  StoreInv'
<1>1. /\ Promised' = Promised \cup {c} /\ req[c].event \in Event
      /\ UNCHANGED <<remaining, booked, req, Accepted>>
      /\ Promises!Cardinality(Promises!Seats(Promises!Holding(req[c].event) \cup {c}))
           <= remaining[req[c].event]
  BY DEF Promises!Promise
<1>2. Weigh(req, HeldOf(req[c].event) \cup {c}) <= remaining[req[c].event]
  BY <1>1, SameVocabulary DEF Promises!Holding, HeldOf
<1>3. ASSUME NEW e \in Event PROVE Weigh(req', HeldOf(e)') <= remaining'[e]
  <2>1. CASE e = req[c].event
    <3>1. HeldOf(e)' = HeldOf(e) \cup {c}
      BY <1>1, <2>1 DEF HeldOf
    <3>. QED
      BY <1>1, <1>2, <2>1, <3>1
  <2>2. CASE e # req[c].event
    <3>1. HeldOf(e)' = HeldOf(e)
      BY <1>1, <2>2 DEF HeldOf
    <3>. QED
      BY <1>1, <3>1 DEF StoreInv
  <2>. QED
    BY <2>1, <2>2
<1>4. \A d \in Call : KeyBooked(d)' <=> KeyBooked(d)
  BY <1>1 DEF KeyBooked
<1>. QED
  BY <1>1, <1>3, <1>4 DEF StoreInv, Accepted

LEMMA AcceptKeeps ==
  ASSUME StoreInv, NEW c \in Call, Promises!Accept(c)
  PROVE  StoreInv'
<1>1. /\ Accepted' = Accepted \cup {c} /\ (c \in Promised \/ KeyBooked(c))
      /\ UNCHANGED <<remaining, booked, req, Promised>>
  BY SameVocabulary DEF Promises!Accept
<1>2. \A e : HeldOf(e)' = HeldOf(e)
  BY <1>1 DEF HeldOf
<1>3. \A d \in Call : KeyBooked(d)' <=> KeyBooked(d)
  BY <1>1 DEF KeyBooked
<1>. QED
  BY <1>1, <1>2, <1>3 DEF StoreInv, Accepted

LEMMA WithdrawKeeps ==
  ASSUME StoreInv, NEW C \in SUBSET (Promised \ Accepted), Promises!Withdraw(C)
  PROVE  StoreInv'
<1>1. Promised' = Promised \ C /\ UNCHANGED <<remaining, booked, req, Accepted>>
  BY DEF Promises!Withdraw
<1>2. ASSUME NEW e \in Event PROVE Weigh(req', HeldOf(e)') <= remaining'[e]
  <2>1. HeldOf(e)' \in SUBSET HeldOf(e) /\ HeldOf(e) \in SUBSET Call
    BY <1>1 DEF HeldOf, StoreInv
  <2>2. /\ Weigh(req, HeldOf(e)') <= Weigh(req, HeldOf(e))
        /\ Weigh(req, HeldOf(e)) \in Nat /\ Weigh(req, HeldOf(e)') \in Nat
    BY <2>1, WeighMono DEF StoreInv
  <2>3. Weigh(req, HeldOf(e)) <= remaining[e] /\ remaining[e] \in Int
    BY DEF StoreInv
  <2>. QED
    BY <1>1, <2>2, <2>3
<1>3. \A d \in Call : KeyBooked(d)' <=> KeyBooked(d)
  BY <1>1 DEF KeyBooked
<1>. QED
  BY <1>1, <1>2, <1>3 DEF StoreInv, Accepted

LEMMA FulfilKeeps ==
  ASSUME StoreInv, NEW c \in Call, NEW C \in SUBSET (Promised \ Accepted), Promises!Fulfil(c, C)
  PROVE  StoreInv'
<1>1. /\ c \in Promised /\ UNCHANGED <<req, Accepted>>
      /\ remaining' = [remaining EXCEPT ![req[c].event] = @ - req[c].qty]
      /\ booked' = booked \cup {req[c]}
      /\ Promised' = {d \in Promised \ C : req[d].key # req[c].key}
  BY DEF Promises!Fulfil
<1>2. req[c].event \in Event /\ req[c].qty \in Nat
  BY <1>1, RequestAssumption DEF StoreInv
<1>3. ASSUME NEW e \in Event PROVE Weigh(req', HeldOf(e)') <= remaining'[e]
  <2>1. /\ HeldOf(e)' \in SUBSET (HeldOf(e) \ {c}) /\ HeldOf(e) \in SUBSET Call
        /\ e = req[c].event => c \in HeldOf(e)
    BY <1>1 DEF HeldOf, StoreInv
  <2>2. /\ Weigh(req, HeldOf(e)') <= Weigh(req, HeldOf(e) \ {c})
        /\ Weigh(req, HeldOf(e) \ {c}) <= Weigh(req, HeldOf(e))
        /\ Weigh(req, HeldOf(e)) \in Nat /\ Weigh(req, HeldOf(e)') \in Nat
        /\ Weigh(req, HeldOf(e) \ {c}) \in Nat
    <3>1. HeldOf(e) \ {c} \in SUBSET Call /\ HeldOf(e) \ {c} \in SUBSET HeldOf(e)
      BY <2>1
    <3>. QED
      BY <2>1, <3>1, WeighMono DEF StoreInv
  <2>3. Weigh(req, HeldOf(e)) <= remaining[e] /\ remaining[e] \in Int
    BY DEF StoreInv
  <2>4. CASE e = req[c].event
    <3>1. Weigh(req, HeldOf(e) \ {c}) = Weigh(req, HeldOf(e)) - req[c].qty
      BY <2>1, <2>4, WeighRemove DEF StoreInv
    <3>2. remaining'[e] = remaining[e] - req[c].qty
      BY <1>1, <2>4 DEF StoreInv
    <3>. QED
      BY <1>1, <1>2, <2>2, <2>3, <3>1, <3>2
  <2>5. CASE e # req[c].event
    <3>1. remaining'[e] = remaining[e]
      BY <1>1, <2>5 DEF StoreInv
    <3>. QED
      BY <1>1, <2>2, <2>3, <3>1
  <2>. QED
    BY <2>4, <2>5
<1>4. \A d \in Call : KeyBooked(d)' <=> KeyBooked(d) \/ req[d].key = req[c].key
  BY <1>1 DEF KeyBooked, KeysOf
<1>5. remaining' \in [Event -> Int]
  BY <1>1, <1>2 DEF StoreInv
<1>6. \A d \in Accepted' : d \in Promised' \/ KeyBooked(d)'
  BY <1>1, <1>4 DEF StoreInv, Accepted
<1>. QED
  BY <1>1, <1>3, <1>5, <1>6 DEF StoreInv

\* The guard of a promise is enough: what is promised stays within what remains
\* through every booking and withdrawal, and nobody who was told is left without.
LEMMA StoreKeepsPromises == Promises!Spec => []Promises!Kept
<1>1. Promises!Init => StoreInv
  <2>. SUFFICES ASSUME Promises!Init PROVE StoreInv
    OBVIOUS
  <2>1. /\ req \in [Call -> Request] /\ remaining = Total
        /\ Promised = {} /\ Accepted = {}
    BY DEF Promises!Init
  <2>2. \A e : HeldOf(e) = {}
    BY <2>1 DEF HeldOf
  <2>3. \A e \in Event : Weigh(req, HeldOf(e)) = 0 /\ remaining[e] \in Nat
    BY <2>1, <2>2, TotalAssumption, WeighNothing
  <2>. QED
    BY <2>1, <2>3, TotalAssumption DEF StoreInv
<1>2. StoreInv /\ [Promises!Next]_(Promises!vars) => StoreInv'
  <2>. SUFFICES ASSUME StoreInv, [Promises!Next]_(Promises!vars) PROVE StoreInv'
    OBVIOUS
  <2>1. CASE UNCHANGED Promises!vars
    <3>1. UNCHANGED <<remaining, booked, req, Promised, Accepted>>
      BY <2>1 DEF Promises!vars
    <3>2. \A e : HeldOf(e)' = HeldOf(e)
      BY <3>1 DEF HeldOf
    <3>. QED
      BY <3>1, <3>2 DEF StoreInv, KeyBooked
  <2>. QED
    BY <2>1, PromiseKeeps, AcceptKeeps, WithdrawKeeps, FulfilKeeps DEF Promises!Next
<1>3. StoreInv => Promises!Kept
  BY SameVocabulary DEF StoreInv, Promises!Kept, Promises!Holding, HeldOf
<1>. QED
  BY <1>1, <1>2, <1>3, PTL DEF Promises!Spec

\* So much is a 202 worth, while Redis keeps its counters and no confirm is
\* lost: the database has the seats of every call that was promised any, told or
\* not, and an accepted call is one of them or finds the row of its key.
THEOREM PromisesHoldSeats == ASSUME Steady PROVE Spec => []Promises!Kept
BY AsyncImplementsPromises, StoreKeepsPromises, PTL DEF ImplementsPromises

-----------------------------------------------------------------------------
(* Exactness, with a key per call and no call that died                    *)

Owing(c) ==
  \/ step[c] \in {"undo", "publish", "release"}
  \/ (step[c] = "confirm" \/ answer[c] = "accepted") /\ ~KeyBooked(c)

NoneDied == \A c \in Call : answer[c] # "crashed"

Exact == FreshKeys /\ NoneDied => \A e \in Event : gate[e] + Weigh(req, Owed(e)) = remaining[e]

\* Only a call that published has a row, and it was answered 202 or died.
Published(c) ==
  /\ FreshKeys /\ KeyBooked(c) => step[c] \in {"confirm", "done"}
  /\ Copied(c) => step[c] = "confirm" \/ answer[c] \in {"accepted", "crashed"}

ExactInv == Exact /\ \A c \in Call : Published(c)

LEMMA OwedIs ==
  ASSUME NEW e
  PROVE  /\ Owed(e) = {c \in Call : EventOf(c) = e /\ Owing(c)} /\ Owed(e) \subseteq Call
         /\ Owed(e)' = {c \in Call : EventOf(c)' = e /\ Owing(c)'} /\ Owed(e)' \subseteq Call
  BY DEF Owed, Owing

\* The same debts, gate and seats.
LEMMA SameAccount ==
  ASSUME Exact, NoneDied' => NoneDied, UNCHANGED <<req, gate, remaining>>,
         FreshKeys /\ NoneDied' => \A c \in Call : Owing(c)' <=> Owing(c)
  PROVE  Exact'
<1>. SUFFICES ASSUME FreshKeys', NoneDied', NEW e \in Event
              PROVE  gate'[e] + Weigh(req', Owed(e)') = remaining'[e]
  BY DEF Exact
<1>1. FreshKeys
  BY DEF FreshKeys
<1>2. \A c \in Call : (Owing(c)' <=> Owing(c)) /\ EventOf(c)' = EventOf(c)
  BY <1>1 DEF EventOf
<1>3. Owed(e)' = Owed(e)
  BY <1>2, OwedIs
<1>. QED
  BY <1>1, <1>3 DEF Exact

\* The debt of one call comes or goes, and with it its seats of the gate or of
\* the table.
LEMMA AccountMoves ==
  ASSUME TypeOK, TypeOK', Exact, NoneDied' => NoneDied, req' = req, NEW c \in Call,
         FreshKeys /\ NoneDied' =>
           /\ \A d \in Call : d # c => (Owing(d)' <=> Owing(d))
           /\ \/ /\ ~Owing(c) /\ Owing(c)' /\ remaining' = remaining
                 /\ gate' = [gate EXCEPT ![EventOf(c)] = @ - req[c].qty]
              \/ /\ Owing(c) /\ ~Owing(c)' /\ remaining' = remaining
                 /\ gate' = [gate EXCEPT ![EventOf(c)] = @ + req[c].qty]
              \/ /\ Owing(c) /\ ~Owing(c)' /\ gate' = gate
                 /\ remaining' = [remaining EXCEPT ![EventOf(c)] = @ - req[c].qty]
  PROVE  Exact'
<1>. SUFFICES ASSUME FreshKeys', NoneDied', NEW e \in Event
              PROVE  gate'[e] + Weigh(req', Owed(e)') = remaining'[e]
  BY DEF Exact
<1>0. FreshKeys
  BY DEF FreshKeys
<1>a. \A d \in Call : d # c => (Owing(d)' <=> Owing(d))
  BY <1>0
<1>b. /\ \A d \in Call : EventOf(d)' = EventOf(d)
      /\ Owed(e) = {d \in Call : EventOf(d) = e /\ Owing(d)}
      /\ Owed(e)' = {d \in Call : EventOf(d)' = e /\ Owing(d)'}
  BY OwedIs DEF EventOf
<1>1. /\ gate[e] + Weigh(req, Owed(e)) = remaining[e]
      /\ gate[e] \in Int /\ remaining[e] \in Nat /\ e \in EventId
      /\ EventOf(c) \in EventId /\ req[c].qty \in Nat
      /\ req \in [Call -> Request] /\ Owed(e) \subseteq Call
      /\ Weigh(req, Owed(e)) \in Nat
  BY <1>0, EventAssumption, TakeGiveType, OwedIs, HeldFinite DEF Exact, TypeOK
<1>2. CASE e # EventOf(c)
  <2>1. Owed(e)' = Owed(e)
    BY <1>a, <1>b, <1>2
  <2>2. gate'[e] = gate[e] /\ remaining'[e] = remaining[e]
    BY <1>0, <1>1, <1>2 DEF TypeOK
  <2>. QED
    BY <1>1, <2>1, <2>2
<1>3. CASE e = EventOf(c)
  <2>1. CASE ~Owing(c) /\ Owing(c)'
    <3>1. Owed(e)' = Owed(e) \cup {c} /\ c \notin Owed(e)
      BY <1>a, <1>b, <1>3, <2>1
    <3>2. Weigh(req, Owed(e)') = Weigh(req, Owed(e)) + req[c].qty
      BY <1>1, <3>1, WeighAdd
    <3>3. remaining'[e] = remaining[e] /\ gate'[e] = gate[e] - req[c].qty
      BY <1>0, <1>1, <1>3, <2>1 DEF TypeOK
    <3>. QED
      BY <1>1, <3>2, <3>3
  <2>2. CASE Owing(c) /\ ~Owing(c)'
    <3>1. Owed(e)' = Owed(e) \ {c} /\ c \in Owed(e)
      BY <1>a, <1>b, <1>3, <2>2
    <3>2. Weigh(req, Owed(e)') = Weigh(req, Owed(e)) - req[c].qty
      BY <1>1, <3>1, WeighRemove
    <3>3. \/ gate'[e] = gate[e] + req[c].qty /\ remaining'[e] = remaining[e]
          \/ gate'[e] = gate[e] /\ remaining'[e] = remaining[e] - req[c].qty
      BY <1>0, <1>1, <1>3, <2>2 DEF TypeOK
    <3>. QED
      BY <1>1, <3>2, <3>3
  <2>. QED
    BY <1>0, <2>1, <2>2
<1>. QED
  BY <1>2, <1>3

LEMMA DeathIsFinal ==
  ASSUME TypeOK, GateInv, [Next]_vars
  PROVE  NoneDied' => NoneDied
<1>. SUFFICES ASSUME NEW c \in Call, answer[c] = "crashed" PROVE answer'[c] = "crashed"
  BY DEF NoneDied
<1>1. step[c] = "done"
  BY DEF GateInv, Course
<1>2. ASSUME NEW d \in Call, ApiStep(d) PROVE answer'[c] = answer[c]
  <2>1. CASE d = c
    BY <1>1, <1>2, <2>1 DEF ApiStep, Submit, Decr, Undo, Sync, Confirm, Release, GateFails, SyncFails,
       SendFails, ConfirmLost, ReleaseFails, AppCrash
  <2>2. CASE d # c
    BY <1>2, <2>2, ApiStepKinds
  <2>. QED
    BY <2>1, <2>2
<1>. QED
  BY <1>2, StepKinds DEF Send, MoveStep, Deliver, ScheduleRetry, Ack, DeadLetter, Expire, Handle,
     HandleFails, ZombieEnds, WorkerGone, GateLost, vars, api

LEMMA ApiExact ==
  ASSUME Steady, TypeOK, TypeOK', GateInv, ExactInv, NoneDied' => NoneDied,
         NEW c \in Call, ApiStep(c)
  PROVE  ExactInv'
<1>0. /\ UNCHANGED <<req, queues, slots, counts>>
      /\ \A d \in Call : d # c => step'[d] = step[d] /\ answer'[d] = answer[d]
      /\ step \in [Call -> Step] /\ answer \in [Call -> ApiAnswer]
  BY ApiStepKinds DEF TypeOK
<1>1. Course(c) /\ Published(c) /\ Exact
  BY DEF GateInv, ExactInv
<1>2. \/ Submit(c) \/ Decr(c) \/ Undo(c) \/ Confirm(c) \/ Release(c) \/ SendFails(c) \/ AppCrash(c)
  BY <1>1 DEF ApiStep, Steady, Happens, GateFails, ConfirmLost, ReleaseFails, Sync, SyncFails, Course
<1>3. UNCHANGED <<remaining, booked>>
  BY <1>2 DEF Submit, Decr, Undo, Confirm, Release, SendFails, AppCrash, db
<1>4. \A d \in Call : /\ KeyBooked(d)' <=> KeyBooked(d)
                      /\ Copied(d)' <=> Copied(d)
                      /\ EventOf(d)' = EventOf(d)
  BY <1>0, <1>3, CopiedStays DEF KeyBooked, EventOf
<1>5. FreshKeys' <=> FreshKeys
  BY <1>0 DEF FreshKeys
<1>6. \A d \in Call : d # c => (Owing(d)' <=> Owing(d)) /\ Published(d)'
  BY <1>0, <1>4, <1>5 DEF Owing, Published, ExactInv
<1>7. CASE Submit(c) \/ SendFails(c)
  <2>1. /\ answer' = answer /\ gate' = gate
        /\ \/ step[c] = "idle" /\ step'[c] = "decr"
           \/ step[c] = "publish" /\ step'[c] = "release"
    BY <1>0, <1>7 DEF Submit, SendFails, Goto
  <2>2. (Owing(c)' <=> Owing(c)) /\ Published(c)'
    BY <1>1, <1>4, <1>5, <2>1 DEF Owing, Published, Course
  <2>. QED
    BY <1>0, <1>1, <1>3, <1>6, <2>1, <2>2, SameAccount DEF ExactInv
<1>8. CASE Confirm(c)
  <2>1. gate' = gate /\ step[c] = "confirm" /\ step'[c] = "done" /\ answer'[c] = "accepted"
    BY <1>0, <1>8 DEF Confirm, Finish, Goto
  <2>2. (Owing(c)' <=> Owing(c)) /\ Published(c)'
    BY <1>1, <1>4, <1>5, <2>1 DEF Owing, Published, Course
  <2>. QED
    BY <1>0, <1>1, <1>3, <1>6, <2>1, <2>2, SameAccount DEF ExactInv
<1>9. CASE Decr(c)
  <2>1. /\ gate' = [gate EXCEPT ![EventOf(c)] = @ - req[c].qty]
        /\ answer' = answer /\ step[c] = "decr" /\ step'[c] \in {"undo", "publish"}
    BY <1>0, <1>9 DEF Decr, Take, Goto
  <2>2. ~Owing(c) /\ Owing(c)'
    BY <1>1, <2>1 DEF Owing, Course
  <2>3. Published(c)'
    BY <1>1, <1>4, <1>5, <2>1 DEF Published, Course
  <2>4. Exact'
    BY <1>0, <1>1, <1>3, <1>6, <2>1, <2>2, AccountMoves
  <2>. QED
    BY <1>6, <2>3, <2>4 DEF ExactInv
<1>10. CASE Undo(c) \/ Release(c)
  <2>1. /\ gate' = [gate EXCEPT ![EventOf(c)] = @ + req[c].qty]
        /\ step[c] \in {"undo", "release"} /\ step'[c] = "done"
        /\ answer'[c] \in {"sold_out", "error"}
    BY <1>0, <1>10 DEF Undo, Release, Give, Goto, Finish
  <2>2. Owing(c) /\ ~Owing(c)'
    BY <2>1 DEF Owing
  <2>3. Published(c)'
    BY <1>1, <1>4, <1>5, <2>1 DEF Published, Course
  <2>4. Exact'
    BY <1>0, <1>1, <1>3, <1>6, <2>1, <2>2, AccountMoves
  <2>. QED
    BY <1>6, <2>3, <2>4 DEF ExactInv
<1>11. CASE AppCrash(c)
  <2>1. answer'[c] = "crashed" /\ step'[c] = "done"
    BY <1>0, <1>11 DEF AppCrash, Goto, Finish
  <2>2. Exact' /\ Published(c)'
    BY <2>1 DEF Exact, NoneDied, Published
  <2>. QED
    BY <1>6, <2>2 DEF ExactInv
<1>. QED
  BY <1>2, <1>7, <1>8, <1>9, <1>10, <1>11

LEMMA SendExact ==
  ASSUME TypeOK, TypeOK', GateInv, ExactInv, NoneDied' => NoneDied, NEW c \in Call, Send(c)
  PROVE  ExactInv'
<1>0. /\ UNCHANGED <<remaining, booked, gate, req, answer, retry, job>>
      /\ step[c] = "publish" /\ step' = [step EXCEPT ![c] = "confirm"]
      /\ main' = Put(main, [call |-> c, attempt |-> 0])
      /\ step \in [Call -> Step]
  BY DEF Send, Goto, db, slots, TypeOK
<1>1. [call |-> c, attempt |-> 0] \in Copy
  BY MaxRetryAssumption DEF Copy
<1>2. \A m \in Copy : m # [call |-> c, attempt |-> 0] => main'[m] = main[m]
  BY <1>0 DEF Put, TypeOK
<1>3. ASSUME NEW d \in Call, d # c PROVE Copied(d)' <=> Copied(d)
  <2>1. \A m \in CopiesOf(d) : main'[m] = main[m]
    BY <1>2, <1>3 DEF CopiesOf
  <2>. QED
    BY <1>0, <2>1 DEF Copied, CopiesOf
<1>4. \A d \in Call : KeyBooked(d)' <=> KeyBooked(d)
  BY <1>0 DEF KeyBooked
<1>5. FreshKeys' <=> FreshKeys
  BY <1>0 DEF FreshKeys
<1>6. step'[c] = "confirm" /\ \A d \in Call : d # c => step'[d] = step[d]
  BY <1>0
<1>7. \A d \in Call : Published(d)'
  BY <1>0, <1>3, <1>4, <1>5, <1>6 DEF Published, ExactInv
<1>8. FreshKeys => Owing(c) /\ Owing(c)'
  BY <1>0, <1>4, <1>6 DEF Owing, Published, ExactInv
<1>9. \A d \in Call : d # c => (Owing(d)' <=> Owing(d))
  BY <1>0, <1>4, <1>6 DEF Owing
<1>10. Exact'
  BY <1>0, <1>8, <1>9, SameAccount DEF ExactInv
<1>. QED
  BY <1>7, <1>10 DEF ExactInv

LEMMA QuietExact ==
  ASSUME ExactInv, NoneDied' => NoneDied, NotCopied, UNCHANGED <<db, gate, api>>
  PROVE  ExactInv'
<1>1. UNCHANGED <<remaining, booked, gate, step, req, answer>>
  BY DEF db, api
<1>2. \A c \in Call : Owing(c)' <=> Owing(c)
  BY <1>1 DEF Owing, KeyBooked
<1>3. \A c \in Call : Published(c)'
  BY <1>1 DEF Published, NotCopied, ExactInv, FreshKeys, KeyBooked
<1>. QED
  BY <1>1, <1>2, <1>3, SameAccount DEF ExactInv

LEMMA BookExact ==
  ASSUME TypeOK, TypeOK', GateInv, ExactInv, NoneDied' => NoneDied, NotCopied,
         UNCHANGED <<gate, api>>,
         NEW c \in Call, Copied(c), WorkerOutcome(req[c]) = "created", Book(req[c])
  PROVE  ExactInv'
<1>1. UNCHANGED <<gate, step, req, answer>>
  BY DEF api
<1>2. ~KeyBooked(c) /\ KeyBooked(c)' /\ \A d \in Call : KeyBooked(d) => KeyBooked(d)'
  BY <1>1, BookType, BookKeys DEF TypeOK, KeyBooked
<1>3. FreshKeys => \A d \in Call : d # c => (KeyBooked(d)' <=> KeyBooked(d))
  BY <1>1 DEF FreshKeys, Book, KeyBooked, KeysOf
<1>4. step[c] \in {"confirm", "done"} /\ (answer[c] # "none" => step[c] = "done")
  BY DEF GateInv, Course
<1>5. ~Owing(c)' /\ (NoneDied => Owing(c))
  BY <1>1, <1>2, <1>4 DEF Owing, NoneDied, Published, ExactInv
<1>6. FreshKeys => \A d \in Call : d # c => (Owing(d)' <=> Owing(d))
  BY <1>1, <1>3 DEF Owing
<1>7. remaining' = [remaining EXCEPT ![EventOf(c)] = @ - req[c].qty]
  BY DEF Book, EventOf
<1>8. Exact'
  BY <1>1, <1>5, <1>6, <1>7, AccountMoves DEF ExactInv
<1>9. ASSUME NEW d \in Call PROVE Published(d)'
  <2>1. FreshKeys' => FreshKeys
    BY <1>1 DEF FreshKeys
  <2>. QED
    BY <1>1, <1>3, <1>4, <2>1 DEF Published, NotCopied, ExactInv
<1>. QED
  BY <1>8, <1>9 DEF ExactInv

LEMMA SlotExact ==
  ASSUME TypeOK, TypeOK', GateInv, ExactInv, NoneDied' => NoneDied,
         NEW s \in Slot, Handle(s) \/ HandleFails(s) \/ ZombieEnds(s)
  PROVE  ExactInv'
<1>1. stage[s] # "empty" /\ UNCHANGED <<gate, api>>
  BY DEF Handle, HandleFails, ZombieEnds
<1>2. job[s].call \in Call /\ Copied(job[s].call) /\ Asks(s) = req[job[s].call]
  BY <1>1, InHandIsCopied
<1>3. NotCopied
  <2>1. CASE Handle(s) \/ HandleFails(s)
    BY <2>1 DEF Handle, HandleFails, queues, NotCopied, Copied, CopiesOf
  <2>2. CASE ZombieEnds(s)
    BY <2>2, ZombieSevers, SeverCopies DEF ZombieEnds
  <2>. QED
    BY <2>1, <2>2
<1>4. \/ UNCHANGED db
      \/ Book(Asks(s)) /\ WorkerOutcome(Asks(s)) = "created"
  BY DEF Handle, HandleFails, ZombieEnds, Apply, db
<1>. QED
  BY <1>1, <1>2, <1>3, <1>4, QuietExact, BookExact

LEMMA ExactStep ==
  ASSUME Steady, Inv, Inv', GateInv, ExactInv, [Next]_vars
  PROVE  ExactInv'
<1>. TypeOK /\ TypeOK' /\ Counted
  BY DEF Inv
<1>1. NoneDied' => NoneDied
  BY DeathIsFinal
<1>2. CASE MoveStep
  <2>1. UNCHANGED <<db, gate, api>>
    BY <1>2 DEF MoveStep, Deliver, ScheduleRetry, Ack, DeadLetter, Expire
  <2>. QED
    BY <1>1, <1>2, <2>1, MoveCopies, QuietExact
<1>3. ASSUME NEW w \in Worker, WorkerGone(w) PROVE ExactInv'
  <2>1. UNCHANGED <<db, gate, api, retry>>
    BY <1>3 DEF WorkerGone
  <2>. QED
    BY <1>1, <1>3, <2>1, GoneSevers, SeverCopies, QuietExact
<1>4. CASE UNCHANGED vars
  <2>1. UNCHANGED <<db, gate, api>> /\ NotCopied
    BY <1>4 DEF vars, queues, slots, NotCopied, Copied, CopiesOf
  <2>. QED
    BY <1>1, <2>1, QuietExact
<1>5. ~GateLost
  BY DEF Steady, GateLost, Happens
<1>. QED
  BY <1>1, <1>2, <1>3, <1>4, <1>5, ApiExact, SendExact, SlotExact, StepKinds

LEMMA ExactInit == Init => ExactInv
<1>. SUFFICES ASSUME Init PROVE ExactInv
  OBVIOUS
<1>1. \A c \in Call : ~Copied(c) /\ ~Owing(c) /\ ~KeyBooked(c)
  BY NoCopyAssumption DEF Init, Copied, CopiesOf, Owing, KeyBooked, KeysOf
<1>2. ASSUME NEW e \in Event PROVE gate[e] + Weigh(req, Owed(e)) = remaining[e]
  <2>1. Owed(e) = {}
    BY <1>1, OwedIs
  <2>2. gate[e] = remaining[e] /\ remaining[e] \in Nat
    BY TotalAssumption, EventAssumption DEF Init
  <2>. QED
    BY <2>1, <2>2, WeighNothing
<1>. QED
  BY <1>1, <1>2 DEF ExactInv, Exact, Published

\* With a key per call, and unless a call died holding seats, gate and table
\* count the same seats, for any number of calls, workers and failures of the
\* publish, the database, its replies and the workers.
THEOREM GateIsExact == ASSUME Steady PROVE Spec => []GateMatchesStore
<1>1. ExactInv => GateMatchesStore
  <2>1. \A S : Cardinality(SeatsHeld(S)) = Weigh(req, S)
    BY DEF SeatsHeld, Weigh, Held
  <2>. QED
    BY <2>1 DEF ExactInv, Exact, NoneDied, GateMatchesStore
<1>2. Inv /\ Inv' /\ GateInv /\ ExactInv /\ [Next]_vars => ExactInv'
  BY ExactStep
<1>. QED
  BY <1>1, <1>2, ExactInit, GateHolds, InvHolds, PTL DEF Spec
=============================================================================
