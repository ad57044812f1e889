------------------------- MODULE ReservationTxProofs -------------------------
(***************************************************************************)
(* The reservation transactions, for every set of events, keys, callers    *)
(* and requests: the invariants TLC checks on small instances, and the     *)
(* refinement of the atomic store.                                         *)
(*                                                                         *)
(* BooksBalance is not inductive alone: that a COMMIT may subtract the     *)
(* quantity needs the count the transaction decided on to be current       *)
(* (DecisionIsCurrent), which needs the lock (LockDiscipline), and that it *)
(* may add the row needs the key to be new (OneRowPerKey).                 *)
(*                                                                         *)
(* The history variable of ReservationRetry concerns the last theorem only. *)
(***************************************************************************)
EXTENDS ReservationRetry, FiniteSetTheorems, TLAPS

-----------------------------------------------------------------------------
(* What one more booked row does to the seats and the rows of each event.    *)

\* A row stands for as many seats as its quantity.
LEMMA SeatsOfCardinality ==
  ASSUME NEW b \in Request
  PROVE  IsFiniteSet(SeatsOf(b)) /\ Cardinality(SeatsOf(b)) = b.qty
<1>1. b.qty \in Nat \ {0}
  BY RequestAssumption
<1>2. IsFiniteSet(1 .. b.qty) /\ Cardinality(1 .. b.qty) = b.qty
  BY <1>1, FS_Interval
<1>3. IsFiniteSet({b.key}) /\ Cardinality({b.key}) = 1
  BY FS_Singleton
<1>4. Cardinality(SeatsOf(b)) = 1 * b.qty /\ IsFiniteSet(SeatsOf(b))
  BY <1>2, <1>3, FS_Product DEF SeatsOf
<1>. QED
  BY <1>1, <1>4

\* A row of another event leaves the rows and the seats of this one alone.
LEMMA OtherEvent ==
  ASSUME NEW rows, NEW b, NEW e, b.event # e
  PROVE  /\ RowsOf(rows \cup {b}, e) = RowsOf(rows, e)
         /\ SoldSeats(rows \cup {b}, e) = SoldSeats(rows, e)
  BY DEF RowsOf, SoldSeats

\* A row of this event with a key nobody used adds itself and qty new seats.
LEMMA OneMoreRow ==
  ASSUME NEW rows \in SUBSET Request, NEW b \in Request,
         b.key \notin KeysOf(rows),
         IsFiniteSet(RowsOf(rows, b.event)),
         IsFiniteSet(SoldSeats(rows, b.event))
  PROVE  LET e == b.event IN
         /\ IsFiniteSet(RowsOf(rows \cup {b}, e))
         /\ Cardinality(RowsOf(rows \cup {b}, e)) = Cardinality(RowsOf(rows, e)) + 1
         /\ IsFiniteSet(SoldSeats(rows \cup {b}, e))
         /\ Cardinality(SoldSeats(rows \cup {b}, e)) = Cardinality(SoldSeats(rows, e)) + b.qty
<1>. DEFINE e == b.event
<1>1. RowsOf(rows \cup {b}, e) = RowsOf(rows, e) \cup {b}
  BY DEF RowsOf
<1>2. b \notin RowsOf(rows, e)
  BY DEF RowsOf, KeysOf
<1>3. SoldSeats(rows \cup {b}, e) = SoldSeats(rows, e) \cup SeatsOf(b)
  BY <1>1 DEF SoldSeats
<1>4. SoldSeats(rows, e) \cap SeatsOf(b) = {}
  <2>1. SUFFICES ASSUME NEW s \in SoldSeats(rows, e), s \in SeatsOf(b)
                 PROVE  FALSE
    OBVIOUS
  <2>2. PICK c \in RowsOf(rows, e) : s \in SeatsOf(c)
    BY <2>1 DEF SoldSeats
  <2>3. s[1] = c.key /\ s[1] = b.key
    BY <2>1, <2>2 DEF SeatsOf
  <2>4. c.key \in KeysOf(rows)
    BY <2>2 DEF RowsOf, KeysOf
  <2>. QED
    BY <2>3, <2>4
<1>5. IsFiniteSet(SeatsOf(b)) /\ Cardinality(SeatsOf(b)) = b.qty
  BY SeatsOfCardinality
<1>6. Cardinality(SoldSeats(rows, e)) \in Nat /\ Cardinality(RowsOf(rows, e)) \in Nat
  BY FS_CardinalityType
<1>7. b.qty \in Nat
  BY RequestAssumption
<1>8. /\ IsFiniteSet(RowsOf(rows \cup {b}, e))
      /\ Cardinality(RowsOf(rows \cup {b}, e)) = Cardinality(RowsOf(rows, e)) + 1
  <2>1. ASSUME NEW S, IsFiniteSet(S), b \notin S
        PROVE  IsFiniteSet(S \cup {b}) /\ Cardinality(S \cup {b}) = Cardinality(S) + 1
    BY <2>1, FS_AddElement
  <2>. QED
    BY <1>1, <1>2, <2>1
<1>9. /\ IsFiniteSet(SoldSeats(rows \cup {b}, e))
      /\ Cardinality(SoldSeats(rows \cup {b}, e))
           = Cardinality(SoldSeats(rows, e)) + b.qty - Cardinality({})
  BY <1>3, <1>4, <1>5, FS_Union
<1>10. Cardinality({}) = 0
  BY FS_EmptySet
<1>. QED
  BY <1>6, <1>7, <1>8, <1>9, <1>10

\* With no rows there are no sold seats.
LEMMA NoRows ==
  ASSUME NEW e
  PROVE  /\ IsFiniteSet(RowsOf({}, e)) /\ Cardinality(RowsOf({}, e)) = 0
         /\ IsFiniteSet(SoldSeats({}, e)) /\ Cardinality(SoldSeats({}, e)) = 0
<1>1. RowsOf({}, e) = {} /\ SoldSeats({}, e) = {}
  BY DEF RowsOf, SoldSeats
<1>. QED
  BY <1>1, FS_EmptySet

-----------------------------------------------------------------------------
(* The invariant                                                            *)
Inv ==
  /\ TypeOK
  /\ BooksBalance
  /\ OneRowPerKey
  /\ DecisionIsCurrent
  /\ LockDiscipline
  /\ FindingsStayTrue

\* The steps that leave the tables, the locks and the index entries alone.
Quiet(p) ==
  \/ \E r \in Request : Submit(p, r)
  \/ PreCheck(p) \/ PreReplay(p) \/ Begin(p) \/ Check(p) \/ Replay(p)
  \/ SelectMissing(p) \/ DecideSoldOut(p) \/ DecideUpdate(p)
  \/ UpdateNothing(p) \/ Reread(p) \/ InsertDuplicate(p)
  \/ FailInTx(p) \/ FailOutsideTx(p)

\* The steps that take a row lock, and those that end a transaction.
TakesLock(p) == SelectForUpdate(p) \/ Update(p)
Ends(p)      == Commit(p) \/ CommitUnheard(p) \/ Rollback(p)

LEMMA StepKinds ==
  ASSUME NEW p \in Caller,
         (\E r \in Request : Submit(p, r)) \/ Advance(p) \/ Fail(p)
  PROVE  Quiet(p) \/ TakesLock(p) \/ Insert(p) \/ Ends(p)
  BY DEF Advance, Fail, Quiet, TakesLock, Ends

LEMMA InitInv == Init => Inv
<1>. SUFFICES ASSUME Init PROVE Inv
  OBVIOUS
<1>1. TypeOK
  BY TotalAssumption, NobodyAssumption DEF Init, TypeOK, Label, InTx, Idle, Says, Unknown
<1>2. BooksBalance
  BY TotalAssumption, NoRows DEF Init, BooksBalance
<1>3. OneRowPerKey /\ DecisionIsCurrent /\ LockDiscipline /\ FindingsStayTrue
  BY NobodyAssumption
     DEF Init, OneRowPerKey, DecisionIsCurrent, LockDiscipline, FindingsStayTrue, Idle, Pending, Says, HoldsItsOwn, Current, FindingsTrue
<1>. QED
  BY <1>1, <1>2, <1>3 DEF Inv

\* A transaction that returns "created" may commit: its event covers the
\* quantity and its key is new.
LEMMA MayBook ==
  ASSUME Inv, NEW p \in inserted
  PROVE  /\ p \in Caller /\ req[p] \in Request
         /\ Row(p) \in Event
         /\ remaining[Row(p)] >= req[p].qty
         /\ req[p].key \notin KeysOf(booked)
         /\ rowLock[Row(p)] = p
<1>1. p \in Caller /\ req[p] \in Request
  BY DEF Inv, TypeOK
<1>2. Row(p) \in Event /\ rowLock[Row(p)] = p
  BY <1>1 DEF Inv, LockDiscipline, Exists, HoldsItsOwn
<1>3. remaining[Row(p)] \in Int /\ req[p].qty \in Nat /\ seen[p] \in Int
  BY <1>1, <1>2, RequestAssumption DEF Inv, TypeOK
<1>4. seen[p] = remaining[Row(p)] - req[p].qty /\ seen[p] >= 0
  BY <1>1 DEF Inv, DecisionIsCurrent, Current
<1>5. req[p].key \notin KeysOf(booked)
  BY DEF Inv, OneRowPerKey, KeyCommitted
<1>. QED
  BY <1>1, <1>2, <1>3, <1>4, <1>5

\* What COMMIT does to the tables, whether the transaction wrote or only read.
LEMMA PublishStep ==
  ASSUME Inv, NEW p \in Caller, Publish(p)
  PROVE  /\ remaining' \in [Event -> Nat] /\ version' \in [Event -> Nat]
         /\ booked' \in SUBSET Request /\ booked \subseteq booked'
         /\ \A e \in Event : remaining'[e] <= remaining[e]
         /\ \A e \in Event : rowLock[e] # p => remaining'[e] = remaining[e]
         /\ p \in inserted => booked' = booked \cup {req[p]}
         /\ p \notin inserted => booked' = booked /\ remaining' = remaining /\ version' = version
         /\ BooksBalance'
<1>1. CASE p \notin inserted
  <2>1. UNCHANGED <<remaining, version, booked>>
    BY <1>1 DEF Publish, store
  <2>. QED
    BY <1>1, <2>1 DEF Inv, TypeOK, BooksBalance
<1>2. CASE p \in inserted
  <2>. DEFINE e0 == Row(p)  n == req[p].qty
  <2>1. /\ req[p] \in Request /\ e0 \in Event /\ rowLock[e0] = p
        /\ remaining[e0] >= n /\ req[p].key \notin KeysOf(booked)
    BY <1>2, MayBook
  <2>2. n \in Nat /\ n > 0
    BY <2>1, RequestAssumption
  <2>3. /\ remaining' = [remaining EXCEPT ![e0] = @ - n]
        /\ version' = [version EXCEPT ![e0] = @ + 1]
        /\ booked' = booked \cup {req[p]}
    BY <1>2 DEF Publish
  <2>4. /\ remaining \in [Event -> Nat] /\ version \in [Event -> Nat]
        /\ booked \in SUBSET Request
    BY DEF Inv, TypeOK
  <2>5. BooksBalance'
    <3>. SUFFICES ASSUME NEW e \in Event
                  PROVE  /\ remaining'[e] >= 0
                         /\ IsFiniteSet(RowsOf(booked', e)) /\ IsFiniteSet(SoldSeats(booked', e))
                         /\ remaining'[e] + Cardinality(SoldSeats(booked', e)) = Total[e]
                         /\ version'[e] = Cardinality(RowsOf(booked', e))
      BY DEF BooksBalance
    <3>1. /\ remaining[e] >= 0
          /\ IsFiniteSet(RowsOf(booked, e)) /\ IsFiniteSet(SoldSeats(booked, e))
          /\ remaining[e] + Cardinality(SoldSeats(booked, e)) = Total[e]
          /\ version[e] = Cardinality(RowsOf(booked, e))
      BY DEF Inv, BooksBalance
    <3>2. CASE e # e0
      <4>1. /\ RowsOf(booked', e) = RowsOf(booked, e)
            /\ SoldSeats(booked', e) = SoldSeats(booked, e)
        BY <2>3, <3>2, OtherEvent DEF Row
      <4>. QED
        BY <2>3, <2>4, <3>1, <3>2, <4>1
    <3>3. CASE e = e0
      <4>1. req[p].event = e
        BY <3>3 DEF Row
      <4>2. /\ IsFiniteSet(RowsOf(booked', e))
            /\ Cardinality(RowsOf(booked', e)) = Cardinality(RowsOf(booked, e)) + 1
            /\ IsFiniteSet(SoldSeats(booked', e))
            /\ Cardinality(SoldSeats(booked', e)) = Cardinality(SoldSeats(booked, e)) + n
        BY <2>1, <2>3, <2>4, <3>1, <4>1, OneMoreRow
      <4>3. Cardinality(SoldSeats(booked, e)) \in Nat
        BY <3>1, FS_CardinalityType
      <4>4. remaining'[e] = remaining[e] - n /\ version'[e] = version[e] + 1
        BY <2>3, <2>4, <3>3
      <4>. QED
        BY <2>1, <2>2, <2>4, <3>1, <3>3, <4>2, <4>3, <4>4
    <3>. QED
      BY <3>2, <3>3
  <2>. QED
    BY <1>2, <2>1, <2>2, <2>3, <2>4, <2>5
<1>. QED
  BY <1>1, <1>2

\* A count that some transaction reads is one an answer can carry.
LEMMA CountsAreAnswers ==
  ASSUME Inv, NEW e \in Event, NEW n \in Nat, n <= remaining[e]
  PROVE  n \in Left
<1>1. IsFiniteSet(SoldSeats(booked, e)) /\ remaining[e] + Cardinality(SoldSeats(booked, e)) = Total[e]
  BY DEF Inv, BooksBalance
<1>2. Cardinality(SoldSeats(booked, e)) \in Nat
  BY <1>1, FS_CardinalityType
<1>3. remaining[e] \in Int /\ Total[e] \in Nat
  BY TotalAssumption DEF Inv, TypeOK
<1>4. n \in 0 .. Total[e]
  BY <1>1, <1>2, <1>3
<1>. QED
  BY <1>4 DEF Left

LEMMA ReadLeftType ==
  ASSUME Inv, NEW p \in Caller
  PROVE  ReadLeft(p) \in Left
<1>1. CASE Exists(p)
  <2>1. remaining[Row(p)] \in Nat
    BY <1>1 DEF Inv, TypeOK, BooksBalance, Exists
  <2>. QED
    BY <1>1, <2>1, CountsAreAnswers DEF ReadLeft, Exists
<1>2. CASE ~Exists(p)
  BY <1>2 DEF ReadLeft, Left
<1>. QED
  BY <1>1, <1>2

\* The values callers are told are answers.
LEMMA SaysType ==
  ASSUME NEW o \in Outcome, NEW n \in Left
  PROVE  Says(o, n) \in Answer
  BY DEF Says, Answer

-----------------------------------------------------------------------------
(* One lemma per part of Inv: each step of a caller preserves it.          *)

LEMMA TypeStep ==
  ASSUME Inv, NEW p \in Caller,
         Quiet(p) \/ TakesLock(p) \/ Insert(p) \/ Ends(p)
  PROVE  TypeOK'
<1>. USE DEF tables, store
<1>1. TypeOK
  BY DEF Inv
<1>2. ASSUME NEW a \in Answer \cup {Idle}, NEW l \in Label
      PROVE  /\ Conclude(p, a) => result' \in [Caller -> Answer \cup {Idle}]
             /\ Goto(p, l) => pc' \in [Caller -> Label]
  BY <1>1 DEF Conclude, Goto, TypeOK
<1>3. ASSUME NEW a \in Answer, Deliver(p, a)
      PROVE  /\ answer' \in [Caller -> Answer \cup {Idle, Pending}]
             /\ seen' \in [Caller -> Int]
             /\ pc' \in [Caller -> Label]
             /\ result' \in [Caller -> Answer \cup {Idle}]
  BY <1>1, <1>3 DEF Deliver, Conclude, Goto, TypeOK, Label, Unknown
<1>4. /\ Unknown \in Left /\ Unknown \in Int
      /\ Says("error", Unknown) \in Answer /\ Says("duplicate", Unknown) \in Answer
      /\ Says("not_found", Unknown) \in Answer
      /\ Says("sold_out", Unknown) \in Answer
      /\ Says("idempotent_replay", ReadLeft(p)) \in Answer
      /\ Says("sold_out", ReadLeft(p)) \in Answer
  <2>1. Unknown \in Left
    BY DEF Left
  <2>. QED
    BY <2>1, SaysType, ReadLeftType DEF Outcome, Unknown
<1>5. /\ InTx \subseteq Label /\ "idle" \in Label /\ "prereplay" \in Label
      /\ "begin" \in Label /\ "precheck" \in Label
  BY DEF Label
<1>6. CASE \E r \in Request : Submit(p, r)
  BY <1>1, <1>6 DEF Submit, Goto, TypeOK, Label
<1>7. CASE PreCheck(p) \/ Begin(p) \/ Check(p) \/ UpdateNothing(p)
  BY <1>1, <1>7 DEF PreCheck, Begin, Check, UpdateNothing, Goto, TypeOK, Label, InTx
<1>8. CASE PreReplay(p) \/ FailOutsideTx(p)
  <2>1. UNCHANGED <<remaining, version, booked, rowLock, inserted, req>>
    BY <1>8 DEF PreReplay, FailOutsideTx
  <2>2. \E a \in Answer : Deliver(p, a)
    BY <1>4, <1>8 DEF PreReplay, FailOutsideTx
  <2>. QED
    BY <1>1, <1>3, <2>1, <2>2 DEF TypeOK
<1>9. CASE Replay(p) \/ SelectMissing(p) \/ Reread(p) \/ InsertDuplicate(p) \/ FailInTx(p)
  <2>1. UNCHANGED <<remaining, version, booked, rowLock, inserted, req, seen, answer>>
    BY <1>9 DEF Replay, SelectMissing, Reread, InsertDuplicate, FailInTx
  <2>2. \E a \in Answer : Conclude(p, a) /\ (Goto(p, "commit") \/ Goto(p, "rollback"))
    BY <1>4, <1>9 DEF Replay, SelectMissing, Reread, InsertDuplicate, FailInTx, Return, Throw
  <2>. QED
    BY <1>1, <1>2, <2>1, <2>2 DEF TypeOK, Label, InTx
<1>10. CASE DecideSoldOut(p)
  <2>1. /\ seen[p] = remaining[Row(p)] /\ Row(p) \in Event
    BY <1>10 DEF DecideSoldOut, Inv, DecisionIsCurrent, LockDiscipline, Exists, HoldsItsOwn, Current
  <2>2. seen[p] \in Nat
    BY <2>1 DEF Inv, TypeOK, BooksBalance
  <2>3. Says("sold_out", seen[p]) \in Answer
    BY <2>1, <2>2, CountsAreAnswers, SaysType DEF Outcome
  <2>. QED
    BY <1>1, <1>2, <1>10, <2>3 DEF DecideSoldOut, Return, TypeOK, Label, InTx
<1>11. CASE DecideUpdate(p)
  <2>1. req[p].qty \in Int
    BY <1>1, RequestAssumption DEF TypeOK
  <2>. QED
    BY <1>1, <1>11, <2>1 DEF DecideUpdate, Goto, TypeOK, Label, InTx
<1>12. CASE TakesLock(p)
  <2>1. req[p].qty \in Int
    BY <1>1, RequestAssumption DEF TypeOK
  <2>. QED
    BY <1>1, <1>12, <2>1
       DEF TakesLock, SelectForUpdate, Update, Exists, Take, Goto, TypeOK, Label, InTx
<1>13. CASE Insert(p)
  <2>1. /\ Row(p) \in Event /\ seen[p] = remaining[Row(p)] - req[p].qty /\ seen[p] >= 0
    BY <1>13 DEF Insert, Inv, DecisionIsCurrent, LockDiscipline, Exists, HoldsItsOwn, Current
  <2>2. /\ seen[p] \in Nat /\ seen[p] <= remaining[Row(p)]
    BY <1>1, <2>1, RequestAssumption DEF TypeOK
  <2>3. Says("created", seen[p]) \in Answer
    BY <2>1, <2>2, CountsAreAnswers, SaysType DEF Outcome
  <2>. QED
    BY <1>1, <1>2, <1>13, <2>3 DEF Insert, Return, TypeOK, Label, InTx
<1>14. CASE Ends(p)
  <2>1. req' = req
    BY <1>14 DEF Ends, Commit, CommitUnheard, Rollback
  <2>2. remaining' \in [Event -> Nat] /\ version' \in [Event -> Nat] /\ booked' \in SUBSET Request
    BY <1>1, <1>14, PublishStep DEF Ends, Commit, CommitUnheard, Rollback, TypeOK
  <2>3. result[p] \in Answer
    <3>1. pc[p] \in {"commit", "rollback"}
      BY <1>14 DEF Ends, Commit, CommitUnheard, Rollback
    <3>2. result[p] # Idle
      BY <3>1 DEF Inv, FindingsStayTrue, Idle, Says, FindingsTrue
    <3>. QED
      BY <1>1, <3>2 DEF TypeOK
  <2>4. PICK a \in Answer : EndTx(p, a)
    BY <1>4, <1>14, <2>3 DEF Ends, Commit, CommitUnheard, Rollback
  <2>5. rowLock' \in [Event -> Caller \cup {Nobody}] /\ inserted' \in SUBSET Caller
    BY <1>1, <2>4 DEF EndTx, TypeOK
  <2>. QED
    BY <1>1, <1>3, <2>1, <2>2, <2>4, <2>5 DEF EndTx, TypeOK
<1>. QED
  BY <1>6, <1>7, <1>8, <1>9, <1>10, <1>11, <1>12, <1>13, <1>14 DEF Quiet

\* What every step leaves alone: the other callers' locals, their locks and
\* their index entries; the tables only grow more booked.
LEMMA OthersUntouched ==
  ASSUME Inv, NEW p \in Caller,
         Quiet(p) \/ TakesLock(p) \/ Insert(p) \/ Ends(p)
  PROVE  /\ \A q \in Caller \ {p} :
              /\ pc'[q] = pc[q] /\ req'[q] = req[q] /\ seen'[q] = seen[q]
              /\ result'[q] = result[q] /\ answer'[q] = answer[q]
              /\ q \in inserted' <=> q \in inserted
              /\ \A e \in Event : rowLock'[e] = q <=> rowLock[e] = q
         /\ pc[p] # "idle" => req'[p] = req[p]
         /\ ~Ends(p) => UNCHANGED <<remaining, version, booked>>
         /\ booked \subseteq booked'
         /\ \A e \in Event : remaining'[e] <= remaining[e]
         /\ \A e \in Event : rowLock[e] # p => remaining'[e] = remaining[e]
<1>. USE DEF tables, store
<1>1. TypeOK
  BY DEF Inv
<1>2. CASE Quiet(p)
  <2>1. UNCHANGED <<remaining, version, booked, rowLock, inserted>>
    BY <1>2
       DEF Quiet, Submit, PreCheck, PreReplay, Begin, Check, Replay, SelectMissing, DecideSoldOut,
           DecideUpdate, UpdateNothing, Reread, InsertDuplicate, FailInTx, FailOutsideTx
  <2>2. /\ \A q \in Caller \ {p} :
              /\ pc'[q] = pc[q] /\ req'[q] = req[q] /\ seen'[q] = seen[q]
              /\ result'[q] = result[q] /\ answer'[q] = answer[q]
        /\ pc[p] # "idle" => req'[p] = req[p]
    BY <1>1, <1>2
       DEF Quiet, Submit, PreCheck, PreReplay, Begin, Check, Replay, SelectMissing, DecideSoldOut,
           DecideUpdate, UpdateNothing, Reread, InsertDuplicate, FailInTx, FailOutsideTx,
           Deliver, Return, Throw, Conclude, Goto, TypeOK
  <2>. QED
    BY <1>1, <2>1, <2>2 DEF TypeOK
<1>3. CASE TakesLock(p)
  BY <1>1, <1>3, NobodyAssumption
     DEF TakesLock, SelectForUpdate, Update, Exists, RowFree, Take, Goto, TypeOK
<1>4. CASE Insert(p)
  BY <1>1, <1>4 DEF Insert, Return, Conclude, Goto, TypeOK
<1>5. CASE Ends(p)
  <2>1. req' = req /\ \E a : EndTx(p, a)
    BY <1>5 DEF Ends, Commit, CommitUnheard, Rollback
  <2>2. /\ booked \subseteq booked'
        /\ \A e \in Event : remaining'[e] <= remaining[e]
        /\ \A e \in Event : rowLock[e] # p => remaining'[e] = remaining[e]
    BY <1>1, <1>5, PublishStep DEF Ends, Commit, CommitUnheard, Rollback, TypeOK
  <2>. QED
    BY <1>1, <1>5, <2>1, <2>2, NobodyAssumption
       DEF EndTx, Deliver, Conclude, Goto, TypeOK
<1>. QED
  BY <1>2, <1>3, <1>4, <1>5

LEMMA LockDisciplineStep ==
  ASSUME Inv, NEW p \in Caller,
         Quiet(p) \/ TakesLock(p) \/ Insert(p) \/ Ends(p)
  PROVE  LockDiscipline'
<1>. USE DEF tables, store
<1>1. TypeOK /\ LockDiscipline
  BY DEF Inv
<1>2. ASSUME NEW q \in Caller \ {p}
      PROVE  HoldsItsOwn(q)'
  BY <1>1, OthersUntouched DEF LockDiscipline, Row, Exists, HoldsItsOwn
<1>3. HoldsItsOwn(p)'
  <2>1. CASE Quiet(p)
    BY <1>1, <2>1
       DEF Quiet, Submit, PreCheck, PreReplay, Begin, Check, Replay, SelectMissing, DecideSoldOut,
           DecideUpdate, UpdateNothing, Reread, InsertDuplicate, FailInTx, FailOutsideTx,
           Deliver, Return, Throw, Conclude, Goto, TypeOK, LockDiscipline, HoldsItsOwn, Row, Exists, InTx, Says
  <2>2. CASE TakesLock(p)
    BY <1>1, <2>2, NobodyAssumption
       DEF TakesLock, SelectForUpdate, Update, RowFree, Take, Goto, TypeOK, LockDiscipline, Row, Exists, HoldsItsOwn
  <2>3. CASE Insert(p)
    BY <1>1, <2>3 DEF Insert, Return, Conclude, Goto, TypeOK, LockDiscipline, Row, Exists, Says, HoldsItsOwn
  <2>4. CASE Ends(p)
    <3>1. \E a : EndTx(p, a)
      BY <2>4 DEF Ends, Commit, CommitUnheard, Rollback
    <3>. QED
      BY <1>1, <3>1, NobodyAssumption
         DEF EndTx, Deliver, Conclude, Goto, TypeOK, LockDiscipline, Row, Exists, HoldsItsOwn
  <2>. QED
    BY <2>1, <2>2, <2>3, <2>4
<1>. QED
  BY <1>2, <1>3 DEF LockDiscipline

LEMMA OneRowPerKeyStep ==
  ASSUME Inv, NEW p \in Caller,
         Quiet(p) \/ TakesLock(p) \/ Insert(p) \/ Ends(p)
  PROVE  OneRowPerKey'
<1>. USE DEF tables, store
<1>1. TypeOK /\ OneRowPerKey /\ LockDiscipline
  BY DEF Inv
<1>2. \A q \in inserted : pc[q] # "idle" /\ req'[q] = req[q]
  BY <1>1, OthersUntouched DEF LockDiscipline, HoldsItsOwn, TypeOK
<1>3. CASE Quiet(p) \/ TakesLock(p)
  <2>1. inserted' = inserted /\ booked' = booked
    BY <1>3
       DEF Quiet, Submit, PreCheck, PreReplay, Begin, Check, Replay, SelectMissing, DecideSoldOut,
           DecideUpdate, UpdateNothing, Reread, InsertDuplicate, FailInTx, FailOutsideTx,
           TakesLock, SelectForUpdate, Update
  <2>. QED
    BY <1>1, <1>2, <2>1 DEF OneRowPerKey, KeyCommitted
<1>4. CASE Insert(p)
  <2>1. /\ inserted' = inserted \cup {p} /\ booked' = booked /\ req' = req
        /\ ~KeyCommitted(p) /\ InsertersOf(req[p].key) = {}
    BY <1>4 DEF Insert
  <2>. QED
    BY <1>1, <2>1 DEF OneRowPerKey, KeyCommitted, InsertersOf
<1>5. CASE Ends(p)
  <2>1. inserted' = inserted \ {p} /\ req' = req
    BY <1>5 DEF Ends, Commit, CommitUnheard, Rollback, EndTx
  <2>2. CASE booked' = booked
    BY <1>1, <2>1, <2>2 DEF OneRowPerKey, KeyCommitted
  <2>3. CASE p \in inserted /\ booked' = booked \cup {req[p]}
    <3>1. req[p].key \notin KeysOf(booked)
      BY <2>3, MayBook
    <3>2. \A q \in inserted' : req[q].key # req[p].key
      BY <1>1, <2>1, <2>3 DEF OneRowPerKey
    <3>. QED
      BY <1>1, <2>1, <2>3, <3>1, <3>2 DEF OneRowPerKey, KeyCommitted, KeysOf
  <2>. QED
    BY <1>5, <2>2, <2>3 DEF Ends, Commit, CommitUnheard, Rollback, Publish
<1>. QED
  BY <1>3, <1>4, <1>5

LEMMA DecisionIsCurrentStep ==
  ASSUME Inv, NEW p \in Caller,
         Quiet(p) \/ TakesLock(p) \/ Insert(p) \/ Ends(p)
  PROVE  DecisionIsCurrent'
<1>. USE DEF tables, store
<1>1. TypeOK /\ LockDiscipline /\ DecisionIsCurrent
  BY DEF Inv
\* Another caller's decision rests on a row that p does not hold.
<1>2. ASSUME NEW q \in Caller \ {p}
      PROVE  Current(q)'
  <2>1. /\ pc'[q] = pc[q] /\ req'[q] = req[q] /\ seen'[q] = seen[q]
        /\ q \in inserted' <=> q \in inserted
        /\ \A e \in Event : rowLock'[e] = q <=> rowLock[e] = q
        /\ \A e \in Event : rowLock[e] # p => remaining'[e] = remaining[e]
    BY OthersUntouched
  <2>2. pc[q] \in {"decide", "insert"} \/ q \in inserted => Row(q) \in Event /\ rowLock[Row(q)] = q
    BY <1>1 DEF LockDiscipline, HoldsItsOwn, Exists
  <2>. QED
    BY <1>1, <2>1, <2>2 DEF DecisionIsCurrent, Current, Row
<1>3. Current(p)'
  <2>1. CASE Quiet(p) /\ ~DecideUpdate(p)
    <3>1. /\ pc'[p] \notin {"decide", "insert"}
          /\ inserted' = inserted /\ rowLock' = rowLock /\ remaining' = remaining
          /\ p \in inserted => seen' = seen /\ req' = req
      BY <1>1, <2>1
         DEF Quiet, Submit, PreCheck, PreReplay, Begin, Check, Replay, SelectMissing, DecideSoldOut,
             UpdateNothing, Reread, InsertDuplicate, FailInTx, FailOutsideTx,
             Deliver, Return, Throw, Conclude, Goto, TypeOK, LockDiscipline, HoldsItsOwn
    <3>. QED
      BY <1>1, <3>1 DEF DecisionIsCurrent, Current, Row
  <2>2. CASE DecideUpdate(p)
    <3>1. pc[p] = "decide" /\ Row(p) \in Event /\ remaining[Row(p)] \in Int
          /\ req[p].qty \in Int
      BY <1>1, <2>2, RequestAssumption
         DEF DecideUpdate, LockDiscipline, HoldsItsOwn, Exists, TypeOK
    <3>. QED
      BY <1>1, <2>2, <3>1 DEF DecideUpdate, Goto, DecisionIsCurrent, Current, Row, TypeOK
  <2>3. CASE TakesLock(p)
    <3>1. Row(p) \in Event /\ remaining[Row(p)] \in Int /\ req[p].qty \in Int
      BY <1>1, <2>3, RequestAssumption DEF TakesLock, SelectForUpdate, Update, Exists, TypeOK
    <3>2. p \notin inserted
      BY <1>1, <2>3 DEF TakesLock, SelectForUpdate, Update, LockDiscipline, HoldsItsOwn
    <3>. QED
      BY <1>1, <2>3, <3>1, <3>2
         DEF TakesLock, SelectForUpdate, Update, Take, Goto, Current, Row, TypeOK
  <2>4. CASE Insert(p)
    BY <1>1, <2>4 DEF Insert, Return, Conclude, Goto, DecisionIsCurrent, Current, Row, TypeOK
  <2>5. CASE Ends(p)
    <3>1. pc'[p] = "idle" /\ p \notin inserted'
      BY <1>1, <2>5 DEF Ends, Commit, CommitUnheard, Rollback, EndTx, Deliver, Goto, TypeOK
    <3>. QED
      BY <3>1 DEF Current
  <2>. QED
    BY <2>1, <2>2, <2>3, <2>4, <2>5
<1>. QED
  BY <1>2, <1>3 DEF DecisionIsCurrent

\* Committed keys stay and counts only fall, so what is true of a finding
\* stays true while the caller itself does nothing.
LEMMA FindingsOfOthers ==
  ASSUME Inv, NEW p \in Caller, NEW q \in Caller \ {p},
         Quiet(p) \/ TakesLock(p) \/ Insert(p) \/ Ends(p)
  PROVE  FindingsTrue(q)'
<1>1. TypeOK /\ FindingsTrue(q)
  BY DEF Inv, FindingsStayTrue
<1>2. /\ pc'[q] = pc[q] /\ req'[q] = req[q] /\ result'[q] = result[q] /\ answer'[q] = answer[q]
      /\ booked \subseteq booked'
      /\ \A e \in Event : remaining'[e] <= remaining[e]
  BY OthersUntouched
<1>3. /\ req[q].qty \in Int
      /\ \A e \in Event : remaining[e] \in Int /\ remaining'[e] \in Int
  BY <1>1, TypeStep, RequestAssumption DEF TypeOK
<1>4. KeyCommitted(q) => KeyCommitted(q)'
  BY <1>2 DEF KeyCommitted, KeysOf
<1>5. Exists(q)' <=> Exists(q)
  BY <1>2 DEF Exists, Row
<1>6. Exists(q) => remaining'[Row(q)'] \in Int /\ remaining'[Row(q)'] <= remaining[Row(q)]
  BY <1>2, <1>3 DEF Exists, Row
<1>7. ASSUME pc[q] \in {"commit", "rollback"}
      PROVE  Justified(q, result[q])'
  <2>1. result[q] \in Answer
    BY <1>1, <1>7 DEF FindingsTrue, TypeOK, Idle, Says
  <2>2. result[q].left \in Int
    BY <2>1, TotalAssumption DEF Answer, Left, Unknown
  <2>3. Justified(q, result[q])
    BY <1>1, <1>7 DEF FindingsTrue
  <2>. QED
    BY <1>2, <1>3, <1>4, <1>5, <1>6, <2>2, <2>3 DEF Justified, Exists, Row
<1>. QED
  BY <1>1, <1>2, <1>3, <1>4, <1>5, <1>6, <1>7 DEF FindingsTrue, Exists, Row

LEMMA FindingsOfActor ==
  ASSUME Inv, NEW p \in Caller,
         Quiet(p) \/ TakesLock(p) \/ Insert(p) \/ Ends(p)
  PROVE  FindingsTrue(p)'
<1>. USE DEF tables, store
<1>1. TypeOK /\ FindingsTrue(p) /\ Current(p) /\ HoldsItsOwn(p)
  BY DEF Inv, FindingsStayTrue, DecisionIsCurrent, LockDiscipline
<1>2. /\ req[p].qty \in Int
      /\ \A e \in Event : remaining[e] \in Int /\ remaining[e] >= 0
  BY <1>1, RequestAssumption DEF TypeOK, Inv, BooksBalance
<1>3. Pending # Idle /\ \A a \in Answer : a # Pending
  BY DEF Pending, Idle, Says, Answer, Outcome
<1>4. CASE \E r \in Request : Submit(p, r)
  BY <1>1, <1>4 DEF Submit, Goto, TypeOK, FindingsTrue
<1>5. CASE PreCheck(p) \/ Begin(p) \/ Check(p) \/ UpdateNothing(p) \/ DecideUpdate(p) \/ TakesLock(p)
  <2>1. /\ pc[p] # "idle" /\ answer' = answer /\ req' = req
        /\ remaining' = remaining /\ booked' = booked
    BY <1>5 DEF PreCheck, Begin, Check, UpdateNothing, DecideUpdate, TakesLock, SelectForUpdate, Update
  <2>2. /\ pc'[p] \in {"prereplay", "begin", "check", "update", "replay", "select", "reread",
                       "decide", "insert"}
        /\ pc'[p] \in {"prereplay", "replay"} => KeyCommitted(p)
        /\ pc'[p] = "reread" /\ Exists(p) => remaining[Row(p)] < req[p].qty
    BY <1>1, <1>5
       DEF PreCheck, Begin, Check, UpdateNothing, DecideUpdate, TakesLock, SelectForUpdate, Update,
           Goto, TypeOK
  <2>. QED
    BY <1>1, <2>1, <2>2 DEF FindingsTrue, KeyCommitted, Exists, Row
<1>6. CASE PreReplay(p) \/ FailOutsideTx(p) \/ Ends(p)
  <2>1. result[p] \in Answer \/ ~Ends(p)
    BY <1>1 DEF Ends, Commit, CommitUnheard, Rollback, FindingsTrue, TypeOK, Idle, Says
  <2>2. /\ Says("error", Unknown) # Pending
        /\ Says("idempotent_replay", ReadLeft(p)) # Pending
    BY DEF Says, Pending
  <2>3. pc'[p] = "idle" /\ answer'[p] # Pending
    BY <1>1, <1>3, <1>6, <2>1, <2>2
       DEF PreReplay, FailOutsideTx, Ends, Commit, CommitUnheard, Rollback, EndTx, Deliver, Goto, TypeOK
  <2>. QED
    BY <2>3 DEF FindingsTrue
<1>7. ASSUME NEW a, pc[p] # "idle", UNCHANGED <<remaining, booked, req, answer>>, Justified(p, a),
             \/ /\ Return(p, a)
                /\ a.outcome \in {"created", "idempotent_replay", "sold_out", "not_found"}
             \/ Throw(p, a) /\ a.outcome \in {"duplicate", "error"}
      PROVE  FindingsTrue(p)'
  <2>1. /\ result'[p] = a /\ answer'[p] = answer[p]
        /\ \/ /\ pc'[p] = "commit"
              /\ a.outcome \in {"created", "idempotent_replay", "sold_out", "not_found"}
           \/ pc'[p] = "rollback" /\ a.outcome \in {"duplicate", "error"}
    BY <1>1, <1>7 DEF Return, Throw, Conclude, Goto, TypeOK
  <2>2. Justified(p, result[p])'
    BY <1>7, <2>1 DEF Justified, KeyCommitted, Exists, Row
  <2>. QED
    BY <1>1, <1>7, <2>1, <2>2 DEF FindingsTrue
<1>8. CASE Replay(p)
  <2>1. Justified(p, Says("idempotent_replay", ReadLeft(p)))
    BY <1>1, <1>2, <1>8 DEF Replay, FindingsTrue, Justified, Says, ReadLeft, Exists
  <2>. QED
    BY <1>7, <1>8, <2>1 DEF Replay, Says
<1>9. CASE SelectMissing(p)
  <2>1. Justified(p, Says("not_found", Unknown))
    BY <1>9 DEF SelectMissing, Justified, Says
  <2>. QED
    BY <1>7, <1>9, <2>1 DEF SelectMissing, Says
<1>10. CASE DecideSoldOut(p)
  <2>1. seen[p] = remaining[Row(p)] /\ Exists(p) /\ seen[p] < req[p].qty
    BY <1>1, <1>10 DEF DecideSoldOut, Current, HoldsItsOwn
  <2>2. Justified(p, Says("sold_out", seen[p]))
    BY <1>2, <2>1 DEF Justified, Says, Exists
  <2>. QED
    BY <1>7, <1>10, <2>2 DEF DecideSoldOut, Says
<1>11. CASE Reread(p)
  <2>1. ASSUME Exists(p), NEW n \in {Unknown, ReadLeft(p)}
        PROVE  Justified(p, Says("sold_out", n))
    BY <1>1, <1>2, <1>11, <2>1 DEF Reread, FindingsTrue, Justified, Says, ReadLeft, Exists
  <2>2. ~Exists(p) => Justified(p, Says("not_found", Unknown))
    BY DEF Justified, Says
  <2>. QED
    BY <1>7, <1>11, <2>1, <2>2 DEF Reread, Says
<1>12. CASE Insert(p)
  <2>1. Justified(p, Says("created", seen[p]))
    BY DEF Justified, Says
  <2>. QED
    BY <1>7, <1>12, <2>1 DEF Insert, Says
<1>13. CASE InsertDuplicate(p)
  <2>1. Justified(p, Says("duplicate", Unknown))
    BY <1>13 DEF InsertDuplicate, Justified, Says
  <2>. QED
    BY <1>7, <1>13, <2>1 DEF InsertDuplicate, Says
<1>14. CASE FailInTx(p)
  <2>1. Justified(p, Says("error", Unknown))
    BY DEF Justified, Says
  <2>. QED
    BY <1>7, <1>14, <2>1 DEF FailInTx, Says, InTx
<1>. QED
  BY <1>4, <1>5, <1>6, <1>8, <1>9, <1>10, <1>11, <1>12, <1>13, <1>14 DEF Quiet

LEMMA InvStep ==
  ASSUME Inv, NEW p \in Caller,
         Quiet(p) \/ TakesLock(p) \/ Insert(p) \/ Ends(p)
  PROVE  Inv'
<1>1. TypeOK' /\ OneRowPerKey' /\ DecisionIsCurrent' /\ LockDiscipline'
  BY TypeStep, OneRowPerKeyStep, DecisionIsCurrentStep, LockDisciplineStep
<1>2. FindingsStayTrue'
  BY FindingsOfActor, FindingsOfOthers DEF FindingsStayTrue
<1>3. BooksBalance'
  <2>1. CASE UNCHANGED <<remaining, version, booked>>
    BY <2>1 DEF Inv, BooksBalance
  <2>2. CASE Commit(p) \/ CommitUnheard(p)
    BY <2>2, PublishStep DEF Commit, CommitUnheard
  <2>3. CASE Rollback(p)
    BY <2>1, <2>3 DEF Rollback, store
  <2>. QED
    BY <2>1, <2>2, <2>3, OthersUntouched DEF Ends
<1>. QED
  BY <1>1, <1>2, <1>3 DEF Inv

LEMMA InvPreserved == Inv /\ [Next]_vars => Inv'
<1>1. Inv /\ Next => Inv'
  BY StepKinds, InvStep DEF Next
<1>2. Inv /\ UNCHANGED vars => Inv'
  BY DEF vars, Inv, TypeOK, BooksBalance, OneRowPerKey, KeyCommitted, DecisionIsCurrent, Current,
         LockDiscipline, HoldsItsOwn, FindingsStayTrue, FindingsTrue, Justified, Exists, Row
<1>. QED
  BY <1>1, <1>2

LEMMA InvHolds == Spec => []Inv
  BY InitInv, InvPreserved, PTL DEF Spec

-----------------------------------------------------------------------------
\* Every state of every caller, lock and table is of the type the code gives it.
THEOREM TypeCorrect == Spec => []TypeOK
<1>1. Inv => TypeOK
  BY DEF Inv
<1>. QED
  BY <1>1, InvHolds, PTL

\* However naive and optimized requests and queue workers interleave, fail or
\* lose their answers, no seat is sold twice and none is lost.
THEOREM SeatsAreConserved == Spec => []BooksBalance
<1>1. Inv => BooksBalance
  BY DEF Inv
<1>. QED
  BY <1>1, InvHolds, PTL

\* An idempotency key never names two reservations, committed or about to be.
THEOREM KeysAreUnique == Spec => []OneRowPerKey
<1>1. Inv => OneRowPerKey
  BY DEF Inv
<1>. QED
  BY <1>1, InvHolds, PTL

\* The sold-out test and the UPDATE it guards see the same count.
THEOREM DecisionsAreCurrent == Spec => []DecisionIsCurrent
<1>1. Inv => DecisionIsCurrent
  BY DEF Inv
<1>. QED
  BY <1>1, InvHolds, PTL

\* Locks are held from the read they protect to the end of the transaction.
THEOREM LocksAreTwoPhase == Spec => []LockDiscipline
<1>1. Inv => LockDiscipline
  BY DEF Inv
<1>. QED
  BY <1>1, InvHolds, PTL

\* What a transaction found out is still true when its caller hears of it.
THEOREM FindingsAreStable == Spec => []FindingsStayTrue
<1>1. Inv => FindingsStayTrue
  BY DEF Inv
<1>. QED
  BY <1>1, InvHolds, PTL

\* No two transactions wait for each other, whatever rows and keys they want:
\* whoever waits for a row holds nothing, whoever holds an index entry only
\* has its COMMIT or ROLLBACK left.
THEOREM DeadlockFree == Spec => []NoDeadlock
<1>1. Inv => NoDeadlock
  <2>. SUFFICES ASSUME Inv, NEW p \in Caller, NEW q \in Caller, WaitsFor(p, q),
                       NEW r \in Caller, WaitsFor(q, r)
                PROVE  pc[r] \in {"commit", "rollback"}
    BY DEF NoDeadlock
  <2>1. HoldsItsOwn(p) /\ HoldsItsOwn(q) /\ HoldsItsOwn(r)
    BY DEF Inv, LockDiscipline
  <2>2. pc[q] \notin {"select", "update"}
    BY <2>1 DEF WaitsFor, InsertersOf, HoldsItsOwn, Exists
  <2>3. r \in inserted
    BY <2>2 DEF WaitsFor, InsertersOf
  <2>. QED
    BY <2>1, <2>3 DEF HoldsItsOwn
<1>. QED
  BY <1>1, InvHolds, PTL

\* A caller that another one's step leaves alone keeps an answer that holds.
LEMMA HoldsOfOthers ==
  ASSUME Inv, NEW p \in Caller, NEW q \in Caller \ {p}, Holds(q),
         Quiet(p) \/ TakesLock(p) \/ Insert(p) \/ Ends(p)
  PROVE  Holds(q)'
<1>1. /\ req'[q] = req[q] /\ answer'[q] = answer[q]
      /\ booked \subseteq booked'
      /\ \A e \in Event : remaining'[e] <= remaining[e]
  BY OthersUntouched
<1>2. /\ req[q].qty \in Int
      /\ \A e \in Event : remaining[e] \in Int /\ remaining'[e] \in Int
  BY TypeStep, RequestAssumption DEF Inv, TypeOK
<1>3. KeyCommitted(q) => KeyCommitted(q)'
  BY <1>1 DEF KeyCommitted, KeysOf
<1>. QED
  BY <1>1, <1>2, <1>3 DEF Holds, Exists, Row

\* A caller that is answered was told the truth; if it was told "created", its
\* row is in the table now and its key was not there before.
LEMMA HoldsOfActor ==
  ASSUME Inv, NEW p \in Caller, Holds(p),
         Quiet(p) \/ TakesLock(p) \/ Insert(p) \/ Ends(p)
  PROVE  /\ Holds(p)'
         /\ answer'[p].outcome = "created" =>
              \/ answer'[p] = answer[p] /\ req'[p] = req[p]
              \/ req'[p] = req[p] /\ req[p].key \notin KeysOf(booked)
<1>. USE DEF tables, store
<1>1. TypeOK /\ FindingsTrue(p) /\ HoldsItsOwn(p)
  BY DEF Inv, FindingsStayTrue, LockDiscipline
<1>2. CASE \E r \in Request : Submit(p, r)
  BY <1>1, <1>2 DEF Submit, Holds, Pending, Says, TypeOK
<1>3. CASE PreReplay(p)
  BY <1>1, <1>3 DEF PreReplay, Deliver, Holds, Says, FindingsTrue, KeyCommitted, TypeOK
<1>4. CASE FailOutsideTx(p)
  BY <1>1, <1>4 DEF FailOutsideTx, Deliver, Holds, Says, TypeOK
<1>5. CASE Ends(p) /\ p \in inserted
  <2>1. req' = req /\ (EndTx(p, result[p]) \/ EndTx(p, Says("error", Unknown)))
    BY <1>5 DEF Ends, Commit, CommitUnheard, Rollback
  <2>2. CASE answer'[p].outcome = "error"
    BY <2>2 DEF Holds
  <2>3. CASE answer'[p] = result[p] /\ pc[p] = "commit"
    <3>1. result[p].outcome = "created" /\ req[p].key \notin KeysOf(booked)
      BY <1>1, <1>5, <2>3, MayBook DEF HoldsItsOwn
    <3>2. Publish(p)
      BY <1>5, <2>3 DEF Ends, Commit, CommitUnheard, Rollback
    <3>3. req'[p] \in booked'
      BY <1>5, <2>1, <3>2 DEF Publish
    <3>. QED
      BY <2>1, <2>3, <3>1, <3>3 DEF Holds
  <2>4. CASE answer'[p] = result[p] /\ pc[p] = "rollback" /\ booked' = booked
    BY <1>1, <2>1, <2>4 DEF Holds, FindingsTrue, Justified, KeyCommitted
  <2>. QED
    BY <1>1, <1>5, <2>2, <2>3, <2>4
       DEF Ends, Commit, CommitUnheard, Rollback, EndTx, Deliver, Says, TypeOK
<1>6. CASE Ends(p) /\ p \notin inserted
  <2>1. /\ req' = req /\ booked' = booked /\ remaining' = remaining
        /\ answer'[p] = result[p] \/ answer'[p].outcome = "error"
        /\ pc[p] \in {"commit", "rollback"}
    BY <1>1, <1>6
       DEF Ends, Commit, CommitUnheard, Rollback, Publish, EndTx, Deliver, Says, TypeOK
  <2>2. result[p].outcome # "created" /\ Justified(p, result[p])
    BY <1>1, <1>6, <2>1 DEF HoldsItsOwn, FindingsTrue
  <2>. QED
    BY <2>1, <2>2 DEF Holds, Justified, KeyCommitted, Exists, Row
<1>7. CASE /\ answer' = answer /\ req' = req
           /\ booked' = booked /\ remaining' = remaining
  BY <1>7 DEF Holds, KeyCommitted, Exists, Row
<1>. QED
  BY <1>2, <1>3, <1>4, <1>5, <1>6, <1>7
     DEF Quiet, PreCheck, Begin, Check, Replay, SelectMissing, DecideSoldOut, DecideUpdate,
         UpdateNothing, Reread, InsertDuplicate, FailInTx, Return, Throw,
         TakesLock, SelectForUpdate, Update, Insert

\* Nobody is told "created" of a reservation that is not in the table or that
\* another caller was told of, and no other answer is ever belied by the table.
THEOREM AnswersAreKept == Spec => []AnswersHold
<1>1. Init => AnswersHold
  BY DEF Init, AnswersHold, Holds, Idle, Says
<1>2. Inv /\ AnswersHold /\ [Next]_vars => AnswersHold'
  <2>1. ASSUME Inv, AnswersHold, NEW p \in Caller,
               Quiet(p) \/ TakesLock(p) \/ Insert(p) \/ Ends(p)
        PROVE  AnswersHold'
    <3>1. \A q \in Caller : Holds(q)'
      BY <2>1, HoldsOfOthers, HoldsOfActor DEF AnswersHold
    <3>2. ASSUME NEW q \in Caller, NEW r \in Caller, q # r, r # p,
                 answer'[q].outcome = "created", answer'[r].outcome = "created",
                 req'[q].key = req'[r].key
          PROVE  FALSE
      <4>1. answer'[r] = answer[r] /\ req'[r] = req[r]
        BY <2>1, <3>2, OthersUntouched
      <4>2. req[r].key \in KeysOf(booked)
        BY <2>1, <3>2, <4>1 DEF AnswersHold, Holds, KeysOf
      <4>3. CASE q # p
        BY <2>1, <3>2, <4>1, <4>3, OthersUntouched DEF AnswersHold
      <4>4. CASE q = p
        BY <2>1, <3>2, <4>1, <4>2, <4>4, HoldsOfActor DEF AnswersHold
      <4>. QED
        BY <4>3, <4>4
    <3>. QED
      BY <3>1, <3>2 DEF AnswersHold
  <2>2. AnswersHold /\ UNCHANGED vars => AnswersHold'
    BY DEF vars, AnswersHold, Holds, KeyCommitted, Exists, Row
  <2>. QED
    BY <2>1, <2>2, StepKinds DEF Next
<1>. QED
  BY <1>1, <1>2, InvHolds, PTL DEF Spec

-----------------------------------------------------------------------------
\* The store's vocabulary is this module's.
LEMMA StoreVocabulary ==
  /\ Store!Unknown = Unknown /\ Store!Pending = Pending /\ Store!Idle = Idle
  /\ Store!Answer = Answer
  /\ \A o, n : Store!Says(o, n) = Says(o, n)
  /\ \A rows : Store!KeysOf(rows) = KeysOf(rows)
  BY DEF Store!Unknown, Unknown, Store!Pending, Pending, Store!Idle, Idle, Store!Answer, Answer,
         Store!Left, Left, Store!Outcome, Outcome, Store!Says, Says, Store!KeysOf, KeysOf

\* A step of a caller is a step of the atomic store, or none at all.
LEMMA StoreStep ==
  ASSUME Inv, NEW p \in Caller,
         Quiet(p) \/ TakesLock(p) \/ Insert(p) \/ Ends(p)
  PROVE  Store!Next \/ UNCHANGED Store!vars
<1>. USE DEF tables, store, Store!vars, Store!store, Store!Answered, Store!Reply
<1>1. TypeOK /\ FindingsTrue(p) /\ HoldsItsOwn(p) /\ Current(p)
  BY DEF Inv, FindingsStayTrue, LockDiscipline, DecisionIsCurrent
<1>2. ReadLeft(p) \in Left /\ Unknown \in Left
  BY ReadLeftType DEF Left
<1>3. ASSUME NEW a \in Answer, Deliver(p, a), pc[p] # "idle", Justified(p, a),
             a.outcome # "created", UNCHANGED <<remaining, version, booked, req>>
      PROVE  Store!Decline(p)
  <2>1. answer[p] = Pending /\ answer' = [answer EXCEPT ![p] = a]
    BY <1>1, <1>3 DEF FindingsTrue, Deliver
  <2>2. a = Says(a.outcome, a.left) /\ a.outcome \in Outcome
    BY DEF Answer, Says
  <2>3. Store!Truthful(req[p], a)
    BY <1>3, <2>2, StoreVocabulary DEF Store!Truthful, Justified, Outcome, KeyCommitted, Exists, Row, Says
  <2>. QED
    BY <1>3, <2>1, <2>3, StoreVocabulary DEF Store!Decline
<1>4. CASE Quiet(p) \/ TakesLock(p) \/ Insert(p)
  <2>1. CASE \E r \in Request : Submit(p, r)
    <3>1. answer[p] # Pending
      BY <1>1, <2>1 DEF Submit, FindingsTrue
    <3>. QED
      BY <2>1, <3>1, StoreVocabulary DEF Submit, Store!Next, Store!Submit
  <2>2. CASE PreReplay(p)
    <3>1. Says("idempotent_replay", ReadLeft(p)) \in Answer
      BY <1>2, SaysType DEF Outcome
    <3>2. Justified(p, Says("idempotent_replay", ReadLeft(p)))
      BY <1>1, <2>2 DEF PreReplay, FindingsTrue, Justified, Says, ReadLeft, Exists, TypeOK
    <3>. QED
      BY <1>3, <2>2, <3>1, <3>2 DEF PreReplay, Says, Store!Next
  <2>3. CASE FailOutsideTx(p)
    <3>1. Says("error", Unknown) \in Answer /\ Justified(p, Says("error", Unknown))
      BY <1>2, SaysType DEF Outcome, Justified, Says
    <3>. QED
      BY <1>3, <2>3, <3>1 DEF FailOutsideTx, Says, Store!Next
  <2>. QED
    BY <1>4, <2>1, <2>2, <2>3
       DEF Quiet, PreCheck, Begin, Check, Replay, SelectMissing, DecideSoldOut, DecideUpdate,
           UpdateNothing, Reread, InsertDuplicate, FailInTx, TakesLock, SelectForUpdate, Update, Insert
<1>5. CASE Ends(p) /\ (p \notin inserted \/ Rollback(p))
  <2>1. PICK a \in {result[p], Says("error", Unknown)} :
          EndTx(p, a) /\ (a = result[p] \/ a = Says("error", Unknown))
    BY <1>5 DEF Ends, Commit, CommitUnheard, Rollback
  <2>2. a \in Answer /\ Justified(p, a) /\ a.outcome # "created" /\ pc[p] # "idle"
    BY <1>1, <1>2, <1>5, <2>1, SaysType
       DEF Ends, Commit, CommitUnheard, Rollback, FindingsTrue, HoldsItsOwn, TypeOK,
           Idle, Says, Outcome, Justified
  <2>3. UNCHANGED <<remaining, version, booked, req>>
    BY <1>5 DEF Ends, Commit, CommitUnheard, Rollback, Publish
  <2>. QED
    BY <1>3, <2>1, <2>2, <2>3 DEF EndTx, Store!Next
<1>6. CASE (Commit(p) \/ CommitUnheard(p)) /\ p \in inserted
  <2>1. Store!Book(req[p])
    BY <1>6, MayBook, StoreVocabulary DEF Commit, CommitUnheard, Publish, Store!Book, Row
  <2>2. answer[p] = Pending /\ req' = req
    BY <1>1, <1>6 DEF Commit, CommitUnheard, FindingsTrue
  <2>3. CASE CommitUnheard(p)
    BY <2>1, <2>2, <2>3, StoreVocabulary DEF CommitUnheard, EndTx, Deliver, Store!CreateUnheard, Store!Next
  <2>4. CASE Commit(p)
    <3>1. result[p] = Says("created", remaining'[Row(p)])
      <4>1. result[p].outcome = "created" /\ result[p].left = seen[p]
        BY <1>1, <1>6, <2>4 DEF Commit, HoldsItsOwn
      <4>2. result[p] = Says("created", seen[p])
        BY <1>1, <4>1 DEF TypeOK, Answer, Says, Idle
      <4>3. seen[p] = remaining[Row(p)] - req[p].qty /\ Row(p) \in Event
        BY <1>1, <1>6 DEF Current, HoldsItsOwn, Exists
      <4>4. remaining' = [remaining EXCEPT ![Row(p)] = @ - req[p].qty]
        BY <1>6, <2>4 DEF Commit, Publish
      <4>. QED
        BY <1>1, <4>2, <4>3, <4>4 DEF TypeOK
    <3>. QED
      BY <2>1, <2>2, <2>4, <3>1, StoreVocabulary DEF Commit, EndTx, Deliver, Row, Store!Create, Store!Next
  <2>. QED
    BY <1>6, <2>3, <2>4
<1>. QED
  BY <1>4, <1>5, <1>6 DEF Ends

\* The transactions implement the atomic store: each call takes effect at most
\* once, at one instant, and every answer is true of the store at some instant
\* of the call.
THEOREM TxImplementsStore == Spec => ImplementsStore
<1>1. Init => Store!Init
  BY StoreVocabulary DEF Init, Store!Init
<1>2. Inv /\ [Next]_vars => [Store!Next]_(Store!vars)
  <2>1. Inv /\ Next => Store!Next \/ UNCHANGED Store!vars
    BY StepKinds, StoreStep DEF Next
  <2>2. UNCHANGED vars => UNCHANGED Store!vars
    BY DEF vars, Store!vars
  <2>. QED
    BY <2>1, <2>2
<1>. QED
  BY <1>1, <1>2, InvHolds, PTL DEF Spec, ImplementsStore, Store!Spec

-----------------------------------------------------------------------------
(* Retries                                                                 *)

\* Where a retry can be: on its way to a replay, or to a failure.
OnlyReplays(p) ==
  /\ KeyCommitted(p)
  /\ answer[p].outcome \in {"pending", "idempotent_replay", "error"}
  /\ pc[p] \in {"idle", "precheck", "prereplay", "begin", "check", "replay", "commit", "rollback"}
  /\ pc[p] \in {"begin", "check", "replay"} => PathOf[p] = "naive"
  /\ pc[p] = "commit" => result[p].outcome = "idempotent_replay"
  /\ pc[p] = "rollback" => result[p].outcome = "error"

Retries == known \subseteq Caller /\ \A p \in known : PathOf[p] # "worker" => OnlyReplays(p)

LEMMA OthersKeepReplaying ==
  ASSUME NEW p, NEW q, OnlyReplays(q),
         booked \subseteq booked', req'[q] = req[q], pc'[q] = pc[q],
         result'[q] = result[q], answer'[q] = answer[q]
  PROVE  OnlyReplays(q)'
<1>1. KeyCommitted(q)'
  BY DEF OnlyReplays, KeyCommitted, KeysOf
<1>. QED
  BY <1>1 DEF OnlyReplays

LEMMA RetryStep ==
  ASSUME TypeOK, NEW p \in Caller, OnlyReplays(p), PathOf[p] # "worker",
         Quiet(p) \/ TakesLock(p) \/ Insert(p) \/ Ends(p), ~\E r \in Request : Submit(p, r)
  PROVE  OnlyReplays(p)'
<1>0. booked \subseteq booked' /\ req' = req
  BY DEF Quiet, PreCheck, PreReplay, Begin, Check, Replay, SelectMissing, DecideSoldOut, DecideUpdate,
     UpdateNothing, Reread, InsertDuplicate, FailInTx, FailOutsideTx, TakesLock, SelectForUpdate,
     Update, Insert, Ends, Commit, CommitUnheard, Rollback, Publish, tables, store
<1>1. KeyCommitted(p) /\ KeyCommitted(p)'
  BY <1>0 DEF OnlyReplays, KeyCommitted, KeysOf
<1>2. \/ PreCheck(p) \/ PreReplay(p) \/ Begin(p) \/ Check(p) \/ Replay(p)
      \/ FailInTx(p) \/ FailOutsideTx(p) \/ Ends(p)
  BY DEF OnlyReplays, Quiet, SelectMissing, DecideSoldOut, DecideUpdate, UpdateNothing, Reread,
     InsertDuplicate, TakesLock, SelectForUpdate, Update, Insert
<1>. USE DEF Goto, Conclude, Return, Throw, Deliver, EndTx, Says, TypeOK
<1>3. CASE PreCheck(p) \/ Begin(p) \/ Check(p)
  BY <1>1, <1>3 DEF PreCheck, Begin, Check, OnlyReplays
<1>4. CASE PreReplay(p) \/ FailOutsideTx(p)
  BY <1>1, <1>4 DEF PreReplay, FailOutsideTx, OnlyReplays
<1>5. CASE Replay(p)
  BY <1>1, <1>5 DEF Replay, OnlyReplays
<1>6. CASE FailInTx(p)
  BY <1>1, <1>6 DEF FailInTx, OnlyReplays
<1>7. CASE Ends(p)
  BY <1>1, <1>7 DEF Ends, Commit, CommitUnheard, Rollback, OnlyReplays
<1>. QED
  BY <1>2, <1>3, <1>4, <1>5, <1>6, <1>7

LEMMA OneCallerMoves ==
  ASSUME NEW p \in Caller, (\E r \in Request : Submit(p, r)) \/ Advance(p) \/ Fail(p),
         NEW q \in Caller, q # p, TypeOK
  PROVE  /\ booked \subseteq booked' /\ req'[q] = req[q] /\ pc'[q] = pc[q]
         /\ result'[q] = result[q] /\ answer'[q] = answer[q]
<1>1. Quiet(p) \/ TakesLock(p) \/ Insert(p) \/ Ends(p)
  BY StepKinds
<1>. USE DEF Goto, Conclude, Return, Throw, Deliver, EndTx, tables, store
<1>2. CASE Quiet(p)
  BY <1>2 DEF Quiet, Submit, PreCheck, PreReplay, Begin, Check, Replay, SelectMissing, DecideSoldOut,
     DecideUpdate, UpdateNothing, Reread, InsertDuplicate, FailInTx, FailOutsideTx, TypeOK
<1>3. CASE TakesLock(p) \/ Insert(p)
  BY <1>3 DEF TakesLock, SelectForUpdate, Update, Insert, TypeOK
<1>4. CASE Ends(p)
  BY <1>4 DEF Ends, Commit, CommitUnheard, Rollback, Publish, TypeOK
<1>. QED
  BY <1>1, <1>2, <1>3, <1>4

\* Whoever asks for a reservation that exists is told so, whatever is left of
\* the event and whatever else goes on, on both request paths.
THEOREM RetriesAreReplayed == RSpec => []RetryIsReplayed
<1>1. RInit => Init /\ Retries
  BY DEF RInit, Retries
<1>2. [RNext]_rvars => [Next]_vars
  BY DEF RNext, RSubmit, rvars, Next
<1>3. Inv /\ Retries /\ [RNext]_rvars => Retries'
  <2>. SUFFICES ASSUME TypeOK, Retries, RNext \/ UNCHANGED rvars PROVE Retries'
    BY DEF Inv
  <2>1. CASE UNCHANGED rvars
    BY <2>1 DEF rvars, vars, Retries, OnlyReplays, KeyCommitted
  <2>2. ASSUME NEW p \in Caller, Advance(p) \/ Fail(p), UNCHANGED known PROVE Retries'
    <3>1. ASSUME NEW q \in known, PathOf[q] # "worker" PROVE OnlyReplays(q)'
      <4>1. OnlyReplays(q) /\ q \in Caller
        BY <3>1 DEF Retries
      <4>2. CASE q # p
        BY <2>2, <4>1, <4>2, OneCallerMoves, OthersKeepReplaying
      <4>3. CASE q = p
        <5>1. Quiet(p) \/ TakesLock(p) \/ Insert(p) \/ Ends(p)
          BY <2>2, StepKinds
        <5>2. ~\E r \in Request : Submit(p, r)
          <6>1. pc[p] # "idle"
            BY <2>2 DEF Advance, Fail, PreCheck, PreReplay, Begin, Check, Replay, SelectMissing,
               SelectForUpdate, DecideSoldOut, DecideUpdate, Update, UpdateNothing, Reread, Insert,
               InsertDuplicate, Commit, Rollback, FailInTx, InTx, FailOutsideTx, CommitUnheard
          <6>. QED
            BY <6>1 DEF Submit
        <5>. QED
          BY <3>1, <4>1, <4>3, <5>1, <5>2, RetryStep
      <4>. QED
        BY <4>2, <4>3
    <3>. QED
      BY <2>2, <3>1 DEF Retries
  <2>3. ASSUME NEW p \in Caller, NEW r \in Request, RSubmit(p, r) PROVE Retries'
    <3>1. Submit(p, r) /\ known' \subseteq known \cup {p}
          /\ (p \in known' => r.key \in KeysOf(booked))
      BY <2>3 DEF RSubmit
    <3>2. ASSUME NEW q \in known', PathOf[q] # "worker", q # p PROVE OnlyReplays(q)'
      <4>1. q \in Caller /\ OnlyReplays(q)
        BY <3>1, <3>2 DEF Retries
      <4>. QED
        BY <3>1, <3>2, <4>1, OneCallerMoves, OthersKeepReplaying
    <3>3. ASSUME p \in known', PathOf[p] # "worker" PROVE OnlyReplays(p)'
      <4>1. /\ req'[p] = r /\ answer'[p] = Pending /\ UNCHANGED booked
            /\ pc'[p] = IF PathOf[p] = "optimized" THEN "precheck" ELSE "begin"
        BY <3>1 DEF Submit, Goto, TypeOK, tables, store
      <4>2. PathOf[p] \in {"naive", "optimized"}
        BY <3>3, PathAssumption DEF Path
      <4>. QED
        BY <3>1, <3>3, <4>1, <4>2 DEF OnlyReplays, KeyCommitted, Pending, Says
    <3>. QED
      BY <3>1, <3>2, <3>3 DEF Retries
  <2>. QED
    BY <2>1, <2>2, <2>3 DEF RNext
<1>4. Retries => RetryIsReplayed
  BY DEF Retries, RetryIsReplayed, OnlyReplays
<1>. QED
  BY <1>1, <1>2, <1>3, <1>4, InvHolds, PTL DEF RSpec, Spec
=============================================================================
