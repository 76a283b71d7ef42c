------------------------- MODULE CatalogAccess_proofs -------------------------
(***************************************************************************)
(* Proofs about the search for the set map, the catalogs that a walk gives *)
(* out and the parsers behind both, for every medium, reach and number of  *)
(* failures.                                                               *)
(***************************************************************************)
EXTENDS CatalogAccess, Recursion, SequenceTheorems, FiniteSetTheorems, TLAPS

Anchored == pc \in {"back", "payload", "chain", "found"}

(* What the search has learnt from the EOTM. *)
Learnt ==
  /\ last \in 0..Len(tape)
  /\ Anchored => \E e \in {last - 1, last} : e \in Esets /\ \A q \in Esets : q <= e

(* No filemark lies between the last ESET and the probe, unless a failure  *)
(* hid it.                                                                 *)
NoMark(a) == \A r \in a..(last - 1) : B(r).k # "fm"
Probed ==
  /\ pc = "back" => delta \in Nat /\ delta >= 1 /\ (~hidden => NoMark(last - delta + 1))
  /\ pc = "chain" => delta \in Nat /\ (~hidden => NoMark(last - delta))

(* Where the set map was found. *)
Placed ==
  pc \in {"payload", "found"} =>
    found.from \in 0..(last - 1) /\ (~hidden => NoMark(found.from))

FoundType ==
  /\ found = [id |-> found.id, cells |-> found.cells, len |-> found.len,
              from |-> found.from, next |-> found.next]
  /\ found.from \in -1..(Len(tape) - 1)

Inv == TypeOK /\ tape \in Tapes /\ Learnt /\ Probed /\ Placed /\ FoundType

-----------------------------------------------------------------------------
LEMMA TapeType == ASSUME tape \in Tapes PROVE Len(tape) \in Nat /\ Ends(tape)
  BY TapesAssumption

LEMMA InitInv == Init => Inv
<1> SUFFICES ASSUME Init PROVE Inv
  OBVIOUS
<1>1. Len(tape) \in Nat
  BY TapeType DEF Init
<1>5. found = NoMap /\ NoMap.from \in -1..(Len(tape) - 1) /\ at \in -1..(Len(tape) - 1)
  <2>1. NoMap.from = -1
    BY DEF NoMap
  <2>2. found = NoMap /\ at = -1
    BY DEF Init
  <2> QED BY <1>1, <2>1, <2>2
<1>2. TypeOK
  <2>1. pc = "idle" /\ faults = 0 /\ flb = FALSE /\ hidden = FALSE /\ last = 0 /\ delta = 0
    BY DEF Init
  <2>2. 0 \in 0..Len(tape) /\ 0 \in 0..(Reach + 1) /\ 0 \in 0..MaxFaults
    BY <1>1, AccessAssumption
  <2> QED BY <1>5, <2>1, <2>2 DEF TypeOK
<1>3. Learnt /\ Probed /\ Placed
  BY <1>1 DEF Init, Learnt, Probed, Placed, Anchored
<1>4. FoundType
  BY <1>5 DEF FoundType, NoMap
<1> QED BY <1>2, <1>3, <1>4 DEF Inv, Init

(* The faults stay within their bound. *)
LEMMA FaultsBound ==
  ASSUME NEW o, faults \in 0..MaxFaults, Works(o) \/ Breaks(o)
  PROVE  faults' \in 0..MaxFaults
BY AccessAssumption DEF Works, Breaks

LEMMA PrimeInv == \A o : Inv /\ Prime(o) => Inv'
<1> SUFFICES ASSUME NEW o, Inv, Prime(o) PROVE Inv'
  OBVIOUS
<1>1. faults' \in 0..MaxFaults
  BY FaultsBound DEF Prime, Inv, TypeOK
<1>2. pc' = "eotm" /\ flb' \in BOOLEAN /\ UNCHANGED <<tape, last, delta, found, hidden, at>>
  BY DEF Prime, walk
<1>3. TypeOK'
  BY <1>1, <1>2 DEF Inv, TypeOK
<1>4. Learnt' /\ Probed' /\ Placed' /\ FoundType'
  BY <1>2 DEF Inv, Learnt, Probed, Placed, FoundType, Anchored
<1> QED BY <1>2, <1>3, <1>4 DEF Inv

(* Bounds of intervals. *)
LEMMA NothingBetween == ASSUME NEW n \in Int PROVE n..(n - 1) = {}
  OBVIOUS
LEMMA NotBeyond ==
  ASSUME NEW n \in Int, NEW m \in Int, NEW q \in Int, q + 1 <= m, ~(q + 1 \in (n + 1)..m)
  PROVE  q <= n - 1
  OBVIOUS

(* What LastEsetIn says of an address, in the terms of the search.         *)
LEMMA LastOfTape ==
  ASSUME NEW e \in Int, Len(tape) \in Nat, LastEsetIn(tape, e)
  PROVE  e \in Esets /\ \A q \in Esets : q <= e
<1>1. e \in 0..(Len(tape) - 1) /\ tape[e + 1].k = "eset"
      /\ \A q \in (e + 2)..Len(tape) : tape[q].k # "eset"
  BY DEF LastEsetIn
<1>2. e \in Esets
  BY <1>1 DEF Esets, B
<1>3. ASSUME NEW q \in Esets PROVE q <= e
  <2>1. q \in 0..(Len(tape) - 1) /\ tape[q + 1].k = "eset"
    BY DEF Esets, B
  <2>2. ~(q + 1 \in (e + 2)..Len(tape))
    BY <1>1, <2>1
  <2> QED BY <2>1, <2>2
<1> QED BY <1>2, <1>3

(* The EOTM's address is that of the last ESET or of the block behind it.  *)
LEMMA LocateEOTMInv == \A o : Inv /\ LocateEOTM(o) => Inv'
<1> SUFFICES ASSUME NEW o, Inv, LocateEOTM(o) PROVE Inv'
  OBVIOUS
<1>0. UNCHANGED <<tape, flb, found, hidden, at>> /\ Len(tape) \in Nat /\ Ends(tape)
  BY TapeType DEF LocateEOTM, walk, Inv
<1>1. faults' \in 0..MaxFaults
  BY FaultsBound DEF LocateEOTM, Inv, TypeOK
<1>2. CASE pc' \in {"error", "none"} /\ UNCHANGED <<last, delta>>
  <2>1. TypeOK'
    BY <1>0, <1>1, <1>2 DEF Inv, TypeOK
  <2>2. Learnt' /\ Probed' /\ Placed' /\ FoundType'
    BY <1>0, <1>2 DEF Inv, Learnt, Probed, Placed, FoundType, Anchored
  <2> QED BY <1>0, <2>1, <2>2 DEF Inv
<1>3. CASE /\ Len(tape) > 2 /\ B(Len(tape) - 2).k = "eotm" /\ ~B(Len(tape) - 2).noEset
           /\ last' = B(Len(tape) - 2).last /\ delta' = 1 /\ pc' = "back"
  <2>1. B(Len(tape) - 2) = tape[Len(tape) - 1]
    BY <1>0 DEF B
  <2>2. last' \in Nat /\ (LastEsetIn(tape, last') \/ LastEsetIn(tape, last' - 1))
    BY <1>0, <1>3, <2>1 DEF Ends
  <2>3. PICK e \in {last' - 1, last'} : e \in Esets /\ \A q \in Esets : q <= e
    BY <1>0, <2>2, LastOfTape
  <2>4. last' \in 0..Len(tape)
    <3>1. e \in 0..(Len(tape) - 1) /\ Len(tape) \in Nat /\ last' \in Nat
      BY <1>0, <2>2, <2>3 DEF Esets
    <3>2. CASE e = last'
      BY <3>1, <3>2
    <3>3. CASE e = last' - 1
      <4>1. ASSUME NEW n \in Nat, NEW m \in Nat, n - 1 \in 0..(m - 1) PROVE n \in 0..m
        BY <4>1
      <4> QED BY <3>1, <3>3, <4>1
    <3> QED BY <2>3, <3>2, <3>3
  <2>5. TypeOK'
    BY <1>0, <1>1, <1>3, <2>4, AccessAssumption DEF Inv, TypeOK
  <2>6. Learnt'
    <3>1. Len(tape)' = Len(tape) /\ Esets' = Esets
      BY <1>0 DEF Esets, B
    <3> QED BY <2>3, <2>4, <3>1 DEF Learnt
  <2>7. Probed' /\ Placed' /\ FoundType'
    <3>1. (last - delta + 1)' = last'
      BY <1>3, <2>2
    <3>2. NoMark(last - delta + 1)'
      <4>1. last' \in Int
        BY <1>0, <2>2
      <4>2. last'..(last' - 1) = {}
        BY <4>1, NothingBetween
      <4> QED BY <3>1, <4>2 DEF NoMark
    <3> QED BY <1>0, <1>3, <3>2 DEF Inv, Probed, Placed, FoundType
  <2> QED BY <1>0, <2>5, <2>6, <2>7 DEF Inv
<1> QED BY <1>2, <1>3 DEF LocateEOTM

(* A probe of the block before, none of the ones it came past a filemark.  *)
LEMMA FurtherMark ==
  ASSUME NEW a \in Int, NEW p \in Int, p = a - 1, last \in Int, NoMark(a), B(p).k # "fm"
  PROVE  NoMark(p)
<1> SUFFICES ASSUME NEW r \in p..(last - 1) PROVE B(r).k # "fm"
  BY DEF NoMark
<1>1. r = p \/ r \in a..(last - 1)
  OBVIOUS
<1> QED BY <1>1 DEF NoMark

(* What every step of the search leaves, and what it may do to the rest. *)
LEMMA SearchStep ==
  ASSUME Inv, Anchored, UNCHANGED <<tape, flb, last, at>>, faults' \in 0..MaxFaults,
         pc' \in {"back", "payload", "chain", "found", "none"},
         delta' \in 0..(Reach + 1), hidden' \in BOOLEAN, Probed', Placed', FoundType'
  PROVE  Inv'
<1>1. TypeOK'
  BY DEF Inv, TypeOK, FoundType
<1>2. Learnt'
  BY DEF Inv, Learnt, Anchored, B, Esets
<1> QED BY <1>1, <1>2 DEF Inv

LEMMA BackwardInv == \A o : Inv /\ Backward(o) => Inv'
<1> SUFFICES ASSUME NEW o, Inv, Backward(o) PROVE Inv'
  OBVIOUS
<1> DEFINE p == last - delta
<1>0. /\ Len(tape) \in Nat /\ Reach \in Nat /\ last \in 0..Len(tape) /\ delta \in Nat /\ delta >= 1
      /\ delta <= Reach + 1 /\ hidden \in BOOLEAN /\ p = last - delta /\ p \in Int
      /\ Anchored /\ pc = "back"
  BY TapeType, AccessAssumption DEF Backward, Inv, TypeOK, Learnt, Probed, Anchored
<1>1. faults' \in 0..MaxFaults
  BY FaultsBound DEF Backward, Missed, Inv, TypeOK
<1>2. UNCHANGED <<tape, flb, last, at>>
  BY DEF Backward, walk
<1>3. ~hidden => NoMark(p + 1)
  BY <1>0 DEF Inv, Probed
<1>4. ~hidden /\ B(p).k # "fm" => NoMark(p)
  BY <1>0, <1>3, FurtherMark
<1>5. \A a : NoMark(a)' = NoMark(a)
  BY <1>2 DEF B, NoMark
<1>6. CASE TryChain /\ UNCHANGED <<found, hidden>>
  <2>1. delta' = 0 /\ pc' \in {"chain", "none"}
    BY <1>6 DEF TryChain
  <2>2. NoMark(last - 0)
    BY <1>0 DEF NoMark
  <2>3. Probed' /\ Placed' /\ FoundType'
    BY <1>0, <1>2, <1>5, <1>6, <2>1, <2>2 DEF Inv, Probed, Placed, FoundType
  <2> QED BY <1>0, <1>1, <1>2, <1>6, <2>1, <2>3, SearchStep
<1>7. CASE delta <= Reach /\ p >= 0 /\ Missed(o, p) /\ UNCHANGED <<pc, found>>
  <2>1. delta' = delta + 1 /\ hidden' = (hidden \/ B(p).k = "fm")
    BY <1>7 DEF Missed, Further
  <2>2. (last - delta + 1)' = p
    BY <1>0, <1>2, <2>1
  <2>3. Probed' /\ Placed' /\ FoundType'
    <3>1. ~hidden' => ~hidden /\ B(p).k # "fm"
      BY <2>1
    <3>2. ~hidden' => NoMark(last - delta + 1)'
      BY <1>4, <1>5, <2>2, <3>1
    <3>3. pc' = "back" /\ delta' \in Nat /\ delta' >= 1
      BY <1>0, <1>7, <2>1
    <3> QED BY <1>2, <1>7, <3>2, <3>3 DEF Inv, Probed, Placed, FoundType
  <2>4. delta' \in 0..(Reach + 1) /\ hidden' \in BOOLEAN /\ pc' = "back"
    BY <1>0, <1>7, <2>1
  <2> QED BY <1>0, <1>1, <1>2, <2>3, <2>4, SearchStep
<1>8. CASE delta <= Reach /\ p >= 0 /\ ~Crosses(p) /\ Further /\ UNCHANGED <<pc, found, hidden>>
  <2>1. delta' = delta + 1 /\ B(p).k # "fm"
    BY <1>8 DEF Further, Crosses
  <2>2. (last - delta + 1)' = p
    BY <1>0, <1>2, <2>1
  <2>3. Probed' /\ Placed' /\ FoundType'
    BY <1>0, <1>2, <1>4, <1>5, <1>8, <2>1, <2>2 DEF Inv, Probed, Placed, FoundType
  <2>4. delta' \in 0..(Reach + 1) /\ hidden' \in BOOLEAN /\ pc' = "back"
    BY <1>0, <1>8, <2>1
  <2> QED BY <1>0, <1>1, <1>2, <2>3, <2>4, SearchStep
<1>9. CASE /\ delta <= Reach /\ p >= 0 /\ ~Crosses(p)
           /\ found' = [id |-> B(p).id, len |-> B(p).len, from |-> p, next |-> p + 1,
                        cells |-> IF B(p).len = 0 THEN <<>> ELSE B(p).cells]
           /\ pc' = "payload" /\ UNCHANGED <<delta, hidden>>
  <2>1. found'.from = p /\ p \in 0..(last - 1) /\ p \in -1..(Len(tape) - 1) /\ B(p).k # "fm"
    BY <1>0, <1>9 DEF Crosses
  <2>2. FoundType'
    BY <1>2, <1>9, <2>1 DEF FoundType
  <2>3. Probed' /\ Placed'
    BY <1>2, <1>4, <1>5, <1>9, <2>1 DEF Probed, Placed
  <2>4. delta' \in 0..(Reach + 1)
    BY <1>0, <1>9
  <2> QED BY <1>0, <1>1, <1>2, <1>9, <2>2, <2>3, <2>4, SearchStep
<1> HIDE DEF p
<1> QED
  <2>1. last - delta = p
    BY <1>0
  <2> QED BY <1>6, <1>7, <1>8, <1>9, <2>1 DEF Backward

LEMMA PayloadInv == \A o : Inv /\ Payload(o) => Inv'
<1> SUFFICES ASSUME NEW o, Inv, Payload(o) PROVE Inv'
  OBVIOUS
<1>0. Anchored /\ pc = "payload" /\ UNCHANGED <<tape, flb, last, at, delta, hidden>>
  BY DEF Payload, Anchored, walk
<1>1. faults' \in 0..MaxFaults
  BY FaultsBound DEF Payload, Inv, TypeOK
<1>2. pc' \in {"payload", "found"}
  BY <1>0 DEF Payload
<1>3. \/ UNCHANGED found
      \/ \E c : found' = [found EXCEPT !.cells = c]
      \/ \E c, n : found' = [found EXCEPT !.cells = c, !.next = n]
  BY DEF Payload
<1>4. found'.from = found.from /\
      found' = [id |-> found'.id, cells |-> found'.cells, len |-> found'.len,
                from |-> found'.from, next |-> found'.next]
  BY <1>3 DEF Inv, FoundType
<1>5. FoundType'
  BY <1>0, <1>4 DEF Inv, FoundType
<1>6. Probed' /\ Placed'
  BY <1>0, <1>2, <1>4 DEF Inv, Probed, Placed, NoMark, B
<1>7. delta' \in 0..(Reach + 1) /\ hidden' \in BOOLEAN
  BY <1>0 DEF Inv, TypeOK
<1> QED BY <1>0, <1>1, <1>2, <1>5, <1>6, <1>7, SearchStep

LEMMA ChainInv == \A o : Inv /\ Chain(o) => Inv'
<1> SUFFICES ASSUME NEW o, Inv, Chain(o) PROVE Inv'
  OBVIOUS
<1> DEFINE p == last - 1 - delta
           sm == LastOf(B(p).streams, SetMapIds)
<1>0. /\ Len(tape) \in Nat /\ Reach \in Nat /\ last \in 0..Len(tape) /\ delta \in Nat
      /\ delta <= Reach + 1 /\ hidden \in BOOLEAN /\ p = (last - delta) - 1 /\ p \in Int
      /\ Anchored /\ pc = "chain" /\ ChainAt = p
  BY TapeType, AccessAssumption DEF Chain, ChainAt, Inv, TypeOK, Learnt, Probed, Anchored
<1>1. faults' \in 0..MaxFaults
  BY FaultsBound DEF Chain, Missed, Inv, TypeOK
<1>2. UNCHANGED <<tape, flb, last, at>>
  BY DEF Chain, walk
<1>3. ~hidden => NoMark(last - delta)
  BY <1>0 DEF Inv, Probed
<1>4. ~hidden /\ B(p).k # "fm" => NoMark(p)
  BY <1>0, <1>3, FurtherMark
<1>5. \A a : NoMark(a)' = NoMark(a)
  BY <1>2 DEF B, NoMark
<1>6. CASE pc' = "none" /\ UNCHANGED <<delta, found, hidden>>
  <2>1. Probed' /\ Placed' /\ FoundType'
    BY <1>2, <1>6 DEF Inv, Probed, Placed, FoundType
  <2>2. delta' \in 0..(Reach + 1)
    BY <1>0, <1>6
  <2> QED BY <1>0, <1>1, <1>2, <1>6, <2>1, <2>2, SearchStep
<1>7. CASE delta <= Reach /\ p >= 0 /\ Missed(o, p) /\ UNCHANGED <<pc, found>>
  <2>1. delta' = delta + 1 /\ hidden' = (hidden \/ B(p).k = "fm")
    BY <1>7 DEF Missed, Further
  <2>2. (last - delta)' = p
    BY <1>0, <1>2, <2>1
  <2>3. Probed' /\ Placed' /\ FoundType'
    <3>1. ~hidden' => ~hidden /\ B(p).k # "fm"
      BY <2>1
    <3>2. ~hidden' => NoMark(last - delta)'
      BY <1>4, <1>5, <2>2, <3>1
    <3>3. pc' = "chain" /\ delta' \in Nat
      BY <1>0, <1>7, <2>1
    <3> QED BY <1>2, <1>7, <3>2, <3>3 DEF Inv, Probed, Placed, FoundType
  <2>4. delta' \in 0..(Reach + 1) /\ hidden' \in BOOLEAN /\ pc' = "chain"
    BY <1>0, <1>7, <2>1
  <2> QED BY <1>0, <1>1, <1>2, <2>3, <2>4, SearchStep
<1>8. CASE delta <= Reach /\ p >= 0 /\ ~Crosses(p) /\ Further /\ UNCHANGED <<pc, found, hidden>>
  <2>1. delta' = delta + 1 /\ B(p).k # "fm"
    BY <1>8 DEF Further, Crosses
  <2>2. (last - delta)' = p
    BY <1>0, <1>2, <2>1
  <2>3. Probed' /\ Placed' /\ FoundType'
    BY <1>0, <1>2, <1>4, <1>5, <1>8, <2>1, <2>2 DEF Inv, Probed, Placed, FoundType
  <2>4. delta' \in 0..(Reach + 1) /\ hidden' \in BOOLEAN /\ pc' = "chain"
    BY <1>0, <1>8, <2>1
  <2> QED BY <1>0, <1>1, <1>2, <2>3, <2>4, SearchStep
<1>9. CASE /\ delta <= Reach /\ p >= 0 /\ ~Crosses(p)
           /\ pc' = "found" /\ UNCHANGED <<delta, hidden>>
           /\ found' = [id |-> sm.id, cells |-> sm.cells, len |-> Len(sm.cells),
                        from |-> p, next |-> p + 1]
  <2> HIDE DEF sm
  <2>1. found'.from = p /\ p \in 0..(last - 1) /\ p \in -1..(Len(tape) - 1) /\ B(p).k # "fm"
    BY <1>0, <1>9 DEF Crosses
  <2>2. FoundType'
    BY <1>2, <1>9, <2>1 DEF FoundType
  <2>3. Probed' /\ Placed'
    BY <1>2, <1>4, <1>5, <1>9, <2>1 DEF Probed, Placed
  <2>4. delta' \in 0..(Reach + 1)
    BY <1>0, <1>9
  <2> QED BY <1>0, <1>1, <1>2, <1>9, <2>2, <2>3, <2>4, SearchStep
<1> HIDE DEF p
<1> QED
  BY <1>0, <1>6, <1>7, <1>8, <1>9 DEF Chain

-----------------------------------------------------------------------------
(* The walk leaves the search alone. *)
LEMMA WalkStep ==
  ASSUME Inv, UNCHANGED <<tape, search>>, faults' \in 0..MaxFaults,
         pc' \in {"idle", "capture"}, at' \in -1..(Len(tape) - 1)
  PROVE  Inv'
<1>1. TypeOK'
  BY DEF Inv, TypeOK, search
<1>2. Learnt' /\ Probed' /\ Placed' /\ FoundType'
  BY DEF Inv, Learnt, Probed, Placed, FoundType, Anchored, search
<1> QED BY <1>1, <1>2 DEF Inv

(* Some block is the first of those that qualify. *)
LEMMA LeastIs ==
  ASSUME NEW S \in SUBSET Nat, S # {}
  PROVE  Least(S) \in S
BY LeastNatural DEF Least

LEMMA WalkInv ==
  \A o : Inv /\ (ReachSetEnd \/ CaptureStream(o) \/ YieldSetEnd \/ AskCatalog) => Inv'
<1> SUFFICES ASSUME NEW o, Inv, ReachSetEnd \/ CaptureStream(o) \/ YieldSetEnd \/ AskCatalog
             PROVE  Inv'
  OBVIOUS
<1>1. CASE ReachSetEnd
  <2> DEFINE ahead == {p \in Esets : p > at}
  <2>1. ahead # {} /\ at' = Least(ahead) /\ pc' = "capture" /\ UNCHANGED <<tape, faults, search>>
    BY <1>1 DEF ReachSetEnd
  <2>2. ahead \subseteq 0..(Len(tape) - 1) /\ Len(tape) \in Nat
    BY TapeType DEF Esets, Inv
  <2> HIDE DEF ahead
  <2>3. at' \in ahead
    BY <2>1, <2>2, LeastIs
  <2>4. at' \in -1..(Len(tape) - 1)
    BY <2>2, <2>3
  <2> QED BY <2>1, <2>4, WalkStep DEF Inv, TypeOK
<1>2. CASE CaptureStream(o)
  <2>1. faults' \in 0..MaxFaults
    BY <1>2, FaultsBound DEF CaptureStream, Inv, TypeOK
  <2>2. pc' \in {"idle", "capture"} /\ UNCHANGED <<tape, search, at>>
    BY <1>2 DEF CaptureStream
  <2> QED BY <2>1, <2>2, WalkStep DEF Inv, TypeOK
<1>3. CASE YieldSetEnd
  <2>1. pc' = "idle" /\ UNCHANGED <<tape, search, at, faults>>
    BY <1>3 DEF YieldSetEnd
  <2> QED BY <2>1, WalkStep DEF Inv, TypeOK
<1>4. CASE AskCatalog
  <2>1. pc' = "idle" /\ UNCHANGED <<tape, search, at, faults>>
    BY <1>4 DEF AskCatalog
  <2> QED BY <2>1, WalkStep DEF Inv, TypeOK
<1> QED BY <1>1, <1>2, <1>3, <1>4

-----------------------------------------------------------------------------
LEMMA StepInv == Inv /\ [Next]_vars => Inv'
<1> SUFFICES ASSUME Inv, [Next]_vars PROVE Inv'
  OBVIOUS
<1>1. ASSUME NEW o, Search(o) PROVE Inv'
  BY <1>1, PrimeInv, LocateEOTMInv, BackwardInv, PayloadInv, ChainInv DEF Search
<1>2. ASSUME NEW o, ReachSetEnd \/ CaptureStream(o) \/ YieldSetEnd \/ AskCatalog PROVE Inv'
  BY <1>2, WalkInv
<1>3. CASE UNCHANGED vars
  BY <1>3 DEF vars, search, walk, Inv, TypeOK, Learnt, Probed, Placed, FoundType, Anchored,
              NoMark, B, Esets
<1> QED BY <1>1, <1>2, <1>3 DEF Next

THEOREM Invariant == Spec => []Inv
<1> QED BY InitInv, StepInv, PTL DEF Spec

(* Every probe, address and count stays within its bounds, whatever fails. *)
THEOREM TypeCorrect == Spec => []TypeOK
<1>1. Inv => TypeOK
  BY DEF Inv
<1> QED BY Invariant, <1>1, PTL

(* The ESET the EOTM led to is the last one. *)
LEMMA LastEsetIs ==
  ASSUME Inv, Anchored
  PROVE  /\ LastEset \in {last - 1, last} /\ last \in 0..Len(tape) /\ Len(tape) \in Nat
         /\ LastEset \in 0..(Len(tape) - 1) /\ B(LastEset).k = "eset"
<1>1. PICK e \in {last - 1, last} : e \in Esets /\ \A q \in Esets : q <= e
  BY DEF Inv, Learnt
<1>2. \A p \in Esets : p \in Int
  BY DEF Esets
<1>3. ASSUME NEW p \in Esets, \A q \in Esets : q <= p PROVE p = e
  BY <1>1, <1>2, <1>3
<1>4. LastEset = e
  BY <1>1, <1>3 DEF LastEset
<1>5. e \in 0..(Len(tape) - 1) /\ B(e).k = "eset"
  BY <1>1 DEF Esets
<1> QED BY <1>1, <1>4, <1>5, TapeType DEF Inv, Learnt

(* A set map that the search finds is in the recorded section of the last  *)
(* ESET, as long as no filemark was lost to a failure (ReadSetMapWithTape, *)
(* probeSetMapBackward, probeSetMapESETChain).                             *)
THEOREM FoundIsLastHolds == Spec => []FoundIsLast
<1>1. ASSUME Inv PROVE FoundIsLast
  <2>1. SUFFICES ASSUME pc = "found", ~hidden PROVE found.from \in Section(LastEset)
    BY DEF FoundIsLast
  <2>2. found.from \in 0..(last - 1) /\ NoMark(found.from)
    BY <1>1, <2>1 DEF Inv, Placed
  <2>3. /\ LastEset \in {last - 1, last} /\ last \in 0..Len(tape) /\ Len(tape) \in Nat
        /\ LastEset \in 0..(Len(tape) - 1) /\ B(LastEset).k = "eset"
    BY <1>1, <2>1, LastEsetIs DEF Anchored
  <2>4. ASSUME NEW r \in (found.from)..LastEset PROVE B(r).k # "fm"
    <3>1. r = LastEset \/ r \in (found.from)..(last - 1)
      BY <2>2, <2>3
    <3> QED BY <2>2, <2>3, <3>1 DEF NoMark
  <2>5. found.from \in 0..LastEset
    BY <2>2, <2>3
  <2> QED BY <2>4, <2>5 DEF Section
<1> QED BY Invariant, <1>1, PTL

-----------------------------------------------------------------------------
(* A search that ends with nothing. *)

(* No set map from a block boundary on is within reach of the last ESET,   *)
(* and one is attached to it that the chain probe has to come to.          *)
Absent == \A q \in Aligned(LastEset) : last - q > Reach
Reached == last = LastEset + 1 /\ Attached(LastEset)

(* None of the blocks from a on begins a set map. *)
NoMapFrom(a) == \A r \in a..(last - 1) : B(r).k # "map"

(* What the two probes have ruled out when nothing failed. *)
RuledOut ==
  faults = 0 =>
    /\ pc = "back" => NoMapFrom(last - delta + 1)
    /\ pc = "chain" => flb /\ Absent /\ (delta # 0 => ~Reached)
    /\ pc = "none" => NoneOnlyIfAbsent

(* The medium keeps what it holds. *)
LEMMA SameTape ==
  ASSUME tape' = tape, last' = last
  PROVE  /\ LastEset' = LastEset /\ Reached' = Reached /\ Absent' = Absent
         /\ \A a : NoMapFrom(a)' = NoMapFrom(a)
<1>1. Esets' = Esets /\ \A p : B(p)' = B(p)
  BY DEF Esets, B
<1>2. LastEset' = LastEset
  BY <1>1 DEF LastEset
<1>3. Aligned(LastEset)' = Aligned(LastEset)
  BY <1>2 DEF Aligned, Section, B
<1>4. Reached' = Reached
  BY <1>2 DEF Reached, Attached, B
<1>5. Absent' = Absent /\ \A a : NoMapFrom(a)' = NoMapFrom(a)
  BY <1>3 DEF Absent, NoMapFrom, B
<1> QED BY <1>2, <1>4, <1>5

(* Where the probe may not go on, it has passed all blocks in reach.       *)
LEMMA ProbeEnds ==
  ASSUME Inv, pc = "back", NoMapFrom(last - delta + 1),
         \/ delta > Reach
         \/ Crosses(last - delta)
  PROVE  Absent
<1>0. /\ last \in Nat /\ delta \in Nat /\ delta >= 1 /\ Reach \in Nat
      /\ LastEset \in {last - 1, last} /\ B(LastEset).k = "eset"
  BY AccessAssumption, LastEsetIs, TapeType
  DEF Inv, Learnt, Probed, Anchored
<1> SUFFICES ASSUME NEW q \in Aligned(LastEset) PROVE last - q > Reach
  BY DEF Absent
<1>1. /\ q \in 0..(last - 1) /\ B(q).k = "map"
      /\ \A r \in q..(last - 1) : B(r).k # "fm"
  <2>1. q \in 0..LastEset /\ B(q).k = "map" /\ \A r \in q..LastEset : B(r).k # "fm"
    BY DEF Aligned, Section
  <2>2. q # LastEset
    BY <1>0, <2>1
  <2>3. q \in 0..(last - 1) /\ \A r \in q..(last - 1) : r \in q..LastEset
    BY <1>0, <2>1, <2>2
  <2> QED BY <2>1, <2>3
<1>2. ~(q \in (last - delta + 1)..(last - 1))
  BY <1>1 DEF NoMapFrom
<1>3. q <= last - delta
  BY <1>0, <1>1, <1>2
<1>4. CASE delta > Reach
  BY <1>0, <1>1, <1>3, <1>4
<1>5. CASE Crosses(last - delta)
  <2>1. last - delta \in q..(last - 1)
    BY <1>0, <1>1, <1>3
  <2>2. B(last - delta).k # "fm" /\ last - delta >= 0
    BY <1>0, <1>1, <2>1
  <2> QED BY <1>0, <1>5, <2>2 DEF Crosses
<1> QED BY <1>4, <1>5

(* The backward probe rules out the blocks it passes. *)
LEMMA BackwardRules == \A o : Inv /\ RuledOut /\ Backward(o) => RuledOut'
<1> SUFFICES ASSUME NEW o, Inv, RuledOut, Backward(o), faults' = 0 PROVE RuledOut'
  BY DEF RuledOut
<1> DEFINE p == last - delta
<1>0. /\ pc = "back" /\ UNCHANGED <<tape, flb, last>> /\ flb \in BOOLEAN
      /\ last \in Int /\ delta \in Int
  BY DEF Backward, walk, Inv, TypeOK, Learnt
<1>1. faults = 0 /\ ~Breaks(o)
  BY DEF Backward, Missed, Works, Breaks, Inv, TypeOK
<1>2. NoMapFrom(p + 1)
  BY <1>0, <1>1 DEF RuledOut
<1>3. CASE TryChain /\ (delta > Reach \/ p < 0 \/ Crosses(p))
  <2>1. Absent
    BY <1>0, <1>2, <1>3, ProbeEnds DEF Crosses
  <2>2. pc' = "chain" => flb /\ delta' = 0
    BY <1>3 DEF TryChain
  <2>3. pc' # "back" /\ (pc' = "none" => ~flb)
    BY <1>3 DEF TryChain
  <2>4. Absent'
    BY <1>0, <2>1, SameTape
  <2> QED BY <1>0, <2>2, <2>3, <2>4 DEF RuledOut, NoneOnlyIfAbsent, Absent
<1>4. CASE ~Crosses(p) /\ B(p).k # "map" /\ Further /\ UNCHANGED pc
  <2>1. (last - delta + 1)' = p
    BY <1>0, <1>4 DEF Further
  <2>2. NoMapFrom(p)
    BY <1>0, <1>2, <1>4 DEF NoMapFrom
  <2>3. NoMapFrom(last - delta + 1)'
    BY <1>0, <2>1, <2>2, SameTape
  <2> QED BY <1>0, <1>4, <2>3 DEF RuledOut
<1>5. CASE pc' = "payload"
  BY <1>5 DEF RuledOut
<1> HIDE DEF p
<1>6. last - delta = p
  BY DEF p
<1> QED BY <1>1, <1>3, <1>4, <1>5, <1>6 DEF Backward, Missed

(* The chain probe rules out the last ESET with its first block, where the *)
(* EOTM names the one behind it.                                           *)
LEMMA ChainRules == \A o : Inv /\ RuledOut /\ Chain(o) => RuledOut'
<1> SUFFICES ASSUME NEW o, Inv, RuledOut, Chain(o), faults' = 0 PROVE RuledOut'
  BY DEF RuledOut
<1> DEFINE p == last - 1 - delta
           sm == LastOf(B(p).streams, SetMapIds)
<1>0. /\ pc = "chain" /\ UNCHANGED <<tape, flb, last>> /\ Reach \in Nat
      /\ last \in 0..Len(tape) /\ Len(tape) \in Nat /\ delta \in Nat
      /\ LastEset \in 0..(Len(tape) - 1) /\ B(LastEset).k = "eset" /\ ChainAt = p
  BY AccessAssumption, LastEsetIs, TapeType
  DEF Chain, ChainAt, walk, Inv, TypeOK, Learnt, Probed, Anchored
<1>1. faults = 0 /\ ~Breaks(o)
  BY DEF Chain, Missed, Works, Breaks, Inv, TypeOK
<1>2. flb /\ Absent /\ (delta # 0 => ~Reached)
  BY <1>0, <1>1 DEF RuledOut
<1>3. Absent' = Absent /\ Reached' = Reached /\ LastEset' = LastEset
  BY <1>0, SameTape
<1>4. delta = 0 /\ Reached => p = LastEset /\ ~(delta > Reach \/ p < 0) /\ ~Crosses(p) /\ B(p).k = "eset"
  BY <1>0 DEF Crosses, Reached
<1>5. CASE pc' = "none" /\ (delta > Reach \/ p < 0 \/ Crosses(p))
  <2>1. ~Reached
    BY <1>2, <1>4, <1>5
  <2>2. Absent' /\ ~Reached'
    BY <1>2, <1>3, <2>1
  <2> QED BY <1>5, <2>2 DEF RuledOut, NoneOnlyIfAbsent, Absent, Reached
<1>6. CASE /\ Further /\ UNCHANGED pc /\ ~(B(p).k = "eset" /\ B(p).sum /\ sm.cells # <<>>)
  <2>1. ~Reached
    BY <1>2, <1>4, <1>6 DEF Attached, Reached
  <2> QED BY <1>0, <1>2, <1>3, <1>6, <2>1 DEF RuledOut
<1>7. CASE pc' = "found"
  BY <1>7 DEF RuledOut
<1> HIDE DEF p
<1> QED BY <1>0, <1>1, <1>5, <1>6, <1>7 DEF Chain, Missed

(* Without a failure the search reports "no set map" only where the last   *)
(* set has no block-aligned one within reach of a probe, and none attached *)
(* to its ESET if the EOTM names the block behind that                     *)
(* (probeSetMapBackward, probeSetMapESETChain).                            *)
THEOREM NoneMeansAbsent == Spec => []NoneOnlyIfAbsent
<1>1. Init => RuledOut
  BY DEF Init, RuledOut
<1>2. Inv /\ RuledOut /\ [Next]_vars => RuledOut'
  <2> SUFFICES ASSUME Inv, RuledOut, [Next]_vars PROVE RuledOut'
    OBVIOUS
  <2>1. ASSUME NEW o, Prime(o) PROVE RuledOut'
    BY <2>1 DEF Prime, RuledOut
  <2>2. ASSUME NEW o, LocateEOTM(o) PROVE RuledOut'
    <3>1. CASE pc' = "none"
      <4>1. Works(o) /\ tape' = tape /\ (Len(tape) <= 2 \/ B(Len(tape) - 2).noEset)
        BY <2>2, <3>1 DEF LocateEOTM
      <4>2. Len(tape) \in Nat
        BY TapeType DEF Inv
      <4> QED BY <3>1, <4>1, <4>2 DEF RuledOut, NoneOnlyIfAbsent, ReportsNone, B
    <3>2. CASE pc' = "back"
      <4>1. delta' = 1
        BY <2>2, <3>2 DEF LocateEOTM
      <4>2. last' \in Int /\ last'..(last' - 1) = {}
        <5>1. Inv'
          BY <2>2, LocateEOTMInv
        <5>2. last' \in Int
          BY <5>1 DEF Inv, Learnt
        <5> QED BY <5>2, NothingBetween
      <4>3. (last - delta + 1)' = last'
        <5>1. \A n \in Int : n - 1 + 1 = n
          OBVIOUS
        <5> QED BY <4>1, <4>2, <5>1
      <4>4. NoMapFrom(last - delta + 1)'
        BY <4>2, <4>3 DEF NoMapFrom
      <4> QED BY <3>2, <4>4 DEF RuledOut
    <3>3. CASE pc' = "error"
      BY <3>3 DEF RuledOut
    <3> QED BY <2>2, <3>1, <3>2, <3>3 DEF LocateEOTM
  <2>3. ASSUME NEW o, Payload(o) PROVE RuledOut'
    <3>1. pc' \in {"payload", "found"}
      BY <2>3 DEF Payload
    <3> QED BY <3>1 DEF RuledOut
  <2>4. ASSUME NEW o, ReachSetEnd \/ CaptureStream(o) \/ YieldSetEnd \/ AskCatalog
        PROVE  RuledOut'
    <3>1. pc' \in {"idle", "capture"}
      BY <2>4 DEF ReachSetEnd, CaptureStream, YieldSetEnd, AskCatalog
    <3> QED BY <3>1 DEF RuledOut
  <2>5. CASE UNCHANGED vars
    <3>1. UNCHANGED <<tape, pc, faults, flb, last, delta>>
      BY <2>5 DEF vars, search
    <3>2. NoneOnlyIfAbsent' = NoneOnlyIfAbsent
      BY <3>1 DEF NoneOnlyIfAbsent, ReportsNone, Attached, B, Aligned, Section, LastEset, Esets
    <3> QED BY <3>1, <3>2, SameTape DEF RuledOut
  <2> QED
    BY <2>1, <2>2, <2>3, <2>4, <2>5, BackwardRules, ChainRules DEF Next, Search
<1>3. Inv /\ RuledOut => NoneOnlyIfAbsent
  BY DEF RuledOut, NoneOnlyIfAbsent, ReportsNone
<1> QED BY <1>1, <1>2, <1>3, Invariant, PTL DEF Spec

-----------------------------------------------------------------------------
(* The catalog a set is given. *)

(* The streams of the ESET that have been captured and have one of the     *)
(* ids, and the last of them.                                              *)
Captured(ids) == {i \in 1..(k - 1) : B(at).streams[i].id \in ids}
Final(j, ids) == j \in Captured(ids) /\ \A i \in Captured(ids) : i <= j

(* While an ESET is captured what is kept raw is the last stream of each   *)
(* kind, and no parsed catalog outlives a capture.                         *)
Capturing ==
  pc = "capture" =>
    /\ at \in 0..(Len(tape) - 1) /\ k \in 1..(Len(B(at).streams) + 1)
    /\ Captured(FddIds \cup SetMapIds) # {} => cached = NoCatalog
    /\ Captured(FddIds) # {} =>
         \E j \in Nat : Final(j, FddIds) /\ raw.fdd = B(at).streams[j].cells
    /\ Captured(SetMapIds) # {} =>
         \E j \in Nat : /\ Final(j, SetMapIds) /\ raw.map = B(at).streams[j].cells
                         /\ raw.id = B(at).streams[j].id

RawType == raw = [fdd |-> raw.fdd, map |-> raw.map, id |-> raw.id]
OwnInv == tape \in Tapes /\ RawType /\ OwnCatalog /\ Capturing

(* The last stream is the one LastOf returns. *)
LEMMA LastOfIs ==
  ASSUME NEW streams, NEW ids, NEW n \in Nat, DOMAIN streams = 1..n,
         NEW j \in 1..n, streams[j].id \in ids,
         \A i \in 1..n : streams[i].id \in ids => i <= j
  PROVE  LastOf(streams, ids) = streams[j]
<1> DEFINE hits == {i \in DOMAIN streams : streams[i].id \in ids}
<1>1. j \in hits /\ \A i \in hits : i <= j /\ i \in Int
  OBVIOUS
<1>2. ASSUME NEW m \in hits, \A i \in hits : i <= m PROVE m = j
  <2>1. m <= j /\ j <= m /\ m \in Int /\ j \in Int
    BY <1>1, <1>2
  <2> QED BY <2>1
<1> HIDE DEF hits
<1>3. (CHOOSE i \in hits : \A q \in hits : q <= i) = j
  BY <1>1, <1>2
<1>4. LastOf(streams, ids) = IF hits = {} THEN [id |-> "", cells |-> <<>>, rec |-> <<>>]
                             ELSE streams[CHOOSE i \in hits : \A q \in hits : q <= i]
  BY DEF LastOf, hits
<1> QED BY <1>1, <1>3, <1>4

(* Where there is none, LastOf returns nothing. *)
LEMMA LastOfNone ==
  ASSUME NEW streams, NEW ids, \A i \in DOMAIN streams : streams[i].id \notin ids
  PROVE  LastOf(streams, ids).cells = <<>>
  BY DEF LastOf

(* One more stream captured. *)
LEMMA CapturedMore ==
  ASSUME k \in Nat \ {0}, k' = k + 1, at' = at, tape' = tape, NEW ids
  PROVE  /\ B(at).streams[k].id \in ids =>
              /\ Captured(ids)' = Captured(ids) \cup {k}
              /\ \A j : j = k => Final(j, ids)'
         /\ B(at).streams[k].id \notin ids =>
              /\ Captured(ids)' = Captured(ids)
              /\ \A j : Final(j, ids)' = Final(j, ids)
<1>1. \A i : i \in 1..(k' - 1) <=> (i \in 1..(k - 1) \/ i = k)
  OBVIOUS
<1>2. \A q : B(q)' = B(q)
  BY DEF B
<1>3. Captured(ids)' = {i \in 1..(k' - 1) : B(at).streams[i].id \in ids}
  BY <1>2 DEF Captured, B
<1>4. CASE B(at).streams[k].id \in ids
  <2>1. Captured(ids)' = Captured(ids) \cup {k}
    BY <1>1, <1>3, <1>4 DEF Captured
  <2>2. \A i \in Captured(ids) : i <= k
    BY DEF Captured
  <2>3. \A j : j = k => Final(j, ids)'
    BY <2>1, <2>2 DEF Final
  <2> QED BY <1>4, <2>1, <2>3
<1>5. CASE B(at).streams[k].id \notin ids
  <2>1. Captured(ids)' = Captured(ids)
    BY <1>1, <1>3, <1>5 DEF Captured
  <2> QED BY <1>5, <2>1 DEF Final
<1> QED BY <1>4, <1>5

(* A stream captured is the last of its kind so far, and no catalog parsed *)
(* before outlives it.                                                     *)
LEMMA CaptureOwn ==
  ASSUME WellEncoded
  PROVE  \A o : OwnInv /\ CaptureStream(o) => OwnInv'
<1> SUFFICES ASSUME NEW o, OwnInv, CaptureStream(o) PROVE OwnInv'
  OBVIOUS
<1> DEFINE s == B(at).streams[k]
<1>1. pc = "capture" /\ UNCHANGED <<tape, at, given>> /\ k <= Len(B(at).streams)
  BY DEF CaptureStream
<1>2. tape' \in Tapes /\ OwnCatalog' /\ \A q : B(q)' = B(q)
  BY <1>1 DEF OwnInv, OwnCatalog, B
<1>3. CASE pc' = "idle" /\ UNCHANGED raw
  BY <1>2, <1>3 DEF OwnInv, Capturing, RawType
<1>4. /\ at \in 0..(Len(tape) - 1) /\ k \in 1..(Len(B(at).streams) + 1)
      /\ Captured(FddIds \cup SetMapIds) # {} => cached = NoCatalog
      /\ Captured(FddIds) # {} =>
           \E j \in Nat : Final(j, FddIds) /\ raw.fdd = B(at).streams[j].cells
      /\ Captured(SetMapIds) # {} =>
           \E j \in Nat : /\ Final(j, SetMapIds) /\ raw.map = B(at).streams[j].cells
                           /\ raw.id = B(at).streams[j].id
  BY <1>1 DEF OwnInv, Capturing
<1>5. Len(B(at).streams) \in Nat /\ k \in Nat \ {0}
  BY <1>4 DEF WellEncoded, OwnInv, B
<1>6. ASSUME pc' = "capture", k' = k + 1,
             s.id \in FddIds \cup SetMapIds => cached' = NoCatalog,
             s.id \notin FddIds \cup SetMapIds => cached' = cached,
             IF s.id \in FddIds THEN raw'.fdd = s.cells ELSE raw'.fdd = raw.fdd,
             IF s.id \in SetMapIds THEN raw'.map = s.cells /\ raw'.id = s.id
                                   ELSE raw'.map = raw.map /\ raw'.id = raw.id,
             RawType'
      PROVE  OwnInv'
  <2>1. at' \in 0..(Len(tape') - 1) /\ k' \in 1..(Len(B(at)'.streams) + 1)
    <3>1. B(at)' = B(at) /\ at' = at /\ tape' = tape
      BY <1>1 DEF B
    <3> QED BY <1>1, <1>4, <1>5, <1>6, <3>1
  <2>2. B(at)' = B(at)
    BY <1>1 DEF B
  <2>3. Captured(FddIds \cup SetMapIds)' # {} => cached' = NoCatalog
    BY <1>1, <1>4, <1>5, <1>6, CapturedMore
  <2>4. Captured(FddIds)' # {} =>
          \E j \in Nat : Final(j, FddIds)' /\ raw'.fdd = B(at).streams[j].cells
    <3>1. CASE s.id \in FddIds
      BY <1>1, <1>5, <1>6, <3>1, CapturedMore
    <3>2. CASE s.id \notin FddIds
      BY <1>1, <1>4, <1>5, <1>6, <3>2, CapturedMore
    <3> QED BY <3>1, <3>2
  <2>5. Captured(SetMapIds)' # {} =>
          \E j \in Nat : /\ Final(j, SetMapIds)' /\ raw'.map = B(at).streams[j].cells
                          /\ raw'.id = B(at).streams[j].id
    <3>1. CASE s.id \in SetMapIds
      BY <1>1, <1>5, <1>6, <3>1, CapturedMore
    <3>2. CASE s.id \notin SetMapIds
      BY <1>1, <1>4, <1>5, <1>6, <3>2, CapturedMore
    <3> QED BY <3>1, <3>2
  <2>6. Capturing'
    BY <2>1, <2>2, <2>3, <2>4, <2>5 DEF Capturing
  <2> QED BY <1>2, <1>6, <2>6 DEF OwnInv
<1>7. \A i : ~(i \in FddIds /\ i \in SetMapIds)
  BY DEF FddIds, SetMapIds
<1>8. RawType
  BY DEF OwnInv
<1>9. CASE /\ s.id \in FddIds /\ raw' = [raw EXCEPT !.fdd = s.cells]
           /\ cached' = NoCatalog /\ k' = k + 1 /\ UNCHANGED pc
  <2>1. raw' = [fdd |-> s.cells, map |-> raw.map, id |-> raw.id]
    BY <1>8, <1>9 DEF RawType
  <2>2. RawType' /\ raw'.fdd = s.cells /\ raw'.map = raw.map /\ raw'.id = raw.id
    BY <2>1 DEF RawType
  <2> QED BY <1>1, <1>6, <1>7, <1>9, <2>2
<1>10. CASE /\ s.id \in SetMapIds /\ raw' = [raw EXCEPT !.map = s.cells, !.id = s.id]
            /\ cached' = NoCatalog /\ k' = k + 1 /\ UNCHANGED pc
  <2>1. raw' = [fdd |-> raw.fdd, map |-> s.cells, id |-> s.id]
    BY <1>8, <1>10 DEF RawType
  <2>2. RawType' /\ raw'.fdd = raw.fdd /\ raw'.map = s.cells /\ raw'.id = s.id
    BY <2>1 DEF RawType
  <2> QED BY <1>1, <1>6, <1>7, <1>10, <2>2
<1>11. CASE s.id \notin FddIds \cup SetMapIds /\ k' = k + 1 /\ UNCHANGED <<pc, raw, cached>>
  BY <1>1, <1>6, <1>8, <1>11 DEF RawType
<1> QED BY <1>3, <1>9, <1>10, <1>11 DEF CaptureStream, Drop

(* With all streams captured, the last of a kind is the one kept raw. *)
LEMMA AllCaptured ==
  ASSUME NEW n \in Nat, n = Len(B(at).streams), DOMAIN B(at).streams = 1..n,
         k \in 1..(n + 1), k > n, NEW ids
  PROVE  /\ LastOf(B(at).streams, ids).cells # <<>> => Captured(ids) # {}
         /\ \A j \in Nat : Final(j, ids) => /\ LastOf(B(at).streams, ids) = B(at).streams[j]
                                           /\ j \in 1..n /\ B(at).streams[j].id \in ids
<1>1. k - 1 = n
  OBVIOUS
<1>2. Captured(ids) = {i \in 1..n : B(at).streams[i].id \in ids}
  BY <1>1 DEF Captured
<1>3. LastOf(B(at).streams, ids).cells # <<>> => Captured(ids) # {}
  BY <1>2, LastOfNone
<1>4. ASSUME NEW j \in Nat, Final(j, ids)
      PROVE  /\ LastOf(B(at).streams, ids) = B(at).streams[j]
             /\ j \in 1..n /\ B(at).streams[j].id \in ids
  <2>1. /\ j \in 1..n /\ B(at).streams[j].id \in ids
        /\ \A i \in 1..n : B(at).streams[i].id \in ids => i <= j
    BY <1>2, <1>4 DEF Final
  <2> DEFINE ss == B(at).streams
  <2> HIDE DEF ss
  <2>2. /\ DOMAIN ss = 1..n /\ ss[j].id \in ids
        /\ \A i \in 1..n : ss[i].id \in ids => i <= j
    BY <2>1 DEF ss
  <2>3. LastOf(ss, ids) = ss[j]
    BY <2>1, <2>2, LastOfIs
  <2> QED BY <2>1, <2>3 DEF ss
<1> QED BY <1>3, <1>4

(* A set's end is yielded with what its own streams hold. *)
LEMMA YieldOwn ==
  ASSUME WellEncoded, OwnInv, YieldSetEnd
  PROVE  OwnInv'
<1> DEFINE streams == B(at).streams
           n == Len(streams)
           fdd == LastOf(streams, FddIds)
           sm == LastOf(streams, SetMapIds)
<1>1. /\ pc = "capture" /\ k > n /\ pc' = "idle" /\ UNCHANGED <<tape, raw>>
      /\ given' = [at |-> at, cat |-> Catalog]
  BY DEF YieldSetEnd
<1>2. /\ at \in 0..(Len(tape) - 1) /\ k \in 1..(n + 1)
      /\ Captured(FddIds \cup SetMapIds) # {} => cached = NoCatalog
      /\ Captured(FddIds) # {} =>
           \E j \in Nat : Final(j, FddIds) /\ raw.fdd = streams[j].cells
      /\ Captured(SetMapIds) # {} =>
           \E j \in Nat : /\ Final(j, SetMapIds) /\ raw.map = streams[j].cells
                           /\ raw.id = streams[j].id
  BY <1>1 DEF OwnInv, Capturing
<1>3. n \in Nat /\ DOMAIN streams = 1..n /\ \A i \in 1..n : Encodes(streams[i])
  BY <1>2 DEF WellEncoded, OwnInv, B
<1>4. \A ids : /\ LastOf(streams, ids).cells # <<>> => Captured(ids) # {}
               /\ \A j \in Nat : Final(j, ids) => /\ LastOf(streams, ids) = streams[j]
                                                 /\ j \in 1..n /\ streams[j].id \in ids
  BY <1>1, <1>2, <1>3, AllCaptured
<1>5. Captured(FddIds) \cup Captured(SetMapIds) \subseteq Captured(FddIds \cup SetMapIds)
  BY DEF Captured
<1> HIDE DEF n
<1>6. ASSUME fdd.cells # <<>>
      PROVE  Catalog.fdd \o Catalog.be = fdd.rec /\ Catalog.rawFdd = fdd.cells
  <2>1. PICK j \in Nat : Final(j, FddIds) /\ raw.fdd = streams[j].cells
    BY <1>2, <1>4, <1>6
  <2>2. fdd = streams[j] /\ j \in 1..n /\ streams[j].id \in FddIds
    BY <1>4, <2>1
  <2>3. raw.fdd = fdd.cells /\ cached = NoCatalog
    BY <1>2, <1>4, <1>5, <1>6, <2>1, <2>2
  <2>4. Catalog = Parsed
    BY <1>6, <2>3 DEF Catalog
  <2>5. ParseFDD(fdd.cells) \o NodesOf(fdd.cells) = fdd.rec
    BY <1>3, <2>2 DEF Encodes
  <2> HIDE DEF fdd
  <2>6. /\ Parsed.fdd = ParseFDD(raw.fdd) /\ Parsed.rawFdd = raw.fdd
        /\ Parsed.be = NodesOf(raw.fdd)
    BY Zenon DEF Parsed, NodesOf
  <2> QED BY <2>3, <2>4, <2>5, <2>6
<1>7. ASSUME sm.cells # <<>> PROVE Catalog.map = sm.rec
  <2>1. PICK j \in Nat : /\ Final(j, SetMapIds) /\ raw.map = streams[j].cells
                         /\ raw.id = streams[j].id
    BY <1>2, <1>4, <1>7
  <2>2. sm = streams[j] /\ j \in 1..n /\ streams[j].id \in SetMapIds
    BY <1>4, <2>1
  <2>3. raw.map = sm.cells /\ raw.id = sm.id /\ cached = NoCatalog
    BY <1>2, <1>4, <1>5, <1>7, <2>1, <2>2
  <2>4. Catalog = Parsed
    BY <1>7, <2>3 DEF Catalog
  <2>5. ParseSetMap(sm.id, sm.cells) = sm.rec
    BY <1>3, <2>2 DEF Encodes
  <2> HIDE DEF sm
  <2>6. Parsed.map = ParseSetMap(raw.id, raw.map)
    BY DEF Parsed
  <2> QED BY <2>3, <2>4, <2>5, <2>6
<1>8. OwnCatalog'
  <2>1. B(given.at)' = B(at)
    BY <1>1 DEF B
  <2>2. given'.cat = Catalog
    BY <1>1
  <2> HIDE DEF fdd, sm
  <2>3. LastOf(B(given.at).streams, FddIds)' = fdd /\ LastOf(B(given.at).streams, SetMapIds)' = sm
    BY <2>1 DEF fdd, sm, LastOf, FddIds, SetMapIds
  <2> QED BY <1>6, <1>7, <2>2, <2>3 DEF OwnCatalog
<1> QED BY <1>1, <1>8 DEF OwnInv, Capturing, RawType

(* A set that recorded a file catalog or a set map is given its own, as    *)
(* recorded, whatever was parsed and cached before and whatever failed.    *)
THEOREM OwnCatalogHolds == ASSUME WellEncoded PROVE Spec => []OwnCatalog
<1>1. Init => OwnInv
  <2> SUFFICES ASSUME Init PROVE OwnInv
    OBVIOUS
  <2>1. RawType
    BY DEF Init, RawType, Nothing
  <2>2. given.at = -1
    BY DEF Init
  <2>3. OwnCatalog
    BY <2>2 DEF OwnCatalog
  <2> QED BY <2>1, <2>3 DEF Init, OwnInv, Capturing
<1>2. OwnInv /\ [Next]_vars => OwnInv'
  <2> SUFFICES ASSUME OwnInv, [Next]_vars PROVE OwnInv'
    OBVIOUS
  <2>a. ASSUME UNCHANGED <<tape, raw, given>>, pc' # "capture" PROVE OwnInv'
    BY <2>a DEF OwnInv, RawType, OwnCatalog, Capturing, B
  <2>1. ASSUME NEW o, Search(o) PROVE OwnInv'
    <3>1. UNCHANGED <<tape, raw, given>>
      BY <2>1 DEF Search, Prime, LocateEOTM, Backward, Payload, Chain, walk
    <3>2. pc' # "capture"
      BY <2>1 DEF Search, Prime, LocateEOTM, Backward, Payload, Chain, TryChain
    <3> QED BY <2>a, <3>1, <3>2
  <2>2. ASSUME NEW o, CaptureStream(o) PROVE OwnInv'
    BY <2>2, CaptureOwn
  <2>3. CASE ReachSetEnd
    <3> DEFINE ahead == {p \in Esets : p > at}
    <3>1. ahead # {} /\ at' = Least(ahead) /\ k' = 1 /\ UNCHANGED <<tape, raw, cached, given>>
      BY <2>3 DEF ReachSetEnd
    <3>2. ahead \subseteq 0..(Len(tape) - 1) /\ Len(tape) \in Nat
      BY TapeType DEF Esets, OwnInv
    <3> HIDE DEF ahead
    <3>3. at' \in 0..(Len(tape) - 1)
      <4>1. ahead \in SUBSET Nat
        BY <3>2
      <4>2. Least(ahead) \in ahead
        BY <3>1, <4>1, LeastIs
      <4> QED BY <3>1, <3>2, <4>2
    <3>4. Len(B(at)'.streams) \in Nat
      BY <3>1, <3>3 DEF WellEncoded, OwnInv, B
    <3>5. \A ids : Captured(ids)' = {}
      BY <3>1 DEF Captured
    <3>6. Capturing'
      BY <3>1, <3>3, <3>4, <3>5 DEF Capturing
    <3> QED BY <3>1, <3>6 DEF OwnInv, RawType, OwnCatalog, B
  <2>4. CASE YieldSetEnd
    BY <2>4, YieldOwn
  <2>5. CASE AskCatalog
    BY <2>5, <2>a DEF AskCatalog
  <2>6. CASE UNCHANGED vars
    BY <2>6 DEF vars, walk, OwnInv, RawType, OwnCatalog, Capturing, Captured, Final, B
  <2> QED BY <2>1, <2>2, <2>3, <2>4, <2>5, <2>6 DEF Next
<1>3. OwnInv => OwnCatalog
  BY DEF OwnInv
<1> QED BY <1>1, <1>2, <1>3, PTL DEF Spec

-----------------------------------------------------------------------------
(* The directory tree of a Backup Exec catalog.                            *)

(* The way from a root down to a node.                                     *)
Lineages(nodes) ==
  {p \in Seq(1..Len(nodes)) :
     /\ p # <<>> /\ nodes[p[1]] = Root
     /\ \A q \in 1..(Len(p) - 1) : nodes[p[q + 1]] = p[q] - 1}
LastOfPath(p) == p[Len(p)]

LEMMA AppendedLast ==
  ASSUME NEW S, NEW g \in Seq(S), g # <<>>, NEW c \in S
  PROVE  LastOfPath(Append(g, c)) = c /\ LastOfPath(g) \in S
BY DEF LastOfPath

LEMMA ChildIs ==
  ASSUME NEW nodes \in NodeLists, NEW i \in 1..Len(nodes), NEW p \in 0..Len(nodes)
  PROVE  ParentOf(nodes, i) = p <=> (IF p = 0 THEN nodes[i] = Root ELSE nodes[i] = p - 1)
BY DEF NodeLists, ParentOf, Root

(* A way down goes on to a child, and comes from its parent.               *)
LEMMA LineageExtended ==
  ASSUME NEW nodes \in NodeLists, NEW p \in Lineages(nodes), NEW c \in 1..Len(nodes),
         nodes[c] = LastOfPath(p) - 1
  PROVE  Append(p, c) \in Lineages(nodes)
<1> DEFINE n == Len(nodes)
<1>1. p \in Seq(1..n) /\ p # <<>> /\ nodes[p[1]] = Root /\ Len(p) \in Nat /\ Len(p) >= 1
      /\ \A q \in 1..(Len(p) - 1) : nodes[p[q + 1]] = p[q] - 1
  BY DEF Lineages
<1> DEFINE a == Append(p, c)
<1>2. a \in Seq(1..n) /\ Len(a) = Len(p) + 1 /\ a[Len(p) + 1] = c
      /\ \A q \in 1..Len(p) : a[q] = p[q]
  BY <1>1
<1>3. ASSUME NEW q \in 1..(Len(a) - 1) PROVE nodes[a[q + 1]] = a[q] - 1
  <2>1. CASE q = Len(p)
    BY <1>2, <2>1 DEF LastOfPath
  <2>2. CASE q < Len(p)
    <3>1. q + 1 \in 1..Len(p) /\ q \in 1..(Len(p) - 1)
      BY <1>1, <1>2, <2>2
    <3> HIDE DEF a
    <3>2. a[q + 1] = p[q + 1] /\ a[q] = p[q]
      BY <1>1, <1>2, <3>1
    <3>3. nodes[p[q + 1]] = p[q] - 1
      BY <1>1, <3>1
    <3>4. QED
      BY <3>2, <3>3
  <2>3. QED
    BY <1>1, <1>2, <2>1, <2>2
<1>4. a # <<>> /\ nodes[a[1]] = Root
  BY <1>1, <1>2
<1> HIDE DEF a
<1>5. a \in Lineages(nodes)
  BY <1>2, <1>3, <1>4 DEF Lineages
<1>6. QED
  BY <1>5 DEF a

LEMMA LineageShortened ==
  ASSUME NEW nodes \in NodeLists, NEW p \in Lineages(nodes), Len(p) # 1
  PROVE  \E f \in Lineages(nodes), c \in 1..Len(nodes) :
           p = Append(f, c) /\ Len(f) = Len(p) - 1 /\ nodes[c] = LastOfPath(f) - 1
<1> DEFINE n == Len(nodes)
           l == Len(p) - 1
           f == SubSeq(p, 1, l)
           c == p[Len(p)]
<1>1. p \in Seq(1..n) /\ p # <<>> /\ nodes[p[1]] = Root /\ Len(p) \in Nat /\ l >= 1 /\ l \in Nat
      /\ \A q \in 1..l : nodes[p[q + 1]] = p[q] - 1
  <2>1. p \in Seq(1..n) /\ p # <<>> /\ nodes[p[1]] = Root
        /\ \A q \in 1..l : nodes[p[q + 1]] = p[q] - 1
    BY Zenon DEF Lineages
  <2>2. Len(p) \in Nat /\ l >= 1 /\ l \in Nat
    <3> HIDE DEF n
    <3>1. Len(p) \in Nat /\ Len(p) # 0
      BY <2>1
    <3>2. \A z \in Nat : z # 0 /\ z # 1 => z - 1 \in Nat /\ z - 1 >= 1
      OBVIOUS
    <3>3. QED
      BY <3>1, <3>2, Zenon
  <2>3. QED
    BY <2>1, <2>2, Zenon
<1>2. f \in Seq(1..n) /\ Len(f) = l /\ \A q \in 1..l : f[q] = p[q]
  BY SMTT(30), <1>1
<1>3. c \in 1..n /\ nodes[c] = p[l] - 1
  BY SMTT(30), <1>1
<1>4. Append(f, c) \in Seq(1..n) /\ Len(Append(f, c)) = Len(p)
      /\ \A q \in 1..Len(p) : Append(f, c)[q] = p[q]
  <2> HIDE DEF f, c
  <2>1. Append(f, c) \in Seq(1..n) /\ Len(Append(f, c)) = l + 1 /\ l + 1 = Len(p)
        /\ Append(f, c)[l + 1] = c /\ \A q \in 1..l : Append(f, c)[q] = f[q]
    BY SMTT(30), <1>1, <1>2, <1>3
  <2>2. p[l + 1] = c
    BY <1>1 DEF c
  <2>3. ASSUME NEW q \in 1..Len(p) PROVE Append(f, c)[q] = p[q]
    <3>1. CASE q = l + 1
      BY <2>1, <2>2, <3>1
    <3>2. CASE q # l + 1
      <4>1. q \in 1..l
        <5> HIDE DEF l, n
        <5>1. QED
          BY <1>1, <2>1, <3>2
      <4>2. QED
        BY <1>2, <2>1, <4>1, Zenon
    <3>3. QED
      BY <3>1, <3>2
  <2>4. QED
    BY <2>1, <2>3, Zenon
<1>5. p = Append(f, c)
  <2> HIDE DEF f, c
  <2>1. QED
    BY <1>1, <1>4, SeqEqual
<1> HIDE DEF f, c
<1>6. f \in Lineages(nodes)
  <2>1. f # <<>> /\ nodes[f[1]] = Root
    BY <1>1, <1>2
  <2>2. ASSUME NEW q \in 1..(Len(f) - 1) PROVE nodes[f[q + 1]] = f[q] - 1
    <3>1. q \in 1..l /\ q + 1 \in 1..l
      BY <1>1, <1>2
    <3>2. QED
      BY <1>1, <1>2, <3>1
  <2>3. QED
    BY <1>2, <2>1, <2>2 DEF Lineages
<1>7. LastOfPath(f) = p[l]
  <2>1. l \in 1..l
    BY <1>1
  <2> HIDE DEF l
  <2>2. QED
    BY <1>2, <2>1 DEF LastOfPath
<1>8. QED
  BY <1>2, <1>3, <1>5, <1>6, <1>7

(* No node is twice on a way, so that it is no longer than the list.       *)
LEMMA LineageBound ==
  ASSUME NEW nodes \in NodeLists, NEW p \in Lineages(nodes)
  PROVE  Len(p) \in 1..Len(nodes)
<1> DEFINE n == Len(nodes)
           l == Len(p)
<1>1. p \in Seq(1..n) /\ nodes[p[1]] = Root /\ l \in Nat /\ l >= 1 /\ n \in Nat
      /\ p \in [1..l -> 1..n]
      /\ \A q \in 1..(l - 1) : nodes[p[q + 1]] = p[q] - 1
  BY DEF Lineages, NodeLists
<1> DEFINE T == {a \in 1..l : \E b \in 1..l : b > a /\ p[a] = p[b]}
<1>2. T = {}
  <2>1. SUFFICES ASSUME T # {} PROVE FALSE
    OBVIOUS
  <2>2. T \in SUBSET Nat
    OBVIOUS
  <2>3. PICK a \in T : \A y \in T : a <= y
    <3> HIDE DEF T
    <3>1. QED
      BY <2>1, <2>2, LeastNatural
  <2>4. PICK b \in 1..l : b > a /\ p[a] = p[b]
    OBVIOUS
  <2>5. a \in 1..l /\ b - 1 \in 1..(l - 1) /\ p[b - 1] \in 1..n
    BY <1>1, <2>4
  <2>6. nodes[p[b]] = p[b - 1] - 1
    <3>1. (b - 1) + 1 = b
      BY <2>4
    <3>2. QED
      BY <1>1, <2>5, <3>1
  <2>7. CASE a = 1
    BY <1>1, <2>4, <2>5, <2>6, <2>7 DEF Root
  <2>8. CASE a > 1
    <3>1. a - 1 \in 1..(l - 1) /\ (a - 1) + 1 = a
      BY <1>1, <2>5, <2>8
    <3>2. nodes[p[a]] = p[a - 1] - 1 /\ p[a - 1] \in 1..n
      BY <1>1, <3>1
    <3>3. p[a - 1] = p[b - 1]
      BY <2>4, <2>5, <2>6, <3>2
    <3>4. a - 1 \in T
      BY <2>4, <2>5, <3>1, <3>3
    <3>5. QED
      BY <2>3, <2>5, <3>1, <3>4
  <2>9. QED
    BY <2>5, <2>7, <2>8
<1>3. l <= n
  <2>1. SUFFICES ASSUME l > n PROVE FALSE
    BY <1>1
  <2>2. IsFiniteSet(1..l) /\ Cardinality(1..l) = l /\ IsFiniteSet(1..n) /\ Cardinality(1..n) = n
    <3> HIDE DEF n, l
    <3>1. \A z \in Nat : IsFiniteSet(1..z) /\ Cardinality(1..z) = z
      BY FS_Interval
    <3>2. QED
      BY <1>1, <3>1, Zenon
  <2>3. PICK a, b \in 1..l : a # b /\ p[a] = p[b]
    <3> HIDE DEF n, l
    <3>1. Cardinality(1..n) < Cardinality(1..l)
      BY <1>1, <2>1, <2>2
    <3>2. QED
      BY ZenonT(30), <1>1, <2>2, <3>1, FS_PigeonHole
  <2>4. a \in T \/ b \in T
    BY <2>3
  <2>5. QED
    BY <1>2, <2>4
<1>4. QED
  BY <1>1, <1>3

-----------------------------------------------------------------------------
(* The first d levels of the tree are the ways of up to d nodes.           *)
LEMMA TreePathsIs == ASSUME NEW nodes \in NodeLists PROVE TreePaths(nodes) = Lineages(nodes)
<1> DEFINE n == Len(nodes)
           S == SUBSET Seq(1..n)
           children(q) == {i \in 1..n : ParentOf(nodes, i) = q}
           roots == {<<i>> : i \in children(0)}
           under(X, d) == UNION {{Append(p, c) : c \in children(p[d - 1])} : p \in X}
           down == CHOOSE down : down = [d \in 1..n |-> IF d = 1 THEN roots ELSE under(down[d - 1], d)]
<1>1. TreePaths(nodes) = UNION {down[d] : d \in 1..n}
  BY Zenon DEF TreePaths
<1>2. n \in Nat
  BY DEF NodeLists
<1>3. roots \in S
  <2>1. \A i \in 1..n : <<i>> \in Seq(1..n)
    <3> HIDE DEF n
    <3>1. QED
      OBVIOUS
  <2>2. QED
    BY <2>1
<1>4. ASSUME NEW d \in 1..n, d # 1, NEW X \in S PROVE under(X, d) \in S
  <2>1. ASSUME NEW p \in X, NEW c \in children(p[d - 1]) PROVE Append(p, c) \in Seq(1..n)
    OBVIOUS
  <2> HIDE DEF children, n
  <2>2. ASSUME NEW x \in under(X, d) PROVE x \in Seq(1..n)
    <3>1. PICK p \in X : x \in {Append(p, c) : c \in children(p[d - 1])}
      OBVIOUS
    <3>2. QED
      BY <2>1, <3>1
  <2> HIDE DEF under
  <2>3. QED
    BY <2>2
<1>5. \E f : f = [d \in 1..n |-> IF d = 1 THEN roots ELSE under(f[d - 1], d)]
  <2> DEFINE D == 1..n
             ends == {d \in D : d = 1}
             m == [d \in D |-> d]
             prev == [d \in D \ ends |-> d - 1]
             base == [d \in ends |-> roots]
             comb == [d \in D \ ends |-> [X \in S |-> under(X, d)]]
  <2>1. m \in [D -> Nat] /\ prev \in [D \ ends -> D] /\ ends \in SUBSET D
    BY <1>2
  <2>2. base \in [ends -> S]
    <3> HIDE DEF S, roots
    <3>1. QED
      BY <1>3
  <2>3. comb \in [D \ ends -> [S -> S]]
    <3> HIDE DEF S, under
    <3>1. QED
      BY <1>4
  <2>4. \A d \in D \ ends : m[prev[d]] < m[d]
    BY <1>2
  <2>5. PICK f \in [D -> S] : Recursive(f, D, ends, prev, base, comb)
    <3> HIDE DEF D, S, m, ends, prev, base, comb
    <3>1. QED
      BY <2>1, <2>2, <2>3, <2>4, RecursionExists, Zenon
  <2>6. ASSUME NEW d \in D PROVE f[d] = IF d = 1 THEN roots ELSE under(f[d - 1], d)
    <3> HIDE DEF S, roots, under
    <3>1. CASE d = 1
      <4>1. d \in ends
        BY <3>1
      <4>2. f[d] = base[d]
        BY <2>5, <4>1 DEF Recursive
      <4>3. QED
        BY <3>1, <4>1, <4>2
    <3>2. CASE d # 1
      <4>1. d \in D \ ends /\ prev[d] = d - 1 /\ f[prev[d]] \in S
        BY <2>1, <2>5, <3>2
      <4>2. f[d] = comb[d][f[prev[d]]]
        BY <2>5, <4>1 DEF Recursive
      <4>3. QED
        BY <3>2, <4>1, <4>2
    <3>3. QED
      BY <3>1, <3>2
  <2>7. f = [d \in D |-> IF d = 1 THEN roots ELSE under(f[d - 1], d)]
    <3> HIDE DEF S, roots, under
    <3>1. QED
      BY <2>5, <2>6
  <2>8. QED
    BY <2>7, Zenon
<1>6. down = [d \in 1..n |-> IF d = 1 THEN roots ELSE under(down[d - 1], d)]
  BY <1>5, Zenon
<1> HIDE DEF down, S
<1>7. ASSUME NEW d \in 1..n PROVE down[d] = IF d = 1 THEN roots ELSE under(down[d - 1], d)
  <2> HIDE DEF roots, under
  <2>1. QED
    BY <1>6
<1> DEFINE Level(d) == {p \in Lineages(nodes) : Len(p) = d}
           Done == {d \in Nat : d + 1 \in 1..n => down[d + 1] = Level(d + 1)}
<1>8. \A i \in 1..n, q \in 0..n :
        i \in children(q) <=> (IF q = 0 THEN nodes[i] = Root ELSE nodes[i] = q - 1)
  BY ChildIs
<1>9. roots = Level(1)
  <2>1. ASSUME NEW p \in roots PROVE p \in Level(1)
    <3>1. PICK i \in 1..n : p = <<i>> /\ nodes[i] = Root
      BY <1>2, <1>8
    <3>2. QED
      BY <3>1 DEF Lineages
  <2>2. ASSUME NEW p \in Level(1) PROVE p \in roots
    <3>1. p \in Seq(1..n) /\ Len(p) = 1 /\ nodes[p[1]] = Root
      BY DEF Lineages
    <3>2. p[1] \in children(0) /\ p = <<p[1]>>
      BY SMTT(30), <1>2, <1>8, <3>1
    <3> HIDE DEF children
    <3>3. QED
      BY <3>2
  <2>3. QED
    BY <2>1, <2>2
<1>10. ASSUME NEW d \in 2..n PROVE under(Level(d - 1), d) = Level(d)
  <2>1. ASSUME NEW x \in under(Level(d - 1), d) PROVE x \in Level(d)
    <3>1. PICK p \in Level(d - 1) : \E c \in children(p[d - 1]) : x = Append(p, c)
      <4> HIDE DEF children, Level
      <4>1. QED
        OBVIOUS
    <3>2. PICK c \in children(p[d - 1]) : x = Append(p, c)
      BY <3>1
    <3>3. p \in Lineages(nodes) /\ Len(p) = d - 1 /\ p \in Seq(1..n) /\ p[d - 1] \in 1..n
      BY DEF Lineages
    <3>4. c \in 1..n /\ nodes[c] = LastOfPath(p) - 1
      BY <1>2, <1>8, <3>3 DEF LastOfPath
    <3>5. x \in Lineages(nodes) /\ Len(x) = d
      BY <3>2, <3>3, <3>4, LineageExtended
    <3>6. QED
      BY <3>5
  <2>2. ASSUME NEW x \in Level(d) PROVE x \in under(Level(d - 1), d)
    <3>1. PICK p \in Lineages(nodes), c \in 1..n :
            x = Append(p, c) /\ Len(p) = Len(x) - 1 /\ nodes[c] = LastOfPath(p) - 1
      BY LineageShortened
    <3>2. p \in Level(d - 1) /\ p \in Seq(1..n) /\ LastOfPath(p) = p[d - 1] /\ p[d - 1] \in 1..n
      BY <3>1 DEF Lineages, LastOfPath
    <3>3. c \in children(p[d - 1])
      BY <1>2, <1>8, <3>1, <3>2
    <3> HIDE DEF children, Level
    <3>4. x \in {Append(p, b) : b \in children(p[d - 1])}
      BY <3>1, <3>3
    <3>5. QED
      BY <3>2, <3>4
  <2>3. QED
    BY <2>1, <2>2
<1>11. Done = Nat
  <2>1. 0 \in Done
    <3> HIDE DEF roots, under, Level
    <3>1. QED
      BY <1>7, <1>9
  <2>2. ASSUME NEW d \in Done PROVE d + 1 \in Done
    <3> HIDE DEF roots, under, Level
    <3>1. SUFFICES ASSUME d + 2 \in 1..n PROVE down[d + 2] = Level(d + 2)
      OBVIOUS
    <3>2. down[d + 1] = Level(d + 1) /\ d + 2 # 1 /\ (d + 2) - 1 = d + 1 /\ d + 2 \in 2..n
      BY <1>2, <3>1
    <3>3. down[d + 2] = under(down[d + 1], d + 2)
      BY <1>7, <3>1, <3>2
    <3>4. QED
      BY <1>10, <3>2, <3>3
  <2> HIDE DEF Done
  <2>3. Done \in SUBSET Nat
    BY DEF Done
  <2>4. QED
    BY <2>1, <2>2, <2>3, NaturalInduction
<1>12. ASSUME NEW d \in 1..n PROVE down[d] = Level(d)
  <2>1. d - 1 \in Nat /\ (d - 1) + 1 = d
    BY <1>2
  <2>2. d - 1 \in Done
    <3> HIDE DEF Done
    <3>1. QED
      BY <1>11, <2>1
  <2> HIDE DEF Level
  <2>3. QED
    BY <2>1, <2>2
<1>13. \A p \in Lineages(nodes) : Len(p) \in 1..n
  BY LineageBound
<1>14. UNION {down[d] : d \in 1..n} = Lineages(nodes)
  BY <1>12, <1>13
<1>15. QED
  BY <1>1, <1>14
-----------------------------------------------------------------------------
(* Going up from a node finds the way down to it, if there is one.         *)
LEMMA AncestryIs ==
  ASSUME NEW nodes \in NodeLists, NEW i \in 1..Len(nodes)
  PROVE  /\ Ancestry(nodes, i) # <<>> =>
              Ancestry(nodes, i) \in Lineages(nodes) /\ LastOfPath(Ancestry(nodes, i)) = i
         /\ \A p \in Lineages(nodes) : LastOfPath(p) = i => Ancestry(nodes, i) = p
<1> DEFINE n == Len(nodes)
           S == [1..n -> Seq(1..n)]
           none == [j \in 1..n |-> IF nodes[j] = Root THEN <<j>> ELSE <<>>]
           up(g) == [j \in 1..n |->
                       IF nodes[j] = Root THEN <<j>>
                       ELSE LET a == g[nodes[j] + 1] IN IF a = <<>> THEN <<>> ELSE Append(a, j)]
           row(g, d) == [j \in 1..n |->
                          IF nodes[j] = Root THEN <<j>>
                          ELSE IF d = 0 THEN <<>>
                          ELSE LET a == g[nodes[j] + 1] IN IF a = <<>> THEN <<>> ELSE Append(a, j)]
           above == CHOOSE above : above = [d \in 0..n |-> row(above[d - 1], d)]
<1>1. Ancestry(nodes, i) = above[n][i]
  BY Zenon DEF Ancestry
<1>2. n \in Nat /\ \A j \in 1..n : nodes[j] # Root => nodes[j] \in 0..(n - 1) /\ nodes[j] + 1 \in 1..n
  BY DEF NodeLists
<1>3. none \in S
  <2>1. \A j \in 1..n : <<j>> \in Seq(1..n) /\ <<>> \in Seq(1..n)
    <3> HIDE DEF n
    <3>1. QED
      OBVIOUS
  <2>2. QED
    BY <2>1
<1>4. ASSUME NEW g \in S PROVE up(g) \in S
  <2>1. ASSUME NEW j \in 1..n PROVE up(g)[j] \in Seq(1..n)
    <3> DEFINE a == g[nodes[j] + 1]
    <3>1. up(g)[j] = IF nodes[j] = Root THEN <<j>> ELSE IF a = <<>> THEN <<>> ELSE Append(a, j)
      OBVIOUS
    <3>2. nodes[j] # Root => a \in Seq(1..n)
      BY <1>2
    <3> HIDE DEF a, up
    <3>3. /\ <<j>> \in Seq(1..n) /\ <<>> \in Seq(1..n)
          /\ a \in Seq(1..n) => Append(a, j) \in Seq(1..n)
      <4> HIDE DEF n
      <4>1. QED
        OBVIOUS
    <3>4. QED
      BY <3>1, <3>2, <3>3, Zenon
  <2>2. QED
    BY <2>1
<1>5. PICK f \in [0..n -> S] : f[0] = none /\ \A d \in 1..n : f[d] = up(f[d - 1])
  <2> DEFINE step == [d \in 1..n |-> [g \in S |-> up(g)]]
  <2>1. step \in [1..n -> [S -> S]]
    <3> HIDE DEF S, up
    <3>1. QED
      BY <1>4
  <2>2. \E f \in [0..n -> S] : Counts(f, n, none, step)
    <3> HIDE DEF n, S, none, step
    <3>1. QED
      BY <1>2, <1>3, <2>1, CountingExists, Zenon
  <2>3. PICK f \in [0..n -> S] : Counts(f, n, none, step)
    BY <2>2
  <2> HIDE DEF S, up, none
  <2>4. f[0] = none
    BY <2>3 DEF Counts
  <2>5. ASSUME NEW d \in 1..n PROVE f[d] = up(f[d - 1])
    <3>1. d - 1 \in 0..n
      BY <1>2
    <3>2. f[d - 1] \in S
      BY <2>3, <3>1
    <3>3. f[d] = step[d][f[d - 1]]
      BY <2>3 DEF Counts
    <3>4. QED
      BY <3>2, <3>3
  <2>6. QED
    BY <2>4, <2>5
<1>6. f = [d \in 0..n |-> row(f[d - 1], d)]
  <2>1. ASSUME NEW d \in 0..n PROVE f[d] = row(f[d - 1], d)
    <3>1. CASE d = 0
      BY <1>5, <3>1
    <3>2. CASE d # 0
      <4>1. d \in 1..n /\ f[d] = up(f[d - 1])
        <5>1. d \in 1..n
          BY <1>2, <3>2
        <5> HIDE DEF up
        <5>2. QED
          BY <1>5, <5>1
      <4>2. \A g : up(g) = row(g, d)
        BY <3>2
      <4> HIDE DEF up, row
      <4>3. QED
        BY <4>1, <4>2
    <3>3. QED
      BY <3>1, <3>2
  <2> HIDE DEF S, row
  <2>2. QED
    BY <1>5, <2>1
<1>7. above = [d \in 0..n |-> row(above[d - 1], d)]
  <2> HIDE DEF row
  <2>1. QED
    BY <1>6, Zenon
<1> HIDE DEF above
<1>8. ASSUME NEW d \in 0..n, NEW j \in 1..n
      PROVE  above[d][j] = IF nodes[j] = Root THEN <<j>>
                           ELSE IF d = 0 THEN <<>>
                           ELSE LET a == above[d - 1][nodes[j] + 1]
                                IN  IF a = <<>> THEN <<>> ELSE Append(a, j)
  <2>1. above[d] = row(above[d - 1], d)
    <3> HIDE DEF row
    <3>1. QED
      BY <1>7
  <2>2. QED
    BY <2>1
<1> DEFINE Finds(d) ==
             \A j \in 1..n :
               /\ above[d][j] # <<>> => above[d][j] \in Lineages(nodes) /\ LastOfPath(above[d][j]) = j
               /\ \A p \in Lineages(nodes) : LastOfPath(p) = j /\ Len(p) <= d + 1 => above[d][j] = p
           Done == {d \in Nat : d <= n => Finds(d)}
<1>9. ASSUME NEW j \in 1..n, nodes[j] = Root
      PROVE  /\ <<j>> \in Lineages(nodes) /\ LastOfPath(<<j>>) = j
             /\ \A p \in Lineages(nodes) : LastOfPath(p) = j => p = <<j>>
  <2>1. <<j>> \in Lineages(nodes) /\ LastOfPath(<<j>>) = j
    BY <1>2, <1>9 DEF Lineages, LastOfPath
  <2>2. ASSUME NEW p \in Lineages(nodes), LastOfPath(p) = j PROVE p = <<j>>
    <3>1. Len(p) = 1
      <4>1. SUFFICES ASSUME Len(p) # 1 PROVE FALSE
        OBVIOUS
      <4>2. PICK g \in Lineages(nodes), c \in 1..Len(nodes) :
              p = Append(g, c) /\ Len(g) = Len(p) - 1 /\ nodes[c] = LastOfPath(g) - 1
        BY <4>1, LineageShortened
      <4>3. g \in Seq(1..n) /\ g # <<>>
        BY DEF Lineages
      <4>4. LastOfPath(p) = c /\ LastOfPath(g) \in 1..n
        BY <4>2, <4>3, AppendedLast
      <4>5. QED
        BY <1>9, <2>2, <4>2, <4>4 DEF Root
    <3>2. p \in Seq(1..n)
      BY DEF Lineages
    <3> HIDE DEF n
    <3>3. QED
      BY <2>2, <3>1, <3>2 DEF LastOfPath
  <2>3. QED
    BY <2>1, <2>2
<1>10. ASSUME NEW j \in 1..n, nodes[j] # Root, NEW p \in Lineages(nodes), LastOfPath(p) = j
       PROVE  \E g \in Lineages(nodes) :
                p = Append(g, j) /\ Len(g) = Len(p) - 1 /\ LastOfPath(g) = nodes[j] + 1
  <2>1. p \in Seq(1..n) /\ p # <<>> /\ nodes[p[1]] = Root
    BY DEF Lineages
  <2>2. Len(p) # 1
    BY <1>10, <2>1 DEF LastOfPath
  <2>3. PICK g \in Lineages(nodes), c \in 1..Len(nodes) :
          p = Append(g, c) /\ Len(g) = Len(p) - 1 /\ nodes[c] = LastOfPath(g) - 1
    BY <2>2, LineageShortened
  <2>4. g \in Seq(1..n) /\ g # <<>>
    BY DEF Lineages
  <2>5. LastOfPath(p) = c /\ LastOfPath(g) \in 1..n
    BY <2>3, <2>4, AppendedLast
  <2>6. LastOfPath(g) = nodes[j] + 1
    BY <1>10, <2>3, <2>5
  <2>7. QED
    BY <1>10, <2>3, <2>5, <2>6
<1>11. 0 \in Done
  <2>1. ASSUME NEW j \in 1..n
        PROVE  /\ above[0][j] # <<>> => above[0][j] \in Lineages(nodes) /\ LastOfPath(above[0][j]) = j
               /\ \A p \in Lineages(nodes) : LastOfPath(p) = j /\ Len(p) <= 0 + 1 => above[0][j] = p
    <3>1. above[0][j] = IF nodes[j] = Root THEN <<j>> ELSE <<>>
      BY <1>2, <1>8
    <3>2. CASE nodes[j] = Root
      BY <1>9, <3>1, <3>2
    <3>3. CASE nodes[j] # Root
      <4>1. ASSUME NEW p \in Lineages(nodes), LastOfPath(p) = j, Len(p) <= 0 + 1 PROVE FALSE
        <5>1. PICK g \in Lineages(nodes) : Len(g) = Len(p) - 1
          BY <1>10, <3>3, <4>1
        <5>2. Len(g) >= 1 /\ Len(p) \in Nat
          BY <1>2, LineageBound
        <5>3. QED
          BY <4>1, <5>1, <5>2
      <4>2. QED
        BY <3>1, <3>3, <4>1
    <3>4. QED
      BY <3>2, <3>3
  <2>2. QED
    BY <2>1
<1>12. ASSUME NEW d \in Done PROVE d + 1 \in Done
  <2>1. SUFFICES ASSUME d + 1 <= n, NEW j \in 1..n
                 PROVE  /\ above[d + 1][j] # <<>> =>
                             above[d + 1][j] \in Lineages(nodes) /\ LastOfPath(above[d + 1][j]) = j
                        /\ \A p \in Lineages(nodes) :
                             LastOfPath(p) = j /\ Len(p) <= (d + 1) + 1 => above[d + 1][j] = p
    OBVIOUS
  <2>2. d \in Nat /\ d + 1 \in 0..n /\ (d + 1) - 1 = d /\ d + 1 # 0 /\ d \in 0..n
    BY <1>2, <2>1
  <2>3. Finds(d)
    BY <2>1, <2>2
  <2> HIDE DEF Done
  <2>4. CASE nodes[j] = Root
    <3>1. above[d + 1][j] = <<j>>
      BY <1>8, <2>2, <2>4
    <3>2. QED
      BY <1>9, <2>4, <3>1
  <2>5. CASE nodes[j] # Root
    <3> DEFINE b == nodes[j] + 1
               a == above[d][b]
    <3>1. b \in 1..n /\ nodes[j] = b - 1
      BY <1>2, <2>5
    <3>2. above[d + 1][j] = IF a = <<>> THEN <<>> ELSE Append(a, j)
      BY <1>8, <2>2, <2>5
    <3>3. /\ a # <<>> => a \in Lineages(nodes) /\ LastOfPath(a) = b
          /\ \A p \in Lineages(nodes) : LastOfPath(p) = b /\ Len(p) <= d + 1 => a = p
      BY <2>3, <3>1
    <3> HIDE DEF a, b, Finds
    <3>4. ASSUME a # <<>>
          PROVE  Append(a, j) \in Lineages(nodes) /\ LastOfPath(Append(a, j)) = j
      <4>1. Append(a, j) \in Lineages(nodes)
        BY <3>1, <3>3, <3>4, LineageExtended
      <4>2. a \in Seq(1..n)
        BY <3>3, <3>4 DEF Lineages
      <4>3. LastOfPath(Append(a, j)) = j
        <5> HIDE DEF n
        <5>1. QED
          BY <4>2 DEF LastOfPath
      <4>4. QED
        BY <4>1, <4>3
    <3>5. ASSUME NEW p \in Lineages(nodes), LastOfPath(p) = j, Len(p) <= (d + 1) + 1
          PROVE  above[d + 1][j] = p
      <4>1. PICK g \in Lineages(nodes) :
              p = Append(g, j) /\ Len(g) = Len(p) - 1 /\ LastOfPath(g) = nodes[j] + 1
        BY <1>10, <2>5, <3>5
      <4>2. Len(g) <= d + 1 /\ LastOfPath(g) = b /\ g # <<>>
        <5>1. Len(p) \in Nat
          BY <1>2, LineageBound
        <5>2. QED
          BY <2>2, <3>5, <4>1, <5>1 DEF b, Lineages
      <4>3. a = g
        BY <3>3, <4>2
      <4>4. QED
        BY <3>2, <4>1, <4>2, <4>3
    <3>6. QED
      BY <3>2, <3>4, <3>5
  <2>6. QED
    BY <2>4, <2>5
<1>13. Finds(n)
  <2> HIDE DEF Finds
  <2>1. Done \in SUBSET Nat
    OBVIOUS
  <2>2. Done = Nat
    <3> HIDE DEF Done
    <3>1. QED
      BY <1>11, <1>12, <2>1, NaturalInduction
  <2>3. QED
    BY <1>2, <2>2
<1>14. \A p \in Lineages(nodes) : Len(p) <= n + 1
  BY <1>2, LineageBound
<1>15. QED
  BY <1>1, <1>13, <1>14

(* The directory tree built from a list of nodes has every node whose      *)
(* parents lead to a root, once, under its parents, and no other.          *)
THEOREM TreeIsComplete ==
  ASSUME NEW nodes \in NodeLists
  PROVE  TreePaths(nodes) = {Ancestry(nodes, i) : i \in DOMAIN nodes} \ {<<>>}
<1>1. DOMAIN nodes = 1..Len(nodes)
  BY DEF NodeLists
<1>2. ASSUME NEW p \in Lineages(nodes)
      PROVE  p \in {Ancestry(nodes, i) : i \in DOMAIN nodes} \ {<<>>}
  <2>1. p \in Seq(1..Len(nodes)) /\ p # <<>>
    BY DEF Lineages
  <2>2. LastOfPath(p) \in 1..Len(nodes)
    BY <2>1 DEF LastOfPath
  <2>3. Ancestry(nodes, LastOfPath(p)) = p
    BY <2>2, AncestryIs
  <2>4. QED
    BY <1>1, <2>1, <2>2, <2>3
<1>3. ASSUME NEW i \in DOMAIN nodes, Ancestry(nodes, i) # <<>>
      PROVE  Ancestry(nodes, i) \in Lineages(nodes)
  BY <1>1, <1>3, AncestryIs
<1>4. QED
  BY <1>2, <1>3, TreePathsIs

TreeInv ==
  /\ tape \in Tapes /\ RawType
  /\ pc = "capture" => at \in 0..(Len(tape) - 1) /\ k \in Nat \ {0}
  /\ {NodesOf(raw.fdd), cached.be, given.cat.be} \subseteq NodeLists

LEMMA EmptyTree == <<>> \in NodeLists /\ NodesOf(<<>>) = <<>> /\ NoCatalog.be = <<>>
BY DEF NodeLists, NodesOf, BackupExec, NoCatalog

(* Whichever way Catalog comes by its answer, the tree is one of those.    *)
LEMMA CatalogTree ==
  ASSUME {NodesOf(raw.fdd), cached.be} \subseteq NodeLists
  PROVE  Catalog.be \in NodeLists
<1>1. Parsed.be = NodesOf(raw.fdd)
  BY Zenon DEF Parsed, NodesOf
<1>2. Catalog \in {cached, NoCatalog, Parsed}
  BY DEF Catalog
<1>3. QED
  BY <1>1, <1>2, EmptyTree

LEMMA CaptureTree ==
  ASSUME TreesClosed
  PROVE  \A o : TreeInv /\ CaptureStream(o) => TreeInv'
<1> SUFFICES ASSUME NEW o, TreeInv, CaptureStream(o) PROVE TreeInv'
  OBVIOUS
<1> DEFINE s == B(at).streams[k]
<1>1. /\ pc = "capture" /\ pc' \in {"idle", "capture"} /\ UNCHANGED <<tape, at, given>>
      /\ k <= Len(B(at).streams) /\ k' \in {k, k + 1}
  BY DEF CaptureStream
<1>2. at \in 0..(Len(tape) - 1) /\ k \in Nat \ {0} /\ tape \in Tapes
  BY <1>1 DEF TreeInv
<1>3. cached'.be \in {cached.be, <<>>}
  BY EmptyTree DEF CaptureStream, Drop
<1>4. RawType' /\ (raw'.fdd = raw.fdd \/ (s.id \in FddIds /\ raw'.fdd = s.cells))
  BY DEF CaptureStream, RawType, TreeInv
<1>5. s.id \in FddIds => NodesOf(s.cells) \in NodeLists
  <2>1. Len(B(at).streams) \in Nat => k \in 1..Len(B(at).streams)
    BY <1>1, <1>2
  <2>2. k \in 1..Len(B(at).streams)
    BY <1>1, <1>2
  <2>3. B(at).streams = tape[at + 1].streams
    BY DEF B
  <2> HIDE DEF s
  <2>4. QED
    BY <1>2, <2>2, <2>3 DEF TreesClosed, s
<1>6. {NodesOf(raw'.fdd), cached'.be, given'.cat.be} \subseteq NodeLists
  BY <1>1, <1>3, <1>4, <1>5, EmptyTree DEF TreeInv
<1> HIDE DEF s
<1>7. QED
  BY <1>1, <1>2, <1>4, <1>6 DEF TreeInv

(* The directory tree that a caller builds from the catalog of a set has   *)
(* every node whose parents lead to a root, once, under its parents, and   *)
(* no other (BuildTree).                                                   *)
THEOREM TreeStaysComplete == ASSUME TreesClosed PROVE Spec => []TreeComplete
<1>1. Init => TreeInv
  <2> SUFFICES ASSUME Init PROVE TreeInv
    OBVIOUS
  <2>1. RawType /\ raw.fdd = <<>> /\ cached.be = <<>> /\ given.cat.be = <<>>
    BY EmptyTree DEF Init, RawType, Nothing
  <2>2. QED
    BY <2>1, EmptyTree DEF Init, TreeInv
<1>2. TreeInv /\ [Next]_vars => TreeInv'
  <2> SUFFICES ASSUME TreeInv, [Next]_vars PROVE TreeInv'
    OBVIOUS
  <2>1. ASSUME UNCHANGED <<tape, raw, cached, given>>,
               pc' = "capture" => UNCHANGED <<pc, at, k>>
        PROVE  TreeInv'
    BY <2>1 DEF TreeInv, RawType
  <2>2. ASSUME NEW o, Search(o) PROVE TreeInv'
    <3>1. UNCHANGED <<tape, raw, cached, given>> /\ pc' # "capture"
      BY <2>2 DEF Search, Prime, LocateEOTM, Backward, Payload, Chain, TryChain, walk
    <3>2. QED
      BY <2>1, <3>1
  <2>3. ASSUME NEW o, CaptureStream(o) PROVE TreeInv'
    BY <2>3, CaptureTree
  <2>4. CASE ReachSetEnd
    <3> DEFINE ahead == {p \in Esets : p > at}
    <3>1. ahead # {} /\ at' = Least(ahead) /\ k' = 1 /\ UNCHANGED <<tape, raw, cached, given>>
      BY <2>4 DEF ReachSetEnd
    <3>2. ahead \subseteq 0..(Len(tape) - 1) /\ Len(tape) \in Nat
      BY TapeType DEF Esets, TreeInv
    <3> HIDE DEF ahead
    <3>3. at' \in 0..(Len(tape) - 1)
      <4>1. ahead \in SUBSET Nat
        BY <3>2
      <4>2. Least(ahead) \in ahead
        BY <3>1, <4>1, LeastIs
      <4>3. QED
        BY <3>1, <3>2, <4>2
    <3>4. QED
      BY <3>1, <3>3 DEF TreeInv, RawType
  <2>5. CASE YieldSetEnd
    <3>1. UNCHANGED <<tape, raw>> /\ cached' = Catalog /\ given'.cat = Catalog /\ pc' = "idle"
      BY <2>5 DEF YieldSetEnd
    <3>2. QED
      BY <3>1, CatalogTree DEF TreeInv, RawType
  <2>6. CASE AskCatalog
    <3>1. UNCHANGED <<tape, raw, given, pc>> /\ cached' = Catalog /\ pc = "idle"
      BY <2>6 DEF AskCatalog
    <3>2. QED
      BY <3>1, CatalogTree DEF TreeInv, RawType
  <2>7. CASE UNCHANGED vars
    BY <2>1, <2>7 DEF vars, walk
  <2>8. QED
    BY <2>2, <2>3, <2>4, <2>5, <2>6, <2>7 DEF Next
<1>3. TreeInv => TreeComplete
  BY TreeIsComplete DEF TreeInv, TreeComplete
<1>4. QED
  BY <1>1, <1>2, <1>3, PTL DEF Spec

-----------------------------------------------------------------------------
(* The parsers of a set map: what each makes of a payload, and of less of  *)
(* it.                                                                     *)

(* What names a payload's records.                                        *)
IdsOf(cells) == {cells[q].id : q \in DOMAIN cells}

LEMMA PayloadIs ==
  ASSUME NEW cells, IsPayload(cells)
  PROVE  /\ Len(cells) \in Nat /\ DOMAIN cells = 1..Len(cells)
         /\ \A off \in Nat : off + 1 <= Len(cells) =>
              At(cells, off).len \in Nat /\ At(cells, off).n \in Nat /\ At(cells, off).id \in IdsOf(cells)
<1>1. Len(cells) \in Nat /\ DOMAIN cells = 1..Len(cells)
  <2> DEFINE S == {cells[q] : q \in DOMAIN cells}
  <2>1. cells \in Seq(S)
    BY DEF IsPayload
  <2> HIDE DEF S
  <2>2. QED
    BY <2>1
<1>2. ASSUME NEW off \in Nat, off + 1 <= Len(cells)
      PROVE  At(cells, off).len \in Nat /\ At(cells, off).n \in Nat /\ At(cells, off).id \in IdsOf(cells)
  <2>1. off + 1 \in DOMAIN cells
    BY <1>1, <1>2
  <2>2. QED
    BY <2>1, Zenon DEF IsPayload, IdsOf, At
<1>3. QED
  BY <1>1, <1>2

(* A run of volume records is the first of them and what follows it.       *)
LEMMA VolumesIs ==
  ASSUME NEW cells, IsPayload(cells), NEW limit \in Nat, limit <= Len(cells)
  PROVE  \A n \in Nat, off \in Nat :
           /\ Volumes(cells, off, limit, n) \in [ids : Seq(IdsOf(cells)), end : Nat]
           /\ Volumes(cells, off, limit, n) =
                IF n > 0 /\ GoodVolume(cells, off, limit)
                THEN LET rest == Volumes(cells, off + At(cells, off).len, limit, n - 1)
                     IN  [ids |-> <<At(cells, off).id>> \o rest.ids, end |-> rest.end]
                ELSE [ids |-> <<>>, end |-> off]
<1> DEFINE R == [ids : Seq(IdsOf(cells)), end : Nat]
           S == [Nat -> R]
           row(g, more) == [o \in Nat |->
                          IF more /\ GoodVolume(cells, o, limit)
                          THEN LET rest == g[o + At(cells, o).len]
                               IN  [ids |-> <<At(cells, o).id>> \o rest.ids, end |-> rest.end]
                          ELSE [ids |-> <<>>, end |-> o]]
           from == CHOOSE from : from = [v \in Nat |-> row(from[v - 1], v > 0)]
<1>1. ASSUME NEW n, NEW off PROVE Volumes(cells, off, limit, n) = from[n][off]
  BY Zenon DEF Volumes
<1>2. ASSUME NEW o \in Nat, GoodVolume(cells, o, limit)
      PROVE  At(cells, o).len \in Nat /\ At(cells, o).id \in IdsOf(cells)
  <2>1. o + 1 <= Len(cells)
    BY <1>2, PayloadIs, RecordsAssumption DEF GoodVolume
  <2>2. QED
    BY <2>1, PayloadIs
<1>3. ASSUME NEW g \in S, NEW more \in BOOLEAN PROVE row(g, more) \in S
  <2>1. ASSUME NEW o \in Nat PROVE row(g, more)[o] \in R
    <3> DEFINE rest == g[o + At(cells, o).len]
               good == more /\ GoodVolume(cells, o, limit)
    <3>1. row(g, more)[o] = IF good THEN [ids |-> <<At(cells, o).id>> \o rest.ids, end |-> rest.end]
                         ELSE [ids |-> <<>>, end |-> o]
      OBVIOUS
    <3>2. good => At(cells, o).len \in Nat /\ At(cells, o).id \in IdsOf(cells)
      BY <1>2
    <3>3. good => rest \in R
      <4> HIDE DEF R, good
      <4>1. QED
        BY <3>2
    <3> HIDE DEF rest, good, row
    <3>4. CASE good
      <4>1. rest.ids \in Seq(IdsOf(cells)) /\ rest.end \in Nat
        BY <3>3, <3>4
      <4>2. <<At(cells, o).id>> \o rest.ids \in Seq(IdsOf(cells))
        BY <3>2, <3>4, <4>1
      <4>3. QED
        BY <3>1, <3>4, <4>1, <4>2
    <3>5. CASE ~good
      <4>1. <<>> \in Seq(IdsOf(cells))
        OBVIOUS
      <4>2. QED
        BY <3>1, <3>5, <4>1
    <3>6. QED
      BY <3>4, <3>5
  <2> HIDE DEF R
  <2>2. QED
    BY <2>1
<1>4. PICK f \in [Nat -> S] : \A v \in Nat : f[v] = row(f[v - 1], v > 0)
  <2> DEFINE g0 == [o \in Nat |-> [ids |-> <<>>, end |-> o]]
             z == row(g0, FALSE)
             step == [g \in S |-> row(g, TRUE)]
  <2>1. z \in S
    <3>1. g0 \in S
      <4>1. <<>> \in Seq(IdsOf(cells))
        OBVIOUS
      <4>2. QED
        BY <4>1
    <3> HIDE DEF S, row, g0
    <3>2. QED
      BY <1>3, <3>1
  <2>2. step \in [S -> S]
    <3> HIDE DEF S, row
    <3>1. QED
      BY <1>3
  <2>3. PICK f \in [Nat -> S] : Iterates(f, z, step)
    <3> HIDE DEF S, z, step
    <3>1. QED
      BY <2>1, <2>2, Iteration, Zenon
  <2>4. ASSUME NEW v \in Nat PROVE f[v] = row(f[v - 1], v > 0)
    <3>1. CASE v = 0
      <4>1. (v > 0) = FALSE
        BY <3>1
      <4>2. row(f[v - 1], FALSE) = z
        OBVIOUS
      <4> HIDE DEF row, z
      <4>3. row(f[v - 1], v > 0) = row(f[v - 1], FALSE)
        BY <4>1, Zenon
      <4>4. QED
        BY <2>3, <3>1, <4>2, <4>3 DEF Iterates
    <3>2. CASE v # 0
      <4>1. (v > 0) = TRUE
        BY <3>2
      <4>2. v - 1 \in Nat /\ (v - 1) + 1 = v
        BY <3>2
      <4> HIDE DEF row, S
      <4>3. f[v] = step[f[v - 1]] /\ f[v - 1] \in S
        BY <2>3, <4>2 DEF Iterates
      <4>4. row(f[v - 1], v > 0) = row(f[v - 1], TRUE)
        BY <4>1, Zenon
      <4>5. QED
        BY <4>3, <4>4
    <3>3. QED
      BY <3>1, <3>2
  <2>5. QED
    BY <2>4
<1>5. from = [v \in Nat |-> row(from[v - 1], v > 0)]
  <2> HIDE DEF row, S
  <2>1. f = [v \in Nat |-> row(f[v - 1], v > 0)]
    BY <1>4
  <2>2. QED
    BY <2>1, Zenon
<1> HIDE DEF from
<1> DEFINE P == {v \in Nat : from[v] \in S}
<1>6. ASSUME NEW v \in Nat PROVE from[v] = row(from[v - 1], v > 0)
  <2> HIDE DEF row
  <2>1. QED
    BY <1>5
<1>7. P = Nat
  <2>1. 0 \in P
    <3>1. (0 > 0) = FALSE /\ row(from[0 - 1], FALSE) = row(f[0], FALSE)
      OBVIOUS
    <3> HIDE DEF S, row
    <3>2. row(f[0], FALSE) \in S
      BY <1>3, <1>4
    <3>3. row(from[0 - 1], 0 > 0) = row(from[0 - 1], FALSE)
      BY <3>1, Zenon
    <3>4. QED
      BY <1>6, <3>1, <3>2, <3>3
  <2>2. ASSUME NEW v \in P PROVE v + 1 \in P
    <3> HIDE DEF S, row
    <3>1. (v + 1) - 1 = v /\ v + 1 \in Nat
      OBVIOUS
    <3>2. from[v + 1] = row(from[v], v + 1 > 0)
      BY <1>6, <3>1
    <3>3. from[v] \in S /\ (v + 1 > 0) \in BOOLEAN
      OBVIOUS
    <3>4. row(from[v], v + 1 > 0) \in S
      BY <1>3, <3>3
    <3>5. QED
      BY <3>1, <3>2, <3>4
  <2> HIDE DEF S
  <2>3. P \in SUBSET Nat
    OBVIOUS
  <2> HIDE DEF P
  <2>4. QED
    BY <2>1, <2>2, <2>3, NaturalInduction
<1>8. SUFFICES ASSUME NEW n \in Nat, NEW off \in Nat
               PROVE  /\ from[n][off] \in R
                      /\ from[n][off] =
                           IF n > 0 /\ GoodVolume(cells, off, limit)
                           THEN LET rest == from[n - 1][off + At(cells, off).len]
                                IN  [ids |-> <<At(cells, off).id>> \o rest.ids, end |-> rest.end]
                           ELSE [ids |-> <<>>, end |-> off]
  <2> SUFFICES ASSUME NEW n \in Nat, NEW off \in Nat
               PROVE  /\ Volumes(cells, off, limit, n) \in R
                      /\ Volumes(cells, off, limit, n) =
                           IF n > 0 /\ GoodVolume(cells, off, limit)
                           THEN LET rest == Volumes(cells, off + At(cells, off).len, limit, n - 1)
                                IN  [ids |-> <<At(cells, off).id>> \o rest.ids, end |-> rest.end]
                           ELSE [ids |-> <<>>, end |-> off]
    BY Zenon
  <2> HIDE DEF from, row, P, S, R
  <2>1. Volumes(cells, off, limit, n) = from[n][off]
    BY <1>1
  <2>2. Volumes(cells, off + At(cells, off).len, limit, n - 1) = from[n - 1][off + At(cells, off).len]
    BY <1>1
  <2>3. QED
    BY <1>8, <2>1, <2>2
<1>9. from[n] \in S
  BY <1>7
<1>10. from[n] = row(from[n - 1], n > 0)
  BY <1>6
<1>11. QED
  <2>1. from[n][off] \in R
    <3> HIDE DEF R
    <3>1. QED
      BY <1>9
  <2>2. row(from[n - 1], n > 0)[off] =
          IF n > 0 /\ GoodVolume(cells, off, limit)
          THEN LET rest == from[n - 1][off + At(cells, off).len]
               IN  [ids |-> <<At(cells, off).id>> \o rest.ids, end |-> rest.end]
          ELSE [ids |-> <<>>, end |-> off]
    OBVIOUS
  <2> HIDE DEF row, R
  <2>3. QED
    BY <1>10, <2>1, <2>2

-----------------------------------------------------------------------------
Entries(cells) == [id : IdsOf(cells), vols : Seq(IdsOf(cells))]

LEMMA GoodEntryIs ==
  ASSUME NEW cells, IsPayload(cells), NEW off \in Nat, GoodEntry(cells, off)
  PROVE  /\ off + 1 <= Len(cells) /\ NestedLimit(cells, off) \in Nat /\ NestedLimit(cells, off) <= Len(cells)
         /\ At(cells, off).len \in Nat /\ At(cells, off).n \in Nat /\ At(cells, off).id \in IdsOf(cells)
<1>1. off + 1 <= Len(cells)
  BY PayloadIs, RecordsAssumption DEF GoodEntry, Fits
<1>2. At(cells, off).len \in Nat /\ At(cells, off).n \in Nat /\ At(cells, off).id \in IdsOf(cells)
  BY <1>1, PayloadIs
<1>3. QED
  BY <1>1, <1>2, PayloadIs DEF NestedLimit, Lesser

LEMMA NestedEntryIs ==
  ASSUME NEW cells, IsPayload(cells), NEW off \in Nat, GoodEntry(cells, off)
  PROVE  NestedEntry(cells, off) \in Entries(cells)
<1>1. off + SmeMin \in Nat
  BY RecordsAssumption
<1>2. Volumes(cells, off + SmeMin, NestedLimit(cells, off), At(cells, off).n) \in [ids : Seq(IdsOf(cells)), end : Nat]
  BY <1>1, GoodEntryIs, VolumesIs
<1>3. QED
  BY <1>2, GoodEntryIs DEF NestedEntry, Entries

LEMMA VolumesBehindIs ==
  ASSUME NEW cells, IsPayload(cells), NEW off \in Nat, GoodEntry(cells, off)
  PROVE  VolumesBehind(cells, off) \in [ids : Seq(IdsOf(cells)), end : Nat]
         /\ SeparateEntry(cells, off) \in Entries(cells)
<1>1. /\ off + At(cells, off).len \in Nat /\ At(cells, off).n \in Nat
      /\ Len(cells) \in Nat /\ Len(cells) <= Len(cells)
  BY GoodEntryIs, PayloadIs
<1>2. VolumesBehind(cells, off) \in [ids : Seq(IdsOf(cells)), end : Nat]
  BY <1>1, VolumesIs DEF VolumesBehind
<1>3. QED
  BY <1>2, GoodEntryIs DEF SeparateEntry, Entries

(* The entries of a set map are the first of them and what follows it.      *)
LEMMA NestedEntriesIs ==
  ASSUME NEW cells, IsPayload(cells)
  PROVE  \A n \in Nat, off \in Nat :
           /\ NestedEntries(cells, off, n) \in Seq(Entries(cells))
           /\ NestedEntries(cells, off, n) =
                IF n > 0 /\ GoodEntry(cells, off)
                THEN <<NestedEntry(cells, off)>>
                       \o NestedEntries(cells, off + At(cells, off).len, n - 1)
                ELSE <<>>
<1> DEFINE R == Seq(Entries(cells))
           S == [Nat -> R]
           good(off) == GoodEntry(cells, off)
           rest(g, off) == g[off + At(cells, off).len]
           row(g, more) == [off \in Nat |->
                             IF more /\ good(off) THEN <<NestedEntry(cells, off)>> \o rest(g, off) ELSE <<>>]
           from == CHOOSE from : from = [i \in Nat |-> row(from[i - 1], i > 0)]
<1>1. ASSUME NEW n, NEW off PROVE NestedEntries(cells, off, n) = from[n][off]
  BY Zenon DEF NestedEntries
<1>2. ASSUME NEW g \in S, NEW off \in Nat, good(off)
      PROVE  NestedEntry(cells, off) \in Entries(cells) /\ rest(g, off) \in R
  <2>1. off + At(cells, off).len \in Nat
    <3>1. GoodEntry(cells, off)
      BY <1>2
    <3> HIDE DEF R, good, rest, S
    <3>2. At(cells, off).len \in Nat
      BY <3>1, GoodEntryIs
    <3>3. QED
      BY <3>2
  <2>2. NestedEntry(cells, off) \in Entries(cells)
    BY <1>2, NestedEntryIs
  <2> HIDE DEF R
  <2>3. QED
    BY <2>1, <2>2
<1>3. ASSUME NEW g \in S, NEW more \in BOOLEAN PROVE row(g, more) \in S
  <2>1. ASSUME NEW off \in Nat PROVE row(g, more)[off] \in R
    <3>1. row(g, more)[off] =
            IF more /\ good(off) THEN <<NestedEntry(cells, off)>> \o rest(g, off) ELSE <<>>
      OBVIOUS
    <3>2. <<>> \in R /\ \A e \in Entries(cells), r \in R : <<e>> \o r \in R
      OBVIOUS
    <3> HIDE DEF good, rest, row, R
    <3>3. QED
      BY <1>2, <3>1, <3>2, Zenon
  <2> HIDE DEF R
  <2>2. QED
    BY <2>1
<1>4. PICK f \in [Nat -> S] : \A i \in Nat : f[i] = row(f[i - 1], i > 0)
  <2> DEFINE g0 == [off \in Nat |-> <<>>]
             z == row(g0, FALSE)
             step == [g \in S |-> row(g, TRUE)]
  <2>1. z \in S
    <3>1. g0 \in S
      OBVIOUS
    <3> HIDE DEF S, row, g0
    <3>2. QED
      BY <1>3, <3>1
  <2>2. step \in [S -> S]
    <3> HIDE DEF S, row
    <3>1. QED
      BY <1>3
  <2>3. PICK f \in [Nat -> S] : Iterates(f, z, step)
    <3> HIDE DEF S, z, step
    <3>1. QED
      BY <2>1, <2>2, Iteration, Zenon
  <2>4. ASSUME NEW i \in Nat PROVE f[i] = row(f[i - 1], i > 0)
    <3>1. CASE i = 0
      <4>1. (i > 0) = FALSE
        BY <3>1
      <4>2. row(f[i - 1], FALSE) = z
        OBVIOUS
      <4> HIDE DEF row, z
      <4>3. row(f[i - 1], i > 0) = row(f[i - 1], FALSE)
        BY <4>1, Zenon
      <4>4. QED
        BY <2>3, <3>1, <4>2, <4>3 DEF Iterates
    <3>2. CASE i # 0
      <4>1. (i > 0) = TRUE
        BY <3>2
      <4>2. i - 1 \in Nat /\ (i - 1) + 1 = i
        BY <3>2
      <4> HIDE DEF row, S
      <4>3. f[i] = step[f[i - 1]] /\ f[i - 1] \in S
        BY <2>3, <4>2 DEF Iterates
      <4>4. row(f[i - 1], i > 0) = row(f[i - 1], TRUE)
        BY <4>1, Zenon
      <4>5. QED
        BY <4>3, <4>4
    <3>3. QED
      BY <3>1, <3>2
  <2>5. QED
    BY <2>4
<1>5. from = [i \in Nat |-> row(from[i - 1], i > 0)]
  <2> HIDE DEF row, S
  <2>1. f = [i \in Nat |-> row(f[i - 1], i > 0)]
    BY <1>4
  <2>2. QED
    BY <2>1, Zenon
<1> HIDE DEF from
<1> DEFINE P == {i \in Nat : from[i] \in S}
<1>6. ASSUME NEW i \in Nat PROVE from[i] = row(from[i - 1], i > 0)
  <2> HIDE DEF row
  <2>1. QED
    BY <1>5
<1>7. P = Nat
  <2>1. 0 \in P
    <3>1. (0 > 0) = FALSE /\ row(from[0 - 1], FALSE) = row(f[0], FALSE)
      OBVIOUS
    <3> HIDE DEF S, row
    <3>2. row(f[0], FALSE) \in S
      BY <1>3, <1>4
    <3>3. row(from[0 - 1], 0 > 0) = row(from[0 - 1], FALSE)
      BY <3>1, Zenon
    <3>4. QED
      BY <1>6, <3>1, <3>2, <3>3
  <2>2. ASSUME NEW i \in P PROVE i + 1 \in P
    <3> HIDE DEF S, row
    <3>1. (i + 1) - 1 = i /\ i + 1 \in Nat
      OBVIOUS
    <3>2. from[i + 1] = row(from[i], i + 1 > 0)
      BY <1>6, <3>1
    <3>3. from[i] \in S /\ (i + 1 > 0) \in BOOLEAN
      OBVIOUS
    <3>4. row(from[i], i + 1 > 0) \in S
      BY <1>3, <3>3
    <3>5. QED
      BY <3>1, <3>2, <3>4
  <2> HIDE DEF S
  <2>3. P \in SUBSET Nat
    OBVIOUS
  <2> HIDE DEF P
  <2>4. QED
    BY <2>1, <2>2, <2>3, NaturalInduction
<1>8. ASSUME NEW n \in Nat, NEW off \in Nat
      PROVE  /\ from[n][off] \in R
             /\ from[n][off] = IF n > 0 /\ good(off)
                               THEN <<NestedEntry(cells, off)>> \o rest(from[n - 1], off) ELSE <<>>
  <2>1. from[n] \in S /\ from[n] = row(from[n - 1], n > 0)
    BY <1>6, <1>7
  <2>2. from[n][off] \in R
    <3> HIDE DEF R
    <3>1. QED
      BY <2>1
  <2>3. row(from[n - 1], n > 0)[off] =
          IF n > 0 /\ good(off) THEN <<NestedEntry(cells, off)>> \o rest(from[n - 1], off) ELSE <<>>
    <3> HIDE DEF rest, good
    <3>1. QED
      OBVIOUS
  <2> HIDE DEF row, R, rest, good
  <2>4. QED
    BY <2>1, <2>2, <2>3
<1>9. SUFFICES ASSUME NEW n \in Nat, NEW off \in Nat
               PROVE  /\ NestedEntries(cells, off, n) \in R
                      /\ NestedEntries(cells, off, n) =
                           IF n > 0 /\ good(off)
                           THEN <<NestedEntry(cells, off)>>
                                  \o NestedEntries(cells, off + At(cells, off).len, n - 1)
                           ELSE <<>>
  BY Zenon
<1>10. NestedEntries(cells, off, n) = from[n][off]
  BY <1>1
<1>11. NestedEntries(cells, off + At(cells, off).len, n - 1) = rest(from[n - 1], off)
  BY <1>1
<1> HIDE DEF R, from, rest, good
<1>12. QED
  BY <1>8, <1>10, <1>11

(* The same where the volumes follow an entry.                              *)
LEMMA SeparateEntriesIs ==
  ASSUME NEW cells, IsPayload(cells)
  PROVE  \A n \in Nat, off \in Nat :
           /\ SeparateEntries(cells, off, n) \in Seq(Entries(cells))
           /\ SeparateEntries(cells, off, n) =
                IF n > 0 /\ GoodEntry(cells, off) /\ Fits(cells, off, At(cells, off).len)
                THEN <<SeparateEntry(cells, off)>>
                       \o (IF Fits(cells, VolumesBehind(cells, off).end, SmHdr) THEN SeparateEntries(cells, VolumesBehind(cells, off).end, n - 1) ELSE <<>>)
                ELSE <<>>
<1> DEFINE R == Seq(Entries(cells))
           S == [Nat -> R]
           good(off) == GoodEntry(cells, off) /\ Fits(cells, off, At(cells, off).len)
           rest(g, off) == (IF Fits(cells, VolumesBehind(cells, off).end, SmHdr) THEN g[VolumesBehind(cells, off).end] ELSE <<>>)
           row(g, more) == [off \in Nat |->
                             IF more /\ good(off) THEN <<SeparateEntry(cells, off)>> \o rest(g, off) ELSE <<>>]
           from == CHOOSE from : from = [i \in Nat |-> row(from[i - 1], i > 0)]
<1>1. ASSUME NEW n, NEW off PROVE SeparateEntries(cells, off, n) = from[n][off]
  BY Zenon DEF SeparateEntries
<1>2. ASSUME NEW g \in S, NEW off \in Nat, good(off)
      PROVE  SeparateEntry(cells, off) \in Entries(cells) /\ rest(g, off) \in R
  <2>1. VolumesBehind(cells, off).end \in Nat /\ SeparateEntry(cells, off) \in Entries(cells)
    BY <1>2, VolumesBehindIs
  <2>2. <<>> \in R
    OBVIOUS
  <2> HIDE DEF R
  <2>3. QED
    BY <2>1, <2>2
<1>3. ASSUME NEW g \in S, NEW more \in BOOLEAN PROVE row(g, more) \in S
  <2>1. ASSUME NEW off \in Nat PROVE row(g, more)[off] \in R
    <3>1. row(g, more)[off] =
            IF more /\ good(off) THEN <<SeparateEntry(cells, off)>> \o rest(g, off) ELSE <<>>
      OBVIOUS
    <3>2. <<>> \in R /\ \A e \in Entries(cells), r \in R : <<e>> \o r \in R
      OBVIOUS
    <3> HIDE DEF good, rest, row, R
    <3>3. QED
      BY <1>2, <3>1, <3>2, Zenon
  <2> HIDE DEF R
  <2>2. QED
    BY <2>1
<1>4. PICK f \in [Nat -> S] : \A i \in Nat : f[i] = row(f[i - 1], i > 0)
  <2> DEFINE g0 == [off \in Nat |-> <<>>]
             z == row(g0, FALSE)
             step == [g \in S |-> row(g, TRUE)]
  <2>1. z \in S
    <3>1. g0 \in S
      OBVIOUS
    <3> HIDE DEF S, row, g0
    <3>2. QED
      BY <1>3, <3>1
  <2>2. step \in [S -> S]
    <3> HIDE DEF S, row
    <3>1. QED
      BY <1>3
  <2>3. PICK f \in [Nat -> S] : Iterates(f, z, step)
    <3> HIDE DEF S, z, step
    <3>1. QED
      BY <2>1, <2>2, Iteration, Zenon
  <2>4. ASSUME NEW i \in Nat PROVE f[i] = row(f[i - 1], i > 0)
    <3>1. CASE i = 0
      <4>1. (i > 0) = FALSE
        BY <3>1
      <4>2. row(f[i - 1], FALSE) = z
        OBVIOUS
      <4> HIDE DEF row, z
      <4>3. row(f[i - 1], i > 0) = row(f[i - 1], FALSE)
        BY <4>1, Zenon
      <4>4. QED
        BY <2>3, <3>1, <4>2, <4>3 DEF Iterates
    <3>2. CASE i # 0
      <4>1. (i > 0) = TRUE
        BY <3>2
      <4>2. i - 1 \in Nat /\ (i - 1) + 1 = i
        BY <3>2
      <4> HIDE DEF row, S
      <4>3. f[i] = step[f[i - 1]] /\ f[i - 1] \in S
        BY <2>3, <4>2 DEF Iterates
      <4>4. row(f[i - 1], i > 0) = row(f[i - 1], TRUE)
        BY <4>1, Zenon
      <4>5. QED
        BY <4>3, <4>4
    <3>3. QED
      BY <3>1, <3>2
  <2>5. QED
    BY <2>4
<1>5. from = [i \in Nat |-> row(from[i - 1], i > 0)]
  <2> HIDE DEF row, S
  <2>1. f = [i \in Nat |-> row(f[i - 1], i > 0)]
    BY <1>4
  <2>2. QED
    BY <2>1, Zenon
<1> HIDE DEF from
<1> DEFINE P == {i \in Nat : from[i] \in S}
<1>6. ASSUME NEW i \in Nat PROVE from[i] = row(from[i - 1], i > 0)
  <2> HIDE DEF row
  <2>1. QED
    BY <1>5
<1>7. P = Nat
  <2>1. 0 \in P
    <3>1. (0 > 0) = FALSE /\ row(from[0 - 1], FALSE) = row(f[0], FALSE)
      OBVIOUS
    <3> HIDE DEF S, row
    <3>2. row(f[0], FALSE) \in S
      BY <1>3, <1>4
    <3>3. row(from[0 - 1], 0 > 0) = row(from[0 - 1], FALSE)
      BY <3>1, Zenon
    <3>4. QED
      BY <1>6, <3>1, <3>2, <3>3
  <2>2. ASSUME NEW i \in P PROVE i + 1 \in P
    <3> HIDE DEF S, row
    <3>1. (i + 1) - 1 = i /\ i + 1 \in Nat
      OBVIOUS
    <3>2. from[i + 1] = row(from[i], i + 1 > 0)
      BY <1>6, <3>1
    <3>3. from[i] \in S /\ (i + 1 > 0) \in BOOLEAN
      OBVIOUS
    <3>4. row(from[i], i + 1 > 0) \in S
      BY <1>3, <3>3
    <3>5. QED
      BY <3>1, <3>2, <3>4
  <2> HIDE DEF S
  <2>3. P \in SUBSET Nat
    OBVIOUS
  <2> HIDE DEF P
  <2>4. QED
    BY <2>1, <2>2, <2>3, NaturalInduction
<1>8. ASSUME NEW n \in Nat, NEW off \in Nat
      PROVE  /\ from[n][off] \in R
             /\ from[n][off] = IF n > 0 /\ good(off)
                               THEN <<SeparateEntry(cells, off)>> \o rest(from[n - 1], off) ELSE <<>>
  <2>1. from[n] \in S /\ from[n] = row(from[n - 1], n > 0)
    BY <1>6, <1>7
  <2>2. from[n][off] \in R
    <3> HIDE DEF R
    <3>1. QED
      BY <2>1
  <2>3. row(from[n - 1], n > 0)[off] =
          IF n > 0 /\ good(off) THEN <<SeparateEntry(cells, off)>> \o rest(from[n - 1], off) ELSE <<>>
    <3> HIDE DEF rest, good
    <3>1. QED
      OBVIOUS
  <2> HIDE DEF row, R, rest, good
  <2>4. QED
    BY <2>1, <2>2, <2>3
<1>9. SUFFICES ASSUME NEW n \in Nat, NEW off \in Nat
               PROVE  /\ SeparateEntries(cells, off, n) \in R
                      /\ SeparateEntries(cells, off, n) =
                           IF n > 0 /\ good(off)
                           THEN <<SeparateEntry(cells, off)>>
                                  \o (IF Fits(cells, VolumesBehind(cells, off).end, SmHdr) THEN SeparateEntries(cells, VolumesBehind(cells, off).end, n - 1) ELSE <<>>)
                           ELSE <<>>
  BY Zenon
<1>10. SeparateEntries(cells, off, n) = from[n][off]
  BY <1>1
<1>11. (IF Fits(cells, VolumesBehind(cells, off).end, SmHdr) THEN SeparateEntries(cells, VolumesBehind(cells, off).end, n - 1) ELSE <<>>) = rest(from[n - 1], off)
  BY <1>1
<1> HIDE DEF R, from, rest, good
<1>12. QED
  BY <1>8, <1>10, <1>11

-----------------------------------------------------------------------------
(* A payload that was cut short. *)

LEMMA ConsIs ==
  ASSUME NEW X, NEW x \in X, NEW s \in Seq(X)
  PROVE  /\ Len(<<x>> \o s) = Len(s) + 1 /\ Len(s) \in Nat /\ (<<x>> \o s)[1] = x
         /\ \A i \in 1..Len(s) : (<<x>> \o s)[i + 1] = s[i]
  OBVIOUS

LEMMA BeginsCons ==
  ASSUME NEW X, NEW x \in X, NEW s \in Seq(X), NEW Y, x \in Y, NEW t \in Seq(Y), Begins(s, t)
  PROVE  Begins(<<x>> \o s, <<x>> \o t)
<1>1. /\ Len(<<x>> \o s) = Len(s) + 1 /\ Len(<<x>> \o t) = Len(t) + 1
      /\ Len(s) \in Nat /\ Len(t) \in Nat /\ Len(s) <= Len(t)
  BY ConsIs DEF Begins
<1>2. ASSUME NEW i \in 1..(Len(s) + 1) PROVE (<<x>> \o s)[i] = (<<x>> \o t)[i]
  <2>1. CASE i = 1
    BY <2>1, ConsIs
  <2>2. CASE i # 1
    <3>1. i - 1 \in 1..Len(s) /\ i - 1 \in 1..Len(t) /\ (i - 1) + 1 = i
      BY <1>1, <2>2
    <3>2. (<<x>> \o s)[i] = s[i - 1] /\ (<<x>> \o t)[i] = t[i - 1]
      BY <3>1, ConsIs
    <3>3. QED
      BY <3>1, <3>2 DEF Begins
  <2>3. QED
    BY <2>1, <2>2
<1>3. QED
  BY <1>1, <1>2 DEF Begins

LEMMA BeginsAt ==
  ASSUME NEW a, NEW b, IsPayload(a), IsPayload(b), Begins(a, b)
  PROVE  /\ Len(a) <= Len(b) /\ Len(a) \in Nat /\ Len(b) \in Nat
         /\ \A off \in Nat : off + 1 <= Len(a) => At(a, off) = At(b, off)
BY PayloadIs DEF Begins, At

(* The record at o does not fit, or nothing is left that could be one.     *)
Cut(cells, o, limit) ==
  o + FddHdr > limit \/ (At(cells, o).len >= FddHdr /\ o + At(cells, o).len > limit)

(* Less of a payload has the same volumes, or ends with the first of them  *)
(* in front of a record that is cut.                                       *)
LEMMA VolumesBegin ==
  ASSUME NEW a, NEW b, IsPayload(a), IsPayload(b), Begins(a, b),
         NEW l \in Nat, NEW m \in Nat, l <= Len(a), m <= Len(b), l <= m
  PROVE  \A n \in Nat, off \in Nat :
           /\ Begins(Volumes(a, off, l, n).ids, Volumes(b, off, m, n).ids)
           /\ \/ Volumes(a, off, l, n) = Volumes(b, off, m, n)
              \/ Cut(a, Volumes(a, off, l, n).end, l)
           /\ l = m => Volumes(a, off, l, n) = Volumes(b, off, m, n)
<1> DEFINE V(off, n) == Volumes(a, off, l, n)
           W(off, n) == Volumes(b, off, m, n)
           Holds(off, n) ==
             /\ Begins(V(off, n).ids, W(off, n).ids)
             /\ V(off, n) = W(off, n) \/ Cut(a, V(off, n).end, l)
             /\ l = m => V(off, n) = W(off, n)
           P == {n \in Nat : \A off \in Nat : Holds(off, n)}
<1>1. ASSUME NEW n \in Nat, NEW off \in Nat
      PROVE  /\ V(off, n) = IF n > 0 /\ GoodVolume(a, off, l)
                            THEN LET rest == V(off + At(a, off).len, n - 1)
                                 IN  [ids |-> <<At(a, off).id>> \o rest.ids, end |-> rest.end]
                            ELSE [ids |-> <<>>, end |-> off]
             /\ W(off, n) = IF n > 0 /\ GoodVolume(b, off, m)
                            THEN LET rest == W(off + At(b, off).len, n - 1)
                                 IN  [ids |-> <<At(b, off).id>> \o rest.ids, end |-> rest.end]
                            ELSE [ids |-> <<>>, end |-> off]
             /\ V(off, n).ids \in Seq(IdsOf(a)) /\ W(off, n).ids \in Seq(IdsOf(b))
  <2>1. V(off, n) \in [ids : Seq(IdsOf(a)), end : Nat] /\ W(off, n) \in [ids : Seq(IdsOf(b)), end : Nat]
    BY VolumesIs
  <2>2. V(off, n).ids \in Seq(IdsOf(a)) /\ W(off, n).ids \in Seq(IdsOf(b))
    BY <2>1
  <2>3. QED
    BY <2>2, VolumesIs, ZenonT(30)
<1> HIDE DEF V, W
<1>2. \A s : Len(s) \in Nat => Begins(<<>>, s)
  BY DEF Begins
<1>3. ASSUME NEW off \in Nat, GoodVolume(a, off, l)
      PROVE  /\ GoodVolume(b, off, m) /\ At(a, off) = At(b, off) /\ At(a, off).len \in Nat
             /\ At(a, off).id \in IdsOf(a) /\ At(a, off).id \in IdsOf(b)
  <2>1. off + 1 <= Len(a) /\ off + 1 <= Len(b)
    BY <1>3, BeginsAt, RecordsAssumption DEF GoodVolume
  <2>2. At(a, off) = At(b, off) /\ At(a, off).len \in Nat
        /\ At(a, off).id \in IdsOf(a) /\ At(b, off).id \in IdsOf(b)
    BY <2>1, BeginsAt, PayloadIs
  <2>3. QED
    BY <1>3, <2>2, RecordsAssumption DEF GoodVolume
<1>4. ASSUME NEW off \in Nat, ~GoodVolume(a, off, l), ~Cut(a, off, l) \/ l = m
      PROVE  ~GoodVolume(b, off, m)
  <2>1. SUFFICES ASSUME GoodVolume(b, off, m) PROVE FALSE
    OBVIOUS
  <2>2. CASE off + FddHdr > l
    BY <1>4, <2>1, <2>2, RecordsAssumption DEF GoodVolume, Cut
  <2>3. CASE off + FddHdr <= l
    <3>1. off + 1 <= Len(a)
      BY <2>3, BeginsAt, RecordsAssumption
    <3>2. At(a, off) = At(b, off) /\ At(a, off).len \in Nat
      BY <3>1, BeginsAt, PayloadIs
    <3>3. QED
      BY <1>4, <2>1, <2>3, <3>2, RecordsAssumption DEF GoodVolume, Cut
  <2>4. QED
    BY <2>2, <2>3, RecordsAssumption
<1>5. ASSUME NEW n \in Nat, NEW off \in Nat,
             V(off, n) = [ids |-> <<>>, end |-> off],
             (~Cut(a, off, l) \/ l = m) => W(off, n) = [ids |-> <<>>, end |-> off]
      PROVE  Holds(off, n)
  <2>1. Len(W(off, n).ids) \in Nat
    <3>1. W(off, n).ids \in Seq(IdsOf(b))
      BY <1>1
    <3>2. QED
      BY <3>1
  <2>2. QED
    BY <1>2, <1>5, <2>1
<1>6. 0 \in P
  <2>1. ASSUME NEW off \in Nat PROVE Holds(off, 0)
    <3>1. V(off, 0) = [ids |-> <<>>, end |-> off] /\ W(off, 0) = [ids |-> <<>>, end |-> off]
      <4>1. 0 \in Nat /\ ~(0 > 0)
        OBVIOUS
      <4>2. QED
        BY <1>1, <4>1, Zenon
    <3> HIDE DEF Holds
    <3>2. QED
      BY <1>5, <3>1
  <2>2. QED
    BY <2>1
<1>7. ASSUME NEW n \in P PROVE n + 1 \in P
  <2>1. SUFFICES ASSUME NEW off \in Nat PROVE Holds(off, n + 1)
    OBVIOUS
  <2>2. n + 1 \in Nat /\ n + 1 > 0 /\ (n + 1) - 1 = n
    OBVIOUS
  <2>3. CASE GoodVolume(a, off, l)
    <3> DEFINE next == off + At(a, off).len
               x == At(a, off).id
    <3>1. next \in Nat /\ GoodVolume(b, off, m) /\ next = off + At(b, off).len
          /\ x = At(b, off).id /\ x \in IdsOf(a) /\ x \in IdsOf(b)
      BY <1>3, <2>3
    <3>2. Holds(next, n)
      BY <3>1
    <3> HIDE DEF next, x
    <3>3. V(off, n + 1) = [ids |-> <<x>> \o V(next, n).ids, end |-> V(next, n).end]
      BY <1>1, <2>2, <2>3 DEF next, x
    <3>4. W(off, n + 1) = [ids |-> <<x>> \o W(next, n).ids, end |-> W(next, n).end]
      <4>1. W(off, n + 1) = [ids |-> <<At(b, off).id>> \o W(off + At(b, off).len, n).ids,
                             end |-> W(off + At(b, off).len, n).end]
        BY <1>1, <2>2, <3>1
      <4>2. QED
        BY <3>1, <4>1
    <3>5. V(next, n).ids \in Seq(IdsOf(a)) /\ W(next, n).ids \in Seq(IdsOf(b))
      BY <1>1, <3>1
    <3>6. Begins(V(off, n + 1).ids, W(off, n + 1).ids)
      <4>1. Begins(<<x>> \o V(next, n).ids, <<x>> \o W(next, n).ids)
        BY <3>1, <3>2, <3>5, BeginsCons, Zenon
      <4>2. V(off, n + 1).ids = <<x>> \o V(next, n).ids /\ W(off, n + 1).ids = <<x>> \o W(next, n).ids
        <5>1. \A i, e, v : v = [ids |-> i, end |-> e] => v.ids = i
          OBVIOUS
        <5>2. QED
          BY <3>3, <3>4, <5>1, Zenon
      <4>3. QED
        BY <4>1, <4>2, Zenon
    <3>7. V(off, n + 1).end = V(next, n).end
      BY <3>3
    <3>8. V(next, n) = W(next, n) => V(off, n + 1) = W(off, n + 1)
      BY <3>3, <3>4
    <3>9. QED
      BY <3>2, <3>6, <3>7, <3>8, Zenon
  <2>4. CASE ~GoodVolume(a, off, l)
    <3>1. V(off, n + 1) = [ids |-> <<>>, end |-> off]
      BY <1>1, <2>2, <2>4
    <3>2. ~Cut(a, off, l) \/ l = m => W(off, n + 1) = [ids |-> <<>>, end |-> off]
      BY <1>1, <1>4, <2>2, <2>4
    <3> HIDE DEF Holds
    <3>3. QED
      BY <1>5, <2>2, <3>1, <3>2
  <2>5. QED
    BY <2>3, <2>4
<1>8. P = Nat
  <2>1. P \in SUBSET Nat
    OBVIOUS
  <2> HIDE DEF P
  <2>2. QED
    BY <1>6, <1>7, <2>1, NaturalInduction
<1>9. \A n \in Nat, off \in Nat : Holds(off, n)
  <2> HIDE DEF Holds
  <2>1. QED
    BY <1>8
<1>10. QED
  BY <1>9, Zenon DEF V, W

LEMMA ShortenedNothing == ASSUME NEW t, Len(t) \in Nat PROVE Shortened(<<>>, t)
BY DEF Shortened

LEMMA ShortenedCons ==
  ASSUME NEW X, NEW Y, NEW x \in X, NEW y \in Y, NEW s \in Seq(X), NEW t \in Seq(Y),
         x.id = y.id, Begins(x.vols, y.vols), s # <<>> => x = y, Shortened(s, t)
  PROVE  Shortened(<<x>> \o s, <<y>> \o t)
<1> DEFINE u == <<x>> \o s
           v == <<y>> \o t
<1>1. /\ Len(u) = Len(s) + 1 /\ Len(v) = Len(t) + 1 /\ u[1] = x /\ v[1] = y
      /\ Len(s) \in Nat /\ Len(t) \in Nat /\ Len(s) <= Len(t)
      /\ \A i \in 1..Len(s) : u[i + 1] = s[i] /\ v[i + 1] = t[i]
  <2>1. Len(s) <= Len(t)
    BY DEF Shortened
  <2>2. /\ Len(u) = Len(s) + 1 /\ Len(s) \in Nat /\ u[1] = x
        /\ \A i \in 1..Len(s) : u[i + 1] = s[i]
    BY ConsIs
  <2>3. /\ Len(v) = Len(t) + 1 /\ Len(t) \in Nat /\ v[1] = y
        /\ \A i \in 1..Len(t) : v[i + 1] = t[i]
    BY ConsIs
  <2> HIDE DEF u, v
  <2>4. QED
    BY <2>1, <2>2, <2>3
<1>2. s # <<>> <=> Len(s) > 0
  OBVIOUS
<1> HIDE DEF u, v
<1>3. ASSUME NEW i \in 1..Len(u)
      PROVE  /\ u[i].id = v[i].id /\ Begins(u[i].vols, v[i].vols)
             /\ i < Len(u) => u[i] = v[i]
  <2>1. CASE i = 1
    BY <1>1, <1>2, <2>1
  <2>2. CASE i # 1
    <3>1. i - 1 \in 1..Len(s) /\ (i - 1) + 1 = i /\ (i < Len(u) <=> i - 1 < Len(s))
      BY <1>1, <2>2
    <3>2. u[i] = s[i - 1] /\ v[i] = t[i - 1]
      BY <1>1, <3>1
    <3>3. QED
      BY <3>1, <3>2 DEF Shortened
  <2>3. QED
    BY <2>1, <2>2
<1>4. Shortened(u, v)
  BY <1>1, <1>3 DEF Shortened
<1>5. QED
  BY <1>4 DEF u, v

(* An entry that is whole in less of a payload is the entry of all of it.  *)
LEMMA GoodEntryBegins ==
  ASSUME NEW a, NEW b, IsPayload(a), IsPayload(b), Begins(a, b), NEW off \in Nat, GoodEntry(a, off)
  PROVE  GoodEntry(b, off) /\ At(a, off) = At(b, off) /\ At(a, off).len \in Nat /\ At(a, off).n \in Nat
<1>1. At(a, off) = At(b, off) /\ At(a, off).len \in Nat /\ At(a, off).n \in Nat
  BY GoodEntryIs, BeginsAt
<1>2. QED
  BY <1>1, BeginsAt, RecordsAssumption DEF GoodEntry, Fits

LEMMA NestedEntryBegins ==
  ASSUME NEW a, NEW b, IsPayload(a), IsPayload(b), Begins(a, b), NEW off \in Nat, GoodEntry(a, off)
  PROVE  /\ NestedEntry(a, off).id = NestedEntry(b, off).id
         /\ Begins(NestedEntry(a, off).vols, NestedEntry(b, off).vols)
         /\ GoodEntry(a, off + At(a, off).len) => NestedEntry(a, off) = NestedEntry(b, off)
<1> DEFINE l == NestedLimit(a, off)
           m == NestedLimit(b, off)
           n == At(a, off).n
           V == Volumes(a, off + SmeMin, l, n)
           W == Volumes(b, off + SmeMin, m, n)
<1>1. GoodEntry(b, off) /\ At(a, off) = At(b, off) /\ n \in Nat /\ At(a, off).len \in Nat
  BY GoodEntryBegins
<1>2. l \in Nat /\ m \in Nat /\ l <= Len(a) /\ m <= Len(b) /\ off + SmeMin \in Nat
  BY <1>1, GoodEntryIs, RecordsAssumption
<1>3. l <= m
  BY <1>1, BeginsAt DEF NestedLimit, Lesser
<1>4. GoodEntry(a, off + At(a, off).len) => l = m
  BY <1>1, BeginsAt, RecordsAssumption DEF NestedLimit, Lesser, GoodEntry, Fits
<1>5. /\ NestedEntry(a, off) = [id |-> At(a, off).id, vols |-> V.ids]
      /\ NestedEntry(b, off) = [id |-> At(a, off).id, vols |-> W.ids]
  <2> HIDE DEF l, m
  <2>1. NestedEntry(a, off) = [id |-> At(a, off).id, vols |-> V.ids]
    BY Zenon DEF NestedEntry, l
  <2>2. NestedEntry(b, off) = [id |-> At(b, off).id, vols |-> Volumes(b, off + SmeMin, m, At(b, off).n).ids]
    BY Zenon DEF NestedEntry, m
  <2>3. QED
    BY <1>1, <2>1, <2>2, Zenon
<1> HIDE DEF l, m, n
<1>6. Begins(V.ids, W.ids) /\ (l = m => V = W)
  BY <1>1, <1>2, <1>3, VolumesBegin
<1> HIDE DEF V, W
<1>7. QED
  BY <1>4, <1>5, <1>6

LEMMA NestedBegin ==
  ASSUME NEW a, NEW b, IsPayload(a), IsPayload(b), Begins(a, b)
  PROVE  \A n \in Nat, off \in Nat : Shortened(NestedEntries(a, off, n), NestedEntries(b, off, n))
<1> DEFINE P == {n \in Nat : \A off \in Nat : Shortened(NestedEntries(a, off, n), NestedEntries(b, off, n))}
<1>1. ASSUME NEW n \in Nat, NEW off \in Nat, ~(n > 0 /\ GoodEntry(a, off))
      PROVE  Shortened(NestedEntries(a, off, n), NestedEntries(b, off, n)) /\ NestedEntries(a, off, n) = <<>>
  <2>1. NestedEntries(a, off, n) = <<>>
    BY <1>1, NestedEntriesIs
  <2>2. NestedEntries(b, off, n) \in Seq(Entries(b))
    BY NestedEntriesIs
  <2>3. Len(NestedEntries(b, off, n)) \in Nat
    BY <2>2
  <2>4. QED
    BY <2>1, <2>3, ShortenedNothing
<1>2. 0 \in P
  BY <1>1
<1>3. ASSUME NEW n \in P PROVE n + 1 \in P
  <2>1. SUFFICES ASSUME NEW off \in Nat
                 PROVE  Shortened(NestedEntries(a, off, n + 1), NestedEntries(b, off, n + 1))
    OBVIOUS
  <2>2. n \in Nat /\ n + 1 \in Nat /\ n + 1 > 0 /\ (n + 1) - 1 = n
    OBVIOUS
  <2>3. CASE ~GoodEntry(a, off)
    BY <1>1, <2>2, <2>3
  <2>4. CASE GoodEntry(a, off)
    <3> DEFINE next == off + At(a, off).len
               s == NestedEntries(a, next, n)
               t == NestedEntries(b, next, n)
    <3>1. GoodEntry(b, off) /\ At(a, off) = At(b, off) /\ next \in Nat /\ off + At(b, off).len = next
      BY <2>4, GoodEntryBegins
    <3>2. Shortened(s, t)
      BY <3>1
    <3> HIDE DEF next
    <3>3. NestedEntries(a, off, n + 1) = <<NestedEntry(a, off)>> \o s
      BY <2>2, <2>4, NestedEntriesIs DEF next
    <3>4. NestedEntries(b, off, n + 1) = <<NestedEntry(b, off)>> \o t
      BY <2>2, <3>1, NestedEntriesIs
    <3>5. s \in Seq(Entries(a)) /\ t \in Seq(Entries(b))
      BY <2>2, <3>1, NestedEntriesIs
    <3>6. NestedEntry(a, off) \in Entries(a) /\ NestedEntry(b, off) \in Entries(b)
      BY <2>4, <3>1, NestedEntryIs
    <3>7. s # <<>> => NestedEntry(a, off) = NestedEntry(b, off)
      <4>1. s # <<>> => GoodEntry(a, next)
        BY <1>1, <2>2, <3>1
      <4>2. QED
        BY <2>4, <4>1, NestedEntryBegins DEF next
    <3>8. NestedEntry(a, off).id = NestedEntry(b, off).id /\ Begins(NestedEntry(a, off).vols, NestedEntry(b, off).vols)
      BY <2>4, NestedEntryBegins
    <3> HIDE DEF s, t, P
    <3>9. Shortened(<<NestedEntry(a, off)>> \o s, <<NestedEntry(b, off)>> \o t)
      BY <3>2, <3>5, <3>6, <3>7, <3>8, ShortenedCons, Zenon
    <3>10. QED
      BY <3>3, <3>4, <3>9
  <2>5. QED
    BY <2>3, <2>4
<1>4. P = Nat
  <2>1. P \in SUBSET Nat
    OBVIOUS
  <2> HIDE DEF P
  <2>2. QED
    BY <1>2, <1>3, <2>1, NaturalInduction
<1>5. QED
  BY <1>4

(* Where the volumes behind an entry are cut, no entry is taken for one.   *)
LEMMA VolumesBehindBegin ==
  ASSUME NEW a, NEW b, IsPayload(a), IsPayload(b), Begins(a, b), NEW off \in Nat,
         GoodEntry(a, off), Fits(a, off, At(a, off).len)
  PROVE  /\ Begins(VolumesBehind(a, off).ids, VolumesBehind(b, off).ids)
         /\ \/ VolumesBehind(a, off) = VolumesBehind(b, off)
            \/ LET next == VolumesBehind(a, off).end
               IN  ~(GoodEntry(a, next) /\ Fits(a, next, At(a, next).len))
<1> DEFINE o == off + At(a, off).len
           n == At(a, off).n
           V == Volumes(a, o, Len(a), n)
           W == Volumes(b, o, Len(b), n)
<1>1. At(a, off) = At(b, off) /\ n \in Nat /\ o \in Nat /\ o = off + At(b, off).len
  BY GoodEntryBegins
<1>2. VolumesBehind(a, off) = V /\ VolumesBehind(b, off) = W
  BY <1>1 DEF VolumesBehind
<1> HIDE DEF o, n
<1>3. /\ Len(a) \in Nat /\ Len(b) \in Nat /\ Len(a) <= Len(a) /\ Len(b) <= Len(b)
      /\ Len(a) <= Len(b)
  BY BeginsAt
<1>4. Begins(V.ids, W.ids) /\ (V = W \/ Cut(a, V.end, Len(a))) /\ V.end \in Nat
  <2>1. Begins(V.ids, W.ids) /\ (V = W \/ Cut(a, V.end, Len(a)))
    BY SMTT(30), <1>1, <1>3, VolumesBegin
  <2>2. V \in [ids : Seq(IdsOf(a)), end : Nat]
    BY <1>1, <1>3, VolumesIs
  <2>3. QED
    BY <2>1, <2>2
<1> HIDE DEF V, W
<1>5. ASSUME Cut(a, V.end, Len(a)), GoodEntry(a, V.end), Fits(a, V.end, At(a, V.end).len) PROVE FALSE
  <2>1. At(a, V.end).len \in Nat
    BY <1>4, <1>5, GoodEntryIs
  <2>2. QED
    BY <1>3, <1>4, <1>5, <2>1, RecordsAssumption DEF Cut, GoodEntry, Fits
<1>6. QED
  BY <1>2, <1>4, <1>5

LEMMA SeparateBegin ==
  ASSUME NEW a, NEW b, IsPayload(a), IsPayload(b), Begins(a, b)
  PROVE  \A n \in Nat, off \in Nat : Shortened(SeparateEntries(a, off, n), SeparateEntries(b, off, n))
<1> DEFINE good(off) == GoodEntry(a, off) /\ Fits(a, off, At(a, off).len)
           P == {n \in Nat : \A off \in Nat : Shortened(SeparateEntries(a, off, n), SeparateEntries(b, off, n))}
<1>1. ASSUME NEW n \in Nat, NEW off \in Nat, ~(n > 0 /\ good(off))
      PROVE  Shortened(SeparateEntries(a, off, n), SeparateEntries(b, off, n)) /\ SeparateEntries(a, off, n) = <<>>
  <2>1. SeparateEntries(a, off, n) = <<>>
    BY <1>1, SeparateEntriesIs
  <2>2. SeparateEntries(b, off, n) \in Seq(Entries(b))
    BY SeparateEntriesIs
  <2>3. Len(SeparateEntries(b, off, n)) \in Nat
    BY <2>2
  <2>4. QED
    BY <2>1, <2>3, ShortenedNothing
<1>2. 0 \in P
  BY <1>1
<1>3. ASSUME NEW n \in P PROVE n + 1 \in P
  <2>1. SUFFICES ASSUME NEW off \in Nat
                 PROVE  Shortened(SeparateEntries(a, off, n + 1), SeparateEntries(b, off, n + 1))
    OBVIOUS
  <2>2. n \in Nat /\ n + 1 \in Nat /\ n + 1 > 0 /\ (n + 1) - 1 = n
    OBVIOUS
  <2>3. CASE ~good(off)
    <3> HIDE DEF good
    <3>1. QED
      BY <1>1, <2>2, <2>3
  <2>4. CASE good(off)
    <3> DEFINE v == VolumesBehind(a, off)
               w == VolumesBehind(b, off)
               x == SeparateEntry(a, off)
               y == SeparateEntry(b, off)
               s == IF Fits(a, v.end, SmHdr) THEN SeparateEntries(a, v.end, n) ELSE <<>>
               t == IF Fits(b, w.end, SmHdr) THEN SeparateEntries(b, w.end, n) ELSE <<>>
    <3>1. /\ GoodEntry(a, off) /\ Fits(a, off, At(a, off).len)
          /\ GoodEntry(b, off) /\ Fits(b, off, At(b, off).len) /\ At(a, off) = At(b, off)
      <4>1. GoodEntry(b, off) /\ At(a, off) = At(b, off) /\ At(a, off).len \in Nat
        BY <2>4, GoodEntryBegins
      <4>2. QED
        BY <2>4, <4>1, BeginsAt DEF Fits
    <3>2. /\ v \in [ids : Seq(IdsOf(a)), end : Nat] /\ x \in Entries(a)
          /\ w \in [ids : Seq(IdsOf(b)), end : Nat] /\ y \in Entries(b)
      BY <3>1, VolumesBehindIs
    <3>3. v.end \in Nat /\ w.end \in Nat
      <4> HIDE DEF v, w
      <4>1. QED
        BY <3>2
    <3>4. Begins(v.ids, w.ids) /\ (v = w \/ ~good(v.end))
      BY <3>1, VolumesBehindBegin
    <3>5. x = [id |-> At(a, off).id, vols |-> v.ids] /\ y = [id |-> At(a, off).id, vols |-> w.ids]
      BY <3>1 DEF SeparateEntry
    <3>6. SeparateEntries(a, off, n + 1) = <<x>> \o s
      BY <2>2, <3>1, SeparateEntriesIs
    <3>7. SeparateEntries(b, off, n + 1) = <<y>> \o t
      BY <2>2, <3>1, SeparateEntriesIs
    <3>8. s \in Seq(Entries(a)) /\ t \in Seq(Entries(b))
      <4>1. SeparateEntries(a, v.end, n) \in Seq(Entries(a)) /\ SeparateEntries(b, w.end, n) \in Seq(Entries(b))
        BY <2>2, <3>3, SeparateEntriesIs
      <4> HIDE DEF v, w
      <4>2. QED
        BY <4>1
    <3>9. s # <<>> => v = w
      <4>1. s # <<>> => good(v.end)
        <5>1. s # <<>> => SeparateEntries(a, v.end, n) # <<>>
          OBVIOUS
        <5> HIDE DEF v, s, good
        <5>2. QED
          BY <1>1, <2>2, <3>3, <5>1
      <4> HIDE DEF v, w, s, good
      <4>2. QED
        BY <3>4, <4>1
    <3>10. Shortened(s, t)
      <4>1. CASE s = <<>>
        <5>1. Len(t) \in Nat
          <6> HIDE DEF t
          <6>1. QED
            BY <3>8
        <5> HIDE DEF s, t
        <5>2. QED
          BY <4>1, <5>1, ShortenedNothing
      <4>2. CASE s # <<>>
        <5>1. v = w /\ Fits(a, v.end, SmHdr)
          <6> HIDE DEF v, w
          <6>1. Fits(a, v.end, SmHdr)
            BY <4>2
          <6>2. QED
            BY <3>9, <4>2, <6>1
        <5>2. Fits(b, w.end, SmHdr)
          <6> HIDE DEF v, w
          <6>1. QED
            BY <3>3, <5>1, BeginsAt, RecordsAssumption DEF Fits
        <5>3. s = SeparateEntries(a, v.end, n) /\ t = SeparateEntries(b, v.end, n)
          <6> HIDE DEF v, w
          <6>1. QED
            BY <5>1, <5>2
        <5>4. Shortened(SeparateEntries(a, v.end, n), SeparateEntries(b, v.end, n))
          <6> HIDE DEF v
          <6>1. QED
            BY <3>3
        <5> HIDE DEF s, t, v
        <5>5. QED
          BY <5>3, <5>4
      <4>3. QED
        BY <4>1, <4>2
    <3> HIDE DEF v, w, x, y, s, t, P, good
    <3>11. x.id = y.id /\ Begins(x.vols, y.vols) /\ (s # <<>> => x = y)
      BY <3>4, <3>5, <3>9
    <3>12. Shortened(<<x>> \o s, <<y>> \o t)
      BY <3>2, <3>8, <3>10, <3>11, ShortenedCons, Zenon
    <3>13. QED
      BY <3>6, <3>7, <3>12
  <2>5. QED
    BY <2>3, <2>4
<1>4. P = Nat
  <2>1. P \in SUBSET Nat
    OBVIOUS
  <2> HIDE DEF P
  <2>2. QED
    BY <1>2, <1>3, <2>1, NaturalInduction
<1>5. QED
  BY <1>4

(* What the parsers make of less of a set map is the beginning of what     *)
(* they make of all of it.                                                 *)
THEOREM ParsedShortened ==
  ASSUME NEW id, NEW a, NEW b, IsPayload(a), IsPayload(b), Begins(a, b)
  PROVE  Shortened(ParseSetMap(id, a), ParseSetMap(id, b))
<1>1. ParseSetMap(id, b) \in Seq(Entries(b))
  <2>1. CASE Fits(b, 0, SmHdr)
    <3>1. At(b, 0).n \in Nat /\ SmHdr \in Nat
      BY <2>1, PayloadIs, RecordsAssumption DEF Fits
    <3>2. QED
      BY <2>1, <3>1, NestedEntriesIs, SeparateEntriesIs DEF ParseSetMap
  <2>2. CASE ~Fits(b, 0, SmHdr)
    BY <2>2 DEF ParseSetMap
  <2>3. QED
    BY <2>1, <2>2
<1>2. CASE ~Fits(a, 0, SmHdr)
  <2>1. Len(ParseSetMap(id, b)) \in Nat
    BY <1>1
  <2>2. ParseSetMap(id, a) = <<>>
    BY <1>2 DEF ParseSetMap
  <2>3. QED
    BY <2>1, <2>2, ShortenedNothing
<1>3. CASE Fits(a, 0, SmHdr)
  <2>1. /\ Fits(b, 0, SmHdr) /\ At(a, 0) = At(b, 0) /\ At(a, 0).n \in Nat /\ SmHdr \in Nat
    BY <1>3, BeginsAt, PayloadIs, RecordsAssumption DEF Fits
  <2>2. QED
    BY <1>3, <2>1, NestedBegin, SeparateBegin DEF ParseSetMap
<1>4. QED
  BY <1>2, <1>3

-----------------------------------------------------------------------------
(* The set map that a search found.                                       *)

(* Two payloads, one behind the other, are a payload.                      *)
LEMMA PayloadJoined ==
  ASSUME NEW a, NEW b, IsPayload(a), IsPayload(b)
  PROVE  /\ IsPayload(a \o b) /\ Begins(a, a \o b)
         /\ Len(a \o b) = Len(a) + Len(b)
<1> DEFINE X == {a[q] : q \in DOMAIN a}
           Y == {b[q] : q \in DOMAIN b}
           S == X \cup Y
           c == a \o b
<1>1. a \in Seq(X) /\ b \in Seq(Y)
  BY DEF IsPayload
<1>2. \A x \in S : x.len \in Nat /\ x.n \in Nat
  BY DEF IsPayload
<1> HIDE DEF X, Y
<1>3. a \in Seq(S) /\ b \in Seq(S)
  BY <1>1
<1> HIDE DEF S
<1>4. /\ c \in Seq(S) /\ Len(c) = Len(a) + Len(b) /\ Len(a) \in Nat /\ Len(b) \in Nat
      /\ \A i \in 1..Len(a) : c[i] = a[i]
  <2>1. c \in Seq(S) /\ Len(c) = Len(a) + Len(b) /\ Len(a) \in Nat /\ Len(b) \in Nat
    BY <1>3
  <2>2. ASSUME NEW i \in 1..Len(a) PROVE c[i] = a[i]
    BY <1>3
  <2>3. QED
    BY <2>1, <2>2
<1> HIDE DEF c
<1>5. DOMAIN c = 1..Len(c) /\ Len(c) \in Nat /\ \A q \in 1..Len(c) : c[q] \in S
  BY <1>4
<1>6. c \in Seq({c[q] : q \in DOMAIN c})
  BY <1>4, <1>5
<1>7. IsPayload(c)
  BY <1>2, <1>5, <1>6 DEF IsPayload
<1>8. Begins(a, c)
  BY <1>4 DEF Begins
<1>9. QED
  BY <1>4, <1>7, <1>8 DEF c

(* So are the first cells of one, and it begins with all that it held.     *)
LEMMA PayloadCut ==
  ASSUME NEW a, IsPayload(a), NEW n \in Nat, n <= Len(a)
  PROVE  /\ IsPayload(SubSeq(a, 1, n)) /\ Len(SubSeq(a, 1, n)) = n
         /\ \A i \in 1..n : SubSeq(a, 1, n)[i] = a[i]
         /\ \A b : Begins(b, a) /\ Len(b) <= n => Begins(b, SubSeq(a, 1, n))
<1> DEFINE X == {a[q] : q \in DOMAIN a}
           c == SubSeq(a, 1, n)
<1>1. a \in Seq(X) /\ DOMAIN a = 1..Len(a) /\ Len(a) \in Nat /\ \A x \in X : x.len \in Nat /\ x.n \in Nat
  BY PayloadIs DEF IsPayload
<1>2. \A i \in 1..n : a[i] \in X
  BY <1>1
<1> HIDE DEF X
<1>3. c \in Seq(X) /\ Len(c) = n /\ \A i \in 1..n : c[i] = a[i]
  <2>1. /\ c \in Seq(X) /\ Len(c) = (IF 1 <= n THEN n - 1 + 1 ELSE 0)
        /\ \A i \in 1..(n - 1 + 1) : c[i] = a[1 + i - 1]
    BY <1>2, SubSeqProperties
  <2> HIDE DEF c
  <2>2. QED
    BY <2>1
<1> HIDE DEF c
<1>4. DOMAIN c = 1..n /\ \A q \in 1..n : c[q] \in X
  BY <1>3
<1>5. IsPayload(c)
  <2>1. c \in Seq({c[q] : q \in DOMAIN c})
    BY <1>3, <1>4
  <2>2. QED
    BY <1>1, <1>4, <2>1 DEF IsPayload
<1>6. \A b : Begins(b, a) /\ Len(b) <= n => Begins(b, c)
  BY <1>3 DEF Begins
<1>7. QED
  BY <1>3, <1>5, <1>6 DEF c

LEMMA CutsAgree ==
  ASSUME NEW a, NEW b, IsPayload(a), IsPayload(b), Begins(a, b), NEW n \in Nat, n <= Len(a)
  PROVE  SubSeq(a, 1, n) = SubSeq(b, 1, n)
<1>1. \A i \in 1..n : a[i] = b[i]
  BY PayloadIs DEF Begins
<1>2. QED
  BY <1>1

LEMMA BeginsSelf == ASSUME NEW a, IsPayload(a) PROVE Begins(a, a)
BY PayloadIs DEF Begins

LEMMA BeginsOn ==
  ASSUME NEW a, NEW b, NEW c, IsPayload(a), IsPayload(b), IsPayload(c), Begins(a, b), Begins(b, c)
  PROVE  Begins(a, c)
<1>1. Len(a) \in Nat /\ Len(b) \in Nat /\ Len(c) \in Nat
  BY PayloadIs
<1>2. QED
  BY <1>1 DEF Begins

-----------------------------------------------------------------------------
(* The cells in one block more are those in the blocks so far and its own. *)
LEMMA HeldIs ==
  ASSUME NEW t, Len(t) \in Nat, NEW p \in 0..(Len(t) - 1),
         \A q \in 0..(Len(t) - 1) : IsPayload(t[q + 1].cells)
  PROVE  /\ Held(t, p)[0] = t[p + 1].cells
         /\ \A d \in 1..(Len(t) - 1 - p) : Held(t, p)[d] = Held(t, p)[d - 1] \o t[p + 1 + d].cells
         /\ \A d \in 0..(Len(t) - 1 - p) : IsPayload(Held(t, p)[d])
<1> DEFINE n == Len(t) - 1 - p
           U == UNION {{t[q + 1].cells[i] : i \in DOMAIN t[q + 1].cells} : q \in 0..(Len(t) - 1)}
           S == Seq(U)
           more(d) == t[p + 1 + d].cells
           step == [d \in 1..n |-> [s \in S |-> s \o more(d)]]
           row(g, d) == IF d = 0 THEN t[p + 1].cells ELSE g[d - 1] \o more(d)
           h == CHOOSE h : h = [d \in 0..n |-> row(h, d)]
<1>1. Held(t, p) = h
  BY Zenon DEF Held
<1>2. ASSUME NEW q \in 0..(Len(t) - 1) PROVE t[q + 1].cells \in S
  <2> DEFINE c == t[q + 1].cells
             X == {c[i] : i \in DOMAIN c}
  <2>1. c \in Seq(X)
    BY DEF IsPayload
  <2>2. X \subseteq U
    OBVIOUS
  <2> HIDE DEF X, c, U
  <2>3. c \in Seq(U)
    BY <2>1, <2>2
  <2>4. QED
    BY <2>3 DEF c
<1>3. n \in Nat
  OBVIOUS
<1>4. ASSUME NEW d \in 0..n PROVE t[p + 1 + d].cells \in S /\ IsPayload(t[p + 1 + d].cells)
  <2>1. p + d \in 0..(Len(t) - 1) /\ (p + d) + 1 = p + 1 + d
    OBVIOUS
  <2> HIDE DEF S, n
  <2>2. QED
    BY <1>2, <2>1
<1>5. t[p + 1].cells \in S /\ IsPayload(t[p + 1].cells)
  <2> HIDE DEF S
  <2>1. QED
    BY <1>2
<1>6. step \in [1..n -> [S -> S]]
  <2>1. \A s, u \in S : s \o u \in S
    OBVIOUS
  <2>2. \A d \in 1..n : more(d) \in S
    <3> HIDE DEF S, n
    <3>1. \A d \in 1..n : d \in 0..n
      BY <1>3
    <3>2. QED
      BY <1>4, <3>1, Zenon
  <2> HIDE DEF S, n, more
  <2>3. QED
    BY <2>1, <2>2
<1>7. PICK f \in [0..n -> S] : Counts(f, n, t[p + 1].cells, step)
  <2> HIDE DEF S, n, step
  <2>1. QED
    BY <1>3, <1>5, <1>6, CountingExists, Zenon
<1>8. h = [d \in 0..n |-> row(h, d)]
  <2>1. f = [d \in 0..n |-> row(f, d)]
    <3>1. ASSUME NEW d \in 0..n PROVE f[d] = row(f, d)
      <4>1. CASE d = 0
        BY <1>7, <4>1 DEF Counts
      <4>2. CASE d # 0
        <5>1. d \in 1..n /\ d - 1 \in 0..n
          BY <1>3, <4>2
        <5>2. f[d] = step[d][f[d - 1]]
          BY <1>7, <5>1 DEF Counts
        <5>3. f[d - 1] \in S
          <6> HIDE DEF S, n
          <6>1. QED
            BY <5>1
        <5> HIDE DEF S, n, more
        <5>4. step[d][f[d - 1]] = f[d - 1] \o more(d)
          BY <5>1, <5>3
        <5>5. QED
          BY <4>2, <5>2, <5>4
      <4>3. QED
        BY <4>1, <4>2
    <3> HIDE DEF row, S, n
    <3>2. QED
      BY <3>1
  <2> HIDE DEF row, n
  <2>2. QED
    BY <2>1, Zenon
<1> HIDE DEF h
<1>9. h[0] = t[p + 1].cells /\ \A d \in 1..n : h[d] = h[d - 1] \o t[p + 1 + d].cells
  <2>1. \A d \in 0..n : h[d] = row(h, d)
    <3> HIDE DEF row
    <3>1. QED
      BY <1>8
  <2>2. 0 \in 0..n /\ \A d \in 1..n : d \in 0..n /\ d # 0
    BY <1>3
  <2> HIDE DEF n
  <2>3. QED
    BY <2>1, <2>2
<1> DEFINE P == {d \in Nat : d <= n => IsPayload(h[d])}
<1> HIDE DEF n
<1>10. 0 \in P
  BY <1>5, <1>9
<1>11. ASSUME NEW d \in P PROVE d + 1 \in P
  <2>1. SUFFICES ASSUME d + 1 <= n PROVE IsPayload(h[d + 1])
    OBVIOUS
  <2>2. d + 1 \in 1..n /\ d + 1 \in 0..n /\ (d + 1) - 1 = d /\ d <= n
    BY <1>3, <2>1
  <2>3. h[d + 1] = h[d] \o t[p + 1 + (d + 1)].cells
    BY <1>9, <2>2
  <2>4. IsPayload(h[d]) /\ IsPayload(t[p + 1 + (d + 1)].cells)
    BY <1>4, <2>2
  <2>5. QED
    BY <2>3, <2>4, PayloadJoined
<1>12. P = Nat
  <2>1. P \in SUBSET Nat
    OBVIOUS
  <2> HIDE DEF P
  <2>2. QED
    BY <1>10, <1>11, <2>1, NaturalInduction
<1>13. \A d \in 0..n : IsPayload(h[d])
  BY <1>3, <1>12
<1>14. QED
  BY <1>1, <1>9, <1>13 DEF n

LEMMA HeldBegins ==
  ASSUME NEW t, Len(t) \in Nat, NEW p \in 0..(Len(t) - 1),
         \A q \in 0..(Len(t) - 1) : IsPayload(t[q + 1].cells),
         NEW d \in 0..(Len(t) - 1 - p)
  PROVE  \A e \in d..(Len(t) - 1 - p) : Begins(Held(t, p)[d], Held(t, p)[e])
<1> DEFINE n == Len(t) - 1 - p
           h == Held(t, p)
           P == {i \in Nat : d + i <= n => Begins(h[d], h[d + i])}
<1>1. n \in Nat /\ d \in 0..n
  OBVIOUS
<1>2. /\ \A e \in 1..n : h[e] = h[e - 1] \o t[p + 1 + e].cells
      /\ \A e \in 0..n : IsPayload(h[e])
  BY HeldIs
<1>3. \A e \in 1..n : IsPayload(t[p + 1 + e].cells)
  <2>1. ASSUME NEW e \in 1..n PROVE IsPayload(t[p + 1 + e].cells)
    <3>1. p + e \in 0..(Len(t) - 1) /\ (p + e) + 1 = p + 1 + e
      OBVIOUS
    <3> HIDE DEF n
    <3>2. QED
      BY <3>1
  <2>2. QED
    BY <2>1
<1> HIDE DEF n, h
<1>4. 0 \in P
  <2>1. d + 0 = d
    BY <1>1
  <2>2. QED
    BY <1>1, <1>2, <2>1, BeginsSelf
<1>5. ASSUME NEW i \in P PROVE i + 1 \in P
  <2>1. SUFFICES ASSUME d + (i + 1) <= n PROVE Begins(h[d], h[d + (i + 1)])
    OBVIOUS
  <2>2. /\ d + (i + 1) \in 1..n /\ (d + (i + 1)) - 1 = d + i /\ d + i \in 0..n /\ d + i <= n
        /\ d + (i + 1) \in 0..n
    BY <1>1, <2>1
  <2>3. Begins(h[d], h[d + i])
    BY <2>2
  <2>4. Begins(h[d + i], h[d + (i + 1)])
    <3>1. h[d + (i + 1)] = h[d + i] \o t[p + 1 + (d + (i + 1))].cells
      BY <1>2, <2>2
    <3>2. QED
      BY <1>2, <1>3, <2>2, <3>1, PayloadJoined
  <2>5. QED
    BY <1>1, <1>2, <2>2, <2>3, <2>4, BeginsOn
<1>6. P = Nat
  <2>1. P \in SUBSET Nat
    OBVIOUS
  <2> HIDE DEF P
  <2>2. QED
    BY <1>4, <1>5, <2>1, NaturalInduction
<1>7. ASSUME NEW e \in d..n PROVE Begins(h[d], h[e])
  <2>1. e - d \in Nat /\ d + (e - d) = e /\ e <= n
    BY <1>1
  <2>2. e - d \in P
    <3> HIDE DEF P
    <3>1. QED
      BY <1>6, <2>1
  <2>3. QED
    BY <2>1, <2>2
<1>8. QED
  BY <1>7 DEF n, h
-----------------------------------------------------------------------------
(* What readStreamPayload has of a set map that begins in block p, in that *)
(* block and the next m.                                                   *)

(* Once it has as many cells as were declared, it has what was recorded.   *)
LEMMA WholeMap ==
  ASSUME MapsWhole, tape \in Tapes, NEW p \in 0..(Len(tape) - 1), B(p).k = "map",
         NEW m \in 0..(Len(tape) - 1 - p), B(p).len <= Len(Held(tape, p)[m])
  PROVE  /\ IsPayload(SubSeq(Held(tape, p)[m], 1, B(p).len))
         /\ ParseSetMap(B(p).id, SubSeq(Held(tape, p)[m], 1, B(p).len)) = B(p).rec
<1> DEFINE h == Held(tape, p)
           n == Len(tape) - 1 - p
           b == B(p)
<1>1. Len(tape) \in Nat /\ \A q \in 0..(Len(tape) - 1) : IsPayload(tape[q + 1].cells)
  BY TapeType DEF MapsWhole
<1>2. b = tape[p + 1] /\ b.len \in Nat /\ MapWhole(tape, p)
  BY DEF MapsWhole, B
<1>3. PICK d \in 0..n : Len(h[d]) >= b.len /\ ParseSetMap(b.id, SubSeq(h[d], 1, b.len)) = b.rec
  BY <1>2 DEF MapWhole
<1>4. \A e \in 0..n : IsPayload(h[e])
  BY <1>1, HeldIs
<1>5. Begins(h[d], h[m]) \/ Begins(h[m], h[d])
  <2>1. CASE d <= m
    <3>1. m \in d..n
      BY <1>1, <2>1
    <3>2. QED
      BY <1>1, <3>1, HeldBegins
  <2>2. CASE m <= d
    <3>1. d \in m..n
      BY <1>1, <2>2
    <3>2. QED
      BY <1>1, <3>1, HeldBegins
  <2>3. QED
    BY <1>1, <2>1, <2>2
<1> HIDE DEF h, n, b
<1>6. IsPayload(h[m]) /\ IsPayload(h[d]) /\ b.len <= Len(h[m]) /\ b.len <= Len(h[d])
  <2>1. Len(h[d]) \in Nat
    BY <1>4, PayloadIs
  <2>2. QED
    BY <1>2, <1>3, <1>4, <2>1 DEF h, b, n
<1>7. SubSeq(h[d], 1, b.len) = SubSeq(h[m], 1, b.len)
  BY <1>2, <1>5, <1>6, CutsAgree
<1>8. IsPayload(SubSeq(h[m], 1, b.len))
  BY <1>2, <1>6, PayloadCut
<1>9. QED
  BY <1>3, <1>7, <1>8 DEF h, b

(* Before, the next block is one of the set map's, and what there is of it *)
(* is parsed into the first of what was recorded.                          *)
LEMMA PartOfMap ==
  ASSUME MapsWhole, tape \in Tapes, NEW p \in 0..(Len(tape) - 1), B(p).k = "map",
         NEW m \in 0..(Len(tape) - 1 - p), Len(Held(tape, p)[m]) < B(p).len
  PROVE  /\ m + 1 \in 0..(Len(tape) - 1 - p) /\ B(p + 1 + m).k # "fm"
         /\ Shortened(ParseSetMap(B(p).id, Held(tape, p)[m]), B(p).rec)
<1> DEFINE h == Held(tape, p)
           n == Len(tape) - 1 - p
           b == B(p)
<1>1. Len(tape) \in Nat /\ \A q \in 0..(Len(tape) - 1) : IsPayload(tape[q + 1].cells)
  BY TapeType DEF MapsWhole
<1>2. b = tape[p + 1] /\ b.len \in Nat /\ MapWhole(tape, p)
  BY DEF MapsWhole, B
<1>3. PICK d \in 0..n : /\ \A q \in (p + 1)..(p + d) : tape[q + 1].k # "fm"
                        /\ Len(h[d]) >= b.len
                        /\ ParseSetMap(b.id, SubSeq(h[d], 1, b.len)) = b.rec
  BY <1>2 DEF MapWhole
<1>4. IsPayload(h[d]) /\ IsPayload(h[m]) /\ Len(h[d]) \in Nat /\ Len(h[m]) \in Nat
  <2>1. \A e \in 0..n : IsPayload(h[e])
    BY <1>1, HeldIs
  <2> HIDE DEF h, n
  <2>2. m \in 0..n
    BY DEF n
  <2>3. QED
    BY <2>1, <2>2, PayloadIs
<1>5. m < d
  <2>1. SUFFICES ASSUME d <= m PROVE FALSE
    BY <1>1
  <2>2. m \in d..n
    BY <1>1, <2>1
  <2>3. Begins(h[d], h[m])
    BY <1>1, <2>2, HeldBegins
  <2>4. Len(h[d]) <= Len(h[m]) /\ Len(h[m]) < b.len
    BY <2>3 DEF Begins
  <2> HIDE DEF h, b
  <2>5. QED
    BY <1>2, <1>3, <1>4, <2>4
<1>6. m + 1 \in 0..n /\ B(p + 1 + m).k # "fm"
  <2>1. p + 1 + m \in (p + 1)..(p + d) /\ m + 1 \in 0..n
    BY <1>1, <1>5
  <2>2. tape[(p + 1 + m) + 1].k # "fm"
    BY <1>3, <2>1
  <2>3. QED
    BY <2>1, <2>2 DEF B
<1>7. Begins(h[m], h[d])
  <2>1. d \in m..n
    BY <1>1, <1>5
  <2>2. QED
    BY <1>1, <2>1, HeldBegins
<1>8. Len(h[m]) < b.len
  OBVIOUS
<1> HIDE DEF h, b, n
<1>9. Begins(h[m], SubSeq(h[d], 1, b.len)) /\ IsPayload(SubSeq(h[d], 1, b.len))
  BY <1>2, <1>3, <1>4, <1>7, <1>8, PayloadCut
<1>10. Shortened(ParseSetMap(b.id, h[m]), ParseSetMap(b.id, SubSeq(h[d], 1, b.len)))
  BY <1>4, <1>9, ParsedShortened
<1>11. QED
  BY <1>3, <1>6, <1>10 DEF h, b, n

-----------------------------------------------------------------------------
(* While a payload is read, its cells are those of the blocks since the    *)
(* set map's first.                                                        *)
MapRead ==
  pc = "payload" =>
    LET p == found.from
        m == found.next - (p + 1)
    IN  /\ p \in 0..(Len(tape) - 1) /\ B(p).k = "map" /\ found.id = B(p).id /\ found.len = B(p).len
        /\ found.next \in Int /\ m \in 0..(Len(tape) - 1 - p)
        /\ found.cells = IF found.len = 0 THEN <<>> ELSE Held(tape, p)[m]

(* A set map that is whole is parsed as recorded, a failure or none.       *)
LEMMA WholeParsed ==
  ASSUME NEW id, NEW cells, IsPayload(cells), NEW rec, ParseSetMap(id, cells) = rec
  PROVE  Shortened(rec, rec)
BY BeginsSelf, ParsedShortened

LEMMA BackwardRead ==
  ASSUME MapsWhole
  PROVE  \A o : Inv /\ Backward(o) => MapRead' /\ pc' # "found"
<1> SUFFICES ASSUME NEW o, Inv, Backward(o) PROVE MapRead' /\ pc' # "found"
  OBVIOUS
<1> DEFINE p == last - delta
<1>1. pc' \in {"back", "payload", "chain", "none"} /\ UNCHANGED tape
  BY DEF Backward, TryChain
<1>2. SUFFICES ASSUME pc' = "payload" PROVE MapRead'
  BY <1>1 DEF MapRead
<1>3. /\ p >= 0 /\ B(p).k = "map"
      /\ found' = [id |-> B(p).id, len |-> B(p).len, from |-> p, next |-> p + 1,
                   cells |-> IF B(p).len = 0 THEN <<>> ELSE B(p).cells]
  BY <1>2 DEF Backward, TryChain
<1>4. Len(tape) \in Nat /\ p \in 0..(Len(tape) - 1)
  BY <1>3, TapeType DEF Inv, TypeOK, Learnt, Anchored, Backward, Probed
<1> HIDE DEF p
<1>5. Held(tape, p)[0] = B(p).cells
  BY <1>4, HeldIs DEF MapsWhole, Inv, B
<1>6. /\ found'.from = p /\ found'.id = B(p).id /\ found'.len = B(p).len /\ found'.next = p + 1
      /\ found'.cells = IF found'.len = 0 THEN <<>> ELSE B(p).cells
  BY <1>3
<1>7. p + 1 \in Int /\ (p + 1) - (p + 1) = 0 /\ 0 \in 0..(Len(tape) - 1 - p)
  BY <1>4
<1>8. B(found.from)' = B(p)
  BY <1>1, <1>6 DEF B
<1>9. QED
  BY <1>1, <1>3, <1>4, <1>5, <1>6, <1>7, <1>8 DEF MapRead, B

LEMMA PayloadRead ==
  ASSUME MapsWhole
  PROVE  \A o : Inv /\ MapRead /\ Payload(o) => MapRead' /\ MapParsed'
<1> SUFFICES ASSUME NEW o, Inv, MapRead, Payload(o) PROVE MapRead' /\ MapParsed'
  OBVIOUS
<1> DEFINE p == found.from
           m == found.next - (p + 1)
           h == Held(tape, p)
           b == B(p)
<1>1. /\ p \in 0..(Len(tape) - 1) /\ b.k = "map" /\ found.id = b.id /\ found.len = b.len
      /\ m \in 0..(Len(tape) - 1 - p) /\ Len(tape) \in Nat /\ found.next = p + 1 + m
      /\ found.cells = IF b.len = 0 THEN <<>> ELSE h[m]
  BY TapeType DEF MapRead, Payload, Inv
<1>2. /\ b.len \in Nat /\ tape \in Tapes /\ faults \in Nat
      /\ \A q \in 0..(Len(tape) - 1) : IsPayload(tape[q + 1].cells)
  <2>1. tape \in Tapes /\ faults \in Nat
    BY DEF Inv, TypeOK
  <2>2. \A q \in 0..(Len(tape) - 1) : IsPayload(tape[q + 1].cells)
    BY <2>1 DEF MapsWhole
  <2>3. b.len \in Nat
    BY <1>1, <2>1 DEF MapsWhole, B
  <2>4. QED
    BY <2>1, <2>2, <2>3
<1>3. IsPayload(h[m]) /\ Len(h[m]) \in Nat
  <2>1. IsPayload(h[m])
    BY <1>1, <1>2, HeldIs
  <2>2. QED
    BY <2>1, PayloadIs
<1>4. UNCHANGED tape /\ \A q : B(q)' = B(q)
  BY DEF Payload, B
<1>5. Len(found.cells) < found.len => /\ found.cells = h[m] /\ m + 1 \in 0..(Len(tape) - 1 - p)
                                      /\ B(found.next).k # "fm" /\ found.next # Len(tape)
                                      /\ Shortened(ParseSetMap(b.id, h[m]), b.rec)
  <2> SUFFICES ASSUME Len(found.cells) < found.len
               PROVE  /\ found.cells = h[m] /\ m + 1 \in 0..(Len(tape) - 1 - p)
                      /\ B(found.next).k # "fm" /\ found.next # Len(tape)
                      /\ Shortened(ParseSetMap(b.id, h[m]), b.rec)
    OBVIOUS
  <2> HIDE DEF m, h, b, p
  <2>1. b.len # 0
    BY <1>1
  <2>2. found.cells = h[m] /\ Len(h[m]) < b.len
    BY <1>1, <2>1
  <2>3. /\ m + 1 \in 0..(Len(tape) - 1 - p) /\ B(p + 1 + m).k # "fm"
        /\ Shortened(ParseSetMap(b.id, h[m]), b.rec)
    BY <1>1, <1>2, <2>2, PartOfMap DEF h, b
  <2>4. found.next # Len(tape)
    BY <1>1, <2>3
  <2>5. QED
    BY <1>1, <2>2, <2>3, <2>4
<1>6. FoundType
  BY DEF Inv
<1>7. CASE /\ Len(found.cells) < found.len /\ UNCHANGED pc
           /\ found' = [found EXCEPT !.cells = @ \o B(found.next).cells, !.next = found.next + 1]
  <2>1. /\ found'.from = p /\ found'.id = b.id /\ found'.len = b.len /\ found'.next = found.next + 1
        /\ found'.cells = found.cells \o B(found.next).cells
    <3> HIDE DEF m, h, b
    <3>1. QED
      BY <1>1, <1>6, <1>7 DEF FoundType
  <2>2. found'.next - (p + 1) = m + 1 /\ found'.next \in Int
    BY <1>1, <2>1
  <2>3. m + 1 \in 1..(Len(tape) - 1 - p) /\ (m + 1) - 1 = m /\ B(found.next) = tape[p + 1 + (m + 1)]
    <3>1. m + 1 \in 1..(Len(tape) - 1 - p) /\ (m + 1) - 1 = m /\ found.next + 1 = p + 1 + (m + 1)
      BY SMTT(30), <1>1, <1>5, <1>7
    <3>2. QED
      BY <3>1 DEF B
  <2> HIDE DEF m, h, b, p
  <2>4. h[m + 1] = h[m] \o B(found.next).cells
    <3>1. \A d \in 1..(Len(tape) - 1 - p) : h[d] = h[d - 1] \o tape[p + 1 + d].cells
      BY <1>1, <1>2, HeldIs DEF h
    <3>2. h[m + 1] = h[(m + 1) - 1] \o tape[p + 1 + (m + 1)].cells
      BY <2>3, <3>1
    <3>3. QED
      BY <2>3, <3>2
  <2>5. found'.cells = h[m + 1] /\ found'.len # 0
    <3>1. found.cells = h[m] /\ Len(found.cells) < found.len
      BY <1>5, <1>7
    <3>2. found'.cells = h[m + 1]
      BY <2>1, <2>4, <3>1
    <3>3. found'.len # 0
      BY <1>1, <1>2, <1>3, <2>1, <3>1
    <3>4. QED
      BY <3>2, <3>3
  <2>6. pc' = "payload"
    BY <1>7 DEF Payload
  <2>7. MapRead'
    BY <1>1, <1>4, <1>5, <1>7, <2>1, <2>2, <2>5 DEF MapRead, h, b
  <2>8. QED
    BY <2>6, <2>7 DEF MapParsed
<1>8. CASE /\ Len(found.cells) < found.len /\ Breaks(o) /\ pc' = "found" /\ UNCHANGED found
  <2>1. faults' # 0
    BY <1>2, <1>8 DEF Breaks
  <2>2. found'.id = b.id /\ found'.cells = h[m] /\ B(found.from)' = b /\ b.k = "map"
    BY <1>1, <1>4, <1>5, <1>8
  <2> HIDE DEF m, h, b
  <2>3. MapParsed'
    BY <1>5, <1>8, <2>1, <2>2 DEF MapParsed
  <2>4. QED
    BY <1>8, <2>3 DEF MapRead
<1>9. CASE /\ Len(found.cells) >= found.len /\ pc' = "found" /\ UNCHANGED faults
           /\ found' = [found EXCEPT !.cells = SubSeq(@, 1, found.len)]
  <2>1. found'.id = b.id /\ found'.cells = SubSeq(found.cells, 1, b.len) /\ found'.from = p
    <3> HIDE DEF m, h, b
    <3>1. QED
      BY <1>1, <1>6, <1>9 DEF FoundType
  <2> HIDE DEF m, h, b, p
  <2>2. found'.cells = SubSeq(h[m], 1, b.len) /\ b.len <= Len(h[m])
    <3>1. CASE b.len = 0
      <4>1. SubSeq(<<>>, 1, 0) = <<>> /\ SubSeq(h[m], 1, 0) = <<>>
        BY SubSeqEmpty
      <4>2. QED
        BY <1>1, <1>3, <2>1, <3>1, <4>1
    <3>2. CASE b.len # 0
      BY <1>1, <1>2, <1>3, <1>9, <2>1, <3>2
    <3>3. QED
      BY <3>1, <3>2
  <2>3. IsPayload(found'.cells) /\ ParseSetMap(b.id, found'.cells) = b.rec
    <3>1. IsPayload(SubSeq(h[m], 1, b.len)) /\ ParseSetMap(b.id, SubSeq(h[m], 1, b.len)) = b.rec
      BY <1>1, <1>2, <2>2, WholeMap DEF h, b
    <3>2. QED
      BY <2>2, <3>1
  <2>4. Shortened(b.rec, b.rec)
    BY <2>3, WholeParsed
  <2>5. B(found.from)' = b
    BY <1>4, <2>1 DEF b
  <2>6. MapParsed'
    BY <1>1, <2>1, <2>3, <2>4, <2>5 DEF MapParsed
  <2>7. QED
    BY <1>9, <2>6 DEF MapRead
<1>10. QED
  <2>1. NextBlock = found.next
    BY DEF NextBlock
  <2> HIDE DEF m, h, b, p
  <2>2. QED
    BY <1>5, <1>7, <1>8, <1>9, <2>1 DEF Payload, Works

(* A stream that LastOf returns, unless it has none, is one of those with  *)
(* the ids.                                                                *)
LEMMA LastOfSome ==
  ASSUME NEW streams, NEW ids, Len(streams) \in Nat, DOMAIN streams = 1..Len(streams),
         LastOf(streams, ids).cells # <<>>
  PROVE  \E j \in 1..Len(streams) : LastOf(streams, ids) = streams[j] /\ streams[j].id \in ids
<1> DEFINE hits == {i \in DOMAIN streams : streams[i].id \in ids}
           n == Len(streams)
<1>1. hits # {}
  BY LastOfNone
<1>2. PICK j \in hits : \A i \in hits : i <= j
  <2> DEFINE T == {n - i : i \in hits}
  <2>1. T \in SUBSET Nat /\ T # {}
    BY <1>1
  <2>2. PICK x \in T : \A y \in T : x <= y
    BY <2>1, LeastNatural
  <2>3. PICK j \in hits : x = n - j
    BY <2>2
  <2>4. ASSUME NEW i \in hits PROVE i <= j
    <3>1. n - i \in T /\ i \in Nat /\ j \in Nat
      OBVIOUS
    <3>2. n - j <= n - i
      BY <2>2, <2>3, <3>1
    <3>3. QED
      BY <3>1, <3>2
  <2>5. QED
    BY <2>4
<1>3. j \in 1..n /\ streams[j].id \in ids /\ \A i \in 1..n : streams[i].id \in ids => i <= j
  BY <1>2
<1>4. LastOf(streams, ids) = streams[j]
  BY <1>3, LastOfIs
<1>5. QED
  BY <1>3, <1>4

(* The set map attached to an ESET is read whole or not at all.            *)
LEMMA ChainRead ==
  ASSUME WellEncoded, MapsWhole
  PROVE  \A o : Inv /\ Chain(o) => MapParsed' /\ pc' # "payload"
<1> SUFFICES ASSUME NEW o, Inv, Chain(o) PROVE MapParsed' /\ pc' # "payload"
  OBVIOUS
<1> DEFINE p == last - 1 - delta
           streams == B(p).streams
           sm == LastOf(streams, SetMapIds)
<1>1. pc' \in {"chain", "found", "none"} /\ UNCHANGED tape
  BY DEF Chain, Missed
<1>2. SUFFICES ASSUME pc' = "found" PROVE MapParsed'
  BY <1>1 DEF MapParsed
<1>3. /\ p >= 0 /\ B(p).k = "eset" /\ sm.cells # <<>>
      /\ found' = [id |-> sm.id, cells |-> sm.cells, len |-> Len(sm.cells), from |-> p, next |-> p + 1]
  <2> HIDE DEF sm
  <2>1. pc = "chain" /\ ChainAt = p
    BY DEF Chain, ChainAt
  <2>2. QED
    BY <1>2, <2>1 DEF Chain, sm
<1>4. tape \in Tapes /\ p \in 0..(Len(tape) - 1)
  BY <1>3, TapeType DEF Inv, TypeOK, Learnt, Anchored, Chain, Probed
<1> HIDE DEF p
<1>5. /\ DOMAIN streams = 1..Len(streams) /\ Len(streams) \in Nat
      /\ \A i \in DOMAIN streams : /\ Encodes(streams[i])
                                   /\ streams[i].id \in SetMapIds => IsPayload(streams[i].cells)
  BY <1>4 DEF WellEncoded, MapsWhole, B
<1> HIDE DEF streams
<1>6. PICK j \in 1..Len(streams) : sm = streams[j] /\ streams[j].id \in SetMapIds
  BY <1>3, <1>5, LastOfSome
<1>7. ParseSetMap(sm.id, sm.cells) = sm.rec /\ IsPayload(sm.cells)
  BY <1>5, <1>6 DEF Encodes
<1> HIDE DEF sm
<1>8. Shortened(sm.rec, sm.rec)
  BY <1>7, WholeParsed
<1>9. B(found.from)' = B(p) /\ found'.id = sm.id /\ found'.cells = sm.cells
  BY <1>1, <1>3 DEF B
<1>10. LastOf(B(found.from).streams, SetMapIds)' = sm
  <2>1. B(found.from)'.streams = streams
    BY <1>9 DEF streams
  <2>2. QED
    BY <2>1 DEF LastOf, SetMapIds, sm
<1>11. B(found.from)'.k # "map"
  BY <1>3, <1>9
<1>12. QED
  BY <1>7, <1>8, <1>9, <1>10, <1>11 DEF MapParsed

(* A set map found is parsed into the sets and volumes that were recorded, *)
(* or into the first of them where a failure cut its payload short         *)
(* (ReadSetMapWithTape, readStreamPayload, parseSetMapFor).                *)
THEOREM MapsAreParsed == ASSUME WellEncoded, MapsWhole PROVE Spec => []MapParsed
<1> DEFINE MapInv == MapRead /\ MapParsed
<1>1. Init => MapInv
  BY DEF Init, MapRead, MapParsed
<1>2. Inv /\ MapInv /\ [Next]_vars => MapInv'
  <2> SUFFICES ASSUME Inv, MapInv, [Next]_vars PROVE MapInv'
    OBVIOUS
  <2>1. ASSUME pc' \notin {"payload", "found"} PROVE MapInv'
    BY <2>1 DEF MapRead, MapParsed
  <2>2. ASSUME NEW o, Prime(o) \/ LocateEOTM(o) PROVE MapInv'
    <3>1. pc' \in {"eotm", "none", "error", "back"}
      BY <2>2 DEF Prime, LocateEOTM
    <3>2. QED
      BY <2>1, <3>1
  <2>3. ASSUME NEW o, Backward(o) PROVE MapInv'
    <3>1. MapRead' /\ pc' # "found"
      BY <2>3, BackwardRead
    <3>2. QED
      BY <3>1 DEF MapParsed
  <2>4. ASSUME NEW o, Payload(o) PROVE MapInv'
    BY <2>4, PayloadRead
  <2>5. ASSUME NEW o, Chain(o) PROVE MapInv'
    <3>1. MapParsed' /\ pc' # "payload"
      BY <2>5, ChainRead
    <3>2. QED
      BY <3>1 DEF MapRead
  <2>6. ASSUME NEW o, ReachSetEnd \/ CaptureStream(o) \/ YieldSetEnd \/ AskCatalog PROVE MapInv'
    <3>1. pc' \in {"idle", "capture"}
      BY <2>6 DEF ReachSetEnd, CaptureStream, YieldSetEnd, AskCatalog
    <3>2. QED
      BY <2>1, <3>1
  <2>7. CASE UNCHANGED vars
    <3>1. UNCHANGED <<tape, pc, faults, found>>
      BY <2>7 DEF vars, search
    <3>2. \A q : B(q)' = B(q)
      BY <3>1 DEF B
    <3>3. MapRead' = MapRead
      BY <3>1, <3>2 DEF MapRead, B
    <3>4. MapParsed' = MapParsed
      BY <3>1 DEF MapParsed, B
    <3>5. QED
      BY <3>3, <3>4
  <2>8. QED
    BY <2>2, <2>3, <2>4, <2>5, <2>6, <2>7 DEF Next, Search
<1>3. MapInv => MapParsed
  OBVIOUS
<1>4. QED
  BY <1>1, <1>2, <1>3, Invariant, PTL DEF Spec
=============================================================================
