---------------------------- MODULE VouLed_proofs ----------------------------
(***************************************************************************)
(* Proofs about VouLed: for any number of vouchers, of generations and of  *)
(* dates, and whatever executions, reversals, openings, reopens and        *)
(* rebuilds follow each other.                                             *)
(*                                                                         *)
(* The argument.  What the active generation holds of one voucher says     *)
(* where the voucher stands (Carried): of an executed one exactly the      *)
(* postings of that execution, of a goods or cash voucher sent back        *)
(* nothing that is not taken back.  So what a reversal finds as the latest *)
(* postings is what the last execution entered, and an execution's entries *)
(* collide with no key: both change the balance of each dimension and date *)
(* by what the voucher's effects change (BalanceOn).  A rebuild starts     *)
(* from an empty generation, whose entries are the opening and one entry   *)
(* for each effect of each executed voucher.  Brokered sales may be        *)
(* executed without an entry, so for them the balances of customers and    *)
(* suppliers are not kept; the warehouse's are, which they never touch.    *)
(*                                                                         *)
(* The stock is never negative because no prefix of the timeline is        *)
(* (NegativeTimeline): the entries up to a date end with a last one in     *)
(* timeline order, and add up to the balances of the dates.                *)
(***************************************************************************)
EXTENDS VouLed, FiniteSetTheorems, WellFoundedInduction, TLAPS

-----------------------------------------------------------------------------
(* Sums over finite sets of integers (SumFunctionOnSet); the lemmas        *)
(* WflTrade_proofs has of its totals, as far as they are needed here.      *)

Some(s) == CHOOSE x \in s : TRUE

\* "sum" has the recursion SumFunctionOnSet is defined by.
AddsUp(sum, f, S) ==
    sum = [s \in SUBSET S |-> IF s = {} THEN 0 ELSE f[Some(s)] + sum[s \ {Some(s)}]]

LEMMA SumIsChosen ==
    ASSUME NEW f, NEW S
    PROVE  SumFunctionOnSet(f, S) = (CHOOSE sum : AddsUp(sum, f, S))[S]
BY DEF SumFunctionOnSet, FoldFunctionOnSet, MapThenFoldSet, AddsUp, Some

\* A set of subsets of a finite set has a least one: what an induction over
\* subsets is made of here.
LEMMA LeastSubset ==
    ASSUME NEW S, IsFiniteSet(S), NEW T, T \subseteq SUBSET S, T # {}
    PROVE  \E s \in T : \A r \in SUBSET s : r # s => r \notin T
<1>1. IsWellFoundedOn(StrictSubsetOrdering(S), FiniteSubsetsOf(S))
    BY FS_StrictSubsetOrderingWellFounded
<1>2. T \subseteq FiniteSubsetsOf(S)
    BY FS_Subset DEF FiniteSubsetsOf
<1>3. \E s \in T : \A r \in T : ~ (<<r, s>> \in StrictSubsetOrdering(S))
    BY <1>1, <1>2, WFMin, Zenon
<1>4. PICK s \in T : \A r \in T : ~ (<<r, s>> \in StrictSubsetOrdering(S)) BY <1>3
<1>5. \A r \in T : ~(r \subseteq s /\ r # s) BY <1>4 DEF StrictSubsetOrdering
<1> QED BY <1>5

LEMMA SomeIsElement == \A s : s # {} => Some(s) \in s
BY DEF Some

\* The recursion has one solution.
LEMMA AddsUpOnce ==
    ASSUME NEW f, NEW S, NEW R, IsFiniteSet(S), NEW g, NEW h, AddsUp(g, f, S), AddsUp(h, f, R),
           NEW t \in SUBSET S, t \in SUBSET R
    PROVE  g[t] = h[t]
<1> DEFINE T == {s \in SUBSET S : s \in SUBSET R /\ g[s] # h[s]}
<1>1. SUFFICES ASSUME T # {} PROVE FALSE
    OBVIOUS
<1>2. T \subseteq SUBSET S OBVIOUS
<1>3. PICK s \in T : \A r \in SUBSET s : r # s => r \notin T
    BY <1>1, <1>2, LeastSubset, Zenon
<1>4. g[s] # h[s] /\ s \in SUBSET S /\ s \in SUBSET R BY <1>3
<1>5. g[s] = IF s = {} THEN 0 ELSE f[Some(s)] + g[s \ {Some(s)}]
    BY <1>4 DEF AddsUp
<1>6. h[s] = IF s = {} THEN 0 ELSE f[Some(s)] + h[s \ {Some(s)}]
    BY <1>4 DEF AddsUp
<1>7. s # {} BY <1>4, <1>5, <1>6
<1>8. s \ {Some(s)} # s BY <1>7, SomeIsElement
<1>9. s \ {Some(s)} \notin T /\ s \ {Some(s)} \in SUBSET S /\ s \ {Some(s)} \in SUBSET R
    BY <1>3, <1>4, <1>8
<1>10. g[s \ {Some(s)}] = h[s \ {Some(s)}] BY <1>9
<1> QED BY <1>4, <1>5, <1>6, <1>7, <1>10

\* The recursion holds of the sums themselves.
LEMMA SumRecursion ==
    ASSUME NEW f, NEW S, IsFiniteSet(S)
    PROVE  SumFunctionOnSet(f, S) =
               IF S = {} THEN 0 ELSE f[Some(S)] + SumFunctionOnSet(f, S \ {Some(S)})
<1> DEFINE V(s) == SumFunctionOnSet(f, s)
           Step(s) == IF s = {} THEN 0 ELSE f[Some(s)] + V(s \ {Some(s)})
           T == {s \in SUBSET S : V(s) # Step(s)}
<1>1. SUFFICES ASSUME T # {} PROVE FALSE
    OBVIOUS
<1>2. T \subseteq SUBSET S /\ T # {} BY <1>1
<1>0. \E s \in T : \A r \in SUBSET s : r # s => r \notin T
    <2> HIDE DEF T
    <2> QED BY <1>2, LeastSubset, Zenon
<1>3. PICK s \in T : \A r \in SUBSET s : r # s => r \notin T BY <1>0
<1>4. s \in SUBSET S /\ V(s) # Step(s) BY <1>3
<1>5. \A r \in SUBSET s : r # s => V(r) = Step(r)
    BY <1>3, <1>4
<1>6. IsFiniteSet(s) BY <1>4, FS_Subset
<1>7. \A r \in SUBSET s : IsFiniteSet(r) BY <1>6, FS_Subset
<1>8. \A r : V(r) = (CHOOSE sum : AddsUp(sum, f, r))[r]
    BY SumIsChosen
<1> HIDE DEF V
<1> DEFINE G == [t \in SUBSET s |-> IF t = s THEN Step(s) ELSE V(t)]
<1>9. AddsUp(G, f, s)
    <2>1. SUFFICES ASSUME NEW t \in SUBSET s
          PROVE  (IF t = s THEN Step(s) ELSE V(t)) = IF t = {} THEN 0 ELSE f[Some(t)] + G[t \ {Some(t)}]
        BY DEF AddsUp
    <2>2. (IF t = s THEN Step(s) ELSE V(t)) = Step(t) BY <1>5
    <2>3. CASE t = {} BY <2>2, <2>3
    <2>4. CASE t # {}
        <3>1. t \ {Some(t)} \in SUBSET s /\ t \ {Some(t)} # s BY <2>4, SomeIsElement
        <3>2. G[t \ {Some(t)}] = V(t \ {Some(t)}) BY <3>1
        <3> QED BY <2>2, <2>4, <3>2
    <2> QED BY <2>3, <2>4
<1>10. PICK g : g = (CHOOSE sum : AddsUp(sum, f, s)) OBVIOUS
<1>11. AddsUp(g, f, s) BY <1>9, <1>10
<1>12. V(s) = g[s] BY <1>8, <1>10
<1>13. V(s) = G[s]
    <2> HIDE DEF G
    <2> QED BY <1>6, <1>9, <1>11, <1>12, AddsUpOnce
<1>14. G[s] = Step(s) OBVIOUS
<1> QED BY <1>4, <1>13, <1>14

LEMMA SumOfNone == ASSUME NEW f PROVE SumFunctionOnSet(f, {}) = 0
BY SumRecursion, FS_EmptySet

\* Sums of integers are integers.
LEMMA SumType ==
    ASSUME NEW f, NEW S, IsFiniteSet(S), \A x \in S : f[x] \in Int
    PROVE  SumFunctionOnSet(f, S) \in Int
<1> DEFINE T == {s \in SUBSET S : SumFunctionOnSet(f, s) \notin Int}
<1>1. SUFFICES ASSUME T # {} PROVE FALSE
    OBVIOUS
<1>2. T \subseteq SUBSET S OBVIOUS
<1>3. \E s \in T : \A r \in SUBSET s : r # s => r \notin T
    <2> HIDE DEF T
    <2> QED BY <1>1, <1>2, LeastSubset, Zenon
<1>4. PICK s \in T : \A r \in SUBSET s : r # s => r \notin T BY <1>3
<1>5. s \in SUBSET S /\ IsFiniteSet(s) BY <1>4, FS_Subset
<1>6. s # {}
    <2>1. SUFFICES ASSUME s = {} PROVE FALSE
        OBVIOUS
    <2>2. SumFunctionOnSet(f, s) = 0 BY <2>1, SumOfNone, Zenon
    <2> QED BY <1>4, <2>2
<1>7. Some(s) \in s BY <1>6, SomeIsElement
<1>8. SumFunctionOnSet(f, s \ {Some(s)}) \in Int BY <1>4, <1>5, <1>7
<1>9. SumFunctionOnSet(f, s) = f[Some(s)] + SumFunctionOnSet(f, s \ {Some(s)})
    BY <1>5, <1>6, SumRecursion
<1> QED BY <1>4, <1>5, <1>7, <1>8, <1>9

\* The order does not matter: any element may be taken out.
LEMMA SumTakeOut ==
    ASSUME NEW f, NEW S, IsFiniteSet(S), \A x \in S : f[x] \in Int
    PROVE  \A x \in S : SumFunctionOnSet(f, S) = f[x] + SumFunctionOnSet(f, S \ {x})
<1> DEFINE V(s) == SumFunctionOnSet(f, s)
           T == {s \in SUBSET S : \E x \in s : V(s) # f[x] + V(s \ {x})}
<1>1. SUFFICES ASSUME T # {} PROVE FALSE
    OBVIOUS
<1>2. T \subseteq SUBSET S OBVIOUS
<1>3. \E s \in T : \A r \in SUBSET s : r # s => r \notin T
    <2> HIDE DEF T
    <2> QED BY <1>1, <1>2, LeastSubset, Zenon
<1>4. PICK s \in T : \A r \in SUBSET s : r # s => r \notin T BY <1>3
<1>5. PICK x \in s : V(s) # f[x] + V(s \ {x}) BY <1>4
<1>6. s \in SUBSET S BY <1>4
<1>7. \A r \in SUBSET S : V(r) \in Int /\ (r # {} => V(r) = f[Some(r)] + V(r \ {Some(r)}))
    BY FS_Subset, SumType, SumRecursion
<1> HIDE DEF V
<1>8. PICK c : c = Some(s) OBVIOUS
<1>9. V(s) = f[c] + V(s \ {c}) /\ c \in s BY <1>5, <1>6, <1>7, <1>8, SomeIsElement
<1>10. c # x BY <1>5, <1>9
<1>11. V(s \ {c}) = f[x] + V((s \ {c}) \ {x})
    BY <1>4, <1>5, <1>6, <1>9, <1>10
<1>12. V(s \ {x}) = f[c] + V((s \ {x}) \ {c})
    BY <1>4, <1>5, <1>6, <1>9, <1>10
<1>13. V((s \ {c}) \ {x}) = V((s \ {x}) \ {c})
    <2>1. (s \ {c}) \ {x} = (s \ {x}) \ {c} OBVIOUS
    <2> QED BY <2>1
<1>14. f[x] \in Int /\ f[c] \in Int /\ V((s \ {c}) \ {x}) \in Int
    BY <1>5, <1>6, <1>7, <1>9
<1> QED BY <1>5, <1>9, <1>11, <1>12, <1>13, <1>14

LEMMA SumAddElement ==
    ASSUME NEW f, NEW S, IsFiniteSet(S), NEW x, x \notin S, \A y \in S \cup {x} : f[y] \in Int
    PROVE  SumFunctionOnSet(f, S \cup {x}) = SumFunctionOnSet(f, S) + f[x]
<1>1. IsFiniteSet(S \cup {x}) /\ (S \cup {x}) \ {x} = S BY FS_AddElement
<1>2. SumFunctionOnSet(f, S) \in Int /\ f[x] \in Int BY SumType
<1> QED BY <1>1, <1>2, SumTakeOut

\* Only the summands matter.
LEMMA SumSame ==
    ASSUME NEW f, NEW g, NEW S, IsFiniteSet(S), \A x \in S : f[x] = g[x]
    PROVE  SumFunctionOnSet(f, S) = SumFunctionOnSet(g, S)
<1> DEFINE T == {s \in SUBSET S : SumFunctionOnSet(f, s) # SumFunctionOnSet(g, s)}
<1>1. SUFFICES ASSUME T # {} PROVE FALSE
    OBVIOUS
<1>2. T \subseteq SUBSET S OBVIOUS
<1>3. \E s \in T : \A r \in SUBSET s : r # s => r \notin T
    <2> HIDE DEF T
    <2> QED BY <1>1, <1>2, LeastSubset, Zenon
<1>4. PICK s \in T : \A r \in SUBSET s : r # s => r \notin T BY <1>3
<1>5. s \in SUBSET S /\ IsFiniteSet(s) BY <1>4, FS_Subset
<1>6. s # {} BY <1>4, SumOfNone
<1>7. Some(s) \in s BY <1>6, SomeIsElement
<1>8. SumFunctionOnSet(f, s \ {Some(s)}) = SumFunctionOnSet(g, s \ {Some(s)}) BY <1>4, <1>5, <1>7
<1>9. /\ SumFunctionOnSet(f, s) = f[Some(s)] + SumFunctionOnSet(f, s \ {Some(s)})
      /\ SumFunctionOnSet(g, s) = g[Some(s)] + SumFunctionOnSet(g, s \ {Some(s)})
    BY <1>5, <1>6, SumRecursion
<1> QED BY <1>4, <1>5, <1>7, <1>8, <1>9

-----------------------------------------------------------------------------
(* The parts of the invariant.                                             *)

\* The ledger's rows.
Entry == [gen : Nat, type : {"OPENING", "POSTING", "REVERSAL"}, doc : Docs \cup {NoDoc},
          dim : Dims, rev : Nat, date : Dates, at : Int, delta : Int \ {0}]

\* Every entry names its source, and brokered sales leave the warehouse alone.
Sourced(e, rows) ==
    /\ e.type = "OPENING" => e.doc = NoDoc
    /\ e.type # "OPENING" =>
         /\ e.doc \in DOMAIN rows
         /\ rows[e.doc].status # "NONE"
         /\ e.dim = "stock" => rows[e.doc].kind # "intermediary"

\* The active generation is the last, and an opening is entered with its cutover.
GenerationsInTurn ==
    /\ control.active \in {0, Len(gens)}
    /\ control.status # "ACTIVE" /\ control.cutover # 0 => draft \in Openings

\* What generation g with this cutover holds of voucher d: nothing newer than
\* the voucher's row; of an executed one exactly its postings at the row's
\* revision; of a reversed one nothing that is not taken back.
Carried(E, g, cutover, d, row) ==
    /\ \A e \in OfSource(E, g, d) : e.date >= cutover /\ e.rev <= row.rev
    /\ row.status = "EXECUTED" =>
         /\ {e \in OfSource(E, g, d) : e.type = "POSTING" /\ e.rev = row.rev} =
              PostingsOf(g, d, row, row.rev, row.at, cutover)
         /\ \A e \in OfSource(E, g, d) : e.type = "REVERSAL" => e.rev < row.rev
         /\ row.kind # "intermediary" /\ OfSource(E, g, d) # {} => FlowsFrom(row, cutover) # {}
    /\ row.status # "EXECUTED" /\ row.kind # "intermediary" =>
         \A p \in OfSource(E, g, d) : p.type = "POSTING" =>
            \E r \in OfSource(E, g, d) : r.type = "REVERSAL" /\ r.rev >= p.rev

\* What happened in one dimension on one date.
On(E, g, dim, date) == {e \in E : e.gen = g /\ e.dim = dim /\ e.date = date}

-----------------------------------------------------------------------------
(* Sums of entries.                                                        *)

Amounts(S) == IsFiniteSet(S) /\ \A e \in S : e.delta \in Int

LEMMA SumOfIsSum ==
    ASSUME NEW S, NEW T, Amounts(T), S \subseteq T
    PROVE  SumOf(S) = SumFunctionOnSet([e \in T |-> e.delta], S)
<1>1. IsFiniteSet(S) BY FS_Subset DEF Amounts
<1> QED BY <1>1, SumSame DEF SumOf

LEMMA SumOfNothing == SumOf({}) = 0
BY SumOfNone DEF SumOf

LEMMA SumOfType ==
    ASSUME NEW S, Amounts(S)
    PROVE  SumOf(S) \in Int
<1> DEFINE f == [e \in S |-> e.delta]
<1>1. IsFiniteSet(S) /\ \A x \in S : f[x] \in Int BY DEF Amounts
<1> HIDE DEF f
<1>2. SumFunctionOnSet(f, S) \in Int BY <1>1, SumType
<1> QED BY <1>2 DEF SumOf, f

LEMMA SumOfOneMore ==
    ASSUME NEW S, Amounts(S), NEW x, x \notin S, x.delta \in Int
    PROVE  SumOf(S \cup {x}) = SumOf(S) + x.delta
<1> DEFINE T == S \cup {x}
           f == [e \in T |-> e.delta]
<1>1. Amounts(T) BY FS_AddElement DEF Amounts
<1>2. SumOf(S) = SumFunctionOnSet(f, S) BY <1>1, SumOfIsSum
<1>3. SumOf(T) = SumFunctionOnSet(f, T) BY <1>1, SumOfIsSum
<1>4. IsFiniteSet(S) /\ (\A y \in S \cup {x} : f[y] \in Int) /\ f[x] = x.delta
    BY <1>1 DEF Amounts
<1> HIDE DEF f
<1>5. SumFunctionOnSet(f, S \cup {x}) = SumFunctionOnSet(f, S) + f[x]
    BY <1>4, SumAddElement
<1> QED BY <1>2, <1>3, <1>4, <1>5

LEMMA SumOfOne ==
    ASSUME NEW x, x.delta \in Int
    PROVE  SumOf({x}) = x.delta
<1>1. Amounts({}) BY FS_EmptySet DEF Amounts
<1>2. {} \cup {x} = {x} OBVIOUS
<1> QED BY <1>1, <1>2, SumOfOneMore, SumOfNothing

\* What a function makes of a finite set is finite.
LEMMA FiniteImage ==
    ASSUME NEW S, IsFiniteSet(S), NEW T, NEW m, \A y \in T : \E x \in S : m[x] = y
    PROVE  IsFiniteSet(T)
<1>1. CASE T = {} BY <1>1, FS_EmptySet
<1>2. CASE T # {}
    <2>1. PICK y \in T : TRUE BY <1>2
    <2> DEFINE n == [x \in S |-> IF m[x] \in T THEN m[x] ELSE y]
    <2>2. n \in Surjection(S, T) BY <2>1 DEF Surjection
    <2> HIDE DEF n
    <2> QED BY <2>2, FS_Surjection
<1> QED BY <1>1, <1>2

\* Two sets whose elements pair off, each with its like, add up to the same.
LEMMA SumOfPairs ==
    ASSUME NEW S, Amounts(S), NEW T, NEW m,
           \A x \in S : x.delta = m[x].delta,
           \A x \in S, y \in S : m[x] = m[y] => x = y,
           T = {m[x] : x \in S}
    PROVE  SumOf(S) = SumOf(T)
<1> DEFINE Image(s) == {m[x] : x \in s}
           F == {s \in SUBSET S : SumOf(s) # SumOf(Image(s))}
<1>1. SUFFICES ASSUME F # {} PROVE FALSE
    OBVIOUS
<1>2. \E s \in F : \A r \in SUBSET s : r # s => r \notin F
    <2>1. F \subseteq SUBSET S /\ IsFiniteSet(S) BY DEF Amounts
    <2> HIDE DEF F
    <2> QED BY <1>1, <2>1, LeastSubset, Zenon
<1>3. PICK s \in F : \A r \in SUBSET s : r # s => r \notin F BY <1>2
<1>4. s # {}
    <2>1. SUFFICES ASSUME s = {} PROVE FALSE OBVIOUS
    <2>2. Image(s) = {} BY <2>1
    <2> QED BY <1>3, <2>1, <2>2
<1>5. PICK x \in s : TRUE BY <1>4
<1>6. PICK r : r = s \ {x} OBVIOUS
<1>7. r \in SUBSET S /\ x \notin r /\ x \in S /\ s = r \cup {x} BY <1>3, <1>5, <1>6
<1>8. SumOf(r) = SumOf(Image(r)) BY <1>3, <1>5, <1>6, <1>7
<1>9. Image(s) = Image(r) \cup {m[x]} BY <1>7
<1>10. m[x] \notin Image(r) BY <1>7
<1>11. Amounts(r) /\ Amounts(Image(r))
    <2>1. IsFiniteSet(r) BY <1>7, FS_Subset DEF Amounts
    <2>2. PICK t : t = Image(r) OBVIOUS
    <2>3. \A y \in t : \E z \in r : m[z] = y BY <2>2
    <2>4. IsFiniteSet(t) BY <2>1, <2>3, FiniteImage
    <2> QED BY <1>7, <2>1, <2>2, <2>4 DEF Amounts
<1>12. x.delta \in Int /\ m[x].delta = x.delta BY <1>7 DEF Amounts
<1>13. SumOf(s) = SumOf(r) + x.delta BY <1>7, <1>11, <1>12, SumOfOneMore
<1>14. SumOf(Image(s)) = SumOf(Image(r)) + m[x].delta
    BY <1>9, <1>10, <1>11, <1>12, SumOfOneMore
<1> QED BY <1>3, <1>8, <1>12, <1>13, <1>14

-----------------------------------------------------------------------------
(* What an executed voucher posts.                                         *)

FlowRecord == [dim : Dims, date : Dates, delta : Int \ {0}]

\* At most one effect in each dimension, on a date the cutover check asks about.
FlowsMakeSense(row) ==
    /\ Flows(row) \subseteq FlowRecord
    /\ \A f \in Flows(row), h \in Flows(row) : f.dim = h.dim => f = h
    /\ \A f \in Flows(row) : f.date \in EffectDates(row)
    /\ row.kind # "intermediary" => Flows(row) # {}
    /\ row.kind = "intermediary" => \A f \in Flows(row) : f.dim # "stock"

LEMMA FlowsOfExecuted ==
    ASSUME NEW row \in Rows, row.status = "EXECUTED", Sound(row)
    PROVE  FlowsMakeSense(row)
<1> USE DEF FlowsMakeSense, FlowRecord, Flow, Dims
<1>1. /\ row.data.date \in Dates /\ row.data.qty \in Qtys /\ row.exec \in Outcomes(row)
      /\ row.kind \in Kinds
    BY DEF Sound, Data, Rows
<1>2. Dates \subseteq Nat \ {0} /\ row.data.qty \in Nat \ {0}
    BY <1>1, DocumentAssumption
<1>3. CASE row.kind = "sale"
    <2>1. row.exec \in SaleOutcomes(row) BY <1>1, <1>3 DEF Outcomes
    <2>2. row.exec.date \in Dates /\ row.exec.moved \in Nat \ {0} /\ row.exec.signed \in Nat
        BY <2>1, <1>2 DEF SaleOutcomes, GoodsDates
    <2>3. Flows(row) = SaleFlows(row) BY <1>3 DEF Flows
    <2>4. EffectDates(row) = {row.exec.date, row.data.date} BY <1>3 DEF EffectDates
    <2>5. -row.exec.moved \in Int \ {0} BY <2>2
    <2>6. PICK a : a = Flow("stock", row.exec.date, -row.exec.moved) OBVIOUS
    <2>7. PICK b : b = Flow("customer", row.data.date, row.exec.signed) OBVIOUS
    <2>8. /\ a \in FlowRecord /\ a.dim = "stock" /\ a.date = row.exec.date
          /\ b.dim = "customer" /\ b.date = row.data.date
          /\ row.exec.signed > 0 => b \in FlowRecord
        BY <1>1, <2>2, <2>5, <2>6, <2>7
    <2>9. Flows(row) = {a} \cup {f \in {b} : row.exec.signed > 0}
        BY <2>3, <2>6, <2>7 DEF SaleFlows
    <2> QED BY <1>3, <2>4, <2>8, <2>9
<1>4. CASE row.kind = "purchase"
    <2>1. row.exec \in PurchaseOutcomes(row) BY <1>1, <1>4 DEF Outcomes
    <2>2. row.exec.date \in Dates /\ row.exec.moved \in Nat \ {0}
        BY <2>1, <1>2 DEF PurchaseOutcomes, GoodsDates
    <2>3. Flows(row) = PurchaseFlows(row) BY <1>4 DEF Flows
    <2>4. EffectDates(row) = {row.exec.date, row.data.date} BY <1>4 DEF EffectDates
    <2>5. -row.exec.moved \in Int \ {0} BY <2>2
    <2> QED BY <1>1, <1>4, <2>2, <2>3, <2>4, <2>5 DEF PurchaseFlows
<1>5. CASE row.kind = "intermediary"
    <2>1. row.exec \in SaleOutcomes(row) BY <1>1, <1>5 DEF Outcomes
    <2>2. row.exec.signed \in Nat
        BY <2>1, <1>2 DEF SaleOutcomes, GoodsDates
    <2>3. Flows(row) = IntermediaryFlows(row) BY <1>5 DEF Flows
    <2>4. EffectDates(row) = {row.data.date} BY <1>5 DEF EffectDates
    <2>5. row.exec.signed > 0 => -row.exec.signed \in Int \ {0} BY <2>2
    <2> QED BY <1>1, <1>5, <2>2, <2>3, <2>4, <2>5 DEF IntermediaryFlows
<1>6. CASE row.kind \in CashKinds
    <2>1. Flows(row) = CashFlows(row) BY <1>6 DEF Flows, CashKinds
    <2>2. EffectDates(row) = {row.data.date} BY <1>6 DEF EffectDates, CashKinds
    <2>3. -row.data.qty \in Int \ {0} BY <1>2
    <2>4. PICK q, o, x : q = row.data.qty /\ o = -row.data.qty /\ x = row.data.date OBVIOUS
    <2>5. q \in Int \ {0} /\ o \in Int \ {0} /\ x \in Dates BY <1>1, <1>2, <2>3, <2>4
    <2>6. \/ CashFlows(row) = {Flow("fund", x, q), Flow("customer", x, o)}
          \/ CashFlows(row) = {Flow("fund", x, o), Flow("supplier", x, q)}
          \/ CashFlows(row) = {Flow("fund", x, o)}
          \/ CashFlows(row) = {Flow("fund", x, q)}
        <3> HIDE DEF Flow
        <3> QED BY <1>6, <2>4, Zenon DEF CashFlows, CashKinds
    <2>7. row.kind # "intermediary" BY <1>6 DEF CashKinds
    <2>8. /\ \A dim \in Dims, u \in {q, o} :
                Flow(dim, x, u) \in FlowRecord /\ Flow(dim, x, u).dim = dim /\ Flow(dim, x, u).date = x
        BY <2>5
    <2> HIDE DEF Flow
    <2>9. /\ CashFlows(row) # {}
          /\ \A f \in CashFlows(row) : f \in FlowRecord /\ f.date = x
        BY <2>6, <2>8
    <2>10. \A f \in CashFlows(row), h \in CashFlows(row) : f.dim = h.dim => f = h
        BY <2>6, <2>8
    <2> QED BY <2>1, <2>2, <2>4, <2>7, <2>9, <2>10
<1> QED BY <1>1, <1>3, <1>4, <1>5, <1>6 DEF Kinds, GoodsKinds

\* The effects in one dimension on one date are one or none.
FlowsOn(row, dim, date) == {f \in Flows(row) : f.dim = dim /\ f.date = date}

LEMMA OneFlowAtMost ==
    ASSUME NEW row, FlowsMakeSense(row), NEW dim, NEW date
    PROVE  \/ FlowsOn(row, dim, date) = {}
           \/ \E f \in Flows(row) :
                /\ f.dim = dim /\ f.date = date /\ f.delta \in Int
                /\ FlowsOn(row, dim, date) = {f}
BY DEF FlowsMakeSense, FlowsOn, FlowRecord

Posting(g, id, rev, at, f) ==
    [gen |-> g, type |-> "POSTING", doc |-> id, dim |-> f.dim, rev |-> rev,
     date |-> f.date, at |-> at, delta |-> f.delta]

LEMMA PostingsAre ==
    ASSUME NEW g, NEW id, NEW row, NEW rev, NEW at, NEW cutover
    PROVE  /\ \A e \in PostingsOf(g, id, row, rev, at, cutover) :
                \E f \in Flows(row) : f.date >= cutover /\ e = Posting(g, id, rev, at, f)
           /\ \A f \in Flows(row) : f.date >= cutover =>
                Posting(g, id, rev, at, f) \in PostingsOf(g, id, row, rev, at, cutover)
BY DEF PostingsOf, FlowsFrom, Posting

-----------------------------------------------------------------------------
(* The rows the handlers leave.                                            *)

LEMMA MovedRow ==
    ASSUME NEW r \in Rows, NEW s \in Statuses, Moved(r, s).rev <= MaxRev
    PROVE  /\ Moved(r, s) \in Rows
           /\ Moved(r, s).status = s
           /\ Moved(r, s).rev = r.rev + 1
           /\ Moved(r, s).kind = r.kind /\ Moved(r, s).data = r.data
           /\ Moved(r, s).exec = r.exec /\ Moved(r, s).attrs = r.attrs
           /\ Moved(r, s).at = r.at
<1> DEFINE n == r.rev + 1
<1>1. MaxRev \in Nat /\ r.rev \in Nat /\ n \in Nat BY VouLedAssumption DEF Rows
<1>2. Moved(r, s) = [r EXCEPT !.status = s, !.rev = n] BY DEF Moved
<1>3. n = r.rev + 1 OBVIOUS
<1> HIDE DEF n
<1>4. Moved(r, s).rev = n BY <1>2 DEF Rows
<1>5. n \in 0..MaxRev BY <1>1, <1>4
<1>6. Moved(r, s) \in Rows BY <1>2, <1>5 DEF Rows
<1> QED BY <1>2, <1>3, <1>6 DEF Rows

\* A change of a voucher the ledger does not hear of.
Quiet(old, row) ==
    /\ row \in Rows /\ Sound(row)
    /\ old.status # "EXECUTED" /\ row.status \notin {"NONE", "EXECUTED"}
    /\ row.kind = old.kind
    /\ old.status # "NONE" => row.rev >= old.rev

LEMMA DraftedIsQuiet ==
    ASSUME NEW old \in Rows, old.status = "NONE", NEW data \in Data,
           Drafted(old.kind, data).rev <= MaxRev
    PROVE  Quiet(old, Drafted(old.kind, data))
<1> DEFINE row == Drafted(old.kind, data)
<1>1. PICK k : k = old.kind OBVIOUS
<1>2. k \in Kinds BY <1>1 DEF Rows
<1>3. row = [kind |-> k, status |-> "DRAFT", rev |-> 1, data |-> data,
             attrs |-> "complete", exec |-> NoExec, at |-> 0, pending |-> {}, ready |-> {}]
    <2>1. PICK a : a = Absent(k) OBVIOUS
    <2>2. a = [kind |-> k, status |-> "NONE", rev |-> 0, data |-> NoData,
               attrs |-> "complete", exec |-> NoExec, at |-> 0, pending |-> {}, ready |-> {}]
        BY <2>1 DEF Absent
    <2>3. row = [a EXCEPT !.status = "DRAFT", !.rev = 1, !.data = data] BY <1>1, <2>1 DEF Drafted
    <2> QED BY <2>2, <2>3
<1>4. 1 \in 0..MaxRev BY <1>3, VouLedAssumption
<1>5. NoExec \in [date : Dates \cup {0}, moved : Nat, signed : Nat] BY DEF NoExec
<1>6. row \in Rows BY <1>2, <1>3, <1>4, <1>5 DEF Rows, Statuses
<1> HIDE DEF row
<1>7. row.status = "DRAFT" /\ row.kind = old.kind /\ row.data = data BY <1>1, <1>3
<1> QED BY <1>6, <1>7 DEF Quiet, Sound, row

LEMMA SavedIsQuiet ==
    ASSUME NEW old \in Rows, Sound(old), old.status = "DRAFT", NEW data \in Data,
           Saved(old, data).rev <= MaxRev
    PROVE  Quiet(old, Saved(old, data))
<1>1. PICK row : row = Moved(old, "DRAFT") OBVIOUS
<1>2. Saved(old, data) = [row EXCEPT !.data = data, !.attrs = "complete"]
    BY <1>1 DEF Saved
<1>3. row.rev = Saved(old, data).rev
    BY <1>1, <1>2 DEF Moved, Rows
<1>4. row \in Rows /\ row.status = "DRAFT" /\ row.rev = old.rev + 1 /\ row.kind = old.kind
    BY <1>1, <1>3, MovedRow DEF Statuses
<1>5. Saved(old, data) \in Rows BY <1>2, <1>4 DEF Rows
<1>6. /\ Saved(old, data).status = "DRAFT" /\ Saved(old, data).kind = old.kind
      /\ Saved(old, data).data = data
    BY <1>2, <1>4 DEF Rows
<1>7. Saved(old, data).rev >= old.rev BY <1>3, <1>4 DEF Rows
<1> QED BY <1>5, <1>6, <1>7 DEF Quiet, Sound

LEMMA MovedIsQuiet ==
    ASSUME NEW old \in Rows, Sound(old), old.status \notin {"NONE", "EXECUTED"},
           NEW s \in Statuses \ {"NONE", "EXECUTED"}, Moved(old, s).rev <= MaxRev
    PROVE  Quiet(old, Moved(old, s))
<1>1. /\ Moved(old, s) \in Rows /\ Moved(old, s).status = s /\ Moved(old, s).rev = old.rev + 1
      /\ Moved(old, s).kind = old.kind /\ Moved(old, s).data = old.data
    BY MovedRow
<1>2. Moved(old, s).rev >= old.rev BY <1>1 DEF Rows
<1> QED BY <1>1, <1>2 DEF Quiet, Sound

\* An executed row reports the outcome, a reversed one none.
LEMMA ExecutedRow ==
    ASSUME NEW old \in Rows, Sound(old), old.status = "APPROVED", NEW at \in Int,
           NEW outcome \in Outcomes(old), Executed(old, outcome, at).rev <= MaxRev
    PROVE  /\ Executed(old, outcome, at) \in Rows /\ Sound(Executed(old, outcome, at))
           /\ Executed(old, outcome, at).status = "EXECUTED"
           /\ Executed(old, outcome, at).rev = old.rev + 1
           /\ Executed(old, outcome, at).kind = old.kind
           /\ Executed(old, outcome, at).at = at
<1>1. PICK row : row = Moved(old, "EXECUTED") OBVIOUS
<1>2. Executed(old, outcome, at) = [row EXCEPT !.exec = outcome, !.at = at]
    BY <1>1 DEF Executed
<1>3. row.rev = Executed(old, outcome, at).rev
    BY <1>1, <1>2 DEF Moved, Rows
<1>4. /\ row \in Rows /\ row.status = "EXECUTED" /\ row.rev = old.rev + 1 /\ row.kind = old.kind
      /\ row.data = old.data
    BY <1>1, <1>3, MovedRow DEF Statuses
<1>5. outcome \in [date : Dates \cup {0}, moved : Nat, signed : Nat]
    <2>1. old.data.date \in Nat /\ old.data.qty \in Nat
        BY DocumentAssumption DEF Sound, Data
    <2> QED BY <2>1 DEF Outcomes, SaleOutcomes, PurchaseOutcomes, GoodsDates, NoExec
<1>6. Executed(old, outcome, at) \in Rows BY <1>2, <1>4, <1>5 DEF Rows
<1>7. /\ Executed(old, outcome, at).status = "EXECUTED"
      /\ Executed(old, outcome, at).kind = old.kind
      /\ Executed(old, outcome, at).data = old.data
      /\ Executed(old, outcome, at).exec = outcome
      /\ Executed(old, outcome, at).at = at
    BY <1>2, <1>4 DEF Rows
<1>8. Outcomes(Executed(old, outcome, at)) = Outcomes(old)
    BY <1>7 DEF Outcomes, SaleOutcomes, PurchaseOutcomes, GoodsDates
<1>9. Sound(Executed(old, outcome, at)) BY <1>7, <1>8 DEF Sound
<1> QED BY <1>3, <1>4, <1>6, <1>7, <1>9

LEMMA UnexecutedRow ==
    ASSUME NEW old \in Rows, Sound(old), old.status = "EXECUTED", Unexecuted(old).rev <= MaxRev
    PROVE  /\ Unexecuted(old) \in Rows /\ Sound(Unexecuted(old))
           /\ Unexecuted(old).status = "APPROVED"
           /\ Unexecuted(old).rev = old.rev + 1
           /\ Unexecuted(old).kind = old.kind
<1>1. PICK row : row = Moved(old, "APPROVED") OBVIOUS
<1>2. Unexecuted(old) = [row EXCEPT !.exec = NoExec, !.at = 0]
    BY <1>1 DEF Unexecuted
<1>3. row.rev = Unexecuted(old).rev
    BY <1>1, <1>2 DEF Moved, Rows
<1>4. /\ row \in Rows /\ row.status = "APPROVED" /\ row.rev = old.rev + 1 /\ row.kind = old.kind
      /\ row.data = old.data
    BY <1>1, <1>3, MovedRow DEF Statuses
<1>5. NoExec \in [date : Dates \cup {0}, moved : Nat, signed : Nat] BY DEF NoExec
<1>6. Unexecuted(old) \in Rows
    <2>1. PICK none, zero : none = NoExec /\ zero = 0 OBVIOUS
    <2>2. zero \in Int BY <2>1
    <2>3. Unexecuted(old) = [row EXCEPT !.exec = none, !.at = zero] BY <1>2, <2>1
    <2> QED BY <1>4, <1>5, <2>1, <2>2, <2>3 DEF Rows
<1>7. /\ Unexecuted(old).status = "APPROVED"
      /\ Unexecuted(old).kind = old.kind
      /\ Unexecuted(old).data = old.data
    BY <1>2, <1>4 DEF Rows
<1>8. Sound(Unexecuted(old)) BY <1>7 DEF Sound
<1> QED BY <1>3, <1>4, <1>6, <1>7, <1>8

-----------------------------------------------------------------------------
(* The effects of the vouchers executed now.                               *)

Executing(rows) == {d \in DOMAIN rows : rows[d].status = "EXECUTED"}

EffectOf(d, f) == [doc |-> d, delta |-> f.delta]

EffectSet(rows, dim, date) ==
    UNION {{EffectOf(d, f) : f \in FlowsOn(rows[d], dim, date)} : d \in Executing(rows)}

LEMMA EffectMembers ==
    ASSUME NEW rows, NEW dim, NEW date, NEW r
    PROVE  r \in EffectSet(rows, dim, date) <=>
             \E x \in Executing(rows) : \E f \in FlowsOn(rows[x], dim, date) : r = EffectOf(x, f)
BY DEF EffectSet

RowsOf(rows) ==
    /\ rows \in [DOMAIN rows -> Rows] /\ IsFiniteSet(DOMAIN rows)
    /\ \A d \in DOMAIN rows : Sound(rows[d])

LEMMA EffectsAre ==
    ASSUME NEW dim, NEW date
    PROVE  Effects(dim, date) = SumOf(EffectSet(docs, dim, date))
BY DEF Effects, EffectSet, EffectOf, FlowsOn, Executing, ExecutedDocs

LEMMA EffectElements ==
    ASSUME NEW rows, RowsOf(rows), NEW dim, NEW date
    PROVE  /\ \A r \in EffectSet(rows, dim, date) :
                \E d \in Executing(rows) :
                    \E f \in FlowsOn(rows[d], dim, date) : r = EffectOf(d, f)
           /\ \A d \in Executing(rows) : \A f \in FlowsOn(rows[d], dim, date) :
                EffectOf(d, f) \in EffectSet(rows, dim, date)
           /\ \A d \in Executing(rows) : FlowsMakeSense(rows[d])
           /\ \A d \in Executing(rows) : \A f \in FlowsOn(rows[d], dim, date) :
                f \in Flows(rows[d]) /\ f.dim = dim /\ f.date = date /\ f.delta \in Int
           /\ \A d \in Executing(rows) :
                \A f \in FlowsOn(rows[d], dim, date), h \in FlowsOn(rows[d], dim, date) : f = h
<1>1. \A d \in Executing(rows) : FlowsMakeSense(rows[d])
    BY FlowsOfExecuted DEF RowsOf, Executing
<1>2. \A d \in Executing(rows) : \A f \in FlowsOn(rows[d], dim, date) :
                f \in Flows(rows[d]) /\ f.dim = dim /\ f.date = date /\ f.delta \in Int
    BY <1>1 DEF FlowsMakeSense, FlowsOn, FlowRecord
<1>3. \A d \in Executing(rows) :
         \A f \in FlowsOn(rows[d], dim, date), h \in FlowsOn(rows[d], dim, date) : f = h
    BY <1>1, <1>2 DEF FlowsMakeSense
<1>4. /\ \A r \in EffectSet(rows, dim, date) :
                \E d \in Executing(rows) :
                    \E f \in FlowsOn(rows[d], dim, date) : r = EffectOf(d, f)
      /\ \A d \in Executing(rows) : \A f \in FlowsOn(rows[d], dim, date) :
                EffectOf(d, f) \in EffectSet(rows, dim, date)
    BY DEF EffectSet
<1> QED BY <1>1, <1>2, <1>3, <1>4

LEMMA EffectsAdd ==
    ASSUME NEW rows, RowsOf(rows), NEW dim, NEW date
    PROVE  Amounts(EffectSet(rows, dim, date))
<1> DEFINE S == EffectSet(rows, dim, date)
           m == [d \in Executing(rows) |-> CHOOSE r \in S : r.doc = d]
<1>1. IsFiniteSet(Executing(rows))
    <2>1. Executing(rows) \subseteq DOMAIN rows BY DEF Executing
    <2> QED BY <2>1, FS_Subset DEF RowsOf
<1>2. \A y \in S : y.delta \in Int /\ y.doc \in Executing(rows)
    BY EffectElements DEF EffectOf
<1>3. \A y \in S, z \in S : y.doc = z.doc => y = z
    BY EffectElements DEF EffectOf
<1>4. \A y \in S : \E d \in Executing(rows) : m[d] = y
    <2> HIDE DEF S
    <2>1. SUFFICES ASSUME NEW y \in S PROVE m[y.doc] = y
        BY <1>2
    <2>2. m[y.doc] = (CHOOSE r \in S : r.doc = y.doc) BY <1>2
    <2>3. \E r \in S : r.doc = y.doc OBVIOUS
    <2>4. (CHOOSE r \in S : r.doc = y.doc) \in S /\ (CHOOSE r \in S : r.doc = y.doc).doc = y.doc
        BY <2>3
    <2> QED BY <1>3, <2>2, <2>4
<1> HIDE DEF m, S
<1>5. IsFiniteSet(S) BY <1>1, <1>4, FiniteImage
<1> QED BY <1>2, <1>5 DEF Amounts, S

\* One row is written.
Replaced(rows, d, row, after) == after = [rows EXCEPT ![d] = row]

LEMMA ReplacedRows ==
    ASSUME NEW rows, NEW d \in DOMAIN rows, NEW row, NEW after, Replaced(rows, d, row, after)
    PROVE  /\ DOMAIN after = DOMAIN rows /\ after[d] = row
           /\ \A x \in DOMAIN rows \ {d} : after[x] = rows[x]
BY DEF Replaced

\* A change that leaves a voucher not executed changes no effect.
LEMMA QuietEffects ==
    ASSUME NEW rows, NEW d \in DOMAIN rows, NEW row,
           rows[d].status # "EXECUTED", row.status # "EXECUTED",
           NEW after, Replaced(rows, d, row, after)
    PROVE  \A dim, date : EffectSet(after, dim, date) = EffectSet(rows, dim, date)
<1>1. DOMAIN after = DOMAIN rows /\ after[d] = row /\ \A x \in DOMAIN rows \ {d} : after[x] = rows[x]
    BY ReplacedRows
<1>2. Executing(after) = Executing(rows) /\ d \notin Executing(rows)
    BY <1>1 DEF Executing
<1>3. \A x \in Executing(rows) : after[x] = rows[x] BY <1>1, <1>2 DEF Executing
<1> QED BY <1>2, <1>3 DEF EffectSet

\* What the execution of a voucher adds to the effects.
LEMMA ExecutedEffects ==
    ASSUME NEW rows, NEW d \in DOMAIN rows, NEW row,
           rows[d].status # "EXECUTED", row.status = "EXECUTED",
           NEW after, Replaced(rows, d, row, after), RowsOf(rows), RowsOf(after)
    PROVE  \A dim, date :
              /\ FlowsOn(row, dim, date) = {} =>
                   EffectSet(after, dim, date) = EffectSet(rows, dim, date)
              /\ \A f : FlowsOn(row, dim, date) = {f} =>
                   /\ EffectSet(after, dim, date) = EffectSet(rows, dim, date) \cup {EffectOf(d, f)}
                   /\ EffectOf(d, f) \notin EffectSet(rows, dim, date)
<1>1. DOMAIN after = DOMAIN rows /\ after[d] = row /\ \A x \in DOMAIN rows \ {d} : after[x] = rows[x]
    BY ReplacedRows
<1>2. Executing(after) = Executing(rows) \cup {d} /\ d \notin Executing(rows)
    BY <1>1 DEF Executing
<1>3. \A x \in Executing(rows) : after[x] = rows[x] BY <1>1, <1>2 DEF Executing
<1>4. SUFFICES ASSUME NEW dim, NEW date
      PROVE  /\ FlowsOn(row, dim, date) = {} =>
                   EffectSet(after, dim, date) = EffectSet(rows, dim, date)
             /\ \A f : FlowsOn(row, dim, date) = {f} =>
                   /\ EffectSet(after, dim, date) = EffectSet(rows, dim, date) \cup {EffectOf(d, f)}
                   /\ EffectOf(d, f) \notin EffectSet(rows, dim, date)
    OBVIOUS
<1>5. EffectSet(after, dim, date) =
        EffectSet(rows, dim, date) \cup {EffectOf(d, f) : f \in FlowsOn(row, dim, date)}
    <2>1. SUFFICES ASSUME NEW r
          PROVE  r \in EffectSet(after, dim, date) <=>
                    \/ r \in EffectSet(rows, dim, date)
                    \/ \E f \in FlowsOn(row, dim, date) : r = EffectOf(d, f)
        OBVIOUS
    <2>2. r \in EffectSet(after, dim, date) <=>
             \E x \in Executing(after) : \E f \in FlowsOn(after[x], dim, date) : r = EffectOf(x, f)
        BY EffectMembers
    <2>3. r \in EffectSet(rows, dim, date) <=>
             \E x \in Executing(rows) : \E f \in FlowsOn(rows[x], dim, date) : r = EffectOf(x, f)
        BY EffectMembers
    <2>4. (\E x \in Executing(after) : \E f \in FlowsOn(after[x], dim, date) : r = EffectOf(x, f)) <=>
             \/ \E x \in Executing(rows) : \E f \in FlowsOn(rows[x], dim, date) : r = EffectOf(x, f)
             \/ \E f \in FlowsOn(row, dim, date) : r = EffectOf(d, f)
        BY <1>1, <1>2, <1>3
    <2> QED BY <2>2, <2>3, <2>4
<1>6. \A r \in EffectSet(rows, dim, date) : r.doc # d
    BY <1>2, EffectElements DEF EffectOf
<1>7. \A f : EffectOf(d, f).doc = d BY DEF EffectOf
<1> QED BY <1>5, <1>6, <1>7

-----------------------------------------------------------------------------
(* Execution.                                                              *)

LEMMA InsertFresh ==
    ASSUME NEW E, NEW new, \A e \in new, old \in E : Key(old) # Key(e)
    PROVE  Insert(E, new) = E \cup new
BY DEF Insert

BalanceOn(E, g, gen, rows, dim, date) ==
    SumOf(On(E, g, dim, date)) =
        IF date >= gen.cutover
        THEN (IF date = gen.cutover THEN gen.opening[dim] ELSE 0) + SumOf(EffectSet(rows, dim, date))
        ELSE 0

EntriesOf(E) == E \subseteq Entry /\ IsFiniteSet(E)

LEMMA OnAdds ==
    ASSUME NEW E, EntriesOf(E), NEW g, NEW dim, NEW date
    PROVE  Amounts(On(E, g, dim, date))
<1>1. On(E, g, dim, date) \subseteq E BY DEF On
<1>2. IsFiniteSet(On(E, g, dim, date)) BY <1>1, FS_Subset DEF EntriesOf
<1> QED BY <1>1, <1>2 DEF Amounts, EntriesOf, Entry

\* Both sides of a balance grow by the same amount, or neither does.
LEMMA BalanceGrows ==
    ASSUME NEW E, EntriesOf(E), NEW F, NEW g, NEW gen, NEW rows, NEW after, NEW dim, NEW date,
           RowsOf(rows), date >= gen.cutover, gen.opening[dim] \in Int,
           BalanceOn(E, g, gen, rows, dim, date),
           NEW e, e \notin E, e.delta \in Int,
           On(F, g, dim, date) = On(E, g, dim, date) \cup {e},
           NEW r, r \notin EffectSet(rows, dim, date), r.delta = e.delta,
           EffectSet(after, dim, date) = EffectSet(rows, dim, date) \cup {r}
    PROVE  BalanceOn(F, g, gen, after, dim, date)
<1>1. PICK on : on = On(E, g, dim, date) OBVIOUS
<1>2. PICK eff : eff = EffectSet(rows, dim, date) OBVIOUS
<1>3. Amounts(on) /\ Amounts(eff) BY <1>1, <1>2, OnAdds, EffectsAdd
<1>4. e \notin on BY <1>1 DEF On
<1>5. SumOf(on \cup {e}) = SumOf(on) + e.delta BY <1>3, <1>4, SumOfOneMore
<1>6. SumOf(eff \cup {r}) = SumOf(eff) + e.delta BY <1>2, <1>3, SumOfOneMore
<1>7. SumOf(on) \in Int /\ SumOf(eff) \in Int BY <1>3, SumOfType
<1>8. PICK o : o = IF date = gen.cutover THEN gen.opening[dim] ELSE 0 OBVIOUS
<1>9. o \in Int BY <1>8
<1>10. SumOf(on) = o + SumOf(eff) BY <1>1, <1>2, <1>8 DEF BalanceOn
<1>11. SumOf(on \cup {e}) = o + SumOf(eff \cup {r}) BY <1>5, <1>6, <1>7, <1>9, <1>10
<1> QED BY <1>1, <1>2, <1>8, <1>11 DEF BalanceOn

\* A posting of an executed voucher is an entry.
LEMMA PostingEntry ==
    ASSUME NEW g \in Nat, NEW d \in Docs, NEW row \in Rows, row.status = "EXECUTED", Sound(row),
           NEW rev \in Nat, NEW at \in Int, NEW f \in Flows(row)
    PROVE  Posting(g, d, rev, at, f) \in Entry
<1>1. f \in FlowRecord BY FlowsOfExecuted DEF FlowsMakeSense
<1>2. f.dim \in Dims /\ f.date \in Dates /\ f.delta \in Int \ {0} BY <1>1 DEF FlowRecord
<1> QED BY <1>2 DEF Posting, Entry

LEMMA DimsFinite == IsFiniteSet(Dims)
<1>1. PICK s, f, c, u : /\ s = {"stock"} /\ f = s \cup {"fund"}
                        /\ c = f \cup {"customer"} /\ u = c \cup {"supplier"}
    OBVIOUS
<1>2. IsFiniteSet(s) BY <1>1, FS_Singleton
<1>3. IsFiniteSet(f) BY <1>1, <1>2, FS_AddElement
<1>4. IsFiniteSet(c) BY <1>1, <1>3, FS_AddElement
<1>5. IsFiniteSet(u) BY <1>1, <1>4, FS_AddElement
<1>6. Dims = u BY <1>1 DEF Dims
<1> QED BY <1>5, <1>6

LEMMA PostingsFinite ==
    ASSUME NEW g, NEW d, NEW row, FlowsMakeSense(row), NEW rev, NEW at, NEW cutover
    PROVE  IsFiniteSet(PostingsOf(g, d, row, rev, at, cutover))
<1> DEFINE P == PostingsOf(g, d, row, rev, at, cutover)
           m == [x \in Dims |-> CHOOSE e \in P : e.dim = x]
<1>1. \A e \in P : e.dim \in Dims
    BY PostingsAre DEF FlowsMakeSense, FlowRecord, Posting
<1>2. \A e \in P, h \in P : e.dim = h.dim => e = h
    BY PostingsAre DEF FlowsMakeSense, FlowRecord, Posting
<1> HIDE DEF P
<1>3. \A y \in P : \E x \in Dims : m[x] = y
    <2>1. SUFFICES ASSUME NEW y \in P PROVE m[y.dim] = y
        BY <1>1
    <2>2. m[y.dim] = (CHOOSE e \in P : e.dim = y.dim) BY <1>1
    <2>3. (CHOOSE e \in P : e.dim = y.dim) \in P /\ (CHOOSE e \in P : e.dim = y.dim).dim = y.dim
        OBVIOUS
    <2> QED BY <1>2, <2>2, <2>3
<1>4. IsFiniteSet(Dims) BY DimsFinite
<1> HIDE DEF m
<1>5. IsFiniteSet(P) BY <1>3, <1>4, FiniteImage
<1> QED BY <1>5 DEF P


\* What the execution of a voucher makes of the ledger.
PostsExecution(E, g, cutover, rows, d, row, after, F) ==
    /\ EntriesOf(E) /\ RowsOf(rows) /\ RowsOf(after)
    /\ g \in Nat /\ cutover \in Nat
    /\ d \in DOMAIN rows /\ d \in Docs /\ Replaced(rows, d, row, after)
    /\ rows[d].status # "EXECUTED" /\ row.status = "EXECUTED"
    /\ row.rev = rows[d].rev + 1 /\ row.kind = rows[d].kind
    /\ \A x \in EffectDates(row) : x >= cutover
    /\ \A x \in DOMAIN rows : Carried(E, g, cutover, x, rows[x])
    /\ F = Insert(E, PostingsOf(g, d, row, row.rev, row.at, cutover))

LEMMA ExecutionPosts ==
    ASSUME NEW E, NEW g, NEW cutover, NEW rows, NEW d, NEW row, NEW after, NEW F,
           PostsExecution(E, g, cutover, rows, d, row, after, F)
    PROVE  /\ FlowsMakeSense(row)
           /\ \A f \in Flows(row) : f.date >= cutover /\ Posting(g, d, row.rev, row.at, f) \in Entry
           /\ \A f \in Flows(row) : Posting(g, d, row.rev, row.at, f) \notin E
           /\ F = E \cup PostingsOf(g, d, row, row.rev, row.at, cutover)
           /\ \A e \in PostingsOf(g, d, row, row.rev, row.at, cutover) :
                \E f \in Flows(row) : e = Posting(g, d, row.rev, row.at, f)
           /\ \A f \in Flows(row) :
                Posting(g, d, row.rev, row.at, f) \in PostingsOf(g, d, row, row.rev, row.at, cutover)
<1> USE DEF PostsExecution
<1>1. row \in Rows /\ Sound(row) /\ rows[d] \in Rows
    BY ReplacedRows DEF RowsOf
<1>2. FlowsMakeSense(row) BY <1>1, FlowsOfExecuted
<1>3. \A f \in Flows(row) : f.date >= cutover BY <1>2 DEF FlowsMakeSense
<1>4. row.rev \in Nat /\ row.at \in Int BY <1>1, VouLedAssumption DEF Rows
<1>5. \A f \in Flows(row) : Posting(g, d, row.rev, row.at, f) \in Entry
    BY <1>1, <1>4, PostingEntry
<1>6. rows[d].rev \in Nat BY <1>1, VouLedAssumption DEF Rows
<1>7. \A e \in E : e.gen = g /\ e.doc = d => e.rev < row.rev
    BY <1>6 DEF Carried, OfSource, EntriesOf, Entry
<1> HIDE DEF PostsExecution
<1>8. \A f \in Flows(row) : \A old \in E : Key(old) # Key(Posting(g, d, row.rev, row.at, f))
    BY <1>4, <1>7 DEF Key, Posting
<1>9. \A f \in Flows(row) : Posting(g, d, row.rev, row.at, f) \notin E
    BY <1>8
<1>10. PICK P : P = PostingsOf(g, d, row, row.rev, row.at, cutover) OBVIOUS
<1>11. /\ \A e \in P : \E f \in Flows(row) : e = Posting(g, d, row.rev, row.at, f)
       /\ \A f \in Flows(row) : Posting(g, d, row.rev, row.at, f) \in P
    BY <1>3, <1>10, PostingsAre
<1>12. \A e \in P, old \in E : Key(old) # Key(e) BY <1>8, <1>11
<1>13. F = E \cup P BY <1>10, <1>12, InsertFresh DEF PostsExecution
<1> QED BY <1>2, <1>3, <1>5, <1>9, <1>10, <1>11, <1>13

LEMMA ExecutionEntries ==
    ASSUME NEW E, NEW g, NEW cutover, NEW rows, NEW d, NEW row, NEW after, NEW F,
           PostsExecution(E, g, cutover, rows, d, row, after, F)
    PROVE  /\ EntriesOf(F) /\ E \subseteq F
           /\ \A e \in F \ E : e.gen = g /\ e.type = "POSTING" /\ e.doc = d
                               /\ (e.dim = "stock" => row.kind # "intermediary")
<1>1. PICK P : P = PostingsOf(g, d, row, row.rev, row.at, cutover) OBVIOUS
<1>2. /\ FlowsMakeSense(row) /\ F = E \cup P
      /\ \A f \in Flows(row) : Posting(g, d, row.rev, row.at, f) \in Entry
      /\ \A e \in P : \E f \in Flows(row) : e = Posting(g, d, row.rev, row.at, f)
    BY <1>1, ExecutionPosts
<1>3. IsFiniteSet(P) BY <1>1, <1>2, PostingsFinite
<1>4. EntriesOf(E) BY DEF PostsExecution
<1>5. EntriesOf(F) BY <1>2, <1>3, <1>4, FS_Union DEF EntriesOf
<1>6. \A f \in Flows(row) : f.dim = "stock" => row.kind # "intermediary"
    BY <1>2 DEF FlowsMakeSense
<1>7. \A e \in P : e.gen = g /\ e.type = "POSTING" /\ e.doc = d
                   /\ (e.dim = "stock" => row.kind # "intermediary")
    BY <1>2, <1>6 DEF Posting
<1> QED BY <1>2, <1>5, <1>7

LEMMA ExecutionCarried ==
    ASSUME NEW E, NEW g, NEW cutover, NEW rows, NEW d, NEW row, NEW after, NEW F,
           PostsExecution(E, g, cutover, rows, d, row, after, F)
    PROVE  \A x \in DOMAIN after : Carried(F, g, cutover, x, after[x])
<1>1. PICK P : P = PostingsOf(g, d, row, row.rev, row.at, cutover) OBVIOUS
<1>2. /\ FlowsMakeSense(row) /\ F = E \cup P
      /\ \A f \in Flows(row) : f.date >= cutover
      /\ \A e \in P : \E f \in Flows(row) : e = Posting(g, d, row.rev, row.at, f)
    BY <1>1, ExecutionPosts
<1>3. /\ DOMAIN after = DOMAIN rows /\ after[d] = row
      /\ \A x \in DOMAIN rows \ {d} : after[x] = rows[x]
    BY ReplacedRows DEF PostsExecution
<1>4. \A e \in P : /\ e.gen = g /\ e.type = "POSTING" /\ e.doc = d /\ e.rev = row.rev
                   /\ e.date >= cutover
    BY <1>2 DEF Posting
<1>5. ASSUME NEW x \in DOMAIN rows \ {d} PROVE Carried(F, g, cutover, x, after[x])
    <2>1. OfSource(F, g, x) = OfSource(E, g, x) BY <1>2, <1>4 DEF OfSource
    <2>2. Carried(E, g, cutover, x, rows[x]) BY DEF PostsExecution
    <2> QED BY <1>3, <2>1, <2>2 DEF Carried
<1>6. Carried(F, g, cutover, d, row)
    <2>1. PICK s : s = OfSource(E, g, d) OBVIOUS
    <2>2. OfSource(F, g, d) = s \cup P BY <1>2, <1>4, <2>1 DEF OfSource
    <2>3. row.rev = rows[d].rev + 1 /\ rows[d].rev \in Nat /\ row.status = "EXECUTED"
        BY VouLedAssumption DEF PostsExecution, RowsOf, Rows
    <2>4. \A e \in s : e.date >= cutover /\ e.rev <= rows[d].rev
        BY <2>1 DEF PostsExecution, Carried
    <2>5. \A e \in s : e \in Entry BY <2>1 DEF PostsExecution, EntriesOf, OfSource
    <2>6. \A e \in s : e.rev <= row.rev /\ e.rev < row.rev
        BY <2>3, <2>4, <2>5 DEF Entry
    <2>7. \A e \in s \cup P : e.date >= cutover /\ e.rev <= row.rev
        BY <1>4, <2>3, <2>4, <2>6
    <2>8. {e \in s \cup P : e.type = "POSTING" /\ e.rev = row.rev} = P
        BY <1>4, <2>5, <2>6 DEF Entry
    <2>9. \A e \in s \cup P : e.type = "REVERSAL" => e.rev < row.rev
        BY <1>4, <2>6
    <2>10. row.kind # "intermediary" => FlowsFrom(row, cutover) # {}
        BY <1>2 DEF FlowsMakeSense, FlowsFrom
    <2> QED BY <1>1, <2>2, <2>3, <2>7, <2>8, <2>9, <2>10 DEF Carried
<1> QED BY <1>3, <1>5, <1>6

LEMMA ExecutionBalances ==
    ASSUME NEW E, NEW g, NEW cutover, NEW rows, NEW d, NEW row, NEW after, NEW F,
           PostsExecution(E, g, cutover, rows, d, row, after, F),
           NEW gen, gen.cutover = cutover, NEW dim, gen.opening[dim] \in Int, NEW date \in Nat,
           BalanceOn(E, g, gen, rows, dim, date)
    PROVE  BalanceOn(F, g, gen, after, dim, date)
<1>1. PICK P : P = PostingsOf(g, d, row, row.rev, row.at, cutover) OBVIOUS
<1>2. /\ FlowsMakeSense(row) /\ F = E \cup P
      /\ \A f \in Flows(row) : f.date >= cutover
      /\ \A e \in P : \E f \in Flows(row) : e = Posting(g, d, row.rev, row.at, f)
      /\ \A f \in Flows(row) : Posting(g, d, row.rev, row.at, f) \notin E
      /\ \A f \in Flows(row) : Posting(g, d, row.rev, row.at, f) \in P
    BY <1>1, ExecutionPosts
<1>3. /\ FlowsOn(row, dim, date) = {} =>
             EffectSet(after, dim, date) = EffectSet(rows, dim, date)
      /\ \A f : FlowsOn(row, dim, date) = {f} =>
            /\ EffectSet(after, dim, date) = EffectSet(rows, dim, date) \cup {EffectOf(d, f)}
            /\ EffectOf(d, f) \notin EffectSet(rows, dim, date)
    BY ExecutedEffects DEF PostsExecution
<1>4. CASE FlowsOn(row, dim, date) = {}
    <2>1. On(F, g, dim, date) = On(E, g, dim, date)
        BY <1>2, <1>4 DEF On, FlowsOn, Posting
    <2> QED BY <1>3, <1>4, <2>1 DEF BalanceOn
<1>5. CASE \E f \in Flows(row) :
                /\ f.dim = dim /\ f.date = date /\ f.delta \in Int
                /\ FlowsOn(row, dim, date) = {f}
    <2>1. PICK f \in Flows(row) :
                /\ f.dim = dim /\ f.date = date /\ f.delta \in Int
                /\ FlowsOn(row, dim, date) = {f}
        BY <1>5
    <2>2. PICK e : e = Posting(g, d, row.rev, row.at, f) OBVIOUS
    <2>3. e.gen = g /\ e.dim = dim /\ e.date = date /\ e.delta = f.delta
        BY <2>1, <2>2 DEF Posting
    <2>4. \A h \in Flows(row) : h.dim = dim /\ h.date = date => h = f
        BY <2>1 DEF FlowsOn
    <2>5. \A p \in P : p.dim = dim /\ p.date = date => p = e
        BY <1>2, <2>2, <2>4 DEF Posting
    <2>6. On(F, g, dim, date) = On(E, g, dim, date) \cup {e}
        BY <1>2, <2>2, <2>3, <2>5 DEF On
    <2>7. PICK r : r = EffectOf(d, f) OBVIOUS
    <2>8. r.delta = e.delta BY <2>3, <2>7 DEF EffectOf
    <2>9. date >= gen.cutover BY <1>2, <2>1
    <2>10. e \notin E /\ e.delta \in Int BY <1>2, <2>1, <2>2, <2>3
    <2>11. EntriesOf(E) /\ RowsOf(rows) BY DEF PostsExecution
    <2> QED BY <1>3, <2>1, <2>6, <2>7, <2>8, <2>9, <2>10, <2>11, BalanceGrows
<1> QED BY <1>2, <1>4, <1>5, OneFlowAtMost

-----------------------------------------------------------------------------
(* Reversal.                                                               *)

Reversal(p, rev, at) == [p EXCEPT !.type = "REVERSAL", !.rev = rev, !.at = at, !.delta = -@]

TakesBack(r, p, rev) ==
    /\ r \in Entry /\ r.type = "REVERSAL" /\ r.rev = rev
    /\ r.gen = p.gen /\ r.doc = p.doc /\ r.dim = p.dim /\ r.date = p.date
    /\ r.delta = -p.delta

LEMMA ReversalEntry ==
    ASSUME NEW p \in Entry, NEW rev \in Nat, NEW at \in Int
    PROVE  TakesBack(Reversal(p, rev, at), p, rev)
<1>1. PICK t, m : t = "REVERSAL" /\ m = -p.delta OBVIOUS
<1>2. m \in Int \ {0} /\ t \in {"OPENING", "POSTING", "REVERSAL"} BY <1>1 DEF Entry
<1>3. Reversal(p, rev, at) = [p EXCEPT !.type = t, !.rev = rev, !.at = at, !.delta = m]
    BY <1>1 DEF Reversal
<1>4. p = [gen |-> p.gen, type |-> p.type, doc |-> p.doc, dim |-> p.dim, rev |-> p.rev,
           date |-> p.date, at |-> p.at, delta |-> p.delta]
    BY DEF Entry
<1>5. Reversal(p, rev, at) =
          [gen |-> p.gen, type |-> t, doc |-> p.doc, dim |-> p.dim, rev |-> rev,
           date |-> p.date, at |-> at, delta |-> m]
    BY <1>3, <1>4
<1> QED BY <1>1, <1>2, <1>5 DEF Entry, TakesBack

\* What the reversal of a voucher makes of the ledger.
PostsReversal(E, g, cutover, rows, d, row, after, at, F) ==
    /\ EntriesOf(E) /\ RowsOf(rows) /\ RowsOf(after)
    /\ g \in Nat /\ cutover \in Nat /\ at \in Int
    /\ d \in DOMAIN rows /\ d \in Docs /\ Replaced(rows, d, row, after)
    /\ rows[d].status = "EXECUTED" /\ row.status = "APPROVED"
    /\ row.rev = rows[d].rev + 1 /\ row.kind = rows[d].kind
    /\ OfSource(E, g, d) # {}
    /\ \A e \in OfSource(E, g, d) : e.dim = "stock" => row.kind # "intermediary"
    /\ \A x \in DOMAIN rows : Carried(E, g, cutover, x, rows[x])
    /\ F = Insert(E, ReversalsOf(E, g, d, row.rev, at))

\* What is reversed is the posting of the execution under reversal.
LEMMA ReversalReverses ==
    ASSUME NEW E, NEW g, NEW cutover, NEW rows, NEW d, NEW row, NEW after, NEW at, NEW F,
           PostsReversal(E, g, cutover, rows, d, row, after, at, F)
    PROVE  /\ LatestPostings(E, g, d) \subseteq OfSource(E, g, d)
           /\ \A p \in LatestPostings(E, g, d) : p \in E /\ p.type = "POSTING"
           /\ row.kind # "intermediary" =>
                /\ LatestPostings(E, g, d) =
                     PostingsOf(g, d, rows[d], rows[d].rev, rows[d].at, cutover)
                /\ LatestPostings(E, g, d) # {}
<1>1. PICK s : s = OfSource(E, g, d) OBVIOUS
<1>2. PICK P : P = PostingsOf(g, d, rows[d], rows[d].rev, rows[d].at, cutover) OBVIOUS
<1>3. LatestPostings(E, g, d) =
         {e \in s : e.type = "POSTING" /\ \A other \in s : other.type = "POSTING" => other.rev <= e.rev}
    BY <1>1 DEF LatestPostings
<1>4. s \subseteq E BY <1>1 DEF OfSource
<1>5. SUFFICES ASSUME row.kind # "intermediary"
      PROVE LatestPostings(E, g, d) = P /\ LatestPostings(E, g, d) # {}
    BY <1>1, <1>2, <1>3, <1>4
<1>6. PICK old : old = rows[d] OBVIOUS
<1>7. /\ \A e \in s : e.rev <= old.rev
      /\ {e \in s : e.type = "POSTING" /\ e.rev = old.rev} = P
      /\ FlowsFrom(old, cutover) # {}
    BY <1>1, <1>2, <1>5, <1>6 DEF PostsReversal, Carried
<1>8. P # {}
    <2>1. PICK f \in Flows(old) : f.date >= cutover BY <1>7 DEF FlowsFrom
    <2>2. Posting(g, d, old.rev, old.at, f) \in P BY <1>2, <1>6, <2>1, PostingsAre
    <2> QED BY <2>2
<1>9. old.rev \in Nat /\ \A e \in s : e.rev \in Nat
    BY <1>4, <1>6, VouLedAssumption DEF PostsReversal, RowsOf, Rows, EntriesOf, Entry
<1>10. \A e \in P : e \in s /\ e.type = "POSTING" /\ e.rev = old.rev BY <1>7
<1>11. PICK q : q \in P BY <1>8
<1>12. \A e \in s : (\A other \in s : other.type = "POSTING" => other.rev <= e.rev) => e.rev = old.rev
    BY <1>7, <1>9, <1>10, <1>11
<1>13. \A e \in s : e.type = "POSTING" /\ e.rev = old.rev => e \in P BY <1>7
<1>14. \A e \in P : \A other \in s : other.type = "POSTING" => other.rev <= e.rev
    BY <1>7, <1>10
<1>15. LatestPostings(E, g, d) = P BY <1>3, <1>10, <1>12, <1>13, <1>14
<1> QED BY <1>8, <1>15

LEMMA ReversalPosts ==
    ASSUME NEW E, NEW g, NEW cutover, NEW rows, NEW d, NEW row, NEW after, NEW at, NEW F,
           PostsReversal(E, g, cutover, rows, d, row, after, at, F)
    PROVE  /\ row.rev \in Nat
           /\ F = E \cup ReversalsOf(E, g, d, row.rev, at)
           /\ \A p \in LatestPostings(E, g, d) :
                /\ p \in Entry /\ p.gen = g /\ p.doc = d /\ p.date >= cutover
                /\ p.rev <= rows[d].rev
                /\ Reversal(p, row.rev, at) \in ReversalsOf(E, g, d, row.rev, at)
                /\ Reversal(p, row.rev, at) \notin E
                /\ TakesBack(Reversal(p, row.rev, at), p, row.rev)
           /\ \A r \in ReversalsOf(E, g, d, row.rev, at) :
                \E p \in LatestPostings(E, g, d) : r = Reversal(p, row.rev, at)
<1>1. PICK L : L = LatestPostings(E, g, d) OBVIOUS
<1>2. /\ L \subseteq OfSource(E, g, d)
      /\ \A p \in L : p \in E /\ p.type = "POSTING"
    BY <1>1, ReversalReverses
<1>3. EntriesOf(E) /\ at \in Int BY DEF PostsReversal
<1>4. /\ row \in Rows /\ rows[d] \in Rows
    BY ReplacedRows DEF PostsReversal, RowsOf
<1>5. row.rev \in Nat /\ rows[d].rev \in Nat /\ row.rev = rows[d].rev + 1
    BY <1>4, VouLedAssumption DEF Rows, PostsReversal
<1>6. \A e \in OfSource(E, g, d) : e.date >= cutover /\ e.rev <= rows[d].rev
    BY DEF PostsReversal, Carried
<1>7. \A p \in L : /\ p \in Entry /\ p.gen = g /\ p.doc = d /\ p.date >= cutover
                   /\ p.rev <= rows[d].rev
    BY <1>2, <1>3, <1>6 DEF OfSource, EntriesOf
<1>8. PICK R : R = ReversalsOf(E, g, d, row.rev, at) OBVIOUS
<1>9. R = {Reversal(p, row.rev, at) : p \in L} BY <1>1, <1>8 DEF ReversalsOf, Reversal
<1>10. \A p \in L : \A old \in E : Key(old) # Key(Reversal(p, row.rev, at))
    <2>1. SUFFICES ASSUME NEW p \in L, NEW old \in E, Key(old) = Key(Reversal(p, row.rev, at))
          PROVE  FALSE
        OBVIOUS
    <2>2. PICK r : r = Reversal(p, row.rev, at) OBVIOUS
    <2>6. TakesBack(r, p, row.rev) BY <1>3, <1>5, <1>7, <2>2, ReversalEntry
    <2>3. r.gen = g /\ r.doc = d /\ r.rev = row.rev BY <1>7, <2>6 DEF TakesBack
    <2>4. old.gen = g /\ old.doc = d /\ old.rev = row.rev BY <2>1, <2>2, <2>3 DEF Key
    <2>5. old \in OfSource(E, g, d) BY <2>4 DEF OfSource
    <2> QED BY <1>5, <1>6, <2>4, <2>5
<1>11. \A p \in L : Reversal(p, row.rev, at) \notin E BY <1>10
<1>12. \A e \in R, old \in E : Key(old) # Key(e) BY <1>9, <1>10
<1>13. F = E \cup R BY <1>8, <1>12, InsertFresh DEF PostsReversal
<1>14. \A p \in L : TakesBack(Reversal(p, row.rev, at), p, row.rev)
    BY <1>3, <1>5, <1>7, ReversalEntry
<1> QED BY <1>1, <1>5, <1>7, <1>8, <1>9, <1>11, <1>13, <1>14

LEMMA ReversalEntries ==
    ASSUME NEW E, NEW g, NEW cutover, NEW rows, NEW d, NEW row, NEW after, NEW at, NEW F,
           PostsReversal(E, g, cutover, rows, d, row, after, at, F)
    PROVE  /\ EntriesOf(F) /\ E \subseteq F
           /\ \A e \in F \ E : /\ e.gen = g /\ e.type = "REVERSAL" /\ e.doc = d
                               /\ e.dim = "stock" => row.kind # "intermediary"
<1>1. PICK L : L = LatestPostings(E, g, d) OBVIOUS
<1>2. PICK R : R = ReversalsOf(E, g, d, row.rev, at) OBVIOUS
<1>3. /\ F = E \cup R
      /\ \A p \in L : /\ p.gen = g /\ p.doc = d
                      /\ TakesBack(Reversal(p, row.rev, at), p, row.rev)
      /\ \A r \in R : \E p \in L : r = Reversal(p, row.rev, at)
      /\ \A p \in L : Reversal(p, row.rev, at) \in R
    BY <1>1, <1>2, ReversalPosts
<1>4. L \subseteq OfSource(E, g, d) BY <1>1, ReversalReverses
<1>5. \A e \in OfSource(E, g, d) : e.dim = "stock" => row.kind # "intermediary"
    BY DEF PostsReversal
<1>6. \A e \in R : /\ e \in Entry /\ e.gen = g /\ e.type = "REVERSAL" /\ e.doc = d
                   /\ e.dim = "stock" => row.kind # "intermediary"
    BY <1>3, <1>4, <1>5 DEF TakesBack
<1>7. EntriesOf(E) BY DEF PostsReversal
<1>8. IsFiniteSet(L)
    <2>1. L \subseteq E BY <1>4 DEF OfSource
    <2> QED BY <1>7, <2>1, FS_Subset DEF EntriesOf
<1> DEFINE m == [p \in L |-> Reversal(p, row.rev, at)]
<1>9. \A r \in R : \E p \in L : m[p] = r BY <1>3
<1> HIDE DEF m
<1>10. IsFiniteSet(R) BY <1>8, <1>9, FiniteImage
<1>11. EntriesOf(F) BY <1>3, <1>6, <1>7, <1>10, FS_Union DEF EntriesOf
<1> QED BY <1>3, <1>6, <1>11

LEMMA ReversalCarried ==
    ASSUME NEW E, NEW g, NEW cutover, NEW rows, NEW d, NEW row, NEW after, NEW at, NEW F,
           PostsReversal(E, g, cutover, rows, d, row, after, at, F)
    PROVE  \A x \in DOMAIN after : Carried(F, g, cutover, x, after[x])
<1>1. PICK L : L = LatestPostings(E, g, d) OBVIOUS
<1>2. PICK R : R = ReversalsOf(E, g, d, row.rev, at) OBVIOUS
<1>3. /\ F = E \cup R
      /\ \A p \in L : /\ p.gen = g /\ p.doc = d /\ p.date >= cutover
                      /\ TakesBack(Reversal(p, row.rev, at), p, row.rev)
      /\ \A r \in R : \E p \in L : r = Reversal(p, row.rev, at)
      /\ \A p \in L : Reversal(p, row.rev, at) \in R
    BY <1>1, <1>2, ReversalPosts
<1>4. \A e \in R : /\ e.gen = g /\ e.type = "REVERSAL" /\ e.doc = d /\ e.rev = row.rev
                   /\ e.date >= cutover
    BY <1>3 DEF TakesBack
<1>5. /\ DOMAIN after = DOMAIN rows /\ after[d] = row
      /\ \A x \in DOMAIN rows \ {d} : after[x] = rows[x]
    BY ReplacedRows DEF PostsReversal
<1>6. ASSUME NEW x \in DOMAIN rows \ {d} PROVE Carried(F, g, cutover, x, after[x])
    <2>1. OfSource(F, g, x) = OfSource(E, g, x) BY <1>3, <1>4 DEF OfSource
    <2>2. Carried(E, g, cutover, x, rows[x]) BY DEF PostsReversal
    <2> QED BY <1>5, <2>1, <2>2 DEF Carried
<1>7. Carried(F, g, cutover, d, row)
    <2>1. PICK s : s = OfSource(E, g, d) OBVIOUS
    <2>2. OfSource(F, g, d) = s \cup R BY <1>3, <1>4, <2>1 DEF OfSource
    <2>3. row.rev = rows[d].rev + 1 /\ rows[d].rev \in Nat /\ row.status = "APPROVED"
        BY VouLedAssumption DEF PostsReversal, RowsOf, Rows
    <2>4. \A e \in s : e.date >= cutover /\ e.rev <= rows[d].rev /\ e.rev \in Nat
        BY <2>1 DEF PostsReversal, Carried, EntriesOf, Entry, OfSource
    <2>5. \A e \in s \cup R : e.date >= cutover /\ e.rev <= row.rev
        BY <1>4, <2>3, <2>4
    <2>6. ASSUME row.kind # "intermediary", NEW p \in s \cup R, p.type = "POSTING"
          PROVE  \E r \in s \cup R : r.type = "REVERSAL" /\ r.rev >= p.rev
        <3>1. L # {} BY <1>1, <2>6, ReversalReverses
        <3>2. PICK r : r \in R BY <1>3, <3>1
        <3>3. r.type = "REVERSAL" /\ r.rev = row.rev BY <1>4, <3>2
        <3>4. r.rev >= p.rev BY <2>3, <2>5, <3>3
        <3> QED BY <3>2, <3>3, <3>4
    <2> QED BY <2>2, <2>3, <2>5, <2>6 DEF Carried
<1> QED BY <1>5, <1>6, <1>7

\* A posting is taken back by r.
Undone(E, r) ==
    \E p \in E :
        p = [r EXCEPT !.type = "POSTING", !.rev = r.rev - 1, !.delta = -r.delta, !.at = p.at]

\* The reversal of goods or cash takes back one posting, entry by entry.
LEMMA ReversalUndoes ==
    ASSUME NEW E, NEW g, NEW cutover, NEW rows, NEW d, NEW row, NEW after, NEW at, NEW F,
           PostsReversal(E, g, cutover, rows, d, row, after, at, F), row.kind # "intermediary",
           NEW r \in F \ E
    PROVE  Undone(F, r)
<1>1. PICK L : L = LatestPostings(E, g, d) OBVIOUS
<1>2. PICK R : R = ReversalsOf(E, g, d, row.rev, at) OBVIOUS
<1>3. PICK P : P = PostingsOf(g, d, rows[d], rows[d].rev, rows[d].at, cutover) OBVIOUS
<1>4. /\ F = E \cup R
      /\ \A p \in L : p \in Entry /\ TakesBack(Reversal(p, row.rev, at), p, row.rev)
      /\ \A q \in R : \E p \in L : q = Reversal(p, row.rev, at)
    BY <1>1, <1>2, ReversalPosts
<1>5. L = P /\ \A p \in L : p \in E /\ p.type = "POSTING" BY <1>1, <1>3, ReversalReverses
<1>6. PICK p \in L : r = Reversal(p, row.rev, at) BY <1>4
<1>7. p.rev = rows[d].rev BY <1>3, <1>5, PostingsAre DEF Posting
<1>8. row.rev = rows[d].rev + 1 /\ rows[d].rev \in Nat
    BY VouLedAssumption DEF PostsReversal, RowsOf, Rows
<1>9. /\ r \in Entry /\ r.rev - 1 = p.rev /\ -r.delta = p.delta
      /\ r.gen = p.gen /\ r.doc = p.doc /\ r.dim = p.dim /\ r.date = p.date
    BY <1>4, <1>6, <1>7, <1>8 DEF TakesBack, Entry
<1>10. PICK n, m : n = r.rev - 1 /\ m = -r.delta OBVIOUS
<1>11. r = [gen |-> r.gen, type |-> r.type, doc |-> r.doc, dim |-> r.dim, rev |-> r.rev,
            date |-> r.date, at |-> r.at, delta |-> r.delta]
    BY <1>9 DEF Entry
<1>12. p = [gen |-> p.gen, type |-> p.type, doc |-> p.doc, dim |-> p.dim, rev |-> p.rev,
            date |-> p.date, at |-> p.at, delta |-> p.delta]
    BY <1>4 DEF Entry
<1>13. p = [r EXCEPT !.type = "POSTING", !.rev = n, !.delta = m, !.at = p.at]
    BY <1>5, <1>9, <1>10, <1>11, <1>12
<1> QED BY <1>4, <1>5, <1>10, <1>13 DEF Undone

\* An entry that takes back what an effect that is no more had added.
LEMMA BalanceShrinks ==
    ASSUME NEW E, EntriesOf(E), NEW F, NEW g, NEW gen, NEW rows, NEW after, NEW dim, NEW date,
           RowsOf(after), date >= gen.cutover, gen.opening[dim] \in Int,
           BalanceOn(E, g, gen, rows, dim, date),
           NEW e, e \notin E, e.delta \in Int,
           On(F, g, dim, date) = On(E, g, dim, date) \cup {e},
           NEW r, r \notin EffectSet(after, dim, date), r.delta \in Int, e.delta = -r.delta,
           EffectSet(rows, dim, date) = EffectSet(after, dim, date) \cup {r}
    PROVE  BalanceOn(F, g, gen, after, dim, date)
<1>1. PICK on : on = On(E, g, dim, date) OBVIOUS
<1>2. PICK eff : eff = EffectSet(after, dim, date) OBVIOUS
<1>3. Amounts(on) /\ Amounts(eff) BY <1>1, <1>2, OnAdds, EffectsAdd
<1>4. e \notin on BY <1>1 DEF On
<1>5. SumOf(on \cup {e}) = SumOf(on) + e.delta BY <1>3, <1>4, SumOfOneMore
<1>6. SumOf(eff \cup {r}) = SumOf(eff) + r.delta BY <1>2, <1>3, SumOfOneMore
<1>7. SumOf(on) \in Int /\ SumOf(eff) \in Int BY <1>3, SumOfType
<1>8. PICK o : o = IF date = gen.cutover THEN gen.opening[dim] ELSE 0 OBVIOUS
<1>9. o \in Int BY <1>8
<1>10. SumOf(on) = o + SumOf(eff \cup {r}) BY <1>1, <1>2, <1>8 DEF BalanceOn
<1>11. SumOf(on \cup {e}) = o + SumOf(eff) BY <1>5, <1>6, <1>7, <1>9, <1>10
<1> QED BY <1>1, <1>2, <1>8, <1>11 DEF BalanceOn

LEMMA ReversalBalances ==
    ASSUME NEW E, NEW g, NEW cutover, NEW rows, NEW d, NEW row, NEW after, NEW at, NEW F,
           PostsReversal(E, g, cutover, rows, d, row, after, at, F),
           NEW gen, gen.cutover = cutover, NEW dim, gen.opening[dim] \in Int, NEW date \in Nat,
           dim = "stock" \/ row.kind # "intermediary",
           BalanceOn(E, g, gen, rows, dim, date)
    PROVE  BalanceOn(F, g, gen, after, dim, date)
<1>1. PICK L : L = LatestPostings(E, g, d) OBVIOUS
<1>2. PICK R : R = ReversalsOf(E, g, d, row.rev, at) OBVIOUS
<1>3. PICK old : old = rows[d] OBVIOUS
<1>4. /\ F = E \cup R
      /\ \A p \in L : /\ p.gen = g /\ p.date >= cutover
                      /\ Reversal(p, row.rev, at) \notin E
                      /\ TakesBack(Reversal(p, row.rev, at), p, row.rev)
      /\ \A r \in R : \E p \in L : r = Reversal(p, row.rev, at)
      /\ \A p \in L : Reversal(p, row.rev, at) \in R
    BY <1>1, <1>2, ReversalPosts
<1>5. /\ old \in Rows /\ Sound(old) /\ old.status = "EXECUTED" /\ row.status # "EXECUTED"
      /\ row.kind = old.kind
      /\ EntriesOf(E) /\ RowsOf(rows) /\ RowsOf(after)
      /\ d \in DOMAIN after /\ Replaced(after, d, old, rows) /\ after[d] = row
      /\ cutover \in Nat
    <2>1. after[d] = row /\ DOMAIN after = DOMAIN rows BY ReplacedRows DEF PostsReversal
    <2>2. Replaced(after, d, old, rows)
        BY <1>3 DEF PostsReversal, Replaced, RowsOf
    <2> QED BY <1>3, <2>1, <2>2 DEF PostsReversal, RowsOf
<1>6. FlowsMakeSense(old) BY <1>5, FlowsOfExecuted
<1>7. /\ FlowsOn(old, dim, date) = {} =>
             EffectSet(rows, dim, date) = EffectSet(after, dim, date)
      /\ \A f : FlowsOn(old, dim, date) = {f} =>
            /\ EffectSet(rows, dim, date) = EffectSet(after, dim, date) \cup {EffectOf(d, f)}
            /\ EffectOf(d, f) \notin EffectSet(after, dim, date)
    BY <1>5, ExecutedEffects
\* Nothing happens in this dimension on this date, on neither side.
<1>8. ASSUME \A p \in L : ~(p.dim = dim /\ p.date = date)
      PROVE  On(F, g, dim, date) = On(E, g, dim, date)
    <2>1. \A r \in R : ~(r.dim = dim /\ r.date = date) BY <1>4, <1>8 DEF TakesBack
    <2> QED BY <1>4, <2>1 DEF On
<1>9. CASE row.kind = "intermediary"
    <2>1. dim = "stock" BY <1>9
    <2>2. \A p \in L : p.dim # "stock"
        BY <1>1, <1>9, ReversalReverses DEF PostsReversal
    <2>3. FlowsOn(old, dim, date) = {} BY <1>5, <1>6, <1>9, <2>1 DEF FlowsMakeSense, FlowsOn
    <2> QED BY <1>7, <1>8, <2>1, <2>2, <2>3 DEF BalanceOn
<1>10. CASE row.kind # "intermediary"
    <2>1. L = PostingsOf(g, d, old, old.rev, old.at, cutover) BY <1>1, <1>3, <1>10, ReversalReverses
    <2>2. /\ \A p \in L : \E f \in Flows(old) :
                f.date >= cutover /\ p = Posting(g, d, old.rev, old.at, f)
          /\ \A f \in Flows(old) : f.date >= cutover => Posting(g, d, old.rev, old.at, f) \in L
        BY <2>1, PostingsAre
    <2>3. CASE FlowsOn(old, dim, date) = {}
        <3>1. \A p \in L : ~(p.dim = dim /\ p.date = date)
            BY <2>2, <2>3 DEF FlowsOn, Posting
        <3> QED BY <1>7, <1>8, <2>3, <3>1 DEF BalanceOn
    <2>4. CASE ~(date >= cutover)
        <3>1. \A p \in L : ~(p.dim = dim /\ p.date = date) BY <1>4, <2>4
        <3> QED BY <1>8, <2>4, <3>1 DEF BalanceOn
    <2>5. CASE date >= cutover /\ \E f \in Flows(old) :
                /\ f.dim = dim /\ f.date = date /\ f.delta \in Int
                /\ FlowsOn(old, dim, date) = {f}
        <3>1. PICK f \in Flows(old) :
                /\ f.dim = dim /\ f.date = date /\ f.delta \in Int
                /\ FlowsOn(old, dim, date) = {f}
            BY <2>5
        <3>2. PICK p : p = Posting(g, d, old.rev, old.at, f) OBVIOUS
        <3>3. p \in L /\ p.dim = dim /\ p.date = date /\ p.delta = f.delta
            BY <2>2, <2>5, <3>1, <3>2 DEF Posting
        <3>4. \A h \in Flows(old) : h.dim = dim /\ h.date = date => h = f
            BY <3>1 DEF FlowsOn
        <3>5. \A q \in L : q.dim = dim /\ q.date = date => q = p
            BY <2>2, <3>2, <3>4 DEF Posting
        <3>6. PICK e : e = Reversal(p, row.rev, at) OBVIOUS
        <3>7. e \in R /\ e \notin E /\ TakesBack(e, p, row.rev) BY <1>4, <3>3, <3>6
        <3>8. e.gen = g /\ e.dim = dim /\ e.date = date /\ e.delta = -f.delta /\ e.delta \in Int
            BY <1>4, <3>1, <3>3, <3>7 DEF TakesBack
        <3>9. \A r \in R : r.dim = dim /\ r.date = date => r = e
            BY <1>4, <3>5, <3>6 DEF TakesBack
        <3>10. On(F, g, dim, date) = On(E, g, dim, date) \cup {e}
            BY <1>4, <3>7, <3>8, <3>9 DEF On
        <3>11. PICK r : r = EffectOf(d, f) OBVIOUS
        <3>12. r.delta = f.delta BY <3>11 DEF EffectOf
        <3> QED BY <1>5, <1>7, <2>5, <3>1, <3>7, <3>8, <3>10, <3>11, <3>12, BalanceShrinks
    <2> QED BY <1>6, <2>3, <2>4, <2>5, OneFlowAtMost
<1> QED BY <1>9, <1>10

-----------------------------------------------------------------------------
(* Rebuilding a generation.                                                *)

Opened(g, opening, cutover, dim) ==
    [gen |-> g, type |-> "OPENING", doc |-> NoDoc, dim |-> dim, rev |-> 0,
     date |-> cutover, at |-> 0, delta |-> opening[dim]]

LEMMA OpeningsAre ==
    ASSUME NEW g, NEW opening, NEW cutover
    PROVE  /\ \A e \in OpeningOf(g, opening, cutover) :
                \E dim \in Dims : opening[dim] # 0 /\ e = Opened(g, opening, cutover, dim)
           /\ \A dim \in Dims : opening[dim] # 0 =>
                Opened(g, opening, cutover, dim) \in OpeningOf(g, opening, cutover)
BY DEF OpeningOf, Opened

Replayed(g, rows, cutover) ==
    UNION {PostingsOf(g, d, rows[d], rows[d].rev, rows[d].at, cutover) : d \in Executing(rows)}

\* What the activation of a generation makes of the ledger.
PostsRebuild(E, g, cutover, opening, rows, F) ==
    /\ EntriesOf(E) /\ RowsOf(rows) /\ DOMAIN rows \subseteq Docs
    /\ g \in Nat /\ cutover \in Dates /\ opening \in [Dims -> Int]
    /\ \A e \in E : e.gen < g
    /\ F = Insert(E, OpeningOf(g, opening, cutover) \cup Replayed(g, rows, cutover))

PostedNow(g, rows, d, f) == Posting(g, d, rows[d].rev, rows[d].at, f)

LEMMA ReplayedAre ==
    ASSUME NEW E, NEW g, NEW cutover, NEW opening, NEW rows, NEW F,
           PostsRebuild(E, g, cutover, opening, rows, F)
    PROVE  /\ \A d \in Executing(rows) : FlowsMakeSense(rows[d]) /\ d \in Docs /\ d # NoDoc
           /\ \A e \in Replayed(g, rows, cutover) :
                \E d \in Executing(rows) : \E f \in Flows(rows[d]) :
                   f.date >= cutover /\ e = PostedNow(g, rows, d, f)
           /\ \A d \in Executing(rows) : \A f \in Flows(rows[d]) :
                /\ PostedNow(g, rows, d, f) \in Entry
                /\ f.date >= cutover => PostedNow(g, rows, d, f) \in Replayed(g, rows, cutover)
<1>1. \A d \in Executing(rows) :
         d \in DOMAIN rows /\ rows[d] \in Rows /\ Sound(rows[d]) /\ rows[d].status = "EXECUTED"
    BY DEF PostsRebuild, RowsOf, Executing
<1>2. \A d \in Executing(rows) : FlowsMakeSense(rows[d]) /\ d \in Docs /\ d # NoDoc
    BY <1>1, FlowsOfExecuted, VouLedAssumption DEF PostsRebuild
<1>3. \A e \in Replayed(g, rows, cutover) :
                \E d \in Executing(rows) :
                   e \in PostingsOf(g, d, rows[d], rows[d].rev, rows[d].at, cutover)
    BY DEF Replayed
<1>4. ASSUME NEW e \in Replayed(g, rows, cutover)
      PROVE  \E d \in Executing(rows) : \E f \in Flows(rows[d]) :
                   f.date >= cutover /\ e = PostedNow(g, rows, d, f)
    <2>1. PICK d \in Executing(rows) :
                   e \in PostingsOf(g, d, rows[d], rows[d].rev, rows[d].at, cutover)
        BY <1>3
    <2>2. PICK row : row = rows[d] OBVIOUS
    <2>3. e \in PostingsOf(g, d, row, row.rev, row.at, cutover) BY <2>1, <2>2
    <2>4. \E f \in Flows(row) : f.date >= cutover /\ e = Posting(g, d, row.rev, row.at, f)
        BY <2>3, PostingsAre
    <2> QED BY <2>2, <2>4 DEF PostedNow
<1>5. ASSUME NEW d \in Executing(rows), NEW f \in Flows(rows[d])
      PROVE  /\ PostedNow(g, rows, d, f) \in Entry
             /\ f.date >= cutover => PostedNow(g, rows, d, f) \in Replayed(g, rows, cutover)
    <2>1. PICK row : row = rows[d] OBVIOUS
    <2>2. PICK rev, at : rev = row.rev /\ at = row.at OBVIOUS
    <2>3. rev \in Nat /\ at \in Int /\ g \in Nat
        BY <1>1, <2>1, <2>2, VouLedAssumption DEF Rows, PostsRebuild
    <2>4. Posting(g, d, rev, at, f) \in Entry BY <1>1, <1>2, <2>1, <2>3, PostingEntry
    <2>5. f.date >= cutover => Posting(g, d, rev, at, f) \in PostingsOf(g, d, row, rev, at, cutover)
        BY <2>1, PostingsAre
    <2>6. PostingsOf(g, d, row, rev, at, cutover) \subseteq Replayed(g, rows, cutover)
        BY <2>1, <2>2 DEF Replayed
    <2> QED BY <2>1, <2>2, <2>4, <2>5, <2>6 DEF PostedNow
<1> QED BY <1>2, <1>4, <1>5

LEMMA RebuiltEntries ==
    ASSUME NEW E, NEW g, NEW cutover, NEW opening, NEW rows, NEW F,
           PostsRebuild(E, g, cutover, opening, rows, F)
    PROVE  /\ F = E \cup (OpeningOf(g, opening, cutover) \cup Replayed(g, rows, cutover))
           /\ EntriesOf(F)
           /\ \A e \in F \ E : e.gen = g /\ e.type # "REVERSAL" /\ Sourced(e, rows)
<1>1. PICK O : O = OpeningOf(g, opening, cutover) OBVIOUS
<1>2. PICK R : R = Replayed(g, rows, cutover) OBVIOUS
<1>3. /\ \A e \in O : \E dim \in Dims : opening[dim] # 0 /\ e = Opened(g, opening, cutover, dim)
    BY <1>1, OpeningsAre
<1>4. /\ \A d \in Executing(rows) : FlowsMakeSense(rows[d]) /\ d \in Docs /\ d # NoDoc
      /\ \A e \in R : \E d \in Executing(rows) : \E f \in Flows(rows[d]) :
                   f.date >= cutover /\ e = PostedNow(g, rows, d, f)
      /\ \A d \in Executing(rows) : \A f \in Flows(rows[d]) : PostedNow(g, rows, d, f) \in Entry
    BY <1>2, ReplayedAre
<1>5. \A e \in O \cup R : e.gen = g /\ e.type # "REVERSAL" BY <1>3, <1>4 DEF Opened, PostedNow, Posting
<1>6. \A e \in O \cup R, old \in E : Key(old) # Key(e)
    <2>1. g \in Nat /\ \A old \in E : old.gen < g /\ old.gen \in Nat
        BY DEF PostsRebuild, EntriesOf, Entry
    <2> QED BY <1>5, <2>1 DEF Key
<1>7. F = E \cup (O \cup R) BY <1>1, <1>2, <1>6, InsertFresh DEF PostsRebuild
<1>8. O \subseteq Entry
    <2>1. SUFFICES ASSUME NEW dim \in Dims, opening[dim] # 0
          PROVE Opened(g, opening, cutover, dim) \in Entry
        BY <1>3
    <2>2. g \in Nat /\ cutover \in Dates /\ opening[dim] \in Int \ {0} BY <2>1 DEF PostsRebuild
    <2> QED BY <2>2 DEF Opened, Entry
<1>9. IsFiniteSet(O)
    <2> DEFINE m == [x \in Dims |-> Opened(g, opening, cutover, x)]
    <2>1. \A y \in O : \E x \in Dims : m[x] = y BY <1>3
    <2> HIDE DEF m
    <2> QED BY <2>1, DimsFinite, FiniteImage
<1>10. R \subseteq Entry BY <1>4
<1>11. IsFiniteSet(R)
    <2> DEFINE G == {PostingsOf(g, d, rows[d], rows[d].rev, rows[d].at, cutover) : d \in Executing(rows)}
               m == [d \in Executing(rows) |-> PostingsOf(g, d, rows[d], rows[d].rev, rows[d].at, cutover)]
    <2>1. IsFiniteSet(Executing(rows))
        <3>1. Executing(rows) \subseteq DOMAIN rows BY DEF Executing
        <3> QED BY <3>1, FS_Subset DEF PostsRebuild, RowsOf
    <2>2. \A y \in G : \E d \in Executing(rows) : m[d] = y OBVIOUS
    <2>3. \A y \in G : IsFiniteSet(y) BY <1>4, PostingsFinite
    <2>4. R = UNION G BY <1>2 DEF Replayed
    <2> HIDE DEF G, m
    <2>5. IsFiniteSet(G) BY <2>1, <2>2, FiniteImage
    <2> QED BY <2>3, <2>4, <2>5, FS_UNION
<1>12. EntriesOf(F)
    <2>1. IsFiniteSet(O \cup R) BY <1>9, <1>11, FS_Union
    <2>2. EntriesOf(E) BY DEF PostsRebuild
    <2>3. IsFiniteSet(E \cup (O \cup R)) BY <2>1, <2>2, FS_Union DEF EntriesOf
    <2> QED BY <1>7, <1>8, <1>10, <2>2, <2>3 DEF EntriesOf
<1>13. \A e \in O : Sourced(e, rows) BY <1>3 DEF Opened, Sourced
<1>14. \A e \in R : Sourced(e, rows)
    <2>1. SUFFICES ASSUME NEW d \in Executing(rows), NEW f \in Flows(rows[d])
          PROVE Sourced(PostedNow(g, rows, d, f), rows)
        BY <1>4
    <2>2. d \in DOMAIN rows /\ rows[d].status = "EXECUTED" BY DEF Executing
    <2>3. f.dim = "stock" => rows[d].kind # "intermediary" BY <1>4 DEF FlowsMakeSense
    <2> QED BY <2>2, <2>3 DEF Sourced, PostedNow, Posting
<1> QED BY <1>1, <1>2, <1>5, <1>7, <1>12, <1>13, <1>14

LEMMA RebuiltCarried ==
    ASSUME NEW E, NEW g, NEW cutover, NEW opening, NEW rows, NEW F,
           PostsRebuild(E, g, cutover, opening, rows, F)
    PROVE  \A d \in DOMAIN rows : Carried(F, g, cutover, d, rows[d])
<1>1. PICK O : O = OpeningOf(g, opening, cutover) OBVIOUS
<1>2. PICK R : R = Replayed(g, rows, cutover) OBVIOUS
<1>3. F = E \cup (O \cup R) BY <1>1, <1>2, RebuiltEntries
<1>4. \A e \in O : e.doc = NoDoc BY <1>1, OpeningsAre DEF Opened
<1>5. /\ \A d \in Executing(rows) : FlowsMakeSense(rows[d])
      /\ \A e \in R : \E d \in Executing(rows) : \E f \in Flows(rows[d]) :
                   f.date >= cutover /\ e = PostedNow(g, rows, d, f)
      /\ \A d \in Executing(rows) : \A f \in Flows(rows[d]) :
            f.date >= cutover => PostedNow(g, rows, d, f) \in R
    BY <1>2, ReplayedAre
<1>6. \A e \in E : e.gen # g
    BY DEF PostsRebuild, EntriesOf, Entry
<1>7. SUFFICES ASSUME NEW d \in DOMAIN rows PROVE Carried(F, g, cutover, d, rows[d])
    OBVIOUS
<1>8. d # NoDoc BY VouLedAssumption DEF PostsRebuild
<1>9. PICK row : row = rows[d] OBVIOUS
<1>10. PICK s : s = OfSource(F, g, d) OBVIOUS
<1>11. row.rev \in Nat BY <1>9, VouLedAssumption DEF PostsRebuild, RowsOf, Rows
<1>12. \A e \in s : e \in R /\ e.doc = d
    BY <1>3, <1>4, <1>6, <1>8, <1>10 DEF OfSource
<1>13. ASSUME NEW e \in s
       PROVE  /\ d \in Executing(rows) /\ e.type = "POSTING" /\ e.rev = row.rev /\ e.date >= cutover
              /\ \E f \in Flows(row) : f.date >= cutover /\ e = Posting(g, d, row.rev, row.at, f)
    <2>1. PICK x \in Executing(rows) : \E f \in Flows(rows[x]) :
                   f.date >= cutover /\ e = PostedNow(g, rows, x, f)
        BY <1>5, <1>12
    <2>2. PICK f \in Flows(rows[x]) : f.date >= cutover /\ e = PostedNow(g, rows, x, f)
        BY <2>1
    <2>3. x = d BY <1>12, <2>2 DEF PostedNow, Posting
    <2>4. e = Posting(g, d, row.rev, row.at, f) /\ f \in Flows(row) /\ d \in Executing(rows)
        BY <1>9, <2>1, <2>2, <2>3 DEF PostedNow
    <2> QED BY <2>2, <2>4 DEF Posting
<1>14. CASE row.status # "EXECUTED"
    <2>1. s = {} BY <1>9, <1>13, <1>14 DEF Executing
    <2> QED BY <1>9, <1>10, <1>14, <2>1 DEF Carried
<1>15. CASE row.status = "EXECUTED"
    <2>1. d \in Executing(rows) BY <1>9, <1>15 DEF Executing
    <2>2. PICK P : P = PostingsOf(g, d, row, row.rev, row.at, cutover) OBVIOUS
    <2>3. /\ \A e \in P : \E f \in Flows(row) :
                f.date >= cutover /\ e = Posting(g, d, row.rev, row.at, f)
          /\ \A f \in Flows(row) : f.date >= cutover => Posting(g, d, row.rev, row.at, f) \in P
        BY <2>2, PostingsAre
    <2>4. \A e \in s : e \in P BY <1>13, <2>3
    <2>5. ASSUME NEW e \in P PROVE e \in s
        <3>1. PICK f \in Flows(row) : f.date >= cutover /\ e = Posting(g, d, row.rev, row.at, f)
            BY <2>3
        <3>2. e \in R BY <1>5, <1>9, <2>1, <3>1 DEF PostedNow
        <3>3. e.gen = g /\ e.doc = d BY <3>1 DEF Posting
        <3> QED BY <1>3, <1>10, <3>2, <3>3 DEF OfSource
    <2>6. s = P BY <2>4, <2>5
    <2>7. {e \in s : e.type = "POSTING" /\ e.rev = row.rev} = P BY <1>13, <2>6
    <2>8. \A e \in s : e.date >= cutover /\ e.rev <= row.rev BY <1>11, <1>13
    <2>9. \A e \in s : e.type # "REVERSAL" BY <1>13
    <2>10. s # {} => FlowsFrom(row, cutover) # {} BY <1>13 DEF FlowsFrom
    <2> QED BY <1>9, <1>10, <1>15, <2>2, <2>7, <2>8, <2>9, <2>10 DEF Carried
<1> QED BY <1>14, <1>15

\* The replayed postings pair off with the effects of the vouchers.
LEMMA ReplayedSum ==
    ASSUME NEW E, NEW g, NEW cutover, NEW opening, NEW rows, NEW F,
           PostsRebuild(E, g, cutover, opening, rows, F),
           NEW dim \in Dims, NEW date, date >= cutover
    PROVE  /\ Amounts(On(Replayed(g, rows, cutover), g, dim, date))
           /\ SumOf(On(Replayed(g, rows, cutover), g, dim, date)) =
                SumOf(EffectSet(rows, dim, date))
<1>1. PICK R : R = Replayed(g, rows, cutover) OBVIOUS
<1>2. PICK S : S = On(R, g, dim, date) OBVIOUS
<1>3. PICK T : T = EffectSet(rows, dim, date) OBVIOUS
<1>4. /\ \A e \in R : \E d \in Executing(rows) : \E f \in Flows(rows[d]) :
                   f.date >= cutover /\ e = PostedNow(g, rows, d, f)
      /\ \A d \in Executing(rows) : \A f \in Flows(rows[d]) :
            f.date >= cutover => PostedNow(g, rows, d, f) \in R
    BY <1>1, ReplayedAre
<1>5. /\ \A r \in T : \E d \in Executing(rows) :
             \E f \in FlowsOn(rows[d], dim, date) : r = EffectOf(d, f)
      /\ \A d \in Executing(rows) : \A f \in FlowsOn(rows[d], dim, date) : EffectOf(d, f) \in T
      /\ \A d \in Executing(rows) :
            \A f \in FlowsOn(rows[d], dim, date), h \in FlowsOn(rows[d], dim, date) : f = h
    BY <1>3, EffectElements DEF PostsRebuild
<1>6. Amounts(S)
    <2>1. F = E \cup (OpeningOf(g, opening, cutover) \cup R) /\ EntriesOf(F)
        BY <1>1, RebuiltEntries
    <2>2. R \subseteq F BY <2>1
    <2>3. EntriesOf(R) BY <2>1, <2>2, FS_Subset DEF EntriesOf
    <2> QED BY <1>2, <2>3, OnAdds
\* The pair of an entry.
<1> DEFINE Pair(e) == [doc |-> e.doc, delta |-> e.delta]
           m == [e \in S |-> Pair(e)]
<1>7. ASSUME NEW e \in S
      PROVE  \E d \in Executing(rows) : \E f \in FlowsOn(rows[d], dim, date) :
                e = PostedNow(g, rows, d, f) /\ Pair(e) = EffectOf(d, f)
    <2>1. e \in R /\ e.dim = dim /\ e.date = date BY <1>2 DEF On
    <2>2. PICK d \in Executing(rows) : \E f \in Flows(rows[d]) : e = PostedNow(g, rows, d, f)
        BY <1>4, <2>1
    <2>3. PICK f \in Flows(rows[d]) : e = PostedNow(g, rows, d, f) BY <2>2
    <2>4. e.doc = d /\ e.delta = f.delta /\ e.dim = f.dim /\ e.date = f.date
        BY <2>3 DEF PostedNow, Posting
    <2>5. f \in FlowsOn(rows[d], dim, date) BY <2>1, <2>4 DEF FlowsOn
    <2>6. Pair(e) = EffectOf(d, f) BY <2>4 DEF EffectOf
    <2> QED BY <2>3, <2>5, <2>6
<1>8. ASSUME NEW d \in Executing(rows), NEW f \in FlowsOn(rows[d], dim, date)
      PROVE  PostedNow(g, rows, d, f) \in S /\ Pair(PostedNow(g, rows, d, f)) = EffectOf(d, f)
    <2>1. f \in Flows(rows[d]) /\ f.dim = dim /\ f.date = date BY DEF FlowsOn
    <2>2. PICK e : e = PostedNow(g, rows, d, f) OBVIOUS
    <2>3. e \in R BY <1>4, <2>1, <2>2
    <2>4. e.gen = g /\ e.doc = d /\ e.delta = f.delta /\ e.dim = f.dim /\ e.date = f.date
        BY <2>2 DEF PostedNow, Posting
    <2>5. e \in S BY <1>2, <2>1, <2>3, <2>4 DEF On
    <2> QED BY <2>2, <2>4, <2>5 DEF EffectOf
<1>9. \A x \in S, y \in S : m[x] = m[y] => x = y
    <2>1. SUFFICES ASSUME NEW x \in S, NEW y \in S, Pair(x) = Pair(y) PROVE x = y
        OBVIOUS
    <2>2. PICK d \in Executing(rows) : \E f \in FlowsOn(rows[d], dim, date) :
                x = PostedNow(g, rows, d, f) /\ Pair(x) = EffectOf(d, f)
        BY <1>7
    <2>3. PICK f \in FlowsOn(rows[d], dim, date) :
                x = PostedNow(g, rows, d, f) /\ Pair(x) = EffectOf(d, f)
        BY <2>2
    <2>4. PICK b \in Executing(rows) : \E h \in FlowsOn(rows[b], dim, date) :
                y = PostedNow(g, rows, b, h) /\ Pair(y) = EffectOf(b, h)
        BY <1>7
    <2>5. PICK h \in FlowsOn(rows[b], dim, date) :
                y = PostedNow(g, rows, b, h) /\ Pair(y) = EffectOf(b, h)
        BY <2>4
    <2>6. d = b BY <2>1, <2>3, <2>5 DEF EffectOf
    <2>7. f = h BY <1>5, <2>6
    <2> QED BY <2>3, <2>5, <2>6, <2>7
<1>10. T = {m[x] : x \in S}
    <2>1. \A x \in S : Pair(x) \in T BY <1>5, <1>7
    <2>2. \A r \in T : \E x \in S : Pair(x) = r BY <1>5, <1>8
    <2> QED BY <2>1, <2>2
<1>11. \A x \in S : x.delta = m[x].delta OBVIOUS
<1> HIDE DEF m
<1>12. SumOf(S) = SumOf(T) BY <1>6, <1>9, <1>10, <1>11, SumOfPairs
<1> QED BY <1>1, <1>2, <1>3, <1>6, <1>12

LEMMA RebuiltBalances ==
    ASSUME NEW E, NEW g, NEW cutover, NEW opening, NEW rows, NEW F,
           PostsRebuild(E, g, cutover, opening, rows, F),
           NEW gen, gen.cutover = cutover, gen.opening = opening,
           NEW dim \in Dims, NEW date \in Nat
    PROVE  BalanceOn(F, g, gen, rows, dim, date)
<1>1. PICK O : O = OpeningOf(g, opening, cutover) OBVIOUS
<1>2. PICK R : R = Replayed(g, rows, cutover) OBVIOUS
<1>3. F = E \cup (O \cup R) BY <1>1, <1>2, RebuiltEntries
<1>4. /\ \A e \in O : \E x \in Dims : opening[x] # 0 /\ e = Opened(g, opening, cutover, x)
      /\ \A x \in Dims : opening[x] # 0 => Opened(g, opening, cutover, x) \in O
    BY <1>1, OpeningsAre
<1>5. \A e \in R : \E d \in Executing(rows) : \E f \in Flows(rows[d]) :
                   f.date >= cutover /\ e = PostedNow(g, rows, d, f)
    BY <1>2, ReplayedAre
<1>6. \A e \in E : e.gen # g
    BY DEF PostsRebuild, EntriesOf, Entry
<1>7. On(F, g, dim, date) = On(O, g, dim, date) \cup On(R, g, dim, date)
    BY <1>3, <1>6 DEF On
<1>8. cutover \in Nat /\ opening[dim] \in Int
    BY DocumentAssumption DEF PostsRebuild
<1>9. CASE ~(date >= cutover)
    <2>1. On(O, g, dim, date) = {}
        BY <1>4, <1>8, <1>9 DEF On, Opened
    <2>2. On(R, g, dim, date) = {}
        BY <1>5, <1>9 DEF On, PostedNow, Posting
    <2>3. On(F, g, dim, date) = {} BY <1>7, <2>1, <2>2
    <2> QED BY <1>9, <2>3, SumOfNothing DEF BalanceOn
<1>10. CASE date >= cutover
    <2>1. PICK eff : eff = SumOf(EffectSet(rows, dim, date)) OBVIOUS
    <2>2. PICK S : S = On(R, g, dim, date) OBVIOUS
    <2>3. Amounts(S) /\ SumOf(S) = eff BY <1>2, <1>10, <2>1, <2>2, ReplayedSum
    <2>4. eff \in Int BY <2>3, SumOfType
    <2>5. CASE date = cutover /\ opening[dim] # 0
        <3>1. PICK e : e = Opened(g, opening, cutover, dim) OBVIOUS
        <3>2. /\ e \in O /\ e.gen = g /\ e.dim = dim /\ e.date = date
              /\ e.delta = opening[dim] /\ e.type = "OPENING"
            BY <1>4, <2>5, <3>1 DEF Opened
        <3>3. \A x \in O : x.dim = dim => x = e BY <1>4, <3>1 DEF Opened
        <3>4. On(O, g, dim, date) = {e} BY <3>2, <3>3 DEF On
        <3>5. e \notin S
            BY <1>5, <2>2, <3>2 DEF On, PostedNow, Posting
        <3>6. SumOf(S \cup {e}) = eff + opening[dim] BY <1>8, <2>3, <3>2, <3>5, SumOfOneMore
        <3>7. On(F, g, dim, date) = S \cup {e} BY <1>7, <2>2, <3>4
        <3> QED BY <1>8, <1>10, <2>1, <2>4, <2>5, <3>6, <3>7 DEF BalanceOn
    <2>6. CASE ~(date = cutover /\ opening[dim] # 0)
        <3>1. On(O, g, dim, date) = {}
            BY <1>4, <2>6 DEF On, Opened
        <3>2. On(F, g, dim, date) = S BY <1>7, <2>2, <3>1
        <3> QED BY <1>8, <1>10, <2>1, <2>3, <2>4, <2>6, <3>2 DEF BalanceOn
    <2> QED BY <2>5, <2>6
<1> QED BY <1>9, <1>10

-----------------------------------------------------------------------------
(* The inductive invariant.                                                *)

BrokeredIn(rows, d) == d \in DOMAIN rows /\ rows[d].kind = "intermediary" /\ rows[d].status # "NONE"

NoBrokers(rows) == \A d \in DOMAIN rows : ~BrokeredIn(rows, d)

\* What generation gen, number g, holds is what the vouchers say.
LedgerRight(E, g, gen, rows) ==
    /\ \A d \in DOMAIN rows : Carried(E, g, gen.cutover, d, rows[d])
    /\ \A dim \in Dims, date \in Dates :
         dim = "stock" \/ NoBrokers(rows) => BalanceOn(E, g, gen, rows, dim, date)
    /\ ~NegativeTimeline(E, g)

AllUndone(E, rows) ==
    \A r \in E : r.type = "REVERSAL" /\ ~BrokeredIn(rows, r.doc) => Undone(E, r)

Generations == [cutover : Dates, status : {"ACTIVE", "ARCHIVED"}, opening : Openings]

DocsPart == RowsOf(docs) /\ DOMAIN docs \subseteq Docs

ControlPart ==
    /\ control \in [status : {"DRAFT", "ACTIVE", "REOPENING"},
                    cutover : Dates \cup {0}, active : 0..Len(gens)]
    /\ gens \in Seq(Generations)
    /\ draft \in Openings \cup {NoOpening}
    /\ clock \in 0..MaxClock
    /\ ControlMatchesGenerations
    /\ GenerationsInTurn

EntriesPart ==
    /\ EntriesOf(entries)
    /\ \A e \in entries : e.gen \in 1..Len(gens) /\ Sourced(e, docs)

LedgerPart ==
    control.active # 0 => LedgerRight(entries, control.active, gens[control.active], docs)

Inv == DocsPart /\ ControlPart /\ EntriesPart /\ LedgerPart /\ AllUndone(entries, docs)

LEMMA InvImpliesTypes ==
    ASSUME Inv
    PROVE  TypeOK
<1>1. DOMAIN docs \subseteq Docs /\ docs \in [DOMAIN docs -> Rows]
    BY DEF Inv, DocsPart, RowsOf
<1>2. /\ control \in [status : {"DRAFT", "ACTIVE", "REOPENING"},
                    cutover : Dates \cup {0}, active : 0..Len(gens)]
      /\ gens \in Seq([cutover : Dates, status : {"ACTIVE", "ARCHIVED"}, opening : Openings])
      /\ draft \in Openings \cup {NoOpening}
      /\ clock \in 0..MaxClock
    BY DEF Inv, ControlPart, Generations
<1>3. \A e \in entries :
         /\ e.gen \in 1..Len(gens)
         /\ e.type \in {"OPENING", "POSTING", "REVERSAL"}
         /\ e.doc \in Docs \cup {NoDoc}
         /\ e.dim \in Dims
         /\ e.delta # 0
    BY DEF Inv, EntriesPart, EntriesOf, Entry
<1> QED BY <1>1, <1>2, <1>3 DEF TypeOK

LEMMA InvImpliesUndone ==
    ASSUME Inv
    PROVE  GoodsAndCashReversedOnce
<1>1. SUFFICES ASSUME NEW r \in Reversals, r.doc \notin Brokered
      PROVE  UndoesOnePosting(r)
    BY DEF GoodsAndCashReversedOnce
<1>2. r \in entries /\ r.type = "REVERSAL" /\ ~BrokeredIn(docs, r.doc)
    BY <1>1 DEF Reversals, Brokered, BrokeredIn
<1>3. Undone(entries, r) BY <1>2 DEF Inv, AllUndone
<1> QED BY <1>3 DEF Undone, UndoesOnePosting

LEMMA InvImpliesBalanced ==
    ASSUME Inv
    PROVE  LedgerMatchesVouchers
<1>1. SUFFICES ASSUME Brokered = {}, control.active # 0, NEW dim \in Dims, NEW date \in Dates
      PROVE  SumOf({e \in InGeneration(control.active) : e.dim = dim /\ e.date = date}) =
                IF date \in CountedDates THEN OpeningOn(dim, date) + Effects(dim, date) ELSE 0
    BY DEF LedgerMatchesVouchers, Balanced
<1>2. NoBrokers(docs) BY <1>1 DEF Brokered, NoBrokers, BrokeredIn
<1>3. BalanceOn(entries, control.active, gens[control.active], docs, dim, date)
    BY <1>1, <1>2 DEF Inv, LedgerPart, LedgerRight
<1>4. {e \in InGeneration(control.active) : e.dim = dim /\ e.date = date}
        = On(entries, control.active, dim, date)
    BY DEF InGeneration, On
<1>5. OpeningOn(dim, date) =
        IF date = gens[control.active].cutover THEN gens[control.active].opening[dim] ELSE 0
    BY DEF OpeningOn, ActiveGeneration
<1>6. date \in CountedDates <=> date >= gens[control.active].cutover
    BY DEF CountedDates, ActiveGeneration
<1>7. Effects(dim, date) = SumOf(EffectSet(docs, dim, date)) BY EffectsAre
<1> QED BY <1>3, <1>4, <1>5, <1>6, <1>7 DEF BalanceOn

LEMMA InitInvariant == Init => Inv
<1>1. SUFFICES ASSUME Init PROVE Inv OBVIOUS
<1>2. DocsPart BY <1>1, VouLedAssumption DEF Init, DocsPart, RowsOf
<1>3. ControlPart
    <2>1. gens \in Seq(Generations) /\ Len(gens) = 0 /\ DOMAIN gens = {} BY <1>1 DEF Init
    <2>2. control \in [status : {"DRAFT", "ACTIVE", "REOPENING"},
                    cutover : Dates \cup {0}, active : 0..Len(gens)]
        BY <1>1, <2>1 DEF Init
    <2>3. clock \in 0..MaxClock BY <1>1, VouLedAssumption DEF Init
    <2>4. ControlMatchesGenerations BY <1>1, <2>1 DEF Init, ControlMatchesGenerations
    <2>5. GenerationsInTurn BY <1>1, <2>1 DEF Init, GenerationsInTurn
    <2> QED BY <1>1, <2>1, <2>2, <2>3, <2>4, <2>5 DEF ControlPart, Init
<1>4. EntriesPart BY <1>1, FS_EmptySet DEF Init, EntriesPart, EntriesOf
<1>5. LedgerPart BY <1>1 DEF Init, LedgerPart
<1>6. AllUndone(entries, docs) BY <1>1 DEF Init, AllUndone
<1> QED BY <1>2, <1>3, <1>4, <1>5, <1>6 DEF Inv

-----------------------------------------------------------------------------
(* Changes of a voucher the ledger does not hear of.                       *)

LEMMA RowsAfter ==
    ASSUME NEW rows, RowsOf(rows), NEW d \in DOMAIN rows, NEW row \in Rows, Sound(row),
           NEW after, Replaced(rows, d, row, after)
    PROVE  RowsOf(after) /\ DOMAIN after = DOMAIN rows
<1>1. /\ DOMAIN after = DOMAIN rows /\ after[d] = row
      /\ \A x \in DOMAIN rows \ {d} : after[x] = rows[x]
    BY ReplacedRows
<1>2. after \in [DOMAIN after -> Rows] BY <1>1 DEF RowsOf, Replaced
<1> QED BY <1>1, <1>2 DEF RowsOf

\* The kinds stay, and no voucher goes back to where nobody has created it.
Keeps(old, row) == row.kind = old.kind /\ row.status # "NONE"

LEMMA KeptSources ==
    ASSUME NEW rows, NEW d \in DOMAIN rows, NEW row, Keeps(rows[d], row),
           NEW after, Replaced(rows, d, row, after)
    PROVE  /\ \A e : Sourced(e, rows) => Sourced(e, after)
           /\ \A x : BrokeredIn(rows, x) => BrokeredIn(after, x)
           /\ NoBrokers(after) => NoBrokers(rows)
<1>1. /\ DOMAIN after = DOMAIN rows /\ after[d] = row
      /\ \A x \in DOMAIN rows \ {d} : after[x] = rows[x]
    BY ReplacedRows
<1>2. \A x \in DOMAIN rows : after[x].kind = rows[x].kind
                             /\ (rows[x].status # "NONE" => after[x].status # "NONE")
    BY <1>1 DEF Keeps
<1>3. \A e : Sourced(e, rows) => Sourced(e, after) BY <1>1, <1>2 DEF Sourced
<1>4. \A x : BrokeredIn(rows, x) => BrokeredIn(after, x) BY <1>1, <1>2 DEF BrokeredIn
<1> QED BY <1>1, <1>3, <1>4 DEF NoBrokers

LEMMA QuietLedger ==
    ASSUME NEW rows, RowsOf(rows), DOMAIN rows \subseteq Docs, NEW d \in DOMAIN rows, NEW row,
           Quiet(rows[d], row), NEW after, Replaced(rows, d, row, after),
           NEW E, EntriesOf(E), \A e \in E : Sourced(e, rows),
           NEW g, NEW gen, LedgerRight(E, g, gen, rows)
    PROVE  LedgerRight(E, g, gen, after)
<1>1. /\ DOMAIN after = DOMAIN rows /\ after[d] = row
      /\ \A x \in DOMAIN rows \ {d} : after[x] = rows[x]
    BY ReplacedRows
<1>2. \A x \in DOMAIN rows : Carried(E, g, gen.cutover, x, rows[x]) BY DEF LedgerRight
<1>3. Carried(E, g, gen.cutover, d, row)
    <2>1. PICK old : old = rows[d] OBVIOUS
    <2>2. PICK s : s = OfSource(E, g, d) OBVIOUS
    <2>3. Quiet(old, row) /\ old \in Rows /\ Carried(E, g, gen.cutover, d, old)
        BY <1>2, <2>1 DEF RowsOf
    <2>4. CASE old.status = "NONE"
        <3>1. d # NoDoc BY VouLedAssumption
        <3>2. s = {} BY <2>1, <2>2, <2>4, <3>1 DEF OfSource, Sourced
        <3> QED BY <2>2, <2>3, <3>2 DEF Carried, Quiet
    <2>5. CASE old.status # "NONE"
        <3>1. row.rev >= old.rev /\ row.rev \in Nat /\ old.rev \in Nat
            BY <2>3, <2>5, VouLedAssumption DEF Quiet, Rows
        <3>2. \A e \in s : e.date >= gen.cutover /\ e.rev <= old.rev /\ e.rev \in Nat
            BY <2>2, <2>3 DEF Carried, OfSource, EntriesOf, Entry
        <3>3. \A e \in s : e.date >= gen.cutover /\ e.rev <= row.rev BY <3>1, <3>2
        <3> QED BY <2>2, <2>3, <3>3 DEF Carried, Quiet
    <2> QED BY <2>4, <2>5
<1>4. \A x \in DOMAIN after : Carried(E, g, gen.cutover, x, after[x]) BY <1>1, <1>2, <1>3
<1>5. NoBrokers(after) => NoBrokers(rows) BY KeptSources DEF Keeps, Quiet
<1>6. \A dim, date : EffectSet(after, dim, date) = EffectSet(rows, dim, date)
    BY QuietEffects DEF Quiet
<1>7. \A dim, date : BalanceOn(E, g, gen, rows, dim, date) => BalanceOn(E, g, gen, after, dim, date)
    BY <1>6 DEF BalanceOn
<1> QED BY <1>4, <1>5, <1>7 DEF LedgerRight

LEMMA QuietStep ==
    ASSUME Inv, NEW d \in DOMAIN docs, NEW row, Quiet(docs[d], row),
           docs' = [docs EXCEPT ![d] = row], LedgerUntouched
    PROVE  Inv'
<1>1. PICK after : after = docs' OBVIOUS
<1>2. PICK rows : rows = docs OBVIOUS
<1>3. /\ RowsOf(rows) /\ DOMAIN rows \subseteq Docs /\ d \in DOMAIN rows
      /\ Replaced(rows, d, row, after) /\ Quiet(rows[d], row)
    BY <1>1, <1>2 DEF Inv, DocsPart, Replaced
<1>4. control' = control /\ gens' = gens /\ draft' = draft /\ entries' = entries /\ clock' = clock
    BY DEF LedgerUntouched
<1>5. RowsOf(after) /\ DOMAIN after = DOMAIN rows BY <1>3, RowsAfter DEF Quiet
<1>6. DocsPart' BY <1>1, <1>3, <1>5 DEF DocsPart
<1>7. ControlPart'
    BY <1>4 DEF Inv, ControlPart, ControlMatchesGenerations, GenerationsInTurn
<1>8. /\ \A e : Sourced(e, rows) => Sourced(e, after)
      /\ \A x : BrokeredIn(rows, x) => BrokeredIn(after, x)
    BY <1>3, KeptSources DEF Keeps, Quiet
<1>9. EntriesOf(entries) /\ \A e \in entries : e.gen \in 1..Len(gens) /\ Sourced(e, rows)
    BY <1>2 DEF Inv, EntriesPart
<1>10. EntriesPart' BY <1>1, <1>4, <1>8, <1>9 DEF EntriesPart
<1>11. LedgerPart'
    <2>1. SUFFICES ASSUME control.active # 0
          PROVE LedgerRight(entries, control.active, gens[control.active], after)
        BY <1>1, <1>4 DEF LedgerPart
    <2>2. LedgerRight(entries, control.active, gens[control.active], rows)
        BY <1>2, <2>1 DEF Inv, LedgerPart
    <2> QED BY <1>3, <1>9, <2>2, QuietLedger
<1>12. AllUndone(entries, after)
    BY <1>2, <1>8 DEF Inv, AllUndone
<1> QED BY <1>1, <1>4, <1>6, <1>7, <1>10, <1>11, <1>12 DEF Inv

\* What a handler LED does not hear of does to the row.
LEMMA VoucherIsQuiet ==
    ASSUME Inv, NEW d \in DOMAIN docs, NEW data \in Data,
           \/ Create(d, data) \/ Save(d, data) \/ Review(d) \/ Approve(d)
           \/ Unreview(d) \/ Unapprove(d)
    PROVE  \E row : Quiet(docs[d], row) /\ docs' = [docs EXCEPT ![d] = row] /\ LedgerUntouched
<1> DEFINE Result ==
    \E row : Quiet(docs[d], row) /\ docs' = [docs EXCEPT ![d] = row] /\ LedgerUntouched
<1>1. PICK old : old = docs[d] OBVIOUS
<1>2. old \in Rows /\ Sound(old) BY <1>1 DEF Inv, DocsPart, RowsOf
<1>3. ASSUME Create(d, data) PROVE Result
    <2>1. /\ old.status = "NONE" /\ Drafted(old.kind, data).rev <= MaxRev
          /\ docs' = [docs EXCEPT ![d] = Drafted(old.kind, data)] /\ LedgerUntouched
        BY <1>1, <1>3 DEF Create, Write
    <2>2. Quiet(old, Drafted(old.kind, data)) BY <1>2, <2>1, DraftedIsQuiet
    <2> QED BY <1>1, <2>1, <2>2
<1>4. ASSUME Save(d, data) PROVE Result
    <2>1. /\ old.status = "DRAFT" /\ Saved(old, data).rev <= MaxRev
          /\ docs' = [docs EXCEPT ![d] = Saved(old, data)] /\ LedgerUntouched
        BY <1>1, <1>4 DEF Save, Write, CanSave, IsAt
    <2>2. Quiet(old, Saved(old, data)) BY <1>2, <2>1, SavedIsQuiet
    <2> QED BY <1>1, <2>1, <2>2
<1>5. ASSUME NEW s \in Statuses \ {"NONE", "EXECUTED"}, old.status \notin {"NONE", "EXECUTED"},
             Write(d, Moved(old, s)), LedgerUntouched
      PROVE  Result
    <2>1. Moved(old, s).rev <= MaxRev /\ docs' = [docs EXCEPT ![d] = Moved(old, s)]
        BY <1>5 DEF Write
    <2>2. Quiet(old, Moved(old, s)) BY <1>2, <1>5, <2>1, MovedIsQuiet
    <2> QED BY <1>1, <1>5, <2>1, <2>2
<1>6. CASE Review(d)
    <2>1. old.status = "DRAFT" /\ Write(d, Moved(old, "REVIEWED")) /\ LedgerUntouched
        BY <1>1, <1>6 DEF Review, CanReview, IsAt, Reviewed
    <2> QED BY <1>5, <2>1 DEF Statuses
<1>7. CASE Approve(d)
    <2>1. old.status = "REVIEWED" /\ Write(d, Moved(old, "APPROVED")) /\ LedgerUntouched
        BY <1>1, <1>7 DEF Approve, CanApprove, IsAt, Approved
    <2> QED BY <1>5, <2>1 DEF Statuses
<1>8. CASE Unreview(d)
    <2>1. old.status = "REVIEWED" /\ Write(d, Moved(old, "DRAFT")) /\ LedgerUntouched
        BY <1>1, <1>8 DEF Unreview, CanUnreview, IsAt, Unreviewed
    <2> QED BY <1>5, <2>1 DEF Statuses
<1>9. CASE Unapprove(d)
    <2>1. old.status = "APPROVED" /\ Write(d, Moved(old, "REVIEWED")) /\ LedgerUntouched
        BY <1>1, <1>9 DEF Unapprove, CanUnapprove, IsAt, Unapproved
    <2> QED BY <1>5, <2>1 DEF Statuses
<1> QED BY <1>3, <1>4, <1>6, <1>7, <1>8, <1>9

LEMMA VoucherStep ==
    ASSUME Inv, NEW d \in DOMAIN docs, NEW data \in Data,
           \/ Create(d, data) \/ Save(d, data) \/ Review(d) \/ Approve(d)
           \/ Unreview(d) \/ Unapprove(d)
    PROVE  Inv'
<1>1. \E row : Quiet(docs[d], row) /\ docs' = [docs EXCEPT ![d] = row] /\ LedgerUntouched
    BY VoucherIsQuiet
<1> QED BY <1>1, QuietStep

\* What is reviewed, approved or sent back has been ordered.
LEMMA HandledData ==
    ASSUME Inv, NEW d \in DOMAIN docs, Review(d) \/ Approve(d) \/ Unreview(d) \/ Unapprove(d)
    PROVE  docs[d].data \in Data
<1>1. docs[d].status \in {"DRAFT", "REVIEWED", "APPROVED"} /\ Sound(docs[d])
    BY DEF Review, CanReview, Approve, CanApprove, Unreview, CanUnreview, Unapprove, CanUnapprove,
           IsAt, Inv, DocsPart, RowsOf
<1> QED BY <1>1 DEF Sound

-----------------------------------------------------------------------------
(* Execution and reversal.                                                 *)

\* The generation that is active.
LEMMA ActiveGenerationIs ==
    ASSUME Inv, control.active # 0
    PROVE  /\ control.active \in 1..Len(gens) /\ control.active \in Nat
           /\ gens[control.active] \in Generations
           /\ gens[control.active].cutover \in Nat
           /\ \A dim \in Dims : gens[control.active].opening[dim] \in Int
<1>1. control.active \in 0..Len(gens) /\ gens \in Seq(Generations) BY DEF Inv, ControlPart
<1>2. control.active \in 1..Len(gens) /\ control.active \in Nat BY <1>1
<1>3. gens[control.active] \in Generations BY <1>1, <1>2
<1> QED BY <1>2, <1>3, DocumentAssumption, VouLedAssumption DEF Generations

LEMMA TypesOfWrites ==
    ASSUME Inv, UNCHANGED <<control, gens, draft>>, clock' \in 0..MaxClock
    PROVE  ControlPart'
BY DEF Inv, ControlPart, ControlMatchesGenerations, GenerationsInTurn

\* An execution: what the facts above are applied to.
LEMMA ExecuteIs ==
    ASSUME Inv, NEW d \in DOMAIN docs, NEW outcome \in Outcomes(docs[d]),
           NEW at \in StartTimes(clock + 1), Execute(d, outcome, at)
    PROVE  \E row :
             /\ PostsExecution(entries, control.active, gens[control.active].cutover,
                           docs, d, row, docs', entries')
             /\ control.active # 0 /\ control.status = "ACTIVE"
             /\ UNCHANGED <<control, gens, draft>> /\ clock' \in 0..MaxClock
             /\ ~NegativeTimeline(entries', control.active)
<1>1. PICK rows, after : rows = docs /\ after = docs' OBVIOUS
<1>2. PICK row : row = Executed(docs[d], outcome, at) OBVIOUS
<1>3. PICK g, gen : g = control.active /\ gen = gens[control.active] OBVIOUS
<1>4. PICK E, F : E = entries /\ F = entries' OBVIOUS
<1>5. /\ CanExecute(docs[d], docs[d].rev) /\ Tick
      /\ PostExecution(d, row, at) /\ Write(d, row)
      /\ UNCHANGED <<control, gens, draft>>
    BY <1>2 DEF Execute
<1>6. /\ RowsOf(rows) /\ DOMAIN rows \subseteq Docs /\ d \in DOMAIN rows /\ d \in Docs
      /\ rows[d] \in Rows /\ Sound(rows[d]) /\ rows[d].status = "APPROVED"
    BY <1>1, <1>5 DEF Inv, DocsPart, RowsOf, CanExecute, IsAt
<1>7. row.rev <= MaxRev /\ Replaced(rows, d, row, after) BY <1>1, <1>5 DEF Write, Replaced
<1>8. at \in Int /\ clock' \in 0..MaxClock
    <2>1. clock \in 0..MaxClock BY DEF Inv, ControlPart
    <2> QED BY <1>5, <2>1, VouLedAssumption DEF StartTimes, Tick
<1>9. /\ row \in Rows /\ Sound(row) /\ row.status = "EXECUTED" /\ row.rev = rows[d].rev + 1
      /\ row.kind = rows[d].kind /\ row.at = at
    BY <1>1, <1>2, <1>6, <1>7, <1>8, ExecutedRow
<1>10. RowsOf(after) /\ DOMAIN after = DOMAIN rows BY <1>6, <1>7, <1>9, RowsAfter
<1>11. control.status = "ACTIVE" /\ CanPost(row, control.cutover, TRUE) BY <1>5 DEF PostExecution
<1>12. g # 0 /\ control.cutover = gen.cutover
    BY <1>3, <1>11 DEF Inv, ControlPart, ControlMatchesGenerations
<1>13. /\ g \in 1..Len(gens) /\ g \in Nat /\ gen.cutover \in Nat
       /\ \A dim \in Dims : gen.opening[dim] \in Int
    BY <1>3, <1>12, ActiveGenerationIs
<1>14. LedgerRight(E, g, gen, rows) BY <1>1, <1>3, <1>4, <1>12 DEF Inv, LedgerPart
<1>15. /\ F = Insert(E, PostingsOf(g, d, row, row.rev, row.at, gen.cutover))
       /\ ~NegativeTimeline(F, g)
    BY <1>3, <1>4, <1>5, <1>9, <1>12 DEF PostExecution
<1>16. \A x \in EffectDates(row) : x >= gen.cutover BY <1>11, <1>12 DEF CanPost
<1>17. EntriesOf(E) /\ \A e \in E : e.gen \in 1..Len(gens) /\ Sourced(e, rows)
    BY <1>1, <1>4 DEF Inv, EntriesPart
<1>18. PostsExecution(E, g, gen.cutover, rows, d, row, after, F)
    BY <1>6, <1>7, <1>9, <1>10, <1>13, <1>14, <1>15, <1>16, <1>17 DEF PostsExecution, LedgerRight
<1> QED BY <1>1, <1>3, <1>4, <1>5, <1>8, <1>11, <1>12, <1>15, <1>18

LEMMA ExecuteStep ==
    ASSUME Inv, NEW d \in DOMAIN docs, NEW outcome \in Outcomes(docs[d]),
           NEW at \in StartTimes(clock + 1), Execute(d, outcome, at)
    PROVE  Inv'
<1>1. PICK rows, after : rows = docs /\ after = docs' OBVIOUS
<1>2. PICK g, gen : g = control.active /\ gen = gens[control.active] OBVIOUS
<1>3. PICK E, F : E = entries /\ F = entries' OBVIOUS
<1>4. PICK row : /\ PostsExecution(E, g, gen.cutover, rows, d, row, after, F)
                 /\ g # 0 /\ control.status = "ACTIVE"
                 /\ UNCHANGED <<control, gens, draft>> /\ clock' \in 0..MaxClock
                 /\ ~NegativeTimeline(F, g)
    BY <1>1, <1>2, <1>3, ExecuteIs
<1>5. /\ d \in DOMAIN rows /\ d \in Docs /\ Replaced(rows, d, row, after)
      /\ row.status = "EXECUTED" /\ row.kind = rows[d].kind /\ RowsOf(after)
    BY <1>4 DEF PostsExecution
<1>6. after[d] = row /\ DOMAIN after = DOMAIN rows BY <1>5, ReplacedRows
<1>7. DOMAIN rows \subseteq Docs BY <1>1 DEF Inv, DocsPart
<1>8. /\ g \in 1..Len(gens) /\ g \in Nat /\ gen.cutover \in Nat
      /\ \A dim \in Dims : gen.opening[dim] \in Int
    BY <1>2, <1>4, ActiveGenerationIs
<1>9. LedgerRight(E, g, gen, rows) BY <1>1, <1>2, <1>3, <1>4 DEF Inv, LedgerPart
<1>10. EntriesOf(E) /\ \A e \in E : e.gen \in 1..Len(gens) /\ Sourced(e, rows)
    BY <1>1, <1>3 DEF Inv, EntriesPart
<1>11. /\ \A e : Sourced(e, rows) => Sourced(e, after)
       /\ \A x : BrokeredIn(rows, x) => BrokeredIn(after, x)
       /\ NoBrokers(after) => NoBrokers(rows)
    BY <1>5, KeptSources DEF Keeps
<1>12. /\ EntriesOf(F) /\ E \subseteq F
       /\ \A e \in F \ E : e.gen = g /\ e.type = "POSTING" /\ e.doc = d
                           /\ (e.dim = "stock" => row.kind # "intermediary")
    BY <1>4, ExecutionEntries
<1>13. \A e \in F : e.gen \in 1..Len(gens) /\ Sourced(e, after)
    <2>1. \A e \in F \ E : Sourced(e, after) BY <1>5, <1>6, <1>12 DEF Sourced
    <2> QED BY <1>8, <1>10, <1>11, <1>12, <2>1
<1>14. LedgerRight(F, g, gen, after)
    <2>1. \A x \in DOMAIN after : Carried(F, g, gen.cutover, x, after[x])
        BY <1>4, ExecutionCarried
    <2>2. ASSUME NEW dim \in Dims, NEW date \in Dates, dim = "stock" \/ NoBrokers(after)
          PROVE  BalanceOn(F, g, gen, after, dim, date)
        <3>1. BalanceOn(E, g, gen, rows, dim, date) BY <1>9, <1>11, <2>2 DEF LedgerRight
        <3>2. date \in Nat BY DocumentAssumption
        <3> QED BY <1>4, <1>8, <3>1, <3>2, ExecutionBalances
    <2> QED BY <1>4, <2>1, <2>2 DEF LedgerRight
<1>15. AllUndone(F, after)
    <2>1. SUFFICES ASSUME NEW r \in F, r.type = "REVERSAL", ~BrokeredIn(after, r.doc)
          PROVE  Undone(F, r)
        BY DEF AllUndone
    <2>2. r \in E /\ ~BrokeredIn(rows, r.doc) BY <1>11, <1>12, <2>1
    <2>3. Undone(E, r) BY <1>1, <1>3, <2>1, <2>2 DEF Inv, AllUndone
    <2> QED BY <1>12, <2>3 DEF Undone
<1>16. ControlPart' BY <1>4, TypesOfWrites
<1>17. DocsPart' BY <1>1, <1>5, <1>6, <1>7 DEF DocsPart
<1>18. control' = control /\ gens' = gens BY <1>4
<1>19. EntriesPart' BY <1>1, <1>3, <1>12, <1>13, <1>18 DEF EntriesPart
<1>20. LedgerPart' BY <1>1, <1>2, <1>3, <1>14, <1>18 DEF LedgerPart
<1> QED BY <1>1, <1>3, <1>15, <1>16, <1>17, <1>19, <1>20 DEF Inv

LEMMA UnexecuteStep ==
    ASSUME Inv, NEW d \in DOMAIN docs, Unexecute(d)
    PROVE  Inv'
<1>1. PICK rows, after : rows = docs /\ after = docs' OBVIOUS
<1>2. PICK row : row = Unexecuted(docs[d]) OBVIOUS
<1>3. PICK g, gen : g = control.active /\ gen = gens[control.active] OBVIOUS
<1>4. PICK E, F : E = entries /\ F = entries' OBVIOUS
<1>5. PICK at : at = 2 * (clock + 1) OBVIOUS
<1>6. /\ CanUnexecute(docs[d], docs[d].rev)
      /\ ReverseExecution(d, row, at) /\ Write(d, row)
      /\ UNCHANGED <<control, gens, draft>>
    BY <1>2, <1>5 DEF Unexecute
<1>7. /\ RowsOf(rows) /\ DOMAIN rows \subseteq Docs /\ d \in DOMAIN rows /\ d \in Docs
      /\ rows[d] \in Rows /\ Sound(rows[d]) /\ rows[d].status = "EXECUTED"
    BY <1>1, <1>6 DEF Inv, DocsPart, RowsOf, CanUnexecute, IsAt
<1>8. row.rev <= MaxRev /\ Replaced(rows, d, row, after) BY <1>1, <1>6 DEF Write, Replaced
<1>9. clock \in 0..MaxClock /\ clock \in Nat /\ at \in Int
    <2>1. clock \in 0..MaxClock BY DEF Inv, ControlPart
    <2> QED BY <1>5, <2>1
<1>10. /\ row \in Rows /\ Sound(row) /\ row.status = "APPROVED" /\ row.rev = rows[d].rev + 1
       /\ row.kind = rows[d].kind
    BY <1>1, <1>2, <1>7, <1>8, UnexecutedRow
<1>11. RowsOf(after) /\ DOMAIN after = DOMAIN rows BY <1>7, <1>8, <1>10, RowsAfter
<1>12. Keeps(rows[d], row) BY <1>10 DEF Keeps
<1>13. /\ \A e : Sourced(e, rows) => Sourced(e, after)
       /\ \A x : BrokeredIn(rows, x) => BrokeredIn(after, x)
       /\ NoBrokers(after) => NoBrokers(rows)
    BY <1>7, <1>8, <1>12, KeptSources
<1>14. EntriesOf(E) /\ \A e \in E : e.gen \in 1..Len(gens) /\ Sourced(e, rows)
    BY <1>1, <1>4 DEF Inv, EntriesPart
<1>15. DocsPart' BY <1>1, <1>7, <1>11 DEF DocsPart
<1>16. control' = control /\ gens' = gens BY <1>6
<1>17. CASE control.active = 0 /\ UNCHANGED <<entries, clock>>
    <2>1. ControlPart' BY <1>6, <1>9, <1>17, TypesOfWrites
    <2>2. EntriesPart' BY <1>1, <1>4, <1>13, <1>14, <1>16, <1>17 DEF EntriesPart
    <2>3. LedgerPart' BY <1>16, <1>17 DEF LedgerPart
    <2>4. AllUndone(E, after) BY <1>1, <1>4, <1>13 DEF Inv, AllUndone
    <2> QED BY <1>1, <1>4, <1>15, <1>17, <2>1, <2>2, <2>3, <2>4 DEF Inv
<1>18. CASE /\ control.status = "ACTIVE" /\ Tick
            /\ HasEntriesForSource(E, g, d)
            /\ F = Insert(E, ReversalsOf(E, g, d, row.rev, at))
            /\ ~NegativeTimeline(F, g)
    <2>1. g # 0 BY <1>3, <1>18 DEF Inv, ControlPart, ControlMatchesGenerations
    <2>2. /\ g \in 1..Len(gens) /\ g \in Nat /\ gen.cutover \in Nat
          /\ \A dim \in Dims : gen.opening[dim] \in Int
        BY <1>3, <2>1, ActiveGenerationIs
    <2>3. LedgerRight(E, g, gen, rows) BY <1>1, <1>3, <1>4, <2>1 DEF Inv, LedgerPart
    <2>4. OfSource(E, g, d) # {} BY <1>18 DEF HasEntriesForSource
    <2>5. \A e \in OfSource(E, g, d) : e.dim = "stock" => row.kind # "intermediary"
        <3>1. d # NoDoc BY <1>7, VouLedAssumption
        <3> QED BY <1>10, <1>14, <3>1 DEF OfSource, Sourced
    <2>6. PostsReversal(E, g, gen.cutover, rows, d, row, after, at, F)
        BY <1>7, <1>8, <1>9, <1>10, <1>11, <1>14, <1>18, <2>2, <2>3, <2>4, <2>5
        DEF PostsReversal, LedgerRight
    <2>7. /\ EntriesOf(F) /\ E \subseteq F
          /\ \A e \in F \ E : /\ e.gen = g /\ e.type = "REVERSAL" /\ e.doc = d
                              /\ e.dim = "stock" => row.kind # "intermediary"
        BY <2>6, ReversalEntries
    <2>8. after[d] = row BY <1>7, <1>8, ReplacedRows
    <2>9. \A e \in F : e.gen \in 1..Len(gens) /\ Sourced(e, after)
        <3>1. \A e \in F \ E : Sourced(e, after) BY <1>7, <1>10, <1>11, <2>7, <2>8 DEF Sourced
        <3> QED BY <1>13, <1>14, <2>2, <2>7, <3>1
    <2>10. LedgerRight(F, g, gen, after)
        <3>1. \A x \in DOMAIN after : Carried(F, g, gen.cutover, x, after[x])
            BY <2>6, ReversalCarried
        <3>2. ASSUME NEW dim \in Dims, NEW date \in Dates, dim = "stock" \/ NoBrokers(after)
              PROVE  BalanceOn(F, g, gen, after, dim, date)
            <4>1. BalanceOn(E, g, gen, rows, dim, date) BY <1>13, <2>3, <3>2 DEF LedgerRight
            <4>2. date \in Nat BY DocumentAssumption
            <4>3. NoBrokers(after) => row.kind # "intermediary"
                BY <1>7, <1>10, <1>11, <2>8 DEF NoBrokers, BrokeredIn
            <4> QED BY <2>2, <2>6, <3>2, <4>1, <4>2, <4>3, ReversalBalances
        <3> QED BY <1>18, <3>1, <3>2 DEF LedgerRight
    <2>11. AllUndone(F, after)
        <3>1. SUFFICES ASSUME NEW r \in F, r.type = "REVERSAL", ~BrokeredIn(after, r.doc)
              PROVE  Undone(F, r)
            BY DEF AllUndone
        <3>2. CASE r \in E
            <4>1. ~BrokeredIn(rows, r.doc) BY <1>13, <3>1
            <4>2. Undone(E, r) BY <1>1, <1>4, <3>1, <3>2, <4>1 DEF Inv, AllUndone
            <4> QED BY <2>7, <4>2 DEF Undone
        <3>3. CASE r \notin E
            <4>1. r \in F \ E /\ r.doc = d BY <2>7, <3>3
            <4>2. row.kind # "intermediary"
                BY <1>7, <1>10, <1>11, <2>8, <3>1, <4>1 DEF BrokeredIn
            <4> QED BY <2>6, <4>1, <4>2, ReversalUndoes
        <3> QED BY <3>2, <3>3
    <2>12. clock' \in 0..MaxClock BY <1>9, <1>18, VouLedAssumption DEF Tick
    <2>13. ControlPart' BY <1>6, <2>12, TypesOfWrites
    <2>14. EntriesPart' BY <1>1, <1>4, <1>16, <2>7, <2>9 DEF EntriesPart
    <2>15. LedgerPart' BY <1>1, <1>3, <1>4, <1>16, <2>10 DEF LedgerPart
    <2> QED BY <1>1, <1>4, <1>15, <2>11, <2>13, <2>14, <2>15 DEF Inv
<1> QED BY <1>3, <1>4, <1>6, <1>17, <1>18 DEF ReverseExecution

-----------------------------------------------------------------------------
(* The ledger's own handlers.                                              *)

LEMMA SaveOpeningStep ==
    ASSUME Inv, NEW cutover \in Dates, NEW opening \in Openings, SaveOpening(cutover, opening)
    PROVE  Inv'
<1>1. /\ control.status \in {"DRAFT", "REOPENING"}
      /\ control' = [control EXCEPT !.cutover = cutover]
      /\ draft' = opening
      /\ UNCHANGED <<docs, gens, entries, clock>>
    BY DEF SaveOpening
<1>2. control \in [status : {"DRAFT", "ACTIVE", "REOPENING"},
                   cutover : Dates \cup {0}, active : 0..Len(gens)]
    BY DEF Inv, ControlPart
<1>3. /\ control'.status = control.status /\ control'.active = control.active
      /\ control' \in [status : {"DRAFT", "ACTIVE", "REOPENING"},
                       cutover : Dates \cup {0}, active : 0..Len(gens)]
    BY <1>1, <1>2
<1>4. ControlMatchesGenerations' BY <1>1, <1>3 DEF Inv, ControlPart, ControlMatchesGenerations
<1>5. GenerationsInTurn' BY <1>1, <1>3 DEF Inv, ControlPart, GenerationsInTurn
<1>6. ControlPart' BY <1>1, <1>3, <1>4, <1>5 DEF Inv, ControlPart
<1>7. DocsPart' /\ EntriesPart' /\ AllUndone(entries, docs)'
    BY <1>1 DEF Inv, DocsPart, EntriesPart
<1>8. LedgerPart' BY <1>1, <1>3 DEF Inv, LedgerPart
<1> QED BY <1>6, <1>7, <1>8 DEF Inv

LEMMA ReopenStep ==
    ASSUME Inv, Reopen
    PROVE  Inv'
<1>1. /\ control.status = "ACTIVE"
      /\ draft' = gens[control.active].opening
      /\ control' = [control EXCEPT !.status = "REOPENING"]
      /\ UNCHANGED <<docs, gens, entries, clock>>
    BY DEF Reopen
<1>2. control \in [status : {"DRAFT", "ACTIVE", "REOPENING"},
                   cutover : Dates \cup {0}, active : 0..Len(gens)]
    BY DEF Inv, ControlPart
<1>3. /\ control'.status = "REOPENING" /\ control'.active = control.active
      /\ control' \in [status : {"DRAFT", "ACTIVE", "REOPENING"},
                       cutover : Dates \cup {0}, active : 0..Len(gens)]
    BY <1>1, <1>2
<1>4. ControlMatchesGenerations' BY <1>1, <1>3 DEF Inv, ControlPart, ControlMatchesGenerations
<1>5. draft' \in Openings
    <2>1. control.active # 0 BY <1>1 DEF Inv, ControlPart, ControlMatchesGenerations
    <2> QED BY <1>1, <2>1, ActiveGenerationIs DEF Generations
<1>6. GenerationsInTurn' BY <1>1, <1>3, <1>5 DEF Inv, ControlPart, GenerationsInTurn
<1>7. ControlPart' BY <1>1, <1>3, <1>4, <1>5, <1>6 DEF Inv, ControlPart
<1>8. DocsPart' /\ EntriesPart' /\ AllUndone(entries, docs)'
    BY <1>1 DEF Inv, DocsPart, EntriesPart
<1>9. LedgerPart' BY <1>1, <1>3 DEF Inv, LedgerPart
<1> QED BY <1>7, <1>8, <1>9 DEF Inv

LEMMA CancelReopenStep ==
    ASSUME Inv, CancelReopen
    PROVE  Inv'
<1>1. /\ control.status = "REOPENING"
      /\ control' = [control EXCEPT !.status = "ACTIVE", !.cutover = gens[control.active].cutover]
      /\ draft' = NoOpening
      /\ UNCHANGED <<docs, gens, entries, clock>>
    BY DEF CancelReopen
<1>2. control \in [status : {"DRAFT", "ACTIVE", "REOPENING"},
                   cutover : Dates \cup {0}, active : 0..Len(gens)]
    BY DEF Inv, ControlPart
<1>3. PICK c : c = gens[control.active].cutover OBVIOUS
<1>4. c \in Dates
    <2>1. control.active # 0 BY <1>1 DEF Inv, ControlPart, ControlMatchesGenerations
    <2> QED BY <1>3, <2>1, ActiveGenerationIs DEF Generations
<1>5. control' = [control EXCEPT !.status = "ACTIVE", !.cutover = c] BY <1>1, <1>3
<1>6. /\ control'.status = "ACTIVE" /\ control'.active = control.active /\ control'.cutover = c
      /\ control' \in [status : {"DRAFT", "ACTIVE", "REOPENING"},
                       cutover : Dates \cup {0}, active : 0..Len(gens)]
    BY <1>2, <1>4, <1>5
<1>7. ControlMatchesGenerations'
    BY <1>1, <1>3, <1>6 DEF Inv, ControlPart, ControlMatchesGenerations
<1>8. GenerationsInTurn' BY <1>1, <1>6 DEF Inv, ControlPart, GenerationsInTurn
<1>9. ControlPart' BY <1>1, <1>6, <1>7, <1>8 DEF Inv, ControlPart
<1>10. DocsPart' /\ EntriesPart' /\ AllUndone(entries, docs)'
    BY <1>1 DEF Inv, DocsPart, EntriesPart
<1>11. LedgerPart' BY <1>1, <1>6 DEF Inv, LedgerPart
<1> QED BY <1>9, <1>10, <1>11 DEF Inv

\* The generations after an activation: all archived but the last.
OnlyLastActive(all, new, n) ==
    /\ all \in Seq(Generations) /\ Len(all) = n
    /\ all[n] = new
    /\ \A g \in DOMAIN all : all[g].status = "ACTIVE" <=> g = n

LEMMA AppendedGenerations ==
    ASSUME NEW old \in Seq(Generations), NEW new \in Generations, new.status = "ACTIVE",
           NEW all, all = Append(Archived(old), new)
    PROVE  OnlyLastActive(all, new, Len(old) + 1)
<1>1. PICK past : past = Archived(old) OBVIOUS
<1>2. past = [g \in 1..Len(old) |-> [old[g] EXCEPT !.status = "ARCHIVED"]]
    BY <1>1 DEF Archived
<1>3. \A g \in 1..Len(old) : past[g] \in Generations /\ past[g].status = "ARCHIVED"
    <2>1. SUFFICES ASSUME NEW g \in 1..Len(old)
          PROVE  past[g] \in Generations /\ past[g].status = "ARCHIVED"
        OBVIOUS
    <2>2. PICK r : r = old[g] OBVIOUS
    <2>3. r \in Generations BY <2>2
    <2>4. past[g] = [r EXCEPT !.status = "ARCHIVED"] BY <1>2, <2>2
    <2> QED BY <2>3, <2>4 DEF Generations
<1>4. past \in Seq(Generations) /\ Len(past) = Len(old) BY <1>2, <1>3
<1>5. /\ all \in Seq(Generations) /\ Len(all) = Len(old) + 1
      /\ all[Len(old) + 1] = new
      /\ \A g \in 1..Len(old) : all[g] = past[g]
    BY <1>1, <1>4
<1> QED BY <1>3, <1>5 DEF OnlyLastActive

LEMMA ActivateStep ==
    ASSUME Inv, Activate
    PROVE  Inv'
<1>1. PICK g, cutover : g = Len(gens) + 1 /\ cutover = control.cutover OBVIOUS
<1>2. PICK E, F : E = entries /\ F = entries' OBVIOUS
<1>3. PICK new : new = [cutover |-> cutover, status |-> "ACTIVE", opening |-> draft] OBVIOUS
<1>4. /\ control.status \in {"DRAFT", "REOPENING"} /\ cutover # 0
      /\ ~NegativeTimeline(F, g)
      /\ F = Insert(E, Rebuilt(g, cutover))
      /\ gens' = Append(Archived(gens), new)
      /\ control' = [control EXCEPT !.status = "ACTIVE", !.active = g]
      /\ draft' = NoOpening
      /\ docs' = docs /\ clock' = clock
    BY <1>1, <1>2, <1>3 DEF Activate
<1>5. /\ control \in [status : {"DRAFT", "ACTIVE", "REOPENING"},
                      cutover : Dates \cup {0}, active : 0..Len(gens)]
      /\ gens \in Seq(Generations) /\ Len(gens) \in Nat
      /\ GenerationsInTurn
    BY DEF Inv, ControlPart
<1>6. cutover \in Dates /\ draft \in Openings
    BY <1>1, <1>4, <1>5 DEF GenerationsInTurn
<1>7. new \in Generations /\ new.status = "ACTIVE" /\ new.cutover = cutover /\ new.opening = draft
    BY <1>3, <1>6 DEF Generations
<1>8. /\ gens' \in Seq(Generations) /\ Len(gens') = g /\ gens'[g] = new
      /\ \A x \in DOMAIN gens' : gens'[x].status = "ACTIVE" <=> x = g
    <2>1. PICK all : all = gens' OBVIOUS
    <2>2. all = Append(Archived(gens), new) BY <1>4, <2>1
    <2>3. PICK old : old = gens OBVIOUS
    <2>4. OnlyLastActive(all, new, Len(old) + 1)
        BY <1>5, <1>7, <2>2, <2>3, AppendedGenerations
    <2> QED BY <1>1, <2>1, <2>3, <2>4 DEF OnlyLastActive
<1>9. g \in Nat /\ g # 0 /\ g \in 1..Len(gens') BY <1>1, <1>5, <1>8
<1>10. /\ control'.status = "ACTIVE" /\ control'.active = g /\ control'.cutover = cutover
       /\ control' \in [status : {"DRAFT", "ACTIVE", "REOPENING"},
                        cutover : Dates \cup {0}, active : 0..Len(gens')]
    <2>1. PICK n : n = Len(gens') OBVIOUS
    <2>2. g \in 0..n BY <1>9, <2>1
    <2>3. PICK c : c = control OBVIOUS
    <2>4. c.cutover \in Dates \cup {0} /\ c.cutover = cutover BY <1>1, <1>5, <2>3
    <2>5. control' = [c EXCEPT !.status = "ACTIVE", !.active = g] BY <1>4, <2>3
    <2>6. c = [status |-> c.status, cutover |-> c.cutover, active |-> c.active] BY <1>5, <2>3
    <2>7. control' = [status |-> "ACTIVE", cutover |-> cutover, active |-> g]
        BY <2>4, <2>5, <2>6
    <2> QED BY <2>1, <2>2, <2>4, <2>7
<1>11. ControlPart'
    <2>1. ControlMatchesGenerations'
        BY <1>4, <1>7, <1>8, <1>9, <1>10 DEF ControlMatchesGenerations
    <2>2. GenerationsInTurn' BY <1>8, <1>10 DEF GenerationsInTurn
    <2>3. clock' \in 0..MaxClock BY <1>4 DEF Inv, ControlPart
    <2> QED BY <1>4, <1>8, <1>10, <2>1, <2>2, <2>3 DEF ControlPart
<1>12. DocsPart' BY <1>4 DEF Inv, DocsPart
<1>13. EntriesOf(E) /\ \A e \in E : e.gen \in 1..Len(gens) /\ Sourced(e, docs)
    BY <1>2 DEF Inv, EntriesPart
<1>14. PostsRebuild(E, g, cutover, draft, docs, F)
    <2>1. Rebuilt(g, cutover) = OpeningOf(g, draft, cutover) \cup Replayed(g, docs, cutover)
        BY DEF Rebuilt, Replayed, Executing, ExecutedDocs
    <2>2. \A e \in E : e.gen < g BY <1>1, <1>5, <1>13
    <2>3. draft \in [Dims -> Int] BY <1>6, VouLedAssumption
    <2> QED BY <1>4, <1>6, <1>9, <1>13, <2>1, <2>2, <2>3 DEF Inv, DocsPart, PostsRebuild
<1>15. /\ EntriesOf(F) /\ E \subseteq F
       /\ \A e \in F \ E : e.gen = g /\ e.type # "REVERSAL" /\ Sourced(e, docs)
    BY <1>14, RebuiltEntries
<1>16. EntriesPart'
    <2>1. \A e \in F : e.gen \in 1..Len(gens') BY <1>1, <1>5, <1>8, <1>9, <1>13, <1>15
    <2>2. \A e \in F : Sourced(e, docs) BY <1>13, <1>15
    <2> QED BY <1>2, <1>4, <1>15, <2>1, <2>2 DEF EntriesPart
<1>17. LedgerRight(F, g, new, docs)
    <2>1. \A d \in DOMAIN docs : Carried(F, g, cutover, d, docs[d]) BY <1>14, RebuiltCarried
    <2>2. \A dim \in Dims, date \in Dates : BalanceOn(F, g, new, docs, dim, date)
        BY <1>7, <1>14, DocumentAssumption, RebuiltBalances
    <2> QED BY <1>4, <1>7, <2>1, <2>2 DEF LedgerRight
<1>18. LedgerPart' BY <1>2, <1>4, <1>8, <1>10, <1>17 DEF LedgerPart
<1>19. AllUndone(F, docs)
    <2>1. SUFFICES ASSUME NEW r \in F, r.type = "REVERSAL", ~BrokeredIn(docs, r.doc)
          PROVE  Undone(F, r)
        BY DEF AllUndone
    <2>2. r \in E BY <1>15, <2>1
    <2>3. Undone(E, r) BY <1>2, <2>1, <2>2 DEF Inv, AllUndone
    <2> QED BY <1>15, <2>3 DEF Undone
<1> QED BY <1>2, <1>4, <1>11, <1>12, <1>16, <1>18, <1>19 DEF Inv

LEMMA StepInvariant == Inv /\ [Next]_vars => Inv'
<1>1. SUFFICES ASSUME Inv, [Next]_vars PROVE Inv'
    OBVIOUS
<1>2. ASSUME NEW d \in DOMAIN docs, NEW data \in Data, Create(d, data) \/ Save(d, data)
      PROVE  Inv'
    BY <1>1, <1>2, VoucherStep
<1>3. ASSUME NEW d \in DOMAIN docs, Review(d) \/ Approve(d) \/ Unreview(d) \/ Unapprove(d)
      PROVE  Inv'
    <2>1. docs[d].data \in Data BY <1>1, <1>3, HandledData
    <2> QED BY <1>1, <1>3, <2>1, VoucherStep
<1>4. ASSUME NEW d \in DOMAIN docs, NEW outcome \in Outcomes(docs[d]),
             NEW at \in StartTimes(clock + 1), Execute(d, outcome, at)
      PROVE  Inv'
    BY <1>1, <1>4, ExecuteStep
<1>5. ASSUME NEW d \in DOMAIN docs, Unexecute(d) PROVE Inv'
    BY <1>1, <1>5, UnexecuteStep
<1>6. ASSUME NEW cutover \in Dates, NEW opening \in Openings, SaveOpening(cutover, opening)
      PROVE  Inv'
    BY <1>1, <1>6, SaveOpeningStep
<1>7. CASE Activate BY <1>1, <1>7, ActivateStep
<1>8. CASE Reopen BY <1>1, <1>8, ReopenStep
<1>9. CASE CancelReopen BY <1>1, <1>9, CancelReopenStep
<1>10. CASE UNCHANGED vars
    BY <1>1, <1>10 DEF vars, Inv, DocsPart, ControlPart, ControlMatchesGenerations,
       GenerationsInTurn, EntriesPart, LedgerPart
<1> QED BY <1>1, <1>2, <1>3, <1>4, <1>5, <1>6, <1>7, <1>8, <1>9, <1>10 DEF Next

-----------------------------------------------------------------------------
(* The warehouse.                                                          *)

LEMMA SumOfBoth ==
    ASSUME NEW A, Amounts(A), NEW B, Amounts(B), A \cap B = {}
    PROVE  SumOf(A \cup B) = SumOf(A) + SumOf(B)
<1> DEFINE F == {s \in SUBSET B : SumOf(A \cup s) # SumOf(A) + SumOf(s)}
<1>1. SUFFICES ASSUME F # {} PROVE FALSE
    OBVIOUS
<1>2. \E s \in F : \A r \in SUBSET s : r # s => r \notin F
    <2>1. F \subseteq SUBSET B /\ IsFiniteSet(B) BY DEF Amounts
    <2> HIDE DEF F
    <2> QED BY <1>1, <2>1, LeastSubset, Zenon
<1>3. PICK s \in F : \A r \in SUBSET s : r # s => r \notin F BY <1>2
<1>4. SumOf(A) \in Int BY SumOfType
<1>5. s # {}
    <2>1. SUFFICES ASSUME s = {} PROVE FALSE OBVIOUS
    <2>2. A \cup s = A BY <2>1
    <2> QED BY <1>3, <1>4, <2>1, <2>2, SumOfNothing
<1>6. PICK x \in s : TRUE BY <1>5
<1>7. PICK r : r = s \ {x} OBVIOUS
<1>8. r \in SUBSET B /\ x \notin r /\ x \in B /\ s = r \cup {x} /\ x \notin A BY <1>3, <1>6, <1>7
<1>9. SumOf(A \cup r) = SumOf(A) + SumOf(r) BY <1>3, <1>6, <1>7, <1>8
<1>10. Amounts(r) /\ x.delta \in Int BY <1>8, FS_Subset DEF Amounts
<1>11. PICK b : b = A \cup r OBVIOUS
<1>12. Amounts(b) /\ x \notin b
    BY <1>8, <1>10, <1>11, FS_Union DEF Amounts
<1>13. SumOf(b \cup {x}) = SumOf(b) + x.delta BY <1>10, <1>12, SumOfOneMore
<1>14. SumOf(s) = SumOf(r) + x.delta BY <1>8, <1>10, SumOfOneMore
<1>15. A \cup s = b \cup {x} BY <1>8, <1>11
<1>16. SumOf(r) \in Int BY <1>10, SumOfType
<1>17. SumOf(A \cup s) # SumOf(A) + SumOf(s) BY <1>3
<1>18. SumOf(A \cup s) = SumOf(b) + x.delta BY <1>13, <1>15
<1>19. SumOf(b) = SumOf(A) + SumOf(r) BY <1>9, <1>11
<1> HIDE DEF F
<1> QED BY <1>4, <1>10, <1>14, <1>16, <1>17, <1>18, <1>19

\* What happened on each date, added up over the dates.
LEMMA SumByDate ==
    ASSUME NEW S, Amounts(S), NEW D, IsFiniteSet(D), NEW f,
           \A x \in D : f[x] = SumOf({e \in S : e.date = x})
    PROVE  SumFunctionOnSet(f, D) = SumOf({e \in S : e.date \in D})
<1> DEFINE In(d) == {e \in S : e.date \in d}
           F == {d \in SUBSET D : SumFunctionOnSet(f, d) # SumOf(In(d))}
<1>1. SUFFICES ASSUME F # {} PROVE FALSE
    OBVIOUS
<1>2. \E d \in F : \A r \in SUBSET d : r # d => r \notin F
    <2>1. F \subseteq SUBSET D OBVIOUS
    <2> HIDE DEF F
    <2> QED BY <1>1, <2>1, LeastSubset, Zenon
<1>3. PICK d \in F : \A r \in SUBSET d : r # d => r \notin F BY <1>2
<1>4. d # {}
    <2>1. SUFFICES ASSUME d = {} PROVE FALSE OBVIOUS
    <2>2. SumOf(In({})) = 0
        <3>1. In({}) = {} OBVIOUS
        <3> HIDE DEF In
        <3> QED BY <3>1, SumOfNothing, Zenon
    <2>3. SumFunctionOnSet(f, {}) = 0 BY SumOfNone, Zenon
    <2>4. SumFunctionOnSet(f, d) # SumOf(In(d)) BY <1>3
    <2> HIDE DEF In
    <2> QED BY <2>1, <2>2, <2>3, <2>4, Zenon
<1>5. PICK x \in d : TRUE BY <1>4
<1>6. PICK r : r = d \ {x} OBVIOUS
<1>7. r \in SUBSET D /\ x \notin r /\ x \in D /\ d = r \cup {x} BY <1>3, <1>5, <1>6
<1>8. SumFunctionOnSet(f, r) = SumOf(In(r)) BY <1>3, <1>5, <1>6, <1>7
<1>9. PICK A, B : A = In(r) /\ B = {e \in S : e.date = x} OBVIOUS
<1>10. Amounts(A) /\ Amounts(B) /\ A \cap B = {}
    <2>1. A \subseteq S /\ B \subseteq S BY <1>9
    <2>2. IsFiniteSet(A) /\ IsFiniteSet(B) BY <2>1, FS_Subset DEF Amounts
    <2>3. A \cap B = {} BY <1>7, <1>9
    <2> QED BY <2>1, <2>2, <2>3 DEF Amounts
<1>11. SumOf(A \cup B) = SumOf(A) + SumOf(B) BY <1>10, SumOfBoth
<1>12. In(d) = A \cup B BY <1>7, <1>9
<1>13. IsFiniteSet(r) BY <1>7, FS_Subset
<1>14. \A y \in r \cup {x} : f[y] \in Int
    <2>1. ASSUME NEW y \in D PROVE f[y] \in Int
        <3>1. PICK C : C = {e \in S : e.date = y} OBVIOUS
        <3>2. C \subseteq S BY <3>1
        <3>3. Amounts(C) BY <3>2, FS_Subset DEF Amounts
        <3> QED BY <3>1, <3>3, SumOfType
    <2> QED BY <1>7, <2>1
<1>15. SumFunctionOnSet(f, r \cup {x}) = SumFunctionOnSet(f, r) + f[x]
    BY <1>7, <1>13, <1>14, SumAddElement
<1>16. f[x] = SumOf(B) BY <1>7, <1>9
<1> QED BY <1>3, <1>7, <1>8, <1>9, <1>11, <1>12, <1>15, <1>16

LEMMA SumWithoutZeros ==
    ASSUME NEW f, NEW S, IsFiniteSet(S), \A x \in S : f[x] \in Int,
           NEW R \in SUBSET S, \A x \in S \ R : f[x] = 0
    PROVE  SumFunctionOnSet(f, S) = SumFunctionOnSet(f, R)
<1> DEFINE V(s) == SumFunctionOnSet(f, s)
           T == {s \in SUBSET S : R \subseteq s /\ V(s) # V(R)}
<1>1. SUFFICES ASSUME T # {} PROVE FALSE
    OBVIOUS
<1>2. T \subseteq SUBSET S OBVIOUS
<1>3. \E s \in T : \A r \in SUBSET s : r # s => r \notin T
    <2> HIDE DEF T
    <2> QED BY <1>1, <1>2, LeastSubset, Zenon
<1>4. PICK s \in T : \A r \in SUBSET s : r # s => r \notin T BY <1>3
<1>5. \A r \in SUBSET S : V(r) \in Int /\ IsFiniteSet(r) BY FS_Subset, SumType
<1>6. \A x \in s : V(s) = f[x] + V(s \ {x}) BY <1>4, <1>5, SumTakeOut
<1> HIDE DEF V
<1>7. s # R BY <1>4
<1>8. PICK x \in s : x \notin R BY <1>4, <1>7
<1>9. V(s \ {x}) = V(R) BY <1>4, <1>8
<1>10. f[x] = 0 /\ V(R) \in Int BY <1>4, <1>5, <1>8
<1> QED BY <1>4, <1>6, <1>8, <1>9, <1>10

\* The timeline is an order, and every finite part of it has a last entry.
LEMMA TimelineOrder ==
    ASSUME NEW e \in Entry, NEW f \in Entry, NEW h \in Entry
    PROVE  /\ NotAfter(e, e)
           /\ NotAfter(e, f) \/ NotAfter(f, e)
           /\ NotAfter(e, f) /\ NotAfter(f, h) => NotAfter(e, h)
           /\ NotAfter(e, f) => e.date <= f.date
<1>1. e.date \in Nat /\ f.date \in Nat /\ h.date \in Nat BY DocumentAssumption DEF Entry
<1>2. e.at \in Int /\ f.at \in Int /\ h.at \in Int BY DEF Entry
<1> QED BY <1>1, <1>2 DEF NotAfter

LEMMA LastEntry ==
    ASSUME NEW U, EntriesOf(U), U # {}
    PROVE  \E f \in U : \A e \in U : NotAfter(e, f)
<1> DEFINE Last(s) == \E f \in s : \A e \in s : NotAfter(e, f)
           T == {s \in SUBSET U : s # {} /\ ~Last(s)}
<1>1. SUFFICES ASSUME T # {} PROVE FALSE
    OBVIOUS
<1>2. T \subseteq SUBSET U /\ IsFiniteSet(U) BY DEF EntriesOf
<1>3. \E s \in T : \A r \in SUBSET s : r # s => r \notin T
    <2> HIDE DEF T
    <2> QED BY <1>1, <1>2, LeastSubset, Zenon
<1>4. PICK s \in T : \A r \in SUBSET s : r # s => r \notin T BY <1>3
<1>5. PICK x \in s : TRUE BY <1>4
<1>6. \A e \in s : e \in Entry BY <1>4 DEF EntriesOf
<1>7. PICK r : r = s \ {x} OBVIOUS
<1>8. CASE r = {}
    <2>1. \A e \in s : NotAfter(e, x) BY <1>5, <1>6, <1>7, <1>8, TimelineOrder
    <2> QED BY <1>4, <1>5, <2>1
<1>9. CASE r # {}
    <2>1. Last(r) BY <1>4, <1>5, <1>7, <1>9
    <2>2. PICK f \in r : \A e \in r : NotAfter(e, f) BY <2>1
    <2>3. f \in s /\ f \in Entry /\ x \in Entry BY <1>5, <1>6, <1>7, <2>2
    <2>4. CASE NotAfter(x, f)
        <3>1. \A e \in s : NotAfter(e, f) BY <1>7, <2>2, <2>4
        <3> QED BY <1>4, <2>3, <3>1
    <2>5. CASE NotAfter(f, x)
        <3>1. \A e \in r : e \in Entry /\ NotAfter(e, f) BY <1>6, <1>7, <2>2
        <3>2. \A e \in r : NotAfter(e, x) BY <2>3, <2>5, <3>1, TimelineOrder
        <3>3. NotAfter(x, x) BY <2>3, TimelineOrder
        <3>4. \A e \in s : NotAfter(e, x) BY <1>7, <3>2, <3>3
        <3> QED BY <1>4, <1>5, <3>4
    <2> QED BY <2>3, <2>4, <2>5, TimelineOrder
<1> QED BY <1>8, <1>9

\* What the timeline says of the entries up to a date.
LEMMA TimelineUpTo ==
    ASSUME NEW E, EntriesOf(E), NEW g, ~NegativeTimeline(E, g), NEW date \in Nat
    PROVE  SumOf({e \in E : e.gen = g /\ e.dim = "stock" /\ e.date <= date}) >= 0
<1>1. PICK stock : stock = {e \in E : e.gen = g /\ e.dim = "stock"} OBVIOUS
<1>2. PICK U : U = {e \in E : e.gen = g /\ e.dim = "stock" /\ e.date <= date} OBVIOUS
<1>3. EntriesOf(stock) /\ EntriesOf(U)
    <2>1. stock \subseteq E /\ U \subseteq E BY <1>1, <1>2
    <2> QED BY <2>1, FS_Subset DEF EntriesOf
<1>4. Amounts(U) BY <1>3 DEF Amounts, EntriesOf, Entry
<1>5. CASE U = {} BY <1>2, <1>5, SumOfNothing
<1>6. CASE U # {}
    <2>1. PICK f \in U : \A e \in U : NotAfter(e, f) BY <1>3, <1>6, LastEntry
    <2>2. f \in stock /\ f \in Entry /\ f.date <= date /\ f.date \in Nat
        BY <1>1, <1>2, <1>3, <2>1, DocumentAssumption DEF EntriesOf, Entry
    <2>3. \A e \in stock : e.date \in Nat /\ (NotAfter(e, f) => e.date <= f.date)
        BY <1>3, <2>2, TimelineOrder, DocumentAssumption DEF EntriesOf, Entry
    <2>4. \A e \in stock : NotAfter(e, f) => e.date <= date BY <2>2, <2>3
    <2>5. {e \in stock : NotAfter(e, f)} = U BY <1>1, <1>2, <2>1, <2>4
    <2>6. ~(SumOf(U) < 0) BY <1>1, <2>2, <2>5 DEF NegativeTimeline
    <2>7. SumOf(U) \in Int BY <1>4, SumOfType
    <2> QED BY <1>2, <2>6, <2>7
<1> QED BY <1>5, <1>6

LEMMA InvImpliesStock ==
    ASSUME Inv
    PROVE  StockNeverNegative
<1> DEFINE f == [x \in CountedDates |-> OpeningOn("stock", x) + Effects("stock", x)]
<1>1. SUFFICES ASSUME control.active # 0, NEW date \in CountedDates
      PROVE  SumFunctionOnSet(f, {x \in CountedDates : x <= date}) >= 0
    BY DEF StockNeverNegative
<1>2. PICK g, gen, E : g = control.active /\ gen = gens[control.active] /\ E = entries OBVIOUS
<1>3. LedgerRight(E, g, gen, docs) BY <1>1, <1>2 DEF Inv, LedgerPart
<1>4. EntriesOf(E) BY <1>2 DEF Inv, EntriesPart
<1>5. date \in Nat /\ Dates \subseteq Nat BY DocumentAssumption DEF CountedDates
<1>6. PICK S : S = {e \in E : e.gen = g /\ e.dim = "stock"} OBVIOUS
<1>7. Amounts(S) /\ \A e \in S : e.date \in Dates
    <2>1. S \subseteq E BY <1>6
    <2> QED BY <1>4, <2>1, FS_Subset DEF Amounts, EntriesOf, Entry
<1>8. PICK D : D = {x \in Dates : x <= date} OBVIOUS
<1>9. IsFiniteSet(D)
    <2>1. D \subseteq 0..date
        <3>1. SUFFICES ASSUME NEW x \in D PROVE x \in 0..date OBVIOUS
        <3>2. x \in Nat /\ x <= date /\ date \in Nat BY <1>5, <1>8
        <3> QED BY <3>2
    <2>2. IsFiniteSet(0..date) BY <1>5, FS_Interval
    <2> QED BY <2>1, <2>2, FS_Subset
<1>10. PICK h : h = [x \in D |-> SumOf({e \in S : e.date = x})] OBVIOUS
<1>11. SumFunctionOnSet(h, D) = SumOf({e \in S : e.date \in D})
    BY <1>7, <1>9, <1>10, SumByDate
<1>12. {e \in S : e.date \in D} = {e \in E : e.gen = g /\ e.dim = "stock" /\ e.date <= date}
    BY <1>6, <1>7, <1>8
<1>13. SumOf({e \in S : e.date \in D}) >= 0
    BY <1>3, <1>4, <1>5, <1>12, TimelineUpTo DEF LedgerRight
<1>14. PICK R : R = {x \in CountedDates : x <= date} OBVIOUS
<1>15. ASSUME NEW x \in D
       PROVE  /\ h[x] \in Int
              /\ x \in R => h[x] = f[x]
              /\ x \notin R => h[x] = 0
    <2>1. On(E, g, "stock", x) = {e \in S : e.date = x} BY <1>6 DEF On
    <2>2. h[x] = SumOf(On(E, g, "stock", x)) BY <1>10, <2>1
    <2>3. x \in Dates /\ x <= date BY <1>8
    <2>4. BalanceOn(E, g, gen, docs, "stock", x) BY <1>3, <2>3 DEF LedgerRight, Dims
    <2>5. x \in CountedDates <=> x >= gen.cutover BY <1>2, <2>3 DEF CountedDates, ActiveGeneration
    <2>6. OpeningOn("stock", x) = IF x = gen.cutover THEN gen.opening["stock"] ELSE 0
        BY <1>2 DEF OpeningOn, ActiveGeneration
    <2>7. Effects("stock", x) = SumOf(EffectSet(docs, "stock", x)) BY EffectsAre
    <2>8. Amounts(On(E, g, "stock", x)) BY <1>4, OnAdds
    <2>9. h[x] \in Int BY <2>2, <2>8, SumOfType
    <2>10. x \in R <=> x \in CountedDates BY <1>14, <2>3
    <2> QED BY <2>2, <2>4, <2>5, <2>6, <2>7, <2>9, <2>10 DEF BalanceOn
<1>16. R \in SUBSET D BY <1>8, <1>14 DEF CountedDates
<1>17. SumFunctionOnSet(h, D) = SumFunctionOnSet(h, R)
    BY <1>9, <1>15, <1>16, SumWithoutZeros
<1>18. SumFunctionOnSet(h, R) = SumFunctionOnSet(f, R)
    <2>1. IsFiniteSet(R) BY <1>9, <1>16, FS_Subset
    <2>2. \A x \in R : h[x] = f[x] BY <1>15, <1>16
    <2> HIDE DEF f
    <2> QED BY <2>1, <2>2, SumSame
<1> QED BY <1>11, <1>13, <1>14, <1>17, <1>18

-----------------------------------------------------------------------------
(* The theorems.                                                           *)

\* The inductive invariant.
THEOREM Invariance == Spec => []Inv
<1>1. Init => Inv BY InitInvariant
<1>2. Inv /\ [Next]_vars => Inv' BY StepInvariant
<1> QED BY <1>1, <1>2, PTL DEF Spec

\* Types of vouchers, control row, generations and entries.
THEOREM TypesKept == Spec => []TypeOK
<1>1. Inv => TypeOK BY InvImpliesTypes
<1> QED BY <1>1, Invariance, PTL

\* The control row and the generations agree.
THEOREM ControlAlwaysMatches == Spec => []ControlMatchesGenerations
<1>1. Inv => ControlMatchesGenerations BY DEF Inv, ControlPart
<1> QED BY <1>1, Invariance, PTL

\* The ledger says what the vouchers say.
THEOREM LedgerAlwaysMatches == Spec => []LedgerMatchesVouchers
<1>1. Inv => LedgerMatchesVouchers BY InvImpliesBalanced
<1> QED BY <1>1, Invariance, PTL

\* No execution, reversal or rebuild takes goods out of an empty warehouse.
THEOREM StockStaysNonNegative == Spec => []StockNeverNegative
<1>1. Inv => StockNeverNegative BY InvImpliesStock
<1> QED BY <1>1, Invariance, PTL

\* Every reversal of a goods or cash voucher takes back one posting.
THEOREM ReversedOnlyOnce == Spec => []GoodsAndCashReversedOnce
<1>1. Inv => GoodsAndCashReversedOnce BY InvImpliesUndone
<1> QED BY <1>1, Invariance, PTL

-----------------------------------------------------------------------------
(* What a step may never do to the ledger.                                 *)

LEMMA InsertAdds ==
    ASSUME NEW E, NEW new, NEW g, \A e \in new : e.gen = g
    PROVE  E \subseteq Insert(E, new) /\ \A e \in Insert(E, new) \ E : e.gen = g
BY DEF Insert

\* A reversal stays with the generation and the voucher of what it takes back.
LEMMA ReversalsName ==
    ASSUME NEW E, EntriesOf(E), NEW g, NEW d, NEW rev \in Nat, NEW at \in Int
    PROVE  \A e \in ReversalsOf(E, g, d, rev, at) : e.gen = g /\ e.doc = d
<1>1. ReversalsOf(E, g, d, rev, at) = {Reversal(p, rev, at) : p \in LatestPostings(E, g, d)}
    BY DEF ReversalsOf, Reversal
<1>2. \A p \in LatestPostings(E, g, d) : p \in Entry /\ p.gen = g /\ p.doc = d
    BY DEF EntriesOf, LatestPostings, OfSource
<1>3. ASSUME NEW p \in LatestPostings(E, g, d)
      PROVE  Reversal(p, rev, at).gen = g /\ Reversal(p, rev, at).doc = d
    <2>1. TakesBack(Reversal(p, rev, at), p, rev) BY <1>2, ReversalEntry
    <2> QED BY <1>2, <2>1 DEF TakesBack
<1> QED BY <1>1, <1>3

LEMMA StepAppends ==
    ASSUME Inv, [Next]_vars
    PROVE  [/\ entries \subseteq entries'
            /\ \A e \in entries' \ entries : e.gen = control'.active]_vars
<1> DEFINE Appends == /\ entries \subseteq entries'
                      /\ \A e \in entries' \ entries : e.gen = control'.active
<1>1. ASSUME UNCHANGED entries PROVE Appends BY <1>1
<1>2. ASSUME NEW d \in DOMAIN docs, NEW outcome \in Outcomes(docs[d]),
             NEW at \in StartTimes(clock + 1), Execute(d, outcome, at)
      PROVE  Appends
    <2>1. PICK row, g : row = Executed(docs[d], outcome, at) /\ g = control.active OBVIOUS
    <2>2. PICK P : P = PostingsOf(g, d, row, row.rev, at, control.cutover) OBVIOUS
    <2>3. entries' = Insert(entries, P) /\ control' = control
        BY <1>2, <2>1, <2>2 DEF Execute, PostExecution
    <2>4. \A e \in P : e.gen = g BY <2>2 DEF PostingsOf
    <2> QED BY <2>1, <2>3, <2>4, InsertAdds
<1>3. ASSUME NEW d \in DOMAIN docs, Unexecute(d) PROVE Appends
    <2>1. PICK rev, at, g : /\ rev = Unexecuted(docs[d]).rev /\ at = 2 * (clock + 1)
                            /\ g = control.active
        OBVIOUS
    <2>2. PICK R : R = ReversalsOf(entries, g, d, rev, at) OBVIOUS
    <2>3. control' = control /\ (entries' = entries \/ entries' = Insert(entries, R))
        BY <1>3, <2>1, <2>2 DEF Unexecute, ReverseExecution
    <2>4. rev \in Nat /\ at \in Int
        <3>1. docs[d] \in Rows /\ clock \in 0..MaxClock
            BY DEF Inv, DocsPart, RowsOf, ControlPart
        <3>2. docs[d].rev \in Nat BY <3>1, VouLedAssumption DEF Rows
        <3> QED BY <2>1, <3>1, <3>2 DEF Unexecuted, Moved
    <2>5. EntriesOf(entries) BY DEF Inv, EntriesPart
    <2>6. \A e \in R : e.gen = g BY <2>2, <2>4, <2>5, ReversalsName
    <2> QED BY <2>1, <2>3, <2>6, InsertAdds
<1>4. ASSUME Activate PROVE Appends
    <2>1. PICK g, cutover : g = Len(gens) + 1 /\ cutover = control.cutover OBVIOUS
    <2>2. entries' = Insert(entries, Rebuilt(g, cutover)) BY <1>4, <2>1 DEF Activate
    <2>3. control'.active = g
        <3>1. DOMAIN control = {"status", "cutover", "active"} BY DEF Inv, ControlPart
        <3>2. control' = [control EXCEPT !.status = "ACTIVE", !.active = g]
            BY <1>4, <2>1 DEF Activate
        <3> QED BY <3>1, <3>2
    <2>4. \A e \in Rebuilt(g, cutover) : e.gen = g BY DEF Rebuilt, OpeningOf, PostingsOf
    <2> QED BY <2>2, <2>3, <2>4, InsertAdds
<1>5. CASE UNCHANGED vars BY <1>5
<1>6. CASE \E d \in DOMAIN docs :
              \/ \E data \in Data : Create(d, data) \/ Save(d, data)
              \/ Review(d) \/ Approve(d) \/ Unreview(d) \/ Unapprove(d)
    BY <1>1, <1>6
    DEF Create, Save, Review, Approve, Unreview, Unapprove, LedgerUntouched
<1>7. CASE \E cutover \in Dates, opening \in Openings : SaveOpening(cutover, opening)
    BY <1>1, <1>7 DEF SaveOpening
<1>8. CASE Reopen \/ CancelReopen BY <1>1, <1>8 DEF Reopen, CancelReopen
<1> QED BY <1>2, <1>3, <1>4, <1>5, <1>6, <1>7, <1>8 DEF Next

-----------------------------------------------------------------------------
(* The promise of LedSync.                                                 *)

\* LedSync's vouchers and book, read off the rows: of the goods and cash
\* vouchers executed now, the book has those the generation knows at all.
ExecutedShown(rows) ==
    {d \in DOMAIN rows : rows[d].status = "EXECUTED" /\ rows[d].kind # "intermediary"}

BookShown(E, g, rows) == {d \in ExecutedShown(rows) : OfSource(E, g, d) # {}}

InBook(E, g, d) ==
    \E p \in OfSource(E, g, d) : p.type = "POSTING" /\
        \A r \in OfSource(E, g, d) : r.type = "REVERSAL" => r.rev < p.rev

\* By what the generation holds of it, a voucher is in the book just when it is
\* executed and has any entries.
LEMMA InBookIs ==
    ASSUME NEW E, EntriesOf(E), NEW g, NEW cutover, NEW d, NEW row \in Rows,
           Carried(E, g, cutover, d, row), row.kind # "intermediary"
    PROVE  InBook(E, g, d) <=> row.status = "EXECUTED" /\ OfSource(E, g, d) # {}
<1>1. PICK s : s = OfSource(E, g, d) OBVIOUS
<1>2. \A e \in s : e.rev \in Nat BY <1>1 DEF OfSource, EntriesOf, Entry
<1>3. CASE row.status # "EXECUTED"
    <2>1. \A p \in s : p.type = "POSTING" => \E r \in s : r.type = "REVERSAL" /\ r.rev >= p.rev
        BY <1>1, <1>3 DEF Carried
    <2>2. \A p \in s : p.type = "POSTING" => \E r \in s : r.type = "REVERSAL" /\ ~(r.rev < p.rev)
        BY <1>2, <2>1
    <2> QED BY <1>1, <1>3, <2>2 DEF InBook
<1>4. CASE s = {} BY <1>1, <1>4 DEF InBook
<1>5. CASE row.status = "EXECUTED" /\ s # {}
    <2>1. PICK P : P = PostingsOf(g, d, row, row.rev, row.at, cutover) OBVIOUS
    <2>2. /\ {e \in s : e.type = "POSTING" /\ e.rev = row.rev} = P
          /\ \A e \in s : e.type = "REVERSAL" => e.rev < row.rev
          /\ FlowsFrom(row, cutover) # {}
        BY <1>1, <1>5, <2>1 DEF Carried
    <2>3. PICK f \in Flows(row) : f.date >= cutover BY <2>2 DEF FlowsFrom
    <2>4. Posting(g, d, row.rev, row.at, f) \in P BY <2>1, <2>3, PostingsAre
    <2>5. PICK p : p \in P BY <2>4
    <2>6. p \in s /\ p.type = "POSTING" /\ p.rev = row.rev BY <2>2, <2>5
    <2> QED BY <1>1, <1>5, <2>2, <2>6 DEF InBook
<1> QED BY <1>1, <1>3, <1>4, <1>5

Shown ==
    /\ ExecutedDocs \ Brokered = ExecutedShown(docs)
    /\ Booked \ Brokered = BookShown(entries, control.active, docs)

LEMMA InvShows == Inv => Shown
<1>1. SUFFICES ASSUME Inv PROVE Shown OBVIOUS
<1>2. PICK E, g, rows : E = entries /\ g = control.active /\ rows = docs OBVIOUS
<1>3. ExecutedDocs \ Brokered = ExecutedShown(docs)
    BY DEF ExecutedDocs, Brokered, ExecutedShown
<1>4. /\ EntriesOf(E) /\ \A e \in E : e.gen # 0 /\ Sourced(e, rows)
      /\ DOMAIN rows \subseteq Docs /\ \A d \in DOMAIN rows : rows[d] \in Rows
    BY <1>1, <1>2 DEF Inv, EntriesPart, DocsPart, RowsOf
<1>5. Booked \ Brokered = {d \in DOMAIN rows : InBook(E, g, d) /\ ~BrokeredIn(rows, d)}
    BY <1>2 DEF Booked, Brokered, BrokeredIn, InBook
<1>6. ASSUME NEW d \in DOMAIN rows
      PROVE  (InBook(E, g, d) /\ ~BrokeredIn(rows, d)) <=>
               (rows[d].status = "EXECUTED" /\ rows[d].kind # "intermediary" /\ OfSource(E, g, d) # {})
    <2>1. CASE rows[d].status = "NONE"
        <3>1. d # NoDoc BY <1>4, VouLedAssumption
        <3>2. OfSource(E, g, d) = {} BY <1>4, <2>1, <3>1 DEF OfSource, Sourced
        <3> QED BY <3>2 DEF InBook
    <2>2. CASE rows[d].status # "NONE" /\ rows[d].kind = "intermediary"
        BY <2>2 DEF BrokeredIn
    <2>3. CASE g = 0
        <3>1. OfSource(E, g, d) = {} BY <1>4, <2>3 DEF OfSource
        <3> QED BY <3>1 DEF InBook
    <2>4. CASE g # 0 /\ rows[d].kind # "intermediary"
        <3>1. Carried(E, g, gens[g].cutover, d, rows[d])
            BY <1>1, <1>2, <2>4 DEF Inv, LedgerPart, LedgerRight
        <3>2. InBook(E, g, d) <=> rows[d].status = "EXECUTED" /\ OfSource(E, g, d) # {}
            BY <1>4, <2>4, <3>1, InBookIs
        <3> QED BY <2>4, <3>2 DEF BrokeredIn
    <2> QED BY <2>1, <2>2, <2>3, <2>4
<1>7. Booked \ Brokered = BookShown(E, g, rows) BY <1>5, <1>6 DEF BookShown, ExecutedShown
<1> QED BY <1>2, <1>3, <1>7 DEF Shown

LEMMA InvShowsNext == Inv' => Shown'
BY InvShows, PTL

LEMMA InitShows == Init => Sync!Init
<1>1. SUFFICES ASSUME Init PROVE Sync!Init OBVIOUS
<1>2. DOMAIN docs \subseteq Docs BY <1>1, VouLedAssumption DEF Init
<1>3. control.status = "DRAFT" BY <1>1 DEF Init
<1>4. ExecutedDocs \ Brokered \in SUBSET Docs BY <1>2 DEF ExecutedDocs
<1>5. Booked = {} BY <1>1 DEF Init, Booked, OfSource
<1> QED BY <1>3, <1>4, <1>5 DEF Sync!Init

\* One voucher's row, and what is entered for it, touch no other voucher's.
LEMMA OthersShown ==
    ASSUME NEW rows, NEW d \in DOMAIN rows, NEW row, NEW after, Replaced(rows, d, row, after),
           NEW E, NEW F, E \subseteq F, \A e \in F \ E : e.doc = d, NEW g
    PROVE  /\ ExecutedShown(after) \ {d} = ExecutedShown(rows) \ {d}
           /\ BookShown(F, g, after) \ {d} = BookShown(E, g, rows) \ {d}
           /\ d \in ExecutedShown(after) <=> row.status = "EXECUTED" /\ row.kind # "intermediary"
           /\ d \in ExecutedShown(rows) <=>
                rows[d].status = "EXECUTED" /\ rows[d].kind # "intermediary"
<1>1. /\ DOMAIN after = DOMAIN rows /\ after[d] = row
      /\ \A x \in DOMAIN rows \ {d} : after[x] = rows[x]
    BY ReplacedRows
<1>2. \A x \in DOMAIN rows \ {d} : OfSource(F, g, x) = OfSource(E, g, x) BY DEF OfSource
<1> QED BY <1>1, <1>2 DEF ExecutedShown, BookShown

\* A step LED does not hear of is none of LedSync's.
LEMMA QuietRefines ==
    ASSUME Shown, Shown', NEW d \in DOMAIN docs, NEW row, Quiet(docs[d], row),
           docs' = [docs EXCEPT ![d] = row], LedgerUntouched
    PROVE  UNCHANGED Sync!vars
<1>1. PICK rows, after, E, g : rows = docs /\ after = docs' /\ E = entries /\ g = control.active
    OBVIOUS
<1>2. control' = control /\ entries' = entries BY DEF LedgerUntouched
<1>3. Replaced(rows, d, row, after) BY <1>1 DEF Replaced
<1>4. /\ ExecutedShown(after) \ {d} = ExecutedShown(rows) \ {d}
      /\ BookShown(E, g, after) \ {d} = BookShown(E, g, rows) \ {d}
      /\ d \notin ExecutedShown(after) /\ d \notin ExecutedShown(rows)
    <2>1. rows[d].status # "EXECUTED" /\ row.status # "EXECUTED" /\ d \in DOMAIN rows
        BY <1>1 DEF Quiet
    <2>2. E \subseteq E /\ \A e \in E \ E : e.doc = d OBVIOUS
    <2> QED BY <1>3, <2>1, <2>2, OthersShown
<1>5. ExecutedShown(after) = ExecutedShown(rows) /\ BookShown(E, g, after) = BookShown(E, g, rows)
    BY <1>4 DEF BookShown
<1> QED BY <1>1, <1>2, <1>5 DEF Shown, Sync!vars

\* The same step, whichever handler takes it.
LEMMA VoucherRefines ==
    ASSUME Inv, Shown, Shown', NEW d \in DOMAIN docs, NEW data \in Data,
           \/ Create(d, data) \/ Save(d, data) \/ Review(d) \/ Approve(d)
           \/ Unreview(d) \/ Unapprove(d)
    PROVE  UNCHANGED Sync!vars
<1>1. \E row : /\ Quiet(docs[d], row) /\ docs' = [docs EXCEPT ![d] = row] /\ LedgerUntouched
    BY VoucherIsQuiet
<1> QED BY <1>1, QuietRefines

LEMMA ExecuteRefines ==
    ASSUME Inv, Shown, Shown', NEW d \in DOMAIN docs, NEW outcome \in Outcomes(docs[d]),
           NEW at \in StartTimes(clock + 1), Execute(d, outcome, at)
    PROVE  [Sync!Next]_Sync!vars
<1>1. PICK rows, after, E, F : rows = docs /\ after = docs' /\ E = entries /\ F = entries' OBVIOUS
<1>2. PICK g, gen : g = control.active /\ gen = gens[control.active] OBVIOUS
<1>3. PICK row : /\ PostsExecution(E, g, gen.cutover, rows, d, row, after, F)
                 /\ control.status = "ACTIVE" /\ control' = control
    BY <1>1, <1>2, ExecuteIs
<1>4. /\ Replaced(rows, d, row, after) /\ d \in Docs
      /\ rows[d].status # "EXECUTED" /\ row.status = "EXECUTED" /\ row.kind = rows[d].kind
    BY <1>3 DEF PostsExecution
<1>5. E \subseteq F /\ \A e \in F \ E : e.doc = d BY <1>3, ExecutionEntries
<1>6. /\ ExecutedShown(after) \ {d} = ExecutedShown(rows) \ {d}
      /\ BookShown(F, g, after) \ {d} = BookShown(E, g, rows) \ {d}
      /\ d \in ExecutedShown(after) <=> row.kind # "intermediary"
      /\ d \notin ExecutedShown(rows)
    BY <1>1, <1>4, <1>5, OthersShown
<1>7. d \notin BookShown(E, g, rows) BY <1>6 DEF BookShown
<1>8. CASE row.kind # "intermediary"
    <2>1. PICK f : f \in Flows(row)
        <3>1. FlowsMakeSense(row) BY <1>3, ExecutionPosts
        <3> QED BY <1>8, <3>1 DEF FlowsMakeSense
    <2>2. PICK p : p = Posting(g, d, row.rev, row.at, f) OBVIOUS
    <2>3. p \in PostingsOf(g, d, row, row.rev, row.at, gen.cutover) BY <1>3, <2>1, <2>2, ExecutionPosts
    <2>4. p \in F BY <1>3, <2>3, ExecutionPosts
    <2>5. p \in OfSource(F, g, d) BY <2>2, <2>4 DEF OfSource, Posting
    <2>6. d \in BookShown(F, g, after) BY <1>6, <1>8, <2>5 DEF BookShown
    <2>7. /\ ExecutedShown(after) = ExecutedShown(rows) \cup {d}
          /\ BookShown(F, g, after) = BookShown(E, g, rows) \cup {d}
        BY <1>6, <1>7, <1>8, <2>6
    <2>8. Sync!Execute(d) BY <1>1, <1>2, <1>3, <1>6, <2>7 DEF Shown, Sync!Execute
    <2> QED BY <1>4, <2>8 DEF Sync!Next
<1>9. CASE row.kind = "intermediary"
    <2>1. d \notin BookShown(F, g, after) BY <1>6, <1>9 DEF BookShown
    <2>2. ExecutedShown(after) = ExecutedShown(rows) /\ BookShown(F, g, after) = BookShown(E, g, rows)
        BY <1>6, <1>7, <1>9, <2>1
    <2> QED BY <1>1, <1>2, <1>3, <2>2 DEF Shown, Sync!vars
<1> QED BY <1>8, <1>9

LEMMA UnexecuteRefines ==
    ASSUME Inv, Shown, Shown', NEW d \in DOMAIN docs, Unexecute(d)
    PROVE  [Sync!Next]_Sync!vars
<1>1. PICK rows, after, E, F : rows = docs /\ after = docs' /\ E = entries /\ F = entries' OBVIOUS
<1>2. PICK row, g, at : row = Unexecuted(docs[d]) /\ g = control.active /\ at = 2 * (clock + 1)
    OBVIOUS
<1>3. /\ CanUnexecute(docs[d], docs[d].rev) /\ ReverseExecution(d, row, at) /\ Write(d, row)
      /\ UNCHANGED <<control, gens, draft>>
    BY <1>2 DEF Unexecute
<1>4. /\ Replaced(rows, d, row, after) /\ d \in Docs /\ rows[d].status = "EXECUTED"
      /\ row.kind = rows[d].kind /\ row.status # "EXECUTED"
    <2>1. rows[d] \in Rows /\ Sound(rows[d]) /\ row.rev <= MaxRev
        BY <1>1, <1>3 DEF Inv, DocsPart, RowsOf, Write
    <2>2. rows[d].status = "EXECUTED" BY <1>1, <1>3 DEF CanUnexecute, IsAt
    <2>3. row.status = "APPROVED" /\ row.kind = rows[d].kind
        BY <1>1, <1>2, <2>1, <2>2, UnexecutedRow
    <2>4. Replaced(rows, d, row, after) BY <1>1, <1>3 DEF Write, Replaced
    <2>5. d \in Docs BY DEF Inv, DocsPart
    <2> QED BY <2>2, <2>3, <2>4, <2>5
<1>5. \/ control.status = "DRAFT" /\ g = 0 /\ F = E
      \/ /\ control.status = "ACTIVE" /\ OfSource(E, g, d) # {}
         /\ F = Insert(E, ReversalsOf(E, g, d, row.rev, at))
    BY <1>1, <1>2, <1>3 DEF ReverseExecution, HasEntriesForSource
<1>6. E \subseteq F /\ \A e \in F \ E : e.doc = d
    <2>1. rows[d] \in Rows /\ clock \in 0..MaxClock /\ EntriesOf(E)
        BY <1>1 DEF Inv, DocsPart, RowsOf, ControlPart, EntriesPart
    <2>2. rows[d].rev \in Nat /\ at \in Int BY <1>2, <2>1, VouLedAssumption DEF Rows
    <2>3. row.rev \in Nat BY <1>1, <1>2, <2>1, <2>2 DEF Unexecuted, Moved, Rows
    <2>4. \A e \in ReversalsOf(E, g, d, row.rev, at) : e.doc = d
        BY <2>1, <2>2, <2>3, ReversalsName
    <2> QED BY <1>5, <2>4 DEF Insert
<1>7. /\ ExecutedShown(after) \ {d} = ExecutedShown(rows) \ {d}
      /\ BookShown(F, g, after) \ {d} = BookShown(E, g, rows) \ {d}
      /\ d \notin ExecutedShown(after)
      /\ d \in ExecutedShown(rows) <=> row.kind # "intermediary"
    BY <1>1, <1>4, <1>6, OthersShown
<1>8. d \notin BookShown(F, g, after) BY <1>7 DEF BookShown
<1>9. /\ ExecutedShown(after) = ExecutedShown(rows) \ {d}
      /\ BookShown(F, g, after) = BookShown(E, g, rows) \ {d}
    BY <1>7, <1>8
<1>10. CASE row.kind = "intermediary"
    <2>1. d \notin BookShown(E, g, rows) BY <1>7, <1>10 DEF BookShown
    <2> QED BY <1>1, <1>2, <1>3, <1>7, <1>9, <1>10, <2>1 DEF Shown, Sync!vars
<1>11. CASE row.kind # "intermediary" /\ control.status = "ACTIVE" /\ OfSource(E, g, d) # {}
    <2>1. d \in BookShown(E, g, rows) BY <1>7, <1>11 DEF BookShown
    <2>2. Sync!Unexecute(d) BY <1>1, <1>2, <1>3, <1>9, <1>11, <2>1 DEF Shown, Sync!Unexecute
    <2> QED BY <1>4, <2>2 DEF Sync!Next
<1>12. CASE row.kind # "intermediary" /\ control.status = "DRAFT" /\ g = 0 /\ F = E
    <2>1. OfSource(E, g, d) = {} BY <1>1, <1>12 DEF Inv, EntriesPart, OfSource
    <2>2. BookShown(F, g, after) = BookShown(E, g, rows) BY <1>9, <2>1 DEF BookShown
    <2>3. Sync!UnexecuteBeforeLedger(d)
        BY <1>1, <1>2, <1>3, <1>7, <1>9, <1>12, <2>2 DEF Shown, Sync!UnexecuteBeforeLedger
    <2> QED BY <1>4, <2>3 DEF Sync!Next
<1> QED BY <1>5, <1>10, <1>11, <1>12

LEMMA ActivateRefines ==
    ASSUME Inv, Shown, Shown', Activate
    PROVE  [Sync!Next]_Sync!vars
<1>1. PICK g : g = Len(gens) + 1 OBVIOUS
<1>2. control.status \in {"DRAFT", "REOPENING"} /\ docs' = docs BY DEF Activate
<1>3. control'.status = "ACTIVE" /\ control'.active = g
    <2>1. DOMAIN control = {"status", "cutover", "active"} BY DEF Inv, ControlPart
    <2>2. control' = [control EXCEPT !.status = "ACTIVE", !.active = g] BY <1>1 DEF Activate
    <2> QED BY <2>1, <2>2
<1>4. PICK kept : kept = BookShown(entries', g, docs) OBVIOUS
<1>5. kept \subseteq ExecutedShown(docs) BY <1>4 DEF BookShown
<1>6. Sync!Activate(kept) BY <1>2, <1>3, <1>4, <1>5 DEF Shown, Sync!Activate
<1>7. kept \in SUBSET Docs BY <1>5 DEF Inv, DocsPart, ExecutedShown
<1> QED BY <1>6, <1>7 DEF Sync!Next

LEMMA ControlRefines ==
    ASSUME Inv, Shown, Shown',
           \/ \E cutover \in Dates, opening \in Openings : SaveOpening(cutover, opening)
           \/ Reopen \/ CancelReopen
    PROVE  [Sync!Next]_Sync!vars
<1>1. docs' = docs /\ entries' = entries BY DEF SaveOpening, Reopen, CancelReopen
<1>2. DOMAIN control = {"status", "cutover", "active"} BY DEF Inv, ControlPart
<1>3. control'.active = control.active BY <1>2 DEF SaveOpening, Reopen, CancelReopen
<1>4. /\ ExecutedDocs' \ Brokered' = ExecutedDocs \ Brokered
      /\ Booked' \ Brokered' = Booked \ Brokered
    BY <1>1, <1>3 DEF Shown
<1>5. CASE \E cutover \in Dates, opening \in Openings : SaveOpening(cutover, opening)
    <2>1. control'.status = control.status BY <1>2, <1>5 DEF SaveOpening
    <2> QED BY <1>4, <2>1 DEF Sync!vars
<1>6. CASE Reopen
    <2>1. control.status = "ACTIVE" /\ control'.status = "REOPENING" BY <1>2, <1>6 DEF Reopen
    <2> QED BY <1>4, <2>1 DEF Sync!Reopen, Sync!Next
<1>7. CASE CancelReopen
    <2>1. control.status = "REOPENING" /\ control'.status = "ACTIVE"
        BY <1>2, <1>7 DEF CancelReopen
    <2> QED BY <1>4, <2>1 DEF Sync!CancelReopen, Sync!Next
<1> QED BY <1>5, <1>6, <1>7

LEMMA StepRefines ==
    ASSUME Inv, Shown, Shown', [Next]_vars
    PROVE  [Sync!Next]_Sync!vars
<1>1. ASSUME NEW d \in DOMAIN docs, NEW data \in Data, Create(d, data) \/ Save(d, data)
      PROVE  UNCHANGED Sync!vars
    BY <1>1, VoucherRefines
<1>2. ASSUME NEW d \in DOMAIN docs, Review(d) \/ Approve(d) \/ Unreview(d) \/ Unapprove(d)
      PROVE  UNCHANGED Sync!vars
    <2>1. docs[d].data \in Data BY <1>2, HandledData
    <2> QED BY <1>2, <2>1, VoucherRefines
<1>3. ASSUME NEW d \in DOMAIN docs, NEW outcome \in Outcomes(docs[d]),
             NEW at \in StartTimes(clock + 1), Execute(d, outcome, at)
      PROVE  [Sync!Next]_Sync!vars
    BY <1>3, ExecuteRefines
<1>4. ASSUME NEW d \in DOMAIN docs, Unexecute(d) PROVE [Sync!Next]_Sync!vars
    BY <1>4, UnexecuteRefines
<1>5. CASE Activate BY <1>5, ActivateRefines
<1>6. CASE \/ \E cutover \in Dates, opening \in Openings : SaveOpening(cutover, opening)
           \/ Reopen \/ CancelReopen
    BY <1>6, ControlRefines
<1>7. CASE UNCHANGED vars
    BY <1>7 DEF vars, Shown, Sync!vars
<1> QED BY <1>1, <1>2, <1>3, <1>4, <1>5, <1>6, <1>7 DEF Next

-----------------------------------------------------------------------------
(* Theorems about steps.                                                   *)

\* The ledger is append-only: no step deletes or changes an entry, and what is
\* added belongs to the generation that is active afterwards.
THEOREM OnlyAppends == Spec => AppendsToActiveOnly
<1>1. Inv /\ [Next]_vars =>
        [/\ entries \subseteq entries'
         /\ \A e \in entries' \ entries : e.gen = control'.active]_vars
    BY StepAppends
<1> QED BY <1>1, Invariance, PTL DEF Spec, AppendsToActiveOnly

\* Vouchers and ledger together implement LedSync for goods and cash: the book
\* follows every execution and reversal in the same step, and changes otherwise
\* only when a generation is rebuilt.
THEOREM Refinement == Spec => ImplementsLedSync
<1>1. Init => Sync!Init BY InitShows
<1>2. Inv /\ Shown /\ Shown' /\ [Next]_vars => [Sync!Next]_Sync!vars BY StepRefines
<1> QED BY <1>1, <1>2, InvShows, Invariance, PTL DEF Spec, ImplementsLedSync, Sync!Spec
=============================================================================
