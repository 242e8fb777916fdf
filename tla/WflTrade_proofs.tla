-------------------------- MODULE WflTrade_proofs --------------------------
(***************************************************************************)
(* The workflow's invariants, for any set of documents, lines, dates,      *)
(* quantities and users.                                                   *)
(***************************************************************************)
EXTENDS WflTrade, FiniteSetTheorems, WellFoundedInduction, TLAPS

-----------------------------------------------------------------------------
(* Totals: sums of a function over a finite set (SumFunctionOnSet of the    *)
(* community module Functions).                                            *)

Some(s) == CHOOSE x \in s : TRUE

\* "sum" has the recursion SumFunctionOnSet is defined by.
AddsUp(sum, f, S) ==
    sum = [s \in SUBSET S |-> IF s = {} THEN 0 ELSE f[Some(s)] + sum[s \ {Some(s)}]]

LEMMA SumIsChosen ==
    ASSUME NEW f, NEW S
    PROVE  SumFunctionOnSet(f, S) = (CHOOSE sum : AddsUp(sum, f, S))[S]
BY DEF SumFunctionOnSet, FoldFunctionOnSet, MapThenFoldSet, AddsUp, Some

\* A set of subsets of a finite set has a least one: what an induction over
\* subsets is made of here.
LEMMA LeastSubset ==
    ASSUME NEW S, IsFiniteSet(S), NEW T, T \subseteq SUBSET S, T # {}
    PROVE  \E s \in T : \A r \in SUBSET s : r # s => r \notin T
<1>1. IsWellFoundedOn(StrictSubsetOrdering(S), FiniteSubsetsOf(S))
    BY FS_StrictSubsetOrderingWellFounded
<1>2. T \subseteq FiniteSubsetsOf(S)
    BY FS_Subset DEF FiniteSubsetsOf
<1>3. \E s \in T : \A r \in T : ~ (<<r, s>> \in StrictSubsetOrdering(S))
    BY <1>1, <1>2, WFMin, Zenon
<1>4. PICK s \in T : \A r \in T : ~ (<<r, s>> \in StrictSubsetOrdering(S)) BY <1>3
<1>5. \A r \in T : ~(r \subseteq s /\ r # s) BY <1>4 DEF StrictSubsetOrdering
<1> QED BY <1>5

LEMMA SomeIsElement == \A s : s # {} => Some(s) \in s
BY DEF Some

\* The recursion has one solution.
LEMMA AddsUpOnce ==
    ASSUME NEW f, NEW S, NEW R, IsFiniteSet(S), NEW g, NEW h, AddsUp(g, f, S), AddsUp(h, f, R),
           NEW t \in SUBSET S, t \in SUBSET R
    PROVE  g[t] = h[t]
<1> DEFINE T == {s \in SUBSET S : s \in SUBSET R /\ g[s] # h[s]}
<1>1. SUFFICES ASSUME T # {} PROVE FALSE
    OBVIOUS
<1>2. T \subseteq SUBSET S OBVIOUS
<1>3. PICK s \in T : \A r \in SUBSET s : r # s => r \notin T
    BY <1>1, <1>2, LeastSubset, Zenon
<1>4. g[s] # h[s] /\ s \in SUBSET S /\ s \in SUBSET R BY <1>3
<1>5. g[s] = IF s = {} THEN 0 ELSE f[Some(s)] + g[s \ {Some(s)}]
    BY <1>4 DEF AddsUp
<1>6. h[s] = IF s = {} THEN 0 ELSE f[Some(s)] + h[s \ {Some(s)}]
    BY <1>4 DEF AddsUp
<1>7. s # {} BY <1>4, <1>5, <1>6
<1>8. s \ {Some(s)} # s BY <1>7, SomeIsElement
<1>9. s \ {Some(s)} \notin T /\ s \ {Some(s)} \in SUBSET S /\ s \ {Some(s)} \in SUBSET R
    BY <1>3, <1>4, <1>8
<1>10. g[s \ {Some(s)}] = h[s \ {Some(s)}] BY <1>9
<1> QED BY <1>4, <1>5, <1>6, <1>7, <1>10

\* The recursion holds of the sums themselves.
LEMMA SumRecursion ==
    ASSUME NEW f, NEW S, IsFiniteSet(S)
    PROVE  SumFunctionOnSet(f, S) =
               IF S = {} THEN 0 ELSE f[Some(S)] + SumFunctionOnSet(f, S \ {Some(S)})
<1> DEFINE V(s) == SumFunctionOnSet(f, s)
           Step(s) == IF s = {} THEN 0 ELSE f[Some(s)] + V(s \ {Some(s)})
           T == {s \in SUBSET S : V(s) # Step(s)}
<1>1. SUFFICES ASSUME T # {} PROVE FALSE
    OBVIOUS
<1>2. T \subseteq SUBSET S /\ T # {} BY <1>1
<1>0. \E s \in T : \A r \in SUBSET s : r # s => r \notin T
    <2> HIDE DEF T
    <2> QED BY <1>2, LeastSubset, Zenon
<1>3. PICK s \in T : \A r \in SUBSET s : r # s => r \notin T BY <1>0
<1>4. s \in SUBSET S /\ V(s) # Step(s) BY <1>3
<1>5. \A r \in SUBSET s : r # s => V(r) = Step(r)
    BY <1>3, <1>4
<1>6. IsFiniteSet(s) BY <1>4, FS_Subset
<1>7. \A r \in SUBSET s : IsFiniteSet(r) BY <1>6, FS_Subset
<1>8. \A r : V(r) = (CHOOSE sum : AddsUp(sum, f, r))[r]
    BY SumIsChosen
<1> HIDE DEF V
<1> DEFINE G == [t \in SUBSET s |-> IF t = s THEN Step(s) ELSE V(t)]
<1>9. AddsUp(G, f, s)
    <2>1. SUFFICES ASSUME NEW t \in SUBSET s
          PROVE  (IF t = s THEN Step(s) ELSE V(t)) = IF t = {} THEN 0 ELSE f[Some(t)] + G[t \ {Some(t)}]
        BY DEF AddsUp
    <2>2. (IF t = s THEN Step(s) ELSE V(t)) = Step(t) BY <1>5
    <2>3. CASE t = {} BY <2>2, <2>3
    <2>4. CASE t # {}
        <3>1. t \ {Some(t)} \in SUBSET s /\ t \ {Some(t)} # s BY <2>4, SomeIsElement
        <3>2. G[t \ {Some(t)}] = V(t \ {Some(t)}) BY <3>1
        <3> QED BY <2>2, <2>4, <3>2
    <2> QED BY <2>3, <2>4
<1>10. PICK g : g = (CHOOSE sum : AddsUp(sum, f, s)) OBVIOUS
<1>11. AddsUp(g, f, s) BY <1>9, <1>10
<1>12. V(s) = g[s] BY <1>8, <1>10
<1>13. V(s) = G[s]
    <2> HIDE DEF G
    <2> QED BY <1>6, <1>9, <1>11, <1>12, AddsUpOnce
<1>14. G[s] = Step(s) OBVIOUS
<1> QED BY <1>4, <1>13, <1>14

LEMMA SumOfNone == ASSUME NEW f PROVE SumFunctionOnSet(f, {}) = 0
BY SumRecursion, FS_EmptySet

\* Sums of integers are integers.
LEMMA SumType ==
    ASSUME NEW f, NEW S, IsFiniteSet(S), \A x \in S : f[x] \in Int
    PROVE  SumFunctionOnSet(f, S) \in Int
<1> DEFINE T == {s \in SUBSET S : SumFunctionOnSet(f, s) \notin Int}
<1>1. SUFFICES ASSUME T # {} PROVE FALSE
    OBVIOUS
<1>2. T \subseteq SUBSET S OBVIOUS
<1>3. \E s \in T : \A r \in SUBSET s : r # s => r \notin T
    <2> HIDE DEF T
    <2> QED BY <1>1, <1>2, LeastSubset, Zenon
<1>4. PICK s \in T : \A r \in SUBSET s : r # s => r \notin T BY <1>3
<1>5. s \in SUBSET S /\ IsFiniteSet(s) BY <1>4, FS_Subset
<1>6. s # {}
    <2>1. SUFFICES ASSUME s = {} PROVE FALSE
        OBVIOUS
    <2>2. SumFunctionOnSet(f, s) = 0 BY <2>1, SumOfNone, Zenon
    <2> QED BY <1>4, <2>2
<1>7. Some(s) \in s BY <1>6, SomeIsElement
<1>8. SumFunctionOnSet(f, s \ {Some(s)}) \in Int BY <1>4, <1>5, <1>7
<1>9. SumFunctionOnSet(f, s) = f[Some(s)] + SumFunctionOnSet(f, s \ {Some(s)})
    BY <1>5, <1>6, SumRecursion
<1> QED BY <1>4, <1>5, <1>7, <1>8, <1>9

\* The order does not matter: any element may be taken out.
LEMMA SumTakeOut ==
    ASSUME NEW f, NEW S, IsFiniteSet(S), \A x \in S : f[x] \in Int
    PROVE  \A x \in S : SumFunctionOnSet(f, S) = f[x] + SumFunctionOnSet(f, S \ {x})
<1> DEFINE V(s) == SumFunctionOnSet(f, s)
           T == {s \in SUBSET S : \E x \in s : V(s) # f[x] + V(s \ {x})}
<1>1. SUFFICES ASSUME T # {} PROVE FALSE
    OBVIOUS
<1>2. T \subseteq SUBSET S OBVIOUS
<1>3. \E s \in T : \A r \in SUBSET s : r # s => r \notin T
    <2> HIDE DEF T
    <2> QED BY <1>1, <1>2, LeastSubset, Zenon
<1>4. PICK s \in T : \A r \in SUBSET s : r # s => r \notin T BY <1>3
<1>5. PICK x \in s : V(s) # f[x] + V(s \ {x}) BY <1>4
<1>6. s \in SUBSET S BY <1>4
<1>7. \A r \in SUBSET S : V(r) \in Int /\ (r # {} => V(r) = f[Some(r)] + V(r \ {Some(r)}))
    BY FS_Subset, SumType, SumRecursion
<1> HIDE DEF V
<1>8. PICK c : c = Some(s) OBVIOUS
<1>9. V(s) = f[c] + V(s \ {c}) /\ c \in s BY <1>5, <1>6, <1>7, <1>8, SomeIsElement
<1>10. c # x BY <1>5, <1>9
<1>11. V(s \ {c}) = f[x] + V((s \ {c}) \ {x})
    BY <1>4, <1>5, <1>6, <1>9, <1>10
<1>12. V(s \ {x}) = f[c] + V((s \ {x}) \ {c})
    BY <1>4, <1>5, <1>6, <1>9, <1>10
<1>13. V((s \ {c}) \ {x}) = V((s \ {x}) \ {c})
    <2>1. (s \ {c}) \ {x} = (s \ {x}) \ {c} OBVIOUS
    <2> QED BY <2>1
<1>14. f[x] \in Int /\ f[c] \in Int /\ V((s \ {c}) \ {x}) \in Int
    BY <1>5, <1>6, <1>7, <1>9
<1> QED BY <1>5, <1>9, <1>11, <1>12, <1>13, <1>14

LEMMA SumAddElement ==
    ASSUME NEW f, NEW S, IsFiniteSet(S), NEW x, x \notin S, \A y \in S \cup {x} : f[y] \in Int
    PROVE  SumFunctionOnSet(f, S \cup {x}) = SumFunctionOnSet(f, S) + f[x]
<1>1. IsFiniteSet(S \cup {x}) /\ (S \cup {x}) \ {x} = S BY FS_AddElement
<1>2. SumFunctionOnSet(f, S) \in Int /\ f[x] \in Int BY SumType
<1> QED BY <1>1, <1>2, SumTakeOut

\* Only the summands matter.
LEMMA SumSame ==
    ASSUME NEW f, NEW g, NEW S, IsFiniteSet(S), \A x \in S : f[x] = g[x]
    PROVE  SumFunctionOnSet(f, S) = SumFunctionOnSet(g, S)
<1> DEFINE T == {s \in SUBSET S : SumFunctionOnSet(f, s) # SumFunctionOnSet(g, s)}
<1>1. SUFFICES ASSUME T # {} PROVE FALSE
    OBVIOUS
<1>2. T \subseteq SUBSET S OBVIOUS
<1>3. \E s \in T : \A r \in SUBSET s : r # s => r \notin T
    <2> HIDE DEF T
    <2> QED BY <1>1, <1>2, LeastSubset, Zenon
<1>4. PICK s \in T : \A r \in SUBSET s : r # s => r \notin T BY <1>3
<1>5. s \in SUBSET S /\ IsFiniteSet(s) BY <1>4, FS_Subset
<1>6. s # {} BY <1>4, SumOfNone
<1>7. Some(s) \in s BY <1>6, SomeIsElement
<1>8. SumFunctionOnSet(f, s \ {Some(s)}) = SumFunctionOnSet(g, s \ {Some(s)}) BY <1>4, <1>5, <1>7
<1>9. /\ SumFunctionOnSet(f, s) = f[Some(s)] + SumFunctionOnSet(f, s \ {Some(s)})
      /\ SumFunctionOnSet(g, s) = g[Some(s)] + SumFunctionOnSet(g, s \ {Some(s)})
    BY <1>5, <1>6, SumRecursion
<1> QED BY <1>4, <1>5, <1>7, <1>8, <1>9

\* Of naturals, a part adds up to no more than the whole.
LEMMA SumOfPart ==
    ASSUME NEW f, NEW S, IsFiniteSet(S), \A x \in S : f[x] \in Nat, NEW R \in SUBSET S
    PROVE  SumFunctionOnSet(f, R) <= SumFunctionOnSet(f, S)
<1> DEFINE V(s) == SumFunctionOnSet(f, s)
           T == {s \in SUBSET S : R \subseteq s /\ ~(V(R) <= V(s))}
<1>1. SUFFICES ASSUME T # {} PROVE FALSE
    OBVIOUS
<1>2. T \subseteq SUBSET S OBVIOUS
<1>3. \E s \in T : \A r \in SUBSET s : r # s => r \notin T
    <2> HIDE DEF T
    <2> QED BY <1>1, <1>2, LeastSubset, Zenon
<1>4. PICK s \in T : \A r \in SUBSET s : r # s => r \notin T BY <1>3
<1>5. \A r \in SUBSET S : V(r) \in Int /\ IsFiniteSet(r) BY FS_Subset, SumType
<1>6. \A x \in s : V(s) = f[x] + V(s \ {x}) BY <1>4, <1>5, SumTakeOut
<1> HIDE DEF V
<1>7. s # R BY <1>4, <1>5
<1>8. PICK x \in s : x \notin R BY <1>4, <1>7
<1>9. V(R) <= V(s \ {x}) BY <1>4, <1>8
<1>10. f[x] \in Nat /\ V(R) \in Int /\ V(s \ {x}) \in Int BY <1>4, <1>5
<1> QED BY <1>4, <1>5, <1>6, <1>8, <1>9, <1>10

LEMMA SumOfNaturals ==
    ASSUME NEW f, NEW S, IsFiniteSet(S), \A x \in S : f[x] \in Nat
    PROVE  SumFunctionOnSet(f, S) \in Nat
<1>1. SumFunctionOnSet(f, S) \in Int BY SumType
<1>2. SumFunctionOnSet(f, {}) = 0 BY SumOfNone
<1>3. SumFunctionOnSet(f, {}) <= SumFunctionOnSet(f, S) BY SumOfPart
<1> QED BY <1>1, <1>2, <1>3

-----------------------------------------------------------------------------
(* The inductive invariant.                                                *)

\* A process that was started has an order with a quantity in every line.
OrderKept == process.status # "NONE" => process.ordered \in Orders

\* What a stage document says, whatever its status.
LinesKept(d) ==
    /\ cast[d] # "SIGNOFF" => Positive(docs[d].qty)
    /\ cast[d] = "PROCUREMENT" => \A l \in Lines : docs[d].qty[l] <= process.ordered[l]
    /\ cast[d] \in {"PROCUREMENT", "DELIVERY"} => docs[d].parent = None

\* How it hangs on its parent, and what it takes from the delivery whose lines it
\* names: together the body of StagesHangTogether.
Hangs(d) ==
    /\ docs[d].date >= process.date
    /\ cast[d] \in {"RECEIPT", "SIGNOFF"} =>
         /\ docs[d].parent \in
              Final(docs, IF cast[d] = "RECEIPT" THEN "PROCUREMENT" ELSE "DELIVERY")
         /\ cast[d] = "RECEIPT" => docs[d].date >= docs[docs[d].parent].date

Names(d) ==
    cast[d] = "SIGNOFF" =>
        /\ docs[d].source \in Live(docs, "DELIVERY")
        /\ docs[d].date >= docs[docs[d].source].date
        /\ \A l \in Lines : docs[d].qty[l] + docs[d].rejected[l] <= docs[docs[d].source].qty[l]

DocumentsKept ==
    \A d \in DOMAIN docs : docs[d].status # "NONE" => LinesKept(d) /\ Hangs(d)

SourcesKept == \A d \in DOMAIN docs : docs[d].status # "NONE" => Names(d)

\* wfl_processes has one procurement at most.
OneProcurement == \A d, e \in Live(docs, "PROCUREMENT") : d = e

\* An early end is asked for only while something is left to deliver.
NotYetDelivered ==
    process.status \in {"SHORT_CLOSE_REQUESTED", "SHORT_CLOSED"} =>
        \E l \in Lines : Total(docs, "SIGNOFF", l) # process.ordered[l]

\* The books of a receipt: what is owed, and what a reversal would take back.
ReceiptBooked(d) ==
    /\ booked[d].party \in [net : Int, latest : Int]
    /\ booked[d].party.net = Owed(d)
    /\ docs[d].status = "APPROVED" => booked[d].party.latest = Owed(d)

ReceiptsBooked == \A d \in DOMAIN docs : cast[d] = "RECEIPT" => ReceiptBooked(d)

IInv ==
    /\ TypeOK
    /\ OrderKept
    /\ DocumentsKept
    /\ SourcesKept
    /\ OneProcurement
    /\ StatusTellsTruth
    /\ NotYetDelivered
    /\ QuantitiesWithinOrder
    /\ ReceiptsBooked

-----------------------------------------------------------------------------
(* Steps as changes of one document.                                       *)

\* Document d becomes "row"; the process follows (StageAction).
Becomes(d, row) ==
    /\ d \in DOMAIN docs /\ row \in Rows
    /\ docs' = [docs EXCEPT ![d] = row]
    /\ process.status \in {"APPROVED", "COMPLETED"}
    /\ process' = [process EXCEPT !.status = CompletionOf(docs', process.ordered)]
    /\ cast' = cast /\ ledger' = ledger

LEMMA BecomesDomain ==
    ASSUME TypeOK, NEW d, NEW row, Becomes(d, row)
    PROVE  /\ DOMAIN docs = DOMAIN cast /\ DOMAIN docs' = DOMAIN docs
           /\ docs'[d] = row
           /\ \A x \in DOMAIN docs : x # d => docs'[x] = docs[x]
           /\ \A x \in DOMAIN docs : docs[x] \in Rows /\ docs'[x] \in Rows
           /\ process'.date = process.date /\ process'.ordered = process.ordered
           /\ process'.status = CompletionOf(docs', process.ordered)
BY DEF TypeOK, Becomes, Processes

LEMMA FiniteDocs ==
    ASSUME TypeOK PROVE IsFiniteSet(DOMAIN docs) /\ DOMAIN docs = DOMAIN cast
<1>1. DOMAIN docs = DOMAIN cast /\ cast \in Casts BY DEF TypeOK
<1>2. DOMAIN docs \in SUBSET Docs BY <1>1, TradeAssumption
<1> QED BY <1>1, <1>2, TradeAssumption, FS_Subset

\* Only the status and the reviewer of row r change.
Moved(r, row, status, reviewer) ==
    /\ row.status = status /\ row.reviewedBy = reviewer
    /\ row.date = r.date /\ row.parent = r.parent /\ row.source = r.source
    /\ row.qty = r.qty /\ row.rejected = r.rejected /\ row.returned = r.returned

\* Row r gets what "input" says.
Rewritten(r, row, input) ==
    /\ row.status = r.status /\ row.reviewedBy = r.reviewedBy /\ row.parent = r.parent
    /\ row.date = input.date /\ row.qty = input.qty
    /\ row.source = input.source /\ row.rejected = input.rejected

LEMMA NoRowIsRow == NoRow \in Rows
<1>1. Nothing \in Quantities BY TradeAssumption DEF Nothing, Quantities
<1> QED BY <1>1, TradeAssumption DEF NoRow, Rows, DocStatuses

LEMMA MovedRow ==
    ASSUME NEW r \in Rows, NEW status \in DocStatuses, NEW reviewer \in Actors \cup {None}
    PROVE  LET row == [r EXCEPT !.status = status, !.reviewedBy = reviewer]
           IN  row \in Rows /\ Moved(r, row, status, reviewer)
BY DEF Rows, Moved

LEMMA RestatedRow ==
    ASSUME NEW r \in Rows, NEW status \in DocStatuses
    PROVE  LET row == [r EXCEPT !.status = status]
           IN  row \in Rows /\ Moved(r, row, status, r.reviewedBy)
BY DEF Rows, Moved

LEMMA RewrittenRow ==
    ASSUME NEW r \in Rows, NEW input \in Inputs
    PROVE  Written(r, input) \in Rows /\ Rewritten(r, Written(r, input), input)
BY DEF Rows, Inputs, Rewritten, Written

\* The actions as changes of a row.
LEMMA Creates ==
    ASSUME TypeOK, NEW d \in DOMAIN docs, NEW input \in Inputs, CreateStage(d, input)
    PROVE  \E row : /\ Becomes(d, row)
                    /\ row.status = "DRAFT" /\ row.reviewedBy = None
                    /\ row.parent = ParentOf(cast[d], Others(d), input)
                    /\ row.date = input.date /\ row.qty = input.qty
                    /\ row.source = input.source /\ row.rejected = input.rejected
<1>1. cast[d] \in {"PROCUREMENT", "RECEIPT", "DELIVERY", "SIGNOFF"} /\ DOMAIN docs \subseteq Docs
    BY TradeAssumption DEF TypeOK
<1>2. ParentOf(cast[d], Others(d), input) \in Docs \cup {None}
    <2>1. CASE cast[d] = "RECEIPT"
        <3>1. Accepts(cast[d], Others(d), input) BY DEF CreateStage
        <3>2. \E x \in DOMAIN Others(d) : x \in Final(Others(d), "PROCUREMENT")
            BY <2>1, <3>1 DEF Accepts, AcceptsReceipt
        <3>3. ParentOf(cast[d], Others(d), input) \in DOMAIN Others(d) BY <2>1, <3>2 DEF ParentOf
        <3> QED BY <1>1, <3>3 DEF Others
    <2>2. CASE cast[d] # "RECEIPT" BY <1>1, <2>2 DEF ParentOf, Inputs
    <2> QED BY <2>1, <2>2
<1>3. PICK p : p = ParentOf(cast[d], Others(d), input) OBVIOUS
<1>4. PICK w : w = Written(NoRow, input) OBVIOUS
<1>5. /\ w \in Rows /\ w.reviewedBy = None /\ w.date = input.date /\ w.qty = input.qty
      /\ w.source = input.source /\ w.rejected = input.rejected
    <2>1. w \in Rows /\ Rewritten(NoRow, w, input) BY <1>4, NoRowIsRow, RewrittenRow
    <2> QED BY <2>1 DEF Rewritten, NoRow
<1>6. PICK row : row = [w EXCEPT !.status = "DRAFT", !.parent = p] OBVIOUS
<1>7. /\ row \in Rows /\ row.status = "DRAFT" /\ row.parent = p
      /\ row.reviewedBy = w.reviewedBy /\ row.date = w.date /\ row.qty = w.qty
      /\ row.source = w.source /\ row.rejected = w.rejected
    <2>1. p \in Docs \cup {None} BY <1>2, <1>3
    <2> QED BY <1>5, <1>6, <2>1 DEF Rows, DocStatuses
<1>8. StageAction([docs EXCEPT ![d] = row]) BY <1>3, <1>4, <1>6 DEF CreateStage
<1>9. Becomes(d, row) BY <1>7, <1>8 DEF StageAction, Becomes
<1> QED BY <1>3, <1>5, <1>7, <1>9

LEMMA Saves ==
    ASSUME TypeOK, NEW d \in DOMAIN docs, NEW input \in Inputs, SaveStage(d, input)
    PROVE  \E row : Becomes(d, row) /\ Rewritten(docs[d], row, input)
<1>1. docs[d] \in Rows BY DEF TypeOK
<1>2. PICK row : row = Written(docs[d], input) OBVIOUS
<1>3. row \in Rows /\ Rewritten(docs[d], row, input) BY <1>1, <1>2, RewrittenRow
<1>4. StageAction([docs EXCEPT ![d] = row]) BY <1>2 DEF SaveStage
<1>5. Becomes(d, row) BY <1>3, <1>4 DEF StageAction, Becomes
<1> QED BY <1>3, <1>5

LEMMA Deletes ==
    ASSUME TypeOK, NEW d \in DOMAIN docs, DeleteStage(d)
    PROVE  Becomes(d, NoRow)
BY NoRowIsRow DEF DeleteStage, StageAction, Becomes

LEMMA Checks ==
    ASSUME TypeOK, NEW d \in DOMAIN docs, NEW actor \in Actors, CheckDocument(d, actor)
    PROVE  \E row : Becomes(d, row) /\ Moved(docs[d], row, "REVIEWED", actor)
<1>1. docs[d] \in Rows BY DEF TypeOK
<1>2. PICK row : row = [docs[d] EXCEPT !.status = "REVIEWED", !.reviewedBy = actor] OBVIOUS
<1>3. row \in Rows /\ Moved(docs[d], row, "REVIEWED", actor)
    BY <1>1, <1>2, MovedRow DEF DocStatuses
<1>4. [docs EXCEPT ![d].status = "REVIEWED", ![d].reviewedBy = actor] = [docs EXCEPT ![d] = row]
    BY <1>2
<1>5. StageAction([docs EXCEPT ![d] = row]) BY <1>4 DEF CheckDocument
<1>6. Becomes(d, row) BY <1>3, <1>5 DEF StageAction, Becomes
<1> QED BY <1>3, <1>6

LEMMA Unchecks ==
    ASSUME TypeOK, NEW d \in DOMAIN docs, UncheckDocument(d)
    PROVE  \E row : Becomes(d, row) /\ Moved(docs[d], row, "DRAFT", None)
<1>1. docs[d] \in Rows BY DEF TypeOK
<1>2. PICK row : row = [docs[d] EXCEPT !.status = "DRAFT", !.reviewedBy = None] OBVIOUS
<1>3. row \in Rows /\ Moved(docs[d], row, "DRAFT", None)
    BY <1>1, <1>2, MovedRow DEF DocStatuses
<1>4. [docs EXCEPT ![d].status = "DRAFT", ![d].reviewedBy = None] = [docs EXCEPT ![d] = row]
    BY <1>2
<1>5. StageAction([docs EXCEPT ![d] = row]) BY <1>4 DEF UncheckDocument
<1>6. Becomes(d, row) BY <1>3, <1>5 DEF StageAction, Becomes
<1> QED BY <1>3, <1>6

LEMMA Finalizes ==
    ASSUME TypeOK, NEW d \in DOMAIN docs, NEW actor \in Actors, Finalize(d, actor)
    PROVE  \E row : Becomes(d, row) /\ Moved(docs[d], row, "APPROVED", docs[d].reviewedBy)
<1>1. docs[d] \in Rows BY DEF TypeOK
<1>2. PICK row : row = [docs[d] EXCEPT !.status = "APPROVED"] OBVIOUS
<1>3. row \in Rows /\ Moved(docs[d], row, "APPROVED", docs[d].reviewedBy)
    BY <1>1, <1>2, RestatedRow DEF DocStatuses
<1>4. [docs EXCEPT ![d].status = "APPROVED"] = [docs EXCEPT ![d] = row]
    BY <1>2
<1>5. StageAction([docs EXCEPT ![d] = row]) BY <1>4 DEF Finalize
<1>6. Becomes(d, row) BY <1>3, <1>5 DEF StageAction, Becomes
<1> QED BY <1>3, <1>6

LEMMA Reverses ==
    ASSUME TypeOK, NEW d \in DOMAIN docs, Reverse(d)
    PROVE  \E row : Becomes(d, row) /\ Moved(docs[d], row, "REVIEWED", docs[d].reviewedBy)
<1>1. docs[d] \in Rows BY DEF TypeOK
<1>2. PICK row : row = [docs[d] EXCEPT !.status = "REVIEWED"] OBVIOUS
<1>3. row \in Rows /\ Moved(docs[d], row, "REVIEWED", docs[d].reviewedBy)
    BY <1>1, <1>2, RestatedRow DEF DocStatuses
<1>4. [docs EXCEPT ![d].status = "REVIEWED"] = [docs EXCEPT ![d] = row]
    BY <1>2
<1>5. StageAction([docs EXCEPT ![d] = row]) BY <1>4 DEF Reverse
<1>6. Becomes(d, row) BY <1>3, <1>5 DEF StageAction, Becomes
<1> QED BY <1>3, <1>6

-----------------------------------------------------------------------------
(* Totals over the final documents of a stage.                             *)

LEMMA FinalDocs ==
    ASSUME TypeOK, NEW stage
    PROVE  /\ IsFiniteSet(Final(docs, stage))
           /\ \A x \in DOMAIN docs :
                x \in Final(docs, stage) <=> cast[x] = stage /\ docs[x].status = "APPROVED"
<1>1. Final(docs, stage) \in SUBSET DOMAIN docs BY DEF Final, Live
<1>2. IsFiniteSet(Final(docs, stage)) BY <1>1, FiniteDocs, FS_Subset
<1> QED BY <1>2 DEF Final, Live

LEMMA QuantitiesOf ==
    ASSUME TypeOK, NEW x \in DOMAIN docs, NEW l \in Lines
    PROVE  docs[x].qty[l] \in Nat
<1>1. docs[x] \in Rows BY DEF TypeOK
<1>2. docs[x].qty \in [Lines -> 0..MaxQty] BY <1>1 DEF Rows, Quantities
<1> QED BY <1>2, TradeAssumption

LEMMA TotalType ==
    ASSUME TypeOK, NEW stage, NEW l \in Lines
    PROVE  Total(docs, stage, l) \in Nat
<1>1. PICK f : f = [x \in DOMAIN docs |-> docs[x].qty[l]] OBVIOUS
<1>2. PICK S : S = Final(docs, stage) OBVIOUS
<1>3. IsFiniteSet(S) /\ S \subseteq DOMAIN docs BY <1>2, FinalDocs DEF Final, Live
<1>4. \A x \in S : f[x] \in Nat BY <1>1, <1>3, QuantitiesOf
<1>5. SumFunctionOnSet(f, S) \in Nat BY <1>3, <1>4, SumOfNaturals
<1> QED BY <1>1, <1>2, <1>5 DEF Total

\* A stage's total is that of the other documents when this one is not final.
LEMMA TotalKept ==
    ASSUME TypeOK, NEW d, NEW row, Becomes(d, row), NEW stage, NEW l \in Lines,
           cast[d] = stage => docs[d].status # "APPROVED" /\ row.status # "APPROVED"
    PROVE  Total(docs, stage, l)' = Total(docs, stage, l)
<1>1. PICK f : f = [x \in DOMAIN docs |-> docs[x].qty[l]] OBVIOUS
<1>2. PICK g : g = [x \in DOMAIN docs' |-> docs'[x].qty[l]] OBVIOUS
<1>3. PICK S : S = Final(docs, stage) OBVIOUS
<1>4. Final(docs, stage)' = S
    BY <1>3, BecomesDomain DEF Final, Live, Becomes
<1>5. IsFiniteSet(S) BY <1>3, FinalDocs
<1>6. \A x \in S : f[x] = g[x]
    BY <1>1, <1>2, <1>3, BecomesDomain DEF Final, Live
<1>7. SumFunctionOnSet(f, S) = SumFunctionOnSet(g, S) BY <1>5, <1>6, SumSame
<1> QED BY <1>1, <1>2, <1>3, <1>4, <1>7 DEF Total

LEMMA TotalGrows ==
    ASSUME TypeOK, NEW d, NEW row, Becomes(d, row), NEW stage, cast[d] = stage, NEW l \in Lines,
           docs[d].status # "APPROVED", row.status = "APPROVED"
    PROVE  Total(docs, stage, l)' = Total(docs, stage, l) + row.qty[l]
<1>1. PICK f : f = [x \in DOMAIN docs |-> docs[x].qty[l]] OBVIOUS
<1>2. PICK g : g = [x \in DOMAIN docs' |-> docs'[x].qty[l]] OBVIOUS
<1>3. PICK S : S = Final(docs, stage) OBVIOUS
<1>4. d \in DOMAIN docs /\ d \notin S BY <1>3 DEF Final, Becomes
<1>5. Final(docs, stage)' = S \cup {d}
    BY <1>3, <1>4, BecomesDomain DEF Final, Live, Becomes
<1>6. IsFiniteSet(S) /\ S \subseteq DOMAIN docs
    <2>1. IsFiniteSet(S) BY <1>3, FinalDocs
    <2>2. S \subseteq DOMAIN docs BY <1>3 DEF Final, Live
    <2> QED BY <2>1, <2>2
<1>7. \A x \in S : f[x] = g[x] /\ f[x] \in Int
    BY <1>1, <1>2, <1>4, <1>6, BecomesDomain, QuantitiesOf
<1>8. g[d] = row.qty[l] /\ g[d] \in Int
    <2>1. g[d] = row.qty[l] BY <1>2, <1>4, BecomesDomain
    <2>2. row.qty \in [Lines -> 0..MaxQty] BY DEF Becomes, Rows, Quantities
    <2> QED BY <2>1, <2>2, TradeAssumption
<1>9. SumFunctionOnSet(f, S) = SumFunctionOnSet(g, S) BY <1>6, <1>7, SumSame
<1>10. \A y \in S \cup {d} : g[y] \in Int BY <1>7, <1>8
<1>11. SumFunctionOnSet(g, S \cup {d}) = SumFunctionOnSet(g, S) + g[d]
    BY <1>4, <1>6, <1>10, SumAddElement
<1> QED BY <1>1, <1>2, <1>3, <1>5, <1>8, <1>9, <1>11 DEF Total, Becomes

LEMMA TotalShrinks ==
    ASSUME TypeOK, NEW d, NEW row, Becomes(d, row), NEW stage, cast[d] = stage, NEW l \in Lines,
           docs[d].status = "APPROVED", row.status # "APPROVED"
    PROVE  /\ Total(docs, stage, l) = docs[d].qty[l] + Total(docs, stage, l)'
           /\ Total(docs, stage, l)' \in Nat
<1>1. PICK f : f = [x \in DOMAIN docs |-> docs[x].qty[l]] OBVIOUS
<1>2. PICK g : g = [x \in DOMAIN docs' |-> docs'[x].qty[l]] OBVIOUS
<1>3. PICK S : S = Final(docs, stage) OBVIOUS
<1>4. d \in DOMAIN docs /\ d \in S BY <1>3 DEF Final, Live, Becomes
<1>5. Final(docs, stage)' = S \ {d}
    BY <1>3, <1>4, BecomesDomain DEF Final, Live, Becomes
<1>6. IsFiniteSet(S) /\ S \subseteq DOMAIN docs
    <2>1. IsFiniteSet(S) BY <1>3, FinalDocs
    <2>2. S \subseteq DOMAIN docs BY <1>3 DEF Final, Live
    <2> QED BY <2>1, <2>2
<1>7. \A x \in S : f[x] \in Nat /\ f[x] = docs[x].qty[l]
    BY <1>1, <1>6, QuantitiesOf
<1>8. \A x \in S \ {d} : f[x] = g[x]
    BY <1>1, <1>2, <1>6, BecomesDomain
<1>9. SumFunctionOnSet(f, S) = f[d] + SumFunctionOnSet(f, S \ {d})
    BY <1>4, <1>6, <1>7, SumTakeOut
<1>10. IsFiniteSet(S \ {d}) BY <1>6, FS_RemoveElement
<1>11. SumFunctionOnSet(f, S \ {d}) = SumFunctionOnSet(g, S \ {d})
    BY <1>8, <1>10, SumSame
<1>12. SumFunctionOnSet(f, S \ {d}) \in Nat BY <1>7, <1>10, SumOfNaturals
<1> QED BY <1>1, <1>2, <1>3, <1>4, <1>5, <1>7, <1>9, <1>11, <1>12 DEF Total, Becomes

-----------------------------------------------------------------------------
(* What a change of one document keeps.                                    *)

LEMMA BecomesTyped ==
    ASSUME TypeOK, NEW d, NEW row, Becomes(d, row),
           row.status = "NONE" => row = NoRow,
           row.status \in {"NONE", "DRAFT"} <=> row.reviewedBy = None,
           DOMAIN booked' = DOMAIN booked,
           \A x \in DOMAIN cast : cast[x] \notin {"RECEIPT", "SIGNOFF"} => booked'[x] = booked[x]
    PROVE  TypeOK'
<1>1. process' \in Processes
    <2>1. CompletionOf(docs', process.ordered) \in {"COMPLETED", "APPROVED"} BY DEF CompletionOf
    <2>2. PICK status : status = CompletionOf(docs', process.ordered) OBVIOUS
    <2>3. process' = [process EXCEPT !.status = status] BY <2>2 DEF Becomes
    <2> QED BY <2>1, <2>2, <2>3 DEF TypeOK, Processes
<1>2. docs' \in [DOMAIN cast -> Rows]
    BY DEF TypeOK, Becomes
<1>3. ASSUME NEW x \in DOMAIN cast
      PROVE  /\ docs'[x].status = "NONE" => docs'[x] = NoRow
             /\ docs'[x].status \in {"NONE", "DRAFT"} <=> docs'[x].reviewedBy = None
             /\ cast[x] \notin {"RECEIPT", "SIGNOFF"} => booked'[x] = NoBooking
    <2>1. docs'[x] = IF x = d THEN row ELSE docs[x] BY DEF Becomes, TypeOK
    <2> QED BY <2>1 DEF TypeOK
<1>4. cast' = cast /\ ledger' = ledger BY DEF Becomes
<1> QED BY <1>1, <1>2, <1>3, <1>4 DEF TypeOK

\* The others keep what they say and what they hang on, if d is not given up
\* while some of them hang on it.
LEMMA OthersKept ==
    ASSUME IInv, NEW d, NEW row, Becomes(d, row),
           \/ docs[d].status # "APPROVED"
           \/ cast[d] \notin {"PROCUREMENT", "DELIVERY"}
           \/ Children(docs, d) = {}
    PROVE  \A x \in DOMAIN docs : x # d /\ docs[x].status # "NONE" => (LinesKept(x) /\ Hangs(x))'
<1> SUFFICES ASSUME NEW x \in DOMAIN docs, x # d, docs[x].status # "NONE"
             PROVE  (LinesKept(x) /\ Hangs(x))'
    OBVIOUS
<1>1. TypeOK /\ LinesKept(x) /\ Hangs(x) BY DEF IInv, DocumentsKept
<1>2. /\ docs'[x] = docs[x] /\ cast' = cast
      /\ process'.date = process.date /\ process'.ordered = process.ordered
    BY <1>1, BecomesDomain DEF Becomes
<1>3. LinesKept(x)' BY <1>1, <1>2 DEF LinesKept
<1>4. ASSUME cast[x] \in {"RECEIPT", "SIGNOFF"}
      PROVE  /\ docs[x].parent \in
                  Final(docs, IF cast[x] = "RECEIPT" THEN "PROCUREMENT" ELSE "DELIVERY")'
             /\ docs'[docs[x].parent] = docs[docs[x].parent]
    <2>1. PICK p : p = docs[x].parent OBVIOUS
    <2>2. PICK stage : stage = IF cast[x] = "RECEIPT" THEN "PROCUREMENT" ELSE "DELIVERY" OBVIOUS
    <2>3. p \in Final(docs, stage) BY <1>1, <1>4, <2>1, <2>2 DEF Hangs
    <2>4. p # d
        <3>1. x \in Children(docs, p) BY <2>1 DEF Children
        <3> QED BY <2>2, <2>3, <3>1 DEF Final, Live
    <2>5. docs'[p] = docs[p] /\ p \in DOMAIN docs BY <1>1, <2>3, <2>4, BecomesDomain DEF Final, Live
    <2>6. p \in Final(docs, stage)' BY <1>1, <1>2, <2>3, <2>5, BecomesDomain DEF Final, Live
    <2> QED BY <1>2, <2>1, <2>2, <2>5, <2>6
<1>5. Hangs(x)' BY <1>1, <1>2, <1>4 DEF Hangs
<1> QED BY <1>3, <1>5

\* A document that only moves keeps what it says and what it hangs on.
LEMMA MovedKept ==
    ASSUME IInv, NEW d, NEW row, Becomes(d, row), NEW status, NEW reviewer,
           Moved(docs[d], row, status, reviewer), docs[d].status # "NONE"
    PROVE  (LinesKept(d) /\ Hangs(d))'
<1>1. TypeOK /\ LinesKept(d) /\ Hangs(d) BY DEF IInv, DocumentsKept, Becomes
<1>2. /\ docs'[d] = row /\ cast' = cast
      /\ process'.date = process.date /\ process'.ordered = process.ordered
      /\ row.date = docs[d].date /\ row.qty = docs[d].qty /\ row.parent = docs[d].parent
    BY <1>1, BecomesDomain DEF Becomes, Moved
<1>3. LinesKept(d)' BY <1>1, <1>2 DEF LinesKept
<1>4. ASSUME cast[d] \in {"RECEIPT", "SIGNOFF"}
      PROVE  /\ docs[d].parent \in
                  Final(docs, IF cast[d] = "RECEIPT" THEN "PROCUREMENT" ELSE "DELIVERY")'
             /\ docs'[docs[d].parent] = docs[docs[d].parent]
    <2>1. PICK p : p = docs[d].parent OBVIOUS
    <2>2. PICK stage : stage = IF cast[d] = "RECEIPT" THEN "PROCUREMENT" ELSE "DELIVERY" OBVIOUS
    <2>3. p \in Final(docs, stage) BY <1>1, <1>4, <2>1, <2>2 DEF Hangs
    <2>4. p # d BY <1>4, <2>2, <2>3 DEF Final, Live
    <2>5. docs'[p] = docs[p] /\ p \in DOMAIN docs BY <1>1, <2>3, <2>4, BecomesDomain DEF Final, Live
    <2>6. p \in Final(docs, stage)' BY <1>1, <1>2, <2>3, <2>5, BecomesDomain DEF Final, Live
    <2> QED BY <1>2, <2>1, <2>2, <2>5, <2>6
<1>5. Hangs(d)' BY <1>1, <1>2, <1>4 DEF Hangs
<1> QED BY <1>3, <1>5

LEMMA DocumentsKeptBy ==
    ASSUME IInv, NEW d, NEW row, Becomes(d, row),
           \/ docs[d].status # "APPROVED"
           \/ cast[d] \notin {"PROCUREMENT", "DELIVERY"}
           \/ Children(docs, d) = {},
           row.status # "NONE" => (LinesKept(d) /\ Hangs(d))'
    PROVE  DocumentsKept'
<1>1. TypeOK BY DEF IInv
<1>2. DOMAIN docs' = DOMAIN docs /\ docs'[d] = row /\ \A x \in DOMAIN docs : x # d => docs'[x] = docs[x]
    BY <1>1, BecomesDomain
<1>3. \A x \in DOMAIN docs : x # d /\ docs[x].status # "NONE" => (LinesKept(x) /\ Hangs(x))'
    BY OthersKept
<1>4. \A x \in DOMAIN docs' : docs'[x].status # "NONE" => (LinesKept(x) /\ Hangs(x))'
    BY <1>2, <1>3
<1> QED BY <1>4 DEF DocumentsKept

\* Who names lines of another still finds them, if lines in use are neither
\* rewritten nor deleted.
LEMMA SourcesKeptBy ==
    ASSUME IInv, NEW d, NEW row, Becomes(d, row),
           \/ docs[d].status = "NONE"
           \/ ~LinesInUse(docs, d)
           \/ row.status # "NONE" /\ row.date = docs[d].date /\ row.qty = docs[d].qty,
           row.status # "NONE" => Names(d)'
    PROVE  SourcesKept'
<1>1. TypeOK /\ SourcesKept BY DEF IInv
<1>2. /\ DOMAIN docs' = DOMAIN docs /\ docs'[d] = row /\ cast' = cast
      /\ \A x \in DOMAIN docs : x # d => docs'[x] = docs[x]
    BY <1>1, BecomesDomain DEF Becomes
<1>3. ASSUME NEW x \in DOMAIN docs, x # d, docs[x].status # "NONE", cast[x] = "SIGNOFF"
      PROVE  Names(x)'
    <2>1. PICK s : s = docs[x].source OBVIOUS
    <2>2. /\ s \in DOMAIN docs /\ cast[s] = "DELIVERY" /\ docs[s].status # "NONE"
          /\ docs[x].date >= docs[s].date
          /\ \A l \in Lines : docs[x].qty[l] + docs[x].rejected[l] <= docs[s].qty[l]
        BY <1>1, <1>3, <2>1 DEF SourcesKept, Names, Live
    <2>3. s = d => LinesInUse(docs, d) BY <1>3, <2>1 DEF LinesInUse
    <2>4. docs'[s].status # "NONE" /\ docs'[s].date = docs[s].date /\ docs'[s].qty = docs[s].qty
        BY <1>2, <2>2, <2>3
    <2>5. s \in Live(docs, "DELIVERY")' BY <1>2, <2>2, <2>4 DEF Live
    <2> QED BY <1>2, <1>3, <2>1, <2>2, <2>4, <2>5 DEF Names
<1>4. \A x \in DOMAIN docs' : docs'[x].status # "NONE" => Names(x)'
    BY <1>2, <1>3 DEF Names
<1> QED BY <1>4 DEF SourcesKept

\* A document that only moves still finds what it names.
LEMMA MovedNames ==
    ASSUME IInv, NEW d, NEW row, Becomes(d, row), NEW status, NEW reviewer,
           Moved(docs[d], row, status, reviewer), docs[d].status # "NONE"
    PROVE  Names(d)'
<1>1. TypeOK /\ Names(d) /\ d \in DOMAIN docs BY DEF IInv, SourcesKept, Becomes
<1>2. /\ docs'[d] = row /\ cast' = cast /\ DOMAIN docs' = DOMAIN docs
      /\ \A x \in DOMAIN docs : x # d => docs'[x] = docs[x]
      /\ row.date = docs[d].date /\ row.qty = docs[d].qty
      /\ row.source = docs[d].source /\ row.rejected = docs[d].rejected
    BY <1>1, BecomesDomain DEF Becomes, Moved
<1>3. ASSUME cast[d] = "SIGNOFF"
      PROVE  docs[d].source \in Live(docs, "DELIVERY")' /\ docs'[docs[d].source] = docs[docs[d].source]
    BY <1>1, <1>2, <1>3 DEF Names, Live
<1> QED BY <1>1, <1>2, <1>3 DEF Names

\* A document that moves leaves everybody's lines.
LEMMA SourcesMoved ==
    ASSUME IInv, NEW d, NEW row, Becomes(d, row), NEW status, NEW reviewer, status # "NONE",
           Moved(docs[d], row, status, reviewer), docs[d].status # "NONE"
    PROVE  SourcesKept'
<1>1. row.status # "NONE" /\ row.date = docs[d].date /\ row.qty = docs[d].qty BY DEF Moved
<1>2. Names(d)' BY MovedNames
<1> QED BY <1>1, <1>2, SourcesKeptBy

\* The order stands, and there is one procurement still, if none is added.
LEMMA OrderKeptBy ==
    ASSUME IInv, NEW d, NEW row, Becomes(d, row)
    PROVE  OrderKept'
<1>1. TypeOK /\ OrderKept BY DEF IInv
<1>2. process'.ordered = process.ordered /\ process.status # "NONE"
    BY <1>1, BecomesDomain DEF Becomes
<1> QED BY <1>1, <1>2 DEF OrderKept

LEMMA OneProcurementBy ==
    ASSUME IInv, NEW d, NEW row, Becomes(d, row),
           docs[d].status # "NONE" \/ row.status = "NONE" \/ cast[d] # "PROCUREMENT"
    PROVE  OneProcurement'
<1>1. TypeOK /\ OneProcurement BY DEF IInv
<1>2. DOMAIN docs' = DOMAIN docs /\ docs'[d] = row /\ \A x \in DOMAIN docs : x # d => docs'[x] = docs[x]
    BY <1>1, BecomesDomain
<1>3. Live(docs, "PROCUREMENT")' \subseteq Live(docs, "PROCUREMENT")
    BY <1>2 DEF Live, Becomes
<1> QED BY <1>1, <1>3 DEF OneProcurement

-----------------------------------------------------------------------------
(* The status after a stage action.                                        *)

Quiet == \A d \in DOMAIN docs :
    /\ docs[d].status \in {"NONE", "APPROVED"}
    /\ cast[d] = "DELIVERY" /\ docs[d].status = "APPROVED" =>
         \E s \in Final(docs, "SIGNOFF") : docs[s].parent = d

Delivered == \A l \in Lines : Total(docs, "SIGNOFF", l) = process.ordered[l]

NothingYet == \A d \in DOMAIN docs : docs[d].status = "NONE"

\* validateShortClose and maybeComplete ask for just that.
LEMMA NothingUnderWayIsQuiet ==
    ASSUME TypeOK, DocumentsKept
    PROVE  Quiet <=> NothingUnderWay(docs)
<1>1. \A d \in DOMAIN docs : docs[d] \in Rows /\ docs[d].status \in DocStatuses
    BY DEF TypeOK, Rows
<1>2. (Unfinished(docs) = {}) <=> \A d \in DOMAIN docs : docs[d].status \in {"NONE", "APPROVED"}
    BY <1>1 DEF Unfinished, DocStatuses
<1>3. ASSUME NEW d \in Final(docs, "DELIVERY"), NEW s \in Children(docs, d),
             docs[s].status = "APPROVED"
      PROVE  s \in Final(docs, "SIGNOFF") /\ docs[s].parent = d
    <2>1. s \in DOMAIN docs /\ docs[s].parent = d /\ d \in DOMAIN docs /\ cast[d] = "DELIVERY"
        BY DEF Children, Final, Live
    <2>2. LinesKept(s) /\ Hangs(s) BY <1>3, <2>1 DEF DocumentsKept
    <2>3. d # None /\ cast[s] \in {"PROCUREMENT", "RECEIPT", "DELIVERY", "SIGNOFF"}
        BY <2>1, TradeAssumption DEF TypeOK
    <2>4. cast[s] \in {"RECEIPT", "SIGNOFF"} BY <2>1, <2>2, <2>3 DEF LinesKept
    <2>5. cast[s] # "RECEIPT" BY <2>1, <2>2 DEF Hangs, Final, Live
    <2> QED BY <1>3, <2>1, <2>4, <2>5 DEF Final, Live
<1>4. (Unsigned(docs) = {}) <=>
          \A d \in Final(docs, "DELIVERY") : \E s \in Final(docs, "SIGNOFF") : docs[s].parent = d
    BY <1>3 DEF Unsigned, Children, Final, Live
<1> QED BY <1>2, <1>4 DEF Quiet, NothingUnderWay, Final, Live

LEMMA StatusMeans ==
    StatusTellsTruth <=>
        /\ process.status = "COMPLETED" => Quiet /\ Delivered
        /\ process.status = "APPROVED" => ~(Quiet /\ Delivered)
        /\ process.status \in {"SHORT_CLOSE_REQUESTED", "SHORT_CLOSED"} => Quiet
        /\ process.status \in {"NONE", "DRAFT", "CHECKED"} => NothingYet
BY Zenon DEF StatusTellsTruth, Quiet, Delivered, NothingYet

LEMMA StatusMeansNext ==
    (StatusTellsTruth <=>
        /\ process.status = "COMPLETED" => Quiet /\ Delivered
        /\ process.status = "APPROVED" => ~(Quiet /\ Delivered)
        /\ process.status \in {"SHORT_CLOSE_REQUESTED", "SHORT_CLOSED"} => Quiet
        /\ process.status \in {"NONE", "DRAFT", "CHECKED"} => NothingYet)'
BY StatusMeans, PTL

\* The completion of a process is what StatusTellsTruth asks of its status.
LEMMA CompletionTells ==
    TypeOK /\ DocumentsKept /\ process.status = CompletionOf(docs, process.ordered)
        => StatusTellsTruth /\ NotYetDelivered
<1> SUFFICES ASSUME TypeOK, DocumentsKept, process.status = CompletionOf(docs, process.ordered)
             PROVE  StatusTellsTruth /\ NotYetDelivered
    OBVIOUS
<1>1. Quiet <=> Unfinished(docs) = {} /\ Unsigned(docs) = {}
    BY NothingUnderWayIsQuiet DEF NothingUnderWay
<1>2. Delivered <=> AllSigned(docs, process.ordered) BY DEF Delivered, AllSigned
<1>3. process.status = IF Quiet /\ Delivered THEN "COMPLETED" ELSE "APPROVED"
    BY <1>1, <1>2 DEF CompletionOf
<1>4. StatusTellsTruth BY <1>3, StatusMeans
<1> QED BY <1>3, <1>4 DEF NotYetDelivered

LEMMA CompletionTellsNext ==
    (TypeOK /\ DocumentsKept /\ process.status = CompletionOf(docs, process.ordered)
        => StatusTellsTruth /\ NotYetDelivered)'
BY CompletionTells, PTL

LEMMA StatusBy ==
    ASSUME TypeOK, NEW d, NEW row, Becomes(d, row), TypeOK', DocumentsKept'
    PROVE  (StatusTellsTruth /\ NotYetDelivered)'
<1>1. process'.status = CompletionOf(docs', process.ordered) /\ process'.ordered = process.ordered
    BY BecomesDomain
<1>2. CompletionOf(docs, process.ordered)' = CompletionOf(docs', process.ordered)
    <2>1. cast' = cast BY DEF Becomes
    <2>2. Final(docs, "SIGNOFF")' = Final(docs', "SIGNOFF") BY <2>1 DEF Final, Live
    <2>3. Final(docs, "DELIVERY")' = Final(docs', "DELIVERY") BY <2>1 DEF Final, Live
    <2>4. \A l : Total(docs, "SIGNOFF", l)' = Total(docs', "SIGNOFF", l) BY <2>2 DEF Total
    <2>5. AllSigned(docs, process.ordered)' <=> AllSigned(docs', process.ordered)
        BY <1>1, <2>4 DEF AllSigned
    <2>6. Unsigned(docs)' = Unsigned(docs') BY <2>3 DEF Unsigned, Children
    <2>7. Unfinished(docs)' = Unfinished(docs') BY DEF Unfinished
    <2> QED BY <2>5, <2>6, <2>7 DEF CompletionOf
<1> QED BY <1>1, <1>2, CompletionTellsNext

-----------------------------------------------------------------------------
(* The quantities.                                                         *)

LEMMA NoTotal ==
    ASSUME TypeOK, NEW stage, Final(docs, stage) = {}, NEW l \in Lines
    PROVE  Total(docs, stage, l) = 0
<1>1. PICK f : f = [x \in DOMAIN docs |-> docs[x].qty[l]] OBVIOUS
<1>2. SumFunctionOnSet(f, {}) = 0 BY SumOfNone
<1> QED BY <1>1, <1>2 DEF Total

\* The procurement is all that is ordered from the supplier.
LEMMA ProcurementTotal ==
    ASSUME TypeOK, OneProcurement, NEW p \in Final(docs, "PROCUREMENT"), NEW l \in Lines
    PROVE  Total(docs, "PROCUREMENT", l) = docs[p].qty[l]
<1>1. PICK f : f = [x \in DOMAIN docs |-> docs[x].qty[l]] OBVIOUS
<1>2. p \in DOMAIN docs /\ Final(docs, "PROCUREMENT") = {p} BY DEF OneProcurement, Final, Live
<1>3. f[p] = docs[p].qty[l] /\ f[p] \in Nat BY <1>1, <1>2, QuantitiesOf
<1>4. IsFiniteSet({p}) /\ {p} \ {p} = {} BY FS_Singleton
<1>5. SumFunctionOnSet(f, {}) = 0 BY SumOfNone
<1>6. \A x \in {p} : f[x] \in Int BY <1>3
<1>7. SumFunctionOnSet(f, {p}) = f[p] + SumFunctionOnSet(f, {p} \ {p})
    BY <1>4, <1>6, SumTakeOut
<1>8. SumFunctionOnSet(f, {p}) = f[p] BY <1>3, <1>4, <1>5, <1>7
<1> QED BY <1>1, <1>2, <1>3, <1>8 DEF Total

LEMMA QuantitiesKept ==
    ASSUME IInv, NEW d, NEW row, Becomes(d, row),
           docs[d].status # "APPROVED", row.status # "APPROVED"
    PROVE  QuantitiesWithinOrder'
<1>1. TypeOK /\ QuantitiesWithinOrder BY DEF IInv
<1>2. ASSUME NEW l \in Lines
      PROVE  /\ Total(docs, "RECEIPT", l)' <= Total(docs, "PROCUREMENT", l)'
             /\ Total(docs, "PROCUREMENT", l)' <= process'.ordered[l]
             /\ Total(docs, "SIGNOFF", l)' <= process'.ordered[l]
    <2>1. \A stage : Total(docs, stage, l)' = Total(docs, stage, l) BY <1>1, TotalKept
    <2> QED BY <1>1, <2>1, BecomesDomain DEF QuantitiesWithinOrder
<1> QED BY <1>2 DEF QuantitiesWithinOrder

LEMMA QuantitiesFinalized ==
    ASSUME IInv, NEW d, NEW row, Becomes(d, row), NEW reviewer,
           Moved(docs[d], row, "APPROVED", reviewer), docs[d].status = "REVIEWED", Fits(d)
    PROVE  QuantitiesWithinOrder'
<1>1. /\ TypeOK /\ QuantitiesWithinOrder /\ OneProcurement /\ d \in DOMAIN docs
      /\ LinesKept(d) /\ Hangs(d)
    BY DEF IInv, DocumentsKept, Becomes
<1>2. SUFFICES ASSUME NEW l \in Lines
      PROVE  /\ Total(docs, "RECEIPT", l)' <= Total(docs, "PROCUREMENT", l)'
             /\ Total(docs, "PROCUREMENT", l)' <= process'.ordered[l]
             /\ Total(docs, "SIGNOFF", l)' <= process'.ordered[l]
    BY DEF QuantitiesWithinOrder
<1>3. row.status = "APPROVED" /\ row.qty = docs[d].qty /\ process'.ordered = process.ordered
    BY <1>1, BecomesDomain DEF Moved
<1>4. \A stage \in {"PROCUREMENT", "RECEIPT", "SIGNOFF"} : cast[d] = stage =>
          Total(docs, stage, l)' = Total(docs, stage, l) + docs[d].qty[l]
    BY <1>1, <1>3, TotalGrows
<1>5. /\ cast[d] # "PROCUREMENT" => Total(docs, "PROCUREMENT", l)' = Total(docs, "PROCUREMENT", l)
      /\ cast[d] # "RECEIPT" => Total(docs, "RECEIPT", l)' = Total(docs, "RECEIPT", l)
      /\ cast[d] # "SIGNOFF" => Total(docs, "SIGNOFF", l)' = Total(docs, "SIGNOFF", l)
    BY <1>1, TotalKept
<1>6. /\ Total(docs, "RECEIPT", l) <= Total(docs, "PROCUREMENT", l)
      /\ Total(docs, "PROCUREMENT", l) <= process.ordered[l]
      /\ Total(docs, "SIGNOFF", l) <= process.ordered[l]
    BY <1>1 DEF QuantitiesWithinOrder
<1>7. docs[d].qty[l] \in Nat /\ process.ordered[l] \in Int
    <2>1. process.ordered \in [Lines -> 0..MaxQty] BY <1>1 DEF TypeOK, Processes, Quantities
    <2> QED BY <1>1, <2>1, QuantitiesOf, TradeAssumption
<1>8. /\ Total(docs, "PROCUREMENT", l) \in Nat
      /\ Total(docs, "RECEIPT", l) \in Nat
      /\ Total(docs, "SIGNOFF", l) \in Nat
    BY <1>1, TotalType
<1>9. CASE cast[d] = "PROCUREMENT"
    <2>1. Final(docs, "PROCUREMENT") = {}
        BY <1>1, <1>9 DEF OneProcurement, Final, Live
    <2>2. Total(docs, "PROCUREMENT", l) = 0 BY <1>1, <2>1, NoTotal
    <2>3. docs[d].qty[l] <= process.ordered[l] BY <1>1, <1>9 DEF LinesKept
    <2> QED BY <1>3, <1>4, <1>5, <1>6, <1>7, <1>8, <1>9, <2>2, <2>3
<1>10. CASE cast[d] = "RECEIPT"
    <2>1. PICK p : p = docs[d].parent OBVIOUS
    <2>2. p \in Final(docs, "PROCUREMENT") BY <1>1, <1>10, <2>1 DEF Hangs
    <2>3. Total(docs, "PROCUREMENT", l) = docs[p].qty[l] BY <1>1, <2>2, ProcurementTotal
    <2>4. docs[d].qty[l] + Total(docs, "RECEIPT", l) <= docs[p].qty[l]
        BY <1>10, <2>1 DEF Fits, ReceiptFits
    <2> QED BY <1>3, <1>4, <1>5, <1>6, <1>7, <1>8, <1>10, <2>3, <2>4
<1>11. CASE cast[d] = "SIGNOFF"
    <2>1. docs[d].qty[l] + Total(docs, "SIGNOFF", l) <= process.ordered[l]
        BY <1>11 DEF Fits, SignoffFits
    <2> QED BY <1>3, <1>4, <1>5, <1>6, <1>7, <1>8, <1>11, <2>1
<1>12. CASE cast[d] \notin {"PROCUREMENT", "RECEIPT", "SIGNOFF"}
    BY <1>3, <1>5, <1>6, <1>12
<1> QED BY <1>9, <1>10, <1>11, <1>12

LEMMA QuantitiesReversed ==
    ASSUME IInv, NEW d, NEW row, Becomes(d, row), NEW reviewer,
           Moved(docs[d], row, "REVIEWED", reviewer), docs[d].status = "APPROVED", MayReverse(d)
    PROVE  QuantitiesWithinOrder'
<1>1. /\ TypeOK /\ QuantitiesWithinOrder /\ OneProcurement /\ d \in DOMAIN docs
      /\ LinesKept(d) /\ Hangs(d)
    BY DEF IInv, DocumentsKept, Becomes
<1>2. SUFFICES ASSUME NEW l \in Lines
      PROVE  /\ Total(docs, "RECEIPT", l)' <= Total(docs, "PROCUREMENT", l)'
             /\ Total(docs, "PROCUREMENT", l)' <= process'.ordered[l]
             /\ Total(docs, "SIGNOFF", l)' <= process'.ordered[l]
    BY DEF QuantitiesWithinOrder
<1>3. row.status = "REVIEWED" /\ process'.ordered = process.ordered
    BY <1>1, BecomesDomain DEF Moved
<1>4. \A stage \in {"PROCUREMENT", "RECEIPT", "SIGNOFF"} : cast[d] = stage =>
          /\ Total(docs, stage, l) = docs[d].qty[l] + Total(docs, stage, l)'
          /\ Total(docs, stage, l)' \in Nat
    BY <1>1, <1>3, TotalShrinks
<1>5. /\ cast[d] # "PROCUREMENT" => Total(docs, "PROCUREMENT", l)' = Total(docs, "PROCUREMENT", l)
      /\ cast[d] # "RECEIPT" => Total(docs, "RECEIPT", l)' = Total(docs, "RECEIPT", l)
      /\ cast[d] # "SIGNOFF" => Total(docs, "SIGNOFF", l)' = Total(docs, "SIGNOFF", l)
    BY <1>1, TotalKept
<1>6. /\ Total(docs, "RECEIPT", l) <= Total(docs, "PROCUREMENT", l)
      /\ Total(docs, "PROCUREMENT", l) <= process.ordered[l]
      /\ Total(docs, "SIGNOFF", l) <= process.ordered[l]
    BY <1>1 DEF QuantitiesWithinOrder
<1>7. docs[d].qty[l] \in Nat /\ process.ordered[l] \in Int
    <2>1. process.ordered \in [Lines -> 0..MaxQty] BY <1>1 DEF TypeOK, Processes, Quantities
    <2> QED BY <1>1, <2>1, QuantitiesOf, TradeAssumption
<1>8. /\ Total(docs, "PROCUREMENT", l) \in Nat
      /\ Total(docs, "RECEIPT", l) \in Nat
      /\ Total(docs, "SIGNOFF", l) \in Nat
    BY <1>1, TotalType
<1>9. CASE cast[d] = "PROCUREMENT"
    <2>1. Children(docs, d) = {} BY <1>9 DEF MayReverse
    <2>2. Final(docs, "RECEIPT") = {}
        <3>1. SUFFICES ASSUME NEW x \in Final(docs, "RECEIPT") PROVE FALSE
            OBVIOUS
        <3>2. x \in DOMAIN docs /\ cast[x] = "RECEIPT" /\ docs[x].status = "APPROVED"
            BY DEF Final, Live
        <3>3. Hangs(x) BY <3>2 DEF IInv, DocumentsKept
        <3>4. docs[x].parent \in Final(docs, "PROCUREMENT") BY <3>2, <3>3 DEF Hangs
        <3>5. d \in Live(docs, "PROCUREMENT") BY <1>1, <1>9 DEF Live
        <3>6. docs[x].parent = d BY <1>1, <3>4, <3>5 DEF OneProcurement, Final
        <3> QED BY <2>1, <3>2, <3>6 DEF Children
    <2>3. Total(docs, "RECEIPT", l) = 0 BY <1>1, <2>2, NoTotal
    <2>4. Total(docs, "PROCUREMENT", l) = docs[d].qty[l]
        BY <1>1, <1>9, ProcurementTotal DEF Final, Live
    <2> QED BY <1>3, <1>4, <1>5, <1>6, <1>7, <1>8, <1>9, <2>3, <2>4
<1>10. CASE cast[d] = "RECEIPT"
    BY <1>3, <1>4, <1>5, <1>6, <1>7, <1>8, <1>10
<1>11. CASE cast[d] = "SIGNOFF"
    BY <1>3, <1>4, <1>5, <1>6, <1>7, <1>8, <1>11
<1>12. CASE cast[d] \notin {"PROCUREMENT", "RECEIPT", "SIGNOFF"}
    BY <1>3, <1>5, <1>6, <1>12
<1> QED BY <1>9, <1>10, <1>11, <1>12

-----------------------------------------------------------------------------
(* The books of the receipts.                                              *)

LEMMA UnitsPositive ==
    ASSUME NEW qty \in Quantities, Positive(qty)
    PROVE  SumFunction(qty) \in Nat /\ SumFunction(qty) > 0
<1>1. DOMAIN qty = Lines /\ \A l \in Lines : qty[l] \in Nat
    BY TradeAssumption DEF Quantities
<1>2. PICK l \in Lines : qty[l] > 0 BY DEF Positive
<1>3. PICK rest : rest = SumFunctionOnSet(qty, Lines \ {l}) OBVIOUS
<1>4. IsFiniteSet(Lines) /\ IsFiniteSet(Lines \ {l}) BY TradeAssumption, FS_RemoveElement
<1>5. rest \in Nat BY <1>1, <1>3, <1>4, SumOfNaturals
<1>6. SumFunctionOnSet(qty, Lines) = qty[l] + rest
    BY <1>1, <1>3, <1>4, SumTakeOut
<1> QED BY <1>1, <1>2, <1>5, <1>6 DEF SumFunction

LEMMA OthersBooked ==
    ASSUME IInv, NEW d, NEW row, Becomes(d, row),
           \A x \in DOMAIN docs : x # d => booked'[x] = booked[x],
           cast[d] = "RECEIPT" => ReceiptBooked(d)'
    PROVE  ReceiptsBooked'
<1>1. TypeOK /\ ReceiptsBooked BY DEF IInv
<1>2. /\ DOMAIN docs' = DOMAIN docs /\ cast' = cast
      /\ \A x \in DOMAIN docs : x # d => docs'[x] = docs[x]
    BY <1>1, BecomesDomain DEF Becomes
<1>3. ASSUME NEW x \in DOMAIN docs, cast[x] = "RECEIPT", x # d PROVE ReceiptBooked(x)'
    <2>1. ReceiptBooked(x) BY <1>1, <1>3 DEF ReceiptsBooked
    <2>2. docs'[x] = docs[x] /\ booked'[x] = booked[x] BY <1>2, <1>3
    <2> QED BY <2>1, <2>2 DEF ReceiptBooked, Owed
<1> QED BY <1>2, <1>3 DEF ReceiptsBooked

LEMMA ReceiptsKept ==
    ASSUME IInv, NEW d, NEW row, Becomes(d, row), booked' = booked,
           docs[d].status # "APPROVED", row.status # "APPROVED"
    PROVE  ReceiptsBooked'
<1>1. TypeOK /\ ReceiptsBooked BY DEF IInv
<1>2. docs'[d] = row /\ d \in DOMAIN docs BY <1>1, BecomesDomain DEF Becomes
<1>3. ASSUME cast[d] = "RECEIPT" PROVE ReceiptBooked(d)'
    <2>1. ReceiptBooked(d) BY <1>1, <1>2, <1>3 DEF ReceiptsBooked
    <2> QED BY <1>2, <2>1 DEF ReceiptBooked, Owed
<1> QED BY <1>3, OthersBooked

LEMMA ReceiptsFinalized ==
    ASSUME IInv, NEW d, NEW row, Becomes(d, row), NEW reviewer, NEW effective,
           Moved(docs[d], row, "APPROVED", reviewer), docs[d].status = "REVIEWED",
           Posted(d, effective)
    PROVE  /\ ReceiptsBooked'
           /\ DOMAIN booked' = DOMAIN booked
           /\ \A x \in DOMAIN cast : cast[x] \notin {"RECEIPT", "SIGNOFF"} => booked'[x] = booked[x]
<1>1. TypeOK /\ ReceiptsBooked /\ d \in DOMAIN docs /\ LinesKept(d)
    BY DEF IInv, DocumentsKept, Becomes
<1>2. docs'[d] = row /\ row.status = "APPROVED" /\ row.qty = docs[d].qty /\ docs[d] \in Rows
    BY <1>1, BecomesDomain DEF Moved
<1>3. DOMAIN booked = DOMAIN docs /\ DOMAIN docs = DOMAIN cast BY <1>1, FiniteDocs DEF TypeOK
<1>4. \/ cast[d] \notin {"RECEIPT", "SIGNOFF"} /\ booked' = booked
      \/ /\ cast[d] \in {"RECEIPT", "SIGNOFF"}
         /\ booked' = [booked EXCEPT ![d] =
                PostManagedDocument(booked[d], Effect(cast[d], docs, d))]
    BY DEF Posted
<1>5. /\ DOMAIN booked' = DOMAIN booked
      /\ \A x \in DOMAIN docs : x # d => booked'[x] = booked[x]
      /\ \A x \in DOMAIN cast : cast[x] \notin {"RECEIPT", "SIGNOFF"} => booked'[x] = booked[x]
    BY <1>3, <1>4
<1>6. ASSUME cast[d] = "RECEIPT" PROVE ReceiptBooked(d)'
    <2>1. PICK units : units = SumFunction(docs[d].qty) OBVIOUS
    <2>2. docs[d].qty \in Quantities /\ Positive(docs[d].qty)
        BY <1>1, <1>2, <1>6 DEF Rows, LinesKept
    <2>3. units \in Nat /\ units > 0 BY <2>1, <2>2, UnitsPositive
    <2>4. Effect(cast[d], docs, d).party = - units BY <1>6, <2>1 DEF Effect
    <2>5. booked[d].party.net = 0
        BY <1>1, <1>6 DEF ReceiptsBooked, ReceiptBooked, Owed
    <2>6. booked'[d] = PostManagedDocument(booked[d], Effect(cast[d], docs, d))
        BY <1>1, <1>3, <1>4, <1>6
    <2>7. booked'[d].party = [net |-> 0 + (- units), latest |-> - units]
        BY <2>3, <2>4, <2>5, <2>6 DEF PostManagedDocument, Post
    <2>8. Owed(d)' = - units BY <1>2, <2>1 DEF Owed
    <2> QED BY <2>3, <2>7, <2>8 DEF ReceiptBooked
<1>7. ReceiptsBooked' BY <1>5, <1>6, OthersBooked
<1> QED BY <1>5, <1>7

LEMMA ReceiptsReversed ==
    ASSUME IInv, NEW d, NEW row, Becomes(d, row), NEW reviewer,
           Moved(docs[d], row, "REVIEWED", reviewer), docs[d].status = "APPROVED",
           ReversePosted(d)
    PROVE  /\ ReceiptsBooked'
           /\ DOMAIN booked' = DOMAIN booked
           /\ \A x \in DOMAIN cast : cast[x] \notin {"RECEIPT", "SIGNOFF"} => booked'[x] = booked[x]
<1>1. TypeOK /\ ReceiptsBooked /\ d \in DOMAIN docs
    BY DEF IInv, Becomes
<1>2. docs'[d] = row /\ row.status = "REVIEWED"
    BY <1>1, BecomesDomain DEF Moved
<1>3. DOMAIN booked = DOMAIN docs /\ DOMAIN docs = DOMAIN cast BY <1>1, FiniteDocs DEF TypeOK
<1>4. \/ cast[d] \notin {"RECEIPT", "SIGNOFF"} /\ booked' = booked
      \/ /\ cast[d] \in {"RECEIPT", "SIGNOFF"}
         /\ booked' = [booked EXCEPT ![d] = ReverseManagedDocument(booked[d])]
    BY DEF ReversePosted
<1>5. /\ DOMAIN booked' = DOMAIN booked
      /\ \A x \in DOMAIN docs : x # d => booked'[x] = booked[x]
      /\ \A x \in DOMAIN cast : cast[x] \notin {"RECEIPT", "SIGNOFF"} => booked'[x] = booked[x]
    BY <1>3, <1>4
<1>6. ASSUME cast[d] = "RECEIPT" PROVE ReceiptBooked(d)'
    <2>1. PICK t : t = booked[d].party OBVIOUS
    <2>2. t \in [net : Int, latest : Int] /\ t.net = t.latest
        BY <1>1, <1>6, <2>1 DEF ReceiptsBooked, ReceiptBooked
    <2>3. booked'[d] = ReverseManagedDocument(booked[d]) BY <1>1, <1>3, <1>4, <1>6
    <2>4. booked'[d].party = [t EXCEPT !.net = t.net - t.latest]
        BY <2>1, <2>3 DEF ReverseManagedDocument, ReverseLatest
    <2>5. booked'[d].party \in [net : Int, latest : Int] /\ booked'[d].party.net = 0
        BY <2>2, <2>4
    <2> QED BY <1>2, <2>5 DEF ReceiptBooked, Owed
<1>7. ReceiptsBooked' BY <1>5, <1>6, OthersBooked
<1> QED BY <1>5, <1>7

-----------------------------------------------------------------------------
(* What is accepted from a client.                                         *)

LEMMA OthersLive ==
    ASSUME NEW d, NEW stage
    PROVE  /\ Live(Others(d), stage) = Live(docs, stage) \ {d}
           /\ Final(Others(d), stage) = Final(docs, stage) \ {d}
           /\ \A x \in DOMAIN Others(d) : Others(d)[x] = docs[x] /\ x \in DOMAIN docs
BY DEF Others, Live, Final

LEMMA DatesOf ==
    ASSUME TypeOK
    PROVE  process.date \in Int /\ \A x \in DOMAIN docs : docs[x].date \in Int
BY TradeAssumption DEF TypeOK, Processes, Rows

\* What the service accepts follows what it hangs on, whether the document is
\* made now or has its old parent.
LEMMA AcceptedKept ==
    ASSUME IInv, NEW d, NEW row, Becomes(d, row), NEW input \in Inputs,
           Accepts(cast[d], Others(d), input),
           row.date = input.date, row.qty = input.qty,
           \/ docs[d].status # "NONE" /\ row.parent = docs[d].parent
           \/ row.parent = ParentOf(cast[d], Others(d), input)
    PROVE  (LinesKept(d) /\ Hangs(d))'
<1>1. TypeOK /\ OneProcurement /\ DocumentsKept /\ d \in DOMAIN docs BY DEF IInv, Becomes
<1>2. /\ docs'[d] = row /\ cast' = cast /\ DOMAIN docs' = DOMAIN docs
      /\ process'.date = process.date /\ process'.ordered = process.ordered
      /\ \A x \in DOMAIN docs : x # d => docs'[x] = docs[x]
    BY <1>1, BecomesDomain DEF Becomes
<1>3. cast[d] \in {"PROCUREMENT", "RECEIPT", "DELIVERY", "SIGNOFF"}
    BY <1>1, TradeAssumption DEF TypeOK
<1>4. docs[d].status # "NONE" => LinesKept(d) /\ Hangs(d) BY <1>1 DEF DocumentsKept
<1>5. ASSUME NEW stage, stage # cast[d], NEW p \in Final(docs, stage)
      PROVE  /\ p \in DOMAIN docs /\ p # d /\ docs'[p] = docs[p] /\ p \in Final(docs, stage)'
             /\ docs[p].date >= process.date
    <2>1. p \in DOMAIN docs /\ cast[p] = stage /\ docs[p].status = "APPROVED" BY DEF Final, Live
    <2>2. p # d /\ docs'[p] = docs[p] BY <1>2, <1>5, <2>1
    <2>3. Hangs(p) BY <1>1, <2>1 DEF DocumentsKept
    <2> QED BY <1>2, <2>1, <2>2, <2>3 DEF Hangs, Final, Live
<1>6. LinesKept(d)'
    <2>1. cast[d] # "SIGNOFF" => Positive(input.qty)
        BY <1>3 DEF Accepts, AcceptsProcurement, AcceptsReceipt, AcceptsDelivery
    <2>2. cast[d] = "PROCUREMENT" => \A l \in Lines : input.qty[l] <= process.ordered[l]
        BY DEF Accepts, AcceptsProcurement
    <2>3. cast[d] \in {"PROCUREMENT", "DELIVERY"} => row.parent = None
        BY <1>4 DEF LinesKept, ParentOf
    <2> QED BY <1>2, <2>1, <2>2, <2>3 DEF LinesKept
<1>7. CASE cast[d] \in {"PROCUREMENT", "DELIVERY"}
    <2>1. input.date >= process.date
        BY <1>7 DEF Accepts, AcceptsProcurement, AcceptsDelivery
    <2>2. Hangs(d)' BY <1>2, <1>7, <2>1 DEF Hangs
    <2> QED BY <1>6, <2>2
<1>8. CASE cast[d] = "RECEIPT"
    <2>1. PICK p \in DOMAIN Others(d) : AcceptsReceipt(Others(d), input, p)
        BY <1>8 DEF Accepts
    <2>2. p \in Final(Others(d), "PROCUREMENT") /\ input.date >= Others(d)[p].date
        BY <2>1 DEF AcceptsReceipt
    <2>3. p \in Final(docs, "PROCUREMENT") /\ input.date >= docs[p].date
        BY <2>1, <2>2, OthersLive
    <2>4. PICK q : q = row.parent OBVIOUS
    <2>5. q \in Final(docs, "PROCUREMENT")
        <3>1. CASE docs[d].status # "NONE" /\ row.parent = docs[d].parent
            BY <1>4, <1>8, <2>4, <3>1 DEF Hangs
        <3>2. CASE row.parent = ParentOf(cast[d], Others(d), input)
            <4>1. q \in Final(Others(d), "PROCUREMENT")
                BY <1>8, <2>1, <2>2, <2>4, <3>2 DEF ParentOf
            <4> QED BY <4>1, OthersLive
        <3> QED BY <3>1, <3>2
    <2>6. q = p BY <1>1, <2>3, <2>5 DEF OneProcurement, Final
    <2>7. docs'[q] = docs[q] /\ q \in Final(docs, "PROCUREMENT")' /\ docs[q].date >= process.date
          /\ q \in DOMAIN docs
        BY <1>5, <1>8, <2>5
    <2>8. row.date >= process.date
        <3>1. process.date \in Int /\ docs[q].date \in Int /\ row.date \in Int
            BY <1>1, <2>7, DatesOf, TradeAssumption DEF Inputs
        <3> QED BY <2>3, <2>6, <2>7, <3>1
    <2>9. Hangs(d)' BY <1>2, <1>8, <2>3, <2>4, <2>6, <2>7, <2>8 DEF Hangs
    <2> QED BY <1>6, <2>9
<1>9. CASE cast[d] = "SIGNOFF"
    <2>1. PICK s : s = input.source OBVIOUS
    <2>2. s \in Final(Others(d), "DELIVERY") /\ input.date >= Others(d)[s].date
        BY <1>9, <2>1 DEF Accepts, AcceptsSignoff
    <2>3. s \in Final(docs, "DELIVERY") /\ s \in DOMAIN Others(d)
        <3>1. s \in DOMAIN Others(d) BY <2>2 DEF Final, Live
        <3>2. s \in Final(docs, "DELIVERY") BY <2>2, OthersLive
        <3> QED BY <3>1, <3>2
    <2>4. input.date >= docs[s].date BY <2>2, <2>3, OthersLive
    <2>5. docs[s].date >= process.date /\ s \in DOMAIN docs BY <1>5, <1>9, <2>3
    <2>6. row.date >= process.date
        <3>1. process.date \in Int /\ docs[s].date \in Int /\ row.date \in Int
            BY <1>1, <2>5, DatesOf, TradeAssumption DEF Inputs
        <3> QED BY <2>4, <2>5, <3>1
    <2>7. PICK q : q = row.parent OBVIOUS
    <2>8. q \in Final(docs, "DELIVERY")
        <3>1. CASE docs[d].status # "NONE" /\ row.parent = docs[d].parent
            BY <1>4, <1>9, <2>7, <3>1 DEF Hangs
        <3>2. CASE row.parent = ParentOf(cast[d], Others(d), input)
            BY <1>9, <2>1, <2>3, <2>7, <3>2 DEF ParentOf
        <3> QED BY <3>1, <3>2
    <2>9. q \in Final(docs, "DELIVERY")' BY <1>5, <1>9, <2>8
    <2>10. Hangs(d)' BY <1>2, <1>9, <2>6, <2>7, <2>9 DEF Hangs
    <2> QED BY <1>6, <2>10
<1> QED BY <1>3, <1>7, <1>8, <1>9

\* A sign-off names an executed delivery, and no more than it delivered.
LEMMA AcceptedNames ==
    ASSUME IInv, NEW d, NEW row, Becomes(d, row), NEW input,
           Accepts(cast[d], Others(d), input),
           row.date = input.date, row.qty = input.qty,
           row.source = input.source, row.rejected = input.rejected
    PROVE  Names(d)'
<1>1. TypeOK BY DEF IInv
<1>2. /\ docs'[d] = row /\ cast' = cast /\ DOMAIN docs' = DOMAIN docs
      /\ \A x \in DOMAIN docs : x # d => docs'[x] = docs[x]
    BY <1>1, BecomesDomain DEF Becomes
<1>3. ASSUME cast[d] = "SIGNOFF" PROVE Names(d)'
    <2>1. PICK s : s = input.source OBVIOUS
    <2>2. /\ s \in Final(Others(d), "DELIVERY") /\ input.date >= Others(d)[s].date
          /\ \A l \in Lines : input.qty[l] + input.rejected[l] <= Others(d)[s].qty[l]
        BY <1>3, <2>1 DEF Accepts, AcceptsSignoff
    <2>3. s \in DOMAIN Others(d) /\ s \in Final(docs, "DELIVERY") /\ s # d
        <3>1. s \in DOMAIN Others(d) BY <2>2 DEF Final, Live
        <3>2. s \in Final(docs, "DELIVERY") \ {d} BY <2>2, OthersLive
        <3> QED BY <3>1, <3>2
    <2>4. Others(d)[s] = docs[s] /\ s \in DOMAIN docs /\ docs'[s] = docs[s]
        BY <1>2, <2>3, OthersLive
    <2>5. s \in Live(docs, "DELIVERY")' BY <1>2, <2>3, <2>4 DEF Final, Live
    <2> QED BY <1>2, <2>1, <2>2, <2>4, <2>5 DEF Names
<1>4. ASSUME cast[d] # "SIGNOFF" PROVE Names(d)' BY <1>2, <1>4 DEF Names
<1> QED BY <1>3, <1>4

LEMMA OneProcurementAccepted ==
    ASSUME IInv, NEW d, NEW row, Becomes(d, row), NEW input \in Inputs,
           Accepts(cast[d], Others(d), input)
    PROVE  OneProcurement'
<1>1. TypeOK BY DEF IInv
<1>2. CASE cast[d] # "PROCUREMENT" BY <1>2, OneProcurementBy
<1>3. CASE cast[d] = "PROCUREMENT"
    <2>1. Live(Others(d), "PROCUREMENT") = {} BY <1>3 DEF Accepts, AcceptsProcurement
    <2>2. Live(docs, "PROCUREMENT") \subseteq {d} BY <2>1, OthersLive
    <2>3. DOMAIN docs' = DOMAIN docs /\ cast' = cast /\ \A x \in DOMAIN docs : x # d => docs'[x] = docs[x]
        BY <1>1, BecomesDomain DEF Becomes
    <2>4. Live(docs, "PROCUREMENT")' \subseteq {d} BY <2>2, <2>3 DEF Live
    <2> QED BY <2>4 DEF OneProcurement
<1> QED BY <1>2, <1>3

-----------------------------------------------------------------------------
(* Every action keeps the inductive invariant.                             *)

\* The rest of it once documents, quantities and books are known to be kept.
LEMMA StageKept ==
    ASSUME IInv, NEW d, NEW row, Becomes(d, row), TypeOK', DocumentsKept', SourcesKept', OneProcurement',
           QuantitiesWithinOrder', ReceiptsBooked'
    PROVE  IInv'
<1>1. TypeOK BY DEF IInv
<1>2. OrderKept' BY OrderKeptBy
<1>3. (StatusTellsTruth /\ NotYetDelivered)' BY <1>1, StatusBy
<1> QED BY <1>2, <1>3 DEF IInv

LEMMA CreateStageKeeps ==
    ASSUME IInv, NEW d \in DOMAIN docs, NEW input \in Inputs, CreateStage(d, input)
    PROVE  IInv'
<1>1. TypeOK BY DEF IInv
<1>2. PICK row : /\ Becomes(d, row)
                 /\ row.status = "DRAFT" /\ row.reviewedBy = None
                 /\ row.parent = ParentOf(cast[d], Others(d), input)
                 /\ row.date = input.date /\ row.qty = input.qty
                 /\ row.source = input.source /\ row.rejected = input.rejected
    BY <1>1, Creates
<1>3. docs[d].status = "NONE" /\ Accepts(cast[d], Others(d), input) /\ booked' = booked
    BY DEF CreateStage
<1>4. TypeOK' BY <1>1, <1>2, <1>3, BecomesTyped
<1>5. (LinesKept(d) /\ Hangs(d))' BY <1>2, <1>3, AcceptedKept
<1>6. DocumentsKept' BY <1>2, <1>3, <1>5, DocumentsKeptBy
<1>7. OneProcurement' BY <1>2, <1>3, OneProcurementAccepted
<1>8. QuantitiesWithinOrder' BY <1>2, <1>3, QuantitiesKept
<1>9. ReceiptsBooked' BY <1>2, <1>3, ReceiptsKept
<1>10. Names(d)' BY <1>2, <1>3, AcceptedNames
<1>11. SourcesKept' BY <1>2, <1>3, <1>10, SourcesKeptBy
<1> QED BY <1>2, <1>4, <1>6, <1>7, <1>8, <1>9, <1>11, StageKept

LEMMA SaveStageKeeps ==
    ASSUME IInv, NEW d \in DOMAIN docs, NEW input \in Inputs, SaveStage(d, input)
    PROVE  IInv'
<1>1. TypeOK BY DEF IInv
<1>2. PICK row : Becomes(d, row) /\ Rewritten(docs[d], row, input) BY <1>1, Saves
<1>3. /\ docs[d].status = "DRAFT" /\ Accepts(cast[d], Others(d), input) /\ booked' = booked
      /\ row.status = "DRAFT" /\ row.reviewedBy = docs[d].reviewedBy /\ row.parent = docs[d].parent
      /\ row.date = input.date /\ row.qty = input.qty
      /\ row.source = input.source /\ row.rejected = input.rejected /\ ~LinesInUse(docs, d)
    BY <1>2 DEF SaveStage, Rewritten
<1>4. TypeOK'
    <2>1. docs[d].reviewedBy = None BY <1>1, <1>3 DEF TypeOK
    <2> QED BY <1>1, <1>2, <1>3, <2>1, BecomesTyped
<1>5. (LinesKept(d) /\ Hangs(d))' BY <1>2, <1>3, AcceptedKept
<1>6. DocumentsKept' BY <1>2, <1>3, <1>5, DocumentsKeptBy
<1>7. OneProcurement' BY <1>2, <1>3, OneProcurementBy
<1>8. QuantitiesWithinOrder' BY <1>2, <1>3, QuantitiesKept
<1>9. ReceiptsBooked' BY <1>2, <1>3, ReceiptsKept
<1>10. Names(d)' BY <1>2, <1>3, AcceptedNames
<1>11. SourcesKept' BY <1>2, <1>3, <1>10, SourcesKeptBy
<1> QED BY <1>2, <1>4, <1>6, <1>7, <1>8, <1>9, <1>11, StageKept

LEMMA DeleteStageKeeps ==
    ASSUME IInv, NEW d \in DOMAIN docs, DeleteStage(d)
    PROVE  IInv'
<1>1. TypeOK BY DEF IInv
<1>2. PICK row : row = NoRow OBVIOUS
<1>3. Becomes(d, row) BY <1>1, <1>2, Deletes
<1>4. /\ docs[d].status = "DRAFT" /\ booked' = booked
      /\ row.status = "NONE" /\ row.reviewedBy = None /\ ~LinesInUse(docs, d)
    BY <1>2 DEF DeleteStage, NoRow
<1>5. TypeOK' BY <1>1, <1>2, <1>3, <1>4, BecomesTyped
<1>6. DocumentsKept' BY <1>3, <1>4, DocumentsKeptBy
<1>7. OneProcurement' BY <1>3, <1>4, OneProcurementBy
<1>8. QuantitiesWithinOrder' BY <1>3, <1>4, QuantitiesKept
<1>9. ReceiptsBooked' BY <1>3, <1>4, ReceiptsKept
<1>10. SourcesKept' BY <1>3, <1>4, SourcesKeptBy
<1> QED BY <1>3, <1>5, <1>6, <1>7, <1>8, <1>9, <1>10, StageKept

\* Checking and its return: the document moves, and is final neither before nor after.
LEMMA MoveKeeps ==
    ASSUME IInv, NEW d, NEW row, Becomes(d, row), NEW status, NEW reviewer,
           Moved(docs[d], row, status, reviewer),
           docs[d].status \in {"DRAFT", "REVIEWED"},
           \/ status = "DRAFT" /\ reviewer = None
           \/ status = "REVIEWED" /\ reviewer # None,
           booked' = booked
    PROVE  IInv'
<1>1. TypeOK BY DEF IInv
<1>2. row.status = status /\ row.reviewedBy = reviewer BY DEF Moved
<1>3. TypeOK' BY <1>1, <1>2, BecomesTyped
<1>4. (LinesKept(d) /\ Hangs(d))' BY MovedKept
<1>5. DocumentsKept' BY <1>4, DocumentsKeptBy
<1>6. OneProcurement' BY OneProcurementBy
<1>7. QuantitiesWithinOrder' BY <1>2, QuantitiesKept
<1>8. ReceiptsBooked' BY <1>2, ReceiptsKept
<1>9. SourcesKept' BY SourcesMoved
<1> QED BY <1>3, <1>5, <1>6, <1>7, <1>8, <1>9, StageKept

LEMMA CheckDocumentKeeps ==
    ASSUME IInv, NEW d \in DOMAIN docs, NEW actor \in Actors, CheckDocument(d, actor)
    PROVE  IInv'
<1>1. TypeOK BY DEF IInv
<1>2. PICK row : Becomes(d, row) /\ Moved(docs[d], row, "REVIEWED", actor) BY <1>1, Checks
<1>3. docs[d].status = "DRAFT" /\ booked' = booked BY DEF CheckDocument
<1>4. actor # None BY TradeAssumption
<1> QED BY <1>2, <1>3, <1>4, MoveKeeps

LEMMA UncheckDocumentKeeps ==
    ASSUME IInv, NEW d \in DOMAIN docs, UncheckDocument(d)
    PROVE  IInv'
<1>1. TypeOK BY DEF IInv
<1>2. PICK row : Becomes(d, row) /\ Moved(docs[d], row, "DRAFT", None) BY <1>1, Unchecks
<1>3. docs[d].status = "REVIEWED" /\ booked' = booked BY DEF UncheckDocument
<1> QED BY <1>2, <1>3, MoveKeeps

LEMMA FinalizeKeeps ==
    ASSUME IInv, NEW d \in DOMAIN docs, NEW actor \in Actors, Finalize(d, actor)
    PROVE  IInv'
<1>1. TypeOK BY DEF IInv
<1>2. PICK reviewer : reviewer = docs[d].reviewedBy OBVIOUS
<1>3. PICK row : Becomes(d, row) /\ Moved(docs[d], row, "APPROVED", reviewer)
    BY <1>1, <1>2, Finalizes
<1>4. PICK effective : effective = docs[d].date OBVIOUS
<1>5. docs[d].status = "REVIEWED" /\ Fits(d) /\ Posted(d, effective)
    BY <1>4 DEF Finalize
<1>6. reviewer # None BY <1>1, <1>2, <1>5 DEF TypeOK
<1>7. row.status = "APPROVED" /\ row.reviewedBy = reviewer BY <1>3 DEF Moved
<1>8. /\ ReceiptsBooked' /\ DOMAIN booked' = DOMAIN booked
      /\ \A x \in DOMAIN cast : cast[x] \notin {"RECEIPT", "SIGNOFF"} => booked'[x] = booked[x]
    BY <1>3, <1>5, ReceiptsFinalized
<1>9. TypeOK' BY <1>1, <1>3, <1>6, <1>7, <1>8, BecomesTyped
<1>10. (LinesKept(d) /\ Hangs(d))' BY <1>3, <1>5, MovedKept
<1>11. DocumentsKept' BY <1>3, <1>5, <1>10, DocumentsKeptBy
<1>12. OneProcurement' BY <1>3, <1>5, OneProcurementBy
<1>13. QuantitiesWithinOrder' BY <1>3, <1>5, QuantitiesFinalized
<1>14. SourcesKept' BY <1>3, <1>5, SourcesMoved
<1> QED BY <1>3, <1>8, <1>9, <1>11, <1>12, <1>13, <1>14, StageKept

LEMMA ReverseKeeps ==
    ASSUME IInv, NEW d \in DOMAIN docs, Reverse(d)
    PROVE  IInv'
<1>1. TypeOK BY DEF IInv
<1>2. PICK reviewer : reviewer = docs[d].reviewedBy OBVIOUS
<1>3. PICK row : Becomes(d, row) /\ Moved(docs[d], row, "REVIEWED", reviewer)
    BY <1>1, <1>2, Reverses
<1>4. docs[d].status = "APPROVED" /\ MayReverse(d) /\ ReversePosted(d)
    BY DEF Reverse
<1>5. reviewer # None BY <1>1, <1>2, <1>4 DEF TypeOK
<1>6. row.status = "REVIEWED" /\ row.reviewedBy = reviewer BY <1>3 DEF Moved
<1>7. /\ ReceiptsBooked' /\ DOMAIN booked' = DOMAIN booked
      /\ \A x \in DOMAIN cast : cast[x] \notin {"RECEIPT", "SIGNOFF"} => booked'[x] = booked[x]
    BY <1>3, <1>4, ReceiptsReversed
<1>8. TypeOK' BY <1>1, <1>3, <1>5, <1>6, <1>7, BecomesTyped
<1>9. (LinesKept(d) /\ Hangs(d))' BY <1>3, <1>4, MovedKept
<1>10. cast[d] \in {"PROCUREMENT", "DELIVERY"} => Children(docs, d) = {}
    BY <1>4 DEF MayReverse
<1>11. DocumentsKept' BY <1>3, <1>9, <1>10, DocumentsKeptBy
<1>12. OneProcurement' BY <1>3, <1>4, OneProcurementBy
<1>13. QuantitiesWithinOrder' BY <1>3, <1>4, QuantitiesReversed
<1>14. SourcesKept' BY <1>3, <1>4, SourcesMoved
<1> QED BY <1>3, <1>7, <1>8, <1>11, <1>12, <1>13, <1>14, StageKept

-----------------------------------------------------------------------------
(* The customer order and the process.                                     *)

LEMMA NotDeliveredMeans == NotYetDelivered <=>
    (process.status \in {"SHORT_CLOSE_REQUESTED", "SHORT_CLOSED"} => ~Delivered)
BY DEF NotYetDelivered, Delivered

LEMMA NotDeliveredMeansNext == (NotYetDelivered <=>
    (process.status \in {"SHORT_CLOSE_REQUESTED", "SHORT_CLOSED"} => ~Delivered))'
BY NotDeliveredMeans, PTL

\* Where nothing has been made yet, nothing is delivered: an order has lines,
\* and each asks for something.
LEMMA NothingDelivered ==
    ASSUME TypeOK, NothingYet
    PROVE  /\ \A stage : Final(docs, stage) = {}
           /\ process.ordered \in Orders => ~Delivered
<1>1. \A stage : Final(docs, stage) = {} BY DEF NothingYet, Final, Live
<1>2. ASSUME process.ordered \in Orders PROVE ~Delivered
    <2>1. PICK l \in Lines : TRUE BY TradeAssumption
    <2>2. Total(docs, "SIGNOFF", l) = 0 BY <1>1, NoTotal
    <2>3. process.ordered[l] \in 1..MaxQty BY <1>2 DEF Orders
    <2> QED BY <2>2, <2>3, TradeAssumption DEF Delivered
<1> QED BY <1>1, <1>2

\* What follows from the documents staying as they are.
LEMMA DocumentsStand ==
    ASSUME UNCHANGED <<docs, cast>>
    PROVE  /\ \A stage : Final(docs, stage)' = Final(docs, stage)
           /\ \A stage, l : Total(docs, stage, l)' = Total(docs, stage, l)
           /\ Live(docs, "PROCUREMENT")' = Live(docs, "PROCUREMENT")
           /\ Quiet' <=> Quiet
           /\ NothingYet' <=> NothingYet
<1>1. \A stage : Final(docs, stage)' = Final(docs, stage) BY DEF Final, Live
<1>2. \A stage, l : Total(docs, stage, l)' = Total(docs, stage, l) BY <1>1 DEF Total
<1>3. Live(docs, "PROCUREMENT")' = Live(docs, "PROCUREMENT") BY DEF Live
<1>4. Quiet' <=> Quiet BY <1>1 DEF Quiet
<1>5. NothingYet' <=> NothingYet BY DEF NothingYet
<1> QED BY <1>1, <1>2, <1>3, <1>4, <1>5

\* A step of the process alone, order and date standing.
LEMMA ProcessStepKeeps ==
    ASSUME IInv, RestUnchanged, process' \in Processes,
           process'.date = process.date, process'.ordered = process.ordered,
           process.status # "NONE",
           process'.status = "APPROVED" => ~(Quiet /\ Delivered),
           process'.status # "COMPLETED",
           process'.status \in {"SHORT_CLOSE_REQUESTED", "SHORT_CLOSED"} => Quiet /\ ~Delivered,
           process'.status \in {"NONE", "DRAFT", "CHECKED"} => NothingYet
    PROVE  IInv'
<1>1. /\ UNCHANGED <<docs, cast>> /\ docs' = docs /\ cast' = cast
      /\ booked' = booked /\ ledger' = ledger
    BY DEF RestUnchanged
<1>2. TypeOK' BY <1>1 DEF IInv, TypeOK
<1>3. OrderKept' BY DEF IInv, OrderKept
<1>4. DocumentsKept'
    <2>1. \A stage : Final(docs, stage)' = Final(docs, stage) BY <1>1, DocumentsStand
    <2>2. ASSUME NEW d \in DOMAIN docs, docs[d].status # "NONE" PROVE (LinesKept(d) /\ Hangs(d))'
        <3>1. LinesKept(d) /\ Hangs(d) BY <2>2 DEF IInv, DocumentsKept
        <3>2. LinesKept(d)' BY <1>1, <3>1 DEF LinesKept
        <3>3. Hangs(d)' BY <1>1, <2>1, <3>1 DEF Hangs
        <3> QED BY <3>2, <3>3
    <2> QED BY <1>1, <2>2 DEF DocumentsKept
<1>12. SourcesKept' BY <1>1 DEF IInv, SourcesKept, Names, Live
<1>5. OneProcurement' BY <1>1, DocumentsStand DEF IInv, OneProcurement
<1>6. \A stage, l : Total(docs, stage, l)' = Total(docs, stage, l) BY <1>1, DocumentsStand
<1>7. Delivered' <=> Delivered BY <1>6 DEF Delivered
<1>8. StatusTellsTruth' BY <1>1, <1>7, DocumentsStand, StatusMeansNext
<1>9. NotYetDelivered' BY <1>7, NotDeliveredMeansNext
<1>10. QuantitiesWithinOrder' BY <1>6 DEF IInv, QuantitiesWithinOrder
<1>11. ReceiptsBooked' BY <1>1 DEF IInv, ReceiptsBooked, ReceiptBooked, Owed
<1> QED BY <1>2, <1>3, <1>4, <1>12, <1>5, <1>8, <1>9, <1>10, <1>11 DEF IInv

\* A step that rewrites the order, before there is any document.
LEMMA OrderStepKeeps ==
    ASSUME IInv, RestUnchanged, process' \in Processes, NothingYet,
           process'.ordered \in Orders, process'.status \in {"DRAFT"}
    PROVE  IInv'
<1>1. /\ UNCHANGED <<docs, cast>> /\ docs' = docs /\ cast' = cast
      /\ booked' = booked /\ ledger' = ledger
    BY DEF RestUnchanged
<1>2. TypeOK /\ TypeOK' BY <1>1 DEF IInv, TypeOK
<1>3. OrderKept' BY DEF OrderKept
<1>4. DocumentsKept' /\ SourcesKept' BY <1>1 DEF NothingYet, DocumentsKept, SourcesKept
<1>5. OneProcurement' BY <1>1, DocumentsStand DEF IInv, OneProcurement
<1>6. StatusTellsTruth' BY <1>1, DocumentsStand, StatusMeansNext
<1>7. NotYetDelivered' BY DEF NotYetDelivered
<1>8. QuantitiesWithinOrder'
    <2>1. SUFFICES ASSUME NEW l \in Lines
          PROVE  /\ Total(docs, "RECEIPT", l)' <= Total(docs, "PROCUREMENT", l)'
                 /\ Total(docs, "PROCUREMENT", l)' <= process'.ordered[l]
                 /\ Total(docs, "SIGNOFF", l)' <= process'.ordered[l]
        BY DEF QuantitiesWithinOrder
    <2>2. \A stage : Total(docs, stage, l)' = 0
        <3>1. \A stage : Total(docs, stage, l)' = Total(docs, stage, l) BY <1>1, DocumentsStand
        <3>2. \A stage : Final(docs, stage) = {} BY <1>2, NothingDelivered
        <3>3. \A stage : Total(docs, stage, l) = 0 BY <1>2, <3>2, NoTotal
        <3> QED BY <3>1, <3>3
    <2>3. process'.ordered[l] \in 1..MaxQty BY DEF Orders
    <2> QED BY <2>2, <2>3, TradeAssumption
<1>9. ReceiptsBooked' BY <1>1 DEF IInv, ReceiptsBooked, ReceiptBooked, Owed
<1> QED BY <1>2, <1>3, <1>4, <1>5, <1>6, <1>7, <1>8, <1>9 DEF IInv

LEMMA RootKeeps ==
    ASSUME IInv, RootAction
    PROVE  IInv'
<1>0. /\ TypeOK /\ process \in Processes /\ OrderKept
      /\ process.status = "COMPLETED" => Quiet /\ Delivered
      /\ process.status = "APPROVED" => ~(Quiet /\ Delivered)
      /\ process.status \in {"SHORT_CLOSE_REQUESTED", "SHORT_CLOSED"} => Quiet
      /\ process.status \in {"NONE", "DRAFT", "CHECKED"} => NothingYet
      /\ process.status \in {"SHORT_CLOSE_REQUESTED", "SHORT_CLOSED"} => ~Delivered
    BY StatusMeans, NotDeliveredMeans DEF IInv, TypeOK
<1>1. \A o \in Orders : o \in Quantities BY DEF Orders, Quantities
<1>2. ASSUME NEW date \in Dates, NEW ordered \in Orders, Create(date, ordered) \/ Save(date, ordered)
      PROVE  IInv'
    <2>1. ordered \in Quantities BY <1>1
    <2>2. process' \in Processes /\ process'.ordered = ordered /\ process'.status = "DRAFT"
        BY <1>0, <1>2, <2>1 DEF Create, Save, Processes, DocStatuses
    <2>3. process.status \in {"NONE", "DRAFT"} /\ RestUnchanged BY <1>2 DEF Create, Save
    <2> QED BY <1>0, <2>2, <2>3, OrderStepKeeps
<1>3. ASSUME NEW actor \in Actors, Check(actor) PROVE IInv'
    <2>1. /\ process' \in Processes /\ process'.ordered = process.ordered
          /\ process'.date = process.date /\ process'.status = "CHECKED"
        BY <1>0, <1>3 DEF Check, Processes, DocStatuses
    <2>2. process.status = "DRAFT" /\ RestUnchanged BY <1>3 DEF Check
    <2> QED BY <1>0, <2>1, <2>2, ProcessStepKeeps
<1>4. ASSUME NEW actor \in Actors, Approve(actor) PROVE IInv'
    <2>1. /\ process' \in Processes /\ process'.ordered = process.ordered
          /\ process'.date = process.date /\ process'.status = "APPROVED"
        BY <1>0, <1>4 DEF Approve, Processes, DocStatuses
    <2>2. process.status = "CHECKED" /\ RestUnchanged BY <1>4 DEF Approve
    <2>3. ~Delivered BY <1>0, <2>2, NothingDelivered DEF OrderKept
    <2> QED BY <1>0, <2>1, <2>2, <2>3, ProcessStepKeeps
<1>5. ASSUME NEW actor \in Actors, RequestShortClose(actor) PROVE IInv'
    <2>1. /\ process' \in Processes /\ process'.ordered = process.ordered
          /\ process'.date = process.date /\ process'.status = "SHORT_CLOSE_REQUESTED"
        BY <1>0, <1>5 DEF RequestShortClose, Processes, DocStatuses
    <2>2. process.status = "APPROVED" /\ RestUnchanged /\ NothingUnderWay(docs)
        BY <1>5 DEF RequestShortClose
    <2>3. Quiet BY <2>2, NothingUnderWayIsQuiet DEF IInv
    <2> QED BY <1>0, <2>1, <2>2, <2>3, ProcessStepKeeps
<1>6. ASSUME NEW actor \in Actors, ConfirmShortClose(actor) PROVE IInv'
    <2>1. /\ process' \in Processes /\ process'.ordered = process.ordered
          /\ process'.date = process.date /\ process'.status = "SHORT_CLOSED"
        BY <1>0, <1>6 DEF ConfirmShortClose, Processes, DocStatuses
    <2>2. process.status = "SHORT_CLOSE_REQUESTED" /\ RestUnchanged BY <1>6 DEF ConfirmShortClose
    <2> QED BY <1>0, <2>1, <2>2, ProcessStepKeeps
<1>7. CASE Uncheck
    <2>1. /\ process' \in Processes /\ process'.ordered = process.ordered
          /\ process'.date = process.date /\ process'.status = "DRAFT"
        BY <1>0, <1>7 DEF Uncheck, Processes, DocStatuses
    <2>2. process.status = "CHECKED" /\ RestUnchanged BY <1>7 DEF Uncheck
    <2> QED BY <1>0, <2>1, <2>2, ProcessStepKeeps
<1>8. CASE Unapprove
    <2>1. /\ process' \in Processes /\ process'.ordered = process.ordered
          /\ process'.date = process.date /\ process'.status = "CHECKED"
        BY <1>0, <1>8 DEF Unapprove, Processes, DocStatuses
    <2>2. process.status = "APPROVED" /\ RestUnchanged /\ NothingYet
        BY <1>8 DEF Unapprove, NothingYet
    <2> QED BY <1>0, <2>1, <2>2, ProcessStepKeeps
<1>9. CASE CancelShortClose
    <2>1. /\ process' \in Processes /\ process'.ordered = process.ordered
          /\ process'.date = process.date /\ process'.status = "APPROVED"
        BY <1>0, <1>9 DEF CancelShortClose, Processes, DocStatuses
    <2>2. process.status = "SHORT_CLOSE_REQUESTED" /\ RestUnchanged BY <1>9 DEF CancelShortClose
    <2> QED BY <1>0, <2>1, <2>2, ProcessStepKeeps
<1>10. CASE UnconfirmShortClose
    <2>1. /\ process' \in Processes /\ process'.ordered = process.ordered
          /\ process'.date = process.date /\ process'.status = "SHORT_CLOSE_REQUESTED"
        BY <1>0, <1>10 DEF UnconfirmShortClose, Processes, DocStatuses
    <2>2. process.status = "SHORT_CLOSED" /\ RestUnchanged BY <1>10 DEF UnconfirmShortClose
    <2> QED BY <1>0, <2>1, <2>2, ProcessStepKeeps
<1> QED BY <1>2, <1>3, <1>4, <1>5, <1>6, <1>7, <1>8, <1>9, <1>10 DEF RootAction

-----------------------------------------------------------------------------
(* The ledger behind it, and the theorems.                                 *)

\* What does not touch process and documents keeps all but the books.
LEMMA LedgerStepKeeps ==
    ASSUME IInv, UNCHANGED <<process, docs, cast>>, TypeOK', ReceiptsBooked'
    PROVE  IInv'
<1>1. process' = process /\ docs' = docs /\ cast' = cast OBVIOUS
<1>2. OrderKept' BY DEF IInv, OrderKept
<1>3. DocumentsKept' BY <1>1 DEF IInv, DocumentsKept, LinesKept, Hangs, Final, Live
<1>10. SourcesKept' BY <1>1 DEF IInv, SourcesKept, Names, Live
<1>4. OneProcurement' BY <1>1, DocumentsStand DEF IInv, OneProcurement
<1>5. \A stage, l : Total(docs, stage, l)' = Total(docs, stage, l) BY <1>1, DocumentsStand
<1>6. Delivered' <=> Delivered BY <1>5 DEF Delivered
<1>7. StatusTellsTruth' BY <1>1, <1>6, DocumentsStand, StatusMeans, StatusMeansNext DEF IInv
<1>8. NotYetDelivered' BY <1>1, <1>6, NotDeliveredMeans, NotDeliveredMeansNext DEF IInv
<1>9. QuantitiesWithinOrder' BY <1>1, <1>5 DEF IInv, QuantitiesWithinOrder
<1> QED BY <1>2, <1>3, <1>10, <1>4, <1>7, <1>8, <1>9 DEF IInv

LEMMA LedgerKeeps ==
    ASSUME IInv, Reopen \/ CancelReopen \/ \E cutover \in Cutovers : Activate(cutover)
    PROVE  IInv'
<1>1. TypeOK /\ ReceiptsBooked BY DEF IInv
<1>2. CASE Reopen \/ CancelReopen
    <2>1. UNCHANGED <<process, docs, cast, booked>>
          /\ ledger' \in [status : {"ACTIVE", "REOPENING"}, cutover : Cutovers]
        BY <1>1, <1>2 DEF Reopen, CancelReopen, TypeOK
    <2>2. TypeOK' BY <1>1, <2>1 DEF TypeOK
    <2>3. ReceiptsBooked' BY <1>1, <2>1 DEF ReceiptsBooked, ReceiptBooked, Owed
    <2> QED BY <2>1, <2>2, <2>3, LedgerStepKeeps
<1>3. ASSUME NEW cutover \in Cutovers, Activate(cutover) PROVE IInv'
    <2>1. UNCHANGED <<process, docs, cast>> /\ booked' = [d \in DOMAIN cast |-> NoBooking]
          /\ ledger' \in [status : {"ACTIVE", "REOPENING"}, cutover : Cutovers]
        BY <1>3 DEF Activate
    <2>2. TypeOK' BY <1>1, <2>1 DEF TypeOK
    <2>3. ReceiptsBooked'
        <3>1. SUFFICES ASSUME NEW d \in DOMAIN docs, cast[d] = "RECEIPT" PROVE ReceiptBooked(d)'
            BY <2>1 DEF ReceiptsBooked
        <3>2. docs[d].status # "APPROVED" BY <1>3, <3>1 DEF Activate, Final, Live
        <3>3. booked'[d].party = [net |-> 0, latest |-> 0]
            BY <1>1, <2>1 DEF TypeOK, NoBooking, NoEntries
        <3> QED BY <2>1, <3>2, <3>3 DEF ReceiptBooked, Owed
    <2> QED BY <2>1, <2>2, <2>3, LedgerStepKeeps
<1> QED BY <1>2, <1>3

LEMMA InitHolds ==
    ASSUME Init
    PROVE  IInv
<1>1. Nothing \in Quantities BY TradeAssumption DEF Nothing, Quantities
<1>2. process \in Processes BY <1>1 DEF Init, Processes, DocStatuses
<1>3. TypeOK
    BY <1>2, NoRowIsRow DEF Init, TypeOK, NoRow
<1>4. NothingYet /\ process.status = "NONE" BY DEF Init, NothingYet, NoRow
<1>5. OrderKept /\ DocumentsKept /\ SourcesKept /\ NotYetDelivered
    BY <1>4 DEF OrderKept, DocumentsKept, SourcesKept, NotYetDelivered, NothingYet
<1>6. OneProcurement BY <1>4 DEF OneProcurement, NothingYet, Live
<1>7. StatusTellsTruth BY <1>4, StatusMeans
<1>8. QuantitiesWithinOrder
    <2>1. SUFFICES ASSUME NEW l \in Lines
          PROVE  /\ Total(docs, "RECEIPT", l) <= Total(docs, "PROCUREMENT", l)
                 /\ Total(docs, "PROCUREMENT", l) <= process.ordered[l]
                 /\ Total(docs, "SIGNOFF", l) <= process.ordered[l]
        BY DEF QuantitiesWithinOrder
    <2>2. \A stage : Final(docs, stage) = {} BY <1>3, <1>4, NothingDelivered
    <2>3. \A stage : Total(docs, stage, l) = 0 BY <1>3, <2>2, NoTotal
    <2>4. process.ordered[l] = 0 BY DEF Init, Nothing
    <2> QED BY <2>3, <2>4
<1>9. ReceiptsBooked
    BY <1>4 DEF Init, ReceiptsBooked, ReceiptBooked, Owed, NothingYet, NoBooking, NoEntries
<1> QED BY <1>3, <1>5, <1>6, <1>7, <1>8, <1>9 DEF IInv

LEMMA NextKeeps == IInv /\ [Next]_vars => IInv'
<1> SUFFICES ASSUME IInv, [Next]_vars PROVE IInv'
    OBVIOUS
<1>1. CASE RootAction BY <1>1, RootKeeps
<1>2. ASSUME NEW d \in DOMAIN docs, DocumentAction(d) PROVE IInv'
    <2>1. ASSUME NEW input \in Inputs, CreateStage(d, input) PROVE IInv'
        BY <2>1, CreateStageKeeps
    <2>2. ASSUME NEW input \in Inputs, SaveStage(d, input) PROVE IInv'
        BY <2>2, SaveStageKeeps
    <2>3. CASE DeleteStage(d) BY <2>3, DeleteStageKeeps
    <2>4. ASSUME NEW actor \in Actors, CheckDocument(d, actor) PROVE IInv'
        BY <2>4, CheckDocumentKeeps
    <2>5. ASSUME NEW actor \in Actors, Finalize(d, actor) PROVE IInv'
        BY <2>5, FinalizeKeeps
    <2>6. CASE UncheckDocument(d) BY <2>6, UncheckDocumentKeeps
    <2>7. CASE Reverse(d) BY <2>7, ReverseKeeps
    <2> QED BY <1>2, <2>1, <2>2, <2>3, <2>4, <2>5, <2>6, <2>7 DEF DocumentAction
<1>3. CASE Reopen \/ CancelReopen \/ \E cutover \in Cutovers : Activate(cutover)
    BY <1>3, LedgerKeeps
<1>4. CASE UNCHANGED vars
    <2>1. UNCHANGED <<process, docs, cast>> /\ booked' = booked /\ ledger' = ledger
        BY <1>4 DEF vars
    <2>2. TypeOK' BY <2>1 DEF IInv, TypeOK
    <2>3. ReceiptsBooked' BY <2>1 DEF IInv, ReceiptsBooked, ReceiptBooked, Owed
    <2> QED BY <2>1, <2>2, <2>3, LedgerStepKeeps
<1> QED BY <1>1, <1>2, <1>3, <1>4 DEF Next

LEMMA Inductive == Spec => []IInv
<1>1. Init => IInv BY InitHolds
<1> QED BY <1>1, NextKeeps, PTL DEF Spec

\* Rows, process and books keep their shape (wfl_process_instances,
\* vou_documents, led_party_entries), whatever the order of the requests.
THEOREM TypesKept == Spec => []TypeOK
<1>1. IInv => TypeOK BY DEF IInv
<1> QED BY <1>1, Inductive, PTL

\* Through any sequence of placing, receiving, delivering, signing, reversing
\* and saving anew, no more is received than was ordered from the supplier, no
\* more is ordered from the supplier than the customer ordered, and no more is
\* signed for (validateFinal, validateReverse).
THEOREM QuantitiesStayWithinOrder == Spec => []QuantitiesWithinOrder
<1>1. IInv => QuantitiesWithinOrder BY DEF IInv
<1> QED BY <1>1, Inductive, PTL

\* The status of a process is the truth about its documents (maybeComplete,
\* validateShortClose).
THEOREM StatusAlwaysTellsTruth == Spec => []StatusTellsTruth
<1>1. IInv => StatusTellsTruth BY DEF IInv
<1> QED BY <1>1, Inductive, PTL

\* A receipt has its procurement placed and is not dated before it; a sign-off
\* has the delivery it was made for executed, and is neither dated before the
\* delivery whose lines it names nor for more than that delivered, whatever is
\* saved anew, reversed or deleted (saveStage, insertSignoff, validateReverse, the
\* restricting foreign keys).
THEOREM StagesAlwaysHangTogether == Spec => []StagesHangTogether
<1>1. IInv => StagesHangTogether
    <2> SUFFICES ASSUME IInv, NEW d \in DOMAIN docs, docs[d].status # "NONE"
                 PROVE  /\ docs[d].date >= process.date
                        /\ cast[d] = "RECEIPT" =>
                             /\ docs[d].parent \in Final(docs, "PROCUREMENT")
                             /\ docs[d].date >= docs[docs[d].parent].date
                        /\ cast[d] = "SIGNOFF" => docs[d].parent \in Final(docs, "DELIVERY")
                        /\ Names(d)
        BY DEF StagesHangTogether, Names
    <2>1. Hangs(d) /\ Names(d) BY DEF IInv, DocumentsKept, SourcesKept
    <2> QED BY <2>1 DEF Hangs
<1> QED BY <1>1, Inductive, PTL

\* The supplier is owed for exactly the goods of the confirmed receipts,
\* reversed, confirmed again, reopened and rebuilt (PostManagedDocument,
\* ReverseManagedDocument).
THEOREM PayablesAlwaysFollowReceipts == Spec => []PayablesFollowReceipts
<1>1. IInv => PayablesFollowReceipts
    <2> SUFFICES ASSUME IInv PROVE PayablesFollowReceipts
        OBVIOUS
    <2>1. ASSUME NEW d \in DOMAIN cast, cast[d] = "RECEIPT"
          PROVE  booked[d].party.net = Owed(d)
        <3>1. d \in DOMAIN docs BY FiniteDocs DEF IInv
        <3> QED BY <2>1, <3>1 DEF IInv, ReceiptsBooked, ReceiptBooked
    <2> QED BY <2>1 DEF PayablesFollowReceipts
<1> QED BY <1>1, Inductive, PTL
=============================================================================
