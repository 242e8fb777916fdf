------------------------------ MODULE MCVouLed ------------------------------
(* Small instances of vouchers and ledger.                                 *)
EXTENDS VouLed, TLC

CONSTANTS p, s, m, c, x, y, z, none

\* A voucher executed before the ledger was installed (revision 4).
LegacyRow(kind, date, outcome, attrs, at) ==
    [Drafted(kind, [date |-> date, qty |-> 1]) EXCEPT
        !.status = "EXECUTED", !.rev = 4, !.exec = outcome, !.attrs = attrs, !.at = at]

Outcome(date, moved, signed) == [date |-> date, moved |-> moved, signed |-> signed]

\* A purchase executed before the ledger was installed, a sale to be written.
Goods == [d \in {p, s} |->
    IF d = p THEN LegacyRow("purchase", 1, Outcome(2, 1, 0), "complete", -4) ELSE Absent("sale")]

\* That purchase alone, executed and reversed over and over.
Purchase == [d \in {p} |-> Goods[d]]

\* A brokered sale from before purchase prices were recorded.
Broker == [d \in {m} |-> LegacyRow("intermediary", 1, Outcome(2, 1, 1), "noPosting", -4)]
NewBroker == [d \in {m} |-> Absent("intermediary")]

\* Cash vouchers of the four kinds on both sides of the cutover dates.
CashKind == [d \in {c, x, y, z} |->
    CASE d = c -> "receipt" [] d = x -> "payment" [] d = y -> "expense" [] d = z -> "other"]
Cash == [d \in {c, x, y, z} |->
    LegacyRow(CashKind[d], IF d \in {c, y} THEN 1 ELSE 2, NoExec,
              IF d = x THEN "noPersonnel" ELSE "complete",
              CASE d = c -> -2 [] d = x -> -4 [] d = y -> -6 [] d = z -> -8)]

MCDatabases == {Goods, Purchase, Broker, Cash}
OnlyNewBroker == {NewBroker}

StockOpening(n) == [dim \in Dims |-> IF dim = "stock" THEN n ELSE 0]
MCOpenings == {StockOpening(0), [StockOpening(1) EXCEPT !["fund"] = 1, !["supplier"] = -1]}
EmptyOpening == {StockOpening(0)}

\* Each story has its own bounds: revisions, generations and ledger writes.
Within(story, rev, generations, ticks) ==
    /\ DOMAIN docs = story
    /\ \A d \in story : docs[d].rev <= rev
    /\ Len(gens) <= generations
    /\ clock <= ticks

StoryBounds ==
    \/ Within({p, s}, 6, 2, 3) /\ docs[p].rev + docs[s].rev <= 10
    \/ Within({p}, 10, 3, 5) /\ draft = NoOpening
    \/ Within({m}, 10, 3, 4)
    \/ Within({c, x, y, z}, 6, 2, 1)
=============================================================================
