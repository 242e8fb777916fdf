---------------------------- MODULE WflPostings ----------------------------
(***************************************************************************)
(* What LED keeps of a receipt or a sign-off (led/wfl_posting.go).  Of the *)
(* entries of one document in one table (led_party_entries,                *)
(* led_container_entries) it matters what they add up to and what the      *)
(* posting with the highest source revision was, which is the one a        *)
(* reversal takes back.  Prices are one.                                   *)
(***************************************************************************)
EXTENDS Integers, Functions

NoEntries == [net |-> 0, latest |-> 0]
NoBooking == [party |-> NoEntries, container |-> NoEntries]

\* The amounts a final document stands for: a receipt is owed to the supplier,
\* signed goods are owed by the customer with the containers kept back (one
\* container holds one unit).
Effect(stage, docs, d) ==
    LET goods == SumFunction(docs[d].qty)
        containers == SumFunction(docs[docs[d].parent].qty)
    IN  IF stage = "RECEIPT" THEN [party |-> -goods, container |-> 0]
        ELSE [party |-> goods, container |-> containers - docs[d].returned]

\* A posting without effect on a table writes nothing to it.
Post(table, amount) ==
    IF amount = 0 THEN table ELSE [net |-> table.net + amount, latest |-> amount]

PostManagedDocument(b, effect) ==
    [party |-> Post(b.party, effect.party), container |-> Post(b.container, effect.container)]

\* The latest posting of a table is looked up per table, also if an earlier
\* reversal took it back already.
ReverseLatest_Mutant(table) == [table EXCEPT !.net = @ + table.latest]
ReverseLatest(table) == [table EXCEPT !.net = @ - table.latest]

KnownToLedger(b) == b.party.latest # 0 \/ b.container.latest # 0

ReverseManagedDocument(b) ==
    [party |-> ReverseLatest(b.party), container |-> ReverseLatest(b.container)]
=============================================================================
