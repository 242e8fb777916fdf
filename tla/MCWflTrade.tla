----------------------------- MODULE MCWflTrade -----------------------------
(* Small instances of the intermediary trade workflow.                     *)
EXTENDS WflTrade, FiniteSets, TLC

CONSTANTS p, r1, r2, d0, d1, d2, s0, s1, s2, a, b, l, none

Stages(set) == [d \in set |->
    CASE d = p -> "PROCUREMENT"
      [] d \in {r1, r2} -> "RECEIPT"
      [] d \in {d0, d1, d2} -> "DELIVERY"
      [] d \in {s0, s1, s2} -> "SIGNOFF"]

\* Goods received in two documents, delivered and signed for once.
TwoReceipts == Stages({p, r1, r2, d0, s0})
\* Goods delivered, rejected and delivered again.
TwoDeliveries == Stages({p, r1, d1, d2, s1, s2})
\* One document of each stage, dated freely.
OneOfEach == Stages({p, r1, d0, s0})

MCCasts == {TwoReceipts, TwoDeliveries, OneOfEach}
OnlyTwoDeliveries == {TwoDeliveries}

Interchangeable == Permutations({r1, r2}) \cup Permutations({d1, d2}) \cup Permutations({s1, s2})

\* One user reviews and requests, the other approves.
OneReviewer ==
    /\ process.reviewedBy # b /\ process.requester # b
    /\ \A d \in DOMAIN docs : docs[d].reviewedBy # b

\* What a sign-off reversed twice leaves in the ledger (WflPostings) stays small.
Drift(n) == \A d \in DOMAIN docs : cast[d] = "SIGNOFF" =>
    booked[d].party.net \in -n..1 /\ booked[d].container.net \in -n..1

OneDate ==
    /\ process.date # 2 /\ ledger.cutover = 1
    /\ \A d \in DOMAIN docs : docs[d].date # 2

\* What leads up to the deliveries has one date; they and their sign-offs may be later.
LateDeliveries ==
    /\ process.date # 2 /\ ledger.cutover = 1
    /\ \A d \in DOMAIN docs : docs[d].date = 2 => cast[d] \in {"DELIVERY", "SIGNOFF"}

\* Two documents are under way at a time.  The ledger is reopened and containers
\* come back in the two smaller stories.
StoryBounds ==
    /\ OneReviewer
    /\ Cardinality(Unfinished(docs)) <= 2
    /\ cast = OneOfEach => Drift(0)
    /\ cast = TwoReceipts => OneDate /\ Drift(1)
    /\ cast = TwoDeliveries =>
         /\ LateDeliveries /\ Drift(0)
         /\ ledger.status = "ACTIVE"
         /\ \A d \in DOMAIN docs : docs[d].returned = 0
=============================================================================
