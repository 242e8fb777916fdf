----------------------------- MODULE LedEntries -----------------------------
(***************************************************************************)
(* The ledger tables as a set of entries, and what internal/domains/led    *)
(* computes over them: the flows a voucher posts, their reversal, the      *)
(* opening of a generation, the stock timeline.  No variables.             *)
(*                                                                         *)
(* One warehouse and product, one fund account and currency, one customer  *)
(* and one supplier stand for all: the four dimensions of the ledger.  A   *)
(* voucher has one line and unit prices are 1, so quantities and amounts   *)
(* coincide.                                                               *)
(*                                                                         *)
(* An entry is [gen, type, doc, dim, rev, date, at, delta]: generation,    *)
(* entry_type, source_document_id, dimension, source_revision,             *)
(* effective_date, occurred_at and the signed change.                      *)
(***************************************************************************)
EXTENDS VouDocument, FiniteSets, Functions

CONSTANT NoDoc   \* the source of an opening entry

Dims == {"stock", "fund", "customer", "supplier"}

SumOf(flows) == SumFunctionOnSet([e \in flows |-> e.delta], flows)

-----------------------------------------------------------------------------
(* What an executed document posts.                                        *)

Flow(dim, date, delta) == [dim |-> dim, date |-> date, delta |-> delta]

\* Stock moves by what left the warehouse on the outbound date; the customer
\* owes what was signed for, on the business date.
SaleFlows(d) ==
    {Flow("stock", d.exec.date, -d.exec.moved)}
      \cup {f \in {Flow("customer", d.data.date, d.exec.signed)} : d.exec.signed > 0}

PurchaseFlows(d) ==
    {Flow("stock", d.exec.date, d.exec.moved), Flow("supplier", d.data.date, -d.exec.moved)}

\* A brokered sale touches no stock; lines signed for in quantity zero are skipped.
IntermediaryFlows(d) ==
    {f \in {Flow("customer", d.data.date, d.exec.signed),
            Flow("supplier", d.data.date, -d.exec.signed)} : d.exec.signed > 0}

CashFlows(d) ==
    CASE d.kind = "receipt" ->
            {Flow("fund", d.data.date, d.data.qty), Flow("customer", d.data.date, -d.data.qty)}
      [] d.kind = "payment" ->
            {Flow("fund", d.data.date, -d.data.qty), Flow("supplier", d.data.date, d.data.qty)}
      [] d.kind = "expense" -> {Flow("fund", d.data.date, -d.data.qty)}
      [] d.kind = "other"   -> {Flow("fund", d.data.date, d.data.qty)}

Flows(d) ==
    CASE d.kind = "sale"         -> SaleFlows(d)
      [] d.kind = "purchase"     -> PurchaseFlows(d)
      [] d.kind = "intermediary" -> IntermediaryFlows(d)
      [] OTHER                   -> CashFlows(d)

\* The dates requireEffectiveDate is asked about, posted to or not.
EffectDates(d) ==
    IF d.kind \in {"sale", "purchase"} THEN {d.exec.date, d.data.date} ELSE {d.data.date}

\* A flow counts from the cutover date on; each flow is judged by its own date.
FlowsFrom_Mutant(d, cutover) == {f \in Flows(d) : d.data.date >= cutover}
FlowsFrom(d, cutover) == {f \in Flows(d) : f.date >= cutover}

\* Live posting refuses a document with any effect before the cutover; live or
\* replayed, a posting that needs the warehouse (sale, purchase) or the purchase
\* price (intermediary) refuses a legacy document without it.
CanPost(d, cutover, live) ==
    /\ live => \A x \in EffectDates(d) : x >= cutover
    /\ \A f \in FlowsFrom(d, cutover) :
         (f.dim = "stock" \/ d.kind = "intermediary") => d.attrs # "noPosting"

-----------------------------------------------------------------------------
(* Writing entries.                                                        *)

Key(e) == <<e.gen, e.type, e.doc, e.dim, e.rev>>

\* INSERT ... ON CONFLICT DO NOTHING on the idempotency key.
Insert(entries, new) ==
    entries \cup {e \in new : \A old \in entries : Key(old) # Key(e)}

PostingsOf(g, id, d, rev, at, cutover) ==
    {[gen |-> g, type |-> "POSTING", doc |-> id, dim |-> f.dim, rev |-> rev,
      date |-> f.date, at |-> at, delta |-> f.delta] : f \in FlowsFrom(d, cutover)}

OpeningOf_Mutant(g, opening, cutover) ==
    {[gen |-> g, type |-> "OPENING", doc |-> NoDoc, dim |-> dim, rev |-> 0,
      date |-> cutover, at |-> 0, delta |-> opening[dim]] : dim \in Dims}
OpeningOf(g, opening, cutover) ==
    {[gen |-> g, type |-> "OPENING", doc |-> NoDoc, dim |-> dim, rev |-> 0,
      date |-> cutover, at |-> 0, delta |-> opening[dim]] :
        dim \in {x \in Dims : opening[x] # 0}}

OfSource(entries, g, id) == {e \in entries : e.gen = g /\ e.doc = id}

HasEntriesForSource(entries, g, id) == OfSource(entries, g, id) # {}

\* loadSourceEntries and maxSourceRevision: the postings of the latest revision.
LatestPostings_Mutant(entries, g, id) ==
    {e \in OfSource(entries, g, id) : e.type = "POSTING"}
LatestPostings(entries, g, id) ==
    LET postings == {e \in OfSource(entries, g, id) : e.type = "POSTING"}
    IN  {e \in postings : \A other \in postings : other.rev <= e.rev}

ReversalsOf(entries, g, id, rev, at) ==
    {[e EXCEPT !.type = "REVERSAL", !.rev = rev, !.at = at, !.delta = -@] :
        e \in LatestPostings(entries, g, id)}

-----------------------------------------------------------------------------
(* The stock timeline: effective date, the opening first, occurred_at.     *)

NotAfter(e, f) ==
    \/ e.date < f.date
    \/ e.date = f.date /\ (e = f \/ e.type = "OPENING" \/ (f.type # "OPENING" /\ e.at <= f.at))

NegativeTimeline_Mutant(entries, g) ==
    SumOf({e \in entries : e.gen = g /\ e.dim = "stock"}) < 0
NegativeTimeline(entries, g) ==
    LET stock == {e \in entries : e.gen = g /\ e.dim = "stock"}
    IN  \E f \in stock : SumOf({e \in stock : NotAfter(e, f)}) < 0
=============================================================================
