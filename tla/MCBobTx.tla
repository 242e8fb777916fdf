------------------------------- MODULE MCBobTx -------------------------------
(***************************************************************************)
(* Small worlds for BobTx: departments, a category, products, an employee, *)
(* a supplier and a vehicle.                                               *)
(***************************************************************************)
EXTENDS BobTx, TLC

CONSTANTS c1, c2, ann, bob, low, UP, d1, d2, d3, d4, cat, pen, ink, eve, sup, car

Sequence == <<d1, d2, d3, d4, cat, pen, ink, eve, sup, car>>
MCObjects == ToSet(Sequence)
MCRank == [o \in MCObjects |-> CHOOSE n \in DOMAIN Sequence : Sequence[n] = o]
MCKindOf == [o \in MCObjects |->
    CASE o \in {d1, d2, d3, d4} -> "department" [] o = cat -> "category" [] o \in {pen, ink} -> "product"
      [] o = eve -> "employee" [] o = sup -> "supplier" [] o = car -> "vehicle"]
MCCanonical == (low :> UP) @@ (UP :> UP)
Interchangeable == Permutations({c1, c2}) \cup Permutations({ann, bob})

V(status, d) == [status |-> status, revision |-> 3, by |-> ann, detail |-> d]
InForce(d) == [current |-> 1, effective |-> 1, revision |-> 2, versions |-> <<V("EFFECTIVE", d)>>]
D(given) == Merged(Blank, given)
Ask(op, o, input) == [op |-> op, object |-> o, input |-> input]

\* Two departments being edited, each wanted below a branch of the other.
Branches ==
    [rows |-> d1 :> Edited(InForce(Blank)) @@ d2 :> InForce(D("parent" :> d3))
              @@ d3 :> Edited(InForce(Blank)) @@ d4 :> InForce(D("parent" :> d1)),
     asks |-> {Ask("save", d1, "parent" :> d2), Ask("save", d3, "parent" :> d4), Ask("edit", d4, << >>)}]

\* A category, a product of it, and the category wanted for something else.
Retargeting ==
    [rows |-> cat :> InForce(D("target" :> "product")) @@ pen :> Absent,
     asks |-> {Ask("create", pen, "category" :> cat), Ask("submit", pen, << >>), Ask("approve", pen, << >>),
               Ask("reject", pen, << >>), Ask("edit", cat, << >>),
               Ask("save", cat, "target" :> "service"), Ask("submit", cat, << >>), Ask("approve", cat, << >>)}]

\* A logistics platform to be downgraded while a vehicle is entered for it.
Downgrading ==
    [rows |-> eve :> InForce(Blank)
              @@ sup :> InForce(D("type" :> "LOGISTICS_PLATFORM" @@ "salesperson" :> eve)) @@ car :> Absent,
     asks |-> {Ask("create", car, "platform" :> sup @@ "key" :> low), Ask("delete", car, << >>),
               Ask("edit", sup, << >>), Ask("save", sup, "type" :> "GENERAL"), Ask("edit", eve, << >>),
               Ask("current", eve, << >>)}]

\* Two products with the same barcode, spelled differently.
Barcodes ==
    [rows |-> pen :> InForce(Blank) @@ ink :> Absent,
     asks |-> {Ask("edit", pen, << >>), Ask("save", pen, "key" :> low), Ask("create", ink, "key" :> UP),
               Ask("save", ink, "key" :> None), Ask("delete", ink, << >>)}]

\* A vehicle in force, resolved by a voucher while it is edited.
Resolving ==
    [rows |-> eve :> InForce(Blank)
              @@ sup :> InForce(D("type" :> "LOGISTICS_PLATFORM" @@ "salesperson" :> eve))
              @@ car :> InForce(D("platform" :> sup @@ "key" :> UP)),
     asks |-> {Ask("resolve", car, << >>), Ask("current", car, << >>), Ask("edit", car, << >>),
               Ask("edit", sup, << >>)}]

AllStories == {Branches, Retargeting, Downgrading, Barcodes, Resolving}
ResolvingOnly == {Resolving}
=============================================================================
