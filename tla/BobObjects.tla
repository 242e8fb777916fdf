----------------------------- MODULE BobObjects -----------------------------
(***************************************************************************)
(* Base objects (internal/domains/bob): what a version says of other       *)
(* objects, which versions are well formed, and what each operation does   *)
(* to the rows of one object.  The transactions around them are BobTx.     *)
(*                                                                         *)
(* A version's detail is reduced to its references, its unique identifier  *)
(* (tax number, barcode, account number, a vehicle's plate; its VIN has    *)
(* the same rule), a category's target and a supplier's type.  The other   *)
(* fields are text no rule compares.                                       *)
(***************************************************************************)
EXTENDS Naturals, Sequences, FiniteSets, SequencesExt

CONSTANTS
    Objects,    \* object ids
    Rank,       \* their order, that of ULIDs as text
    KindOf,     \* the entity of each object id
    Keys,       \* identifiers as clients spell them
    Canonical,  \* the trimmed upper-case form of an identifier
    Actors,     \* user ids
    None        \* an empty field

Kinds == {"customer", "supplier", "employee", "product", "service", "warehouse", "vehicle",
          "fund-account", "category", "department", "position", "settlement-method"}

RefFields == {"category", "department", "position", "manager", "settlement", "salesperson",
              "parent", "platform"}

Fields == RefFields \cup {"key", "target", "type"}

ASSUME BobAssumption ==
    /\ Rank \in [Objects -> Nat]
    /\ KindOf \in [Objects -> Kinds]
    /\ Canonical \in [Keys -> Keys]
    /\ \A k \in Keys : Canonical[Canonical[k]] = Canonical[k]
    /\ None \notin Objects \cup Keys \cup Actors \cup Kinds \cup {"GENERAL", "LOGISTICS_PLATFORM"}

Blank == [f \in Fields |-> None]

\* What a field may hold.
ValuesOf(f) ==
    CASE f \in RefFields -> Objects \cup {None}
      [] f = "key" -> Keys \cup {None}
      [] f = "target" -> Kinds \cup {None}
      [] f = "type" -> {"GENERAL", "LOGISTICS_PLATFORM", None}

Details == {d \in [Fields -> UNION {ValuesOf(f) : f \in Fields}] : \A f \in Fields : d[f] \in ValuesOf(f)}

Statuses == {"DRAFT", "PENDING", "REJECTED", "EFFECTIVE", "INVALID"}

Versions == [status : Statuses, revision : Nat, by : Actors \cup {None}, detail : Details]

\* bob_objects with its bob_versions; the n-th version has version_no n.
Rows == [current : Nat, effective : Nat, revision : Nat, versions : Seq(Versions)]

Absent == [current |-> 0, effective |-> 0, revision |-> 0, versions |-> << >>]

-----------------------------------------------------------------------------
(* The detail tables: which of the fields a kind has.                      *)

CustomerFields == {"category", "settlement", "salesperson", "key"}
SupplierFields == {"category", "settlement", "salesperson", "key", "type"}
EmployeeFields == {"category", "department", "position"}
ProductFields == {"category", "key"}
ServiceFields == {"category"}
WarehouseFields == {"category", "manager"}
VehicleFields == {"category", "platform", "key"}
FundAccountFields == {"category", "key"}
CategoryFields == {"parent", "target"}
DepartmentFields == {"category", "parent"}
PositionFields == {"category"}
SettlementMethodFields == {}

FieldsOf(kind) ==
    CASE kind = "customer" -> CustomerFields
      [] kind = "supplier" -> SupplierFields
      [] kind = "employee" -> EmployeeFields
      [] kind = "product" -> ProductFields
      [] kind = "service" -> ServiceFields
      [] kind = "warehouse" -> WarehouseFields
      [] kind = "vehicle" -> VehicleFields
      [] kind = "fund-account" -> FundAccountFields
      [] kind = "category" -> CategoryFields
      [] kind = "department" -> DepartmentFields
      [] kind = "position" -> PositionFields
      [] kind = "settlement-method" -> SettlementMethodFields

\* What must be filled in (validateEntityFields).
Complete(kind, d) ==
    /\ \A f \in Fields : d[f] # None => f \in FieldsOf(kind)
    /\ kind \in {"customer", "supplier"} => d["salesperson"] # None
    /\ kind = "supplier" => d["type"] \in {"GENERAL", "LOGISTICS_PLATFORM"}
    /\ kind = "vehicle" => d["platform"] \in Objects /\ d["key"] # None
    /\ kind = "category" => d["target"] \in Kinds \ {"category", "settlement-method"}

\* Identifiers are trimmed and upper-cased before anything else.
Normalized(d) == [d EXCEPT !["key"] = IF @ = None THEN None ELSE Canonical[@]]

\* A request names some of the fields; of the others a new object has the
\* defaults, and an existing version keeps what it has.
Allowed(kind, input) == DOMAIN input \subseteq FieldsOf(kind)

Merged(d, input) == [f \in Fields |-> IF f \in DOMAIN input THEN input[f] ELSE d[f]]

Defaults(kind) == IF kind = "supplier" THEN [Blank EXCEPT !["type"] = "GENERAL"] ELSE Blank

-----------------------------------------------------------------------------
(* References of a version.                                                *)

\* The kind of object a field refers to (bob_version_views joins them so).
KindFor(f) ==
    CASE f = "category" -> "category" [] f = "department" -> "department"
      [] f = "position" -> "position" [] f \in {"manager", "salesperson"} -> "employee"
      [] f = "settlement" -> "settlement-method" [] f = "platform" -> "supplier"
      [] f = "parent" -> "department"

References(d) == {[field |-> f, object |-> d[f]] : f \in {g \in RefFields : d[g] # None}}

\* The order in which they are locked (validateDetailReferences): platform,
\* category, the others by id.  A category has no other than its parent.
Before(r, s) ==
    \/ r.field = "platform" /\ s.field # "platform"
    \/ r.field = "category" /\ s.field \notin {"platform", "category"}
    \/ {r.field, s.field} \cap {"platform", "category"} = {} /\ Rank[r.object] < Rank[s.object]

First(refs) == {r \in refs : \A s \in refs : ~Before(s, r)}

Effective(row) == row.effective # 0 /\ row.current = row.effective

CurrentDetail(row) == row.versions[row.current].detail

\* The condition of the statement that locks a reference.
Suits(ref, kind, d, row, refKind) ==
    /\ Effective(row)
    /\ CASE ref.field = "platform" -> refKind = "supplier" /\ CurrentDetail(row)["type"] = "LOGISTICS_PLATFORM"
         [] ref.field = "category" -> refKind = "category" /\ CurrentDetail(row)["target"] = kind
         [] ref.field = "parent" /\ kind = "category" ->
              refKind = "category" /\ CurrentDetail(row)["target"] = d["target"]
         [] OTHER -> refKind = KindFor(ref.field)

-----------------------------------------------------------------------------
(* The rows of one object, before and after each operation.                *)

NewVersion(d) == [status |-> "DRAFT", revision |-> 1, by |-> None, detail |-> d]

Created(d) == [current |-> 1, effective |-> 0, revision |-> 1, versions |-> <<NewVersion(d)>>]

Top(row) == row.versions[row.current]

\* The revisions a client has seen.
Shown(row) == [version |-> row.current, revision |-> Top(row).revision, object |-> row.revision]

IsCurrent(row, seen) ==
    row.current = seen.version /\ row.effective = 0 /\ Top(row).revision = seen.revision

CanSave(row, seen) == IsCurrent(row, seen) /\ Top(row).status \in {"DRAFT", "REJECTED"}
CanSubmit(row, seen) == IsCurrent(row, seen) /\ Top(row).status \in {"DRAFT", "REJECTED"}
CanReview(row, seen, actor) ==
    IsCurrent(row, seen) /\ Top(row).status = "PENDING" /\ Top(row).by \notin {None, actor}
CanEdit(row, seen) == row.revision = seen.object /\ Effective(row)
CanDelete(row, seen) ==
    /\ IsCurrent(row, seen) /\ row.revision = seen.object
    /\ Len(row.versions) = 1 /\ Top(row).status = "DRAFT" /\ Top(row).by = None

\* One version row moves on; its revision with it.
Moved(row, n, status, by, d) ==
    [row EXCEPT !.versions[n] = [status |-> status, revision |-> @.revision + 1, by |-> by, detail |-> d]]

Saved(row, d) == Moved(row, row.current, Top(row).status, Top(row).by, d)
Submitted(row, actor) == Moved(row, row.current, "PENDING", actor, Top(row).detail)
Rejected(row) == Moved(row, row.current, "REJECTED", Top(row).by, Top(row).detail)
\* Approval forgets the object's pointer.
Approved_Mutant(row) == [Moved(row, row.current, "EFFECTIVE", Top(row).by, Top(row).detail) EXCEPT !.revision = @ + 1]
Approved(row) ==
    [Moved(row, row.current, "EFFECTIVE", Top(row).by, Top(row).detail)
        EXCEPT !.effective = row.current, !.revision = @ + 1]

Invalidated(row) == Moved(row, row.current, "INVALID", Top(row).by, Top(row).detail)

\* Edit copies the detail as it is; nothing is validated again.
Copied(row) == NewVersion(Top(row).detail)
Edited(row) ==
    [Invalidated(row) EXCEPT !.versions = Append(@, Copied(row)), !.current = @ + 1,
                             !.effective = 0, !.revision = @ + 1]

-----------------------------------------------------------------------------
(* What the tables are to say whenever a request starts.                   *)

\* The pointers of an object and the statuses of its versions agree
\* (bob_objects, bob_versions): only the current version can be a candidate or
\* effective, and it is effective exactly if the object points to it.
Coherent(row) ==
    /\ row.current = Len(row.versions) /\ row.effective \in {0, row.current}
    /\ row = Absent <=> row.current = 0
    /\ row # Absent => (row.effective # 0 <=> Top(row).status = "EFFECTIVE")
    /\ \A n \in 1..Len(row.versions) - 1 : row.versions[n].status = "INVALID"
    /\ row # Absent => Top(row).status # "INVALID" /\ (Top(row).status = "PENDING" => Top(row).by # None)

Legal(kind, row) ==
    /\ row \in Rows /\ Coherent(row)
    /\ \A n \in DOMAIN row.versions : Complete(kind, row.versions[n].detail)

ParentOf(state, o) == IF state[o] = Absent THEN None ELSE CurrentDetail(state[o])["parent"]

\* The objects above o: its parent, and the parent of each of them.  They
\* include o if there is a cycle.
Ancestors(state, o) ==
    LET Closed(S) == \A p \in S \cup {o} : ParentOf(state, p) \in S \cup {None}
    IN  {q \in DOMAIN state : \A S \in SUBSET DOMAIN state : Closed(S) => q \in S}

Acyclic(state) == \A o \in DOMAIN state : o \notin Ancestors(state, o)

\* What a version refers to is there (the foreign keys of the details); a
\* parent is of the same kind.
Linked(state) ==
    \A o \in DOMAIN state : \A n \in DOMAIN state[o].versions :
        LET d == state[o].versions[n].detail
        IN  /\ \A f \in RefFields : d[f] # None => d[f] \in DOMAIN state /\ state[d[f]] # Absent
            /\ d["parent"] # None => KindOf[d["parent"]] = KindOf[o]

\* Identifiers are canonical, and no two current versions of a kind share one.
Identified(state) ==
    \A o, p \in {q \in DOMAIN state : state[q] # Absent} :
        LET k == CurrentDetail(state[o])["key"]
        IN  k # None => /\ k = Canonical[k]
                        /\ o # p /\ KindOf[o] = KindOf[p] => k # CurrentDetail(state[p])["key"]

\* What is chosen for a role has it: a category the target of those that chose
\* it, in any version, and the platform of a current vehicle its type.
Suited(state) ==
    \A o \in DOMAIN state : \A n \in DOMAIN state[o].versions :
        LET d == state[o].versions[n].detail
        IN  /\ d["category"] # None => CurrentDetail(state[d["category"]])["target"] = KindOf[o]
            /\ KindOf[o] = "category" /\ d["parent"] # None =>
                 CurrentDetail(state[d["parent"]])["target"] = d["target"]
            /\ d["platform"] # None /\ n = state[o].current =>
                 CurrentDetail(state[d["platform"]])["type"] = "LOGISTICS_PLATFORM"

Sound(state) ==
    /\ \A o \in DOMAIN state : Legal(KindOf[o], state[o])
    /\ Acyclic(state) /\ Linked(state) /\ Identified(state) /\ Suited(state)
=============================================================================
