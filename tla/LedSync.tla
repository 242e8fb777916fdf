------------------------------- MODULE LedSync -------------------------------
(***************************************************************************)
(* What the ledger promises the vouchers, with everything else left out.   *)
(*                                                                         *)
(* A voucher is executed or not; the book is the set of vouchers whose     *)
(* effects the active generation carries.  The ledger is in DRAFT, ACTIVE  *)
(* or REOPENING.  Once it is active, a voucher enters the book in the very *)
(* step that executes it and leaves it in the very step that reverses it;  *)
(* while it is reopened neither happens; activation rebuilds the book from *)
(* the vouchers executed at that moment, up to those the cutover leaves    *)
(* out.                                                                    *)
(***************************************************************************)
CONSTANT Docs

VARIABLES mode, executed, book

vars == <<mode, executed, book>>

Modes == {"DRAFT", "ACTIVE", "REOPENING"}

TypeOK ==
    /\ mode \in Modes
    /\ executed \subseteq Docs
    /\ book \subseteq Docs

\* Vouchers executed before the ledger was installed.
Init ==
    /\ mode = "DRAFT"
    /\ executed \in SUBSET Docs
    /\ book = {}

Execute(d) ==
    /\ mode = "ACTIVE"
    /\ d \notin executed
    /\ executed' = executed \cup {d}
    /\ book' = book \cup {d}
    /\ UNCHANGED mode

Unexecute(d) ==
    /\ mode = "ACTIVE"
    /\ d \in book
    /\ executed' = executed \ {d}
    /\ book' = book \ {d}
    /\ UNCHANGED mode

\* Before the first activation there is no book to reverse.
UnexecuteBeforeLedger(d) ==
    /\ mode = "DRAFT"
    /\ d \in executed
    /\ executed' = executed \ {d}
    /\ UNCHANGED <<mode, book>>

Activate(kept) ==
    /\ mode \in {"DRAFT", "REOPENING"}
    /\ kept \subseteq executed
    /\ mode' = "ACTIVE"
    /\ book' = kept
    /\ UNCHANGED executed

Reopen ==
    /\ mode = "ACTIVE"
    /\ mode' = "REOPENING"
    /\ UNCHANGED <<executed, book>>

CancelReopen ==
    /\ mode = "REOPENING"
    /\ mode' = "ACTIVE"
    /\ UNCHANGED <<executed, book>>

Next ==
    \/ \E d \in Docs : Execute(d) \/ Unexecute(d) \/ UnexecuteBeforeLedger(d)
    \/ \E kept \in SUBSET Docs : Activate(kept)
    \/ Reopen
    \/ CancelReopen

Spec == Init /\ [][Next]_vars

-----------------------------------------------------------------------------
\* The book never holds a voucher that is not executed, and nothing at all
\* before the first activation.
BookWithinExecuted ==
    /\ book \subseteq executed
    /\ mode = "DRAFT" => book = {}

\* As long as the ledger stays reopened, vouchers and book stand still, so that
\* cancelling gives back exactly what was there.
FrozenWhileReopened ==
    [][mode = "REOPENING" /\ mode' = "REOPENING" => UNCHANGED <<executed, book>>]_vars
=============================================================================
