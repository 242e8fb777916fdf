--------------------------- MODULE MCVouAttachments ---------------------------
(* One file wanted by two PUT requests, a removal and the cleanup.         *)
EXTENDS VouAttachments

CONSTANTS f1, u1, u2
=============================================================================
