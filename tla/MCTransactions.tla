--------------------------- MODULE MCTransactions ---------------------------
(* Small instances of Transactions. *)
EXTENDS Transactions
=============================================================================
