--------------------------- MODULE MCReconciliation ---------------------------
(* One cheap quote: nothing here depends on prices. *)
EXTENDS Reconciliation

MCOneQuote == {[bid |-> 1, ask |-> 3]}

=============================================================================
