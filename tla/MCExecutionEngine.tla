-------------------------- MODULE MCExecutionEngine --------------------------
(* Quotes for the model checker, cheap and dear: a position taken at one is  *)
(* a loss at another, and three lots at the middle one fill the exposure     *)
(* limit.                                                                    *)
EXTENDS ExecutionEngine

MCQuotes == {[bid |-> 1, ask |-> 3], [bid |-> 3, ask |-> 5],
             [bid |-> 5, ask |-> 7]}

\* One quote is enough where nothing depends on prices.
MCOneQuote == {[bid |-> 1, ask |-> 3]}

=============================================================================
