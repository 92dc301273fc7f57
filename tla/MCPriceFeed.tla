----------------------------- MODULE MCPriceFeed -----------------------------
(* Two markets of which one is disabled; at the prices of the .cfg, twice  *)
(* the reference lies in 2..4.                                             *)
EXTENDS SignalEngine

MCFairYes == [m \in {"m1", "m2"} |-> [p \in 2 .. 4 |-> 200 * p - 100]]

\* Books whose edge at the lowest fair value is just enough and just too small,
\* as wide as the estimates allow; and the empty book of market_data_client.py:99.
MCBooks == {[bid |-> 330, ask |-> 370], [bid |-> 320, ask |-> 360],
            [bid |-> 0, ask |-> 1000]}

=============================================================================
