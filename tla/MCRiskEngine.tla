---------------------------- MODULE MCRiskEngine ----------------------------
(* Readings for the model checker: one that every limit allows and one per  *)
(* limit that stops or kills, each at the boundary of its comparison.       *)
EXTENDS RiskEngine

MCQuiet == [notional |-> MaxOrderNotional,
            exposure |-> MaxMarketExposure - MaxOrderNotional,
            openOrders |-> MaxOpenOrders - 1,
            dailyPnl |-> 1 - DailyLossLimit, hourlyPnl |-> 1 - HourlyLossLimit]

MCReadings == {MCQuiet,
               [MCQuiet EXCEPT !.exposure = @ + 1],
               [MCQuiet EXCEPT !.dailyPnl = -DailyLossLimit],
               [MCQuiet EXCEPT !.hourlyPnl = -HourlyLossLimit]}
=============================================================================
