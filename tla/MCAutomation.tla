------------------------------ MODULE MCAutomation ------------------------------
(***************************************************************************)
(* AutomationRun with two markets, of which the CLOB labels one in reverse *)
(* order and Gamma alone names the tokens of the other.                    *)
(***************************************************************************)
EXTENDS AutomationRun

CONSTANTS soon, late

MCMarkets == {soon, late}
MCEndDate == [m \in MCMarkets |-> IF m = soon THEN 1 ELSE 9]
MCListing ==
  [m \in MCMarkets |->
     IF m = soon
     THEN [clob |-> <<[outcome |-> "no", id |-> "no"], [outcome |-> "yes", id |-> "yes"]>>,
           gamma |-> <<"yes", "no">>]
     ELSE [clob |-> <<>>, gamma |-> <<"yes", "no">>]]
MCOpened == {soon}
MCArtifacts == <<"fills">>
MCWriters == {"automation", "manual"}
MCPlans == {<<"market_sync", "health_check", "strategy_batch", "report">>, <<"report">>}
MCRunIds == 0..(MaxStarts * StrategyCount)

=============================================================================
