--------------------------- MODULE MCBotFleetRun ---------------------------
(***************************************************************************)
(* Instances of BotFleetRun for TLC.                                       *)
(***************************************************************************)
EXTENDS BotFleetRun, TLC

CONSTANTS b1, b2

\* One bot and one order behind the gate, two bots and three orders without.
MCBotsOf   == [low |-> {b1}, medium |-> {b1, b2}]
MCOrdersOf == [low |-> 1, medium |-> 3]
MCMenu == {[kind |-> "limit",  side |-> "buy",  price |-> 10000, qty |-> 1],
           [kind |-> "market", side |-> "sell", price |-> 0,     qty |-> 1],
           [kind |-> "cancel", side |-> "buy",  price |-> 0,     qty |-> 0]}
=============================================================================
