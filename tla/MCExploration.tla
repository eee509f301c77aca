----------------------------- MODULE MCExploration -----------------------------
(* Instances of Exploration for TLC; the limits are in the configurations.   *)
EXTENDS Exploration, TLC
CONSTANTS rootOnly, costly, wide, quick

(* No seed, so that the crawl follows the controls it finds; a last seed     *)
(* that costs too much; more seeds than states, so that the queue fills up;  *)
(* and a plan that can reach the coverage goal of profile QUICK.             *)
PlanSeeds ==
  [plan \in Plans |->
     CASE plan = rootOnly -> <<>>
       [] plan = costly -> <<1, 2>>
       [] plan = wide -> <<0, 0, 0, 0, 0, 0, 0, 0>>
       [] OTHER -> <<1, 1, 1, 0, 3>>]
=============================================================================
