----------------------------- MODULE MCServices -----------------------------
(***************************************************************************)
(* The services, model-checked in one run.  Of notices there are those     *)
(* that folding and grouping tell apart.                                   *)
(***************************************************************************)
EXTENDS Services

CONSTANTS e1, e2, x1, repay     \* episodes, an execution, an action

Notice(type)       == [type |-> type, stale |-> FALSE, episode |-> NoEpisode, action |-> NoAction,
                       amount |-> 0, declared |-> FALSE, execution |-> NoIdentity,
                       webhook |-> "DISABLED"]
Advice(e, amount)  == [Notice("MEI_SELECTED") EXCEPT !.episode = e, !.action = repay,
                                                     !.amount = amount]
NoticesOfMC ==
  {[Advice(e1, 200) EXCEPT !.declared = TRUE], Advice(e1, 201),
   Advice(NoEpisode, 202), Advice(e2, 201), Notice("POSITION_CHANGED"),
   [Notice("EXECUTION_STARTED") EXCEPT !.execution = x1],
   [Notice("EXECUTION_CONFIRMED") EXCEPT !.execution = x1, !.webhook = "PENDING"]}
=============================================================================
