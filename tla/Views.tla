------------------------------- MODULE Views -------------------------------
(***************************************************************************)
(* The two materialized views (up.sql of the migration trade_item_id) and  *)
(* the task that refreshes them (run_refresh_materialized_views_worker of  *)
(* src/db/workers.rs): one view after the other, over one connection.      *)
(*                                                                         *)
(* A view is represented by the rows of the table it was last built from;  *)
(* what is computed from these rows is the subject of Pricing.             *)
(***************************************************************************)
CONSTANTS
    ListingIds,
    NoListing,
    BotRows(_)       \* the rows of a table that mv_bot_prices shows

VARIABLES
    trade_listings,  \* the table, written by others
    mv_prices,       \* the rows that mv_prices was built from
    mv_bot_prices,   \* the rows that mv_bot_prices was built from
    refresh,         \* the task: its stage and the rows that the statement
                     \* under way sees
    abandoned        \* a statement that has lost its client

NoRows == [id \in ListingIds |-> NoListing]
Idle == [stage |-> "idle", rows |-> NoRows]
Stages == {"idle", "prices", "between", "bot_prices"}
Statements == {"prices", "bot_prices"}

ViewsInit ==
    /\ mv_prices = NoRows
    /\ mv_bot_prices = NoRows
    /\ refresh = Idle
    /\ abandoned = Idle

\* A statement works on the rows it saw when it began.
Begin(from, to) ==
    /\ refresh.stage = from
    /\ refresh' = [stage |-> to, rows |-> trade_listings]
    /\ UNCHANGED <<mv_prices, mv_bot_prices, abandoned>>

BeginPrices == Begin("idle", "prices")
BeginBotPrices == Begin("between", "bot_prices")

End(stage) == refresh' = [Idle EXCEPT !.stage = stage]

\* A faulty Install: rows that have left the table stay in the view.
InstallNew(statement) ==
    LET Over(rows, view) ==
            [id \in ListingIds |-> IF rows[id] = NoListing THEN view[id] ELSE rows[id]]
    IN  \/ /\ statement.stage = "prices"
           /\ mv_prices' = Over(statement.rows, mv_prices)
           /\ UNCHANGED mv_bot_prices
        \/ /\ statement.stage = "bot_prices"
           /\ mv_bot_prices' = Over(BotRows(statement.rows), mv_bot_prices)
           /\ UNCHANGED mv_prices

\* What a statement does in the database.
Install(statement) ==
    \/ /\ statement.stage = "prices"
       /\ mv_prices' = statement.rows
       /\ UNCHANGED mv_bot_prices
    \/ /\ statement.stage = "bot_prices"
       /\ mv_bot_prices' = BotRows(statement.rows)
       /\ UNCHANGED mv_prices

\* The second statement follows the first, whatever became of that.
AfterStatement == IF refresh.stage = "prices" THEN "between" ELSE "idle"

\* PostgreSQL locks a view for the statement that refreshes it.
Finish(stage) ==
    /\ refresh.stage = stage
    /\ abandoned.stage # stage
    /\ Install(refresh)
    /\ End(AfterStatement)
    /\ UNCHANGED abandoned

FinishPrices == Finish("prices")
FinishBotPrices == Finish("bot_prices")

\* An error is logged, and the task goes on.
RefreshFails ==
    /\ refresh.stage \in Statements
    /\ End(AfterStatement)
    /\ UNCHANGED <<mv_prices, mv_bot_prices, abandoned>>

\* The task is gone, and its connection with it: a statement under way is
\* dropped, or the server still executes it.  Bound: one at a time is left.
Abandon ==
    /\ \/ UNCHANGED abandoned
       \/ /\ refresh.stage \in Statements
          /\ abandoned.stage = "idle"
          /\ abandoned' = refresh
    /\ End("idle")
    /\ UNCHANGED <<mv_prices, mv_bot_prices>>

\* The server comes to the end of it, at whatever stage a new process is.
EndAbandoned ==
    /\ abandoned.stage \in Statements
    /\ Install(abandoned) \/ UNCHANGED <<mv_prices, mv_bot_prices>>
    /\ abandoned' = Idle
    /\ UNCHANGED refresh
=============================================================================
