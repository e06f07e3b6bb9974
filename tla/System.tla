------------------------------- MODULE System -------------------------------
(***************************************************************************)
(* The whole process (src/main.rs): it starts in steps, spawns its tasks,  *)
(* and ends when one of them ends.  The block list, the stream and the TTL *)
(* task are those of BlockList, the refreshing of the views is that of     *)
(* Views; they meet in the table, in the connection pool and in main.      *)
(* BlockList takes starting for one step and has the pool to itself: this  *)
(* module shows that it may.                                               *)
(***************************************************************************)
EXTENDS BlockList

CONSTANTS
    Bots,       \* the users whose listings are automatic
    Mortal      \* bound: the tasks that may end

\* The handles that main selects on.
Tasks == {"server", "processing", "refresh", "ttl", "polling"}

\* A task that ends half way through an iteration is, to BlockList, a failed
\* statement.
ASSUME SystemAssumption ==
    /\ Bots \subseteq SteamIds
    /\ Mortal \subseteq Tasks
    /\ "crash" \in Faults => "db" \in Faults

VARIABLES
    stage,          \* where main is
    loaded,         \* main's local blocked_user_steam_ids, before the tasks
    ended,          \* the task that ended although none should
    mv_prices, mv_bot_prices, refresh, abandoned

mainVars == <<stage, loaded, ended>>
viewVars == <<mv_prices, mv_bot_prices, refresh, abandoned>>
systemVars == <<vars, mainVars, viewVars>>

\* is_automatic is written when a row is inserted, like its steamid.
BotRows(rows) ==
    [id \in ListingIds |->
        IF rows[id] # NoListing /\ rows[id].steamid \in Bots THEN rows[id]
        ELSE NoListing]

View == INSTANCE Views

NoTask == "none"

\* Every variable has its type, and neither a refresh nor the end of a task
\* outlives the process (main.rs:92-110).
SystemTypeOK ==
    /\ TypeOK
    /\ stage \in {"down", "migrating", "loading", "pricing", "up"}
    /\ loaded \subseteq SteamIds
    /\ ended \in Tasks \cup {NoTask}
    /\ {mv_prices, mv_bot_prices, refresh.rows, abandoned.rows} \subseteq Tables
    /\ refresh.stage \in View!Stages
    /\ abandoned.stage \in View!Statements \cup {"idle"}
    /\ running <=> stage = "up"
    /\ ended # NoTask \/ refresh.stage # "idle" => running

SystemInit ==
    /\ Init
    /\ stage = "down"
    /\ loaded = {}
    /\ ended = NoTask
    /\ View!ViewsInit

-----------------------------------------------------------------------------
(* main, up to the spawning of the tasks.                                  *)

Advance(from, to) ==
    /\ stage = from
    /\ stage' = to
    /\ UNCHANGED <<dbVars, mutex, conns, workerVars, rpcVars, ended, viewVars>>

Launch ==
    /\ Advance("down", "migrating")
    /\ UNCHANGED <<running, blocked_user_steam_ids, loaded>>

Migrate ==
    /\ Advance("migrating", "loading")
    /\ UNCHANGED <<running, blocked_user_steam_ids, loaded>>

\* A faulty LoadBlockList: the list is not read.
LoadNothing ==
    /\ Advance("loading", "pricing")
    /\ UNCHANGED <<running, blocked_user_steam_ids, loaded>>

LoadBlockList ==
    /\ Advance("loading", "pricing")
    /\ loaded' = blocked_users
    /\ UNCHANGED <<running, blocked_user_steam_ids>>

\* The first rate has been fetched: the tasks and services are started.
SpawnTasks ==
    /\ Advance("pricing", "up")
    /\ running' = TRUE
    /\ blocked_user_steam_ids' = loaded
    /\ loaded' = {}

\* An error before the tasks are spawned: main returns it.
StartupFails ==
    /\ "crash" \in Faults
    /\ \E from \in {"migrating", "loading", "pricing"} : Advance(from, "down")
    /\ loaded' = {}
    /\ UNCHANGED <<running, blocked_user_steam_ids>>

-----------------------------------------------------------------------------
(* Supervision.                                                            *)

\* The processing task ends by the panic of to_trade_listing, the others by
\* one elsewhere, the server by an error.  What the task holds is dropped.
TaskEnds(t) ==
    /\ running
    /\ "crash" \in Faults
    /\ ended = NoTask
    /\ ended' = t
    /\ IF t = "processing" THEN worker_pc = "upserting" /\ EndIteration
       ELSE UNCHANGED vars
    /\ IF t = "refresh" THEN View!Abandon ELSE UNCHANGED viewVars
    /\ UNCHANGED <<stage, loaded>>

\* A faulty Stop: a refresh outlives its process.
StopWithoutRefresh ==
    /\ Crash
    /\ stage' = "down"
    /\ ended' = NoTask
    /\ UNCHANGED <<loaded, viewVars>>

Stop ==
    /\ Crash
    /\ View!Abandon
    /\ stage' = "down"
    /\ ended' = NoTask
    /\ UNCHANGED loaded

Kill == ended = NoTask /\ Stop

\* A faulty Exit: only the server is waited for.
ExitWithServer == ended = "server" /\ Stop

\* select!: whichever handle is ready first, main returns.
Exit == ended # NoTask /\ Stop

-----------------------------------------------------------------------------
(* The tasks.                                                              *)

Alive(t) == running /\ ended # t

\* A faulty RefreshConns: the connection is kept between two refreshes.
RefreshConnsForever == IF running THEN 1 ELSE 0

\* The refreshing task keeps its connection for both statements.
RefreshConns == IF refresh.stage = "idle" THEN 0 ELSE 1

ConnFree == Cardinality(conns) + RefreshConns < PoolSize

\* Steps of BlockList's actors that do not take a connection ...
ListStep ==
    /\ \/ Alive("processing") /\ \E b \in Batches : ReceiveBatch(b)
       \/ FilterBatch
       \/ WorkerStatement
       \/ \E r \in Requests :
             \/ /\ Alive("server")
                /\ \E method \in {"block", "unblock"}, user \in SteamIds :
                      Call(r, method, user)
             \/ LockedStep(r)
             \/ Statement(r)
             \/ Cancel(r)
             \/ OrphanRuns(r)
    /\ UNCHANGED <<mainVars, viewVars>>

\* ... and those that do.
ConnStep ==
    /\ ConnFree
    /\ \/ Alive("ttl") /\ \E ids \in SUBSET ListingIds : DeleteExpired(ids)
       \/ WorkerConnect
       \/ \E r \in Requests : Connect(r)
    /\ UNCHANGED <<mainVars, viewVars>>

BeginRefresh == ConnFree /\ View!BeginPrices

Refreshing(A) == Alive("refresh") /\ A /\ UNCHANGED <<vars, mainVars>>

RefreshStep ==
    \/ Refreshing(BeginRefresh)
    \/ Refreshing(View!BeginBotPrices)
    \/ Refreshing(View!FinishPrices)
    \/ Refreshing(View!FinishBotPrices)
    \/ "db" \in Faults /\ Refreshing(View!RefreshFails)

\* The server needs no process for it.
AbandonedStep == View!EndAbandoned /\ UNCHANGED <<vars, mainVars>>

SystemNext ==
    \/ Launch \/ Migrate \/ LoadBlockList \/ SpawnTasks \/ StartupFails
    \/ \E t \in Mortal : TaskEnds(t)
    \/ Kill \/ Exit
    \/ ListStep \/ ConnStep \/ RefreshStep \/ AbandonedStep

SystemSpec == SystemInit /\ [][SystemNext]_systemVars

Quietly(A) == A /\ UNCHANGED <<mainVars, viewVars>>

(***************************************************************************)
(* As in BlockList: what can run is run, statements that wait for nothing  *)
(* get their reply, and who waits for the mutex or the pool is served in   *)
(* order.  main returns when a task has ended, not every refresh fails,    *)
(* and the server comes to the end of what it executes.  Nothing is        *)
(* assumed of the startup: nothing in the repository restarts the process. *)
(***************************************************************************)
SystemFairness ==
    /\ WF_systemVars(Exit)
    /\ SF_systemVars(Quietly(FilterBatch))
    /\ SF_systemVars(Quietly(ConnFree /\ WorkerConnect))
    /\ WF_systemVars(Quietly(~WorkerWaits /\ WorkerStatement))
    /\ \A r \in Requests :
          /\ SF_systemVars(Quietly(ConnFree /\ Connect(r)))
          /\ SF_systemVars(Quietly(LockedStep(r)))
          /\ WF_systemVars(Quietly(~StatementWaits(r) /\ Statement(r)))
          /\ WF_systemVars(Quietly(OrphanRuns(r)))
    /\ SF_systemVars(Refreshing(BeginRefresh))
    /\ WF_systemVars(RefreshStep)
    /\ SF_systemVars(Refreshing(View!FinishPrices))
    /\ SF_systemVars(Refreshing(View!FinishBotPrices))
    /\ WF_systemVars(AbandonedStep)

FairSystemSpec == SystemSpec /\ SystemFairness

-----------------------------------------------------------------------------
(* Properties.                                                             *)

(***************************************************************************)
(* Seen from the block list, the process starts in one step and nobody     *)
(* else uses the pool: every step of the system is one of BlockList, or    *)
(* changes nothing BlockList speaks of.  In particular no task runs with a *)
(* block list that is not the one in the table (main.rs:42).               *)
(***************************************************************************)
ImplementsBlockList == Spec

\* Neither the table nor a view shows a listing of the user, and no refresh
\* under way has seen one, not even that of a process that is gone.
OutOfSight(u) ==
    /\ CleanlyBlocked(u)
    /\ \A rows \in {mv_prices, mv_bot_prices, refresh.rows, abandoned.rows} :
          ListingsOf(rows, u) = {}

(***************************************************************************)
(* Once the listings of a blocked user are out of the table and of the     *)
(* answers, none comes back until UnblockUser is called: neither by the    *)
(* stream and the refreshes, nor by the end of a task or the process, its  *)
(* start in steps, or a statement that the server finishes after that.     *)
(***************************************************************************)
BlockedStayOutOfSight ==
    [][\A u \in SteamIds :
          OutOfSight(u) => \/ OutOfSight(u)'
                           \/ \E r \in Requests : Call(r, "unblock", u)]_systemVars

(***************************************************************************)
(* "Their current and future trade listings will be removed"               *)
(* (block_user_service.proto:7) from the answers too: when a user stays    *)
(* blocked, both views are in the end free of their listings for good,     *)
(* however many refreshes fail, or saw the table before the block, that of *)
(* an earlier process among them.                                          *)
(***************************************************************************)
BlockedLeaveAnswers ==
    \A u \in SteamIds :
        <>[](running /\ CleanlyBlocked(u)) =>
            <>[](ListingsOf(mv_prices, u) \cup ListingsOf(mv_bot_prices, u) = {})

(***************************************************************************)
(* What settles in the table settles in both views: a row that stays as it *)
(* is, or stays out, is shown so in the end by mv_prices, and by           *)
(* mv_bot_prices if it is a bot's.                                         *)
(***************************************************************************)
ViewsFollowTable ==
    \A id \in ListingIds, row \in Listing \cup {NoListing} :
        <>[](running /\ trade_listings[id] = row) =>
            <>[](/\ mv_prices[id] = row
                 /\ mv_bot_prices[id] = BotRows(trade_listings)[id])
=============================================================================
