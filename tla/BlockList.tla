----------------------------- MODULE BlockList -----------------------------
(***************************************************************************)
(* Blocking users while the event stream is being written.                 *)
(*                                                                         *)
(* The actors are the websocket processing task (worker.rs), the handlers  *)
(* of BlockUser and UnblockUser requests (block_user_service.rs) and the   *)
(* TTL task (db/workers.rs).  They share the two tables of the database,   *)
(* the in-memory copy of blocked_users behind a tokio mutex, and the       *)
(* connection pool.  Between two steps of an actor lies an .await; what    *)
(* the code does between two awaits is one action.                         *)
(***************************************************************************)
EXTENDS Etl, FiniteSets

CONSTANTS
    Batches,     \* the batches the stream may deliver
    Requests,    \* the BlockUser and UnblockUser calls served at a time
    Worker,      \* the websocket processing task
    Nobody,      \* the holder of a free mutex
    PoolSize,    \* max_size of the connection pool
    Faults       \* which failures of the environment happen

(***************************************************************************)
(* The failures:                                                           *)
(*   "db"       a statement, or getting a connection, fails with no effect *)
(*   "lost_ack" a COMMIT takes effect but its reply is an error            *)
(*   "cancel"   the client goes away and the server drops the handler      *)
(*   "crash"    the process stops                                          *)
(***************************************************************************)
ASSUME BlockListAssumption ==
    /\ Batches \subseteq Seq(Event)
    /\ Worker \notin Requests
    /\ Nobody \notin Requests \cup {Worker}
    /\ PoolSize \in Nat \ {0}
    /\ Faults \subseteq {"db", "lost_ack", "cancel", "crash"}

VARIABLES
    blocked_users,           \* the table: the steam ids that have a row
    trade_listings,          \* the table: a row or NoListing for every id
    running,                 \* the process is up and has loaded its state
    blocked_user_steam_ids,  \* the set behind the mutex
    mutex,                   \* who holds that mutex
    conns,                   \* the actors that hold a pooled connection
    worker_pc,               \* where the processing task is
    batch,                   \* the batch it works on
    upserts, deletes,        \* positions of batch that passed the filters
    rpc,                     \* the request handlers
    doomed                   \* rows deleted by a transaction not yet committed

dbVars == <<blocked_users, trade_listings>>
workerVars == <<worker_pc, batch, upserts, deletes>>
rpcVars == <<rpc, doomed>>
vars == <<dbVars, running, blocked_user_steam_ids, mutex, conns,
          workerVars, rpcVars>>

WorkerStages ==
    {"reading", "locking", "connecting", "upserting", "deleting", "finishing"}

RpcStages ==
    {"connecting", "checking", "locking", "inserting", "deleting",
     "committing", "acking", "unblocking", "orphaned"}

\* A request being served, user being its steam_id, and a free handler.
Rpc == [pc : RpcStages, method : {"block", "unblock"}, user : SteamIds]
IdleRpc == [pc |-> "idle", method |-> "none", user |-> Nobody]

\* Every variable has its type; the partition in the hands of the processing
\* task is one of the batch it has (worker.rs:119-192).
TypeOK ==
    /\ blocked_users \subseteq SteamIds
    /\ trade_listings \in Tables
    /\ running \in BOOLEAN
    /\ blocked_user_steam_ids \subseteq SteamIds
    /\ mutex \in Requests \cup {Worker, Nobody}
    /\ conns \subseteq Requests \cup {Worker}
    /\ worker_pc \in WorkerStages
    /\ batch \in Batches \cup {<<>>}
    /\ upserts \subseteq DOMAIN batch
    /\ deletes \subseteq DOMAIN batch
    /\ rpc \in [Requests -> Rpc \cup {IdleRpc}]
    /\ doomed \in [Requests -> SUBSET ListingIds]

Init ==
    /\ blocked_users = {}
    /\ trade_listings = EmptyTable
    /\ running = FALSE
    /\ blocked_user_steam_ids = {}
    /\ mutex = Nobody
    /\ conns = {}
    /\ worker_pc = "reading"
    /\ batch = <<>>
    /\ upserts = {}
    /\ deletes = {}
    /\ rpc = [r \in Requests |-> IdleRpc]
    /\ doomed = [r \in Requests |-> {}]

-----------------------------------------------------------------------------
(* The process.                                                            *)

\* A faulty Start: the service forgets to load the block list.
StartUnloaded ==
    /\ ~running
    /\ running' = TRUE
    /\ blocked_user_steam_ids' = {}
    /\ UNCHANGED <<dbVars, mutex, conns, workerVars, rpcVars>>

\* main: the block list is loaded before any task or service is started.
Start ==
    /\ ~running
    /\ running' = TRUE
    /\ blocked_user_steam_ids' = blocked_users
    /\ UNCHANGED <<dbVars, mutex, conns, workerVars, rpcVars>>

\* The process stops: main returns because one of its tasks ended, or it is
\* killed.  An open transaction is rolled back.
Crash ==
    /\ running
    /\ "crash" \in Faults
    /\ running' = FALSE
    /\ blocked_user_steam_ids' = {}
    /\ mutex' = Nobody
    /\ conns' = {}
    /\ worker_pc' = "reading"
    /\ batch' = <<>>
    /\ upserts' = {}
    /\ deletes' = {}
    /\ rpc' = [r \in Requests |-> IdleRpc]
    /\ doomed' = [r \in Requests |-> {}]
    /\ UNCHANGED dbVars

-----------------------------------------------------------------------------
(* The database.                                                           *)

PoolHasRoom == Cardinality(conns) < PoolSize

\* Rows deleted by an open transaction: other statements on them wait.
LockedRows == UNION {doomed[r] : r \in Requests}

\* The transaction of r has inserted its row of blocked_users and is open.
HasInserted(r) ==
    /\ rpc[r].method = "block"
    /\ rpc[r].pc \in {"deleting", "committing", "orphaned"}

\* run_delete_ttl_listings_worker.  Which rows are old is left open here.
\* The task holds its connection for this statement only and takes no lock.
DeleteExpired(ids) ==
    /\ running
    /\ PoolHasRoom
    /\ ids \cap LockedRows = {}
    /\ trade_listings' = DeleteListings(trade_listings, ids)
    /\ UNCHANGED <<blocked_users, running, blocked_user_steam_ids, mutex,
                   conns, workerVars, rpcVars>>

-----------------------------------------------------------------------------
(* The processing task.                                                    *)

ReceiveBatch(b) ==
    /\ running
    /\ worker_pc = "reading"
    /\ batch' = b
    /\ worker_pc' = "locking"
    /\ UNCHANGED <<dbVars, running, blocked_user_steam_ids, mutex, conns,
                   upserts, deletes, rpcVars>>

\* A faulty FilterBatch: the guard is dropped after the filter has run.
FilterBatchUnguarded ==
    /\ worker_pc = "locking"
    /\ mutex = Nobody
    /\ upserts' = FilterUnique(batch, UpdatesIn(batch, blocked_user_steam_ids))
    /\ deletes' = DeletesIn(batch, blocked_user_steam_ids)
    /\ worker_pc' = "connecting"
    /\ UNCHANGED <<dbVars, running, blocked_user_steam_ids, mutex, conns,
                   batch, rpcVars>>

\* The mutex is taken, and its guard lives to the end of the iteration.
FilterBatch ==
    /\ worker_pc = "locking"
    /\ mutex = Nobody
    /\ mutex' = Worker
    /\ upserts' = FilterUnique(batch, UpdatesIn(batch, blocked_user_steam_ids))
    /\ deletes' = DeletesIn(batch, blocked_user_steam_ids)
    /\ worker_pc' = "connecting"
    /\ UNCHANGED <<dbVars, running, blocked_user_steam_ids, conns, batch,
                   rpcVars>>

WorkerConnect ==
    /\ worker_pc = "connecting"
    /\ PoolHasRoom
    /\ conns' = conns \cup {Worker}
    /\ worker_pc' = IF upserts # {} THEN "upserting"
                    ELSE IF deletes # {} THEN "deleting" ELSE "finishing"
    /\ UNCHANGED <<dbVars, running, blocked_user_steam_ids, mutex, batch,
                   upserts, deletes, rpcVars>>

Upsert ==
    /\ worker_pc = "upserting"
    /\ OneRowPerId(batch, upserts)
    /\ IdsOf(batch, upserts) \cap LockedRows = {}
    /\ trade_listings' = UpsertListings(trade_listings, batch, upserts)
    /\ worker_pc' = IF deletes # {} THEN "deleting" ELSE "finishing"
    /\ UNCHANGED <<blocked_users, running, blocked_user_steam_ids, mutex,
                   conns, batch, upserts, deletes, rpcVars>>

Delete ==
    /\ worker_pc = "deleting"
    /\ IdsOf(batch, deletes) \cap LockedRows = {}
    /\ trade_listings' = DeleteListings(trade_listings, IdsOf(batch, deletes))
    /\ worker_pc' = "finishing"
    /\ UNCHANGED <<blocked_users, running, blocked_user_steam_ids, mutex,
                   conns, batch, upserts, deletes, rpcVars>>

\* A faulty EndIteration: the mutex is not released.
EndIterationLocked ==
    /\ worker_pc' = "reading"
    /\ batch' = <<>>
    /\ upserts' = {}
    /\ deletes' = {}
    /\ conns' = conns \ {Worker}
    /\ UNCHANGED <<dbVars, running, blocked_user_steam_ids, mutex, rpcVars>>

\* A faulty EndIteration: what was filtered outlives its batch.
EndIterationStale ==
    /\ worker_pc' = "reading"
    /\ batch' = <<>>
    /\ mutex' = Nobody
    /\ conns' = conns \ {Worker}
    /\ UNCHANGED <<dbVars, running, blocked_user_steam_ids, upserts, deletes,
                   rpcVars>>

\* The end of an iteration, reached normally or by a continue: the mutex
\* guard and the connection are dropped.
EndIteration ==
    /\ worker_pc' = "reading"
    /\ batch' = <<>>
    /\ upserts' = {}
    /\ deletes' = {}
    /\ mutex' = Nobody
    /\ conns' = conns \ {Worker}
    /\ UNCHANGED <<dbVars, running, blocked_user_steam_ids, rpcVars>>

FinishBatch == worker_pc = "finishing" /\ EndIteration

\* "Skipping this batch of events."
SkipBatch ==
    /\ \/ worker_pc \in {"connecting", "upserting", "deleting"} /\ "db" \in Faults
       \/ worker_pc = "upserting" /\ ~OneRowPerId(batch, upserts)
    /\ EndIteration

-----------------------------------------------------------------------------
(* The request handlers.                                                   *)

Goto(r, stage) == rpc' = [rpc EXCEPT ![r].pc = stage]

\* A faulty Release: the mutex stays with a handler that is gone.
ReleaseLocked(r) ==
    /\ mutex' = mutex
    /\ conns' = conns \ {r}
    /\ doomed' = [doomed EXCEPT ![r] = {}]

\* The handler returns, or is dropped: whatever it holds is released, and a
\* transaction it has open is rolled back.
Release(r) ==
    /\ mutex' = IF mutex = r THEN Nobody ELSE mutex
    /\ conns' = conns \ {r}
    /\ doomed' = [doomed EXCEPT ![r] = {}]

Respond(r) == Release(r) /\ rpc' = [rpc EXCEPT ![r] = IdleRpc]

Call(r, method, user) ==
    /\ running
    /\ rpc[r].pc = "idle"
    /\ rpc' = [rpc EXCEPT ![r] =
                  [pc |-> "connecting", method |-> method, user |-> user]]
    /\ UNCHANGED <<dbVars, running, blocked_user_steam_ids, mutex, conns,
                   workerVars, doomed>>

Connect(r) ==
    /\ rpc[r].pc = "connecting"
    /\ PoolHasRoom
    /\ conns' = conns \cup {r}
    /\ Goto(r, IF rpc[r].method = "block" THEN "checking" ELSE "unblocking")
    /\ UNCHANGED <<dbVars, running, blocked_user_steam_ids, mutex, workerVars,
                   doomed>>

(***************************************************************************)
(* block_user.                                                             *)
(***************************************************************************)
FindNotBlocked(r) ==
    /\ rpc[r].pc = "checking"
    /\ rpc[r].user \notin blocked_users
    /\ Goto(r, "locking")
    /\ UNCHANGED <<dbVars, running, blocked_user_steam_ids, mutex, conns,
                   workerVars, doomed>>

FindAlreadyBlocked(r) ==
    /\ rpc[r].pc = "checking"
    /\ rpc[r].user \in blocked_users
    /\ Respond(r)
    /\ UNCHANGED <<dbVars, running, blocked_user_steam_ids, workerVars>>

\* A faulty LockBlockList: the transaction runs without the mutex.
LockNothing(r) ==
    /\ rpc[r].pc = "locking"
    /\ rpc[r].method = "block"
    /\ Goto(r, "inserting")
    /\ UNCHANGED <<dbVars, running, blocked_user_steam_ids, mutex, conns,
                   workerVars, doomed>>

LockBlockList(r) ==
    /\ rpc[r].pc = "locking"
    /\ rpc[r].method = "block"
    /\ mutex = Nobody
    /\ mutex' = r
    /\ Goto(r, "inserting")
    /\ UNCHANGED <<dbVars, running, blocked_user_steam_ids, conns, workerVars,
                   doomed>>

\* The INSERT waits for an open transaction that has inserted the same key.
InsertWaits(r) ==
    \E s \in Requests \ {r} : HasInserted(s) /\ rpc[s].user = rpc[r].user

InsertBlockedUser(r) ==
    /\ rpc[r].pc = "inserting"
    /\ ~InsertWaits(r)
    /\ rpc[r].user \notin blocked_users
    /\ Goto(r, "deleting")
    /\ UNCHANGED <<dbVars, running, blocked_user_steam_ids, mutex, conns,
                   workerVars, doomed>>

\* The user was blocked since the check: the primary key is violated.
InsertDuplicate(r) ==
    /\ rpc[r].pc = "inserting"
    /\ ~InsertWaits(r)
    /\ rpc[r].user \in blocked_users
    /\ Respond(r)
    /\ UNCHANGED <<dbVars, running, blocked_user_steam_ids, workerVars>>

\* A faulty DeleteTheirListings: the listings are left where they are.
DeleteNoListing(r) ==
    /\ rpc[r].pc = "deleting"
    /\ Goto(r, "committing")
    /\ UNCHANGED <<dbVars, running, blocked_user_steam_ids, mutex, conns,
                   workerVars, doomed>>

DeleteTheirListings(r) ==
    /\ rpc[r].pc = "deleting"
    /\ ListingsOf(trade_listings, rpc[r].user) \cap LockedRows = {}
    /\ doomed' = [doomed EXCEPT ![r] = ListingsOf(trade_listings, rpc[r].user)]
    /\ Goto(r, "committing")
    /\ UNCHANGED <<dbVars, running, blocked_user_steam_ids, mutex, conns,
                   workerVars>>

\* What a COMMIT does in the database.
CommitEffect(r) ==
    /\ blocked_users' = blocked_users \cup {rpc[r].user}
    /\ trade_listings' = DeleteListings(trade_listings, doomed[r])
    /\ doomed' = [doomed EXCEPT ![r] = {}]

Commit(r) ==
    /\ rpc[r].pc = "committing"
    /\ CommitEffect(r)
    /\ Goto(r, "acking")
    /\ UNCHANGED <<running, blocked_user_steam_ids, mutex, conns, workerVars>>

\* The reply to COMMIT arrives: the set is updated and the mutex released.
BlockSucceeds(r) ==
    /\ rpc[r].pc = "acking"
    /\ blocked_user_steam_ids' = blocked_user_steam_ids \cup {rpc[r].user}
    /\ Respond(r)
    /\ UNCHANGED <<dbVars, running, workerVars>>

\* The reply is an error: the handler returns before it updates the set.
LoseCommitReply(r) ==
    /\ rpc[r].pc = "acking"
    /\ "lost_ack" \in Faults
    /\ Respond(r)
    /\ UNCHANGED <<dbVars, running, blocked_user_steam_ids, workerVars>>

(***************************************************************************)
(* unblock_user.                                                           *)
(***************************************************************************)
DeleteBlockedUser(r) ==
    /\ rpc[r].pc = "unblocking"
    /\ blocked_users' = blocked_users \ {rpc[r].user}
    /\ Goto(r, "locking")
    /\ UNCHANGED <<trade_listings, running, blocked_user_steam_ids, mutex,
                   conns, workerVars, doomed>>

\* A faulty UnblockSucceeds: the set keeps the user.
UnblockTableOnly(r) ==
    /\ rpc[r].pc = "locking"
    /\ rpc[r].method = "unblock"
    /\ mutex = Nobody
    /\ Respond(r)
    /\ UNCHANGED <<dbVars, running, blocked_user_steam_ids, workerVars>>

\* The set is changed and the mutex released without a further await.
UnblockSucceeds(r) ==
    /\ rpc[r].pc = "locking"
    /\ rpc[r].method = "unblock"
    /\ mutex = Nobody
    /\ blocked_user_steam_ids' = blocked_user_steam_ids \ {rpc[r].user}
    /\ Respond(r)
    /\ UNCHANGED <<dbVars, running, workerVars>>

(***************************************************************************)
(* Failures and cancellation of either handler.                            *)
(***************************************************************************)
Fail(r) ==
    /\ rpc[r].pc \in {"connecting", "checking", "inserting", "deleting",
                      "committing", "unblocking"}
    /\ "db" \in Faults
    /\ Respond(r)
    /\ UNCHANGED <<dbVars, running, blocked_user_steam_ids, workerVars>>

\* The handler is dropped at an await.  A COMMIT, or the DELETE of an
\* unblock, that is on its way to the server may still be executed there.
Cancel(r) ==
    /\ rpc[r].pc \notin {"idle", "orphaned"}
    /\ "cancel" \in Faults
    /\ \/ Respond(r)
       \/ /\ rpc[r].pc \in {"committing", "unblocking"}
          /\ mutex' = IF mutex = r THEN Nobody ELSE mutex
          /\ conns' = conns \ {r}
          /\ Goto(r, "orphaned")
          /\ UNCHANGED doomed
    /\ UNCHANGED <<dbVars, running, blocked_user_steam_ids, workerVars>>

\* The server executes the statement of a handler that is gone.
OrphanRuns(r) ==
    /\ rpc[r].pc = "orphaned"
    /\ \/ rpc[r].method = "block" /\ CommitEffect(r)
       \/ /\ rpc[r].method = "unblock"
          /\ blocked_users' = blocked_users \ {rpc[r].user}
          /\ UNCHANGED <<trade_listings, doomed>>
    /\ rpc' = [rpc EXCEPT ![r] = IdleRpc]
    /\ UNCHANGED <<running, blocked_user_steam_ids, mutex, conns, workerVars>>

-----------------------------------------------------------------------------
WorkerStatement == Upsert \/ Delete \/ FinishBatch \/ SkipBatch

Statement(r) ==
    \/ FindNotBlocked(r) \/ FindAlreadyBlocked(r)
    \/ InsertBlockedUser(r) \/ InsertDuplicate(r) \/ DeleteTheirListings(r)
    \/ Commit(r) \/ BlockSucceeds(r) \/ LoseCommitReply(r)
    \/ DeleteBlockedUser(r) \/ Fail(r)

\* No reply is due as long as the pool is empty or a row is locked.
WorkerWaits ==
    \/ worker_pc = "connecting"
    \/ worker_pc = "upserting" /\ IdsOf(batch, upserts) \cap LockedRows # {}
    \/ worker_pc = "deleting" /\ IdsOf(batch, deletes) \cap LockedRows # {}

StatementWaits(r) ==
    \/ rpc[r].pc = "connecting"
    \/ rpc[r].pc = "inserting" /\ InsertWaits(r)
    \/ /\ rpc[r].pc = "deleting"
       /\ ListingsOf(trade_listings, rpc[r].user) \cap LockedRows # {}

LockedStep(r) == LockBlockList(r) \/ UnblockSucceeds(r)

Next ==
    \/ Start
    \/ Crash
    \/ \E ids \in SUBSET ListingIds : DeleteExpired(ids)
    \/ \E b \in Batches : ReceiveBatch(b)
    \/ FilterBatch
    \/ WorkerConnect
    \/ WorkerStatement
    \/ \E r \in Requests :
          \/ \E method \in {"block", "unblock"}, user \in SteamIds :
                Call(r, method, user)
          \/ Connect(r)
          \/ LockedStep(r)
          \/ Statement(r)
          \/ Cancel(r)
          \/ OrphanRuns(r)

Spec == Init /\ [][Next]_vars

(***************************************************************************)
(* A task that can run is run, and a statement that waits for nothing gets *)
(* its reply, be it an error: who waits is not sure to fail.  The tokio    *)
(* mutex and the pool's semaphore serve their waiters in order, so waiting *)
(* for them is strongly fair.  Nothing is assumed of the clients, of the   *)
(* stream or of a restart.                                                 *)
(***************************************************************************)
Fairness ==
    /\ SF_vars(FilterBatch)
    /\ SF_vars(WorkerConnect)
    /\ WF_vars(~WorkerWaits /\ WorkerStatement)
    /\ \A r \in Requests :
          /\ SF_vars(Connect(r))
          /\ SF_vars(LockedStep(r))
          /\ WF_vars(~StatementWaits(r) /\ Statement(r))
          /\ WF_vars(OrphanRuns(r))

FairSpec == Spec /\ Fairness

\* An assumption about the clients: a BlockUser and an UnblockUser of one user
\* are not served at the same time.
RequestsApart ==
    \A r, s \in Requests :
        rpc[r].method = "block" /\ rpc[s].method = "unblock" =>
            rpc[r].user # rpc[s].user

OrderlySpec == Init /\ [][Next /\ RequestsApart']_vars

-----------------------------------------------------------------------------
(* Properties.                                                             *)

(***************************************************************************)
(* When the upsert is sent, no event of it is by a user who is in the      *)
(* block list at that moment: the verdict of the filter is still valid,    *)
(* although a connection was awaited since.  worker.rs:119 takes the mutex *)
(* and keeps its guard until the end of the iteration.                     *)
(***************************************************************************)
VerdictStillValid ==
    worker_pc \in {"connecting", "upserting"} =>
        \A i \in upserts : batch[i].steamid \notin blocked_user_steam_ids

(***************************************************************************)
(* The multi-row upsert never names an id twice, so PostgreSQL never       *)
(* rejects a batch because of the batch itself.                            *)
(***************************************************************************)
UpsertHasOneRowPerId == OneRowPerId(batch, upserts)

Unblocking(u) ==
    \E r \in Requests : rpc[r].method = "unblock" /\ rpc[r].user = u

\* u is blocked in the database and in memory, has no listing, and no
\* request that unblocks u is being served.
CleanlyBlocked(u) ==
    /\ u \in blocked_users
    /\ running => u \in blocked_user_steam_ids
    /\ ListingsOf(trade_listings, u) = {}
    /\ ~Unblocking(u)

(***************************************************************************)
(* "Their current and future trade listings will be removed": a block that *)
(* took hold stays in force, and the user without a listing, through every *)
(* failed statement, dropped request, crash and restart, until the next    *)
(* call of UnblockUser for that user.                                      *)
(***************************************************************************)
BlockStaysInForce ==
    [][\A u \in SteamIds :
          CleanlyBlocked(u) => \/ CleanlyBlocked(u)'
                               \/ \E r \in Requests : Call(r, "unblock", u)]_vars

(***************************************************************************)
(* A BlockUser that answers success leaves the user cleanly blocked, if no *)
(* unblocking of that user has deleted the row meanwhile or is under way:  *)
(* none of the listings the user had, and none that arrived while the      *)
(* transaction was open, is left.                                          *)
(***************************************************************************)
SuccessLeavesNoListing ==
    [][\A r \in Requests, u \in SteamIds :
          /\ BlockSucceeds(r)
          /\ rpc[r].user = u
          /\ u \in blocked_users
          /\ ~Unblocking(u)
          => CleanlyBlocked(u)']_vars

(***************************************************************************)
(* What the service says of BlockUser, as a predicate of the tables: a     *)
(* user who has a row in blocked_users has no listing.                     *)
(***************************************************************************)
BlockedUsersHaveNoListing ==
    \A u \in blocked_users : ListingsOf(trade_listings, u) = {}

(***************************************************************************)
(* The tables go through the states that BlockPolicy allows, as long as    *)
(* the requests stay apart: BlockUser and UnblockUser look atomic, however *)
(* they interleave with each other, with the stream, the TTL task,         *)
(* failures and restarts.                                                  *)
(***************************************************************************)
Policy == INSTANCE BlockPolicy WITH blocked <- blocked_users,
                                    listings <- trade_listings

ImplementsPolicy == Policy!PolicySpec

(***************************************************************************)
(* When no request is being served, the set the filter uses is the table   *)
(* it is a copy of.                                                        *)
(***************************************************************************)
CopyAgreesAtRest ==
    running /\ (\A r \in Requests : rpc[r] = IdleRpc) =>
        blocked_user_steam_ids = blocked_users

(***************************************************************************)
(* Every batch that was received is finished or skipped.                   *)
(***************************************************************************)
BatchesEnd == worker_pc # "reading" ~> worker_pc = "reading"

(***************************************************************************)
(* Every request is answered.                                              *)
(***************************************************************************)
RequestsEnd ==
    \A r \in Requests : rpc[r].pc # "idle" ~> rpc[r].pc = "idle"
=============================================================================
