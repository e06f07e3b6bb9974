-------------------------- MODULE BlockListProofs --------------------------
(***************************************************************************)
(* Theorems about BlockList, for every number of users, listings, requests *)
(* and connections, every stream and every combination of the failures.    *)
(***************************************************************************)
EXTENDS BlockList, EtlProofs, TLAPS

-----------------------------------------------------------------------------
(***************************************************************************)
(* The inductive invariant.                                                *)
(***************************************************************************)

\* Outside of the guarded part of an iteration nothing is filtered.
NothingFiltered ==
    worker_pc \in {"reading", "locking"} => upserts = {} /\ deletes = {}

\* The mutex is held by the actor that is in its critical section.
GuardedStages == {"connecting", "upserting", "deleting", "finishing"}
LockedStages == {"inserting", "deleting", "committing", "acking"}

MutexHolder ==
    /\ worker_pc \in GuardedStages <=> mutex = Worker
    /\ \A r \in Requests : rpc[r].pc \in LockedStages <=> mutex = r

\* The stages that only one of the two methods goes through.
MethodStages ==
    \A r \in Requests :
        /\ rpc[r].pc \in LockedStages \cup {"checking"} => rpc[r].method = "block"
        /\ rpc[r].pc = "unblocking" => rpc[r].method = "unblock"

\* A process that is down is doing nothing and remembers nothing.  What the
\* server still has of a handler that is gone ends with the process.
DownIsIdle ==
    ~running => /\ worker_pc = "reading"
                /\ \A r \in Requests : rpc[r] = IdleRpc
                /\ blocked_user_steam_ids = {}

\* From its DELETE on, a transaction knows of all listings of its user.
NoneEscapes ==
    \A r \in Requests :
        /\ rpc[r].pc = "committing" =>
              ListingsOf(trade_listings, rpc[r].user) \subseteq doomed[r]
        /\ rpc[r].pc = "acking" =>
              ListingsOf(trade_listings, rpc[r].user) = {}

IInv ==
    /\ TypeOK
    /\ NothingFiltered
    /\ MutexHolder
    /\ MethodStages
    /\ DownIsIdle
    /\ VerdictStillValid
    /\ UpsertHasOneRowPerId
    /\ NoneEscapes

-----------------------------------------------------------------------------
(* Types.                                                                  *)

LEMMA TypeInit == Init => TypeOK
BY BlockListAssumption DEF Init, TypeOK, WorkerStages, Tables, EmptyTable

LEMMA FilteredArePositions ==
    ASSUME NEW b, NEW blocked
    PROVE  /\ FilterUnique(b, UpdatesIn(b, blocked)) \subseteq DOMAIN b
           /\ DeletesIn(b, blocked) \subseteq DOMAIN b
BY DEF FilterUnique, UpdatesIn, DeletesIn

\* The steps that move a handler keep rpc well typed.
LEMMA GotoType ==
    ASSUME TypeOK, NEW r \in Requests, rpc[r].pc # "idle",
           NEW stage \in RpcStages, Goto(r, stage)
    PROVE  rpc' \in [Requests -> Rpc \cup {IdleRpc}]
<1>1. rpc[r] \in Rpc
  BY DEF TypeOK, IdleRpc
<1>2. [rpc[r] EXCEPT !.pc = stage] \in Rpc
  BY <1>1 DEF Rpc
<1> QED
  BY <1>2 DEF Goto, TypeOK

LEMMA GotoMoves ==
    ASSUME TypeOK, NEW r \in Requests, rpc[r].pc # "idle", NEW stage,
           Goto(r, stage)
    PROVE  /\ rpc'[r].pc = stage
           /\ rpc'[r].method = rpc[r].method
           /\ rpc'[r].user = rpc[r].user
           /\ \A s \in Requests \ {r} : rpc'[s] = rpc[s]
<1>1. rpc[r] \in Rpc
  BY DEF TypeOK, IdleRpc
<1> QED
  BY <1>1 DEF Goto, TypeOK, Rpc

LEMMA RespondFrees ==
    ASSUME TypeOK, NEW r \in Requests, Respond(r) \/ OrphanRuns(r)
    PROVE  /\ rpc'[r] = IdleRpc
           /\ \A s \in Requests \ {r} : rpc'[s] = rpc[s]
BY DEF Respond, OrphanRuns, TypeOK

LEMMA RespondType ==
    ASSUME TypeOK, NEW r \in Requests, Respond(r)
    PROVE  /\ rpc' \in [Requests -> Rpc \cup {IdleRpc}]
           /\ mutex' \in Requests \cup {Worker, Nobody}
           /\ conns' \subseteq Requests \cup {Worker}
           /\ doomed' \in [Requests -> SUBSET ListingIds]
BY DEF Respond, Release, TypeOK

LEMMA TypeStep == TypeOK /\ NothingFiltered /\ [Next]_vars => TypeOK'
<1> SUFFICES ASSUME TypeOK, NothingFiltered, [Next]_vars PROVE TypeOK'
  OBVIOUS
<1> USE BlockListAssumption DEF WorkerStages, RpcStages, dbVars, workerVars, rpcVars
<1>0. batch \in Seq(Event)
  <2>1. <<>> \in Seq(Event)
    OBVIOUS
  <2> QED
    BY <2>1 DEF TypeOK
<1>1. CASE Start
  BY <1>1 DEF Start, TypeOK
<1>2. CASE Crash
  <2>1. IdleRpc \in Rpc \cup {IdleRpc}
    OBVIOUS
  <2> QED
    BY <1>2, <2>1 DEF Crash, TypeOK
<1>3. ASSUME NEW ids \in SUBSET ListingIds, DeleteExpired(ids)
      PROVE  TypeOK'
  BY <1>3, DeleteType DEF DeleteExpired, TypeOK
<1>4. ASSUME NEW b \in Batches, ReceiveBatch(b)
      PROVE  TypeOK'
  BY <1>4 DEF ReceiveBatch, NothingFiltered, TypeOK
<1>5. CASE FilterBatch
  BY <1>5, FilteredArePositions DEF FilterBatch, TypeOK
<1>6. CASE WorkerConnect
  BY <1>6 DEF WorkerConnect, TypeOK
<1>7. CASE Upsert
  BY <1>7, <1>0, UpsertType DEF Upsert, TypeOK
<1>8. CASE Delete
  BY <1>8, DeleteType DEF Delete, TypeOK
<1>9. CASE FinishBatch \/ SkipBatch
  BY <1>9 DEF FinishBatch, SkipBatch, EndIteration, TypeOK
<1>10. ASSUME NEW r \in Requests, NEW method \in {"block", "unblock"},
              NEW user \in SteamIds, Call(r, method, user)
       PROVE  TypeOK'
  <2>1. [pc |-> "connecting", method |-> method, user |-> user] \in Rpc
    BY DEF Rpc
  <2> QED
    BY <1>10, <2>1 DEF Call, TypeOK
<1>11. ASSUME NEW r \in Requests, Connect(r)
       PROVE  TypeOK'
  BY <1>11, GotoType DEF Connect, TypeOK
<1>12. ASSUME NEW r \in Requests,
              \/ FindNotBlocked(r) \/ LockBlockList(r)
              \/ InsertBlockedUser(r) \/ DeleteTheirListings(r)
              \/ Commit(r) \/ DeleteBlockedUser(r)
       PROVE  TypeOK'
  <2>1. rpc' \in [Requests -> Rpc \cup {IdleRpc}]
    BY <1>12, GotoType DEF FindNotBlocked, LockBlockList, InsertBlockedUser,
       DeleteTheirListings, Commit, DeleteBlockedUser
  <2>2. rpc[r].pc # "idle" => rpc[r].user \in SteamIds
    BY DEF TypeOK, Rpc, IdleRpc
  <2>3. CASE Commit(r)
    BY <2>1, <2>2, <2>3, DeleteType DEF Commit, CommitEffect, TypeOK
  <2>4. CASE DeleteTheirListings(r)
    BY <2>1, <2>4 DEF DeleteTheirListings, ListingsOf, TypeOK
  <2>5. CASE DeleteBlockedUser(r)
    BY <2>1, <2>5 DEF DeleteBlockedUser, TypeOK
  <2>6. CASE FindNotBlocked(r) \/ LockBlockList(r) \/ InsertBlockedUser(r)
    BY <2>1, <2>6 DEF FindNotBlocked, LockBlockList, InsertBlockedUser, TypeOK
  <2> QED
    BY <1>12, <2>3, <2>4, <2>5, <2>6
<1>13. ASSUME NEW r \in Requests,
              \/ FindAlreadyBlocked(r) \/ InsertDuplicate(r)
              \/ LoseCommitReply(r) \/ Fail(r)
       PROVE  TypeOK'
  BY <1>13, RespondType DEF FindAlreadyBlocked, InsertDuplicate,
     LoseCommitReply, Fail, TypeOK
<1>14. ASSUME NEW r \in Requests, BlockSucceeds(r) \/ UnblockSucceeds(r)
       PROVE  TypeOK'
  <2>1. rpc[r].user \in SteamIds
    BY <1>14 DEF BlockSucceeds, UnblockSucceeds, TypeOK, Rpc, IdleRpc
  <2> QED
    BY <1>14, <2>1, RespondType DEF BlockSucceeds, UnblockSucceeds, TypeOK
<1>15. ASSUME NEW r \in Requests, Cancel(r)
       PROVE  TypeOK'
  <2>1. CASE Respond(r)
    BY <1>15, <2>1, RespondType DEF Cancel, TypeOK
  <2>2. CASE Goto(r, "orphaned") /\ ~Respond(r)
    <3>1. rpc' \in [Requests -> Rpc \cup {IdleRpc}]
      BY <1>15, <2>2, GotoType DEF Cancel
    <3> QED
      BY <1>15, <2>2, <3>1 DEF Cancel, TypeOK
  <2> QED
    BY <1>15, <2>1, <2>2 DEF Cancel
<1>16. ASSUME NEW r \in Requests, OrphanRuns(r)
       PROVE  TypeOK'
  <2>1. rpc[r].user \in SteamIds
    BY <1>16 DEF OrphanRuns, TypeOK, Rpc, IdleRpc
  <2>2. rpc' \in [Requests -> Rpc \cup {IdleRpc}]
    BY <1>16 DEF OrphanRuns, TypeOK
  <2>3. CASE CommitEffect(r)
    BY <1>16, <2>1, <2>2, <2>3, DeleteType DEF OrphanRuns, CommitEffect, TypeOK
  <2>4. CASE ~CommitEffect(r)
    BY <1>16, <2>2, <2>4 DEF OrphanRuns, TypeOK
  <2> QED
    BY <2>3, <2>4
<1>17. CASE UNCHANGED vars
  BY <1>17 DEF vars, TypeOK
<1> QED
  BY <1>1, <1>2, <1>3, <1>4, <1>5, <1>6, <1>7, <1>8, <1>9, <1>10, <1>11,
     <1>12, <1>13, <1>14, <1>15, <1>16, <1>17
     DEF Next, WorkerStatement, Statement, LockedStep

-----------------------------------------------------------------------------
(* The other parts of the invariant, each from the parts it rests on.      *)

LEMMA NothingFilteredStep ==
    TypeOK /\ NothingFiltered /\ [Next]_vars => NothingFiltered'
<1> SUFFICES ASSUME TypeOK, NothingFiltered, [Next]_vars PROVE NothingFiltered'
  OBVIOUS
<1> USE DEF NothingFiltered, dbVars, workerVars, rpcVars
<1>1. CASE UNCHANGED workerVars
  BY <1>1
<1>2. ASSUME NEW b \in Batches, ReceiveBatch(b)
      PROVE  NothingFiltered'
  BY <1>2 DEF ReceiveBatch
<1>3. CASE Crash \/ FilterBatch \/ WorkerConnect \/ Upsert \/ Delete
  BY <1>3 DEF Crash, FilterBatch, WorkerConnect, Upsert, Delete
<1>4. CASE FinishBatch \/ SkipBatch
  BY <1>4 DEF FinishBatch, SkipBatch, EndIteration
<1> QED
  BY <1>1, <1>2, <1>3, <1>4 DEF Next, WorkerStatement, Statement, LockedStep,
     vars, Start, DeleteExpired, Call, Connect, FindNotBlocked,
     FindAlreadyBlocked, LockBlockList, InsertBlockedUser, InsertDuplicate,
     DeleteTheirListings, Commit, BlockSucceeds, LoseCommitReply,
     DeleteBlockedUser, UnblockSucceeds, Fail, Cancel, OrphanRuns

LEMMA MutexHolderStep ==
    TypeOK /\ MutexHolder /\ [Next]_vars => MutexHolder'
<1> SUFFICES ASSUME TypeOK, MutexHolder, [Next]_vars PROVE MutexHolder'
  OBVIOUS
<1> USE BlockListAssumption
    DEF MutexHolder, GuardedStages, LockedStages, dbVars, workerVars, rpcVars
<1>0. rpc \in [Requests -> Rpc \cup {IdleRpc}]
  BY DEF TypeOK
<1>1. CASE UNCHANGED <<mutex, worker_pc, rpc>>
  BY <1>1
<1>2. CASE Crash
  BY <1>2 DEF Crash, IdleRpc
<1>3. ASSUME NEW b \in Batches, ReceiveBatch(b)
      PROVE  MutexHolder'
  BY <1>3 DEF ReceiveBatch
<1>4. CASE FilterBatch
  BY <1>4 DEF FilterBatch
<1>5. CASE WorkerConnect \/ Upsert \/ Delete
  BY <1>5 DEF WorkerConnect, Upsert, Delete
<1>6. CASE FinishBatch \/ SkipBatch
  BY <1>6 DEF FinishBatch, SkipBatch, EndIteration
<1>7. ASSUME NEW r \in Requests, NEW method \in {"block", "unblock"},
             NEW user \in SteamIds, Call(r, method, user)
      PROVE  MutexHolder'
  BY <1>0, <1>7 DEF Call
<1>8. ASSUME NEW r \in Requests,
             Connect(r) \/ FindNotBlocked(r) \/ DeleteBlockedUser(r)
      PROVE  MutexHolder'
  <2>1. ASSUME NEW stage, stage \notin LockedStages, Goto(r, stage),
               rpc[r].pc \notin LockedStages \cup {"idle"},
               UNCHANGED <<mutex, worker_pc>>
        PROVE  MutexHolder'
    BY <2>1, GotoMoves
  <2>2. CASE Connect(r)
    BY <2>1, <2>2 DEF Connect
  <2>3. CASE FindNotBlocked(r) \/ DeleteBlockedUser(r)
    BY <2>1, <2>3 DEF FindNotBlocked, DeleteBlockedUser
  <2> QED
    BY <1>8, <2>2, <2>3
<1>9. ASSUME NEW r \in Requests, LockBlockList(r)
      PROVE  MutexHolder'
  BY <1>9, GotoMoves DEF LockBlockList
<1>10. ASSUME NEW r \in Requests,
              InsertBlockedUser(r) \/ DeleteTheirListings(r) \/ Commit(r)
       PROVE  MutexHolder'
  <2>1. ASSUME NEW stage \in LockedStages, Goto(r, stage),
               rpc[r].pc \in LockedStages, UNCHANGED <<mutex, worker_pc>>
        PROVE  MutexHolder'
    BY <2>1, GotoMoves
  <2>2. CASE InsertBlockedUser(r)
    BY <2>1, <2>2 DEF InsertBlockedUser
  <2>3. CASE DeleteTheirListings(r) \/ Commit(r)
    BY <2>1, <2>3 DEF DeleteTheirListings, Commit
  <2> QED
    BY <1>10, <2>2, <2>3
<1>11. ASSUME NEW r \in Requests, Respond(r), UNCHANGED worker_pc
       PROVE  MutexHolder'
  BY <1>0, <1>11 DEF Respond, Release, IdleRpc
<1>12. ASSUME NEW r \in Requests, Cancel(r)
       PROVE  MutexHolder'
  <2>1. CASE Respond(r)
    BY <1>11, <1>12, <2>1 DEF Cancel
  <2>2. CASE Goto(r, "orphaned") /\ ~Respond(r)
    BY <1>12, <2>2, GotoMoves DEF Cancel
  <2> QED
    BY <1>12, <2>1, <2>2 DEF Cancel
<1>13. ASSUME NEW r \in Requests, OrphanRuns(r)
       PROVE  MutexHolder'
  BY <1>0, <1>13 DEF OrphanRuns, IdleRpc
<1> QED
  BY <1>1, <1>2, <1>3, <1>4, <1>5, <1>6, <1>7, <1>8, <1>9, <1>10, <1>11,
     <1>12, <1>13 DEF Next, WorkerStatement, Statement, LockedStep, vars,
     Start, DeleteExpired, FindAlreadyBlocked, InsertDuplicate,
     BlockSucceeds, LoseCommitReply, UnblockSucceeds, Fail

LEMMA MethodStagesStep ==
    TypeOK /\ MethodStages /\ [Next]_vars => MethodStages'
<1> SUFFICES ASSUME TypeOK, MethodStages, [Next]_vars PROVE MethodStages'
  OBVIOUS
<1> USE DEF MethodStages, LockedStages, dbVars, workerVars, rpcVars
<1>0. rpc \in [Requests -> Rpc \cup {IdleRpc}]
  BY DEF TypeOK
<1>1. CASE UNCHANGED rpc
  BY <1>1
<1>2. CASE Crash
  BY <1>2 DEF Crash, IdleRpc
<1>3. ASSUME NEW r \in Requests, NEW method \in {"block", "unblock"},
             NEW user \in SteamIds, Call(r, method, user)
      PROVE  MethodStages'
  BY <1>0, <1>3 DEF Call
<1>4. ASSUME NEW r \in Requests, Connect(r)
      PROVE  MethodStages'
  <2>1. rpc[r] \in Rpc
    BY <1>0, <1>4 DEF Connect, IdleRpc
  <2> QED
    BY <1>0, <1>4, <2>1 DEF Connect, Goto, Rpc
<1>5. ASSUME NEW r \in Requests,
             \/ FindNotBlocked(r) \/ LockBlockList(r) \/ InsertBlockedUser(r)
             \/ DeleteTheirListings(r) \/ Commit(r) \/ DeleteBlockedUser(r)
      PROVE  MethodStages'
  <2>1. ASSUME NEW stage, Goto(r, stage), rpc[r].pc # "idle",
               \/ rpc[r].method = "block" /\ stage # "unblocking"
               \/ stage = "locking"
        PROVE  MethodStages'
    BY <2>1, GotoMoves
  <2>2. CASE FindNotBlocked(r) \/ DeleteBlockedUser(r)
    BY <2>1, <2>2 DEF FindNotBlocked, DeleteBlockedUser
  <2>3. CASE LockBlockList(r) \/ InsertBlockedUser(r)
    BY <2>1, <2>3 DEF LockBlockList, InsertBlockedUser
  <2>4. CASE DeleteTheirListings(r) \/ Commit(r)
    BY <2>1, <2>4 DEF DeleteTheirListings, Commit
  <2> QED
    BY <1>5, <2>2, <2>3, <2>4
<1>6. ASSUME NEW r \in Requests, Respond(r) \/ OrphanRuns(r) \/ Cancel(r)
      PROVE  MethodStages'
  <2>1. CASE Respond(r) \/ OrphanRuns(r)
    BY <2>1, RespondFrees DEF IdleRpc
  <2>2. CASE Cancel(r) /\ Goto(r, "orphaned")
    BY <2>2, GotoMoves DEF Cancel
  <2> QED
    BY <1>6, <2>1, <2>2 DEF Cancel
<1> QED
  BY <1>1, <1>2, <1>3, <1>4, <1>5, <1>6 DEF Next, WorkerStatement, Statement,
     LockedStep, vars, Start, DeleteExpired, ReceiveBatch, FilterBatch,
     WorkerConnect, Upsert, Delete, FinishBatch, SkipBatch, EndIteration,
     FindAlreadyBlocked, InsertDuplicate, BlockSucceeds, LoseCommitReply,
     UnblockSucceeds, Fail

LEMMA DownIsIdleStep ==
    TypeOK /\ DownIsIdle /\ [Next]_vars => DownIsIdle'
<1> SUFFICES ASSUME TypeOK, DownIsIdle, [Next]_vars PROVE DownIsIdle'
  OBVIOUS
<1> USE DEF DownIsIdle, dbVars, workerVars, rpcVars
<1>1. CASE running'
  BY <1>1
<1>2. CASE Crash
  BY <1>2 DEF Crash
<1>3. CASE UNCHANGED vars
  BY <1>3 DEF vars
<1>4. CASE ~running /\ ~running' /\ Next
  <2>1. ~\E r \in Requests : rpc[r].pc # "idle"
    BY <1>4 DEF IdleRpc
  <2> QED
    BY <1>4, <2>1 DEF Next, Start, Crash, DeleteExpired, ReceiveBatch,
       FilterBatch, WorkerConnect, WorkerStatement, Upsert, Delete,
       FinishBatch, SkipBatch, Call, Connect, LockedStep, LockBlockList,
       UnblockSucceeds, Statement, FindNotBlocked, FindAlreadyBlocked,
       InsertBlockedUser, InsertDuplicate, DeleteTheirListings, Commit,
       BlockSucceeds, LoseCommitReply, DeleteBlockedUser, Fail, Cancel,
       OrphanRuns
<1>5. CASE running /\ ~running' /\ Next
  BY <1>2, <1>5 DEF Next, Start, DeleteExpired, ReceiveBatch,
     FilterBatch, WorkerConnect, WorkerStatement, Upsert, Delete,
     FinishBatch, SkipBatch, EndIteration, Call, Connect, LockedStep,
     LockBlockList, UnblockSucceeds, Statement, FindNotBlocked,
     FindAlreadyBlocked, InsertBlockedUser, InsertDuplicate,
     DeleteTheirListings, Commit, BlockSucceeds, LoseCommitReply,
     DeleteBlockedUser, Fail, Cancel, OrphanRuns
<1> QED
  BY <1>1, <1>3, <1>4, <1>5 DEF TypeOK

LEMMA VerdictStep ==
    /\ TypeOK /\ MutexHolder /\ DownIsIdle
    /\ VerdictStillValid /\ [Next]_vars
    => VerdictStillValid'
<1> SUFFICES ASSUME TypeOK, MutexHolder, DownIsIdle,
                    VerdictStillValid, [Next]_vars
             PROVE  VerdictStillValid'
  OBVIOUS
<1> USE DEF VerdictStillValid, dbVars, workerVars, rpcVars
<1>1. CASE UNCHANGED <<workerVars, blocked_user_steam_ids>>
  BY <1>1
<1>2. CASE Start
  BY <1>2 DEF Start, DownIsIdle
<1>3. ASSUME worker_pc' \notin {"connecting", "upserting"}
      PROVE  VerdictStillValid'
  BY <1>3
<1>4. CASE FilterBatch
  BY <1>4 DEF FilterBatch, FilterUnique, UpdatesIn, Accepted
<1>5. CASE WorkerConnect
  BY <1>5 DEF WorkerConnect
<1>6. ASSUME NEW r \in Requests, BlockSucceeds(r)
      PROVE  VerdictStillValid'
  <2>1. mutex = r /\ mutex # Worker
    BY <1>6, BlockListAssumption DEF BlockSucceeds, MutexHolder, LockedStages
  <2>2. worker_pc \notin {"connecting", "upserting"}
    BY <2>1 DEF MutexHolder, GuardedStages
  <2> QED
    BY <1>6, <2>2 DEF BlockSucceeds
<1>7. ASSUME NEW r \in Requests, UnblockSucceeds(r)
      PROVE  VerdictStillValid'
  BY <1>7 DEF UnblockSucceeds
<1> QED
  BY <1>1, <1>2, <1>3, <1>4, <1>5, <1>6, <1>7 DEF Next, WorkerStatement,
     Statement, LockedStep, vars, Crash, DeleteExpired, ReceiveBatch, Upsert,
     Delete, FinishBatch, SkipBatch, EndIteration, Call, Connect,
     FindNotBlocked, FindAlreadyBlocked, LockBlockList, InsertBlockedUser,
     InsertDuplicate, DeleteTheirListings, Commit, LoseCommitReply,
     DeleteBlockedUser, Fail, Cancel, OrphanRuns

LEMMA OneRowStep ==
    /\ TypeOK /\ NothingFiltered
    /\ UpsertHasOneRowPerId /\ [Next]_vars
    => UpsertHasOneRowPerId'
<1> SUFFICES ASSUME TypeOK, NothingFiltered, UpsertHasOneRowPerId, [Next]_vars
             PROVE  UpsertHasOneRowPerId'
  OBVIOUS
<1> USE DEF UpsertHasOneRowPerId, dbVars, workerVars, rpcVars
<1>1. CASE UNCHANGED <<batch, upserts>>
  BY <1>1
<1>2. CASE upserts' = {}
  BY <1>2 DEF OneRowPerId
<1>3. ASSUME NEW b \in Batches, ReceiveBatch(b)
      PROVE  UpsertHasOneRowPerId'
  BY <1>2, <1>3 DEF ReceiveBatch, NothingFiltered
<1>4. CASE FilterBatch
  <2>1. batch \in Seq(Event)
    <3>1. <<>> \in Seq(Event)
      OBVIOUS
    <3> QED
      BY <3>1, BlockListAssumption DEF TypeOK
  <2>2. UpdatesIn(batch, blocked_user_steam_ids) \in SUBSET DOMAIN batch
    BY DEF UpdatesIn
  <2> QED
    BY <1>4, <2>1, <2>2, FilterUniqueIsUnique DEF FilterBatch
<1> QED
  BY <1>1, <1>2, <1>3, <1>4 DEF Next, WorkerStatement, Statement, LockedStep,
     vars, Start, Crash, DeleteExpired, WorkerConnect, Upsert, Delete,
     FinishBatch, SkipBatch, EndIteration, Call, Connect, FindNotBlocked,
     FindAlreadyBlocked, LockBlockList, InsertBlockedUser, InsertDuplicate,
     DeleteTheirListings, Commit, BlockSucceeds, LoseCommitReply,
     DeleteBlockedUser, UnblockSucceeds, Fail, Cancel, OrphanRuns

\* While a user's listings only disappear and a handler stays where it is,
\* what NoneEscapes says of the handler stays true.
LEMMA EscapesKept ==
    ASSUME NoneEscapes, NEW r \in Requests,
           rpc'[r] = rpc[r], doomed[r] \subseteq doomed'[r],
           ListingsOf(trade_listings', rpc[r].user)
             \subseteq ListingsOf(trade_listings, rpc[r].user)
    PROVE  /\ rpc'[r].pc = "committing" =>
                 ListingsOf(trade_listings', rpc'[r].user) \subseteq doomed'[r]
           /\ rpc'[r].pc = "acking" =>
                 ListingsOf(trade_listings', rpc'[r].user) = {}
BY DEF NoneEscapes

LEMMA NoneEscapesStep ==
    /\ TypeOK /\ MutexHolder /\ VerdictStillValid
    /\ NoneEscapes /\ [Next]_vars
    => NoneEscapes'
<1> SUFFICES ASSUME TypeOK, MutexHolder, VerdictStillValid,
                    NoneEscapes, [Next]_vars
             PROVE  NoneEscapes'
  OBVIOUS
<1> USE DEF dbVars, workerVars, rpcVars
<1> DEFINE Kept(r) == /\ rpc'[r] = rpc[r]
                      /\ doomed[r] \subseteq doomed'[r]
                      /\ ListingsOf(trade_listings', rpc[r].user)
                           \subseteq ListingsOf(trade_listings, rpc[r].user)
           Good(r) == /\ rpc'[r].pc = "committing" =>
                           ListingsOf(trade_listings', rpc'[r].user)
                             \subseteq doomed'[r]
                      /\ rpc'[r].pc = "acking" =>
                           ListingsOf(trade_listings', rpc'[r].user) = {}
<1>0. ASSUME \A r \in Requests : Kept(r) \/ Good(r)
      PROVE  NoneEscapes'
  BY <1>0, EscapesKept DEF NoneEscapes
<1>1. CASE UNCHANGED <<trade_listings, rpc, doomed>>
  BY <1>1 DEF NoneEscapes
<1>2. CASE Crash
  <2>1. \A r \in Requests : rpc'[r].pc = "idle"
    BY <1>2 DEF Crash, IdleRpc
  <2> QED
    BY <1>0, <2>1
<1>3. ASSUME NEW ids, trade_listings' = DeleteListings(trade_listings, ids),
             UNCHANGED <<rpc, doomed>>
      PROVE  NoneEscapes'
  <2>1. \A r \in Requests : Kept(r)
    BY <1>3, DeleteRemoves DEF TypeOK
  <2> QED
    BY <1>0, <2>1
<1>4. ASSUME NEW r \in Requests, rpc'[r].pc \notin {"committing", "acking"},
             UNCHANGED trade_listings,
             \A s \in Requests \ {r} : rpc'[s] = rpc[s] /\ doomed'[s] = doomed[s]
      PROVE  NoneEscapes'
  BY <1>0, <1>4
<1>5. CASE Upsert
  <2>1. mutex = Worker
    BY <1>5 DEF Upsert, MutexHolder, GuardedStages
  <2>2. \A r \in Requests : rpc[r].pc \notin LockedStages
    BY <2>1, BlockListAssumption DEF MutexHolder
  <2> QED
    BY <1>0, <1>5, <2>2 DEF Upsert, LockedStages
<1>6. ASSUME NEW r \in Requests, NEW method \in {"block", "unblock"},
             NEW user \in SteamIds, Call(r, method, user)
      PROVE  NoneEscapes'
  BY <1>4, <1>6 DEF Call, TypeOK
<1>7. ASSUME NEW r \in Requests, NEW stage,
             stage \notin {"committing", "acking"},
             Goto(r, stage), rpc[r].pc # "idle",
             UNCHANGED <<trade_listings, doomed>>
      PROVE  NoneEscapes'
  BY <1>4, <1>7, GotoMoves
<1>8. ASSUME NEW r \in Requests, Respond(r), UNCHANGED trade_listings
      PROVE  NoneEscapes'
  <2>1. rpc'[r].pc = "idle" /\ \A s \in Requests \ {r} : rpc'[s] = rpc[s]
    BY <1>8, RespondFrees DEF IdleRpc
  <2>2. \A s \in Requests \ {r} : doomed'[s] = doomed[s]
    BY <1>8 DEF Respond, Release, TypeOK
  <2> QED
    BY <1>4, <1>8, <2>1, <2>2
<1>9. ASSUME NEW r \in Requests, DeleteTheirListings(r)
      PROVE  NoneEscapes'
  <2>1. /\ rpc'[r].pc = "committing" /\ rpc'[r].user = rpc[r].user
        /\ \A s \in Requests \ {r} : rpc'[s] = rpc[s]
    BY <1>9, GotoMoves DEF DeleteTheirListings
  <2>2. /\ doomed'[r] = ListingsOf(trade_listings, rpc[r].user)
        /\ \A s \in Requests \ {r} : doomed'[s] = doomed[s]
        /\ trade_listings' = trade_listings
    BY <1>9 DEF DeleteTheirListings, TypeOK
  <2> QED
    BY <1>0, <2>1, <2>2
<1>10. ASSUME NEW r \in Requests, CommitEffect(r)
       PROVE  /\ \A s \in Requests \ {r} : doomed'[s] = doomed[s]
              /\ \A u \in SteamIds :
                    ListingsOf(trade_listings', u)
                      = ListingsOf(trade_listings, u) \ doomed[r]
  BY <1>10, DeleteRemoves DEF CommitEffect, TypeOK
<1>11. \A r \in Requests : rpc[r].pc # "idle" => rpc[r].user \in SteamIds
  BY DEF TypeOK, Rpc, IdleRpc
<1>12. ASSUME NEW r \in Requests, Commit(r)
       PROVE  NoneEscapes'
  <2>1. /\ rpc'[r].pc = "acking" /\ rpc'[r].user = rpc[r].user
        /\ \A s \in Requests \ {r} : rpc'[s] = rpc[s]
    BY <1>12, GotoMoves DEF Commit
  <2>2. Good(r)
    BY <1>10, <1>11, <1>12, <2>1 DEF Commit, NoneEscapes
  <2>3. ASSUME NEW s \in Requests \ {r}
        PROVE  Kept(s) \/ Good(s)
    <3>1. CASE rpc[s].pc = "idle"
      BY <2>1, <3>1
    <3>2. CASE rpc[s].pc # "idle"
      BY <1>10, <1>11, <1>12, <2>1, <3>2 DEF Commit
    <3> QED
      BY <3>1, <3>2
  <2> QED
    BY <1>0, <2>2, <2>3
<1>13. ASSUME NEW r \in Requests, OrphanRuns(r)
       PROVE  NoneEscapes'
  <2>1. rpc'[r].pc = "idle" /\ \A s \in Requests \ {r} : rpc'[s] = rpc[s]
    BY <1>13, RespondFrees DEF IdleRpc
  <2>2. CASE UNCHANGED <<trade_listings, doomed>>
    BY <1>4, <2>1, <2>2
  <2>3. CASE CommitEffect(r)
    <3>1. ASSUME NEW s \in Requests \ {r}
          PROVE  Kept(s) \/ Good(s)
      <4>1. CASE rpc[s].pc = "idle"
        BY <2>1, <4>1
      <4>2. CASE rpc[s].pc # "idle"
        BY <1>10, <1>11, <2>1, <2>3, <4>2
      <4> QED
        BY <4>1, <4>2
    <3> QED
      BY <1>0, <2>1, <3>1
  <2> QED
    BY <1>13, <2>2, <2>3 DEF OrphanRuns
<1>14. ASSUME NEW r \in Requests, Cancel(r)
       PROVE  NoneEscapes'
  BY <1>7, <1>8, <1>14 DEF Cancel
<1>15. ASSUME NEW r \in Requests, Connect(r) \/ LockedStep(r)
       PROVE  NoneEscapes'
  BY <1>7, <1>8, <1>15 DEF Connect, LockedStep, LockBlockList, UnblockSucceeds
<1>16. ASSUME NEW r \in Requests, Statement(r)
       PROVE  NoneEscapes'
  <2>1. CASE FindNotBlocked(r) \/ InsertBlockedUser(r) \/ DeleteBlockedUser(r)
    BY <1>7, <2>1 DEF FindNotBlocked, InsertBlockedUser, DeleteBlockedUser
  <2>2. CASE Respond(r) /\ UNCHANGED trade_listings
    BY <1>8, <2>2
  <2> QED
    BY <1>9, <1>12, <1>16, <2>1, <2>2 DEF Statement, FindAlreadyBlocked,
       InsertDuplicate, BlockSucceeds, LoseCommitReply, Fail
<1>17. CASE Delete \/ \E ids \in SUBSET ListingIds : DeleteExpired(ids)
  BY <1>3, <1>17 DEF Delete, DeleteExpired
<1> QED
  BY <1>1, <1>2, <1>5, <1>6, <1>13, <1>14, <1>15, <1>16, <1>17 DEF Next,
     WorkerStatement, vars, Start, ReceiveBatch, FilterBatch, WorkerConnect,
     FinishBatch, SkipBatch, EndIteration

LEMMA InvInit == Init => IInv
<1> SUFFICES ASSUME Init PROVE IInv
  OBVIOUS
<1>1. TypeOK
  BY TypeInit
<1> QED
  BY <1>1, BlockListAssumption DEF Init, IInv, NothingFiltered, MutexHolder,
     GuardedStages, LockedStages, MethodStages, DownIsIdle, IdleRpc,
     VerdictStillValid, UpsertHasOneRowPerId, OneRowPerId, NoneEscapes

LEMMA InvStep == IInv /\ [Next]_vars => IInv'
BY TypeStep, NothingFilteredStep, MutexHolderStep, MethodStagesStep,
   DownIsIdleStep, VerdictStep, OneRowStep, NoneEscapesStep DEF IInv

\* The mutex, the stages of the task and of the handlers, and the rows of the
\* open transactions stay in the relation that the other theorems need.
THEOREM Invariance == Spec => []IInv
<1> QED
  BY InvInit, InvStep, PTL DEF Spec

(***************************************************************************)
(* Every variable keeps its type: a handler is always at one of its awaits *)
(* or idle, and filtered positions are positions of the batch.             *)
(***************************************************************************)
THEOREM TypeCorrect == Spec => []TypeOK
<1>1. IInv => TypeOK
  BY DEF IInv
<1> QED
  BY <1>1, Invariance, PTL

(***************************************************************************)
(* The verdict of the filter is still valid when the upsert is sent.       *)
(***************************************************************************)
THEOREM VerdictCorrect == Spec => []VerdictStillValid
<1>1. IInv => VerdictStillValid
  BY DEF IInv
<1> QED
  BY <1>1, Invariance, PTL

(***************************************************************************)
(* No upsert names an id twice, whatever the batch.                        *)
(***************************************************************************)
THEOREM UpsertCorrect == Spec => []UpsertHasOneRowPerId
<1>1. IInv => UpsertHasOneRowPerId
  BY DEF IInv
<1> QED
  BY <1>1, Invariance, PTL

-----------------------------------------------------------------------------
(* What a step may do to a user who is blocked.                            *)

\* No step but a call makes an unblocking of a user appear.
LEMMA UnblockingAppears ==
    ASSUME TypeOK, [Next]_vars, NEW u \in SteamIds, ~Unblocking(u),
           ~\E r \in Requests : Call(r, "unblock", u)
    PROVE  ~Unblocking(u)'
<1> SUFFICES \A r \in Requests : ~(rpc'[r].method = "unblock" /\ rpc'[r].user = u)
  BY DEF Unblocking
<1> USE DEF dbVars, workerVars, rpcVars
<1>0. \A r \in Requests : ~(rpc[r].method = "unblock" /\ rpc[r].user = u)
  BY DEF Unblocking
<1>1. CASE UNCHANGED rpc
  BY <1>0, <1>1
<1>2. CASE Crash
  BY <1>2 DEF Crash, IdleRpc
<1>3. ASSUME NEW r \in Requests, NEW method \in {"block", "unblock"},
             NEW user \in SteamIds, Call(r, method, user)
      PROVE  \A s \in Requests : ~(rpc'[s].method = "unblock" /\ rpc'[s].user = u)
  <2>1. ~(method = "unblock" /\ user = u)
    BY <1>3
  <2> QED
    BY <1>0, <1>3, <2>1 DEF Call, TypeOK
<1>4. ASSUME NEW r \in Requests, NEW stage, Goto(r, stage), rpc[r].pc # "idle"
      PROVE  \A s \in Requests : ~(rpc'[s].method = "unblock" /\ rpc'[s].user = u)
  BY <1>0, <1>4, GotoMoves
<1>5. ASSUME NEW r \in Requests, Respond(r) \/ OrphanRuns(r)
      PROVE  \A s \in Requests : ~(rpc'[s].method = "unblock" /\ rpc'[s].user = u)
  BY <1>0, <1>5, RespondFrees DEF IdleRpc
<1>6. ASSUME NEW r \in Requests,
             Connect(r) \/ LockedStep(r) \/ Statement(r) \/ Cancel(r)
      PROVE  \A s \in Requests : ~(rpc'[s].method = "unblock" /\ rpc'[s].user = u)
  BY <1>4, <1>5, <1>6 DEF Connect, LockedStep, LockBlockList,
     UnblockSucceeds, Statement, FindNotBlocked, FindAlreadyBlocked,
     InsertBlockedUser, InsertDuplicate, DeleteTheirListings, Commit,
     BlockSucceeds, LoseCommitReply, DeleteBlockedUser, Fail, Cancel
<1> QED
  BY <1>1, <1>2, <1>3, <1>5, <1>6 DEF Next, WorkerStatement, vars, Start,
     DeleteExpired, ReceiveBatch, FilterBatch, WorkerConnect, Upsert, Delete,
     FinishBatch, SkipBatch, EndIteration

LEMMA BlockKept ==
    ASSUME IInv, [Next]_vars, NEW u \in SteamIds, CleanlyBlocked(u),
           ~\E r \in Requests : Call(r, "unblock", u)
    PROVE  CleanlyBlocked(u)'
<1> USE DEF dbVars, workerVars, rpcVars
<1>0. /\ TypeOK /\ u \in blocked_users /\ ~Unblocking(u)
      /\ running => u \in blocked_user_steam_ids
      /\ ListingsOf(trade_listings, u) = {}
  BY DEF IInv, CleanlyBlocked
<1>1. ~Unblocking(u)'
  BY <1>0, UnblockingAppears
\* The row of a blocked user is deleted by an unblocking only.
<1>2. u \in blocked_users'
  <2>1. CASE UNCHANGED blocked_users
    BY <1>0, <2>1
  <2>2. ASSUME NEW r \in Requests, CommitEffect(r)
        PROVE  u \in blocked_users'
    BY <1>0, <2>2 DEF CommitEffect
  <2>3. ASSUME NEW r \in Requests, DeleteBlockedUser(r)
        PROVE  u \in blocked_users'
    BY <1>0, <2>3 DEF DeleteBlockedUser, Unblocking, IInv, MethodStages
  <2>4. ASSUME NEW r \in Requests, OrphanRuns(r)
        PROVE  u \in blocked_users'
    BY <1>0, <2>2, <2>4 DEF OrphanRuns, Unblocking
  <2> QED
    BY <2>1, <2>2, <2>3, <2>4 DEF Next, WorkerStatement, Statement, LockedStep,
       vars, Start, Crash, DeleteExpired, ReceiveBatch, FilterBatch,
       WorkerConnect, Upsert, Delete, FinishBatch, SkipBatch, EndIteration,
       Call, Connect, FindNotBlocked, FindAlreadyBlocked, LockBlockList,
       InsertBlockedUser, InsertDuplicate, DeleteTheirListings, Commit,
       BlockSucceeds, LoseCommitReply, UnblockSucceeds, Fail, Cancel
\* The filter of a process that is up keeps knowing the user.
<1>3. running' => u \in blocked_user_steam_ids'
  <2>1. CASE UNCHANGED <<running, blocked_user_steam_ids>>
    BY <1>0, <2>1
  <2>2. CASE Start \/ Crash
    BY <1>0, <2>2 DEF Start, Crash
  <2>3. ASSUME NEW r \in Requests, BlockSucceeds(r)
        PROVE  running' => u \in blocked_user_steam_ids'
    BY <1>0, <2>3 DEF BlockSucceeds
  <2>4. ASSUME NEW r \in Requests, UnblockSucceeds(r)
        PROVE  running' => u \in blocked_user_steam_ids'
    BY <1>0, <2>4 DEF UnblockSucceeds, Unblocking
  <2> QED
    BY <2>1, <2>2, <2>3, <2>4 DEF Next, WorkerStatement, Statement, LockedStep,
       vars, DeleteExpired, ReceiveBatch, FilterBatch, WorkerConnect, Upsert,
       Delete, FinishBatch, SkipBatch, EndIteration, Call, Connect,
       FindNotBlocked, FindAlreadyBlocked, LockBlockList, InsertBlockedUser,
       InsertDuplicate, DeleteTheirListings, Commit, LoseCommitReply,
       DeleteBlockedUser, Fail, Cancel, OrphanRuns
\* Only an upsert makes listings, and its filter has seen the block.
<1>4. ListingsOf(trade_listings', u) = {}
  <2>1. CASE UNCHANGED trade_listings
    BY <1>0, <2>1
  <2>2. ASSUME NEW ids, trade_listings' = DeleteListings(trade_listings, ids)
        PROVE  ListingsOf(trade_listings', u) = {}
    BY <1>0, <2>2, DeleteRemoves DEF TypeOK
  <2>3. CASE Upsert
    <3>1. running
      BY <2>3 DEF Upsert, IInv, DownIsIdle
    <3>2. \A i \in upserts : batch[i].steamid # u
      BY <1>0, <2>3, <3>1 DEF Upsert, IInv, VerdictStillValid
    <3>3. batch \in Seq(Event)
      <4>1. <<>> \in Seq(Event)
        OBVIOUS
      <4> QED
        BY <4>1, <1>0, BlockListAssumption DEF TypeOK
    <3> QED
      BY <1>0, <2>3, <3>2, <3>3, UpsertForOthers DEF Upsert, TypeOK
  <2> QED
    BY <2>1, <2>2, <2>3 DEF Next, WorkerStatement, Statement, LockedStep,
       vars, Start, Crash, DeleteExpired, ReceiveBatch, FilterBatch,
       WorkerConnect, Delete, FinishBatch, SkipBatch, EndIteration,
       Call, Connect, FindNotBlocked, FindAlreadyBlocked, LockBlockList,
       InsertBlockedUser, InsertDuplicate, DeleteTheirListings, Commit,
       CommitEffect, BlockSucceeds, LoseCommitReply, DeleteBlockedUser,
       UnblockSucceeds, Fail, Cancel, OrphanRuns
<1> QED
  BY <1>1, <1>2, <1>3, <1>4 DEF CleanlyBlocked

(***************************************************************************)
(* A block that took hold is in force until the next call of UnblockUser   *)
(* for that user, through every failure and restart.                       *)
(***************************************************************************)
THEOREM BlocksStay == Spec => BlockStaysInForce
<1>1. IInv /\ [Next]_vars =>
        [\A u \in SteamIds :
            CleanlyBlocked(u) => \/ CleanlyBlocked(u)'
                                 \/ \E r \in Requests : Call(r, "unblock", u)]_vars
  BY BlockKept
<1> QED
  BY <1>1, Invariance, PTL DEF Spec, BlockStaysInForce

LEMMA SuccessIsClean ==
    ASSUME IInv, NEW r \in Requests, NEW u \in SteamIds, BlockSucceeds(r),
           rpc[r].user = u, u \in blocked_users, ~Unblocking(u)
    PROVE  CleanlyBlocked(u)'
<1> USE DEF dbVars, workerVars, rpcVars
<1>1. TypeOK
  BY DEF IInv
<1>2. ~Unblocking(u)'
  <2>1. /\ rpc'[r] = IdleRpc
        /\ \A s \in Requests \ {r} : rpc'[s] = rpc[s]
    BY <1>1, RespondFrees DEF BlockSucceeds
  <2> QED
    BY <2>1 DEF Unblocking, IdleRpc
<1>3. ListingsOf(trade_listings', u) = {}
  BY DEF BlockSucceeds, IInv, NoneEscapes
<1> QED
  BY <1>2, <1>3 DEF BlockSucceeds, CleanlyBlocked

(***************************************************************************)
(* A BlockUser that answers success leaves the user without a listing and  *)
(* known to the filter, unless an unblocking of the user interferes.       *)
(***************************************************************************)
THEOREM SuccessesAreClean == Spec => SuccessLeavesNoListing
<1>1. IInv /\ [Next]_vars =>
        [\A r \in Requests, u \in SteamIds :
            /\ BlockSucceeds(r)
            /\ rpc[r].user = u
            /\ u \in blocked_users
            /\ ~Unblocking(u)
            => CleanlyBlocked(u)']_vars
  BY SuccessIsClean
<1> QED
  BY <1>1, Invariance, PTL DEF Spec, SuccessLeavesNoListing

=============================================================================
