----------------------- MODULE BlockListOrderlyProofs ----------------------
(***************************************************************************)
(* What BlockUser and UnblockUser achieve when no BlockUser of a user      *)
(* overlaps an UnblockUser of that user and every COMMIT is heard of: the  *)
(* tables refine BlockPolicy, and the set of the filter is a copy of the   *)
(* table.  Requests for different users, and requests of one kind for one  *)
(* user, interleave freely, also with the stream, the TTL task, failed     *)
(* statements, crashes and restarts.                                       *)
(*                                                                         *)
(* Both hypotheses are needed: without the first, MCBlockList_race.cfg     *)
(* refutes BlockedUsersHaveNoListing; without the second, a lost reply or  *)
(* a dropped handler leaves the set without a user who is in the table.    *)
(***************************************************************************)
EXTENDS BlockListProofs

\* No COMMIT loses its reply and no handler is dropped at an await.
EveryCommitIsHeard == Faults \subseteq {"db", "crash"}

-----------------------------------------------------------------------------
(***************************************************************************)
(* The inductive invariant, on top of IInv.                                *)
(***************************************************************************)

\* No statement outlives its handler.
NoOrphan == \A r \in Requests : rpc[r].pc # "orphaned"

\* A block between COMMIT and its reply, and an unblock between its DELETE
\* and the update of the set.
Acking(u) == \E r \in Requests : rpc[r].pc = "acking" /\ rpc[r].user = u
Forgetting(u) ==
    \E r \in Requests :
        /\ rpc[r].pc = "locking"
        /\ rpc[r].method = "unblock"
        /\ rpc[r].user = u

\* Table and set differ by the requests that have changed only the table.
CopyFollows ==
    running =>
        /\ \A u \in blocked_users : u \in blocked_user_steam_ids \/ Acking(u)
        /\ \A u \in blocked_user_steam_ids : u \in blocked_users \/ Forgetting(u)

\* What such a request has done to the table is still so.
TableIsAhead ==
    \A u \in SteamIds :
        /\ Acking(u) => u \in blocked_users
        /\ Forgetting(u) => u \notin blocked_users

\* An open transaction has deleted exactly the listings of its user.
DoomedExactly ==
    \A r \in Requests :
        rpc[r].pc = "committing" =>
            doomed[r] = ListingsOf(trade_listings, rpc[r].user)

SInv ==
    /\ NoOrphan
    /\ CopyFollows
    /\ TableIsAhead
    /\ DoomedExactly
    /\ BlockedUsersHaveNoListing

-----------------------------------------------------------------------------
(* How the steps of a handler change what the invariant says of it.        *)

\* Only the step of a request changes its rpc; what the others do to
\* Acking and Forgetting is nothing.
LEMMA OthersStay ==
    ASSUME NEW r \in Requests, \A s \in Requests \ {r} : rpc'[s] = rpc[s],
           NEW u
    PROVE  /\ Acking(u)' => \/ Acking(u)
                            \/ rpc'[r].pc = "acking" /\ rpc'[r].user = u
           /\ Acking(u) => \/ Acking(u)'
                           \/ rpc[r].pc = "acking" /\ rpc[r].user = u
           /\ Forgetting(u)' => \/ Forgetting(u)
                                \/ /\ rpc'[r].pc = "locking"
                                   /\ rpc'[r].method = "unblock"
                                   /\ rpc'[r].user = u
           /\ Forgetting(u) => \/ Forgetting(u)'
                               \/ /\ rpc[r].pc = "locking"
                                  /\ rpc[r].method = "unblock"
                                  /\ rpc[r].user = u
BY DEF Acking, Forgetting

\* No two requests are in the critical section.
LEMMA OneLocked ==
    ASSUME MutexHolder, NEW r \in Requests, NEW s \in Requests,
           rpc[r].pc \in LockedStages, rpc[s].pc \in LockedStages
    PROVE  r = s
BY DEF MutexHolder

\* While a handler is in its critical section the task writes nothing.
LEMMA TaskIsOut ==
    ASSUME MutexHolder, NEW r \in Requests, rpc[r].pc \in LockedStages
    PROVE  worker_pc \notin GuardedStages
BY BlockListAssumption DEF MutexHolder

LEMMA BatchType == TypeOK => batch \in Seq(Event)
<1>1. <<>> \in Seq(Event)
  OBVIOUS
<1> QED
  BY <1>1, BlockListAssumption DEF TypeOK

LEMMA UserType ==
    ASSUME TypeOK, NEW r \in Requests, rpc[r].pc # "idle"
    PROVE  rpc[r].user \in SteamIds
BY DEF TypeOK, Rpc, IdleRpc

-----------------------------------------------------------------------------
(* Each part of the invariant is preserved.                                *)

LEMMA NoOrphanStep ==
    ASSUME EveryCommitIsHeard, TypeOK, NoOrphan, [Next]_vars
    PROVE  NoOrphan'
<1> USE DEF NoOrphan, dbVars, workerVars, rpcVars
<1>1. CASE UNCHANGED rpc
  BY <1>1
<1>2. CASE Crash
  BY <1>2 DEF Crash, IdleRpc
<1>3. ASSUME NEW r \in Requests, NEW method, NEW user, Call(r, method, user)
      PROVE  NoOrphan'
  BY <1>3 DEF Call, TypeOK
<1>4. ASSUME NEW r \in Requests, NEW stage, Goto(r, stage), rpc[r].pc # "idle",
             stage # "orphaned"
      PROVE  NoOrphan'
  BY <1>4, GotoMoves
<1>5. ASSUME NEW r \in Requests, Respond(r) \/ OrphanRuns(r)
      PROVE  NoOrphan'
  BY <1>5, RespondFrees DEF IdleRpc
<1>6. ASSUME NEW r \in Requests, Cancel(r)
      PROVE  NoOrphan'
  BY <1>6 DEF Cancel, EveryCommitIsHeard
<1>7. ASSUME NEW r \in Requests, Connect(r) \/ LockedStep(r) \/ Statement(r)
      PROVE  NoOrphan'
  BY <1>4, <1>5, <1>7 DEF Connect, LockedStep, LockBlockList,
     UnblockSucceeds, Statement, FindNotBlocked, FindAlreadyBlocked,
     InsertBlockedUser, InsertDuplicate, DeleteTheirListings, Commit,
     BlockSucceeds, LoseCommitReply, DeleteBlockedUser, Fail
<1> QED
  BY <1>1, <1>2, <1>3, <1>5, <1>6, <1>7 DEF Next, WorkerStatement, vars, Start,
     DeleteExpired, ReceiveBatch, FilterBatch, WorkerConnect, Upsert, Delete,
     FinishBatch, SkipBatch, EndIteration

\* A step that moves r, alone, through stages that neither block nor unblock
\* anybody, and leaves table and set alone.
LEMMA NothingToFollow ==
    ASSUME NEW r \in Requests, \A s \in Requests \ {r} : rpc'[s] = rpc[s],
           rpc[r].pc # "acking", rpc'[r].pc # "acking",
           rpc[r].pc = "locking" => rpc[r].method # "unblock",
           rpc'[r].pc = "locking" => rpc'[r].method # "unblock"
    PROVE  \A u : /\ Acking(u)' <=> Acking(u)
                  /\ Forgetting(u)' <=> Forgetting(u)
<1> TAKE u
<1> QED
  BY OthersStay

LEMMA CopySame ==
    ASSUME CopyFollows, TableIsAhead,
           UNCHANGED <<running, blocked_users, blocked_user_steam_ids>>,
           \A u : /\ Acking(u)' <=> Acking(u)
                  /\ Forgetting(u)' <=> Forgetting(u)
    PROVE  CopyFollows' /\ TableIsAhead'
<1>1. CopyFollows'
  BY DEF CopyFollows
<1>2. TableIsAhead'
  BY DEF TableIsAhead
<1> QED
  BY <1>1, <1>2

\* Nobody is doing the opposite for the user a request is about.
LEMMA NobodyUndoes ==
    ASSUME RequestsApart, MethodStages, NEW r \in Requests
    PROVE  /\ rpc[r].method = "block" => ~Forgetting(rpc[r].user)
           /\ rpc[r].method = "unblock" => ~Acking(rpc[r].user)
BY DEF RequestsApart, MethodStages, LockedStages, Acking, Forgetting

LEMMA CommitFollows ==
    ASSUME TypeOK, RequestsApart, MethodStages, CopyFollows, TableIsAhead,
           NEW r \in Requests, Commit(r)
    PROVE  CopyFollows' /\ TableIsAhead'
<1> DEFINE u == rpc[r].user
<1>1. /\ rpc'[r].pc = "acking" /\ rpc'[r].user = u
      /\ \A s \in Requests \ {r} : rpc'[s] = rpc[s]
  BY GotoMoves DEF Commit
<1>2. /\ rpc[r].pc = "committing"
      /\ blocked_users' = blocked_users \cup {u}
      /\ UNCHANGED <<running, blocked_user_steam_ids>>
  BY DEF Commit, CommitEffect
<1>3. ASSUME NEW w
      PROVE  /\ Acking(w)' <=> Acking(w) \/ w = u
             /\ Forgetting(w)' <=> Forgetting(w)
  BY <1>1, <1>2 DEF Acking, Forgetting
<1>4. ~Forgetting(u)
  BY <1>2, NobodyUndoes DEF MethodStages, LockedStages
<1>5. CopyFollows'
  BY <1>2, <1>3 DEF CopyFollows
<1>6. TableIsAhead'
  BY <1>2, <1>3, <1>4 DEF TableIsAhead
<1> QED
  BY <1>5, <1>6

LEMMA BlockSucceedsFollows ==
    ASSUME TypeOK, CopyFollows, TableIsAhead,
           NEW r \in Requests, BlockSucceeds(r)
    PROVE  CopyFollows' /\ TableIsAhead'
<1> DEFINE u == rpc[r].user
<1>1. /\ rpc'[r] = IdleRpc
      /\ \A s \in Requests \ {r} : rpc'[s] = rpc[s]
  BY RespondFrees DEF BlockSucceeds
<1>2. /\ rpc[r].pc = "acking"
      /\ blocked_user_steam_ids' = blocked_user_steam_ids \cup {u}
      /\ UNCHANGED <<running, blocked_users>>
  BY DEF BlockSucceeds, dbVars
<1>3. ASSUME NEW w
      PROVE  /\ Acking(w)' => Acking(w)
             /\ Acking(w) => Acking(w)' \/ w = u
             /\ Forgetting(w)' <=> Forgetting(w)
  BY <1>1, <1>2 DEF Acking, Forgetting, IdleRpc
<1>4. u \in blocked_users
  BY <1>2, UserType DEF Acking, TableIsAhead
<1>5. CopyFollows'
  BY <1>2, <1>3, <1>4 DEF CopyFollows
<1>6. TableIsAhead'
  BY <1>2, <1>3 DEF TableIsAhead
<1> QED
  BY <1>5, <1>6

LEMMA DeleteFollows ==
    ASSUME TypeOK, RequestsApart, MethodStages, CopyFollows, TableIsAhead,
           NEW r \in Requests, DeleteBlockedUser(r)
    PROVE  CopyFollows' /\ TableIsAhead'
<1> DEFINE u == rpc[r].user
<1>1. /\ rpc'[r].pc = "locking" /\ rpc'[r].user = u
      /\ rpc'[r].method = rpc[r].method
      /\ \A s \in Requests \ {r} : rpc'[s] = rpc[s]
  BY GotoMoves DEF DeleteBlockedUser
<1>2. /\ rpc[r].pc = "unblocking" /\ rpc[r].method = "unblock"
      /\ blocked_users' = blocked_users \ {u}
      /\ UNCHANGED <<running, blocked_user_steam_ids>>
  BY DEF DeleteBlockedUser, MethodStages
<1>3. ASSUME NEW w
      PROVE  /\ Acking(w)' <=> Acking(w)
             /\ Forgetting(w)' <=> Forgetting(w) \/ w = u
  BY <1>1, <1>2 DEF Acking, Forgetting
<1>4. ~Acking(u)
  BY <1>2, NobodyUndoes
<1>5. CopyFollows'
  BY <1>2, <1>3 DEF CopyFollows
<1>6. TableIsAhead'
  BY <1>2, <1>3, <1>4 DEF TableIsAhead
<1> QED
  BY <1>5, <1>6

LEMMA UnblockSucceedsFollows ==
    ASSUME TypeOK, CopyFollows, TableIsAhead,
           NEW r \in Requests, UnblockSucceeds(r)
    PROVE  CopyFollows' /\ TableIsAhead'
<1> DEFINE u == rpc[r].user
<1>1. /\ rpc'[r] = IdleRpc
      /\ \A s \in Requests \ {r} : rpc'[s] = rpc[s]
  BY RespondFrees DEF UnblockSucceeds
<1>2. /\ rpc[r].pc = "locking" /\ rpc[r].method = "unblock"
      /\ blocked_user_steam_ids' = blocked_user_steam_ids \ {u}
      /\ UNCHANGED <<running, blocked_users>>
  BY DEF UnblockSucceeds, dbVars
<1>3. ASSUME NEW w
      PROVE  /\ Acking(w)' <=> Acking(w)
             /\ Forgetting(w)' => Forgetting(w)
             /\ Forgetting(w) => Forgetting(w)' \/ w = u
  BY <1>1, <1>2 DEF Acking, Forgetting, IdleRpc
<1>4. u \notin blocked_users
  BY <1>2, UserType DEF Forgetting, TableIsAhead
<1>5. CopyFollows'
  BY <1>2, <1>3, <1>4 DEF CopyFollows
<1>6. TableIsAhead'
  BY <1>2, <1>3 DEF TableIsAhead
<1> QED
  BY <1>5, <1>6

LEMMA CopyStep ==
    ASSUME EveryCommitIsHeard, TypeOK, MethodStages, RequestsApart, NoOrphan,
           CopyFollows, TableIsAhead, [Next]_vars
    PROVE  CopyFollows' /\ TableIsAhead'
<1> USE DEF dbVars, workerVars, rpcVars
<1> DEFINE Same == UNCHANGED <<running, blocked_users, blocked_user_steam_ids>>
<1>1. CASE Same /\ UNCHANGED rpc
  <2>1. \A u : (Acking(u)' <=> Acking(u)) /\ (Forgetting(u)' <=> Forgetting(u))
    BY <1>1 DEF Acking, Forgetting
  <2> QED
    BY <1>1, <2>1, CopySame
<1>2. CASE Start
  BY <1>2 DEF Start, CopyFollows, TableIsAhead, Acking, Forgetting
<1>3. CASE Crash
  BY <1>3 DEF Crash, CopyFollows, TableIsAhead, Acking, Forgetting, IdleRpc
<1>4. ASSUME NEW r \in Requests, \A s \in Requests \ {r} : rpc'[s] = rpc[s],
             rpc[r].pc # "acking", rpc'[r].pc # "acking",
             rpc[r].pc = "locking" => rpc[r].method # "unblock",
             rpc'[r].pc = "locking" => rpc'[r].method # "unblock",
             Same
      PROVE  CopyFollows' /\ TableIsAhead'
  <2>1. \A u : (Acking(u)' <=> Acking(u)) /\ (Forgetting(u)' <=> Forgetting(u))
    BY <1>4, NothingToFollow
  <2> QED
    BY <1>4, <2>1, CopySame
<1>5. ASSUME NEW r \in Requests, NEW method, NEW user, Call(r, method, user)
      PROVE  CopyFollows' /\ TableIsAhead'
  <2>1. /\ rpc'[r].pc = "connecting" /\ rpc[r].pc = "idle" /\ Same
        /\ \A s \in Requests \ {r} : rpc'[s] = rpc[s]
    BY <1>5 DEF Call, TypeOK
  <2> QED
    BY <1>4, <2>1
<1>6. ASSUME NEW r \in Requests, NEW stage, Goto(r, stage), Same,
             rpc[r].pc \notin {"idle", "acking"}, stage # "acking",
             rpc[r].pc = "locking" \/ stage = "locking" => rpc[r].method = "block"
      PROVE  CopyFollows' /\ TableIsAhead'
  <2>1. /\ rpc'[r].pc = stage /\ rpc'[r].method = rpc[r].method
        /\ \A s \in Requests \ {r} : rpc'[s] = rpc[s]
    BY <1>6, GotoMoves
  <2> QED
    BY <1>4, <1>6, <2>1
<1>7. ASSUME NEW r \in Requests, Respond(r), Same,
             rpc[r].pc \notin {"acking", "locking"}
      PROVE  CopyFollows' /\ TableIsAhead'
  <2>1. /\ rpc'[r].pc = "idle"
        /\ \A s \in Requests \ {r} : rpc'[s] = rpc[s]
    BY <1>7, RespondFrees DEF IdleRpc
  <2> QED
    BY <1>4, <1>7, <2>1
<1>8. ASSUME NEW r \in Requests, Connect(r) \/ LockedStep(r)
      PROVE  CopyFollows' /\ TableIsAhead'
  BY <1>6, <1>8, UnblockSucceedsFollows DEF Connect, LockedStep, LockBlockList
<1>9. ASSUME NEW r \in Requests, Statement(r)
      PROVE  CopyFollows' /\ TableIsAhead'
  <2>1. CASE FindNotBlocked(r) \/ InsertBlockedUser(r) \/ DeleteTheirListings(r)
    BY <1>6, <2>1 DEF FindNotBlocked, InsertBlockedUser, DeleteTheirListings,
       MethodStages
  <2>2. CASE FindAlreadyBlocked(r) \/ InsertDuplicate(r) \/ Fail(r)
    BY <1>7, <2>2 DEF FindAlreadyBlocked, InsertDuplicate, Fail
  <2>3. ~LoseCommitReply(r)
    BY DEF LoseCommitReply, EveryCommitIsHeard
  <2> QED
    BY <1>9, <2>1, <2>2, <2>3, CommitFollows, BlockSucceedsFollows,
       DeleteFollows DEF Statement
<1>10. ASSUME NEW r \in Requests
       PROVE  ~Cancel(r) /\ ~OrphanRuns(r)
  BY DEF Cancel, OrphanRuns, EveryCommitIsHeard, NoOrphan
<1> QED
  BY <1>1, <1>2, <1>3, <1>5, <1>8, <1>9, <1>10 DEF Next, WorkerStatement, vars,
     DeleteExpired, ReceiveBatch, FilterBatch, WorkerConnect, Upsert, Delete,
     FinishBatch, SkipBatch, EndIteration

\* Rows that an open transaction has deleted are changed by nobody else.
LEMMA DoomedStep ==
    ASSUME EveryCommitIsHeard, IInv, NoOrphan, DoomedExactly, [Next]_vars
    PROVE  DoomedExactly'
<1> USE DEF dbVars, workerVars, rpcVars
<1>0. TypeOK /\ MutexHolder
  BY DEF IInv
<1> DEFINE Good(r) ==
        rpc'[r].pc = "committing" =>
            doomed'[r] = ListingsOf(trade_listings', rpc'[r].user)
<1>1. ASSUME \A r \in Requests : Good(r)
      PROVE  DoomedExactly'
  BY <1>1 DEF DoomedExactly
<1>2. CASE UNCHANGED <<trade_listings, rpc, doomed>>
  BY <1>2 DEF DoomedExactly
<1>3. CASE Crash
  <2>1. \A r \in Requests : rpc'[r].pc = "idle"
    BY <1>3 DEF Crash, IdleRpc
  <2> QED
    BY <1>1, <2>1
\* The table changes, but no row of a user whose transaction is open.
<1>4. ASSUME UNCHANGED <<rpc, doomed>>,
             \A r \in Requests : rpc[r].pc = "committing" =>
                ListingsOf(trade_listings', rpc[r].user)
                  = ListingsOf(trade_listings, rpc[r].user)
      PROVE  DoomedExactly'
  BY <1>4 DEF DoomedExactly
<1>5. ASSUME NEW ids \in SUBSET ListingIds, DeleteExpired(ids)
      PROVE  DoomedExactly'
  <2>1. ASSUME NEW r \in Requests, rpc[r].pc = "committing"
        PROVE  ListingsOf(trade_listings', rpc[r].user)
                 = ListingsOf(trade_listings, rpc[r].user)
    <3>1. doomed[r] \cap ids = {}
      BY <1>5 DEF DeleteExpired, LockedRows
    <3>2. ListingsOf(trade_listings, rpc[r].user) = doomed[r]
      BY <2>1 DEF DoomedExactly
    <3>3. ListingsOf(trade_listings', rpc[r].user)
            = ListingsOf(trade_listings, rpc[r].user) \ ids
      BY <1>0, <1>5, DeleteRemoves DEF DeleteExpired, TypeOK
    <3> QED
      BY <3>1, <3>2, <3>3
  <2> QED
    BY <1>4, <1>5, <2>1 DEF DeleteExpired
<1>6. CASE Upsert \/ Delete
  <2>1. \A r \in Requests : rpc[r].pc # "committing"
    BY <1>0, <1>6, TaskIsOut DEF Upsert, Delete, LockedStages, GuardedStages
  <2> QED
    BY <1>4, <1>6, <2>1 DEF Upsert, Delete
\* The step of one handler that leaves the table alone.
<1>7. ASSUME NEW r \in Requests, Good(r), UNCHANGED trade_listings,
             \A s \in Requests \ {r} : rpc'[s] = rpc[s] /\ doomed'[s] = doomed[s]
      PROVE  DoomedExactly'
  BY <1>1, <1>7 DEF DoomedExactly
<1>8. ASSUME NEW r \in Requests, NEW method, NEW user, Call(r, method, user)
      PROVE  DoomedExactly'
  <2>1. /\ rpc'[r].pc = "connecting" /\ UNCHANGED <<trade_listings, doomed>>
        /\ \A s \in Requests \ {r} : rpc'[s] = rpc[s]
    BY <1>0, <1>8 DEF Call, TypeOK
  <2> QED
    BY <1>7, <2>1
<1>9. ASSUME NEW r \in Requests, NEW stage, stage # "committing",
             Goto(r, stage), rpc[r].pc # "idle",
             UNCHANGED <<trade_listings, doomed>>
      PROVE  DoomedExactly'
  <2>1. /\ rpc'[r].pc = stage
        /\ \A s \in Requests \ {r} : rpc'[s] = rpc[s]
    BY <1>0, <1>9, GotoMoves
  <2> QED
    BY <1>7, <1>9, <2>1
<1>10. ASSUME NEW r \in Requests, Respond(r), UNCHANGED trade_listings
       PROVE  DoomedExactly'
  <2>1. rpc'[r].pc = "idle" /\ \A s \in Requests \ {r} : rpc'[s] = rpc[s]
    BY <1>0, <1>10, RespondFrees DEF IdleRpc
  <2>2. \A s \in Requests \ {r} : doomed'[s] = doomed[s]
    BY <1>0, <1>10 DEF Respond, Release, TypeOK
  <2> QED
    BY <1>7, <1>10, <2>1, <2>2
<1>11. ASSUME NEW r \in Requests, DeleteTheirListings(r)
       PROVE  DoomedExactly'
  <2>1. /\ rpc'[r].user = rpc[r].user
        /\ \A s \in Requests \ {r} : rpc'[s] = rpc[s]
    BY <1>0, <1>11, GotoMoves DEF DeleteTheirListings
  <2>2. /\ doomed'[r] = ListingsOf(trade_listings, rpc[r].user)
        /\ \A s \in Requests \ {r} : doomed'[s] = doomed[s]
        /\ UNCHANGED trade_listings
    BY <1>0, <1>11 DEF DeleteTheirListings, TypeOK
  <2> QED
    BY <1>7, <2>1, <2>2
<1>12. ASSUME NEW r \in Requests, Commit(r)
       PROVE  DoomedExactly'
  <2>1. /\ rpc[r].pc = "committing" /\ rpc'[r].pc = "acking"
        /\ \A s \in Requests \ {r} : rpc'[s] = rpc[s]
    BY <1>0, <1>12, GotoMoves DEF Commit
  <2>2. \A s \in Requests \ {r} : rpc'[s].pc # "committing"
    BY <1>0, <2>1, OneLocked DEF LockedStages
  <2> QED
    BY <1>1, <2>1, <2>2
<1>13. ASSUME NEW r \in Requests, Statement(r)
       PROVE  DoomedExactly'
  <2>1. CASE FindNotBlocked(r) \/ InsertBlockedUser(r) \/ DeleteBlockedUser(r)
    BY <1>9, <2>1 DEF FindNotBlocked, InsertBlockedUser, DeleteBlockedUser
  <2>2. CASE Respond(r) /\ UNCHANGED trade_listings
    BY <1>10, <2>2
  <2> QED
    BY <1>11, <1>12, <1>13, <2>1, <2>2 DEF Statement, FindAlreadyBlocked,
       InsertDuplicate, BlockSucceeds, LoseCommitReply, Fail
<1>14. ASSUME NEW r \in Requests, Connect(r) \/ LockedStep(r)
       PROVE  DoomedExactly'
  BY <1>9, <1>10, <1>14 DEF Connect, LockedStep, LockBlockList, UnblockSucceeds
<1>15. ASSUME NEW r \in Requests
       PROVE  ~Cancel(r) /\ ~OrphanRuns(r)
  BY DEF Cancel, OrphanRuns, EveryCommitIsHeard, NoOrphan
<1> QED
  BY <1>2, <1>3, <1>5, <1>6, <1>8, <1>13, <1>14, <1>15 DEF Next,
     WorkerStatement, vars, Start, ReceiveBatch, FilterBatch, WorkerConnect,
     FinishBatch, SkipBatch, EndIteration

\* The events that an upsert applies are by users who have no row in
\* blocked_users: the set of the filter may lag behind the table only
\* while the mutex is held by a request.
LEMMA UpsertIsForUnblocked ==
    ASSUME IInv, CopyFollows, Upsert
    PROVE  \A i \in upserts : batch[i].steamid \notin blocked_users
<1> SUFFICES ASSUME NEW i \in upserts, batch[i].steamid \in blocked_users
             PROVE  FALSE
  OBVIOUS
<1> DEFINE u == batch[i].steamid
<1>1. u \notin blocked_user_steam_ids
  BY DEF Upsert, IInv, VerdictStillValid
<1>2. running
  BY DEF Upsert, IInv, DownIsIdle
<1>3. Acking(u)
  BY <1>1, <1>2 DEF CopyFollows
<1>4. PICK r \in Requests : rpc[r].pc = "acking"
  BY <1>3 DEF Acking
<1>5. worker_pc \notin GuardedStages
  BY <1>4, TaskIsOut DEF IInv, LockedStages
<1> QED
  BY <1>5 DEF Upsert, GuardedStages

LEMMA NoListingStep ==
    ASSUME EveryCommitIsHeard, IInv, NoOrphan, CopyFollows,
           BlockedUsersHaveNoListing, [Next]_vars
    PROVE  BlockedUsersHaveNoListing'
<1> USE DEF dbVars, workerVars, rpcVars
<1>0. TypeOK
  BY DEF IInv
<1>1. CASE UNCHANGED <<trade_listings, blocked_users>>
  BY <1>1 DEF BlockedUsersHaveNoListing
<1>2. ASSUME NEW ids, trade_listings' = DeleteListings(trade_listings, ids),
             blocked_users' \subseteq blocked_users
      PROVE  BlockedUsersHaveNoListing'
  BY <1>0, <1>2, DeleteRemoves DEF BlockedUsersHaveNoListing, TypeOK
<1>3. CASE Upsert
  <2>1. ASSUME NEW u \in blocked_users
        PROVE  ListingsOf(trade_listings', u) = {}
    <3>1. \A i \in upserts : batch[i].steamid # u
      BY <1>3, UpsertIsForUnblocked
    <3>2. ListingsOf(trade_listings', u) \subseteq ListingsOf(trade_listings, u)
      BY <1>0, <1>3, <3>1, BatchType, UpsertForOthers DEF Upsert, TypeOK
    <3> QED
      BY <3>2 DEF BlockedUsersHaveNoListing
  <2> QED
    BY <1>3, <2>1 DEF Upsert, BlockedUsersHaveNoListing
<1>4. ASSUME NEW r \in Requests, Commit(r)
      PROVE  BlockedUsersHaveNoListing'
  <2>1. ListingsOf(trade_listings, rpc[r].user) \subseteq doomed[r]
    BY <1>4 DEF Commit, IInv, NoneEscapes
  <2>2. ASSUME NEW u
        PROVE  ListingsOf(trade_listings', u)
                 = ListingsOf(trade_listings, u) \ doomed[r]
    BY <1>0, <1>4, DeleteRemoves DEF Commit, CommitEffect, TypeOK
  <2> QED
    BY <1>4, <2>1, <2>2 DEF Commit, CommitEffect, BlockedUsersHaveNoListing
<1>5. ASSUME NEW r \in Requests, DeleteBlockedUser(r)
      PROVE  BlockedUsersHaveNoListing'
  BY <1>5 DEF DeleteBlockedUser, BlockedUsersHaveNoListing
<1>6. ASSUME NEW r \in Requests
      PROVE  ~Cancel(r) /\ ~OrphanRuns(r)
  BY DEF Cancel, OrphanRuns, EveryCommitIsHeard, NoOrphan
<1> QED
  BY <1>1, <1>2, <1>3, <1>4, <1>5, <1>6 DEF Next, WorkerStatement, Statement,
     LockedStep, vars, Start, Crash, DeleteExpired, ReceiveBatch, FilterBatch,
     WorkerConnect, Delete, FinishBatch, SkipBatch, EndIteration, Call,
     Connect, FindNotBlocked, FindAlreadyBlocked, LockBlockList,
     InsertBlockedUser, InsertDuplicate, DeleteTheirListings, BlockSucceeds,
     LoseCommitReply, UnblockSucceeds, Fail

LEMMA OrderlyInit == Init => SInv
<1> SUFFICES ASSUME Init PROVE SInv
  OBVIOUS
<1>1. \A r \in Requests : rpc[r].pc = "idle"
  BY DEF Init, IdleRpc
<1>2. NoOrphan /\ TableIsAhead /\ DoomedExactly
  BY <1>1 DEF NoOrphan, TableIsAhead, Acking, Forgetting, DoomedExactly
<1>3. CopyFollows /\ BlockedUsersHaveNoListing
  BY DEF Init, CopyFollows, BlockedUsersHaveNoListing
<1> QED
  BY <1>2, <1>3 DEF SInv

LEMMA OrderlyStep ==
    ASSUME EveryCommitIsHeard, IInv, SInv, RequestsApart, [Next]_vars
    PROVE  SInv'
<1>1. NoOrphan'
  BY NoOrphanStep DEF IInv, SInv
<1>2. CopyFollows' /\ TableIsAhead'
  BY CopyStep DEF IInv, SInv
<1>3. DoomedExactly'
  BY DoomedStep DEF SInv
<1>4. BlockedUsersHaveNoListing'
  BY NoListingStep DEF SInv
<1> QED
  BY <1>1, <1>2, <1>3, <1>4 DEF SInv

LEMMA OrderlyInvariance ==
    ASSUME EveryCommitIsHeard
    PROVE  Spec /\ []RequestsApart => []SInv
<1>1. IInv /\ SInv /\ RequestsApart /\ [Next]_vars => SInv'
  BY OrderlyStep
<1> QED
  BY <1>1, OrderlyInit, Invariance, PTL DEF Spec

(***************************************************************************)
(* A user who has a row in blocked_users has no listing, as long as no     *)
(* block of a user overlaps an unblock: two BlockUser that both find the   *)
(* user not blocked do no harm.                                            *)
(***************************************************************************)
THEOREM BlockedHaveNone ==
    ASSUME EveryCommitIsHeard
    PROVE  Spec /\ []RequestsApart => []BlockedUsersHaveNoListing
<1>1. SInv => BlockedUsersHaveNoListing
  BY DEF SInv
<1> QED
  BY <1>1, OrderlyInvariance, PTL

(***************************************************************************)
(* The set of the filter is the table whenever no request is being served, *)
(* as long as no block of a user overlaps an unblock.                      *)
(***************************************************************************)
THEOREM CopyAgrees ==
    ASSUME EveryCommitIsHeard
    PROVE  Spec /\ []RequestsApart => []CopyAgreesAtRest
<1>1. IInv /\ SInv => CopyAgreesAtRest
  <2> SUFFICES ASSUME IInv, SInv, running, \A r \in Requests : rpc[r] = IdleRpc
               PROVE  blocked_user_steam_ids = blocked_users
    BY DEF CopyAgreesAtRest
  <2>1. \A u : ~Acking(u) /\ ~Forgetting(u)
    BY DEF Acking, Forgetting, IdleRpc
  <2> QED
    BY <2>1 DEF SInv, CopyFollows
<1> QED
  BY <1>1, Invariance, OrderlyInvariance, PTL

-----------------------------------------------------------------------------
(***************************************************************************)
(* BlockList implements BlockPolicy.                                       *)
(***************************************************************************)

LEMMA PolicyStarts == Init => Policy!PolicyInit
BY DEF Init, Policy!PolicyInit, EmptyTable, Policy!EmptyTable

\* COMMIT is the moment of the block.
LEMMA CommitBlocks ==
    ASSUME TypeOK, DoomedExactly, NEW r \in Requests, Commit(r)
    PROVE  Policy!Block(rpc[r].user)
<1>1. doomed[r] = ListingsOf(trade_listings, rpc[r].user)
  BY DEF Commit, DoomedExactly
<1> QED
  BY <1>1 DEF Commit, CommitEffect, Policy!Block, ListingsOf,
     Policy!ListingsOf, DeleteListings, Policy!DeleteListings

\* Deleting listings is allowed whoever they belong to.
LEMMA DeleteWrites ==
    ASSUME TypeOK, NEW ids,
           trade_listings' = DeleteListings(trade_listings, ids),
           UNCHANGED blocked_users
    PROVE  Policy!WriteListings
<1>1. trade_listings' \in Tables
  BY DeleteType DEF TypeOK
<1>2. \A id \in ListingIds : trade_listings'[id] \in {trade_listings[id], NoListing}
  BY DEF DeleteListings
<1> QED
  BY <1>1, <1>2 DEF Policy!WriteListings, Tables, Policy!Tables, Listing,
     Policy!Listing

\* An upsert changes no row of a blocked user: the event of a new row has
\* passed the filter, and of the rows that were there none is theirs.
LEMMA UpsertWrites ==
    ASSUME IInv, CopyFollows, BlockedUsersHaveNoListing, Upsert
    PROVE  Policy!WriteListings
<1>0. TypeOK
  BY DEF IInv
<1>1. trade_listings' \in Tables
  BY <1>0, UpsertType, BatchType DEF Upsert, TypeOK
<1>2. ASSUME NEW id \in ListingIds,
             trade_listings'[id] \notin {trade_listings[id], NoListing}
      PROVE  trade_listings'[id].steamid \notin blocked_users
  <2> DEFINE u == trade_listings'[id].steamid
  <2> SUFFICES ASSUME u \in blocked_users
               PROVE  FALSE
    OBVIOUS
  <2>1. \A i \in upserts : batch[i].steamid # u
    BY UpsertIsForUnblocked
  <2>2. ListingsOf(trade_listings', u) \subseteq ListingsOf(trade_listings, u)
    BY <1>0, <2>1, BatchType, UpsertForOthers DEF Upsert, TypeOK
  <2>3. id \in ListingsOf(trade_listings', u)
    BY <1>2 DEF ListingsOf
  <2> QED
    BY <2>2, <2>3 DEF BlockedUsersHaveNoListing
<1> QED
  BY <1>1, <1>2 DEF Upsert, Policy!WriteListings, Tables, Policy!Tables,
     Listing, Policy!Listing

LEMMA PolicyStep ==
    ASSUME EveryCommitIsHeard, IInv, SInv, [Next]_vars
    PROVE  [Policy!PolicyNext]_(Policy!policyVars)
<1> USE DEF dbVars, workerVars, rpcVars
<1>0. TypeOK
  BY DEF IInv
<1>1. CASE UNCHANGED <<blocked_users, trade_listings>>
  BY <1>1 DEF Policy!policyVars
<1>2. CASE Policy!WriteListings
  BY <1>2 DEF Policy!PolicyNext
<1>3. CASE Upsert
  BY <1>2, <1>3, UpsertWrites DEF SInv
<1>4. CASE Delete \/ \E ids \in SUBSET ListingIds : DeleteExpired(ids)
  BY <1>0, <1>2, <1>4, DeleteWrites DEF Delete, DeleteExpired
<1>5. ASSUME NEW r \in Requests, Commit(r)
      PROVE  Policy!PolicyNext
  BY <1>0, <1>5, CommitBlocks, UserType DEF Commit, SInv, Policy!PolicyNext
<1>6. ASSUME NEW r \in Requests, DeleteBlockedUser(r)
      PROVE  Policy!PolicyNext
  <2>1. Policy!Unblock(rpc[r].user)
    BY <1>6 DEF DeleteBlockedUser, Policy!Unblock
  <2> QED
    BY <1>0, <1>6, <2>1, UserType DEF DeleteBlockedUser, Policy!PolicyNext
<1>7. ASSUME NEW r \in Requests
      PROVE  ~Cancel(r) /\ ~OrphanRuns(r)
  BY DEF Cancel, OrphanRuns, EveryCommitIsHeard, SInv, NoOrphan
<1> QED
  BY <1>1, <1>3, <1>4, <1>5, <1>6, <1>7 DEF Next, WorkerStatement, Statement,
     LockedStep, vars, Start, Crash, ReceiveBatch, FilterBatch, WorkerConnect,
     FinishBatch, SkipBatch, EndIteration, Call, Connect, FindNotBlocked,
     FindAlreadyBlocked, LockBlockList, InsertBlockedUser, InsertDuplicate,
     DeleteTheirListings, BlockSucceeds, LoseCommitReply, UnblockSucceeds, Fail

(***************************************************************************)
(* BlockUser and UnblockUser look atomic in the tables, and no listing is  *)
(* written for a blocked user, as long as no block of a user overlaps an   *)
(* unblock: COMMIT is the block, the DELETE from blocked_users is the      *)
(* unblock, and every other step is a write the policy allows, or none.    *)
(***************************************************************************)
THEOREM PolicyImplemented ==
    ASSUME EveryCommitIsHeard
    PROVE  Spec /\ []RequestsApart => ImplementsPolicy
<1>1. IInv /\ SInv /\ [Next]_vars => [Policy!PolicyNext]_(Policy!policyVars)
  BY PolicyStep
<1> QED
  BY <1>1, PolicyStarts, Invariance, OrderlyInvariance, PTL
     DEF Spec, ImplementsPolicy, Policy!PolicySpec

-----------------------------------------------------------------------------
(***************************************************************************)
(* A service whose clients do not unblock whom they are blocking, nor the  *)
(* other way round, has the three properties.                              *)
(***************************************************************************)
THEOREM OrderlyService ==
    ASSUME EveryCommitIsHeard
    PROVE  OrderlySpec => /\ []BlockedUsersHaveNoListing
                          /\ []CopyAgreesAtRest
                          /\ ImplementsPolicy
<1>1. Init => RequestsApart
  BY DEF Init, IdleRpc, RequestsApart
<1>2. RequestsApart /\ [Next /\ RequestsApart']_vars => RequestsApart'
  BY DEF RequestsApart, vars, rpcVars
<1>3. [Next /\ RequestsApart']_vars => [Next]_vars
  OBVIOUS
<1>4. OrderlySpec => Spec /\ []RequestsApart
  BY <1>1, <1>2, <1>3, PTL DEF OrderlySpec, Spec
<1> QED
  BY <1>4, BlockedHaveNone, CopyAgrees, PolicyImplemented, PTL
=============================================================================
