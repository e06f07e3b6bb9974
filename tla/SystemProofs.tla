---------------------------- MODULE SystemProofs ----------------------------
(***************************************************************************)
(* The whole process implements BlockList, for every value of the          *)
(* constants: hence BlockList's theorems are theorems about the process.   *)
(***************************************************************************)
EXTENDS System, BlockListOrderlyProofs, TLAPS

\* From its reading to the start of the tasks, nobody changes the block list.
LoadedIsCurrent == stage = "pricing" => loaded = blocked_users

SystemInv ==
    /\ IInv
    /\ SystemTypeOK
    /\ LoadedIsCurrent

-----------------------------------------------------------------------------
(* The tasks do nothing before they are started, or after the end.         *)

LEMMA ListStepWhileUp ==
    ASSUME DownIsIdle, ListStep
    PROVE  running /\ running'
<1> USE DEF dbVars, workerVars, rpcVars, DownIsIdle, IdleRpc
<1>1. CASE Alive("processing") /\ \E b \in Batches : ReceiveBatch(b)
  BY <1>1 DEF Alive, ReceiveBatch
<1>2. CASE FilterBatch
  BY <1>2 DEF FilterBatch
<1>3. CASE WorkerStatement
  BY <1>3 DEF WorkerStatement, Upsert, Delete, FinishBatch, SkipBatch, EndIteration
<1>4. ASSUME NEW r \in Requests, Alive("server"),
             \E method \in {"block", "unblock"}, user \in SteamIds :
                 Call(r, method, user)
      PROVE  running /\ running'
  BY <1>4 DEF Alive, Call
<1>5. ASSUME NEW r \in Requests, LockedStep(r)
      PROVE  running /\ running'
  BY <1>5 DEF LockedStep, LockBlockList, UnblockSucceeds, Goto
<1>6. ASSUME NEW r \in Requests, Statement(r)
      PROVE  running /\ running'
  BY <1>6 DEF Statement, FindNotBlocked, FindAlreadyBlocked, InsertBlockedUser,
              InsertDuplicate, DeleteTheirListings, Commit, BlockSucceeds,
              LoseCommitReply, DeleteBlockedUser, Fail
<1>7. ASSUME NEW r \in Requests, Cancel(r) \/ OrphanRuns(r)
      PROVE  running /\ running'
  BY <1>7 DEF Cancel, OrphanRuns
<1> QED
  BY <1>1, <1>2, <1>3, <1>4, <1>5, <1>6, <1>7 DEF ListStep

LEMMA ConnStepWhileUp ==
    ASSUME DownIsIdle, ConnStep
    PROVE  running /\ running'
<1> USE DEF dbVars, workerVars, rpcVars, DownIsIdle, IdleRpc
<1>1. CASE Alive("ttl") /\ \E ids \in SUBSET ListingIds : DeleteExpired(ids)
  BY <1>1 DEF Alive, DeleteExpired
<1>2. CASE WorkerConnect
  BY <1>2 DEF WorkerConnect
<1>3. ASSUME NEW r \in Requests, Connect(r)
      PROVE  running /\ running'
  BY <1>3 DEF Connect
<1> QED
  BY <1>1, <1>2, <1>3 DEF ConnStep

-----------------------------------------------------------------------------
(* Every step of the process is one of BlockList, or a stutter.            *)

LEMMA SystemInitMaps == SystemInit => Init
BY DEF SystemInit

LEMMA SystemStepMaps ==
    ASSUME SystemInv, [SystemNext]_systemVars
    PROVE  [Next]_vars
<1> USE DEF vars, dbVars, workerVars, rpcVars
<1>0. SystemTypeOK /\ LoadedIsCurrent
  BY DEF SystemInv
<1>1. CASE Launch \/ Migrate \/ LoadBlockList \/ StartupFails
  BY <1>1 DEF Launch, Migrate, LoadBlockList, StartupFails, Advance
<1>2. CASE SpawnTasks
  <2>1. Start
    BY <1>0, <1>2 DEF SpawnTasks, Advance, Start, SystemTypeOK, LoadedIsCurrent
  <2> QED
    BY <2>1 DEF Next
<1>3. ASSUME NEW t \in Mortal, TaskEnds(t)
      PROVE  [Next]_vars
  <2>1. CASE t = "processing"
    <3>1. SkipBatch
      BY <1>3, <2>1, SystemAssumption DEF TaskEnds, SkipBatch
    <3> QED
      BY <3>1 DEF Next, WorkerStatement
  <2>2. CASE t # "processing"
    BY <1>3, <2>2 DEF TaskEnds
  <2> QED
    BY <2>1, <2>2
<1>4. CASE Kill \/ Exit
  BY <1>4 DEF Kill, Exit, Stop, Next
<1>5. CASE ListStep
  BY <1>5 DEF ListStep, Next
<1>6. CASE ConnStep
  BY <1>6 DEF ConnStep, Next
<1>7. CASE RefreshStep
  BY <1>7 DEF RefreshStep, Refreshing
<1>8. CASE AbandonedStep
  BY <1>8 DEF AbandonedStep
<1>9. CASE UNCHANGED systemVars
  BY <1>9 DEF systemVars
<1> QED
  BY <1>1, <1>2, <1>3, <1>4, <1>5, <1>6, <1>7, <1>8, <1>9 DEF SystemNext

-----------------------------------------------------------------------------
(* The invariant.                                                          *)

LEMMA EmptyTableType == EmptyTable \in Tables /\ View!NoRows \in Tables
BY DEF EmptyTable, Tables, View!NoRows

LEMMA BotRowsType ==
    ASSUME NEW rows \in Tables
    PROVE  BotRows(rows) \in Tables
BY DEF BotRows, Tables

\* What SystemTypeOK says of the views.
ViewsTypeOK ==
    /\ mv_prices \in Tables
    /\ mv_bot_prices \in Tables
    /\ refresh.rows \in Tables
    /\ refresh.stage \in View!Stages
    /\ abandoned.rows \in Tables
    /\ abandoned.stage \in View!Statements \cup {"idle"}

\* What a statement installs is what it saw, or the bots' part of it.
LEMMA InstallFacts ==
    ASSUME NEW statement, View!Install(statement)
    PROVE  /\ mv_prices' \in {mv_prices, statement.rows}
           /\ mv_bot_prices' \in {mv_bot_prices, BotRows(statement.rows)}
BY DEF View!Install

LEMMA ViewsTypeStep ==
    ASSUME ViewsTypeOK, trade_listings \in Tables,
           RefreshStep \/ AbandonedStep \/ View!Abandon
    PROVE  ViewsTypeOK'
<1> USE EmptyTableType, BotRowsType, InstallFacts
    DEF ViewsTypeOK, View!Stages, View!Statements, View!Idle, View!End, View!Begin,
        View!AfterStatement
<1>1. CASE Refreshing(BeginRefresh)
  BY <1>1 DEF Refreshing, BeginRefresh, View!BeginPrices
<1>2. CASE Refreshing(View!BeginBotPrices)
  BY <1>2 DEF Refreshing, View!BeginBotPrices
<1>3. CASE Refreshing(View!FinishPrices)
  BY <1>3 DEF Refreshing, View!FinishPrices, View!Finish
<1>4. CASE Refreshing(View!FinishBotPrices)
  BY <1>4 DEF Refreshing, View!FinishBotPrices, View!Finish
<1>5. CASE Refreshing(View!RefreshFails)
  BY <1>5 DEF Refreshing, View!RefreshFails
<1>6. CASE View!Abandon
  BY <1>6 DEF View!Abandon
<1>7. CASE AbandonedStep
  BY <1>7 DEF AbandonedStep, View!EndAbandoned
<1> QED
  BY <1>1, <1>2, <1>3, <1>4, <1>5, <1>6, <1>7 DEF RefreshStep

\* What SystemTypeOK says of main, and LoadedIsCurrent.
MainOK ==
    /\ stage \in {"down", "migrating", "loading", "pricing", "up"}
    /\ loaded \subseteq SteamIds
    /\ ended \in Tasks \cup {NoTask}
    /\ running \in BOOLEAN
    /\ running <=> stage = "up"
    /\ ended # NoTask => running
    /\ refresh.stage # "idle" => running
    /\ LoadedIsCurrent

LEMMA SystemInvParts == SystemInv <=> IInv /\ ViewsTypeOK /\ MainOK
BY DEF SystemInv, SystemTypeOK, ViewsTypeOK, MainOK, IInv, TypeOK

LEMMA MainStep ==
    ASSUME SystemInv, [SystemNext]_systemVars
    PROVE  MainOK'
<1> USE DEF vars, dbVars, workerVars, rpcVars, viewVars, mainVars, MainOK,
            LoadedIsCurrent
<1>0. /\ MainOK
      /\ blocked_users \subseteq SteamIds
      /\ DownIsIdle
  BY SystemInvParts DEF IInv, TypeOK
<1>1. CASE Launch \/ Migrate \/ LoadBlockList \/ StartupFails
  BY <1>0, <1>1 DEF Launch, Migrate, LoadBlockList, StartupFails, Advance
<1>2. CASE SpawnTasks
  BY <1>0, <1>2 DEF SpawnTasks, Advance
<1>3. ASSUME NEW t \in Mortal, TaskEnds(t)
      PROVE  MainOK'
  BY <1>0, <1>3, SystemAssumption DEF TaskEnds, EndIteration, View!Abandon, View!End, View!Idle
<1>4. CASE Kill \/ Exit
  BY <1>0, <1>4 DEF Kill, Exit, Stop, Crash, View!Abandon, View!End, View!Idle
<1>5. CASE ListStep
  <2>1. running /\ running'
    BY <1>0, <1>5, ListStepWhileUp
  <2>2. UNCHANGED <<mainVars, viewVars>>
    BY <1>5 DEF ListStep
  <2> QED
    BY <1>0, <2>1, <2>2
<1>6. CASE ConnStep
  <2>1. running /\ running'
    BY <1>0, <1>6, ConnStepWhileUp
  <2>2. UNCHANGED <<mainVars, viewVars>>
    BY <1>6 DEF ConnStep
  <2> QED
    BY <1>0, <2>1, <2>2
<1>7. CASE RefreshStep
  BY <1>0, <1>7 DEF RefreshStep, Refreshing, Alive
<1>8. CASE AbandonedStep
  BY <1>0, <1>8 DEF AbandonedStep, View!EndAbandoned
<1>9. CASE UNCHANGED systemVars
  BY <1>0, <1>9 DEF systemVars
<1> QED
  BY <1>1, <1>2, <1>3, <1>4, <1>5, <1>6, <1>7, <1>8, <1>9 DEF SystemNext

\* Who writes the views.
LEMMA ViewsChange ==
    ASSUME [SystemNext]_systemVars
    PROVE  RefreshStep \/ AbandonedStep \/ View!Abandon \/ UNCHANGED viewVars
BY DEF SystemNext, systemVars, Launch, Migrate, LoadBlockList, SpawnTasks,
       StartupFails, Advance, TaskEnds, Kill, Exit, Stop, ListStep, ConnStep

LEMMA ViewsStep ==
    ASSUME SystemInv, [SystemNext]_systemVars
    PROVE  ViewsTypeOK'
<1>0. ViewsTypeOK /\ trade_listings \in Tables
  BY SystemInvParts DEF IInv, TypeOK
<1>1. CASE RefreshStep \/ AbandonedStep \/ View!Abandon
  BY <1>0, <1>1, ViewsTypeStep
<1>2. CASE UNCHANGED viewVars
  BY <1>0, <1>2 DEF viewVars, ViewsTypeOK, View!Stages, View!Statements
<1> QED
  BY <1>1, <1>2, ViewsChange

LEMMA SystemInvInit == SystemInit => SystemInv
<1> SUFFICES ASSUME SystemInit PROVE SystemInv
  OBVIOUS
<1>1. IInv
  BY SystemInitMaps, InvInit
<1>2. ViewsTypeOK
  BY EmptyTableType
     DEF SystemInit, View!ViewsInit, View!Idle, View!Stages, View!Statements,
         ViewsTypeOK
<1>3. MainOK
  BY DEF SystemInit, Init, View!ViewsInit, View!Idle, MainOK, LoadedIsCurrent
<1> QED
  BY <1>1, <1>2, <1>3, SystemInvParts

LEMMA SystemInvStep == SystemInv /\ [SystemNext]_systemVars => SystemInv'
<1> SUFFICES ASSUME SystemInv, [SystemNext]_systemVars
             PROVE  SystemInv'
  OBVIOUS
<1>1. IInv'
  BY SystemStepMaps, InvStep DEF SystemInv
<1>2. ViewsTypeOK'
  BY ViewsStep
<1>3. MainOK'
  BY MainStep
<1>4. (SystemInv <=> IInv /\ ViewsTypeOK /\ MainOK)'
  BY SystemInvParts, PTL
<1> QED
  BY <1>1, <1>2, <1>3, <1>4

\* Before the tasks start nobody changes the list that main has read, and
\* BlockList's own invariant holds throughout.
THEOREM SystemInvariance == SystemSpec => []SystemInv
BY SystemInvInit, SystemInvStep, PTL DEF SystemSpec

-----------------------------------------------------------------------------
(* The theorems.                                                           *)

(***************************************************************************)
(* Every variable of the process keeps its type, and neither a refresh nor *)
(* the end of a task outlives the process.                                 *)
(***************************************************************************)
THEOREM SystemTypeCorrect == SystemSpec => []SystemTypeOK
<1>1. SystemInv => SystemTypeOK
  BY DEF SystemInv
<1> QED
  BY <1>1, SystemInvariance, PTL

(***************************************************************************)
(* The process is a BlockList: starting in steps, ending with its tasks    *)
(* and refreshing the views over the same pool change nothing of what      *)
(* BlockList speaks of, except as BlockList does.                          *)
(***************************************************************************)
THEOREM SystemIsBlockList == SystemSpec => ImplementsBlockList
<1>1. SystemInv /\ [SystemNext]_systemVars => [Next]_vars
  BY SystemStepMaps
<1> QED
  BY <1>1, SystemInitMaps, SystemInvariance, PTL
     DEF SystemSpec, ImplementsBlockList, Spec

(***************************************************************************)
(* Through every startup, failure and end of the whole process, a block    *)
(* that took hold stays in force until the user is unblocked.              *)
(***************************************************************************)
THEOREM SystemKeepsBlocks == SystemSpec => BlockStaysInForce
BY SystemIsBlockList, BlocksStay, PTL DEF ImplementsBlockList

(***************************************************************************)
(* What BlockUserService promises is what the whole process does, as long  *)
(* as no block of a user overlaps an unblock and every COMMIT is heard of: *)
(* blocks and unblocks look atomic in the tables through every startup,    *)
(* every refresh and every end of a task.                                  *)
(***************************************************************************)
THEOREM SystemImplementsPolicy ==
    ASSUME EveryCommitIsHeard
    PROVE  SystemSpec /\ []RequestsApart => ImplementsPolicy
BY SystemIsBlockList, PolicyImplemented, PTL DEF ImplementsBlockList

-----------------------------------------------------------------------------
(* Out of sight.                                                           *)

\* A view shows what it did or what a statement saw, and a statement sees the
\* table.
LEMMA RowsComeFromTheTable ==
    ASSUME RefreshStep \/ AbandonedStep \/ View!Abandon
    PROVE  /\ mv_prices' \in {mv_prices, refresh.rows, abandoned.rows}
           /\ mv_bot_prices' \in
                 {mv_bot_prices, BotRows(refresh.rows), BotRows(abandoned.rows)}
           /\ refresh'.rows \in {refresh.rows, trade_listings, View!NoRows}
           /\ abandoned'.rows \in {abandoned.rows, refresh.rows, View!NoRows}
<1> USE InstallFacts DEF View!Idle, View!End
<1>1. CASE Refreshing(BeginRefresh) \/ Refreshing(View!BeginBotPrices)
  BY <1>1 DEF Refreshing, BeginRefresh, View!BeginPrices, View!BeginBotPrices,
              View!Begin
<1>2. CASE Refreshing(View!FinishPrices) \/ Refreshing(View!FinishBotPrices)
  BY <1>2 DEF Refreshing, View!FinishPrices, View!FinishBotPrices, View!Finish
<1>3. CASE Refreshing(View!RefreshFails)
  BY <1>3 DEF Refreshing, View!RefreshFails
<1>4. CASE View!Abandon
  BY <1>4 DEF View!Abandon
<1>5. CASE AbandonedStep
  BY <1>5 DEF AbandonedStep, View!EndAbandoned
<1> QED
  BY <1>1, <1>2, <1>3, <1>4, <1>5 DEF RefreshStep

LEMMA HidingRows ==
    ASSUME NEW u \in SteamIds
    PROVE  /\ ListingsOf(View!NoRows, u) = {}
           /\ \A rows : ListingsOf(rows, u) = {} => ListingsOf(BotRows(rows), u) = {}
BY DEF ListingsOf, BotRows, View!NoRows

LEMMA StaysOutOfSight ==
    ASSUME SystemInv, [SystemNext]_systemVars,
           NEW u \in SteamIds, OutOfSight(u), CleanlyBlocked(u)'
    PROVE  OutOfSight(u)'
<1> DEFINE Hides(rows) == ListingsOf(rows, u) = {}
<1>1. /\ Hides(mv_prices) /\ Hides(mv_bot_prices)
      /\ Hides(refresh.rows) /\ Hides(abandoned.rows)
      /\ Hides(trade_listings)
      /\ Hides(View!NoRows)
      /\ \A rows : Hides(rows) => Hides(BotRows(rows))
  BY HidingRows DEF OutOfSight, CleanlyBlocked
<1>2. /\ Hides(mv_prices') /\ Hides(mv_bot_prices')
      /\ Hides(refresh'.rows) /\ Hides(abandoned'.rows)
  <2> HIDE DEF Hides
  <2>1. CASE RefreshStep \/ AbandonedStep \/ View!Abandon
    BY <1>1, <2>1, RowsComeFromTheTable
  <2>2. CASE UNCHANGED viewVars
    BY <1>1, <2>2 DEF viewVars
  <2> QED
    BY <2>1, <2>2, ViewsChange
<1> QED
  BY <1>2 DEF OutOfSight, ListingsOf

(***************************************************************************)
(* Once the listings of a blocked user have left the table and both views, *)
(* none comes back until UnblockUser is called, through every refresh,     *)
(* failure, end and start of the process, and through the statements that  *)
(* the server finishes for processes that are gone.                        *)
(***************************************************************************)
THEOREM BlockedRemainHidden == SystemSpec => BlockedStayOutOfSight
<1>1. ASSUME SystemInv, [SystemNext]_systemVars,
             NEW u \in SteamIds, OutOfSight(u)
      PROVE  OutOfSight(u)' \/ \E r \in Requests : Call(r, "unblock", u)
  <2>1. CleanlyBlocked(u)
    BY <1>1 DEF OutOfSight
  <2>2. CleanlyBlocked(u)' \/ \E r \in Requests : Call(r, "unblock", u)
    BY <1>1, <2>1, SystemStepMaps, BlockKept DEF SystemInv
  <2> QED
    BY <1>1, <2>2, StaysOutOfSight
<1>2. SystemInv /\ [SystemNext]_systemVars =>
          [\A u \in SteamIds :
              OutOfSight(u) => \/ OutOfSight(u)'
                               \/ \E r \in Requests : Call(r, "unblock", u)]_systemVars
  BY <1>1
<1> QED
  BY <1>2, SystemInvariance, PTL DEF SystemSpec, BlockedStayOutOfSight
=============================================================================
