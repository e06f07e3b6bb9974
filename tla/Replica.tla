------------------------------ MODULE Replica ------------------------------
(***************************************************************************)
(* The table trade_listings as a copy of the listings of backpack.tf.      *)
(*                                                                         *)
(* The site changes its listings and tells so in messages, each a batch of *)
(* events, over a websocket that is opened, closed and reopened with an    *)
(* exponential backoff (src/processing/worker.rs).  A message that nobody  *)
(* hears is never sent again.  The TTL task (src/db/workers.rs) deletes    *)
(* rows whose bumped_at is too old.  Nobody is blocked here: the block     *)
(* list and its mutex are the subject of BlockList.                        *)
(***************************************************************************)
EXTENDS Etl

CONSTANTS
    Values,      \* the prices a listing may have
    Ttl,         \* listings_ttl_hours, in ticks of the clock
    Messages,    \* the batches the site may send
    MaxQueue,    \* bound: messages that were sent and not yet read
    Faults       \* which failures happen

(***************************************************************************)
(* The failures:                                                           *)
(*   "db"       a statement, or getting a connection, fails                *)
(*   "link"     connecting fails, the connection breaks or falls silent    *)
(*   "garbage"  a message cannot be deserialized                           *)
(*   "crash"    the process stops, and is started again                    *)
(* Time is the age of a bumped_at; all ages beyond the TTL are alike.      *)
(***************************************************************************)
Ages == 0 .. Ttl + 1

ASSUME ReplicaAssumption ==
    /\ Ttl \in Nat /\ MaxQueue \in Nat \ {0}
    /\ Prices = [value : Values, age : Ages]
    /\ Messages \subseteq Seq(Event) /\ NoListing \notin Event
    /\ Faults \subseteq {"db", "link", "garbage", "crash"}

VARIABLES
    site,            \* the last event of every listing the site has
    channel,         \* the messages sent over the open connection
    link,            \* the websocket
    backoff,         \* seconds to wait before the next attempt
    stage,           \* what the processing task does
    batch,           \* the message it works on
    trade_listings,  \* the table
    missed,          \* history: the ids of which an event was lost, skipped or
                     \* filtered out, and no later one applied
    lost             \* history: those of events sent since the last connection
                     \* broke

siteVars == <<site, channel>>
linkVars == <<link, backoff>>
tableVars == <<trade_listings, missed, lost>>
vars == <<siteVars, linkVars, stage, batch, tableVars>>

InitialBackoff == 5
MaxBackoff == 300

Updates(b) == FilterUnique(b, UpdatesIn(b, {}))
Deletes(b) == DeletesIn(b, {})

\* All ids a sequence of events or of messages is about.
Ids(b) == IdsOf(b, DOMAIN b)
QueuedIds(queue) == UNION {Ids(queue[i]) : i \in DOMAIN queue}

\* Every variable has its type; doubling never takes the backoff beyond the
\* limit (worker.rs:19-22), and no statement is sent without rows (145-161).
TypeOK ==
    /\ site \in [ListingIds -> {e \in Event : e.event = "listing-update"}
                               \cup {NoListing}]
    /\ channel \in Seq(Seq(Event)) /\ Len(channel) <= MaxQueue
    /\ link \in {"connecting", "open", "broken", "waiting"}
    /\ backoff \in InitialBackoff .. MaxBackoff
    /\ stage \in {"reading", "upserting", "deleting"}
    /\ batch \in Seq(Event)
    /\ stage = "upserting" => Updates(batch) # {}
    /\ stage = "deleting" => Deletes(batch) # {}
    /\ trade_listings \in Tables
    /\ missed \subseteq ListingIds /\ lost \subseteq ListingIds

Init ==
    /\ site = EmptyTable
    /\ channel = <<>>
    /\ link = "connecting"
    /\ backoff = InitialBackoff
    /\ stage = "reading"
    /\ batch = <<>>
    /\ trade_listings = EmptyTable
    /\ missed = {}
    /\ lost = {}

-----------------------------------------------------------------------------
(* The site.                                                               *)

\* The site deletes a listing that it has.
Plausible(b) ==
    \A i \in DOMAIN b : b[i].event = "listing-delete" =>
        \/ site[b[i].id] # NoListing
        \/ \E j \in 1 .. i - 1 : b[j].id = b[i].id

LastEvent(b, id) ==
    b[CHOOSE i \in DOMAIN b :
        b[i].id = id /\ \A j \in DOMAIN b : b[j].id = id => j <= i]

\* The events of a message are in the order in which they happened.
Publish(b) ==
    /\ Plausible(b)
    /\ site' = [id \in ListingIds |->
                  IF id \notin Ids(b) THEN site[id]
                  ELSE IF LastEvent(b, id).event = "listing-update"
                       THEN LastEvent(b, id) ELSE NoListing]
    /\ \/ /\ link = "open" /\ Len(channel) < MaxQueue
          /\ channel' = Append(channel, b)
          /\ UNCHANGED lost
       \/ /\ link # "open"
          /\ lost' = lost \cup Ids(b)
          /\ UNCHANGED channel
    /\ UNCHANGED <<linkVars, stage, batch, trade_listings, missed>>

Aged(price) == [price EXCEPT !.age = IF @ > Ttl THEN @ ELSE @ + 1]
AgedEvents(b) == [i \in DOMAIN b |-> [b[i] EXCEPT !.price = Aged(@)]]
AgedRows(rows) ==
    [id \in ListingIds |->
        IF rows[id] = NoListing THEN NoListing
        ELSE [rows[id] EXCEPT !.price = Aged(@)]]

\* Time passes for everything that carries a bumped_at.
Tick ==
    /\ site' = AgedRows(site)
    /\ channel' = [i \in DOMAIN channel |-> AgedEvents(channel[i])]
    /\ batch' = AgedEvents(batch)
    /\ trade_listings' = AgedRows(trade_listings)
    /\ UNCHANGED <<linkVars, stage, missed, lost>>

-----------------------------------------------------------------------------
(* The websocket.                                                          *)

Connected ==
    /\ link = "connecting"
    /\ link' = "open"
    /\ backoff' = InitialBackoff
    /\ missed' = missed \cup lost
    /\ lost' = {}
    /\ UNCHANGED <<siteVars, stage, batch, trade_listings>>

\* Connecting fails or takes longer than FUTURE_TIMEOUT.
ConnectFails ==
    /\ link = "connecting"
    /\ "link" \in Faults
    /\ link' = "waiting"
    /\ UNCHANGED <<siteVars, backoff, stage, batch, tableVars>>

\* A faulty Wake: the delay grows without a limit.
WakeUncapped ==
    /\ link = "waiting"
    /\ link' = "connecting"
    /\ backoff' = backoff * 2
    /\ UNCHANGED <<siteVars, stage, batch, tableVars>>

\* wait_exponential_backoff is over.
Wake ==
    /\ link = "waiting"
    /\ link' = "connecting"
    /\ backoff' = IF backoff * 2 < MaxBackoff THEN backoff * 2 ELSE MaxBackoff
    /\ UNCHANGED <<siteVars, stage, batch, tableVars>>

\* The connection breaks: what has arrived can still be read.
Break ==
    /\ link = "open"
    /\ "link" \in Faults
    /\ link' = "broken"
    /\ \E n \in 0 .. Len(channel) :
          /\ channel' = SubSeq(channel, 1, n)
          /\ lost' = QueuedIds(SubSeq(channel, n + 1, Len(channel)))
    /\ UNCHANGED <<site, backoff, stage, batch, trade_listings, missed>>

\* The read loop ends: an error, a close frame, or FUTURE_TIMEOUT without a
\* message.
Disconnect ==
    /\ stage = "reading"
    /\ channel = <<>>
    /\ link = "broken" \/ (link = "open" /\ "link" \in Faults)
    /\ link' = "waiting"
    /\ UNCHANGED <<siteVars, backoff, stage, batch, tableVars>>

-----------------------------------------------------------------------------
(* Processing a message.                                                   *)

\* After the filters: the first statement there is work for.
FirstStage(b) ==
    IF Updates(b) # {} THEN "upserting"
    ELSE IF Deletes(b) # {} THEN "deleting" ELSE "reading"

Read ==
    /\ link \in {"open", "broken"}
    /\ stage = "reading"
    /\ channel # <<>>
    /\ channel' = Tail(channel)
    /\ backoff' = InitialBackoff
    /\ \/ /\ batch' = Head(channel)
          /\ stage' = FirstStage(Head(channel))
       \/ /\ "garbage" \in Faults
          /\ UNCHANGED <<batch, stage>>
    /\ missed' = missed \cup Ids(Head(channel))
    /\ UNCHANGED <<site, link, trade_listings, lost>>

Upsert ==
    /\ stage = "upserting"
    /\ trade_listings' = UpsertListings(trade_listings, batch, Updates(batch))
    /\ missed' = missed \ IdsOf(batch, Updates(batch))
    /\ stage' = IF Deletes(batch) # {} THEN "deleting" ELSE "reading"
    /\ batch' = IF Deletes(batch) # {} THEN batch ELSE <<>>
    /\ UNCHANGED <<siteVars, linkVars, lost>>

Delete ==
    /\ stage = "deleting"
    /\ trade_listings' =
          DeleteListings(trade_listings, IdsOf(batch, Deletes(batch)))
    /\ missed' = missed \ IdsOf(batch, Deletes(batch))
    /\ stage' = "reading"
    /\ batch' = <<>>
    /\ UNCHANGED <<siteVars, linkVars, lost>>

\* "Skipping this batch of events."
Skip ==
    /\ stage \in {"upserting", "deleting"}
    /\ "db" \in Faults
    /\ stage' = "reading"
    /\ batch' = <<>>
    /\ UNCHANGED <<siteVars, linkVars, tableVars>>

\* The process stops, by a panic of the processing task for one, and is
\* started again.
Restart ==
    /\ "crash" \in Faults
    /\ link' = "connecting"
    /\ backoff' = InitialBackoff
    /\ stage' = "reading"
    /\ batch' = <<>>
    /\ channel' = <<>>
    /\ lost' = lost \cup QueuedIds(channel)
    /\ UNCHANGED <<site, trade_listings, missed>>

-----------------------------------------------------------------------------
\* A faulty Expired: the comparison is the wrong way round.
StillFresh(row) == row # NoListing /\ row.price.age <= Ttl

Expired(row) == row # NoListing /\ row.price.age > Ttl

DeleteExpired ==
    /\ trade_listings' =
          DeleteListings(trade_listings,
                         {id \in ListingIds : Expired(trade_listings[id])})
    /\ UNCHANGED <<siteVars, linkVars, stage, batch, missed, lost>>

Process == Read \/ Upsert \/ Delete \/ Skip

Next ==
    \/ \E b \in Messages : Publish(b)
    \/ Tick
    \/ Connected \/ ConnectFails \/ Wake \/ Break \/ Disconnect
    \/ Process
    \/ Restart
    \/ DeleteExpired

Spec == Init /\ [][Next]_vars

\* Time passes and the TTL task runs every DELETE_TTL_LISTINGS_INTERVAL_MINS,
\* in a process that is started again whenever it stops (Restart).
FairSpec == Spec /\ WF_vars(Tick) /\ WF_vars(DeleteExpired)

-----------------------------------------------------------------------------
(* Properties.                                                             *)

InSync(id) ==
    \/ trade_listings[id] = IF site[id] = NoListing THEN NoListing
                            ELSE NewListing(site[id])
    \/ trade_listings[id] = NoListing /\ Expired(site[id])

(***************************************************************************)
(* "replica of the backpack.tf listings database, with some information    *)
(* filtered out": a row differs from the site only while the last event    *)
(* about it is under way, or because it was lost, skipped or filtered out, *)
(* or because the listing is older than the TTL.  In particular, a lost    *)
(* event is made good by the next one about the same listing, and nothing  *)
(* is left of a batch that failed halfway that a later one does not mend.  *)
(***************************************************************************)
HeardIsApplied ==
    \A id \in ListingIds :
        id \notin missed \cup lost \cup QueuedIds(channel) => InSync(id)

(***************************************************************************)
(* A listing that the site no longer has does not stay in the table for    *)
(* ever, even when the event of its deletion was lost: the TTL ends it.    *)
(***************************************************************************)
GoneListingsGo ==
    \A id \in ListingIds :
        trade_listings[id] # NoListing /\ site[id] = NoListing
            ~> trade_listings[id] = NoListing \/ site[id] # NoListing
=============================================================================
