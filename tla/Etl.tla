-------------------------------- MODULE Etl --------------------------------
(***************************************************************************)
(* The event batch of the websocket stream and the two SQL statements that *)
(* a batch becomes (src/processing/etl.rs and the filter chain of          *)
(* src/processing/worker.rs).  Everything here is a constant-level         *)
(* operator; BlockList gives the steps their interleaving.                 *)
(*                                                                         *)
(* A batch is the sequence of events of one text message.  Sets of         *)
(* positions of the batch stand for the Vec<PricingEvent> values the code  *)
(* derives from it, so that "first" keeps its meaning.                     *)
(***************************************************************************)
EXTENDS Naturals, Sequences

CONSTANTS
    ListingIds,   \* payload.id: the identifiers backpack.tf gives listings
    SteamIds,     \* payload.steamid: the users
    Prices,       \* the columns an upsert refreshes (prices, bumped_at, description)
    NoListing     \* no row of trade_listings has this id

ASSUME EtlAssumption == NoListing \notin [steamid : SteamIds, price : Prices]

(***************************************************************************)
(* PricingEvent.  screened says that the payload fails one of the content  *)
(* filters: an empty item name, a spelled item, an unusual weapon.         *)
(***************************************************************************)
Event ==
    [event    : {"listing-update", "listing-delete"},
     id       : ListingIds,
     steamid  : SteamIds,
     price    : Prices,
     screened : BOOLEAN]

\* A row of trade_listings, its key left out.  steamid is a column that an
\* upsert writes when it inserts the row and never again; price stands for
\* the columns that every upsert writes.
Listing == [steamid : SteamIds, price : Prices]

Tables == [ListingIds -> Listing \cup {NoListing}]

EmptyTable == [id \in ListingIds |-> NoListing]

\* The ids of the rows that belong to a user.
ListingsOf(table, user) ==
    {id \in ListingIds : table[id] # NoListing /\ table[id].steamid = user}

(***************************************************************************)
(* The filter chain and the partition of worker.rs.                        *)
(***************************************************************************)
\* A faulty Accepted: the block list is not consulted.
AcceptedFromAnyone(e, blocked) == ~e.screened

Accepted(e, blocked) == ~e.screened /\ e.steamid \notin blocked

UpdatesIn(batch, blocked) ==
    {i \in DOMAIN batch : /\ Accepted(batch[i], blocked)
                          /\ batch[i].event = "listing-update"}

DeletesIn(batch, blocked) ==
    {i \in DOMAIN batch : /\ Accepted(batch[i], blocked)
                          /\ batch[i].event # "listing-update"}

\* A faulty FilterUnique: nothing is removed.
FilterNothing(batch, events) == events

\* filter_unique_listing_events: the first of the given events of every id.
FilterUnique(batch, events) ==
    {i \in events : \A j \in events : batch[j].id = batch[i].id => i <= j}

(***************************************************************************)
(* upsert_trade_listings: one INSERT ... ON CONFLICT (id) DO UPDATE with a *)
(* row per event.  PostgreSQL rejects the whole statement when two of its  *)
(* rows have the same id ("cannot affect row a second time").              *)
(***************************************************************************)
OneRowPerId(batch, events) ==
    \A i, j \in events : batch[i].id = batch[j].id => i = j

NewListing(e) == [steamid |-> e.steamid, price |-> e.price]

\* A faulty UpsertListings: ON CONFLICT DO NOTHING.
InsertListings(table, batch, events) ==
    [id \in ListingIds |->
        IF table[id] = NoListing /\ \E i \in events : batch[i].id = id
        THEN NewListing(batch[CHOOSE i \in events : batch[i].id = id])
        ELSE table[id]]

UpsertListings(table, batch, events) ==
    [id \in ListingIds |->
        IF \E i \in events : batch[i].id = id
        THEN LET e == batch[CHOOSE i \in events : batch[i].id = id]
             IN  IF table[id] = NoListing
                 THEN NewListing(e)
                 ELSE [table[id] EXCEPT !.price = e.price]
        ELSE table[id]]

\* delete_trade_listings, and every other DELETE FROM trade_listings.
DeleteListings(table, ids) ==
    [id \in ListingIds |-> IF id \in ids THEN NoListing ELSE table[id]]

IdsOf(batch, events) == {batch[i].id : i \in events}
=============================================================================
