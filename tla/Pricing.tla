------------------------------ MODULE Pricing ------------------------------
(***************************************************************************)
(* From the rows of trade_listings to the answers of PricingService        *)
(* (src/api/pricing_service.rs): the prices that an upsert stores, the     *)
(* two views (up.sql of the migration trade_item_id) as functions of the   *)
(* table, and the requests as functions of a view, of the table and of the *)
(* time.  When a view is refreshed is the subject of Views: it shows the   *)
(* table as it was some time ago, so what is said here of every reachable  *)
(* table is said of every view.                                            *)
(*                                                                         *)
(* Amounts of metal are natural numbers.  price_keys, a quotient in the    *)
(* code, is represented by price_metal and the rate it was computed with,  *)
(* and compared by cross multiplication.  Time is in seconds.              *)
(***************************************************************************)
EXTENDS Integers, FiniteSets

CONSTANTS
    ListingIds,
    Items,       \* item names
    Key,         \* MANNCO_SUPPLY_CRATE_KEY
    Events,      \* the listing updates that may come
    Rates,       \* key exchange rates
    NoListing,
    Hour,        \* seconds in an hour
    Times        \* bound: when a request may be served

\* A listing-update: what is listed, and on what terms, which are its original
\* price, its time and whether it names the user agent of a bot.
Terms == [keys : Nat, metal : Nat, bumped_at : Nat, user_agent : BOOLEAN]
Event == [id : ListingIds, item : Items, intent : {"buy", "sell"}, terms : Terms]

ASSUME PricingAssumption ==
    /\ Key \in Items
    /\ Events \subseteq Event
    /\ Rates \subseteq Nat
    /\ Hour \in Nat \ {0}
    /\ Times \subseteq Nat

VARIABLES
    exchange_rate,   \* the cached rate
    trade_listings   \* the table

vars == <<exchange_rate, trade_listings>>

\* terms are those of the event that last wrote the row, and rate (history)
\* is the rate it was priced with.
Row == [item : Items, intent : {"buy", "sell"}, is_automatic : BOOLEAN,
        terms : {e.terms : e \in Events}, rate : Rates, price_metal : Nat]
Rows == [ListingIds -> Row \cup {NoListing}]
NoRows == [id \in ListingIds |-> NoListing]

\* Tf2Currency::to_metal.
ToMetal(terms, rate) == terms.metal + terms.keys * rate

\* Every row is priced with the terms and the rate it was last written with:
\* no upsert (etl.rs:55-63) renews some of these columns only.
TypeOK ==
    /\ exchange_rate \in Rates
    /\ trade_listings \in Rows
    /\ \A id \in ListingIds :
          LET row == trade_listings[id]
          IN  row # NoListing => row.price_metal = ToMetal(row.terms, row.rate)

Init ==
    /\ exchange_rate \in Rates
    /\ trade_listings = NoRows

-----------------------------------------------------------------------------
(* The writers of the rate and of the table.                               *)

Poll(rate) ==
    /\ exchange_rate' = rate
    /\ UNCHANGED trade_listings

\* to_trade_listing.
NewRow(e) ==
    [item |-> e.item, intent |-> e.intent,
     is_automatic |-> e.terms.user_agent, terms |-> e.terms,
     rate |-> exchange_rate, price_metal |-> ToMetal(e.terms, exchange_rate)]

\* A faulty Upsert: price_keys and price_metal are not among the columns of DO
\* UPDATE SET.
UpsertTermsOnly(e) ==
    /\ trade_listings' = [trade_listings EXCEPT ![e.id] =
          IF @ = NoListing THEN NewRow(e)
          ELSE [@ EXCEPT !.terms = e.terms]]
    /\ UNCHANGED exchange_rate

\* A new row, or new prices for an old one: what is not among the columns of
\* DO UPDATE SET stays as it was.
Upsert(e) ==
    /\ trade_listings' = [trade_listings EXCEPT ![e.id] =
          IF @ = NoListing THEN NewRow(e)
          ELSE [@ EXCEPT !.terms = e.terms, !.rate = exchange_rate,
                         !.price_metal = ToMetal(e.terms, exchange_rate)]]
    /\ UNCHANGED exchange_rate

\* By a delete event, the TTL or a blocking.
Delete(id) ==
    /\ trade_listings[id] # NoListing
    /\ trade_listings' = [trade_listings EXCEPT ![id] = NoListing]
    /\ UNCHANGED exchange_rate

Next ==
    \/ \E rate \in Rates : Poll(rate)
    \/ \E e \in Events : Upsert(e)
    \/ \E id \in ListingIds : Delete(id)

Spec == Init /\ [][Next]_vars

\* The TTL deletes the row that an event has left behind.
Expire(e) ==
    /\ trade_listings[e.id] # NoListing /\ trade_listings[e.id].terms = e.terms
    /\ Delete(e.id)

\* The clock overtakes a bumped_at that stays as it is.  Nothing is assumed of
\* the rate, nor of whether a listing is heard of again.
FairSpec == Spec /\ \A e \in Events : WF_vars(Expire(e))

-----------------------------------------------------------------------------
(* The views.                                                              *)

\* "where is_automatic = true".
BotRows(rows) ==
    [id \in ListingIds |->
        IF rows[id] # NoListing /\ rows[id].is_automatic THEN rows[id]
        ELSE NoListing]

Listings(rows, item) ==
    {id \in ListingIds : rows[id] # NoListing /\ rows[id].item = item}

\* The items that have a row in the view.
Listed(rows) == {item \in Items : Listings(rows, item) # {}}

\* buy_listings and sell_listings.
Side(rows, item, intent) ==
    {id \in Listings(rows, item) : rows[id].intent = intent}

BumpedAt(rows, item) == {rows[id].terms.bumped_at : id \in Listings(rows, item)}

\* A faulty UpdatedAt: MIN(bumped_at).
OldestBump(rows, item) ==
    CHOOSE t \in BumpedAt(rows, item) : \A s \in BumpedAt(rows, item) : t <= s

\* "MAX(bumped_at) as updated_at".
UpdatedAt(rows, item) ==
    CHOOSE t \in BumpedAt(rows, item) : \A s \in BumpedAt(rows, item) : s <= t

\* The price_keys of a row is less than that of another.
Less(a, b) == a.price_metal * b.rate < b.price_metal * a.rate

Newer(a, b) ==
    ~Less(a, b) /\ ~Less(b, a) /\ a.terms.bumped_at > b.terms.bumped_at

\* A faulty Precedes: both lists are sorted the same way.
PrecedesAscending(a, b, intent) == Less(a, b) \/ Newer(a, b)

\* "order by price_keys DESC, bumped_at DESC" of the buy listings, and
\* "order by price_keys ASC, bumped_at DESC" of the sell listings.
Precedes(a, b, intent) ==
    \/ intent = "buy" /\ Less(b, a)
    \/ intent = "sell" /\ Less(a, b)
    \/ Newer(a, b)

-----------------------------------------------------------------------------
(* GetPricing and GetBotPricing.                                           *)

\* At a rate of zero, price_keys is infinite or not a number, hence a string
\* in JSON; a list that does not deserialize is taken for an empty one.
Read(rows, item, intent) ==
    IF \A id \in Side(rows, item, intent) : rows[id].rate # 0
    THEN Side(rows, item, intent) ELSE {}

\* The element 0 of buy_listings or sell_listings, if there is one; rows that
\* tie may stand in any order.
Best(rows, item, intent) ==
    {id \in Read(rows, item, intent) :
        \A other \in Read(rows, item, intent) :
            ~Precedes(rows[other], rows[id], intent)}

\* ItemPricing, as the listings that may be its buy and its sell.
NotFound == [buy |-> {}, sell |-> {}]

Answer(rows, item) ==
    IF item \in Listed(rows)
    THEN [buy |-> Best(rows, item, "buy"), sell |-> Best(rows, item, "sell")]
    ELSE NotFound

GetPricing(item) == Answer(trade_listings, item)
GetBotPricing(item) == Answer(BotRows(trade_listings), item)

-----------------------------------------------------------------------------
(* GetAllBotPricings.                                                      *)

DEFAULT_STALE_LIMIT_SECS == 6 * Hour

Fresh(limit, now) ==
    {item \in Listed(BotRows(trade_listings)) :
        UpdatedAt(BotRows(trade_listings), item) > now - limit}

\* The sets of items that may be streamed: at most limit of them, in the
\* order in which the database finds them.  It refuses a negative limit.
Streams(limit, now) ==
    {items \in SUBSET Fresh(limit, now) :
        /\ limit >= 0
        /\ \/ items = Fresh(limit, now) /\ Cardinality(items) <= limit
           \/ Cardinality(items) = limit}

-----------------------------------------------------------------------------
(* GetKeyExchangeRate.                                                     *)

\* The rows that get_exchange_rate_from_listings selects.
KeyOffers(now) ==
    {id \in Side(BotRows(trade_listings), Key, "sell") :
        trade_listings[id].terms.bumped_at > now - Hour}

\* A faulty CheapestKeys: "order_by(price_keys)".
CheapestInKeys(now) ==
    {id \in KeyOffers(now) :
        \A other \in KeyOffers(now) :
            ~Less(trade_listings[other], trade_listings[id])}

\* "order_by(price_metal)", "limit(1)".
CheapestKeys(now) ==
    {id \in KeyOffers(now) :
        \A other \in KeyOffers(now) :
            trade_listings[id].price_metal <= trade_listings[other].price_metal}

\* TradeListing::from, as far as the answer needs it.
TradeListing(row) ==
    [original_price |-> [keys |-> row.terms.keys, metal |-> row.terms.metal],
     bumped_at |-> row.terms.bumped_at]

FromListing(listing) ==
    [metal |-> listing.original_price.metal, updated_at |-> listing.bumped_at,
     source |-> "LISTINGS"]

\* The cached rate, the time of which is left out, is the answer when there is
\* no row, and when the query fails.
Snapshot == [metal |-> exchange_rate, source |-> "SNAPSHOT"]

GetKeyExchangeRate(now) ==
    {FromListing(TradeListing(trade_listings[id])) : id \in CheapestKeys(now)}
    \cup {Snapshot}

-----------------------------------------------------------------------------
(* Properties.                                                             *)

\* What is offered or asked, in metal, when a key is worth rate.
Worth(terms, rate) == terms.keys * rate + terms.metal

\* a is a better deal than b.
Beats(a, b, intent, rate) ==
    IF intent = "sell" THEN Worth(a, rate) < Worth(b, rate)
    ELSE Worth(a, rate) > Worth(b, rate)

Unbeaten(rows, answer, item, intent) ==
    \A id \in answer[intent], other \in Side(rows, item, intent) :
        rows[id].rate = rows[other].rate =>
            ~Beats(rows[other].terms, rows[id].terms, intent, rows[id].rate)

(***************************************************************************)
(* The buy and sell that the queries answer are the best of the item:      *)
(* no listing of the same view that was priced with the same rate asks     *)
(* less, or bids more, at that rate ("materialized views of best buy and   *)
(* sell prices for each item", README.md:28), whatever rates the other     *)
(* listings of the item were priced with.                                  *)
(***************************************************************************)
BestAtItsRate ==
    \A item \in Items, intent \in {"buy", "sell"} :
        /\ Unbeaten(trade_listings, GetPricing(item), item, intent)
        /\ Unbeaten(BotRows(trade_listings), GetBotPricing(item), item, intent)

Offered(rows, answer, item, intent) ==
    Side(rows, item, intent) # {} => answer[intent] # {}

(***************************************************************************)
(* A rate of zero hides offers for a time only.  A row that was priced     *)
(* with it makes the list it is in unreadable (tf2_currency.rs:39 and      *)
(* item_pricing.rs:17-21), so that an item with sellers is answered        *)
(* without any.  Once the rate stays off zero, every item that someone     *)
(* sells, or buys, is in the end, and for good, answered with an offer to  *)
(* sell it, or to buy it: what renews a row renews its prices too, and the *)
(* TTL takes the rows that nothing renews, whatever the rate does.         *)
(***************************************************************************)
ZeroRateHeals ==
    <>[](exchange_rate # 0) =>
        <>[](\A item \in Items, intent \in {"buy", "sell"} :
                /\ Offered(trade_listings, GetPricing(item), item, intent)
                /\ Offered(BotRows(trade_listings), GetBotPricing(item), item, intent))

(***************************************************************************)
(* "Stream all bot item prices" (pricing_service.proto:20): what is        *)
(* streamed is every item that has a bot listing bumped within the stale   *)
(* limit, as long as there are no more such items than the limit has       *)
(* seconds, which the query uses as a number of rows too.                  *)
(***************************************************************************)
StreamIsComplete ==
    \A now \in Times, limit \in 0 .. DEFAULT_STALE_LIMIT_SECS :
        LET recent == {trade_listings[id].item : id \in
                {i \in ListingIds :
                    /\ trade_listings[i] # NoListing
                    /\ trade_listings[i].is_automatic
                    /\ trade_listings[i].terms.bumped_at + limit > now}}
        IN  Cardinality(recent) <= limit => Streams(limit, now) = {recent}

(***************************************************************************)
(* A key exchange rate calculated from listings is the price in metal of a *)
(* bot that sells keys and was bumped within the hour.  Nothing keeps a    *)
(* key from being priced in keys, and the rows of the sellers were priced  *)
(* before and after changes of the rate.  Still no recent bot that sells   *)
(* for metal alone asks for less metal, and none that was priced with the  *)
(* same rate makes the better deal at it.                                  *)
(***************************************************************************)
KeyRateUnbeaten ==
    \A now \in Times :
        LET sellers == {id \in ListingIds :
                /\ trade_listings[id] # NoListing
                /\ trade_listings[id].item = Key
                /\ trade_listings[id].intent = "sell"
                /\ trade_listings[id].is_automatic
                /\ trade_listings[id].terms.bumped_at + Hour > now}
        IN  \A answer \in GetKeyExchangeRate(now) : answer.source = "LISTINGS" =>
                \E id \in sellers :
                    LET row == trade_listings[id]
                    IN  /\ row.terms.metal = answer.metal
                        /\ row.terms.bumped_at = answer.updated_at
                        /\ \A other \in sellers :
                              LET rival == trade_listings[other]
                              IN  /\ rival.terms.keys = 0 =>
                                         answer.metal <= rival.terms.metal
                                  /\ rival.rate = row.rate =>
                                         ~Beats(rival.terms, row.terms, "sell", row.rate)

(***************************************************************************)
(* GetBotPricing answers with "only bot listings"                          *)
(* (pricing_service.proto:14): the event behind a row of mv_bot_prices was *)
(* sent by a bot.                                                          *)
(***************************************************************************)
OnlyBotListings ==
    \A id \in ListingIds :
        LET row == BotRows(trade_listings)[id]
        IN  row # NoListing => row.terms.user_agent
=============================================================================
