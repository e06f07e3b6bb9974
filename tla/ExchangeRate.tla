---------------------------- MODULE ExchangeRate ----------------------------
(***************************************************************************)
(* The key exchange rate: how it is read off a snapshot of backpack.tf's   *)
(* listings of keys (src/backpack_tf_api/facade.rs), and the task that     *)
(* polls it into a cache (exchange_rate_controller.rs).                    *)
(*                                                                         *)
(* Prices are integers, in thousandths of a refined metal.                 *)
(***************************************************************************)
EXTENDS Integers, Sequences, FiniteSets

CONSTANTS
    Snapshots,   \* what the site may answer: sequences of listings
    Faults       \* "api": a request to the site may fail

\* A listing of keys: its "full metal conversion", and who offers it.  Nothing
\* checks the price of a listing: it may be zero.
Listing == [price : Nat, intent : {"sell", "buy"}]

ASSUME ExchangeRateAssumption ==
    /\ Snapshots \subseteq Seq(Listing)
    /\ Faults \subseteq {"api"}

VARIABLES
    market,                \* what the site would answer now
    poll,                  \* the polling task
    response,              \* the answer it has received
    cached_exchange_rate,  \* the rate behind the mutex
    priced_from            \* history: the snapshot that rate was read off

vars == <<market, poll, response, cached_exchange_rate, priced_from>>

-----------------------------------------------------------------------------
(* get_key_exchange_rate.                                                  *)

MaxU16 == 65535

\* (price * 100.0).round() as u16: the conversion saturates.
Cents(price) ==
    LET cents == (price + 5) \div 10
    IN  IF cents > MaxU16 THEN MaxU16 ELSE cents

SellListings(listings) == {i \in DOMAIN listings : listings[i].intent = "sell"}

\* A faulty Confirmed: two listings of the same price are enough.
ConfirmedByTwo(listings) ==
    {i \in SellListings(listings) :
        \E j \in SellListings(listings) :
            j < i /\ Cents(listings[j].price) = Cents(listings[i].price)}

\* The listings at which the counter of their price reaches three.
Confirmed(listings) ==
    {i \in SellListings(listings) :
        \E j, k \in SellListings(listings) :
            /\ j < k /\ k < i
            /\ Cents(listings[j].price) = Cents(listings[i].price)
            /\ Cents(listings[k].price) = Cents(listings[i].price)}

First(positions) == CHOOSE i \in positions : \A j \in positions : i <= j

KeyExchangeRate(listings) ==
    IF Confirmed(listings) # {}
    THEN listings[First(Confirmed(listings))].price
    ELSE listings[1].price

-----------------------------------------------------------------------------
(* ExchangeRateController.                                                 *)

NoRate == -1

\* Every variable has its type, there is a rate exactly when the first one has
\* been fetched (main.rs:45), and what is cached is what someone asks or bids
\* for a key in the snapshot that it was read off.
TypeOK ==
    /\ market \in Seq(Listing)
    /\ poll \in {"starting", "waiting", "fetching", "received", "stopped"}
    /\ response \in Seq(Listing)
    /\ cached_exchange_rate \in Nat \cup {NoRate}
    /\ priced_from \in Seq(Listing)
    /\ poll \in {"starting", "stopped"} <=> cached_exchange_rate = NoRate
    /\ cached_exchange_rate # NoRate =>
          \E i \in DOMAIN priced_from : priced_from[i].price = cached_exchange_rate

Init ==
    /\ market \in Snapshots
    /\ poll = "starting"
    /\ response = <<>>
    /\ cached_exchange_rate = NoRate
    /\ priced_from = <<>>

\* Traders change their listings.
MarketMoves ==
    /\ market' \in Snapshots
    /\ UNCHANGED <<poll, response, cached_exchange_rate, priced_from>>

Store(listings) ==
    /\ cached_exchange_rate' = KeyExchangeRate(listings)
    /\ priced_from' = listings

\* A faulty InitRate: the process starts without a rate.
InitAnyway ==
    /\ poll = "starting"
    /\ IF market # <<>> THEN Store(market)
       ELSE UNCHANGED <<cached_exchange_rate, priced_from>>
    /\ poll' = "waiting"
    /\ UNCHANGED <<market, response>>

\* init: without a first rate the process does not start.
InitRate ==
    /\ poll = "starting"
    /\ \/ /\ market # <<>>
          /\ Store(market)
          /\ poll' = "waiting"
       \/ /\ market = <<>> \/ "api" \in Faults
          /\ poll' = "stopped"
          /\ UNCHANGED <<cached_exchange_rate, priced_from>>
    /\ UNCHANGED <<market, response>>

\* The interval ticks and a request is sent.
Tick ==
    /\ poll = "waiting"
    /\ poll' = "fetching"
    /\ UNCHANGED <<market, response, cached_exchange_rate, priced_from>>

Receive ==
    /\ poll = "fetching"
    /\ response' = market
    /\ poll' = "received"
    /\ UNCHANGED <<market, cached_exchange_rate, priced_from>>

\* A faulty Update: an answer without listings ends the task.
UpdateOrEnd ==
    /\ poll = "received"
    /\ response # <<>>
    /\ Store(response)
    /\ poll' = "waiting"
    /\ response' = <<>>
    /\ UNCHANGED market

\* The answer is evaluated.  "Keeping the old rate cached."
Update ==
    /\ poll = "received"
    /\ IF response # <<>> THEN Store(response)
       ELSE UNCHANGED <<cached_exchange_rate, priced_from>>
    /\ poll' = "waiting"
    /\ response' = <<>>
    /\ UNCHANGED market

FetchFails ==
    /\ poll = "fetching"
    /\ "api" \in Faults
    /\ poll' = "waiting"
    /\ UNCHANGED <<market, response, cached_exchange_rate, priced_from>>

Next == MarketMoves \/ InitRate \/ Tick \/ Receive \/ Update \/ FetchFails

Spec == Init /\ [][Next]_vars

\* The task runs, every request ends (the client has no timeout of its own),
\* and the site does not refuse all of them.
FairSpec ==
    /\ Spec
    /\ WF_vars(InitRate) /\ WF_vars(Tick) /\ WF_vars(Update) /\ SF_vars(Receive)

-----------------------------------------------------------------------------
(* Properties.                                                             *)

PriceInCents(listing) == (listing.price + 5) \div 10

\* The prices, to the cent, that at least n sell listings have.
OfferedBy(listings, n) ==
    {c \in {PriceInCents(listings[i]) : i \in SellListings(listings)} :
        Cardinality({i \in SellListings(listings) :
                        PriceInCents(listings[i]) = c}) >= n}

(***************************************************************************)
(* The rate is the lowest price that three sell listings agree on, and, if *)
(* there is none, "simply the lowest sell price" (facade.rs:61).           *)
(***************************************************************************)
RateIsLowestAgreed ==
    cached_exchange_rate # NoRate =>
        LET agreed == OfferedBy(priced_from, 3)
            offers == IF agreed # {} THEN agreed ELSE OfferedBy(priced_from, 1)
            rate == (cached_exchange_rate + 5) \div 10
        IN  rate \in offers /\ \A c \in offers : rate <= c

(***************************************************************************)
(* The cache follows the market: once the traders keep their listings as   *)
(* they are, the cached rate becomes and stays the rate of these, however  *)
(* many polls failed before.  An empty market leaves the rate as it is.    *)
(***************************************************************************)
RateFollowsMarket ==
    <>[][FALSE]_market =>
        <>[](poll # "stopped" /\ market # <<>> =>
                cached_exchange_rate = KeyExchangeRate(market))
=============================================================================
