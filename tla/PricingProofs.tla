--------------------------- MODULE PricingProofs ---------------------------
(***************************************************************************)
(* Theorems about Pricing, for every set of listings, items, terms and     *)
(* rates.                                                                  *)
(***************************************************************************)
EXTENDS Pricing, Extrema, TLAPS

-----------------------------------------------------------------------------
(* Tables, of which the views are some.                                    *)

Priced(rows) ==
    \A id \in ListingIds :
        rows[id] # NoListing =>
            rows[id].price_metal = ToMetal(rows[id].terms, rows[id].rate)

\* What TypeOK says of the table.
Sound(rows) == rows \in Rows /\ Priced(rows)

LEMMA TableIsSound == TypeOK => Sound(trade_listings)
BY DEF TypeOK, Sound, Priced

\* The terms of an event, and what they are worth at a rate.
LEMMA TermsFacts ==
    ASSUME NEW e \in Events
    PROVE  /\ e.id \in ListingIds /\ e.item \in Items /\ e.intent \in {"buy", "sell"}
           /\ e.terms \in {f.terms : f \in Events}
           /\ e.terms \in Terms
           /\ e.terms.user_agent \in BOOLEAN
           /\ e.terms.keys \in Nat /\ e.terms.metal \in Nat /\ e.terms.bumped_at \in Nat
BY PricingAssumption DEF Event, Terms

\* Metal is counted in naturals.
LEMMA MetalIsNatural ==
    ASSUME NEW e \in Events, NEW rate \in Rates
    PROVE  ToMetal(e.terms, rate) \in Nat
<1>1. rate \in Nat /\ e.terms.metal \in Nat /\ e.terms.keys \in Nat
  BY TermsFacts, PricingAssumption
<1>2. \A k, r, m \in Nat : m + k * r \in Nat
  OBVIOUS
<1> QED
  BY <1>1, <1>2 DEF ToMetal

LEMMA RowFacts ==
    ASSUME NEW rows, Sound(rows), NEW id \in ListingIds, rows[id] # NoListing
    PROVE  /\ rows[id] \in Row
           /\ rows[id].rate \in Nat
           /\ rows[id].price_metal \in Nat
           /\ rows[id].price_metal = Worth(rows[id].terms, rows[id].rate)
           /\ rows[id].terms.keys \in Nat /\ rows[id].terms.metal \in Nat
           /\ rows[id].terms.bumped_at \in Nat
           /\ rows[id].item \in Items
           /\ rows[id].intent \in {"buy", "sell"}
<1>1. rows[id] \in Row
  BY DEF Sound, Rows
<1>2. PICK e \in Events : rows[id].terms = e.terms
  BY <1>1 DEF Row
<1>3. /\ rows[id].rate \in Nat /\ rows[id].price_metal \in Nat
      /\ rows[id].item \in Items /\ rows[id].intent \in {"buy", "sell"}
  BY <1>1, PricingAssumption DEF Row
<1>4. rows[id].price_metal = ToMetal(rows[id].terms, rows[id].rate)
  BY DEF Sound, Priced
<1>5. \A k, r, m \in Nat : m + k * r = k * r + m
  OBVIOUS
<1>6. rows[id].price_metal = Worth(rows[id].terms, rows[id].rate)
  BY <1>2, <1>3, <1>4, <1>5, TermsFacts DEF ToMetal, Worth
<1> QED
  BY <1>1, <1>2, <1>3, <1>6, TermsFacts

\* The rows of mv_bot_prices are rows of the table.
LEMMA BotRowsAreRows ==
    ASSUME NEW rows, NEW id \in ListingIds
    PROVE  /\ BotRows(rows)[id] # NoListing =>
                  BotRows(rows)[id] = rows[id] /\ rows[id].is_automatic
           /\ rows[id] # NoListing /\ rows[id].is_automatic =>
                  BotRows(rows)[id] = rows[id]
BY DEF BotRows

LEMMA BotRowsAreSound ==
    ASSUME NEW rows, Sound(rows)
    PROVE  Sound(BotRows(rows))
<1>1. \A id \in ListingIds : rows[id] \in Row \cup {NoListing}
  BY DEF Sound, Rows
<1>2. BotRows(rows) \in Rows
  BY <1>1 DEF BotRows, Rows
<1>3. Priced(BotRows(rows))
  BY BotRowsAreRows DEF Sound, Priced
<1> QED
  BY <1>2, <1>3 DEF Sound

\* The listings of an answer are of its item and side, and none of them was
\* priced at a rate of zero.
LEMMA BestFacts ==
    ASSUME NEW rows, NEW item, NEW intent, NEW id \in Best(rows, item, intent)
    PROVE  /\ Read(rows, item, intent) = Side(rows, item, intent)
           /\ \A other \in Side(rows, item, intent) :
                  /\ other \in ListingIds /\ rows[other] # NoListing
                  /\ rows[other].item = item /\ rows[other].intent = intent
                  /\ rows[other].rate # 0
                  /\ ~Precedes(rows[other], rows[id], intent)
           /\ id \in Side(rows, item, intent)
<1>1. id \in Read(rows, item, intent)
  BY DEF Best
<1>2. /\ \A other \in Side(rows, item, intent) : rows[other].rate # 0
      /\ Read(rows, item, intent) = Side(rows, item, intent)
  BY <1>1 DEF Read
<1> QED
  BY <1>1, <1>2 DEF Best, Side, Listings

-----------------------------------------------------------------------------
(* Types.                                                                  *)

LEMMA TypeInit == Init => TypeOK
BY DEF Init, TypeOK, NoRows, Rows

\* The row that an upsert leaves.
Renewed(row, e) ==
    [row EXCEPT !.terms = e.terms, !.rate = exchange_rate,
                !.price_metal = ToMetal(e.terms, exchange_rate)]

Written(e) ==
    IF trade_listings[e.id] = NoListing THEN NewRow(e)
    ELSE Renewed(trade_listings[e.id], e)

LEMMA UpsertWrites ==
    ASSUME TypeOK, NEW e \in Events, Upsert(e)
    PROVE  /\ trade_listings' = [trade_listings EXCEPT ![e.id] = Written(e)]
           /\ exchange_rate' = exchange_rate
<1>1. e.id \in ListingIds /\ DOMAIN trade_listings = ListingIds
  BY TermsFacts DEF TypeOK, Rows
<1> QED
  BY <1>1 DEF Upsert, Written, Renewed

\* It is a row, with the terms of the event, priced at the cached rate.
LEMMA WrittenFacts ==
    ASSUME TypeOK, NEW e \in Events
    PROVE  /\ Written(e) \in Row
           /\ Written(e).terms = e.terms
           /\ Written(e).price_metal = ToMetal(Written(e).terms, Written(e).rate)
           /\ Written(e).item =
                  IF trade_listings[e.id] = NoListing THEN e.item
                  ELSE trade_listings[e.id].item
<1>1. exchange_rate \in Rates /\ ToMetal(e.terms, exchange_rate) \in Nat
  BY MetalIsNatural DEF TypeOK
<1>2. CASE trade_listings[e.id] = NoListing
  <2>1. Written(e) = NewRow(e)
    BY <1>2 DEF Written
  <2>2. NewRow(e) \in Row
    BY <1>1, TermsFacts DEF NewRow, Row
  <2> QED
    BY <1>2, <2>1, <2>2 DEF NewRow
<1>3. CASE trade_listings[e.id] # NoListing
  <2> DEFINE row == trade_listings[e.id]
  <2>1. row \in Row
    BY <1>3, TermsFacts DEF TypeOK, Rows
  <2>2. Written(e) = Renewed(row, e)
    BY <1>3 DEF Written
  <2> HIDE DEF row
  <2>3. /\ Renewed(row, e) \in Row
        /\ Renewed(row, e).terms = e.terms
        /\ Renewed(row, e).rate = exchange_rate
        /\ Renewed(row, e).price_metal = ToMetal(e.terms, exchange_rate)
        /\ Renewed(row, e).item = row.item
    BY <1>1, <2>1, TermsFacts DEF Renewed, Row
  <2> QED
    BY <1>3, <2>2, <2>3 DEF row
<1> QED
  BY <1>2, <1>3

LEMMA TypeStep == TypeOK /\ [Next]_vars => TypeOK'
<1> SUFFICES ASSUME TypeOK, [Next]_vars PROVE TypeOK'
  OBVIOUS
<1>1. ASSUME NEW rate \in Rates, Poll(rate) PROVE TypeOK'
  BY <1>1 DEF Poll, TypeOK
<1>2. ASSUME NEW e \in Events, Upsert(e) PROVE TypeOK'
  <2>1. /\ trade_listings' = [trade_listings EXCEPT ![e.id] = Written(e)]
        /\ exchange_rate' = exchange_rate
    BY <1>2, UpsertWrites
  <2>2. /\ Written(e) \in Row
        /\ Written(e).price_metal = ToMetal(Written(e).terms, Written(e).rate)
    BY WrittenFacts
  <2>3. trade_listings' \in Rows
    BY <2>1, <2>2 DEF TypeOK, Rows
  <2>4. ASSUME NEW id \in ListingIds, trade_listings'[id] # NoListing
        PROVE  trade_listings'[id].price_metal =
                   ToMetal(trade_listings'[id].terms, trade_listings'[id].rate)
    <3>1. trade_listings'[id] = IF id = e.id THEN Written(e) ELSE trade_listings[id]
      BY <2>1 DEF TypeOK, Rows
    <3> QED
      BY <2>2, <2>4, <3>1 DEF TypeOK
  <2> QED
    BY <2>1, <2>3, <2>4 DEF TypeOK, ToMetal
<1>3. ASSUME NEW id \in ListingIds, Delete(id) PROVE TypeOK'
  <2>1. \A other \in ListingIds : trade_listings'[other] =
            IF other = id THEN NoListing ELSE trade_listings[other]
    BY <1>3 DEF Delete, TypeOK, Rows
  <2>2. trade_listings' \in Rows
    BY <1>3 DEF Delete, TypeOK, Rows
  <2> QED
    BY <1>3, <2>1, <2>2 DEF Delete, TypeOK, ToMetal
<1>4. CASE UNCHANGED vars
  BY <1>4 DEF vars, TypeOK
<1> QED
  BY <1>1, <1>2, <1>3, <1>4 DEF Next

(***************************************************************************)
(* The price of a row in metal is always that of its terms at the rate it  *)
(* was last priced with: no upsert renews one and not the other.           *)
(***************************************************************************)
THEOREM TypeCorrect == Spec => []TypeOK
<1> QED
  BY TypeInit, TypeStep, PTL DEF Spec

-----------------------------------------------------------------------------
(* The comparison of prices in keys.                                       *)

LEMMA ProductsKeepOrder ==
    ASSUME NEW p \in Nat, NEW q \in Nat, NEW r \in Nat, r # 0
    PROVE  /\ p * r \in Nat
           /\ p < q <=> p * r < q * r
           /\ p <= q <=> p * r <= q * r
OBVIOUS

\* Of two listings that were priced with the same rate, what is less in keys
\* is less in metal.
LEMMA LessAtSameRate ==
    ASSUME NEW a, NEW b, a.price_metal \in Nat, b.price_metal \in Nat,
           a.rate \in Nat, a.rate = b.rate, a.rate # 0
    PROVE  Less(a, b) <=> a.price_metal < b.price_metal
BY ProductsKeepOrder DEF Less

\* A listing that beats another of its rate precedes it.
LEMMA BetterComesFirst ==
    ASSUME NEW rows, Sound(rows), NEW intent \in {"buy", "sell"},
           NEW a \in ListingIds, NEW b \in ListingIds,
           rows[a] # NoListing, rows[b] # NoListing,
           rows[a].rate = rows[b].rate, rows[a].rate # 0,
           Beats(rows[b].terms, rows[a].terms, intent, rows[a].rate)
    PROVE  Precedes(rows[b], rows[a], intent)
<1>1. /\ rows[a].price_metal \in Nat /\ rows[b].price_metal \in Nat
      /\ rows[a].rate \in Nat /\ rows[b].rate \in Nat
      /\ rows[a].price_metal = Worth(rows[a].terms, rows[a].rate)
      /\ rows[b].price_metal = Worth(rows[b].terms, rows[a].rate)
  BY RowFacts
<1>2. /\ Less(rows[a], rows[b]) <=> rows[a].price_metal < rows[b].price_metal
      /\ Less(rows[b], rows[a]) <=> rows[b].price_metal < rows[a].price_metal
  <2> DEFINE ra == rows[a]
             rb == rows[b]
  <2>1. /\ ra.price_metal \in Nat /\ rb.price_metal \in Nat /\ ra.rate \in Nat
        /\ ra.rate = rb.rate /\ ra.rate # 0
    BY <1>1
  <2> HIDE DEF ra, rb
  <2>2. /\ Less(ra, rb) <=> ra.price_metal < rb.price_metal
        /\ Less(rb, ra) <=> rb.price_metal < ra.price_metal
    BY <2>1, LessAtSameRate
  <2> QED
    BY <2>2 DEF ra, rb
<1>3. CASE intent = "sell"
  BY <1>1, <1>2, <1>3 DEF Beats, Precedes
<1>4. CASE intent = "buy"
  <2>1. rows[b].price_metal > rows[a].price_metal
    BY <1>1, <1>4 DEF Beats
  <2>2. rows[a].price_metal < rows[b].price_metal
    BY <1>1, <2>1
  <2> QED
    BY <1>2, <1>4, <2>2 DEF Precedes
<1> QED
  BY <1>3, <1>4

LEMMA AnswersAreUnbeaten ==
    ASSUME NEW rows, Sound(rows), NEW item \in Items, NEW intent \in {"buy", "sell"}
    PROVE  Unbeaten(rows, Answer(rows, item), item, intent)
<1> SUFFICES ASSUME NEW id \in Answer(rows, item)[intent],
                    NEW other \in Side(rows, item, intent),
                    rows[id].rate = rows[other].rate,
                    Beats(rows[other].terms, rows[id].terms, intent, rows[id].rate)
             PROVE  FALSE
  BY DEF Unbeaten
<1>1. id \in Best(rows, item, intent)
  BY DEF Answer, NotFound
<1>2. /\ id \in ListingIds /\ rows[id] # NoListing /\ rows[id].rate # 0
      /\ other \in ListingIds /\ rows[other] # NoListing
      /\ ~Precedes(rows[other], rows[id], intent)
  BY <1>1, BestFacts
<1> QED
  BY <1>2, BetterComesFirst

LEMMA SoundIsBest == TypeOK => BestAtItsRate
BY TableIsSound, BotRowsAreSound, AnswersAreUnbeaten
   DEF BestAtItsRate, GetPricing, GetBotPricing

(***************************************************************************)
(* GetPricing and GetBotPricing answer with listings that no other listing *)
(* on their side beats, among those priced with the same rate, whatever    *)
(* the rates of the others are and in whatever order all were written.     *)
(***************************************************************************)
THEOREM BestPricesAreAnswered == Spec => []BestAtItsRate
<1> QED
  BY TypeCorrect, SoundIsBest, PTL

-----------------------------------------------------------------------------
(* The stream of bot prices.                                               *)

\* An item's updated_at lies above a moment if and only if one of its
\* listings was bumped after it.
LEMMA UpdatedAtIsLatest ==
    ASSUME IsFiniteSet(ListingIds), NEW rows, Sound(rows), NEW item \in Listed(rows),
           NEW moment \in Int
    PROVE  UpdatedAt(rows, item) > moment <=>
               \E id \in Listings(rows, item) : rows[id].terms.bumped_at > moment
<1> DEFINE L == Listings(rows, item)
           T == BumpedAt(rows, item)
           t(id) == rows[id].terms.bumped_at
           R == {p \in L \X L : t(p[1]) > t(p[2])}
<1>1. L # {} /\ L \subseteq ListingIds
  BY DEF Listed, Listings
<1>2. IsFiniteSet(L)
  BY <1>1, FS_Subset
<1>3. \A id \in L : t(id) \in Nat
  BY RowFacts DEF Listings
<1>4. T = {t(id) : id \in L}
  BY DEF BumpedAt
<1>5. \A x, y \in L : <<x, y>> \in R <=> t(x) > t(y)
  OBVIOUS
<1> HIDE DEF L, R, t
<1>6. \A x, y, z \in L : <<x, y>> \in R /\ <<y, z>> \in R => <<x, z>> \in R
  <2>1. \A p, q, r \in Nat : p > q /\ q > r => p > r
    OBVIOUS
  <2> QED
    BY <1>3, <1>5, <2>1
<1>7. PICK x \in L : \A y \in L : <<y, x>> \in R => <<x, y>> \in R
  BY <1>1, <1>2, <1>6, MinimalElement
<1>8. ASSUME NEW y \in L
      PROVE  t(y) <= t(x)
  <2>1. t(y) > t(x) => t(x) > t(y)
    BY <1>5, <1>7
  <2>2. t(x) \in Nat /\ t(y) \in Nat
    BY <1>3
  <2> QED
    BY <2>1, <2>2
<1>9. UpdatedAt(rows, item) \in T /\ \A u \in T : u <= UpdatedAt(rows, item)
  <2>1. t(x) \in T /\ \A u \in T : u <= t(x)
    BY <1>4, <1>8
  <2> QED
    BY <2>1 DEF UpdatedAt
<1>10. T \in SUBSET Nat
  BY <1>3, <1>4
<1> HIDE DEF T
<1>11. UpdatedAt(rows, item) > moment <=> \E u \in T : u > moment
  <2> DEFINE m == UpdatedAt(rows, item)
  <2>1. m \in T /\ m \in Nat
    BY <1>9, <1>10
  <2>2. \A u \in T : u <= m /\ u \in Nat
    BY <1>9, <1>10
  <2> HIDE DEF m
  <2>3. m > moment <=> \E u \in T : u > moment
    BY <2>1, <2>2
  <2> QED
    BY <2>3 DEF m
<1>12. UpdatedAt(rows, item) > moment <=> \E id \in L : t(id) > moment
  BY <1>4, <1>11
<1> QED
  BY <1>12 DEF L, t

\* The bot listings that were bumped within limit, and their items.
RecentBots(limit, now) ==
    {id \in ListingIds :
        /\ trade_listings[id] # NoListing
        /\ trade_listings[id].is_automatic
        /\ trade_listings[id].terms.bumped_at + limit > now}

RecentItems(limit, now) ==
    {trade_listings[id].item : id \in RecentBots(limit, now)}

LEMMA FreshIsRecent ==
    ASSUME IsFiniteSet(ListingIds), TypeOK, NEW limit \in Nat, NEW now \in Nat
    PROVE  Fresh(limit, now) = RecentItems(limit, now)
<1> DEFINE table == trade_listings
           bots == BotRows(trade_listings)
<1>1. Sound(table) /\ Sound(bots)
  BY TableIsSound, BotRowsAreSound
<1>2. \A id \in ListingIds :
          /\ bots[id] # NoListing <=> table[id] # NoListing /\ table[id].is_automatic
          /\ bots[id] # NoListing => bots[id] = table[id]
  BY DEF BotRows
<1>3. now - limit \in Int
  OBVIOUS
<1>4. \A id \in ListingIds : bots[id] # NoListing =>
          /\ bots[id].item \in Items
          /\ bots[id].terms.bumped_at > now - limit <=>
                 table[id].terms.bumped_at + limit > now
  <2>1. \A t \in Nat : t > now - limit <=> t + limit > now
    OBVIOUS
  <2>2. \A id \in ListingIds : bots[id] # NoListing =>
            bots[id].item \in Items /\ bots[id].terms.bumped_at \in Nat
    BY <1>1, RowFacts
  <2> HIDE DEF bots, table
  <2> QED
    BY <1>2, <2>1, <2>2
<1> HIDE DEF bots, table
<1>5. \A item \in Listed(bots) :
          UpdatedAt(bots, item) > now - limit <=>
              \E id \in Listings(bots, item) : bots[id].terms.bumped_at > now - limit
  BY <1>1, <1>3, UpdatedAtIsLatest
<1>6. Fresh(limit, now) =
          {item \in Listed(bots) : UpdatedAt(bots, item) > now - limit}
  BY DEF Fresh, bots
<1>7. \A item : item \in Fresh(limit, now) <=>
          \E id \in ListingIds : /\ bots[id] # NoListing /\ bots[id].item = item
                                 /\ bots[id].terms.bumped_at > now - limit
  BY <1>4, <1>5, <1>6 DEF Listed, Listings
<1>8. \A item : item \in Fresh(limit, now) <=>
          \E id \in RecentBots(limit, now) : item = table[id].item
  BY <1>2, <1>4, <1>7 DEF RecentBots, table
<1> QED
  BY <1>8 DEF RecentItems, table

\* There are no more items than listings.
LEMMA RecentItemsFinite ==
    ASSUME IsFiniteSet(ListingIds), NEW limit, NEW now
    PROVE  /\ IsFiniteSet(RecentItems(limit, now))
           /\ Cardinality(RecentItems(limit, now)) \in Nat
<1> DEFINE L == RecentBots(limit, now)
           f == [id \in L |-> trade_listings[id].item]
<1>1. IsFiniteSet(L)
  BY FS_Subset DEF RecentBots
<1>2. f \in Surjection(L, RecentItems(limit, now))
  BY DEF Surjection, RecentItems
<1>3. IsFiniteSet(RecentItems(limit, now))
  BY <1>1, <1>2, FS_Surjection
<1> QED
  BY <1>3, FS_CardinalityType

LEMMA StreamsAll ==
    ASSUME NEW limit \in Nat, NEW now, IsFiniteSet(Fresh(limit, now)),
           Cardinality(Fresh(limit, now)) <= limit
    PROVE  Streams(limit, now) = {Fresh(limit, now)}
<1> DEFINE F == Fresh(limit, now)
<1>1. F \in Streams(limit, now)
  BY DEF Streams
<1>2. ASSUME NEW items \in Streams(limit, now), items # F
      PROVE  FALSE
  <2>1. items \in SUBSET F /\ Cardinality(items) = limit
    BY <1>2 DEF Streams
  <2>2. /\ Cardinality(items) <= Cardinality(F)
        /\ Cardinality(F) = Cardinality(items) => F = items
    BY <2>1, FS_Subset
  <2>3. Cardinality(F) \in Nat
    BY FS_CardinalityType
  <2> QED
    BY <1>2, <2>1, <2>2, <2>3
<1> QED
  BY <1>1, <1>2

LEMMA SoundIsComplete == IsFiniteSet(ListingIds) /\ TypeOK => StreamIsComplete
<1> SUFFICES ASSUME IsFiniteSet(ListingIds), TypeOK,
                    NEW now \in Times, NEW limit \in 0 .. DEFAULT_STALE_LIMIT_SECS,
                    Cardinality(RecentItems(limit, now)) <= limit
             PROVE  Streams(limit, now) = {RecentItems(limit, now)}
  BY DEF StreamIsComplete, RecentItems, RecentBots
<1>1. limit \in Nat /\ now \in Nat
  BY PricingAssumption DEF DEFAULT_STALE_LIMIT_SECS
<1>2. Fresh(limit, now) = RecentItems(limit, now)
  BY <1>1, FreshIsRecent
<1> QED
  BY <1>1, <1>2, RecentItemsFinite, StreamsAll

(***************************************************************************)
(* GetAllBotPricings streams every item with a recent bot listing, at any  *)
(* time and for every stale limit up to the default one, unless there are  *)
(* more of them than the limit has seconds.                                *)
(***************************************************************************)
THEOREM StreamsAreComplete ==
    ASSUME IsFiniteSet(ListingIds)
    PROVE  Spec => []StreamIsComplete
<1>1. TypeOK => StreamIsComplete
  BY SoundIsComplete
<1> QED
  BY <1>1, TypeCorrect, PTL

-----------------------------------------------------------------------------
(* The key exchange rate.                                                  *)

\* The bots that sell keys and were bumped within the hour.
KeySellers(now) ==
    {id \in ListingIds :
        /\ trade_listings[id] # NoListing
        /\ trade_listings[id].item = Key
        /\ trade_listings[id].intent = "sell"
        /\ trade_listings[id].is_automatic
        /\ trade_listings[id].terms.bumped_at + Hour > now}

LEMMA OffersOfSellers ==
    ASSUME TypeOK, NEW now \in Nat
    PROVE  KeyOffers(now) = KeySellers(now)
<1> DEFINE table == trade_listings
           bots == BotRows(trade_listings)
<1>1. \A id \in ListingIds :
          /\ bots[id] # NoListing <=> table[id] # NoListing /\ table[id].is_automatic
          /\ bots[id] # NoListing => bots[id] = table[id]
  BY DEF BotRows
<1>2. \A id \in ListingIds : table[id] # NoListing =>
          (table[id].terms.bumped_at > now - Hour <=>
               table[id].terms.bumped_at + Hour > now)
  <2>1. \A t \in Nat : t > now - Hour <=> t + Hour > now
    BY PricingAssumption
  <2>2. \A id \in ListingIds : table[id] # NoListing =>
            table[id].terms.bumped_at \in Nat
    BY TableIsSound, RowFacts
  <2> HIDE DEF table
  <2> QED
    BY <2>1, <2>2
<1>3. KeyOffers(now) = {id \in Side(bots, Key, "sell") :
                            table[id].terms.bumped_at > now - Hour}
  BY DEF KeyOffers
<1>4. KeySellers(now) = {id \in ListingIds :
          /\ table[id] # NoListing /\ table[id].item = Key
          /\ table[id].intent = "sell" /\ table[id].is_automatic
          /\ table[id].terms.bumped_at + Hour > now}
  BY DEF KeySellers
<1> HIDE DEF table, bots
<1> QED
  BY <1>1, <1>2, <1>3, <1>4 DEF Side, Listings

\* The price of a row is at least the metal it asks for, and no more when it
\* asks for no keys.
LEMMA PriceBounds ==
    ASSUME TypeOK, NEW id \in ListingIds, trade_listings[id] # NoListing
    PROVE  LET row == trade_listings[id]
           IN  /\ row.price_metal \in Nat /\ row.terms.metal \in Nat
               /\ row.terms.metal <= row.price_metal
               /\ row.terms.keys = 0 => row.price_metal = row.terms.metal
<1>1. LET row == trade_listings[id]
      IN  /\ row.price_metal = Worth(row.terms, row.rate)
          /\ row.price_metal \in Nat /\ row.rate \in Nat
          /\ row.terms.keys \in Nat /\ row.terms.metal \in Nat
  BY TableIsSound, RowFacts
<1>2. \A k, r, m \in Nat : /\ m <= k * r + m
                           /\ k = 0 => k * r + m = m
  <2>1. \A k, r \in Nat : k * r \in Nat /\ (k = 0 => k * r = 0)
    OBVIOUS
  <2>2. \A x, m \in Nat : m <= x + m /\ (x = 0 => x + m = m)
    OBVIOUS
  <2> QED
    BY <2>1, <2>2
<1> QED
  BY <1>1, <1>2 DEF Worth

\* At the same rate, what costs no more is not beaten.
LEMMA CheaperIsUnbeaten ==
    ASSUME TypeOK, NEW a \in ListingIds, NEW b \in ListingIds,
           trade_listings[a] # NoListing, trade_listings[b] # NoListing,
           trade_listings[a].rate = trade_listings[b].rate,
           trade_listings[a].price_metal <= trade_listings[b].price_metal
    PROVE  ~Beats(trade_listings[b].terms, trade_listings[a].terms, "sell",
                  trade_listings[a].rate)
<1>1. /\ trade_listings[a].price_metal = Worth(trade_listings[a].terms, trade_listings[a].rate)
      /\ trade_listings[b].price_metal = Worth(trade_listings[b].terms, trade_listings[a].rate)
      /\ trade_listings[a].price_metal \in Nat /\ trade_listings[b].price_metal \in Nat
  BY TableIsSound, RowFacts
<1>2. \A x, y \in Nat : x <= y => ~(y < x)
  OBVIOUS
<1> QED
  BY <1>1, <1>2 DEF Beats

LEMMA CheapestIsUnbeaten == TypeOK => KeyRateUnbeaten
<1> SUFFICES ASSUME TypeOK, NEW now \in Times,
                    NEW answer \in GetKeyExchangeRate(now),
                    answer.source = "LISTINGS"
             PROVE  \E id \in KeySellers(now) :
                        LET row == trade_listings[id]
                        IN  /\ row.terms.metal = answer.metal
                            /\ row.terms.bumped_at = answer.updated_at
                            /\ \A other \in KeySellers(now) :
                                  LET rival == trade_listings[other]
                                  IN  /\ rival.terms.keys = 0 =>
                                             answer.metal <= rival.terms.metal
                                      /\ rival.rate = row.rate =>
                                             ~Beats(rival.terms, row.terms,
                                                    "sell", row.rate)
  BY DEF KeyRateUnbeaten, KeySellers
<1>1. now \in Nat
  BY PricingAssumption
<1>2. answer # Snapshot
  BY DEF Snapshot
<1>3. PICK id \in CheapestKeys(now) :
          answer = FromListing(TradeListing(trade_listings[id]))
  BY <1>2 DEF GetKeyExchangeRate
<1>4. /\ answer.metal = trade_listings[id].terms.metal
      /\ answer.updated_at = trade_listings[id].terms.bumped_at
  BY <1>3 DEF FromListing, TradeListing
<1>5. /\ id \in KeySellers(now)
      /\ \A other \in KeySellers(now) :
             trade_listings[id].price_metal <= trade_listings[other].price_metal
  BY <1>1, OffersOfSellers DEF CheapestKeys
<1>6. \A other \in KeySellers(now) :
          other \in ListingIds /\ trade_listings[other] # NoListing
  BY DEF KeySellers
<1>7. ASSUME NEW other \in KeySellers(now)
      PROVE  /\ trade_listings[other].terms.keys = 0 =>
                    answer.metal <= trade_listings[other].terms.metal
             /\ trade_listings[other].rate = trade_listings[id].rate =>
                    ~Beats(trade_listings[other].terms, trade_listings[id].terms,
                           "sell", trade_listings[id].rate)
  <2>1. ASSUME trade_listings[other].terms.keys = 0
        PROVE  answer.metal <= trade_listings[other].terms.metal
    <3>1. /\ trade_listings[id].terms.metal <= trade_listings[id].price_metal
          /\ trade_listings[id].terms.metal \in Nat
          /\ trade_listings[id].price_metal \in Nat
      BY <1>5, <1>6, PriceBounds
    <3>2. /\ trade_listings[other].price_metal = trade_listings[other].terms.metal
          /\ trade_listings[other].price_metal \in Nat
      BY <1>6, <2>1, PriceBounds
    <3>3. \A x, y, z \in Nat : x <= y /\ y <= z => x <= z
      OBVIOUS
    <3> QED
      BY <1>4, <1>5, <3>1, <3>2, <3>3
  <2>2. ASSUME trade_listings[other].rate = trade_listings[id].rate
        PROVE  ~Beats(trade_listings[other].terms, trade_listings[id].terms,
                      "sell", trade_listings[id].rate)
    BY <1>5, <1>6, <2>2, CheaperIsUnbeaten
  <2> QED
    BY <2>1, <2>2
<1> QED
  BY <1>4, <1>5, <1>7

(***************************************************************************)
(* GetKeyExchangeRate, when it answers from the listings, answers with     *)
(* what a recent bot asks for a key: never with more metal than a recent   *)
(* bot asks who sells for metal alone, whatever the rates at which the     *)
(* rows of both were priced, nor with a deal beaten at the rate of its row *)
(* by another of that rate.  Keys may be priced in keys, and the id of a   *)
(* listing of keys may come to be used for another item.                   *)
(***************************************************************************)
THEOREM KeyRateIsUnbeaten == Spec => []KeyRateUnbeaten
<1>1. TypeOK => KeyRateUnbeaten
  BY CheapestIsUnbeaten
<1> QED
  BY <1>1, TypeCorrect, PTL
=============================================================================
