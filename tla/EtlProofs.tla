----------------------------- MODULE EtlProofs -----------------------------
(***************************************************************************)
(* Lemmas about the statements and the filter of Etl, used by the proofs   *)
(* about the modules that send these statements.                           *)
(***************************************************************************)
EXTENDS Etl, TLAPS

-----------------------------------------------------------------------------
(* What the statements do to the table of listings.                        *)

LEMMA UpsertType ==
    ASSUME NEW table \in Tables, NEW b \in Seq(Event),
           NEW events \in SUBSET DOMAIN b
    PROVE  UpsertListings(table, b, events) \in Tables
<1>1. ASSUME NEW id \in ListingIds
      PROVE  UpsertListings(table, b, events)[id] \in Listing \cup {NoListing}
  <2>1. CASE \E i \in events : b[i].id = id
    <3> DEFINE i == CHOOSE j \in events : b[j].id = id
    <3>1. i \in events
      BY <2>1
    <3>2. b[i] \in Event
      BY <3>1
    <3>3. b[i].steamid \in SteamIds /\ b[i].price \in Prices
      BY <3>2 DEF Event
    <3>4. CASE table[id] = NoListing
      <4>1. UpsertListings(table, b, events)[id] = NewListing(b[i])
        BY <2>1, <3>4 DEF UpsertListings
      <4> QED
        BY <4>1, <3>3 DEF NewListing, Listing
    <3>5. CASE table[id] # NoListing
      <4>1. UpsertListings(table, b, events)[id]
              = [table[id] EXCEPT !.price = b[i].price]
        BY <2>1, <3>5 DEF UpsertListings
      <4>2. table[id] \in Listing
        BY <3>5 DEF Tables
      <4> QED
        BY <4>1, <4>2, <3>3 DEF Listing
    <3> QED
      BY <3>4, <3>5
  <2>2. CASE ~\E i \in events : b[i].id = id
    BY <2>2 DEF UpsertListings, Tables
  <2> QED
    BY <2>1, <2>2
<1> QED
  BY <1>1 DEF UpsertListings, Tables

LEMMA DeleteType ==
    ASSUME NEW table \in Tables, NEW ids
    PROVE  DeleteListings(table, ids) \in Tables
BY DEF DeleteListings, Tables

\* An upsert gives no listing to a user none of whose events it applies.
LEMMA UpsertForOthers ==
    ASSUME NEW table \in Tables, NEW b \in Seq(Event),
           NEW events \in SUBSET DOMAIN b, NEW user,
           \A i \in events : b[i].steamid # user
    PROVE  ListingsOf(UpsertListings(table, b, events), user)
             \subseteq ListingsOf(table, user)
<1> DEFINE after == UpsertListings(table, b, events)
<1>1. SUFFICES ASSUME NEW id \in ListingIds,
                      after[id] # NoListing, after[id].steamid = user
               PROVE  table[id] # NoListing /\ table[id].steamid = user
  BY DEF ListingsOf
<1>2. CASE \E i \in events : b[i].id = id
  <2> DEFINE i == CHOOSE j \in events : b[j].id = id
  <2>1. i \in events
    BY <1>2
  <2>2. CASE table[id] = NoListing
    <3>1. after[id] = NewListing(b[i])
      BY <1>2, <2>2 DEF UpsertListings
    <3> QED
      BY <3>1, <2>1, <1>1 DEF NewListing
  <2>3. CASE table[id] # NoListing
    <3>1. after[id] = [table[id] EXCEPT !.price = b[i].price]
      BY <1>2, <2>3 DEF UpsertListings
    <3>2. table[id] \in Listing
      BY <2>3 DEF Tables
    <3> QED
      BY <3>1, <3>2, <2>3, <1>1 DEF Listing
  <2> QED
    BY <2>2, <2>3
<1>3. CASE ~\E i \in events : b[i].id = id
  BY <1>3, <1>1 DEF UpsertListings
<1> QED
  BY <1>2, <1>3

LEMMA DeleteRemoves ==
    ASSUME NEW table \in Tables, NEW ids, NEW user
    PROVE  ListingsOf(DeleteListings(table, ids), user)
             = ListingsOf(table, user) \ ids
BY DEF DeleteListings, ListingsOf

\* What filter_unique_listing_events returns names every id once.
LEMMA FilterUniqueIsUnique ==
    ASSUME NEW b \in Seq(Event), NEW events \in SUBSET DOMAIN b
    PROVE  OneRowPerId(b, FilterUnique(b, events))
BY DEF OneRowPerId, FilterUnique
=============================================================================
