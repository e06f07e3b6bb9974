------------------------- MODULE ExchangeRateProofs -------------------------
(***************************************************************************)
(* Theorems about ExchangeRate, for every set of snapshots of every length *)
(* and price.                                                              *)
(***************************************************************************)
EXTENDS ExchangeRate, SequenceTheorems, Extrema, TLAPS

-----------------------------------------------------------------------------
(* Positions of a snapshot.                                                *)

\* First is the least of a set of positions.
LEMMA FirstIsLeast ==
    ASSUME NEW positions \in SUBSET Nat, positions # {}
    PROVE  First(positions) \in positions /\ \A i \in positions : First(positions) <= i
BY LeastNatural DEF First

LEMMA PositionFacts ==
    ASSUME NEW s \in Seq(Listing)
    PROVE  /\ DOMAIN s = 1 .. Len(s) /\ Len(s) \in Nat
           /\ \A i \in DOMAIN s : s[i] \in Listing /\ s[i].price \in Nat
           /\ Confirmed(s) \subseteq SellListings(s)
           /\ SellListings(s) \subseteq DOMAIN s
           /\ SellListings(s) \in SUBSET Nat
           /\ s # <<>> => 1 \in DOMAIN s
<1>1. /\ DOMAIN s = 1 .. Len(s) /\ Len(s) \in Nat
      /\ \A i \in DOMAIN s : s[i] \in Listing
  BY LenProperties
<1>2. \A l \in Listing : l.price \in Nat
  BY DEF Listing
<1>3. s # <<>> => Len(s) \in Nat \ {0}
  BY EmptySeq
<1> QED
  BY <1>1, <1>2, <1>3 DEF Confirmed, SellListings

\* A snapshot with a listing has a rate, which is the price of a listing.
LEMMA RateIsAPrice ==
    ASSUME NEW s \in Seq(Listing), s # <<>>
    PROVE  /\ KeyExchangeRate(s) \in Nat
           /\ \E i \in DOMAIN s : s[i].price = KeyExchangeRate(s)
<1>1. CASE Confirmed(s) # {}
  <2>1. First(Confirmed(s)) \in DOMAIN s
    BY <1>1, FirstIsLeast, PositionFacts
  <2> QED
    BY <1>1, <2>1, PositionFacts DEF KeyExchangeRate
<1>2. CASE Confirmed(s) = {}
  BY <1>2, PositionFacts DEF KeyExchangeRate
<1> QED
  BY <1>1, <1>2

-----------------------------------------------------------------------------
(* Types.                                                                  *)

LEMMA TypeInit == Init => TypeOK
<1>1. <<>> \in Seq(Listing)
  BY EmptySeq
<1> QED
  BY <1>1, ExchangeRateAssumption DEF Init, TypeOK, NoRate

LEMMA StoreType ==
    ASSUME NEW s \in Seq(Listing), s # <<>>, Store(s)
    PROVE  /\ cached_exchange_rate' \in Nat /\ cached_exchange_rate' # NoRate
           /\ priced_from' \in Seq(Listing)
           /\ \E i \in DOMAIN priced_from' : priced_from'[i].price = cached_exchange_rate'
BY RateIsAPrice DEF Store, NoRate

LEMMA TypeStep == TypeOK /\ [Next]_vars => TypeOK'
<1> SUFFICES ASSUME TypeOK, [Next]_vars PROVE TypeOK'
  OBVIOUS
<1>0. <<>> \in Seq(Listing)
  BY EmptySeq
<1>1. CASE MarketMoves
  BY <1>1, ExchangeRateAssumption DEF MarketMoves, TypeOK
<1>2. CASE InitRate
  BY <1>2, StoreType DEF InitRate, TypeOK
<1>3. CASE Tick
  BY <1>3 DEF Tick, TypeOK
<1>4. CASE Receive
  BY <1>4 DEF Receive, TypeOK
<1>5. CASE Update
  BY <1>0, <1>5, StoreType DEF Update, TypeOK
<1>6. CASE FetchFails
  BY <1>6 DEF FetchFails, TypeOK
<1>7. CASE UNCHANGED vars
  BY <1>7 DEF vars, TypeOK
<1> QED
  BY <1>1, <1>2, <1>3, <1>4, <1>5, <1>6, <1>7 DEF Next

(***************************************************************************)
(* A process has a rate exactly when it has fetched its first one, and the *)
(* rate is the price of a listing of the snapshot it was read off: failed  *)
(* and empty answers neither remove it nor make one up.                    *)
(***************************************************************************)
THEOREM TypeCorrect == Spec => []TypeOK
<1> QED
  BY TypeInit, TypeStep, PTL DEF Spec

-----------------------------------------------------------------------------
(* Three listings of a price.                                              *)

LEMMA ThreeOf ==
    ASSUME NEW T \in SUBSET Nat, IsFiniteSet(T), Cardinality(T) >= 3
    PROVE  \E j, k, m \in T : j < k /\ k < m
<1>0. Cardinality(T) \in Nat
  BY FS_CardinalityType
<1>1. PICK j \in T : \A i \in T : j <= i
  <2>1. T # {}
    BY <1>0, FS_EmptySet
  <2> QED
    BY <2>1, LeastNatural
<1> DEFINE T1 == T \ {j}
<1>2. IsFiniteSet(T1) /\ Cardinality(T1) = Cardinality(T) - 1
  BY FS_RemoveElement
<1>3. PICK k \in T1 : \A i \in T1 : k <= i
  <2>1. T1 # {}
    BY <1>0, <1>2, FS_EmptySet
  <2> QED
    BY <2>1, LeastNatural
<1> DEFINE T2 == T1 \ {k}
<1>4. IsFiniteSet(T2) /\ Cardinality(T2) = Cardinality(T1) - 1
  BY <1>2, FS_RemoveElement
<1>5. PICK m \in T2 : TRUE
  <2>1. T2 # {}
    BY <1>0, <1>2, <1>4, FS_EmptySet
  <2> QED
    BY <2>1
<1>6. j < k
  BY <1>1, <1>3
<1>7. k < m
  BY <1>3, <1>5
<1> QED
  BY <1>3, <1>5, <1>6, <1>7

LEMMA AtLeastThree ==
    ASSUME NEW T, IsFiniteSet(T), NEW j \in T, NEW k \in T, NEW m \in T,
           j # k, k # m, j # m
    PROVE  Cardinality(T) >= 3
<1>1. /\ IsFiniteSet(T \ {j}) /\ Cardinality(T \ {j}) = Cardinality(T) - 1
      /\ Cardinality(T) \in Nat
  BY FS_RemoveElement, FS_CardinalityType
<1> DEFINE T1 == T \ {j}
<1>2. IsFiniteSet(T1 \ {k}) /\ Cardinality(T1 \ {k}) = Cardinality(T1) - 1
  BY <1>1, FS_RemoveElement
<1> DEFINE T2 == T1 \ {k}
<1>3. IsFiniteSet(T2 \ {m}) /\ Cardinality(T2 \ {m}) = Cardinality(T2) - 1
  BY <1>2, FS_RemoveElement
<1>4. Cardinality(T2 \ {m}) \in Nat
  BY <1>3, FS_CardinalityType
<1> QED
  BY <1>1, <1>2, <1>3, <1>4

-----------------------------------------------------------------------------
(* The rate of a snapshot.                                                 *)

(***************************************************************************)
(* What the rate of a snapshot rests on.  The order is what payloads.rs:33 *)
(* says of the site.  That somebody sells is an assumption of the code     *)
(* (see MCExchangeRate_buy_only.cfg for what follows without it), and so   *)
(* is that no price is beyond the u16 prices are counted in, 655.35 ref.   *)
(***************************************************************************)
AsExpected(s) ==
    /\ \A i, j \in SellListings(s) : i < j => s[i].price <= s[j].price
    /\ s # <<>> => s[1].intent = "sell"
    /\ \A i \in SellListings(s) : PriceInCents(s[i]) <= MaxU16

\* The sell listings of a price, to the cent.
At(s, c) == {i \in SellListings(s) : PriceInCents(s[i]) = c}

LEMMA AtFacts ==
    ASSUME NEW s \in Seq(Listing), NEW c
    PROVE  /\ IsFiniteSet(At(s, c)) /\ At(s, c) \in SUBSET Nat
           /\ At(s, c) \subseteq SellListings(s)
<1>1. IsFiniteSet(1 .. Len(s))
  BY PositionFacts, FS_Interval
<1>2. At(s, c) \subseteq SellListings(s)
  BY DEF At
<1>3. At(s, c) \subseteq 1 .. Len(s)
  BY <1>2, PositionFacts
<1>4. IsFiniteSet(At(s, c))
  BY <1>1, <1>3, FS_Subset
<1> QED
  BY <1>2, <1>4, PositionFacts

LEMMA CentsType ==
    ASSUME NEW s \in Seq(Listing), AsExpected(s), NEW i \in SellListings(s)
    PROVE  /\ PriceInCents(s[i]) \in Nat
           /\ Cents(s[i].price) = PriceInCents(s[i])
<1>1. s[i].price \in Nat
  BY PositionFacts
<1>2. PriceInCents(s[i]) \in Nat
  BY <1>1 DEF PriceInCents
<1>3. PriceInCents(s[i]) <= MaxU16
  BY DEF AsExpected
<1> QED
  BY <1>2, <1>3 DEF Cents, PriceInCents, MaxU16

\* A later sell listing is not cheaper, to the cent.
LEMMA LaterIsDearer ==
    ASSUME NEW s \in Seq(Listing), AsExpected(s),
           NEW i \in SellListings(s), NEW j \in SellListings(s), i <= j
    PROVE  PriceInCents(s[i]) <= PriceInCents(s[j])
<1>1. s[i].price \in Nat /\ s[j].price \in Nat /\ i \in Nat /\ j \in Nat
  BY PositionFacts
<1>2. s[i].price <= s[j].price
  BY <1>1 DEF AsExpected
<1>3. \A p, q \in Nat : p <= q => (p + 5) \div 10 <= (q + 5) \div 10
  OBVIOUS
<1> QED
  BY <1>1, <1>2, <1>3 DEF PriceInCents

\* A price is confirmed when three sell listings have it.
LEMMA ConfirmedAreThree ==
    ASSUME NEW s \in Seq(Listing), AsExpected(s), NEW i \in Confirmed(s)
    PROVE  Cardinality(At(s, PriceInCents(s[i]))) >= 3
<1> DEFINE c == PriceInCents(s[i])
<1>1. i \in SellListings(s)
  BY DEF Confirmed
<1>2. PICK j, k \in SellListings(s) :
        /\ j < k /\ k < i
        /\ Cents(s[j].price) = Cents(s[i].price)
        /\ Cents(s[k].price) = Cents(s[i].price)
  BY DEF Confirmed
<1>3. i \in At(s, c) /\ j \in At(s, c) /\ k \in At(s, c)
  BY <1>1, <1>2, CentsType DEF At
<1>4. j # k /\ k # i /\ j # i
  BY <1>1, <1>2, PositionFacts
<1> QED
  BY <1>3, <1>4, AtFacts, AtLeastThree

LEMMA ThreeAreConfirmed ==
    ASSUME NEW s \in Seq(Listing), AsExpected(s), NEW c, Cardinality(At(s, c)) >= 3
    PROVE  \E i \in Confirmed(s) : PriceInCents(s[i]) = c
<1>1. PICK j, k, i \in At(s, c) : j < k /\ k < i
  BY AtFacts, ThreeOf
<1>2. \A m \in {i, j, k} : m \in SellListings(s) /\ PriceInCents(s[m]) = c
  BY <1>1 DEF At
<1>3. i \in Confirmed(s)
  BY <1>1, <1>2, CentsType DEF Confirmed
<1> QED
  BY <1>2, <1>3

LEMMA OfferedByAt ==
    ASSUME NEW s \in Seq(Listing), NEW n, NEW c
    PROVE  c \in OfferedBy(s, n) <=>
             /\ \E i \in SellListings(s) : PriceInCents(s[i]) = c
             /\ Cardinality(At(s, c)) >= n
BY DEF OfferedBy, At

\* What RateIsLowestAgreed says of a rate and the snapshot it was read off.
LowestAgreed(s, rate) ==
    LET agreed == OfferedBy(s, 3)
        offers == IF agreed # {} THEN agreed ELSE OfferedBy(s, 1)
        cents == (rate + 5) \div 10
    IN  cents \in offers /\ \A c \in offers : cents <= c

LEMMA RateOfSnapshot ==
    ASSUME NEW s \in Seq(Listing), s # <<>>, AsExpected(s)
    PROVE  LowestAgreed(s, KeyExchangeRate(s))
<1> DEFINE rate == KeyExchangeRate(s)
           cents == (rate + 5) \div 10
<1>1. CASE Confirmed(s) # {}
  <2> DEFINE i == First(Confirmed(s))
  <2>1. i \in Confirmed(s) /\ \A j \in Confirmed(s) : i <= j
    BY <1>1, FirstIsLeast, PositionFacts
  <2>2. i \in SellListings(s)
    BY <2>1 DEF Confirmed
  <2>3. cents = PriceInCents(s[i])
    BY <1>1 DEF KeyExchangeRate, PriceInCents
  <2>4. cents \in OfferedBy(s, 3)
    BY <2>1, <2>2, <2>3, ConfirmedAreThree, OfferedByAt
  <2>5. ASSUME NEW c \in OfferedBy(s, 3)
        PROVE  cents <= c
    <3>1. PICK j \in Confirmed(s) : PriceInCents(s[j]) = c
      BY <2>5, OfferedByAt, ThreeAreConfirmed
    <3>2. i <= j /\ j \in SellListings(s)
      BY <2>1, <3>1 DEF Confirmed
    <3> HIDE DEF i
    <3> QED
      BY <2>2, <2>3, <3>1, <3>2, LaterIsDearer
  <2> QED
    BY <2>4, <2>5 DEF LowestAgreed
<1>2. CASE Confirmed(s) = {}
  <2>1. OfferedBy(s, 3) = {}
    BY <1>2, OfferedByAt, ThreeAreConfirmed
  <2>2. cents = PriceInCents(s[1])
    BY <1>2 DEF KeyExchangeRate, PriceInCents
  <2>3. 1 \in SellListings(s)
    BY PositionFacts DEF SellListings, AsExpected
  <2>4. cents \in OfferedBy(s, 1)
    <3>1. 1 \in At(s, cents)
      BY <2>2, <2>3 DEF At
    <3>2. Cardinality(At(s, cents)) \in Nat /\ Cardinality(At(s, cents)) # 0
      BY <3>1, AtFacts, FS_CardinalityType, FS_EmptySet
    <3> HIDE DEF cents
    <3>3. Cardinality(At(s, cents)) >= 1
      BY <3>2
    <3> QED
      BY <2>2, <2>3, <3>3, OfferedByAt
  <2>5. ASSUME NEW c \in OfferedBy(s, 1)
        PROVE  cents <= c
    <3>1. PICK j \in SellListings(s) : PriceInCents(s[j]) = c
      BY <2>5, OfferedByAt
    <3>2. 1 <= j
      BY <3>1, PositionFacts
    <3> QED
      BY <2>2, <2>3, <3>1, <3>2, LaterIsDearer
  <2> QED
    BY <2>1, <2>4, <2>5 DEF LowestAgreed
<1> QED
  BY <1>1, <1>2

-----------------------------------------------------------------------------
(* The inductive invariant: the cached rate is that of the snapshot it was *)
(* read off, which is one that the site has answered, and so is the answer *)
(* in hand.                                                                *)

RateInv ==
    /\ market \in Snapshots
    /\ response \in Snapshots \cup {<<>>}
    /\ cached_exchange_rate # NoRate =>
          /\ priced_from \in Snapshots /\ priced_from # <<>>
          /\ cached_exchange_rate = KeyExchangeRate(priced_from)

LEMMA RateStep == RateInv /\ [Next]_vars => RateInv'
<1> SUFFICES ASSUME RateInv, [Next]_vars PROVE RateInv'
  OBVIOUS
<1>1. CASE MarketMoves
  BY <1>1 DEF MarketMoves, RateInv
<1>2. CASE InitRate
  BY <1>2 DEF InitRate, Store, RateInv
<1>3. CASE Tick \/ Receive
  BY <1>3 DEF Tick, Receive, RateInv
<1>4. CASE Update
  BY <1>4 DEF Update, Store, RateInv
<1>5. CASE FetchFails \/ UNCHANGED vars
  BY <1>5 DEF FetchFails, vars, RateInv
<1> QED
  BY <1>1, <1>2, <1>3, <1>4, <1>5 DEF Next

(***************************************************************************)
(* The cached rate is the lowest price that three sell listings agree on,  *)
(* and, if there is none, the lowest sell price, for all markets in which  *)
(* keys are sold at prices that fit the counter and which the site sorts.  *)
(***************************************************************************)
THEOREM RateIsAgreed ==
    ASSUME \A s \in Snapshots : AsExpected(s)
    PROVE  Spec => []RateIsLowestAgreed
<1>1. Init => RateInv
  BY DEF Init, RateInv
<1>2. RateInv => RateIsLowestAgreed
  <2> SUFFICES ASSUME RateInv, cached_exchange_rate # NoRate
               PROVE  LowestAgreed(priced_from, cached_exchange_rate)
    BY DEF RateIsLowestAgreed, LowestAgreed
  <2> QED
    BY RateOfSnapshot, ExchangeRateAssumption DEF RateInv
<1> QED
  BY <1>1, <1>2, RateStep, PTL DEF Spec
=============================================================================
