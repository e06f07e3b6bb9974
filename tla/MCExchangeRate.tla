--------------------------- MODULE MCExchangeRate ---------------------------
(***************************************************************************)
(* Instances of ExchangeRate for TLC: the snapshots of the site.           *)
(***************************************************************************)
EXTENDS ExchangeRate

CONSTANTS Prices, BuyPrices, Lengths

\* The prices of the sell listings: "Listings come sorted by price, first all
\* lowest sell listings, then highest buy listings" (payloads.rs:33).
SellSides ==
    {s \in UNION {[1 .. n -> Prices] : n \in Lengths} :
        \A i, j \in DOMAIN s : i < j => s[i] <= s[j]}

SellsOnly(s) == [i \in DOMAIN s |-> [price |-> s[i], intent |-> "sell"]]
Buy(p) == [price |-> p, intent |-> "buy"]

\* Answers with a sell listing and at most one buy listing, and the empty one.
AnswersWithSells ==
    {SellsOnly(s) : s \in SellSides}
    \cup {Append(SellsOnly(s), Buy(p)) :
            s \in {t \in SellSides : Len(t) = 1}, p \in BuyPrices}

\* Answers of a market where nobody sells a key.
AnswersWithoutSells == {<<>>} \cup {<<Buy(p)>> : p \in BuyPrices}
=============================================================================
