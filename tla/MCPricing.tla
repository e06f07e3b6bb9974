----------------------------- MODULE MCPricing -----------------------------
(***************************************************************************)
(* Instances of Pricing for TLC.                                           *)
(***************************************************************************)
EXTENDS Pricing

CONSTANTS h1, h2, k1, k2, Hat

ListingUpdate(id, item, intent, keys, metal, bumped_at, user_agent) ==
    [id |-> id, item |-> item, intent |-> intent,
     terms |-> [keys |-> keys, metal |-> metal, bumped_at |-> bumped_at,
                user_agent |-> user_agent]]

(***************************************************************************)
(* Two hats compete, on one side or the other: 1 key and 5 metal against   *)
(* 60 metal; so do two keys, one of which comes to ask for a key and some  *)
(* metal.  The second hat is also listed by a person.                      *)
(***************************************************************************)
Market ==
    {ListingUpdate(h1, Hat, "sell", 1, 5, 1, TRUE),
     ListingUpdate(h1, Hat, "buy", 1, 5, 1, TRUE),
     ListingUpdate(h2, Hat, "sell", 0, 60, 3, TRUE),
     ListingUpdate(h2, Hat, "buy", 0, 60, 1, FALSE),
     ListingUpdate(k1, Key, "sell", 0, 55, 1, TRUE),
     ListingUpdate(k1, Key, "sell", 1, 2, 3, TRUE),
     ListingUpdate(k2, Key, "sell", 0, 56, 2, TRUE),
     ListingUpdate(k2, Key, "buy", 0, 54, 2, TRUE)}

\* One listing, edited by a bot or a person.
ByHand ==
    {ListingUpdate(h1, Hat, "sell", 1, 5, 1, TRUE),
     ListingUpdate(h1, Hat, "sell", 1, 5, 1, FALSE)}
=============================================================================
