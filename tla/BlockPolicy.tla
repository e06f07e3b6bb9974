---------------------------- MODULE BlockPolicy ----------------------------
(***************************************************************************)
(* What BlockUserService promises (the comments of its proto file): a user *)
(* is blocked and loses every listing in one step, a blocked user gets no  *)
(* listing, and unblocking reverts the block.  There are no locks, caches, *)
(* connections or failures here; BlockList is shown to implement this      *)
(* module as long as its requests come one after the other.                *)
(***************************************************************************)
EXTENDS Etl

VARIABLES
    blocked,     \* the users who are blocked
    listings     \* the table of listings

policyVars == <<blocked, listings>>

PolicyInit ==
    /\ blocked = {}
    /\ listings = EmptyTable

Block(u) ==
    /\ blocked' = blocked \cup {u}
    /\ listings' = DeleteListings(listings, ListingsOf(listings, u))

Unblock(u) ==
    /\ blocked' = blocked \ {u}
    /\ UNCHANGED listings

\* Listings are written and deleted, none of them for a blocked user.
WriteListings ==
    /\ listings' \in Tables
    /\ \A id \in ListingIds :
          listings'[id] \notin {listings[id], NoListing} =>
              listings'[id].steamid \notin blocked
    /\ UNCHANGED blocked

PolicyNext ==
    \/ \E u \in SteamIds : Block(u) \/ Unblock(u)
    \/ WriteListings

PolicySpec == PolicyInit /\ [][PolicyNext]_policyVars
=============================================================================
