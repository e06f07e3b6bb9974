----------------------------- MODULE MCReplica -----------------------------
(***************************************************************************)
(* Instances of Replica for TLC: the messages of the site.                 *)
(***************************************************************************)
EXTENDS Replica, TLC

MCPrices == [value : Values, age : 0 .. Ttl + 1]

\* A bump is sent when it happens.
FreshEvents == {e \in Event : e.price.age = 0}

\* Events that pass the content filters.
PlainEvents == {e \in FreshEvents : ~e.screened}

\* One event, or an update and a deletion of different listings.
SoberMessages ==
    {<<e>> : e \in FreshEvents}
    \cup {m \in {<<e, f>> : e, f \in PlainEvents} :
            /\ m[1].event = "listing-update" /\ m[2].event = "listing-delete"
            /\ m[1].id # m[2].id}

\* A listing is deleted and created again within one message.
Recreations ==
    {<<e>> : e \in PlainEvents}
    \cup {m \in {<<e, f>> : e, f \in PlainEvents} :
            /\ m[1].event = "listing-delete" /\ m[2].event = "listing-update"
            /\ m[1].id = m[2].id}

Symmetry == Permutations(ListingIds) \cup Permutations(Values)
=============================================================================
