---------------------------- MODULE MCBlockList ----------------------------
(***************************************************************************)
(* Instances of BlockList for TLC: the batches the stream delivers.        *)
(***************************************************************************)
EXTENDS BlockList, TLC

\* Every event that passes the content filters.
PlainEvents == {e \in Event : ~e.screened}

\* Batches of one event, and of one or two.
SingleBatches == {<<e>> : e \in PlainEvents}

\* The first of two may also be one that the content filters drop.
ShortBatches == SingleBatches \cup {<<e, f>> : e \in Event, f \in PlainEvents}

Symmetry ==
    Permutations(SteamIds) \cup Permutations(ListingIds) \cup Permutations(Requests)
=============================================================================
