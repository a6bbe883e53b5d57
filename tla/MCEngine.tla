------------------------------ MODULE MCEngine ------------------------------
(* Instances of AnalyticsEngine for TLC.                                     *)
EXTENDS AnalyticsEngine, TLC

Zone(name, type) == [name |-> name, type |-> type]

\* An entrance and, beside it, a queue that a restricted zone overlaps.
StoreZones  == <<Zone("door", "entrance"), Zone("till", "queue"), Zone("vault", "restricted")>>
StorePlaces == {{}, {1}, {2}, {2, 3}}

\* Two queues side by side, which a walker can cross from one frame to the next.
TillZones  == <<Zone("till-1", "queue"), Zone("till-2", "queue")>>
TillPlaces == {{}, {1}, {2}}

\* A queue along a shelf.
AisleZones  == <<Zone("milk", "shelf"), Zone("till", "queue")>>
AislePlaces == {{}, {1, 2}}

FrameSteps == {1, 2}
Symmetry   == Permutations(Tracks)
=============================================================================
