------------------------------- MODULE MCReid -------------------------------
(* Instances of ReidIngest for TLC.                                          *)
EXTENDS ReidIngest

Closed(id, look, at) == [track_id |-> id, look |-> look, last_seen |-> at]

\* Ann passes the first camera, then twice the second, the last time when only a
\* refreshed identity is still in the gallery; the first camera also sees her
\* look-alike Andy, and Bob, who looks like neither.
TwoCameras == [c \in {"c1", "c2"} |->
    IF c = "c1" THEN <<Closed(1, "ann", 1), Closed(2, "andy", 2), Closed(3, "bob", 3)>>
    ELSE <<Closed(1, "ann", 3), Closed(2, "ann", 5)>>]

\* A worker restart between two visitors: the tracker counts from 1 again.
Restarted == [c \in {"c1"} |-> <<Closed(1, "ann", 1), Closed(1, "bob", 4)>>]

\* Similarities as percentages: ann and andy are above the threshold of the runs.
Likeness(a, b) ==
    IF a = b THEN 100 ELSE IF {a, b} = {"ann", "andy"} THEN 80 ELSE 10
=============================================================================
