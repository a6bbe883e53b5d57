------------------------------ MODULE AlertLog ------------------------------
(***************************************************************************)
(* What raise_alert (backend/app/services/alert_service.py) promises about *)
(* the alerts table: two alerts of one type and one camera lie further     *)
(* apart than DEDUP_WINDOW.  Only the age of the latest alert matters, and *)
(* it stops growing once it is past the window.                            *)
(***************************************************************************)
EXTENDS Naturals

CONSTANTS Types, Cameras, DedupWindow  \* a natural number

VARIABLE age  \* age[t][c]: age of the latest alert of type t at camera c

\* The age that stands for "no alert yet, or none that still counts".
Old == DedupWindow + 1

Older(a) == IF a > DedupWindow THEN a ELSE a + 1

Init == age = [t \in Types |-> [c \in Cameras |-> Old]]

Tick == age' = [t \in Types |-> [c \in Cameras |-> Older(age[t][c])]]

Raise(t, c) ==
    /\ age[t][c] > DedupWindow
    /\ age' = [age EXCEPT ![t][c] = 0]

Next == Tick \/ \E t \in Types, c \in Cameras : Raise(t, c)

Spec == Init /\ [][Next]_age
=============================================================================
