------------------------------ MODULE MCMotion ------------------------------
(***************************************************************************)
(* Instances of Motion for TLC.  A turn is 12; the limits are inside it.    *)
(***************************************************************************)
EXTENDS Motion, TLC

Wp(t, x, v, acc) == [t |-> t, q |-> x, qd |-> v, qdd |-> acc]
Shape(order, points) == [order |-> order, points |-> points]

\* Two units per cycle: half a turn and more in either sense, a plan that
\* starts late, one from rest to rest, one point, and two that are refused.
Steady == {Shape("cubic", <<Wp(0, 0, 2, 0), Wp(3, 6, 2, 0)>>),
           Shape("quintic", <<Wp(0, 0, -2, 0), Wp(2, -4, -2, 0), Wp(4, -8, -2, 0)>>),
           Shape("linear", <<Wp(1, 0, 0, 0), Wp(3, 4, 0, 0)>>)}
Rest == {Shape("quintic", <<Wp(0, 0, 0, 4), Wp(3, 4, 0, -4)>>), Shape("linear", <<Wp(0, 0, 0, 0)>>)}
Bad == {Shape("linear", << >>), Shape("linear", <<Wp(2, 0, 0, 0), Wp(2, 1, 0, 0)>>)}
AllShapes == Steady \union Rest \union Bad
Bottom == -5
Ends == {-1, 5}
BothWays == {-2, 3}
=============================================================================
