-------------------------- MODULE MCSessionTracker --------------------------
(* Tables with room for all that the bounds allow, and tables that overflow *)
(* all the time.                                                            *)
EXTENDS SessionTracker

Roomy == <<2, 4, 4, 4>>
Tight == <<1, 2, 2, 1>>
BothSizes == {Roomy, Tight}
SmallHandleTable == {<<2, 2, 2, 2>>}
=============================================================================
