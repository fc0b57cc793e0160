----------------------------- MODULE MCDispatch -----------------------------
(* Model-checking instance of Dispatch: two miners that may register either *)
(* of two machines, an upgrade or a downgrade of each other.                *)
EXTENDS Dispatch, TLC

MCHardware == {[level |-> 2, units |-> 3], [level |-> 5, units |-> 16]}

\* In the code each tier needs ten times the compute of the one before.
MCMinUnits == <<1, 2, 4, 8, 16>>

\* Miners are only compared for equality.
Symmetry == Permutations(Miners)
=============================================================================
