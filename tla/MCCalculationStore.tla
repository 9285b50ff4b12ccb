------------------------- MODULE MCCalculationStore -------------------------
EXTENDS CalculationStore

\* Calculations are named by their sizes
MCSizeOf == [c \in Calculation |-> c]
=============================================================================
