---------------------------- MODULE DiscoveryMC ----------------------------
\* Instances of Discovery: two trials neither of which dominates the other, and
\* one that dominates both.
EXTENDS Discovery

Low == [ann |-> 1, dd |-> 1]
High == [ann |-> 2, dd |-> 2]
Best == [ann |-> 2, dd |-> 0]

ThreeMetrics == {Low, High, Best}
TwoMetrics == {High, Best}
OneMetric == {Best}
=============================================================================
