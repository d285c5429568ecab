------------------------------ MODULE DeployMC ------------------------------
\* Instances of Deploy: two champions, and the legs the code knows.
EXTENDS Deploy
CONSTANTS v1, v2

Champions == {v1, v2}
BothLegs == {"exp", "main"}
ExpLeg == {"exp"}
=============================================================================
