----------------------------- MODULE EveningMC -----------------------------
\* Instances of Evening: a share of the market and one company.
EXTENDS Evening
CONSTANTS share, firm

ShareAndFirm == {share, firm}
TheFirm == {firm}
=============================================================================
