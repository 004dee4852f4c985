------------------------- MODULE MCApprovedRecovery -------------------------
\* Instances of ApprovedRecovery for TLC: two HTTP handler threads.
EXTENDS ApprovedRecovery

CONSTANTS h1, h2
=============================================================================
