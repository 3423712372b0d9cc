--------------------------- MODULE MCCampaignPause --------------------------
EXTENDS CampaignPause, TLC

\* Callers are interchangeable, and so are the plans of one target.
Symmetry == Permutations(Callers) \cup Permutations(Runs)
=============================================================================
