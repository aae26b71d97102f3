------------------------------ MODULE MCReview ------------------------------
\* One person and one agent, whose diffs are accepted, rejected, cleared and saved.
EXTENDS ReviewProperties

CONSTANTS h, a1, file, x, y, nl

MCHumans == {h}
MCAgents == {a1}
MCBase   == <<x, x>>
MCTexts  == {<<y, nl>>}
MCDiffers == {h, a1}
=============================================================================
