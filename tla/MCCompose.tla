------------------------------ MODULE MCCompose ------------------------------
\* One person and one agent, with every combination of accepted and rejected sets.
EXTENDS Divergences

CONSTANTS h, a1, file, x, y, nl

MCHumans == {h}
MCAgents == {a1}
MCBase   == <<x, x>>
MCTexts  == {<<y, nl>>}
=============================================================================
