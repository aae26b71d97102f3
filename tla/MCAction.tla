------------------------------ MODULE MCAction ------------------------------
\* One person with several cursors, whose edits agents write into, and undo.
EXTENDS Divergences

CONSTANTS h, a1, file, x, y, nl

MCHumans == {h}
MCAgents == {a1}
MCBase   == <<x>>
MCTexts  == {<<y, nl>>}
=============================================================================
