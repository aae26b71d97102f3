------------------------------ MODULE MCPaste ------------------------------
\* One person who moves captured text about, undoes it, and one agent.
EXTENDS Divergences

CONSTANTS h, a1, file, x, y, nl

MCHumans == {h}
MCAgents == {a1}
MCBase   == <<x>>
MCTexts  == {<<y>>}
=============================================================================
