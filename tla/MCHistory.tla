----------------------------- MODULE MCHistory ------------------------------
\* One person and one agent on a two-byte file: edits, undo and redo racing diffs.
EXTENDS Divergences

CONSTANTS h, a1, file, x, y, nl

MCHumans == {h}
MCAgents == {a1}
MCBase   == <<x, x>>
MCTexts  == {<<y, y>>}
=============================================================================
