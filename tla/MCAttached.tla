----------------------------- MODULE MCAttached -----------------------------
\* One user, one other writer, two things to type.
EXTENDS ClientProperties

CONSTANTS x, y, o, p, l1, l2

MCMine     == {x}
MCBoth     == {x, y}
MCTheirs   == {o, p}
MCUnsaved  == {o}
MCErasable == {x}
MCLoops    == {l1, l2}
=============================================================================
