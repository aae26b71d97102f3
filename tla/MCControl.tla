----------------------------- MODULE MCControl ------------------------------
\* One attached client and whoever else sends verbs, over two request objects.
EXTENDS WatchProperties

CONSTANTS c1, c2, k1, none

MCCalls    == {c1, c2}
MCWatchers == {k1}
=============================================================================
