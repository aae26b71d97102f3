------------------------------- MODULE MCMail -------------------------------
\* Two connections of one driver, one of which also goes by a second name; a
\* message and a notice; two author ids for them all.
EXTENDS MailProperties, TLC

CONSTANTS k1, k2, c1, c2, m1, n1

MCKeys    == {k1, k2}
MCConns   == {c1, c2}
MCSays    == c1 :> {k1, k2} @@ c2 :> {k1}
MCMsgs    == {m1, n1}
MCNotices == {n1}
=============================================================================
