---------------------------- MODULE MCRelayPipeline ----------------------------
(* Small instances of the relay pipeline. *)
EXTENDS RelayPipeline

CONSTANTS c1, c2, e1, e2, e3, e4

OneConn == {c1}
TwoConns == {c1, c2}
TwoEvents == {e1, e2}
AllEvents == {e1, e2, e3, e4}
OnlyE2 == {e2}
OnlyE3 == {e3}
OnlyE4 == {e4}

Sub(i, fs, l) == [id |-> i, filters |-> fs, live |-> l]

\* One id for two subscriptions: one with two filters, so that an event may be
\* stored between their snapshots, and one for new events only.
SameId == { Sub("s1", << {e1}, {e2} >>, FALSE), Sub("s1", << {e1} >>, TRUE) }
OneSub == { Sub("s1", << {e1} >>, FALSE) }
===============================================================================
