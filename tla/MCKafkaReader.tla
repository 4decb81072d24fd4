--------------------------- MODULE MCKafkaReader ---------------------------
(* Small instances of KafkaReader: a partition of full length and one that is
   empty, short or full, with any records missing. *)
EXTENDS KafkaReader, TLC

CONSTANTS p1, p2

SomeLogs == {l \in [Parts -> Log] : l[p1].end = MaxOffset /\ l[p2].end # 1}

Browsing(dir, scan, seek) == [dir |-> dir, scan |-> scan, scope |-> Parts, seek |-> seek]
Browses == {Browsing("newest", FALSE, Unset), Browsing("oldest", FALSE, Unset)}
SomeQueries == Browses \cup {Browsing("newest", TRUE, Unset), Browsing("oldest", TRUE, 1)}
=============================================================================
