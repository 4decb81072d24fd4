---------------------------- MODULE MCKafkaClient ---------------------------
(* A topic of three messages in two partitions; one search finds them all,  *)
(* more than the cap holds, another only the ends of the log.               *)
EXTENDS KafkaClient

CONSTANTS c1, c2
MCMatches == [c \in Conditions |-> IF c = c1 THEN {1, 2, 3} ELSE {1, 3}]
=============================================================================
