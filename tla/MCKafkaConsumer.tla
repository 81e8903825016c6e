-------------------------- MODULE MCKafkaConsumer --------------------------
(* Two threads and a topic whose night straddles midnight.                  *)
EXTENDS KafkaConsumer

CONSTANTS c1, c2, night

MCTopicDay == [p \in Partition |-> 1]
MCMaxLog == [p \in Partition |-> 2]
============================================================================
