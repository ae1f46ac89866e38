-------------------------- MODULE MCKafkaConsumer --------------------------
(* Instances of KafkaConsumer: members and partitions are model values, and *)
(* one record does not deserialize.                                         *)
EXTENDS KafkaConsumer

CONSTANTS c1, c2, p1, p2

MCMalformed == {<<p1, 1>>}
=============================================================================
