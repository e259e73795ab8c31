-------------------------- MODULE MCKafkaConsumer --------------------------
(* A Consumer and the RetryConsumer of its retry topic, while a send to that  *)
(* topic or to the dead letters may fail; or one Consumer that meets a fetch  *)
(* error or is stopped.                                                       *)
EXTENDS KafkaConsumer

CONSTANTS a, b, r

MainAndRetry == [c \in Clients |-> IF c = r THEN "retry" ELSE "main"]
=============================================================================
