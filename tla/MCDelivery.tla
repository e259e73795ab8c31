----------------------------- MODULE MCDelivery -----------------------------
(* Two relays over two shards, where rows 1 and 3 have one key and one shard; *)
(* two Consumers of one group, or one with the RetryConsumer of its topic.    *)
EXTENDS Delivery

CONSTANTS a, b, c, r

TwoTopics == [x \in Clients |-> IF x = r THEN "retry" ELSE "main"]
GroupOrPair == {{a, b}, {c, r}}
RowOdd == <<1, 2, 1>>
=============================================================================
