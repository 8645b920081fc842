----------------------------- MODULE MCSharding -----------------------------
EXTENDS Sharding

CONSTANTS s1, s2, s3, main, child, r1, r2

\* the key prefers the shards in this order
MCPosition == [k \in {main} |-> [s \in Shards |-> IF s = s1 THEN 1 ELSE IF s = s2 THEN 2 ELSE 3]]

MCOwner == [c \in {child} |-> main]
=============================================================================
