-------------------------- MODULE MCConsistentHash --------------------------
EXTENDS ConsistentHash

\* shards of a StatefulSet: s-1, s-2, s-3
MCNodes == {<<1>>, <<2>>, <<3>>}

\* every hash function
MCHashes == [TokenStrings -> 0 .. MaxHash - 1]
=============================================================================
