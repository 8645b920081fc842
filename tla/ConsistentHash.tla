--------------------------- MODULE ConsistentHash ---------------------------
(***************************************************************************)
(* The hash ring of pkg/sharding/consistenthash, built anew by every       *)
(* webhook request and every resync from the available shards, in the      *)
(* order in which the lease cache happens to list them.                    *)
(*                                                                         *)
(* A string is a sequence of characters, of which only digits matter here. *)
(* The 64 bit digest is a number below MaxHash; hash is any function.      *)
(***************************************************************************)
EXTENDS Integers, Sequences, FiniteSets, SequencesExt, FiniteSetsExt

CONSTANTS
  Nodes,          \* names of nodes, as strings
  tokensPerNode,  \* at most 100, the default
  MaxHash,        \* number of digests, 2^64
  Hashes          \* the hash functions to consider, on token strings

ASSUME ConsistentHashAssumption ==
  /\ Nodes # {} /\ IsFiniteSet(Nodes)
  /\ tokensPerNode \in 1 .. 100
  /\ MaxHash \in Nat \ {0}

VARIABLES
  hash,         \* the hash function
  order,        \* the nodes added so far, in order
  tokens,       \* sorted
  tokenToNode   \* from tokens to nodes

vars == <<hash, order, tokens, tokenToNode>>

None == <<>>    \* the empty string

\* strconv.FormatInt(i, 10) for i below 100
FormatInt(i) == IF i < 10 THEN <<i>> ELSE <<i \div 10, i % 10>>

Token(node, i) == node \o FormatInt(i)

TokenStrings == {Token(n, i) : n \in Nodes, i \in 0 .. tokensPerNode - 1}

Digests == 0 .. MaxHash - 1

ASSUME HashesAssumption == Hashes \subseteq [TokenStrings -> Digests]

\* mutant: nodes have one token less
NodeTokensFewer(node) == [i \in 1 .. tokensPerNode - 1 |-> hash[Token(node, i - 1)]]

NodeTokens(node) == [i \in 1 .. tokensPerNode |-> hash[Token(node, i - 1)]]

\* slices.Sort: at position i is the least element that i elements do not exceed
Sort(s) ==
  [i \in 1 .. Len(s) |->
     Min({x \in Range(s) : Cardinality({j \in 1 .. Len(s) : s[j] <= x}) >= i})]

\* mutant: the tokens are appended but not sorted
WithNodeUnsorted(r, node) ==
  [ tokens      |-> r.tokens \o NodeTokens(node),
    tokenToNode |-> [t \in DOMAIN r.tokenToNode \cup Range(NodeTokens(node)) |->
                       IF t \in Range(NodeTokens(node)) THEN node ELSE r.tokenToNode[t]] ]

\* AddNodes, for one node: append its tokens, later nodes win, sort
WithNode(r, node) ==
  [ tokens      |-> Sort(r.tokens \o NodeTokens(node)),
    tokenToNode |-> [t \in DOMAIN r.tokenToNode \cup Range(NodeTokens(node)) |->
                       IF t \in Range(NodeTokens(node)) THEN node ELSE r.tokenToNode[t]] ]

Empty == [tokens |-> <<>>, tokenToNode |-> [t \in {} |-> None]]

\* slices.BinarySearch: the first position with a value of at least h
BinarySearch(s, h) == Min({i \in 1 .. Len(s) : s[i] >= h} \cup {Len(s) + 1})

\* mutant: the end of the ring is not connected with its beginning
HashOpen(r, h) ==
  IF r.tokens = <<>> THEN None
  ELSE LET i == BinarySearch(r.tokens, h)
       IN r.tokenToNode[r.tokens[IF i > Len(r.tokens) THEN Len(r.tokens) ELSE i]]

\* mutant: the key modulo the number of tokens
HashModulo(r, h) == IF r.tokens = <<>> THEN None ELSE r.tokenToNode[r.tokens[(h % Len(r.tokens)) + 1]]

\* Hash, for a key whose digest is h
Hash(r, h) ==
  IF r.tokens = <<>> THEN None
  ELSE LET i == BinarySearch(r.tokens, h)
       IN r.tokenToNode[r.tokens[IF i > Len(r.tokens) THEN 1 ELSE i]]

ring == [tokens |-> tokens, tokenToNode |-> tokenToNode]

\* New, or FromLeases, with the nodes in the given order
New(nodes) ==
  LET rings[i \in 0 .. Len(nodes)] == IF i = 0 THEN Empty ELSE WithNode(rings[i - 1], nodes[i])
  IN rings[Len(nodes)]
-----------------------------------------------------------------------------
Init ==
  /\ hash \in Hashes
  /\ order = <<>>
  /\ tokens = <<>> /\ tokenToNode = Empty.tokenToNode

AddNodes(node) ==
  /\ node \notin Range(order)
  /\ order' = Append(order, node)
  /\ LET r == WithNode(ring, node)
     IN tokens' = r.tokens /\ tokenToNode' = r.tokenToNode
  /\ UNCHANGED hash

Next == \E node \in Nodes : AddNodes(node)

Spec == Init /\ [][Next]_vars
-----------------------------------------------------------------------------
TypeOK ==
  /\ hash \in Hashes
  /\ order \in Seq(Nodes)
  /\ tokens \in Seq(Digests) /\ Len(tokens) = Len(order) * tokensPerNode
  /\ DOMAIN tokenToNode = Range(tokens)
  /\ \A t \in DOMAIN tokenToNode : tokenToNode[t] \in Range(order)

\* way from digest h to the next token of a node, around the ring
Distance(h, node) == Min({(t - h) % MaxHash : t \in Range(NodeTokens(node))})

(***************************************************************************)
(* A key goes to the node whose token comes next on the ring, also where   *)
(* the ring closes.  Sharding takes this distance for Position.            *)
(***************************************************************************)
NextNodeOnRing ==
  order # <<>> =>
    \A h \in Digests, n \in Range(order) : Distance(h, Hash(ring, h)) <= Distance(h, n)

(***************************************************************************)
(* A node that joins takes over keys but moves none between the others.    *)
(***************************************************************************)
OnlyNewNodeGains ==
  [][ order # <<>> =>
        \A h \in Digests : Hash(ring, h)' \in {Hash(ring, h), Last(order')} ]_vars

\* no two tokens of the ring have the same digest
NoCollision == Cardinality(Range(tokens)) = Len(tokens)

(***************************************************************************)
(* Two rings of the same nodes agree, whatever order the caches of webhook *)
(* and resync list the leases in, as long as no two tokens collide.        *)
(***************************************************************************)
OrderIrrelevant ==
  NoCollision => \A p \in SetToSeqs(Range(order)) : \A h \in Digests : Hash(New(p), h) = Hash(ring, h)
=============================================================================
