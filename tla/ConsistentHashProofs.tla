------------------------ MODULE ConsistentHashProofs ------------------------
(***************************************************************************)
(* The hash ring answers with the next node and a join moves keys only to  *)
(* the new node, for every hash function (collisions included) and every   *)
(* number of nodes and tokens.  Without collisions, the order in which the *)
(* nodes are added makes no difference.                                    *)
(*                                                                         *)
(* The inductive invariant says that the sorted sequence has exactly the   *)
(* tokens of the nodes added so far and that a token's node has it.  The   *)
(* way from a key to a token tells tokens apart, so the token that the     *)
(* binary search finds is the only nearest one, before and after a join.   *)
(* New is a recursive function; that its value is a ring of all its nodes  *)
(* follows by induction, from the least position that would refute it.     *)
(***************************************************************************)
EXTENDS ConsistentHash, SequenceTheorems, FiniteSetTheorems, WellFoundedInduction, TLAPS

\* A set of naturals has a least element, which is what Min chooses.
LEMMA Least ==
  ASSUME NEW S, S \subseteq Nat, S # {}
  PROVE  Min(S) \in S /\ \A y \in S : Min(S) <= y
<1> DEFINE R == {ss \in Nat \X Nat : ss[1] < ss[2]}
<1>1. IsWellFoundedOn(R, Nat)
  BY NatLessThanWellFounded DEF OpToRel
<1>2. \A x, y \in Nat : y < x => <<y, x>> \in R
  OBVIOUS
<1> HIDE DEF R
<1>3. PICK x \in S : \A y \in S : ~(<<y, x>> \in R)
  BY <1>1, WFMin
<1>4. \A y \in S : ~(y < x)
  BY <1>2, <1>3
<1>5. \A y \in S : x <= y
  BY <1>4
<1> QED
  BY <1>5 DEF Min

-----------------------------------------------------------------------------
(* Sort.                                                                   *)

\* positions of elements up to x, and their number
UpTo(s, x) == {j \in 1 .. Len(s) : s[j] <= x}
Rank(s, x) == Cardinality(UpTo(s, x))

\* Ranks are positions, and grow with the elements.
LEMMA Ranks ==
  ASSUME NEW s \in Seq(Nat), NEW x \in Nat
  PROVE  /\ IsFiniteSet(UpTo(s, x)) /\ Rank(s, x) \in 0 .. Len(s)
         /\ \A y \in Nat : y <= x => Rank(s, y) <= Rank(s, x)
         /\ \A y \in Nat : y < x /\ x \in Range(s) => Rank(s, y) < Rank(s, x)
<1>1. Len(s) \in Nat /\ DOMAIN s = 1 .. Len(s) /\ \A j \in 1 .. Len(s) : s[j] \in Nat
  BY ElementOfSeq
<1>2. IsFiniteSet(1 .. Len(s)) /\ Cardinality(1 .. Len(s)) = Len(s)
  BY <1>1, FS_Interval
<1>3. \A y : IsFiniteSet(UpTo(s, y)) /\ Rank(s, y) \in 0 .. Len(s)
  <2> SUFFICES ASSUME NEW y PROVE IsFiniteSet(UpTo(s, y)) /\ Rank(s, y) \in 0 .. Len(s)
    OBVIOUS
  <2>1. UpTo(s, y) \in SUBSET (1 .. Len(s))
    BY DEF UpTo
  <2>2. IsFiniteSet(UpTo(s, y)) /\ Rank(s, y) <= Len(s)
    BY <1>2, <2>1, FS_Subset DEF Rank
  <2> QED
    BY <1>1, <2>2, FS_CardinalityType DEF Rank
<1>4. \A y \in Nat : y <= x => UpTo(s, y) \in SUBSET UpTo(s, x)
  BY <1>1 DEF UpTo
<1>5. \A y \in Nat : y <= x => Rank(s, y) <= Rank(s, x)
  BY <1>3, <1>4, FS_Subset DEF Rank
<1>6. ASSUME NEW y \in Nat, y < x, x \in Range(s) PROVE Rank(s, y) < Rank(s, x)
  <2>1. PICK k \in 1 .. Len(s) : s[k] = x
    BY <1>1, <1>6 DEF Range
  <2>2. k \in UpTo(s, x) /\ k \notin UpTo(s, y)
    BY <1>6, <2>1 DEF UpTo
  <2>3. Rank(s, y) <= Rank(s, x) /\ Rank(s, y) # Rank(s, x)
    BY <1>3, <1>4, <1>6, <2>2, FS_Subset DEF Rank
  <2> QED
    BY <1>3, <2>3
<1> QED
  BY <1>3, <1>5, <1>6

\* what Sort chooses from
AtLeast(s, i) == {x \in Range(s) : Rank(s, x) >= i}

\* Sort chooses the least element of a set that has one: the greatest element of s
\* has rank Len(s).
LEMMA AtLeastMin ==
  ASSUME NEW s \in Seq(Nat), NEW i \in 1 .. Len(s)
  PROVE  /\ Sort(s)[i] = Min(AtLeast(s, i))
         /\ Sort(s)[i] \in AtLeast(s, i) /\ \A y \in AtLeast(s, i) : Sort(s)[i] <= y
<1>1. Len(s) \in Nat /\ DOMAIN s = 1 .. Len(s) /\ \A j \in 1 .. Len(s) : s[j] \in Nat
  BY ElementOfSeq
<1>2. Sort(s)[i] = Min(AtLeast(s, i))
  BY DEF Sort, AtLeast, Rank, UpTo
<1>3. Range(s) \subseteq Nat /\ \A j \in 1 .. Len(s) : s[j] \in Range(s)
  BY <1>1 DEF Range
<1> DEFINE T == {Len(s) - Rank(s, x) : x \in Range(s)}
<1>4. \A x \in Range(s) : x \in Nat /\ Rank(s, x) \in 0 .. Len(s)
  BY <1>3, Ranks
<1>5. T \subseteq Nat
  BY <1>1, <1>4
<1>6. s[i] \in Range(s)
  BY <1>3
<1>7. T # {}
  BY <1>6
<1>8. Min(T) \in T /\ \A n \in T : Min(T) <= n
  <2> HIDE DEF T
  <2> QED  BY <1>5, <1>7, Least
<1>9. PICK x \in Range(s) : Min(T) = Len(s) - Rank(s, x)
  BY <1>8
<1>10. \A y \in Range(s) : Min(T) <= Len(s) - Rank(s, y)
  BY <1>8
<1>11. \A y \in Range(s) : Rank(s, y) <= Rank(s, x)
  <2> SUFFICES ASSUME NEW y \in Range(s) PROVE Rank(s, y) <= Rank(s, x)
    OBVIOUS
  <2>1. PICK m \in 0 .. Len(s), n \in 0 .. Len(s) : m = Rank(s, x) /\ n = Rank(s, y)
    BY <1>4
  <2>2. Len(s) - m <= Len(s) - n
    BY <1>9, <1>10, <2>1
  <2> QED
    BY <1>1, <2>1, <2>2
<1>12. \A j \in 1 .. Len(s) : s[j] <= x
  <2> SUFFICES ASSUME NEW j \in 1 .. Len(s), x < s[j] PROVE FALSE
    BY <1>1, <1>3
  <2>1. Rank(s, x) < Rank(s, s[j])
    BY <1>3, <1>4, Ranks
  <2>2. Rank(s, s[j]) <= Rank(s, x)
    BY <1>3, <1>11
  <2> QED
    BY <1>1, <1>3, <1>4, <2>1, <2>2
<1>13. UpTo(s, x) = 1 .. Len(s)
  BY <1>12 DEF UpTo
<1>14. Rank(s, x) = Len(s)
  <2>1. Cardinality(1 .. Len(s)) = IF 1 > Len(s) THEN 0 ELSE Len(s) - 1 + 1
    BY <1>1, FS_Interval
  <2>2. 1 <= Len(s)
    BY <1>1
  <2> QED
    BY <1>1, <1>13, <2>1, <2>2 DEF Rank
<1>15. x \in AtLeast(s, i)
  BY <1>1, <1>14 DEF AtLeast
<1>16. AtLeast(s, i) \subseteq Nat /\ AtLeast(s, i) # {}
  BY <1>3, <1>15 DEF AtLeast
<1> QED
  BY <1>2, <1>16, Least

\* The element at position i is the one with this rank but no smaller one with it.
LEMMA SortAt ==
  ASSUME NEW s \in Seq(Nat), NEW i \in 1 .. Len(s), NEW x \in Range(s), Rank(s, x) >= i,
         \A y \in Range(s) : y < x => Rank(s, y) < i
  PROVE  Sort(s)[i] = x
<1>1. Len(s) \in Nat /\ DOMAIN s = 1 .. Len(s) /\ \A j \in 1 .. Len(s) : s[j] \in Nat
  BY ElementOfSeq
<1>2. Range(s) \subseteq Nat
  BY <1>1 DEF Range
<1>3. PICK y : y = Sort(s)[i]
  OBVIOUS
<1>4. y \in Range(s) /\ Rank(s, y) >= i
  BY <1>3, AtLeastMin DEF AtLeast
<1>5. y <= x
  BY <1>3, AtLeastMin DEF AtLeast
<1>6. Rank(s, y) \in Nat /\ y \in Nat /\ x \in Nat
  BY <1>2, <1>4, Ranks
<1>7. ~(y < x)
  BY <1>1, <1>4, <1>6
<1> QED
  BY <1>3, <1>5, <1>6, <1>7

\* An element that occurs twice occurs twice in the result.
LEMMA SortKeepsDuplicates ==
  ASSUME NEW s \in Seq(Nat), NEW a \in 1 .. Len(s), NEW b \in 1 .. Len(s), a # b, s[a] = s[b]
  PROVE  \E i, j \in 1 .. Len(s) : i # j /\ Sort(s)[i] = s[a] /\ Sort(s)[j] = s[a]
<1>1. Len(s) \in Nat /\ DOMAIN s = 1 .. Len(s) /\ \A j \in 1 .. Len(s) : s[j] \in Nat
  BY ElementOfSeq
<1>2. PICK x \in Nat : x = s[a]
  BY <1>1
<1>3. x \in Range(s) /\ Range(s) \subseteq Nat
  BY <1>1, <1>2 DEF Range
<1>4. IsFiniteSet(UpTo(s, x)) /\ Rank(s, x) \in 0 .. Len(s)
  BY Ranks
<1>5. a \in UpTo(s, x) /\ b \in UpTo(s, x)
  BY <1>1, <1>2 DEF UpTo
<1> DEFINE U == UpTo(s, x) \ {a}
           V == U \ {b}
<1>6. IsFiniteSet(U) /\ Cardinality(U) = Rank(s, x) - 1
  BY <1>4, <1>5, FS_RemoveElement DEF Rank
<1>7. b \in U
  BY <1>5
<1> HIDE DEF U
<1>8. IsFiniteSet(V) /\ Cardinality(V) = Rank(s, x) - 2
  <2>1. IsFiniteSet(V) /\ Cardinality(V) = Cardinality(U) - 1
    BY <1>6, <1>7, FS_RemoveElement
  <2> QED
    BY <1>4, <1>6, <2>1
<1>9. ASSUME NEW y \in Range(s), y < x PROVE Rank(s, y) < Rank(s, x) - 1
  <2>1. y \in Nat
    BY <1>3
  <2>2. UpTo(s, y) \in SUBSET V
    BY <1>1, <1>2, <1>9, <2>1 DEF UpTo, U
  <2>3. Rank(s, y) <= Rank(s, x) - 2
    <3> HIDE DEF V
    <3> QED  BY <1>8, <2>2, FS_Subset DEF Rank
  <2>4. Rank(s, y) \in 0 .. Len(s)
    BY <2>1, Ranks
  <2> QED
    BY <1>1, <1>4, <2>3, <2>4
<1>10. Cardinality(V) \in Nat
  BY <1>8, FS_CardinalityType
<1>11. PICK i \in 1 .. Len(s) : i = Rank(s, x) /\ i - 1 \in 1 .. Len(s)
  BY <1>1, <1>4, <1>8, <1>10
<1>12. \A y \in Range(s) : y < x => Rank(s, y) < i - 1
  BY <1>9, <1>11
<1>13. \A y \in Range(s) : Rank(s, y) \in Nat
  BY <1>3, Ranks
<1>14. \A y \in Range(s) : y < x => Rank(s, y) < i
  BY <1>12, <1>13
<1>15. Sort(s)[i] = x
  BY <1>3, <1>11, <1>14, SortAt
<1>16. PICK j \in 1 .. Len(s) : j = i - 1
  BY <1>11
<1>17. \A y \in Range(s) : y < x => Rank(s, y) < j
  BY <1>12, <1>16
<1>18. Rank(s, x) >= j
  BY <1>1, <1>11, <1>16
<1>19. Sort(s)[j] = x
  BY <1>3, <1>17, <1>18, SortAt
<1> QED
  BY <1>1, <1>2, <1>15, <1>16, <1>19

\* Sort returns the elements of a sequence in ascending order.
LEMMA Sorts ==
  ASSUME NEW s \in Seq(Nat), NEW t, t = Sort(s)
  PROVE  /\ t \in Seq(Nat) /\ Len(t) = Len(s) /\ Range(t) = Range(s)
         /\ \A i, j \in 1 .. Len(t) : i < j => t[i] <= t[j]
<1>1. Len(s) \in Nat /\ DOMAIN s = 1 .. Len(s) /\ \A j \in 1 .. Len(s) : s[j] \in Nat
  BY ElementOfSeq
<1>2. Range(s) \subseteq Nat /\ \A j \in 1 .. Len(s) : s[j] \in Range(s)
  BY <1>1 DEF Range
<1>3. \A i \in 1 .. Len(s) : t[i] \in Range(s)
  BY AtLeastMin DEF AtLeast
<1>4. DOMAIN t = 1 .. Len(s)
  BY DEF Sort
<1>5. t = [i \in 1 .. Len(s) |-> t[i]]
  BY DEF Sort
<1>6. t \in Seq(Nat) /\ Len(t) = Len(s)
  BY <1>1, <1>2, <1>3, <1>4, <1>5
<1>7. ASSUME NEW i \in 1 .. Len(s), NEW j \in 1 .. Len(s), i < j PROVE t[i] <= t[j]
  <2>1. \A x \in Range(s) : Rank(s, x) \in Nat
    BY <1>2, Ranks
  <2>2. AtLeast(s, j) \subseteq AtLeast(s, i)
    BY <1>7, <2>1 DEF AtLeast
  <2> QED
    BY <2>2, AtLeastMin
<1>8. ASSUME NEW x \in Range(s) PROVE x \in Range(t)
  <2>1. x \in Nat /\ Rank(s, x) \in 0 .. Len(s)
    BY <1>2, Ranks
  <2>2. PICK k \in 1 .. Len(s) : s[k] = x
    BY <1>1 DEF Range
  <2>3. UpTo(s, x) # {}
    BY <2>1, <2>2 DEF UpTo
  <2>4. Rank(s, x) \in 1 .. Len(s)
    BY <1>1, <2>1, <2>3, Ranks, FS_EmptySet DEF Rank
  <2>5. \A y \in Range(s) : y < x => Rank(s, y) < Rank(s, x)
    BY <1>2, <2>1, Ranks
  <2>6. PICK i \in 1 .. Len(s) : i = Rank(s, x)
    BY <2>4
  <2>7. Rank(s, x) >= i
    BY <1>1, <2>6
  <2>8. \A y \in Range(s) : y < x => Rank(s, y) < i
    BY <2>5, <2>6
  <2>9. t[i] = x
    BY <2>7, <2>8, SortAt
  <2> QED
    BY <1>4, <2>9 DEF Range
<1>9. Range(t) \subseteq Range(s)
  BY <1>3, <1>4 DEF Range
<1> QED
  BY <1>6, <1>7, <1>8, <1>9

-----------------------------------------------------------------------------
(* The next token on the ring.                                             *)

\* way from h to token t around the ring
Way(h, t) == (t - h) % MaxHash

\* Numbers below the modulus stay as they are.
LEMMA Small ==
  ASSUME NEW m \in Nat, NEW x \in 0 .. m - 1
  PROVE  x % m = x
OBVIOUS

\* Small negative numbers go once around.
LEMMA SmallNegative ==
  ASSUME NEW m \in Nat, NEW x \in Int, x < 0, 0 <= x + m
  PROVE  x % m = x + m
OBVIOUS

\* Ahead of h the way to a token is the difference, behind it once around.
LEMMA Ways ==
  ASSUME NEW h \in Digests, NEW t \in Digests
  PROVE  Way(h, t) = IF t >= h THEN t - h ELSE t - h + MaxHash
<1>1. MaxHash \in Nat
  BY ConsistentHashAssumption
<1>2. h \in 0 .. MaxHash - 1 /\ t \in 0 .. MaxHash - 1
  BY DEF Digests
<1>3. CASE t >= h
  <2>1. PICK x \in 0 .. MaxHash - 1 : x = t - h
    BY <1>1, <1>2, <1>3
  <2> QED
    BY <1>1, <1>3, <2>1, Small DEF Way
<1>4. CASE ~(t >= h)
  <2>1. PICK x \in Int : x = t - h /\ x < 0 /\ 0 <= x + MaxHash
    BY <1>1, <1>2, <1>4
  <2> QED
    BY <1>1, <1>4, <2>1, SmallNegative DEF Way
<1> QED
  BY <1>3, <1>4

\* Different tokens are different ways off.
LEMMA WaysDiffer ==
  ASSUME NEW h \in Digests, NEW t \in Digests, NEW u \in Digests
  PROVE  Way(h, t) \in Nat /\ (Way(h, t) = Way(h, u) => t = u)
BY Ways, ConsistentHashAssumption DEF Digests

\* Sequences as AddNodes leaves them.
Ascending(s) ==
  /\ s \in Seq(Digests)
  /\ \A i, j \in 1 .. Len(s) : i < j => s[i] <= s[j]

\* where Hash looks
At(s, h) == LET i == BinarySearch(s, h) IN IF i > Len(s) THEN 1 ELSE i

\* Where Hash looks is the token that comes next on the ring.
LEMMA Nearest ==
  ASSUME NEW s, Ascending(s), s # <<>>, NEW h \in Digests
  PROVE  /\ At(s, h) \in 1 .. Len(s) /\ s[At(s, h)] \in Range(s)
         /\ \A t \in Range(s) : Way(h, s[At(s, h)]) <= Way(h, t)
<1>1. /\ s \in Seq(Digests) /\ Len(s) \in Nat /\ Len(s) > 0 /\ DOMAIN s = 1 .. Len(s)
      /\ \A j \in 1 .. Len(s) : s[j] \in Digests
  BY ElementOfSeq DEF Ascending
<1>2. \A i, j \in 1 .. Len(s) : i <= j => s[i] <= s[j]
  BY <1>1 DEF Ascending, Digests
<1> DEFINE S == {i \in 1 .. Len(s) : s[i] >= h}
<1>3. PICK b : b = BinarySearch(s, h)
  OBVIOUS
<1>4. S \cup {Len(s) + 1} \subseteq Nat /\ S \cup {Len(s) + 1} # {}
  BY <1>1
<1>5. b \in S \cup {Len(s) + 1} /\ \A i \in S \cup {Len(s) + 1} : b <= i
  BY <1>3, <1>4, Least DEF BinarySearch
<1>6. Range(s) = {s[j] : j \in 1 .. Len(s)}
  BY <1>1 DEF Range
<1>7. CASE b \in S
  <2>1. At(s, h) = b /\ b \in 1 .. Len(s) /\ s[b] >= h
    BY <1>1, <1>3, <1>7 DEF At
  <2>2. ASSUME NEW j \in 1 .. Len(s) PROVE Way(h, s[b]) <= Way(h, s[j])
    <3>1. CASE s[j] >= h
      <4>1. b <= j
        BY <1>5, <3>1
      <4>2. s[b] <= s[j]
        BY <1>2, <2>1, <4>1
      <4> QED
        BY <1>1, <2>1, <3>1, <4>2, Ways DEF Digests
    <3>2. CASE ~(s[j] >= h)
      BY <1>1, <2>1, <3>2, Ways, ConsistentHashAssumption DEF Digests
    <3> QED
      BY <3>1, <3>2
  <2> QED
    BY <1>6, <2>1, <2>2
<1>8. CASE b = Len(s) + 1
  <2>1. At(s, h) = 1 /\ 1 \in 1 .. Len(s)
    BY <1>1, <1>3, <1>8 DEF At
  <2>2. \A j \in 1 .. Len(s) : ~(s[j] >= h)
    BY <1>1, <1>5, <1>8
  <2>3. ASSUME NEW j \in 1 .. Len(s) PROVE Way(h, s[1]) <= Way(h, s[j])
    <3>1. s[1] <= s[j]
      BY <1>1, <1>2, <2>1
    <3> QED
      BY <1>1, <2>1, <2>2, <3>1, Ways, ConsistentHashAssumption DEF Digests
  <2> QED
    BY <1>6, <2>1, <2>3
<1> QED
  BY <1>5, <1>7, <1>8

-----------------------------------------------------------------------------
(* The ring.                                                               *)

\* the tokens of the nodes added so far
Added == UNION {Range(NodeTokens(n)) : n \in Range(order)}

\* two nodes share a token
Collide(n, m) == n # m /\ Range(NodeTokens(n)) \cap Range(NodeTokens(m)) # {}

\* the ring has the tokens of its nodes and no others
Complete == Range(tokens) = Added

\* the node of a token has this token
Owned == \A t \in DOMAIN tokenToNode : t \in Range(NodeTokens(tokenToNode[t]))

\* tokens that collide are both in the ring
BothKept ==
  \A n, m \in Range(order) :
    Collide(n, m) => \E i, j \in 1 .. Len(tokens) : i # j /\ tokens[i] = tokens[j]

IndInv == TypeOK /\ Ascending(tokens) /\ Complete /\ Owned /\ BothKept

\* A node has as many tokens as configured, and one at least.
LEMMA NodeTokensTyped ==
  ASSUME hash \in Hashes, NEW n \in Nodes
  PROVE  /\ NodeTokens(n) \in Seq(Digests) /\ Len(NodeTokens(n)) = tokensPerNode
         /\ Range(NodeTokens(n)) \subseteq Digests /\ Range(NodeTokens(n)) # {}
<1>1. tokensPerNode \in Nat /\ tokensPerNode >= 1
  BY ConsistentHashAssumption
<1>2. \A i \in 1 .. tokensPerNode : i - 1 \in 0 .. tokensPerNode - 1
  BY <1>1
<1>3. \A i \in 1 .. tokensPerNode : Token(n, i - 1) \in TokenStrings
  BY <1>2 DEF TokenStrings
<1>4. hash \in [TokenStrings -> Digests]
  BY HashesAssumption
<1>5. \A i \in 1 .. tokensPerNode : hash[Token(n, i - 1)] \in Digests
  BY <1>3, <1>4
<1>6. NodeTokens(n) \in [1 .. tokensPerNode -> Digests]
  BY <1>5 DEF NodeTokens
<1> QED
  BY <1>1, <1>6 DEF Range

\* Appending the tokens of a node and sorting gives all of them in ascending order.
LEMMA Joins ==
  ASSUME hash \in Hashes, NEW s \in Seq(Digests), NEW node \in Nodes,
         NEW t, t = Sort(s \o NodeTokens(node))
  PROVE  /\ s \o NodeTokens(node) \in Seq(Nat)
         /\ Len(t) = Len(s) + tokensPerNode
         /\ Range(t) = Range(s) \cup Range(NodeTokens(node))
         /\ Ascending(t)
<1> DEFINE new == NodeTokens(node)
           all == s \o new
<1>1. Digests \subseteq Nat /\ MaxHash \in Nat
  BY ConsistentHashAssumption DEF Digests
<1>2. new \in Seq(Digests) /\ Len(new) = tokensPerNode
  BY NodeTokensTyped
<1>3. all \in Seq(Digests) /\ Len(all) = Len(s) + tokensPerNode
  BY <1>2
<1>4. Range(all) = Range(s) \cup Range(new)
  <2> HIDE DEF new
  <2>1. DOMAIN all = 1 .. Len(s) + Len(new) /\ Len(s) \in Nat /\ Len(new) \in Nat
    BY <1>2
  <2>2. DOMAIN s = 1 .. Len(s) /\ DOMAIN new = 1 .. Len(new)
    BY <1>2
  <2>3. \A i \in 1 .. Len(s) : all[i] = s[i]
    BY <1>2
  <2>4. \A i \in 1 .. Len(new) : all[Len(s) + i] = new[i]
    BY <1>2
  <2>5. \A i \in 1 .. Len(s) + Len(new) :
          i \in 1 .. Len(s) \/ \E j \in 1 .. Len(new) : i = Len(s) + j
    <3> SUFFICES ASSUME NEW i \in 1 .. Len(s) + Len(new), i \notin 1 .. Len(s)
                 PROVE  \E j \in 1 .. Len(new) : i = Len(s) + j
      OBVIOUS
    <3>1. i - Len(s) \in 1 .. Len(new) /\ i = Len(s) + (i - Len(s))
      BY <2>1
    <3> QED  BY <3>1
  <2>6. Range(all) \subseteq Range(s) \cup Range(new)
    <3> SUFFICES ASSUME NEW i \in 1 .. Len(s) + Len(new)
                 PROVE  all[i] \in Range(s) \cup Range(new)
      BY <2>1 DEF Range
    <3>1. CASE i \in 1 .. Len(s)
      BY <2>2, <2>3, <3>1 DEF Range
    <3>2. CASE \E j \in 1 .. Len(new) : i = Len(s) + j
      BY <2>2, <2>4, <3>2 DEF Range
    <3> QED  BY <2>5, <3>1, <3>2
  <2>7. Range(s) \subseteq Range(all)
    <3> SUFFICES ASSUME NEW i \in 1 .. Len(s) PROVE s[i] \in Range(all)
      BY <2>2 DEF Range
    <3>1. i \in DOMAIN all /\ all[i] = s[i]
      BY <2>1, <2>3
    <3> QED  BY <3>1 DEF Range
  <2>8. Range(new) \subseteq Range(all)
    <3> SUFFICES ASSUME NEW i \in 1 .. Len(new) PROVE new[i] \in Range(all)
      BY <2>2 DEF Range
    <3>1. Len(s) + i \in DOMAIN all /\ all[Len(s) + i] = new[i]
      BY <2>1, <2>4
    <3> QED  BY <3>1 DEF Range
  <2> QED
    BY <2>6, <2>7, <2>8
<1>5. t = Sort(all)
  OBVIOUS
<1> HIDE DEF all
<1>6. all \in Seq(Nat)
  <2>1. \A i \in 1 .. Len(all) : all[i] \in Nat
    BY <1>1, <1>3, ElementOfSeq
  <2> QED
    BY <1>3, <2>1
<1>7. /\ t \in Seq(Nat) /\ Len(t) = Len(all) /\ Range(t) = Range(all)
      /\ \A i, j \in 1 .. Len(t) : i < j => t[i] <= t[j]
  BY <1>5, <1>6, Sorts
<1>8. t \in Seq(Digests)
  <2>1. Range(all) \subseteq Digests
    BY <1>3, ElementOfSeq DEF Range
  <2>2. \A i \in 1 .. Len(t) : t[i] \in Range(t)
    BY <1>7 DEF Range
  <2> QED
    BY <1>7, <2>1, <2>2
<1>9. Ascending(t)
  BY <1>7, <1>8 DEF Ascending
<1> QED
  BY <1>3, <1>4, <1>6, <1>7, <1>9 DEF all

\* A step of the ring, in terms of sets.
LEMMA Adds ==
  ASSUME IndInv, NEW node \in Nodes, AddNodes(node)
  PROVE  /\ hash' = hash /\ NodeTokens(node)' = NodeTokens(node)
         /\ order' \in Seq(Nodes) /\ Len(order') = Len(order) + 1
         /\ Range(order') = Range(order) \cup {node} /\ Last(order') = node
         /\ tokens' = Sort(tokens \o NodeTokens(node))
         /\ tokens \o NodeTokens(node) \in Seq(Nat)
         /\ Len(tokens') = Len(tokens) + tokensPerNode
         /\ Range(tokens') = Range(tokens) \cup Range(NodeTokens(node))
         /\ Ascending(tokens')
         /\ DOMAIN tokenToNode' = Range(tokens')
         /\ \A t \in Range(tokens') :
              tokenToNode'[t] = IF t \in Range(NodeTokens(node)) THEN node ELSE tokenToNode[t]
<1> DEFINE new == NodeTokens(node)
<1>1. hash \in Hashes /\ order \in Seq(Nodes) /\ tokens \in Seq(Digests) /\ DOMAIN tokenToNode = Range(tokens)
  BY DEF IndInv, TypeOK
<1>2. hash' = hash /\ order' = Append(order, node)
  BY DEF AddNodes
<1>3. new' = new
  BY <1>2 DEF NodeTokens
<1>4. /\ tokens' = Sort(tokens \o new)
      /\ tokenToNode' = [t \in DOMAIN tokenToNode \cup Range(new) |->
                            IF t \in Range(new) THEN node ELSE tokenToNode[t]]
  BY DEF AddNodes, WithNode, ring
<1>5. order' \in Seq(Nodes) /\ Len(order') = Len(order) + 1 /\ Last(order') = node
  BY <1>1, <1>2 DEF Last
<1>6. Range(order') = Range(order) \cup {node}
  <2>1. DOMAIN order = 1 .. Len(order) /\ DOMAIN order' = 1 .. Len(order) + 1 /\ Len(order) \in Nat
    BY <1>1, <1>2
  <2>2. \A i \in 1 .. Len(order) : order'[i] = order[i]
    BY <1>1, <1>2
  <2>3. order'[Len(order) + 1] = node
    BY <1>1, <1>2
  <2> QED
    BY <2>1, <2>2, <2>3 DEF Range
<1>7. /\ tokens \o new \in Seq(Nat) /\ Len(tokens') = Len(tokens) + tokensPerNode
      /\ Range(tokens') = Range(tokens) \cup Range(new) /\ Ascending(tokens')
  BY <1>1, <1>4, Joins
<1> QED
  BY <1>1, <1>2, <1>3, <1>4, <1>5, <1>6, <1>7

\* The nodes of the ring are nodes, and their tokens in it.
LEMMA RingNodes ==
  ASSUME IndInv
  PROVE  /\ Range(order) \subseteq Nodes
         /\ \A n \in Range(order) : Range(NodeTokens(n)) \subseteq Range(tokens)
         /\ tokens = <<>> <=> order = <<>>
         /\ Range(tokens) \subseteq Digests /\ DOMAIN tokenToNode = Range(tokens)
<1>1. /\ hash \in Hashes /\ order \in Seq(Nodes) /\ tokens \in Seq(Digests)
      /\ Len(tokens) = Len(order) * tokensPerNode /\ DOMAIN tokenToNode = Range(tokens)
  BY DEF IndInv, TypeOK
<1>2. Range(order) \subseteq Nodes /\ Range(tokens) \subseteq Digests
  BY <1>1, ElementOfSeq DEF Range
<1>3. \A n \in Range(order) : Range(NodeTokens(n)) \subseteq Range(tokens)
  BY DEF IndInv, Complete, Added
<1>4. tokens = <<>> <=> order = <<>>
  <2>1. tokensPerNode \in Nat /\ tokensPerNode >= 1
    BY ConsistentHashAssumption
  <2>2. ASSUME order = <<>> PROVE tokens = <<>>
    <3>1. Len(tokens) = 0
      BY <1>1, <2>1, <2>2
    <3> QED
      BY <1>1, <3>1
  <2>3. ASSUME order # <<>> PROVE tokens # <<>>
    <3>1. order[1] \in Range(order)
      BY <1>1, <2>3 DEF Range
    <3>2. Range(tokens) # {}
      BY <1>1, <1>2, <1>3, <3>1, NodeTokensTyped
    <3> QED
      BY <3>2 DEF Range
  <2> QED
    BY <2>2, <2>3
<1> QED
  BY <1>1, <1>2, <1>3, <1>4

\* The empty ring.
LEMMA InitInv == Init => IndInv
<1> SUFFICES ASSUME Init PROVE IndInv
  OBVIOUS
<1>1. hash \in Hashes /\ order = <<>> /\ tokens = <<>> /\ tokenToNode = [t \in {} |-> None]
  BY DEF Init, Empty
<1>2. Range(order) = {} /\ Range(tokens) = {} /\ DOMAIN tokenToNode = {}
  BY <1>1 DEF Range
<1>3. TypeOK
  BY <1>1, <1>2, ConsistentHashAssumption DEF TypeOK
<1>4. Ascending(tokens)
  BY <1>1 DEF Ascending
<1>5. Complete /\ Owned /\ BothKept
  BY <1>2 DEF Complete, Added, Owned, BothKept
<1> QED
  BY <1>3, <1>4, <1>5 DEF IndInv

\* AddNodes keeps the invariant.
LEMMA AddNodesInv ==
  ASSUME IndInv, NEW node \in Nodes, AddNodes(node)
  PROVE  IndInv'
<1> DEFINE all == tokens \o NodeTokens(node)
<1>1. /\ hash' = hash /\ order' \in Seq(Nodes) /\ Len(order') = Len(order) + 1
      /\ Range(order') = Range(order) \cup {node}
      /\ tokens' = Sort(all) /\ all \in Seq(Nat)
      /\ Len(tokens') = Len(tokens) + tokensPerNode
      /\ Range(tokens') = Range(tokens) \cup Range(NodeTokens(node))
      /\ Ascending(tokens') /\ DOMAIN tokenToNode' = Range(tokens')
  BY Adds
<1>2. \A t \in Range(tokens') :
        tokenToNode'[t] = IF t \in Range(NodeTokens(node)) THEN node ELSE tokenToNode[t]
  BY Adds
<1>3. /\ hash \in Hashes /\ order \in Seq(Nodes) /\ tokens \in Seq(Digests)
      /\ Len(tokens) = Len(order) * tokensPerNode /\ DOMAIN tokenToNode = Range(tokens)
      /\ \A t \in Range(tokens) : tokenToNode[t] \in Range(order)
  BY DEF IndInv, TypeOK
<1>4. \A n : NodeTokens(n)' = NodeTokens(n)
  BY <1>1 DEF NodeTokens
<1>5. TypeOK'
  <2>1. Len(tokens') = Len(order') * tokensPerNode
    <3>1. PICK n \in Nat, k \in Nat : n = Len(order) /\ k = tokensPerNode
      BY <1>3, ConsistentHashAssumption
    <3>2. n * k + k = (n + 1) * k
      OBVIOUS
    <3> QED
      BY <1>1, <1>3, <3>1, <3>2
  <2>2. \A t \in Range(tokens') : tokenToNode'[t] \in Range(order')
    BY <1>1, <1>2, <1>3
  <2> QED
    BY <1>1, <1>3, <2>1, <2>2 DEF TypeOK, Ascending
<1>6. Complete'
  <2>1. Added' = UNION {Range(NodeTokens(n)) : n \in Range(order')}
    BY <1>4 DEF Added
  <2>2. Added' = Added \cup Range(NodeTokens(node))
    BY <1>1, <2>1 DEF Added
  <2> QED
    BY <1>1, <2>2 DEF IndInv, Complete
<1>7. Owned'
  <2> SUFFICES ASSUME NEW t \in Range(tokens') PROVE t \in Range(NodeTokens(tokenToNode'[t]))
    BY <1>1, <1>4 DEF Owned
  <2>1. CASE t \in Range(NodeTokens(node))
    BY <1>2, <2>1
  <2>2. CASE t \notin Range(NodeTokens(node))
    BY <1>1, <1>2, <1>3, <2>2 DEF IndInv, Owned
  <2> QED
    BY <2>1, <2>2
<1>8. BothKept'
  <2>1. ASSUME NEW a \in 1 .. Len(all), NEW b \in 1 .. Len(all), a # b, all[a] = all[b]
        PROVE  \E i, j \in 1 .. Len(tokens') : i # j /\ tokens'[i] = tokens'[j]
    <3> HIDE DEF all
    <3>1. PICK i, j \in 1 .. Len(all) : i # j /\ Sort(all)[i] = all[a] /\ Sort(all)[j] = all[a]
      BY <1>1, <2>1, SortKeepsDuplicates
    <3>2. Len(tokens') = Len(all)
      BY <1>1, Sorts
    <3> QED
      BY <1>1, <3>1, <3>2
  <2>2. \A n \in Nodes : NodeTokens(n) \in Seq(Digests)
    BY <1>3, NodeTokensTyped
  <2>3. /\ Len(tokens) \in Nat /\ Len(NodeTokens(node)) \in Nat
        /\ Len(all) = Len(tokens) + Len(NodeTokens(node))
        /\ \A i \in 1 .. Len(tokens) : all[i] = tokens[i]
        /\ \A i \in 1 .. Len(NodeTokens(node)) : all[Len(tokens) + i] = NodeTokens(node)[i]
    <3>1. PICK new \in Seq(Digests) : new = NodeTokens(node)
      BY <2>2
    <3> QED
      BY <1>3, <3>1
  <2>4. ASSUME NEW n \in Range(order), NEW m \in Range(order), Collide(n, m)
        PROVE  \E a, b \in 1 .. Len(all) : a # b /\ all[a] = all[b]
    <3>1. PICK a, b \in 1 .. Len(tokens) : a # b /\ tokens[a] = tokens[b]
      BY <2>4 DEF IndInv, BothKept
    <3>2. a \in 1 .. Len(all) /\ b \in 1 .. Len(all)
      BY <2>3
    <3> QED
      BY <2>3, <3>1, <3>2
  <2>5. ASSUME NEW n \in Range(order), Range(NodeTokens(n)) \cap Range(NodeTokens(node)) # {}
        PROVE  \E a, b \in 1 .. Len(all) : a # b /\ all[a] = all[b]
    <3>1. PICK t : t \in Range(NodeTokens(n)) /\ t \in Range(NodeTokens(node))
      BY <2>5
    <3>2. t \in Range(tokens)
      BY <3>1, RingNodes
    <3>3. PICK a \in 1 .. Len(tokens) : tokens[a] = t
      BY <1>3, <3>2 DEF Range
    <3>4. DOMAIN NodeTokens(node) = 1 .. Len(NodeTokens(node))
      BY <2>2
    <3>5. PICK c \in 1 .. Len(NodeTokens(node)) : NodeTokens(node)[c] = t
      BY <3>1, <3>4 DEF Range
    <3>6. PICK b : b = Len(tokens) + c
      OBVIOUS
    <3>7. a \in 1 .. Len(all) /\ b \in 1 .. Len(all) /\ a # b
      BY <2>3, <3>6
    <3> QED
      BY <2>3, <3>3, <3>5, <3>6, <3>7
  <2> SUFFICES ASSUME NEW n \in Range(order'), NEW m \in Range(order'), Collide(n, m)
               PROVE  \E i, j \in 1 .. Len(tokens') : i # j /\ tokens'[i] = tokens'[j]
    BY <1>4 DEF BothKept, Collide
  <2> HIDE DEF all
  <2>6. \E a, b \in 1 .. Len(all) : a # b /\ all[a] = all[b]
    BY <1>1, <2>4, <2>5 DEF Collide
  <2> QED
    BY <2>1, <2>6
<1> QED
  BY <1>1, <1>5, <1>6, <1>7, <1>8 DEF IndInv, Ascending

-----------------------------------------------------------------------------
(* The theorems.                                                           *)

\* The ring has all tokens of its nodes, sorted, however nodes are added.
THEOREM Invariance == Spec => []IndInv
<1>1. Init => IndInv
  BY InitInv
<1>2. IndInv /\ [Next]_vars => IndInv'
  <2> SUFFICES ASSUME IndInv, [Next]_vars PROVE IndInv'
    OBVIOUS
  <2>1. CASE Next
    BY <2>1, AddNodesInv DEF Next
  <2>2. CASE UNCHANGED vars
    <3>1. hash' = hash /\ order' = order /\ tokens' = tokens /\ tokenToNode' = tokenToNode
      BY <2>2 DEF vars
    <3>2. \A n : NodeTokens(n)' = NodeTokens(n)
      BY <3>1 DEF NodeTokens
    <3>3. TypeOK' /\ Ascending(tokens)'
      BY <3>1 DEF IndInv, TypeOK, Ascending
    <3>4. Complete' /\ Owned'
      BY <3>1, <3>2 DEF IndInv, Complete, Added, Owned
    <3>5. BothKept'
      BY <3>1, <3>2 DEF IndInv, BothKept, Collide
    <3> QED
      BY <3>3, <3>4, <3>5 DEF IndInv
  <2> QED
    BY <2>1, <2>2
<1> QED
  BY <1>1, <1>2, PTL DEF Spec

\* The model keeps its types, and every token has a node of the ring.
THEOREM TypeCorrect == Spec => []TypeOK
<1>1. IndInv => TypeOK
  BY DEF IndInv
<1> QED
  BY <1>1, Invariance, PTL

\* Hash answers with the node of the token that comes next.
LEMMA HashIs ==
  ASSUME IndInv, order # <<>>, NEW h \in Digests
  PROVE  \E t \in Range(tokens) :
           /\ Hash(ring, h) = tokenToNode[t] /\ tokenToNode[t] \in Range(order)
           /\ t \in Range(NodeTokens(tokenToNode[t]))
           /\ \A u \in Range(tokens) : Way(h, t) <= Way(h, u)
<1>1. tokens # <<>> /\ Ascending(tokens) /\ DOMAIN tokenToNode = Range(tokens)
  BY RingNodes DEF IndInv
<1>2. PICK t : t = tokens[At(tokens, h)]
  OBVIOUS
<1>3. t \in Range(tokens) /\ \A u \in Range(tokens) : Way(h, t) <= Way(h, u)
  BY <1>1, <1>2, Nearest
<1>4. Hash(ring, h) = tokenToNode[t]
  BY <1>1, <1>2 DEF Hash, ring, At
<1>5. tokenToNode[t] \in Range(order) /\ t \in Range(NodeTokens(tokenToNode[t]))
  BY <1>1, <1>3 DEF IndInv, TypeOK, Owned
<1> QED
  BY <1>3, <1>4, <1>5

\* The distance of a node is the way to one of its tokens, and no other is nearer.
LEMMA Distances ==
  ASSUME IndInv, NEW h \in Digests, NEW n \in Range(order)
  PROVE  /\ Distance(h, n) \in Nat
         /\ \E t \in Range(NodeTokens(n)) : Distance(h, n) = Way(h, t)
         /\ \A t \in Range(NodeTokens(n)) : Distance(h, n) <= Way(h, t)
<1> DEFINE W == {Way(h, t) : t \in Range(NodeTokens(n))}
<1>1. Range(NodeTokens(n)) \subseteq Digests /\ Range(NodeTokens(n)) # {}
  BY RingNodes, NodeTokensTyped DEF IndInv, TypeOK
<1>2. W \subseteq Nat /\ W # {}
  BY <1>1, WaysDiffer
<1>3. Distance(h, n) = Min(W)
  BY DEF Distance, Way
<1>4. Min(W) \in W /\ \A w \in W : Min(W) <= w
  <2> HIDE DEF W
  <2> QED  BY <1>2, Least
<1> QED
  BY <1>2, <1>3, <1>4

\* A key goes to the node whose token comes next on the ring, also where the ring
\* closes: for every hash function, with collisions, and every number of tokens.
THEOREM NextOnRing == Spec => []NextNodeOnRing
<1>1. IndInv => NextNodeOnRing
  <2> SUFFICES ASSUME IndInv, order # <<>>, NEW h \in Digests, NEW n \in Range(order)
               PROVE  Distance(h, Hash(ring, h)) <= Distance(h, n)
    BY DEF NextNodeOnRing
  <2>1. PICK t \in Range(tokens) :
          /\ Hash(ring, h) = tokenToNode[t] /\ tokenToNode[t] \in Range(order)
          /\ t \in Range(NodeTokens(tokenToNode[t]))
          /\ \A u \in Range(tokens) : Way(h, t) <= Way(h, u)
    BY HashIs
  <2>2. PICK m \in Range(order) : m = Hash(ring, h) /\ t \in Range(NodeTokens(m))
    BY <2>1
  <2>3. Distance(h, m) <= Way(h, t) /\ Distance(h, m) \in Nat
    BY <2>2, Distances
  <2>4. PICK u \in Range(NodeTokens(n)) : Distance(h, n) = Way(h, u)
    BY Distances
  <2>5. u \in Range(tokens) /\ Range(tokens) \subseteq Digests
    BY RingNodes
  <2>6. Way(h, t) <= Way(h, u) /\ Way(h, t) \in Nat /\ Way(h, u) \in Nat
    BY <2>1, <2>5, WaysDiffer
  <2> QED
    BY <2>2, <2>3, <2>4, <2>6
<1> QED
  BY <1>1, Invariance, PTL

\* A node that joins takes over keys but moves none between the others: for every
\* hash function, with collisions, and every number of nodes and tokens.
THEOREM OnlyNewGains == Spec => OnlyNewNodeGains
<1>1. IndInv /\ [Next]_vars =>
        [order # <<>> => \A h \in Digests : Hash(ring, h)' \in {Hash(ring, h), Last(order')}]_vars
  <2> SUFFICES ASSUME IndInv, Next, order # <<>>, NEW h \in Digests
               PROVE  Hash(ring, h)' \in {Hash(ring, h), Last(order')}
    OBVIOUS
  <2>1. PICK node \in Nodes : AddNodes(node)
    BY DEF Next
  <2>2. /\ Range(tokens') = Range(tokens) \cup Range(NodeTokens(node)) /\ Last(order') = node
        /\ Len(order') = Len(order) + 1 /\ order' \in Seq(Nodes)
    BY <2>1, Adds
  <2>3. \A t \in Range(tokens') :
          tokenToNode'[t] = IF t \in Range(NodeTokens(node)) THEN node ELSE tokenToNode[t]
    BY <2>1, Adds
  <2>4. IndInv' /\ Range(tokens) \subseteq Digests
    BY <2>1, AddNodesInv, RingNodes
  <2>5. Ascending(tokens') /\ tokens' # <<>>
    <3>1. tokens # <<>> /\ tokens \in Seq(Digests)
      BY RingNodes DEF IndInv, TypeOK
    <3>2. tokens[1] \in Range(tokens)
      BY <3>1 DEF Range
    <3>3. Range(tokens') # {}
      BY <2>2, <3>2
    <3>4. tokens' # <<>>
      BY <3>3 DEF Range
    <3> QED
      BY <2>1, <3>4, Adds
  <2>6. PICK t : t = tokens'[At(tokens', h)]
    OBVIOUS
  <2>7. t \in Range(tokens') /\ \A u \in Range(tokens') : Way(h, t) <= Way(h, u)
    BY <2>5, <2>6, Nearest
  <2>8. Hash(ring, h)' = tokenToNode'[t]
    BY <2>5, <2>6 DEF Hash, ring, At, BinarySearch
  <2>9. CASE t \in Range(NodeTokens(node))
    BY <2>2, <2>3, <2>7, <2>8, <2>9
  <2>10. CASE t \notin Range(NodeTokens(node))
    <3>1. PICK u \in Range(tokens) :
            Hash(ring, h) = tokenToNode[u] /\ \A v \in Range(tokens) : Way(h, u) <= Way(h, v)
      BY HashIs
    <3>2. t \in Range(tokens) /\ u \in Range(tokens')
      BY <2>2, <2>7, <2>10
    <3>3. Way(h, t) <= Way(h, u) /\ Way(h, u) <= Way(h, t)
      BY <2>7, <3>1, <3>2
    <3>4. t \in Digests /\ u \in Digests
      BY <2>4, <3>2
    <3>5. t = u
      BY <3>3, <3>4, WaysDiffer
    <3> QED
      BY <2>3, <2>7, <2>8, <2>10, <3>1, <3>5
  <2> QED
    BY <2>9, <2>10
<1> QED
  BY <1>1, Invariance, PTL DEF Spec, OnlyNewNodeGains

\* Without collisions, nodes have different distances from each key, and the key
\* goes to the one with the smallest: what Sharding assumes of Position, and what
\* its Hash does.  The ring's answers do not depend on the order of its nodes.
HashIsNearest ==
  order # <<>> /\ NoCollision =>
    \A h \in Digests :
      /\ \A n, m \in Range(order) : Distance(h, n) = Distance(h, m) => n = m
      /\ Hash(ring, h) = CHOOSE n \in Range(order) :
                            \A m \in Range(order) : Distance(h, n) <= Distance(h, m)

\* Tokens without collision are at different positions for different nodes.
LEMMA NoneCollide ==
  ASSUME IndInv, NoCollision
  PROVE  \A n, m \in Range(order) : ~Collide(n, m)
<1> DEFINE D == 1 .. Len(tokens)
<1>1. tokens \in Seq(Digests) /\ Len(tokens) \in Nat /\ DOMAIN tokens = D
  BY DEF IndInv, TypeOK
<1>2. IsFiniteSet(D) /\ Cardinality(D) = IF 1 > Len(tokens) THEN 0 ELSE Len(tokens) - 1 + 1
  BY <1>1, FS_Interval
<1>3. Cardinality(D) = Len(tokens)
  BY <1>1, <1>2
<1>4. tokens \in Surjection(D, Range(tokens))
  BY <1>1 DEF Surjection, Range
<1>5. tokens \in Injection(D, Range(tokens))
  <2> HIDE DEF D
  <2> QED  BY <1>2, <1>3, <1>4, FS_SurjSameCardinalityImpliesInj DEF NoCollision
<1>6. \A i, j \in D : tokens[i] = tokens[j] => i = j
  BY <1>1, <1>5 DEF Injection, IsInjective
<1> QED
  BY <1>6 DEF IndInv, BothKept

\* The link to Sharding: what it takes for Position are the distances here.
THEOREM HashNearest == Spec => []HashIsNearest
<1>1. IndInv /\ NextNodeOnRing => HashIsNearest
  <2> SUFFICES ASSUME IndInv, NextNodeOnRing, order # <<>>, NoCollision, NEW h \in Digests
               PROVE  /\ \A n, m \in Range(order) : Distance(h, n) = Distance(h, m) => n = m
                      /\ Hash(ring, h) = CHOOSE n \in Range(order) :
                                            \A m \in Range(order) : Distance(h, n) <= Distance(h, m)
    BY DEF HashIsNearest
  <2>1. ASSUME NEW n \in Range(order), NEW m \in Range(order), Distance(h, n) = Distance(h, m)
        PROVE  n = m
    <3>1. PICK t \in Range(NodeTokens(n)) : Distance(h, n) = Way(h, t)
      BY Distances
    <3>2. PICK u \in Range(NodeTokens(m)) : Distance(h, m) = Way(h, u)
      BY Distances
    <3>3. t \in Digests /\ u \in Digests
      BY RingNodes
    <3>4. t = u
      BY <2>1, <3>1, <3>2, <3>3, WaysDiffer
    <3> QED
      BY <3>1, <3>2, <3>4, NoneCollide DEF Collide
  <2>2. PICK n : n = Hash(ring, h)
    OBVIOUS
  <2>3. n \in Range(order) /\ \A m \in Range(order) : Distance(h, n) <= Distance(h, m)
    BY <2>2, HashIs DEF NextNodeOnRing
  <2>4. ASSUME NEW k \in Range(order), \A m \in Range(order) : Distance(h, k) <= Distance(h, m)
        PROVE  k = n
    <3>1. Distance(h, k) \in Nat /\ Distance(h, n) \in Nat
      BY <2>3, Distances
    <3>2. Distance(h, k) <= Distance(h, n) /\ Distance(h, n) <= Distance(h, k)
      BY <2>3, <2>4
    <3>3. Distance(h, k) = Distance(h, n)
      BY <3>1, <3>2
    <3> QED
      BY <2>1, <2>3, <3>3
  <2>5. n = CHOOSE k \in Range(order) : \A m \in Range(order) : Distance(h, k) <= Distance(h, m)
    BY <2>3, <2>4
  <2> QED
    BY <2>1, <2>2, <2>5
<1> QED
  BY <1>1, Invariance, NextOnRing, PTL

-----------------------------------------------------------------------------
(* Rings of the same nodes.                                                *)

\* the rings New goes through for the first n nodes of p
IsRings(r, p, n) == r = [i \in 0 .. n |-> IF i = 0 THEN Empty ELSE WithNode(r[i - 1], p[i])]

\* New goes through one ring after the other.
LEMMA RingsExist ==
  ASSUME NEW p, NEW n \in Nat
  PROVE  \E r : IsRings(r, p, n)
<1> DEFINE B == {m \in Nat : ~\E r : IsRings(r, p, m)}
<1> SUFFICES ASSUME B # {} PROVE FALSE
  OBVIOUS
<1>1. PICK m : m = Min(B)
  OBVIOUS
<1>2. m \in B /\ \A k \in B : m <= k
  <2>1. B \subseteq Nat
    OBVIOUS
  <2> HIDE DEF B
  <2> QED  BY <1>1, <2>1, Least
<1>3. m \in Nat /\ ~\E r : IsRings(r, p, m)
  BY <1>2
<1>4. CASE m = 0
  <2>1. PICK r : r = [i \in 0 .. 0 |-> Empty]
    OBVIOUS
  <2>2. \A i \in 0 .. 0 : i = 0
    OBVIOUS
  <2>3. IsRings(r, p, 0)
    BY <2>1, <2>2 DEF IsRings
  <2> QED
    BY <1>3, <1>4, <2>3
<1>5. CASE m > 0
  <2>1. PICK k \in Nat : m = k + 1
    BY <1>3, <1>5
  <2>2. k \notin B
    BY <1>2, <2>1
  <2>3. PICK r : IsRings(r, p, k)
    BY <2>2
  <2>4. PICK q : q = [i \in 0 .. m |-> IF i = m THEN WithNode(r[k], p[m]) ELSE r[i]]
    OBVIOUS
  <2>5. \A i \in 0 .. k : i \in 0 .. m /\ i # m
    BY <2>1
  <2>6. \A i \in 0 .. k : q[i] = r[i]
    BY <2>4, <2>5
  <2>7. \A i \in 0 .. m : q[i] = IF i = 0 THEN Empty ELSE WithNode(q[i - 1], p[i])
    <3> SUFFICES ASSUME NEW i \in 0 .. m
                 PROVE  q[i] = IF i = 0 THEN Empty ELSE WithNode(q[i - 1], p[i])
      OBVIOUS
    <3>1. CASE i = m
      <4>1. k \in 0 .. k /\ i - 1 = k /\ i # 0 /\ m \in 0 .. m
        BY <2>1, <3>1
      <4>2. q[m] = WithNode(r[k], p[m]) /\ r[k] = q[k]
        BY <2>4, <2>6, <4>1
      <4> QED
        BY <3>1, <4>1, <4>2
    <3>2. CASE i # m
      <4>1. i \in 0 .. k /\ (i # 0 => i - 1 \in 0 .. k)
        BY <2>1, <3>2
      <4>2. r[i] = IF i = 0 THEN Empty ELSE WithNode(r[i - 1], p[i])
        BY <2>3, <4>1 DEF IsRings
      <4> QED
        BY <2>6, <4>1, <4>2
    <3> QED
      BY <3>1, <3>2
  <2>8. q = [i \in 0 .. m |-> q[i]]
    BY <2>4
  <2>9. IsRings(q, p, m)
    BY <2>7, <2>8 DEF IsRings
  <2> QED
    BY <1>3, <2>9
<1> QED
  BY <1>3, <1>4, <1>5

\* New returns the last of them.
LEMMA NewIs ==
  ASSUME NEW p, Len(p) \in Nat
  PROVE  \E r : IsRings(r, p, Len(p)) /\ New(p) = r[Len(p)]
<1>1. \E r : IsRings(r, p, Len(p))
  BY RingsExist
<1>2. PICK r : r = CHOOSE s : s = [i \in 0 .. Len(p) |-> IF i = 0 THEN Empty ELSE WithNode(s[i - 1], p[i])]
  OBVIOUS
<1>3. IsRings(r, p, Len(p))
  BY <1>1, <1>2 DEF IsRings
<1>4. New(p) = r[Len(p)]
  BY <1>2, Zenon DEF New
<1> QED
  BY <1>3, <1>4

\* ring r has the tokens of the nodes in S, sorted, each with a node that has it
RingOf(r, S) ==
  /\ Ascending(r.tokens)
  /\ Range(r.tokens) = UNION {Range(NodeTokens(n)) : n \in S}
  /\ DOMAIN r.tokenToNode = Range(r.tokens)
  /\ \A t \in Range(r.tokens) : r.tokenToNode[t] \in S /\ t \in Range(NodeTokens(r.tokenToNode[t]))

\* The empty ring is the ring of no nodes.
LEMMA EmptyRing == RingOf(Empty, {})
<1>1. Empty.tokens = <<>> /\ Empty.tokenToNode = [t \in {} |-> None]
  BY DEF Empty
<1>2. Range(<<>>) = {} /\ DOMAIN Empty.tokenToNode = {}
  BY <1>1 DEF Range
<1>3. Ascending(<<>>)
  BY DEF Ascending
<1> QED
  BY <1>1, <1>2, <1>3 DEF RingOf

\* AddNodes adds one node to a ring.
LEMMA WithNodeRing ==
  ASSUME hash \in Hashes, NEW r, NEW S, RingOf(r, S), NEW node \in Nodes
  PROVE  RingOf(WithNode(r, node), S \cup {node})
<1>1. PICK new : new = Range(NodeTokens(node))
  OBVIOUS
<1>2. PICK q : q = WithNode(r, node)
  OBVIOUS
<1>3. /\ q.tokens = Sort(r.tokens \o NodeTokens(node))
      /\ q.tokenToNode = [t \in DOMAIN r.tokenToNode \cup new |->
                            IF t \in new THEN node ELSE r.tokenToNode[t]]
  BY <1>1, <1>2 DEF WithNode
<1>4. r.tokens \in Seq(Digests) /\ DOMAIN r.tokenToNode = Range(r.tokens)
  BY DEF RingOf, Ascending
<1>5. Range(q.tokens) = Range(r.tokens) \cup new /\ Ascending(q.tokens)
  BY <1>1, <1>3, <1>4, Joins
<1>6. Range(q.tokens) = UNION {Range(NodeTokens(n)) : n \in S \cup {node}}
  BY <1>1, <1>5 DEF RingOf
<1>7. DOMAIN q.tokenToNode = Range(q.tokens)
  BY <1>3, <1>4, <1>5
<1>8. ASSUME NEW t \in Range(q.tokens)
      PROVE  q.tokenToNode[t] \in S \cup {node} /\ t \in Range(NodeTokens(q.tokenToNode[t]))
  <2>1. q.tokenToNode[t] = IF t \in new THEN node ELSE r.tokenToNode[t]
    BY <1>3, <1>4, <1>5
  <2>2. CASE t \in new
    BY <1>1, <2>1, <2>2
  <2>3. CASE t \notin new
    BY <1>5, <2>1, <2>3 DEF RingOf
  <2> QED
    BY <2>2, <2>3
<1> QED
  BY <1>2, <1>5, <1>6, <1>7, <1>8 DEF RingOf

\* New returns a ring of the nodes it is given, by induction over them.
LEMMA NewRing ==
  ASSUME hash \in Hashes, NEW p \in Seq(Nodes)
  PROVE  RingOf(New(p), Range(p))
<1>1. Len(p) \in Nat /\ DOMAIN p = 1 .. Len(p) /\ \A i \in 1 .. Len(p) : p[i] \in Nodes
  BY ElementOfSeq
<1>2. PICK r : IsRings(r, p, Len(p)) /\ New(p) = r[Len(p)]
  BY <1>1, NewIs
<1> DEFINE First(i) == {p[j] : j \in 1 .. i}
           B == {i \in 0 .. Len(p) : ~RingOf(r[i], First(i))}
<1>3. /\ First(0) = {} /\ First(Len(p)) = Range(p)
      /\ \A k \in Nat : First(k + 1) = First(k) \cup {p[k + 1]}
  <2>1. First(0) = {}
    OBVIOUS
  <2>2. First(Len(p)) = Range(p)
    BY <1>1 DEF Range
  <2>3. ASSUME NEW k \in Nat PROVE First(k + 1) = First(k) \cup {p[k + 1]}
    <3>1. \A j : j \in 1 .. k + 1 <=> j \in 1 .. k \/ j = k + 1
      OBVIOUS
    <3> QED
      BY <3>1
  <2> QED
    BY <2>1, <2>2, <2>3
<1> HIDE DEF First
<1>4. ASSUME B # {} PROVE FALSE
  <2>1. PICK m : m = Min(B)
    OBVIOUS
  <2>2. m \in B /\ \A k \in B : m <= k
    <3>1. B \subseteq Nat
      BY <1>1
    <3> HIDE DEF B
    <3> QED  BY <1>4, <2>1, <3>1, Least
  <2>3. m \in 0 .. Len(p) /\ ~RingOf(r[m], First(m))
    BY <2>2
  <2>4. r[m] = IF m = 0 THEN Empty ELSE WithNode(r[m - 1], p[m])
    BY <1>2, <2>3 DEF IsRings
  <2>5. CASE m = 0
    BY <1>3, <2>3, <2>4, <2>5, EmptyRing
  <2>6. CASE m # 0
    <3>1. PICK k \in Nat : m = k + 1
      BY <1>1, <2>3, <2>6
    <3>2. k \in 0 .. Len(p) /\ m \in 1 .. Len(p) /\ ~(m <= k) /\ m - 1 = k
      BY <1>1, <2>3, <3>1
    <3>3. RingOf(r[k], First(k))
      BY <2>2, <3>2
    <3>4. r[m] = WithNode(r[k], p[m])
      BY <2>4, <2>6, <3>2
    <3>5. First(m) = First(k) \cup {p[m]}
      BY <1>3, <3>1
    <3>6. p[m] \in Nodes
      BY <1>1, <3>2
    <3> QED
      BY <2>3, <3>3, <3>4, <3>5, <3>6, WithNodeRing
  <2> QED
    BY <2>5, <2>6
<1>5. Len(p) \in 0 .. Len(p)
  BY <1>1
<1>6. RingOf(r[Len(p)], First(Len(p)))
  BY <1>4, <1>5
<1> QED
  BY <1>2, <1>3, <1>6

\* A permutation of the nodes of the ring is a sequence of all of them.
LEMMA PermutationIs ==
  ASSUME IndInv, NEW p \in SetToSeqs(Range(order))
  PROVE  p \in Seq(Nodes) /\ Range(p) = Range(order)
<1>1. PICK S : S = Range(order)
  OBVIOUS
<1>2. order \in Seq(Nodes) /\ DOMAIN order = 1 .. Len(order) /\ Len(order) \in Nat
  BY DEF IndInv, TypeOK
<1>3. IsFiniteSet(S)
  <2>1. order \in Surjection(1 .. Len(order), S)
    BY <1>1, <1>2 DEF Surjection, Range
  <2>2. IsFiniteSet(1 .. Len(order))
    BY <1>2, FS_Interval
  <2> QED
    BY <2>1, <2>2, FS_Surjection
<1>4. PICK n \in Nat : n = Cardinality(S)
  BY <1>3, FS_CardinalityType
<1> DEFINE D == 1 .. n
<1>5. p \in [D -> S] /\ \A i, j \in D : i # j => p[i] # p[j]
  BY <1>1, <1>4 DEF SetToSeqs
<1>6. p \in Injection(D, S)
  BY <1>5 DEF Injection, IsInjective
<1>7. IsFiniteSet(D) /\ Cardinality(D) = n
  <2>1. IsFiniteSet(D) /\ Cardinality(D) = IF 1 > n THEN 0 ELSE n - 1 + 1
    BY FS_Interval
  <2> QED
    BY <2>1
<1>8. p \in Surjection(D, S)
  <2> HIDE DEF D
  <2> QED  BY <1>3, <1>4, <1>6, <1>7, FS_Injection
<1>9. Range(p) = S
  BY <1>5, <1>8 DEF Surjection, Range
<1>10. S \subseteq Nodes
  BY <1>1, RingNodes
<1>11. p \in Seq(Nodes)
  BY <1>5, <1>10
<1> QED
  BY <1>1, <1>9, <1>11

\* Rings of the same nodes give the same answers when no two of these nodes have a token
\* in common: both find the nearest token of all, and only one node has it.
LEMMA RingsAgree ==
  ASSUME NEW r, NEW q, NEW S, RingOf(r, S), RingOf(q, S), NEW h \in Digests,
         \A n, m \in S : ~Collide(n, m)
  PROVE  Hash(r, h) = Hash(q, h)
<1>1. /\ Ascending(r.tokens) /\ Ascending(q.tokens) /\ Range(r.tokens) = Range(q.tokens)
      /\ r.tokens \in Seq(Digests) /\ q.tokens \in Seq(Digests)
  BY DEF RingOf, Ascending
<1>2. r.tokens = <<>> <=> q.tokens = <<>>
  <2>1. \A s \in Seq(Digests) : s = <<>> <=> Range(s) = {}
    <3> SUFFICES ASSUME NEW s \in Seq(Digests) PROVE s = <<>> <=> Range(s) = {}
      OBVIOUS
    <3>1. s # <<>> => 1 \in DOMAIN s
      OBVIOUS
    <3>2. DOMAIN <<>> = {}
      OBVIOUS
    <3> QED
      BY <3>1, <3>2 DEF Range
  <2> QED
    BY <1>1, <2>1
<1>3. CASE r.tokens = <<>>
  BY <1>2, <1>3 DEF Hash
<1>4. CASE r.tokens # <<>>
  <2>1. PICK t, u : t = r.tokens[At(r.tokens, h)] /\ u = q.tokens[At(q.tokens, h)]
    OBVIOUS
  <2>2. t \in Range(r.tokens) /\ \A v \in Range(r.tokens) : Way(h, t) <= Way(h, v)
    BY <1>1, <1>4, <2>1, Nearest
  <2>3. u \in Range(q.tokens) /\ \A v \in Range(q.tokens) : Way(h, u) <= Way(h, v)
    BY <1>1, <1>2, <1>4, <2>1, Nearest
  <2>4. t \in Digests /\ u \in Digests
    BY <1>1, <2>2, <2>3, ElementOfSeq DEF Range
  <2>5. Way(h, t) = Way(h, u)
    <3>1. Way(h, t) \in Nat /\ Way(h, u) \in Nat
      BY <2>4, WaysDiffer
    <3> QED
      BY <1>1, <2>2, <2>3, <3>1
  <2>6. t = u
    BY <2>4, <2>5, WaysDiffer
  <2>7. Hash(r, h) = r.tokenToNode[t] /\ Hash(q, h) = q.tokenToNode[t]
    BY <1>2, <1>4, <2>1, <2>6 DEF Hash, At
  <2>8. PICK n \in S, m \in S : n = r.tokenToNode[t] /\ m = q.tokenToNode[t]
    BY <2>2, <2>3, <2>6 DEF RingOf
  <2>9. t \in Range(NodeTokens(n)) /\ t \in Range(NodeTokens(m))
    BY <2>2, <2>3, <2>6, <2>8 DEF RingOf
  <2>10. n = m
    BY <2>9 DEF Collide
  <2> QED
    BY <2>7, <2>8, <2>10
<1> QED
  BY <1>3, <1>4

\* Two rings of the same nodes agree, whatever order the lease caches of webhook and
\* resync list the leases in, as long as no two tokens collide: for every hash
\* function and every number of nodes and tokens.
THEOREM OrderIsIrrelevant == Spec => []OrderIrrelevant
<1>1. IndInv => OrderIrrelevant
  <2> SUFFICES ASSUME IndInv, NoCollision, NEW p \in SetToSeqs(Range(order)), NEW h \in Digests
               PROVE  Hash(New(p), h) = Hash(ring, h)
    BY DEF OrderIrrelevant
  <2>1. hash \in Hashes /\ p \in Seq(Nodes) /\ Range(p) = Range(order)
    BY PermutationIs DEF IndInv, TypeOK
  <2>2. RingOf(New(p), Range(order))
    BY <2>1, NewRing
  <2>3. ring.tokens = tokens /\ ring.tokenToNode = tokenToNode
    BY DEF ring
  <2>4. RingOf(ring, Range(order))
    BY <2>3 DEF RingOf, IndInv, TypeOK, Complete, Added, Owned
  <2> QED
    BY <2>2, <2>4, NoneCollide, RingsAgree
<1> QED
  BY <1>1, Invariance, PTL
=============================================================================
