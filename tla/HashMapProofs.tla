---------------------------- MODULE HashMapProofs ----------------------------
EXTENDS HashMap, FiniteSetTheorems, SequenceTheorems, WellFoundedInduction, TLAPS

(***************************************************************************)
(* The hash table of src/system/HashMapImp.hpp in use: the three lists     *)
(* that thread the node pool never lose or share a node (Partitioned),     *)
(* its own audit verify_pool_data never has anything to report (Accepted), *)
(* no value is stored twice, leaked or shared (EachItsValue), and every    *)
(* call does what the table of HashTable.tla says (TableRefined).          *)
(*                                                                         *)
(* The invariant, TableInv, names what the handles only imply: there are   *)
(* sequences F, B[b] and A, the free list, the list of each bucket and the *)
(* add list, such that every node is in F or in one B[b], every used node  *)
(* is in A, each list runs along its next handles and back along its prev  *)
(* handles, a node is in the bucket of its key, and the two counters are   *)
(* those of the lists (Good); and each node of A that is not empty has a   *)
(* stored value of its own (Owned).  Every list function of the code gets  *)
(* a lemma that gives the sequences after it.                              *)
(*                                                                         *)
(* The abstract table sees only which nodes lie behind a node, in its      *)
(* bucket (under) and in the add list (older): Later(s, n) for a list s.   *)
(* So the lemmas also say what each function does to Later (ToHead, ToEnd, *)
(* Dropped, Filed, Unfiled), and that a walk from a node's successor       *)
(* visits just these (BehindIs).  That a value fits is said by the chunks  *)
(* that all values take, which are as many counted by the handles of the   *)
(* values as by the nodes that own them (SameUsed).                        *)
(*                                                                         *)
(* That a walk along the handles visits exactly the sequence is shown      *)
(* without induction: of the steps at which the two differ there would be  *)
(* a least one (LeastNat), and there they agree.                           *)
(***************************************************************************)

LEMMA NodeFacts ==
  /\ INVALID = -1 /\ INVALID \notin Node /\ Node \subseteq Nat
  /\ NodeTotal \in Nat /\ BucketSize \in Nat \ {0}
BY TableAssumption DEF Node, INVALID

LEMMA LeastNat ==
  ASSUME NEW S, S \subseteq Nat, S # {}
  PROVE  \E m \in S : \A k \in S : m <= k
<1>1. PICK m \in S : \A k \in S : <<k, m>> \notin OpToRel(<, Nat)
  BY WFMin, NatLessThanWellFounded, Zenon
<1>2. \A k \in S : ~(k < m)
  BY <1>1, Zenon DEF OpToRel
<1>3. m \in S /\ \A k \in S : m <= k
  BY <1>2
<1> QED
  BY <1>3

-----------------------------------------------------------------------------
(***************************************************************************)
(* Lists of nodes.  s is the list at h when it has the nodes in the order  *)
(* of next.                                                                *)
(***************************************************************************)
At(s, i) == IF i \in 1 .. Len(s) THEN s[i] ELSE INVALID

IsList(next, h, s) ==
  /\ s \in Seq(Node) /\ IsInjective(s)
  /\ h = At(s, 1)
  /\ \A i \in 1 .. Len(s) : next[s[i]] = At(s, i + 1)

LEMMA SeqNode ==
  ASSUME NEW s \in Seq(Node)
  PROVE  /\ Len(s) \in Nat /\ DOMAIN s = 1 .. Len(s)
         /\ \A i \in 1 .. Len(s) : s[i] \in Node /\ s[i] # INVALID
         /\ \A i : At(s, i) \in Node \cup {INVALID} /\ (At(s, i) # INVALID <=> i \in 1 .. Len(s))
BY NodeFacts, LenProperties, ElementOfSeq DEF At

LEMMA NoList ==
  ASSUME NEW next
  PROVE  IsList(next, INVALID, <<>>)
<1>1. <<>> \in Seq(Node) /\ Len(<<>>) = 0
  BY EmptySeq
<1>2. IsInjective(<<>>)
  BY DEF IsInjective
<1>3. At(<<>>, 1) = INVALID
  BY <1>1 DEF At
<1>4. \A i \in 1 .. Len(<<>>) : next[<<>>[i]] = At(<<>>, i + 1)
  BY <1>1
<1> QED
  BY <1>1, <1>2, <1>3, <1>4 DEF IsList

(* Two lists at one node agree as far as the first goes.                   *)
LEMMA SameStart ==
  ASSUME NEW next, NEW h, NEW s, NEW u, IsList(next, h, s), IsList(next, h, u)
  PROVE  \A i \in 1 .. Len(s) : At(u, i) = s[i]
<1>1. s \in Seq(Node) /\ u \in Seq(Node) /\ h = At(s, 1) /\ h = At(u, 1)
  BY DEF IsList
<1>2. /\ \A i \in 1 .. Len(s) : next[s[i]] = At(s, i + 1)
      /\ \A i \in 1 .. Len(u) : next[u[i]] = At(u, i + 1)
  BY DEF IsList
<1> DEFINE m == Len(s)
           bad == {i \in 1 .. m : At(u, i) # s[i]}
<1>3. m \in Nat /\ \A i \in 1 .. m : s[i] # INVALID /\ At(s, i) = s[i]
  BY <1>1, SeqNode DEF At
<1> SUFFICES ASSUME bad # {} PROVE FALSE
  OBVIOUS
<1>4. PICK k \in bad : \A i \in bad : k <= i
  <2>1. bad \subseteq Nat
    BY <1>3
  <2> QED
    BY <2>1, LeastNat
<1> HIDE DEF m
<1>5. k \in 1 .. m /\ At(u, k) # s[k]
  OBVIOUS
<1>6. k # 1
  BY <1>1, <1>3, <1>5
<1>7. k - 1 \in 1 .. m /\ k - 1 \notin bad /\ (k - 1) + 1 = k
  BY <1>3, <1>4, <1>5, <1>6
<1>8. At(u, k - 1) = s[k - 1] /\ s[k - 1] # INVALID
  BY <1>3, <1>7
<1>9. k - 1 \in 1 .. Len(u) /\ u[k - 1] = s[k - 1]
  BY <1>8 DEF At
<1>10. At(s, k) = At(u, k)
  BY <1>2, <1>7, <1>9 DEF m
<1> QED
  BY <1>3, <1>5, <1>10

(* So there is one list at most.                                           *)
LEMMA OneList ==
  ASSUME NEW next, NEW h, NEW s, NEW u, IsList(next, h, s), IsList(next, h, u)
  PROVE  s = u
<1>1. s \in Seq(Node) /\ u \in Seq(Node)
  BY DEF IsList
<1>2. Len(s) \in Nat /\ Len(u) \in Nat
  BY <1>1, SeqNode
<1>3. /\ \A i \in 1 .. Len(s) : i \in 1 .. Len(u) /\ u[i] = s[i]
      /\ \A i \in 1 .. Len(u) : i \in 1 .. Len(s)
  <2>1. \A i \in 1 .. Len(s) : At(u, i) = s[i] /\ s[i] # INVALID
    BY <1>1, SameStart, SeqNode
  <2>2. \A i \in 1 .. Len(u) : At(s, i) = u[i] /\ u[i] # INVALID
    BY <1>1, SameStart, SeqNode
  <2> QED
    BY <2>1, <2>2 DEF At
<1>4. Len(s) = Len(u)
  <2> DEFINE m == Len(s)
             n == Len(u)
  <2>1. m \in Nat /\ n \in Nat /\ (\A i \in 1 .. m : i \in 1 .. n) /\ (\A i \in 1 .. n : i \in 1 .. m)
    BY <1>2, <1>3
  <2> HIDE DEF m, n
  <2>2. m <= n
    BY <2>1
  <2>3. n <= m
    BY <2>1
  <2>4. m = n
    BY <2>1, <2>2, <2>3
  <2> QED
    BY <2>4 DEF m, n
<1> QED
  BY <1>1, <1>3, <1>4, SeqEqual

(* A list has no more nodes than there are.                                *)
LEMMA ListLen ==
  ASSUME NEW s \in Seq(Node), IsInjective(s)
  PROVE  Len(s) \in Nat /\ Len(s) <= NodeTotal
<1> DEFINE m == Len(s)
<1>1. m \in Nat /\ s \in [1 .. m -> Node]
  BY LenProperties
<1>2. s \in Injection(1 .. m, Node)
  BY <1>1 DEF Injection
<1>3. IsFiniteSet(Node) /\ Cardinality(Node) = NodeTotal
  <2>1. 0 \in Int /\ NodeTotal - 1 \in Int
    BY NodeFacts
  <2>2. /\ IsFiniteSet(0 .. NodeTotal - 1)
        /\ Cardinality(0 .. NodeTotal - 1) = IF 0 > NodeTotal - 1 THEN 0 ELSE NodeTotal - 1 - 0 + 1
    BY <2>1, FS_Interval
  <2>3. (IF 0 > NodeTotal - 1 THEN 0 ELSE NodeTotal - 1 - 0 + 1) = NodeTotal
    BY NodeFacts
  <2> QED
    BY <2>2, <2>3 DEF Node
<1>4. Cardinality(1 .. m) <= Cardinality(Node)
  BY <1>2, <1>3, FS_Injection
<1>5. Cardinality(1 .. m) = m
  <2>1. Cardinality(1 .. m) = IF 1 > m THEN 0 ELSE m - 1 + 1
    BY <1>1, FS_Interval, SMTT(40)
  <2> HIDE DEF m
  <2> QED
    BY <1>1, <2>1
<1> QED
  BY <1>1, <1>3, <1>4, <1>5

(* The list at a node is the node, then the list at its successor.         *)
LEMMA ListRest ==
  ASSUME NEW next, NEW n \in Node, NEW s, IsList(next, n, s)
  PROVE  /\ IsList(next, next[n], Tail(s)) /\ s # <<>> /\ s[1] = n
         /\ Len(s) \in Nat \ {0} /\ Len(Tail(s)) = Len(s) - 1
         /\ \A i \in 1 .. Len(s) - 1 : Tail(s)[i] = s[i + 1]
<1> DEFINE m == Len(s)
           u == Tail(s)
<1>1. /\ s \in Seq(Node) /\ IsInjective(s) /\ n = At(s, 1)
      /\ \A i \in 1 .. m : next[s[i]] = At(s, i + 1)
  BY DEF IsList
<1>2. m \in Nat /\ DOMAIN s = 1 .. m /\ 1 \in 1 .. m /\ s[1] = n
  BY <1>1, SeqNode, NodeFacts DEF At
<1>3. s # <<>>
  BY <1>1, <1>2, EmptySeq
<1>4. u \in Seq(Node) /\ Len(u) = m - 1 /\ \A i \in 1 .. m - 1 : u[i] = s[i + 1]
  BY <1>1, <1>3, HeadTailProperties
<1>5. DOMAIN u = 1 .. m - 1
  BY <1>4, LenProperties
<1> HIDE DEF m, u
<1>6. \A i \in 1 .. m - 1 : i + 1 \in 1 .. m
  BY <1>2
<1>7. IsInjective(u)
  <2> SUFFICES ASSUME NEW i \in 1 .. m - 1, NEW j \in 1 .. m - 1, u[i] = u[j]
               PROVE  i = j
    BY <1>5 DEF IsInjective
  <2>1. i + 1 \in 1 .. m /\ j + 1 \in 1 .. m /\ s[i + 1] = s[j + 1]
    BY <1>4, <1>6
  <2>2. i + 1 = j + 1
    BY <1>1, <1>2, <2>1, Zenon DEF IsInjective
  <2> QED
    BY <1>2, <2>2
<1>8. \A i \in 1 .. m : At(u, i) = At(s, i + 1)
  <2> SUFFICES ASSUME NEW i \in 1 .. m PROVE At(u, i) = At(s, i + 1)
    OBVIOUS
  <2>1. CASE i = m
    <3>1. i \notin 1 .. m - 1 /\ i + 1 \notin 1 .. m
      BY <1>2, <2>1
    <3> QED
      BY <1>4, <3>1 DEF At, m
  <2>2. CASE i # m
    <3>1. i \in 1 .. m - 1
      BY <1>2, <2>2
    <3> QED
      BY <1>4, <1>6, <3>1 DEF At, m
  <2> QED
    BY <2>1, <2>2
<1>9. next[n] = At(u, 1)
  BY <1>1, <1>2, <1>8 DEF m
<1>10. ASSUME NEW i \in 1 .. Len(u)
       PROVE  next[u[i]] = At(u, i + 1)
  <2>1. i \in 1 .. m - 1 /\ i + 1 \in 1 .. m
    BY <1>4, <1>6
  <2>2. u[i] = s[i + 1] /\ next[s[i + 1]] = At(s, (i + 1) + 1)
    BY <1>1, <1>4, <2>1 DEF m
  <2> QED
    BY <1>8, <2>1, <2>2
<1>11. IsList(next, next[n], u)
  BY <1>4, <1>7, <1>9, <1>10 DEF IsList
<1> QED
  BY <1>2, <1>3, <1>4, <1>11 DEF m, u

(* Every walk ends.                                                        *)
Ends(next) == \A n \in Node : \E s : IsList(next, n, s)

ListOf(next, n) == CHOOSE s : IsList(next, n, s)

LEMMA ListOfNode ==
  ASSUME NEW next \in [Node -> Node \cup {INVALID}], Ends(next), NEW n \in Node \cup {INVALID}
  PROVE  IsList(next, n, ListOf(next, n))
BY NoList DEF Ends, ListOf

(* The first k nodes of a list.                                            *)
First(s, k) == SubSeq(s, 1, IF k <= Len(s) THEN k ELSE Len(s))

LEMMA FirstNodes ==
  ASSUME NEW s \in Seq(Node), NEW k \in Nat
  PROVE  /\ First(s, k) \in Seq(Node)
         /\ Len(First(s, k)) = IF k <= Len(s) THEN k ELSE Len(s)
         /\ \A i \in 1 .. Len(First(s, k)) : First(s, k)[i] = s[i]
<1> DEFINE n == IF k <= Len(s) THEN k ELSE Len(s)
           u == First(s, k)
<1>1. Len(s) \in Nat /\ n \in Nat /\ n <= Len(s)
  BY SeqNode
<1>2. u = SubSeq(s, 1, n)
  BY DEF First
<1> HIDE DEF n, u
<1>3. \A i \in 1 .. n : s[i] \in Node
  BY <1>1, SeqNode
<1>4. /\ u \in Seq(Node) /\ Len(u) = IF 1 <= n THEN n - 1 + 1 ELSE 0
      /\ \A i \in 1 .. n - 1 + 1 : u[i] = s[1 + i - 1]
  BY <1>1, <1>2, <1>3, SubSeqProperties
<1>5. Len(u) = n /\ \A i \in 1 .. n : u[i] = s[i]
  BY <1>1, <1>4
<1> QED
  BY <1>4, <1>5 DEF n, u

LEMMA FirstOfList ==
  ASSUME NEW s \in Seq(Node), NEW u \in Seq(Node), NEW n \in Node, NEW k \in Nat \ {0},
         Len(s) = Len(u) + 1, s[1] = n, \A i \in 1 .. Len(u) : u[i] = s[i + 1]
  PROVE  First(s, k) = <<n>> \o First(u, k - 1)
<1> DEFINE p == Len(u)
           q == IF k - 1 <= p THEN k - 1 ELSE p
           f == First(s, k)
           g == First(u, k - 1)
           c == <<n>> \o g
<1>1. p \in Nat /\ Len(s) = p + 1 /\ k - 1 \in Nat
  BY SeqNode
<1>2. f \in Seq(Node) /\ Len(f) = (IF k <= p + 1 THEN k ELSE p + 1) /\ \A i \in 1 .. Len(f) : f[i] = s[i]
  BY <1>1, FirstNodes
<1>3. g \in Seq(Node) /\ Len(g) = q /\ \A i \in 1 .. Len(g) : g[i] = u[i]
  BY <1>1, FirstNodes
<1>4. <<n>> \in Seq(Node) /\ Len(<<n>>) = 1
  OBVIOUS
<1>5. /\ c \in Seq(Node) /\ Len(c) = 1 + Len(g)
      /\ \A i \in 1 .. 1 + Len(g) : c[i] = IF i <= 1 THEN <<n>>[i] ELSE g[i - 1]
  BY <1>3, <1>4, ConcatProperties
<1>6. \A i \in 1 .. p : u[i] = s[i + 1]
  OBVIOUS
<1> HIDE DEF p, f, g, c
<1>7. Len(f) = Len(c) /\ Len(f) = q + 1 /\ q \in Nat /\ q <= p
  BY <1>1, <1>2, <1>3, <1>5
<1> HIDE DEF q
<1>8. ASSUME NEW i \in 1 .. Len(f)
      PROVE  f[i] = c[i]
  <2>1. i \in 1 .. q + 1 /\ f[i] = s[i]
    BY <1>2, <1>7
  <2>2. CASE i = 1
    BY <1>3, <1>5, <1>7, <2>1, <2>2
  <2>3. CASE i # 1
    <3>1. i - 1 \in 1 .. q /\ i - 1 \in 1 .. p /\ (i - 1) + 1 = i /\ ~(i <= 1)
      BY <1>1, <1>7, <2>1, <2>3
    <3>2. c[i] = g[i - 1]
      BY <1>3, <1>5, <1>7, <2>1, <3>1
    <3> QED
      BY <1>3, <1>6, <2>1, <3>1, <3>2
  <2> QED
    BY <2>2, <2>3
<1>9. f = c
  BY <1>2, <1>5, <1>7, <1>8, SeqEqual
<1> QED
  BY <1>9 DEF f, c, g

(* The recursion of Walk.                                                  *)
From(f, next) ==
  f = [max \in 0 .. NodeTotal + 1 |-> [n \in Node \cup {INVALID} |->
         IF n = INVALID \/ max = 0 THEN <<>> ELSE <<n>> \o f[max - 1][next[n]]]]

LEMMA WalkDef ==
  ASSUME NEW next, NEW h, NEW g, From(g, next)
  PROVE  \E f : From(f, next) /\ Walk(next, h) = f[NodeTotal + 1][h]
<1> DEFINE ff == CHOOSE f : f = [max \in 0 .. NodeTotal + 1 |-> [n \in Node \cup {INVALID} |->
         IF n = INVALID \/ max = 0 THEN <<>> ELSE <<n>> \o f[max - 1][next[n]]]]
<1>2. Walk(next, h) = ff[NodeTotal + 1][h]
  BY DEF Walk
<1>3. From(ff, next)
  BY DEF From
<1> HIDE DEF ff
<1> QED
  BY <1>2, <1>3

(* It has one solution at most.                                            *)
LEMMA OneWalk ==
  ASSUME NEW next, NEW f, NEW g, From(f, next), From(g, next)
  PROVE  \A max \in 0 .. NodeTotal + 1 : f[max] = g[max]
<1> DEFINE bad == {max \in 0 .. NodeTotal + 1 : f[max] # g[max]}
           e(l, max) == [n \in Node \cup {INVALID} |->
                           IF n = INVALID \/ max = 0 THEN <<>> ELSE <<n>> \o l[max - 1][next[n]]]
<1> SUFFICES ASSUME bad # {} PROVE FALSE
  OBVIOUS
<1>1. PICK k \in bad : \A i \in bad : k <= i
  <2>1. bad \subseteq Nat
    BY NodeFacts
  <2> QED
    BY <2>1, LeastNat
<1>2. k \in 0 .. NodeTotal + 1 /\ f[k] # g[k] /\ k \in Nat /\ NodeTotal \in Nat
  BY NodeFacts
<1>3. f[k] = e(f, k) /\ g[k] = e(g, k)
  BY <1>2 DEF From
<1>4. CASE k = 0
  <2>1. e(f, k) = [n \in Node \cup {INVALID} |-> <<>>] /\ e(g, k) = [n \in Node \cup {INVALID} |-> <<>>]
    BY <1>4
  <2> QED
    BY <1>2, <1>3, <2>1
<1>5. CASE k # 0
  <2>1. k - 1 \in 0 .. NodeTotal + 1 /\ ~(k <= k - 1)
    BY <1>2, <1>5
  <2>2. f[k - 1] = g[k - 1]
    BY <1>1, <2>1
  <2>3. e(f, k) = e(g, k)
    BY <2>2
  <2> QED
    BY <1>2, <1>3, <2>3
<1> QED
  BY <1>4, <1>5

(* Walk visits the list.                                                   *)
LEMMA WalkIs ==
  ASSUME NEW next \in [Node -> Node \cup {INVALID}], Ends(next),
         NEW h, NEW s, IsList(next, h, s)
  PROVE  Walk(next, h) = s
<1> DEFINE V(n, k) == IF n = INVALID THEN <<>> ELSE First(ListOf(next, n), k)
           g == [max \in 0 .. NodeTotal + 1 |-> [n \in Node \cup {INVALID} |-> V(n, max)]]
<1>1. ASSUME NEW n \in Node, NEW k \in Nat, k = 0
      PROVE  V(n, k) = <<>>
  <2>1. ListOf(next, n) \in Seq(Node)
    BY ListOfNode DEF IsList
  <2>2. First(ListOf(next, n), k) \in Seq(Node) /\ Len(First(ListOf(next, n), k)) = 0
    <3>1. 0 <= Len(ListOf(next, n))
      BY <2>1, SeqNode
    <3> QED
      BY <1>1, <2>1, <3>1, FirstNodes
  <2> QED
    BY <2>2, EmptySeq, NodeFacts
<1>2. ASSUME NEW n \in Node, NEW k \in Nat \ {0}
      PROVE  V(n, k) = <<n>> \o V(next[n], k - 1)
  <2> DEFINE l == ListOf(next, n)
             u == Tail(l)
  <2>1. IsList(next, n, l)
    BY ListOfNode
  <2>2. /\ IsList(next, next[n], u) /\ l # <<>> /\ l[1] = n
        /\ Len(l) \in Nat \ {0} /\ Len(u) = Len(l) - 1
        /\ \A i \in 1 .. Len(l) - 1 : u[i] = l[i + 1]
    BY <2>1, ListRest
  <2>3. l \in Seq(Node) /\ u \in Seq(Node)
    BY <2>1, <2>2 DEF IsList
  <2> HIDE DEF l, u
  <2>4. First(l, k) = <<n>> \o First(u, k - 1)
    <3>1. Len(l) = Len(u) + 1 /\ \A i \in 1 .. Len(u) : u[i] = l[i + 1]
      BY <2>2
    <3> QED
      BY <2>2, <2>3, <3>1, FirstOfList
  <2>5. CASE next[n] = INVALID
    <3>1. u = <<>>
      BY <2>2, <2>5, NoList, OneList
    <3>2. k - 1 \in Nat
      OBVIOUS
    <3>3. Len(u) = 0
      BY <3>1
    <3>4. Len(First(u, k - 1)) = 0 /\ First(u, k - 1) \in Seq(Node)
      BY <2>3, <3>2, <3>3, FirstNodes, SMTT(40)
    <3>5. First(u, k - 1) = <<>>
      BY <3>4, EmptySeq
    <3>6. V(n, k) = First(l, k) /\ V(next[n], k - 1) = <<>>
      BY <2>5, NodeFacts DEF l
    <3> QED
      BY <2>4, <3>5, <3>6
  <2>6. CASE next[n] # INVALID
    <3>1. next[n] \in Node
      BY <2>6
    <3>2. ListOf(next, next[n]) = u
      BY <2>2, <3>1, ListOfNode, OneList
    <3>3. V(n, k) = First(l, k) /\ V(next[n], k - 1) = First(u, k - 1)
      BY <2>6, <3>2, NodeFacts DEF l
    <3> QED
      BY <2>4, <3>3
  <2> QED
    BY <2>5, <2>6
<1> HIDE DEF V
<1>3. From(g, next)
  <2>1. ASSUME NEW max \in 0 .. NodeTotal + 1, NEW n \in Node \cup {INVALID}
        PROVE  V(n, max) = IF n = INVALID \/ max = 0 THEN <<>> ELSE <<n>> \o g[max - 1][next[n]]
    <3>1. CASE n = INVALID
      BY <3>1 DEF V
    <3>2. CASE n # INVALID /\ max = 0
      <4>1. n \in Node /\ max \in Nat
        BY <3>2
      <4> QED
        BY <1>1, <3>2, <4>1
    <3>3. CASE n # INVALID /\ max # 0
      <4>1. max \in Nat \ {0} /\ max - 1 \in 0 .. NodeTotal + 1
        BY <3>3, NodeFacts
      <4>2. n \in Node /\ next[n] \in Node \cup {INVALID}
        BY <3>3
      <4>3. g[max - 1][next[n]] = V(next[n], max - 1)
        BY <4>1, <4>2
      <4> QED
        BY <1>2, <3>3, <4>1, <4>2, <4>3
    <3> QED
      BY <3>1, <3>2, <3>3
  <2>2. \A max \in 0 .. NodeTotal + 1 :
          [n \in Node \cup {INVALID} |-> V(n, max)] =
          [n \in Node \cup {INVALID} |->
             IF n = INVALID \/ max = 0 THEN <<>> ELSE <<n>> \o g[max - 1][next[n]]]
    BY <2>1, Zenon
  <2> QED
    BY <2>2, Zenon DEF From
<1>4. PICK f : From(f, next) /\ Walk(next, h) = f[NodeTotal + 1][h]
  BY <1>3, WalkDef
<1>5. NodeTotal + 1 \in 0 .. NodeTotal + 1 /\ NodeTotal + 1 \in Nat /\ NodeTotal <= NodeTotal + 1
  BY NodeFacts
<1>6. s \in Seq(Node) /\ IsInjective(s) /\ h \in Node \cup {INVALID}
  BY SeqNode DEF IsList
<1>7. Walk(next, h) = V(h, NodeTotal + 1)
  BY <1>3, <1>4, <1>5, <1>6, OneWalk
<1>8. CASE h = INVALID
  BY <1>7, <1>8, NoList, OneList DEF V
<1>9. CASE h # INVALID
  <2>1. ListOf(next, h) = s
    BY <1>6, ListOfNode, OneList
  <2>2. Walk(next, h) = First(s, NodeTotal + 1)
    BY <1>7, <1>9, <2>1 DEF V
  <2>3. Len(s) \in Nat /\ Len(s) <= NodeTotal
    BY <1>6, ListLen
  <2>4. (IF NodeTotal + 1 <= Len(s) THEN NodeTotal + 1 ELSE Len(s)) = Len(s)
    BY <1>5, <2>3, NodeFacts
  <2>5. /\ First(s, NodeTotal + 1) \in Seq(Node)
        /\ Len(First(s, NodeTotal + 1)) = Len(s)
        /\ \A i \in 1 .. Len(First(s, NodeTotal + 1)) : First(s, NodeTotal + 1)[i] = s[i]
    BY <1>5, <1>6, <2>4, FirstNodes
  <2>6. First(s, NodeTotal + 1) = s
    BY <1>6, <2>5, SeqEqual
  <2> QED
    BY <2>2, <2>6
<1> QED
  BY <1>8, <1>9

LEMMA WalkEmpty ==
  ASSUME NEW next \in [Node -> Node \cup {INVALID}], Ends(next), NEW h \in Node \cup {INVALID}
  PROVE  Len(Walk(next, h)) = 0 <=> h = INVALID
<1> DEFINE s == ListOf(next, h)
<1>1. IsList(next, h, s)
  BY ListOfNode
<1>2. Walk(next, h) = s
  BY <1>1, WalkIs
<1> HIDE DEF s
<1>3. s \in Seq(Node) /\ h = At(s, 1)
  BY <1>1 DEF IsList
<1>4. Len(s) \in Nat /\ (At(s, 1) # INVALID <=> 1 \in 1 .. Len(s))
  BY <1>3, SeqNode
<1>5. 1 \in 1 .. Len(s) <=> Len(s) # 0
  BY <1>4
<1> QED
  BY <1>2, <1>3, <1>4, <1>5

-----------------------------------------------------------------------------
(***************************************************************************)
(* What stores do to a list.                                               *)
(***************************************************************************)
LEMMA InList ==
  ASSUME NEW s \in Seq(Node)
  PROVE  /\ \A i \in 1 .. Len(s) : s[i] \in ToSet(s)
         /\ \A n \in ToSet(s) : n \in Node /\ \E i \in 1 .. Len(s) : n = s[i]
BY SeqNode DEF ToSet

LEMMA SameIndex ==
  ASSUME NEW s \in Seq(Node), IsInjective(s), NEW i \in 1 .. Len(s), NEW j \in 1 .. Len(s),
         s[i] = s[j]
  PROVE  i = j
BY SeqNode DEF IsInjective

(* A list linked both ways.                                                *)
Linked(next, prev, h, s) ==
  /\ IsList(next, h, s)
  /\ \A i \in 1 .. Len(s) : prev[s[i]] = At(s, i - 1)

(* Stores in other nodes leave it as it is.                                *)
LEMMA ListSame ==
  ASSUME NEW next, NEW next2, NEW h, NEW s, IsList(next, h, s),
         \A n \in ToSet(s) : next2[n] = next[n]
  PROVE  IsList(next2, h, s)
BY InList DEF IsList

LEMMA LinkedSame ==
  ASSUME NEW next, NEW next2, NEW prev, NEW prev2, NEW h, NEW s, Linked(next, prev, h, s),
         \A n \in ToSet(s) : next2[n] = next[n] /\ prev2[n] = prev[n]
  PROVE  Linked(next2, prev2, h, s)
<1>1. IsList(next, h, s) /\ s \in Seq(Node)
  BY DEF Linked, IsList
<1>2. IsList(next2, h, s)
  BY <1>1, ListSame
<1> QED
  BY <1>1, <1>2, InList DEF Linked

(* The list at a node of a list is the rest of it.                         *)
RestAt(next, s, k, u) ==
  /\ IsList(next, s[k], u)
  /\ \A x : x \in ToSet(u) <=> \E i \in k .. Len(s) : s[i] = x

LEMMA ListSuffix ==
  ASSUME NEW next, NEW h, NEW s, IsList(next, h, s), NEW k \in 1 .. Len(s)
  PROVE  \E u : RestAt(next, s, k, u)
<1> DEFINE m == Len(s)
           u == SubSeq(s, k, m)
<1>1. /\ s \in Seq(Node) /\ IsInjective(s)
      /\ \A i \in 1 .. m : next[s[i]] = At(s, i + 1)
  BY DEF IsList
<1>2. m \in Nat /\ DOMAIN s = 1 .. m /\ \A i \in 1 .. m : s[i] \in Node
  BY <1>1, SeqNode
<1>3. u \in Seq(Node) /\ Len(u) = m - k + 1 /\ \A i \in 1 .. m - k + 1 : u[i] = s[k + i - 1]
  <2>1. k \in Int /\ m \in Int /\ \A i \in k .. m : s[i] \in Node
    BY <1>2
  <2>2. k <= m
    BY <1>2
  <2> QED
    BY <2>1, <2>2, SubSeqProperties
<1>4. DOMAIN u = 1 .. m - k + 1
  BY <1>3, LenProperties
<1>k. k \in 1 .. m
  OBVIOUS
<1> HIDE DEF m, u
<1>5. \A i \in 1 .. m - k + 1 : k + i - 1 \in 1 .. m
  BY <1>2, <1>k
<1>6. IsInjective(u)
  <2> SUFFICES ASSUME NEW i \in 1 .. m - k + 1, NEW j \in 1 .. m - k + 1, u[i] = u[j]
               PROVE  i = j
    BY <1>4 DEF IsInjective
  <2>1. k + i - 1 \in 1 .. m /\ k + j - 1 \in 1 .. m /\ s[k + i - 1] = s[k + j - 1]
    BY <1>3, <1>5
  <2>2. k + i - 1 = k + j - 1
    BY <1>1, <1>2, <2>1, Zenon DEF IsInjective
  <2> QED
    BY <1>2, <1>k, <2>2
<1>7. \A i \in 1 .. m - k + 2 : At(u, i) = At(s, k + i - 1)
  <2> SUFFICES ASSUME NEW i \in 1 .. m - k + 2 PROVE At(u, i) = At(s, k + i - 1)
    OBVIOUS
  <2>1. CASE i \in 1 .. m - k + 1
    BY <1>3, <1>5, <2>1 DEF At, m
  <2>2. CASE i \notin 1 .. m - k + 1
    <3>1. k + i - 1 \notin 1 .. m
      BY <1>2, <1>k, <2>2
    <3> QED
      BY <1>3, <2>2, <3>1 DEF At, m
  <2> QED
    BY <2>1, <2>2
<1>8. s[k] = At(u, 1)
  <2>1. 1 \in 1 .. m - k + 1 /\ k + 1 - 1 = k
    BY <1>2, <1>k
  <2> QED
    BY <1>3, <2>1 DEF At
<1>9. ASSUME NEW i \in 1 .. Len(u)
      PROVE  next[u[i]] = At(u, i + 1)
  <2>1. /\ i \in 1 .. m - k + 1 /\ i + 1 \in 1 .. m - k + 2
        /\ (k + i - 1) + 1 = k + (i + 1) - 1 /\ k + i - 1 \in 1 .. m
    BY <1>2, <1>3, <1>k
  <2>2. u[i] = s[k + i - 1]
    BY <1>3, <2>1
  <2>3. next[s[k + i - 1]] = At(s, (k + i - 1) + 1)
    BY <1>1, <2>1 DEF m
  <2>4. At(u, i + 1) = At(s, k + (i + 1) - 1)
    BY <1>7, <2>1
  <2> QED
    BY <2>1, <2>2, <2>3, <2>4
<1>10. IsList(next, s[k], u)
  BY <1>3, <1>6, <1>8, <1>9 DEF IsList
<1>11. \A x : x \in ToSet(u) <=> \E i \in k .. m : s[i] = x
  <2>1. \A i \in 1 .. m - k + 1 : u[i] = s[k + i - 1] /\ k + i - 1 \in k .. m
    BY <1>2, <1>3, <1>k
  <2>2. ASSUME NEW i \in k .. m
        PROVE  i - k + 1 \in 1 .. m - k + 1 /\ s[i] = u[i - k + 1]
    <3>1. i - k + 1 \in 1 .. m - k + 1 /\ k + (i - k + 1) - 1 = i
      BY <1>2, <1>k
    <3> QED
      BY <2>1, <3>1
  <2>3. \A i \in k .. m : s[i] \in ToSet(u)
    BY <1>4, <2>2 DEF ToSet
  <2> QED
    BY <1>4, <2>1, <2>3 DEF ToSet
<1> QED
  BY <1>10, <1>11 DEF RestAt, m

(* n stored before the head.                                               *)
LEMMA Prepended ==
  ASSUME NEW s \in Seq(Node), IsInjective(s), NEW n \in Node, n \notin ToSet(s)
  PROVE  LET u == <<n>> \o s
         IN  /\ u \in Seq(Node) /\ IsInjective(u) /\ Len(u) = Len(s) + 1
             /\ u[1] = n /\ \A i \in 1 .. Len(s) : u[i + 1] = s[i]
             /\ ToSet(u) = ToSet(s) \cup {n}
<1> DEFINE m == Len(s)
           u == <<n>> \o s
<1>1. m \in Nat /\ DOMAIN s = 1 .. m
  BY SeqNode
<1>2. /\ u \in Seq(Node) /\ Len(u) = m + 1
      /\ u[1] = n /\ \A i \in 1 .. m : u[i + 1] = s[i]
  <2>1. <<n>> \in Seq(Node) /\ Len(<<n>>) = 1 /\ <<n>>[1] = n
    OBVIOUS
  <2>2. /\ u \in Seq(Node) /\ Len(u) = 1 + m
        /\ \A i \in 1 .. 1 + m : u[i] = IF i <= 1 THEN <<n>>[i] ELSE s[i - 1]
    BY <2>1, ConcatProperties
  <2> HIDE DEF m, u
  <2>3. u[1] = n
    BY <1>1, <2>1, <2>2
  <2>4. ASSUME NEW i \in 1 .. m
        PROVE  u[i + 1] = s[i]
    <3>1. i + 1 \in 1 .. 1 + m /\ ~(i + 1 <= 1) /\ (i + 1) - 1 = i
      BY <1>1
    <3> QED
      BY <2>2, <3>1
  <2> QED
    BY <1>1, <2>2, <2>3, <2>4
<1>3. DOMAIN u = 1 .. m + 1
  BY <1>2, LenProperties
<1> HIDE DEF m, u
<1>4. \A j \in 1 .. m + 1 : j = 1 \/ (j - 1 \in 1 .. m /\ u[j] = s[j - 1])
  <2> TAKE j \in 1 .. m + 1
  <2>1. j # 1 => j - 1 \in 1 .. m /\ (j - 1) + 1 = j
    BY <1>1
  <2> QED
    BY <1>2, <2>1
<1>5. \A i \in 1 .. m : i + 1 \in 1 .. m + 1 /\ s[i] \in ToSet(s) /\ s[i] # n
  <2> TAKE i \in 1 .. m
  <2>1. i + 1 \in 1 .. m + 1
    BY <1>1
  <2> QED
    BY <1>1, <2>1 DEF ToSet
<1>6. IsInjective(u)
  <2> SUFFICES ASSUME NEW i \in 1 .. m + 1, NEW j \in 1 .. m + 1, u[i] = u[j]
               PROVE  i = j
    BY <1>3 DEF IsInjective
  <2>1. CASE i = 1 /\ j = 1
    BY <2>1
  <2>2. CASE i = 1 /\ j - 1 \in 1 .. m /\ u[j] = s[j - 1]
    BY <1>2, <1>5, <2>2
  <2>3. CASE j = 1 /\ i - 1 \in 1 .. m /\ u[i] = s[i - 1]
    BY <1>2, <1>5, <2>3
  <2>4. CASE i - 1 \in 1 .. m /\ u[i] = s[i - 1] /\ j - 1 \in 1 .. m /\ u[j] = s[j - 1]
    <3>1. i - 1 = j - 1
      BY <1>1, <2>4, Zenon DEF IsInjective
    <3> QED
      BY <1>1, <3>1
  <2> QED
    BY <1>4, <2>1, <2>2, <2>3, <2>4
<1>7. ToSet(u) = ToSet(s) \cup {n}
  <2>1. ToSet(u) \subseteq ToSet(s) \cup {n}
    BY <1>2, <1>3, <1>4, <1>5 DEF ToSet
  <2>2. n \in ToSet(u)
    <3>1. 1 \in 1 .. m + 1
      BY <1>1
    <3> QED
      BY <1>2, <1>3, <3>1 DEF ToSet
  <2>3. \A i \in 1 .. m : s[i] \in ToSet(u)
    <3> TAKE i \in 1 .. m
    <3>1. i + 1 \in DOMAIN u /\ u[i + 1] = s[i]
      BY <1>2, <1>3, <1>5
    <3> QED
      BY <3>1, Zenon DEF ToSet
  <2>4. ToSet(s) \subseteq ToSet(u)
    BY <1>1, <2>3 DEF ToSet
  <2> QED
    BY <2>1, <2>2, <2>4
<1> QED
  BY <1>2, <1>6, <1>7 DEF m, u

LEMMA ListPrepend ==
  ASSUME NEW next, NEW next2, NEW h, NEW s, IsList(next, h, s),
         NEW n \in Node, n \notin ToSet(s),
         next2[n] = h, \A x \in ToSet(s) : next2[x] = next[x]
  PROVE  IsList(next2, n, <<n>> \o s)
<1> DEFINE m == Len(s)
           u == <<n>> \o s
<1>1. /\ s \in Seq(Node) /\ IsInjective(s) /\ h = At(s, 1)
      /\ \A i \in 1 .. m : next[s[i]] = At(s, i + 1)
  BY DEF IsList
<1>2. /\ u \in Seq(Node) /\ IsInjective(u) /\ Len(u) = m + 1
      /\ u[1] = n /\ \A i \in 1 .. m : u[i + 1] = s[i]
  BY <1>1, Prepended
<1>3. m \in Nat /\ \A i \in 1 .. m : s[i] \in ToSet(s)
  BY <1>1, SeqNode, InList
<1> HIDE DEF m, u
<1>4. \A i \in 1 .. m + 1 : At(u, i + 1) = At(s, i)
  <2> SUFFICES ASSUME NEW i \in 1 .. m + 1 PROVE At(u, i + 1) = At(s, i)
    OBVIOUS
  <2>1. i \in 1 .. m <=> i + 1 \in 1 .. m + 1
    BY <1>3
  <2> QED
    BY <1>2, <2>1 DEF At, m
<1>5. At(u, 1) = n
  <2>1. 1 \in 1 .. m + 1
    BY <1>3
  <2> QED
    BY <1>2, <2>1 DEF At
<1>6. ASSUME NEW j \in 1 .. m + 1
      PROVE  next2[u[j]] = At(u, j + 1)
  <2>1. CASE j = 1
    BY <1>1, <1>2, <1>4, <2>1
  <2>2. CASE j # 1
    <3>1. j - 1 \in 1 .. m /\ (j - 1) + 1 = j
      BY <1>3, <2>2
    <3>2. u[j] = s[j - 1]
      BY <1>2, <3>1
    <3>3. next2[s[j - 1]] = next[s[j - 1]]
      BY <1>3, <3>1
    <3>4. next[s[j - 1]] = At(s, j)
      BY <1>1, <3>1 DEF m
    <3> QED
      BY <1>4, <3>2, <3>3, <3>4
  <2> QED
    BY <2>1, <2>2
<1> QED
  BY <1>2, <1>5, <1>6 DEF IsList, u

LEMMA LinkedPrepend ==
  ASSUME NEW next, NEW next2, NEW prev, NEW prev2, NEW h, NEW s, Linked(next, prev, h, s),
         NEW n \in Node, n \notin ToSet(s),
         next2[n] = h, \A x \in ToSet(s) : next2[x] = next[x],
         prev2[n] = INVALID, \A x \in ToSet(s) : prev2[x] = IF x = h THEN n ELSE prev[x]
  PROVE  Linked(next2, prev2, n, <<n>> \o s)
<1> DEFINE m == Len(s)
           u == <<n>> \o s
<1>1. IsList(next, h, s) /\ \A i \in 1 .. m : prev[s[i]] = At(s, i - 1)
  BY DEF Linked
<1>2. s \in Seq(Node) /\ IsInjective(s) /\ h = At(s, 1)
  BY <1>1 DEF IsList
<1>3. IsList(next2, n, u)
  BY <1>1, ListPrepend
<1>4. /\ u \in Seq(Node) /\ IsInjective(u) /\ Len(u) = m + 1
      /\ u[1] = n /\ \A i \in 1 .. m : u[i + 1] = s[i]
  BY <1>2, Prepended
<1>5. m \in Nat /\ \A i \in 1 .. m : s[i] \in ToSet(s)
  BY <1>2, SeqNode, InList
<1> HIDE DEF m, u
<1>6. ASSUME NEW j \in 1 .. m + 1
      PROVE  prev2[u[j]] = At(u, j - 1)
  <2>1. CASE j = 1
    <3>1. j - 1 \notin 1 .. m + 1
      BY <1>5, <2>1
    <3> QED
      BY <1>4, <2>1, <3>1 DEF At
  <2>2. CASE j # 1
    <3>1. j - 1 \in 1 .. m /\ (j - 1) + 1 = j /\ j - 1 \in 1 .. m + 1
      BY <1>5, <2>2
    <3>2. u[j] = s[j - 1] /\ s[j - 1] \in ToSet(s) /\ At(u, j - 1) = u[j - 1]
      BY <1>4, <1>5, <3>1 DEF At
    <3>3. CASE j = 2
      <4>1. s[j - 1] = h /\ u[j - 1] = n
        BY <1>2, <1>4, <3>1, <3>3 DEF At, m
      <4> QED
        BY <3>2, <4>1
    <3>4. CASE j # 2
      <4>1. 1 \in 1 .. m /\ j - 1 # 1
        BY <1>5, <3>1, <3>4
      <4>2. s[j - 1] # s[1]
        BY <1>2, <3>1, <4>1, SameIndex DEF m
      <4>3. h = s[1]
        BY <1>2, <4>1 DEF At, m
      <4>4. prev2[s[j - 1]] = At(s, (j - 1) - 1)
        BY <1>1, <3>1, <3>2, <4>2, <4>3
      <4>5. (j - 1) - 1 \in 1 .. m /\ ((j - 1) - 1) + 1 = j - 1
        BY <1>5, <3>1, <3>4
      <4>6. At(s, (j - 1) - 1) = s[(j - 1) - 1] /\ u[((j - 1) - 1) + 1] = s[(j - 1) - 1]
        BY <1>4, <4>5 DEF At, m
      <4> QED
        BY <3>2, <4>4, <4>5, <4>6
    <3> QED
      BY <3>3, <3>4
  <2> QED
    BY <2>1, <2>2
<1> QED
  BY <1>3, <1>4, <1>6 DEF Linked, u

(* s without its k-th node.                                                *)
Cut(s, k) == [j \in 1 .. Len(s) - 1 |-> IF j < k THEN s[j] ELSE s[j + 1]]

LEMMA CutNodes ==
  ASSUME NEW s \in Seq(Node), IsInjective(s), NEW k \in 1 .. Len(s)
  PROVE  LET u == Cut(s, k)
         IN  /\ u \in Seq(Node) /\ IsInjective(u) /\ Len(u) = Len(s) - 1
             /\ \A j \in Int : At(u, j) = IF j < k THEN At(s, j) ELSE At(s, j + 1)
             /\ ToSet(u) = ToSet(s) \ {s[k]}
<1> DEFINE m == Len(s)
           u == Cut(s, k)
<1>1. m \in Nat /\ DOMAIN s = 1 .. m /\ k \in 1 .. m /\ \A i \in 1 .. m : s[i] \in Node
  BY SeqNode
<1>2. u = [j \in 1 .. m - 1 |-> IF j < k THEN s[j] ELSE s[j + 1]]
  BY DEF Cut
<1>i. \A i, j \in 1 .. m : s[i] = s[j] => i = j
  BY <1>1 DEF IsInjective
<1> HIDE DEF m, u
<1>3. \A j \in 1 .. m - 1 : /\ j < k => j \in 1 .. m /\ u[j] = s[j]
                            /\ ~(j < k) => j + 1 \in 1 .. m /\ u[j] = s[j + 1]
  BY <1>1, <1>2
<1>4. u \in Seq(Node) /\ Len(u) = m - 1 /\ DOMAIN u = 1 .. m - 1
  <2>1. m - 1 \in Nat
    BY <1>1
  <2>2. u \in [1 .. m - 1 -> Node]
    BY <1>1, <1>2, <1>3
  <2>3. u \in Seq(Node)
    BY <2>1, <2>2, SeqDef
  <2>4. Len(u) \in Nat /\ DOMAIN u = 1 .. Len(u)
    BY <2>3, LenProperties
  <2>5. DOMAIN u = 1 .. m - 1
    BY <2>2
  <2>6. Len(u) = m - 1
    <3> DEFINE l == Len(u)
    <3>1. l \in Nat /\ 1 .. l = 1 .. m - 1
      BY <2>4, <2>5
    <3> HIDE DEF l
    <3>2. l = m - 1
      BY <2>1, <3>1
    <3> QED
      BY <3>2 DEF l
  <2> QED
    BY <2>3, <2>5, <2>6
<1>5. IsInjective(u)
  <2> SUFFICES ASSUME NEW i \in 1 .. m - 1, NEW j \in 1 .. m - 1, u[i] = u[j]
               PROVE  i = j
    BY <1>4 DEF IsInjective
  <2>1. CASE i < k /\ j < k
    BY <1>3, <1>i, <2>1
  <2>2. CASE ~(i < k) /\ ~(j < k)
    <3>1. i + 1 = j + 1
      BY <1>3, <1>i, <2>2
    <3> QED
      BY <1>1, <3>1
  <2>3. CASE i < k /\ ~(j < k)
    <3>1. i = j + 1
      BY <1>3, <1>i, <2>3
    <3> QED
      BY <1>1, <2>3, <3>1
  <2>4. CASE ~(i < k) /\ j < k
    <3>1. i + 1 = j
      BY <1>3, <1>i, <2>4
    <3> QED
      BY <1>1, <2>4, <3>1
  <2> QED
    BY <2>1, <2>2, <2>3, <2>4
<1>6. ASSUME NEW j \in Int
      PROVE  At(u, j) = IF j < k THEN At(s, j) ELSE At(s, j + 1)
  <2>1. CASE j < k
    <3>1. j \in 1 .. m - 1 <=> j \in 1 .. m
      BY <1>1, <2>1
    <3> QED
      BY <1>3, <1>4, <2>1, <3>1 DEF At, m
  <2>2. CASE ~(j < k)
    <3>1. j \in 1 .. m - 1 <=> j + 1 \in 1 .. m
      BY <1>1, <2>2
    <3> QED
      BY <1>3, <1>4, <2>2, <3>1 DEF At, m
  <2> QED
    BY <2>1, <2>2
<1>7. ToSet(u) = ToSet(s) \ {s[k]}
  <2>1. ToSet(u) \subseteq ToSet(s) \ {s[k]}
    <3> SUFFICES ASSUME NEW j \in 1 .. m - 1
                 PROVE  u[j] \in ToSet(s) /\ u[j] # s[k]
      BY <1>4 DEF ToSet
    <3>1. CASE j < k
      <4>1. j # k
        BY <1>1, <3>1
      <4> QED
        BY <1>1, <1>3, <1>i, <3>1, <4>1 DEF ToSet
    <3>2. CASE ~(j < k)
      <4>1. j + 1 # k
        BY <1>1, <3>2
      <4> QED
        BY <1>1, <1>3, <1>i, <3>2, <4>1 DEF ToSet
    <3> QED
      BY <3>1, <3>2
  <2>2. ASSUME NEW i \in 1 .. m, i # k
        PROVE  \E j \in 1 .. m - 1 : s[i] = u[j]
    <3>1. CASE i < k
      <4>1. i \in 1 .. m - 1
        BY <1>1, <3>1
      <4> QED
        BY <1>3, <3>1, <4>1
    <3>2. CASE ~(i < k)
      <4>1. i - 1 \in 1 .. m - 1 /\ ~(i - 1 < k) /\ (i - 1) + 1 = i
        BY <1>1, <2>2, <3>2
      <4> QED
        BY <1>3, <4>1
    <3> QED
      BY <3>1, <3>2
  <2>3. ToSet(s) \ {s[k]} \subseteq ToSet(u)
    BY <1>1, <1>4, <2>2 DEF ToSet
  <2> QED
    BY <2>1, <2>3
<1> QED
  BY <1>4, <1>5, <1>6, <1>7 DEF m, u

(* Its neighbours linked to each other, the k-th node is out of the list.  *)
LEMMA LinkedCut ==
  ASSUME NEW next, NEW next2, NEW prev, NEW prev2, NEW h, NEW h2, NEW s,
         Linked(next, prev, h, s), NEW k \in 1 .. Len(s),
         \A x \in Node : x # s[k] =>
           /\ next2[x] = IF x = At(s, k - 1) THEN At(s, k + 1) ELSE next[x]
           /\ prev2[x] = IF x = At(s, k + 1) THEN At(s, k - 1) ELSE prev[x],
         h2 = IF h = s[k] THEN At(s, k + 1) ELSE h
  PROVE  Linked(next2, prev2, h2, Cut(s, k))
<1> DEFINE m == Len(s)
           u == Cut(s, k)
<1>1. /\ s \in Seq(Node) /\ IsInjective(s) /\ h = At(s, 1)
      /\ \A i \in 1 .. m : next[s[i]] = At(s, i + 1)
      /\ \A i \in 1 .. m : prev[s[i]] = At(s, i - 1)
  BY DEF Linked, IsList
<1>2. /\ u \in Seq(Node) /\ IsInjective(u) /\ Len(u) = m - 1
      /\ \A j \in Int : At(u, j) = IF j < k THEN At(s, j) ELSE At(s, j + 1)
  BY <1>1, CutNodes
<1>3. m \in Nat /\ k \in 1 .. m /\ \A i \in 1 .. m : s[i] \in Node /\ s[i] # INVALID
  BY <1>1, SeqNode
<1>4. ASSUME NEW i \in 1 .. m, NEW j \in Int, i # j
      PROVE  s[i] # At(s, j)
  BY <1>1, <1>3, <1>4, SameIndex DEF At, m
<1>5. s[k] = At(s, k) /\ \A i \in 1 .. m : s[i] = At(s, i)
  BY <1>3 DEF At, m
<1> HIDE DEF m, u
<1>6. h2 = At(u, 1)
  <2>1. CASE k = 1
    BY <1>1, <1>2, <1>5, <2>1
  <2>2. CASE k # 1
    <3>1. 1 \in 1 .. m /\ 1 < k
      BY <1>3, <2>2
    <3>2. h # s[k]
      BY <1>1, <1>4, <1>3, <1>5, <2>2, <3>1
    <3> QED
      BY <1>1, <1>2, <3>1, <3>2
  <2> QED
    BY <2>1, <2>2
<1>7. ASSUME NEW j \in 1 .. m - 1
      PROVE  next2[u[j]] = At(u, j + 1) /\ prev2[u[j]] = At(u, j - 1)
  <2>0. /\ j \in Int /\ j + 1 \in Int /\ j - 1 \in Int /\ k - 1 \in Int /\ k + 1 \in Int
        /\ k \in Int /\ (j - 1) + 1 = j /\ u[j] = At(u, j)
    BY <1>2, <1>3 DEF At
  <2>1. CASE j < k
    <3>1. j \in 1 .. m /\ j # k /\ j - 1 < k /\ j # k + 1
      BY <1>3, <2>1
    <3>2. u[j] = s[j] /\ s[j] \in Node /\ s[j] # s[k]
      BY <1>2, <1>3, <1>4, <1>5, <2>0, <2>1, <3>1
    <3>3. prev2[s[j]] = At(u, j - 1)
      <4>1. s[j] # At(s, k + 1)
        BY <1>4, <2>0, <3>1
      <4>2. prev2[s[j]] = At(s, j - 1)
        BY <1>1, <3>1, <3>2, <4>1
      <4> QED
        BY <1>2, <2>0, <3>1, <4>2
    <3>4. CASE j = k - 1
      <4>1. s[j] = At(s, k - 1) /\ j + 1 = k /\ ~(k < k)
        BY <1>3, <1>5, <3>1, <3>4
      <4>2. next2[s[j]] = At(s, k + 1)
        BY <3>2, <4>1
      <4>3. At(u, k) = At(s, k + 1)
        BY <1>2, <2>0, <4>1
      <4> QED
        BY <3>2, <3>3, <4>1, <4>2, <4>3
    <3>5. CASE j # k - 1
      <4>1. j + 1 < k /\ s[j] # At(s, k - 1)
        <5>1. j + 1 < k
          BY <1>3, <2>1, <3>5
        <5>2. s[j] # At(s, k - 1)
          BY <1>4, <2>0, <3>1, <3>5
        <5> QED
          BY <5>1, <5>2
      <4>2. next2[s[j]] = At(s, j + 1)
        BY <1>1, <3>1, <3>2, <4>1
      <4> QED
        BY <1>2, <2>0, <3>2, <3>3, <4>1, <4>2
    <3> QED
      BY <3>4, <3>5
  <2>2. CASE ~(j < k)
    <3>1. /\ j + 1 \in 1 .. m /\ j + 1 # k /\ j + 1 # k - 1 /\ ~(j + 1 < k)
          /\ (j + 1) - 1 = j
      BY <1>3, <2>2
    <3>2. u[j] = s[j + 1] /\ s[j + 1] \in Node /\ s[j + 1] # s[k]
      <4>1. At(u, j) = At(s, j + 1)
        BY <1>2, <2>0, <2>2
      <4>2. s[j + 1] = At(s, j + 1) /\ s[j + 1] \in Node
        BY <1>3, <1>5, <3>1
      <4>3. s[j + 1] # At(s, k)
        BY <1>4, <2>0, <3>1
      <4> QED
        BY <1>5, <2>0, <4>1, <4>2, <4>3
    <3>3. next2[s[j + 1]] = At(u, j + 1)
      <4>1. s[j + 1] # At(s, k - 1)
        BY <1>4, <2>0, <3>1
      <4>2. next2[s[j + 1]] = At(s, (j + 1) + 1)
        BY <1>1, <3>1, <3>2, <4>1
      <4> QED
        BY <1>2, <2>0, <3>1, <4>2
    <3>4. CASE j = k
      <4>1. s[j + 1] = At(s, k + 1) /\ k - 1 < k
        BY <1>3, <1>5, <3>1, <3>4
      <4>2. prev2[s[j + 1]] = At(s, k - 1)
        BY <3>2, <4>1
      <4>3. At(u, k - 1) = At(s, k - 1)
        BY <1>2, <2>0, <4>1
      <4> QED
        BY <3>2, <3>3, <3>4, <4>2, <4>3
    <3>5. CASE j # k
      <4>1. ~(j - 1 < k) /\ j + 1 # k + 1
        BY <1>3, <2>2, <3>5
      <4>2. s[j + 1] # At(s, k + 1)
        BY <1>4, <2>0, <3>1, <4>1
      <4>3. prev2[s[j + 1]] = At(s, (j + 1) - 1)
        BY <1>1, <3>1, <3>2, <4>2
      <4>4. At(u, j - 1) = At(s, (j - 1) + 1)
        BY <1>2, <2>0, <4>1
      <4> QED
        BY <2>0, <3>1, <3>2, <3>3, <4>3, <4>4
    <3> QED
      BY <3>4, <3>5
  <2> QED
    BY <2>1, <2>2
<1>8. IsList(next2, h2, u)
  BY <1>2, <1>6, <1>7 DEF IsList
<1> QED
  BY <1>2, <1>7, <1>8 DEF Linked, u

(* n stored behind the tail.                                               *)
LinkedBehind(next, prev, h, u, s, n) ==
  Linked(next, prev, h, u) /\ ToSet(u) = ToSet(s) \cup {n} /\ At(u, Len(u)) = n

LEMMA LinkedAppend ==
  ASSUME NEW next, NEW next2, NEW prev, NEW prev2, NEW h, NEW h2, NEW s,
         Linked(next, prev, h, s), NEW n \in Node, n \notin ToSet(s),
         next2[n] = INVALID, prev2[n] = At(s, Len(s)),
         \A x \in ToSet(s) : /\ next2[x] = IF x = At(s, Len(s)) THEN n ELSE next[x]
                             /\ prev2[x] = prev[x],
         h2 = IF h = INVALID THEN n ELSE h
  PROVE  LinkedBehind(next2, prev2, h2, Append(s, n), s, n)
<1> DEFINE m == Len(s)
           u == Append(s, n)
<1>1. /\ s \in Seq(Node) /\ IsInjective(s) /\ h = At(s, 1)
      /\ \A i \in 1 .. m : next[s[i]] = At(s, i + 1)
      /\ \A i \in 1 .. m : prev[s[i]] = At(s, i - 1)
  BY DEF Linked, IsList
<1>2. m \in Nat /\ DOMAIN s = 1 .. m /\ \A i \in 1 .. m : s[i] \in ToSet(s) /\ s[i] # INVALID
  BY <1>1, SeqNode, InList
<1>3. u \in Seq(Node) /\ Len(u) = m + 1 /\ u[m + 1] = n /\ \A i \in 1 .. m : u[i] = s[i]
  BY <1>1, AppendProperties
<1>4. DOMAIN u = 1 .. m + 1
  BY <1>3, LenProperties
<1>5. \A i, j \in 1 .. m : s[i] = s[j] => i = j
  BY <1>1, <1>2 DEF IsInjective
<1> HIDE DEF m, u
<1>6. \A i \in 1 .. m + 1 : i = m + 1 \/ i \in 1 .. m
  BY <1>2
<1>7. m + 1 \in 1 .. m + 1 /\ \A i \in 1 .. m : i \in 1 .. m + 1
  BY <1>2
<1>8. IsInjective(u)
  <2> SUFFICES ASSUME NEW i \in 1 .. m + 1, NEW j \in 1 .. m + 1, u[i] = u[j]
               PROVE  i = j
    BY <1>4 DEF IsInjective
  <2> QED
    BY <1>2, <1>3, <1>5, <1>6
<1>9. ToSet(u) = ToSet(s) \cup {n}
  <2>1. ToSet(u) \subseteq ToSet(s) \cup {n}
    BY <1>2, <1>3, <1>4, <1>6 DEF ToSet
  <2>2. n \in ToSet(u)
    BY <1>3, <1>4, <1>7, Zenon DEF ToSet
  <2>3. \A i \in 1 .. m : s[i] \in ToSet(u)
    <3> TAKE i \in 1 .. m
    <3>1. i \in DOMAIN u /\ u[i] = s[i]
      BY <1>3, <1>4, <1>7
    <3> QED
      BY <3>1, Zenon DEF ToSet
  <2>4. ToSet(s) \subseteq ToSet(u)
    BY <1>2, <2>3 DEF ToSet
  <2> QED
    BY <2>1, <2>2, <2>4
<1>10. At(u, Len(u)) = n
  BY <1>3, <1>7 DEF At
<1>11. h2 = At(u, 1)
  <2>1. CASE m = 0
    <3>1. h = INVALID /\ 1 = m + 1
      BY <1>1, <2>1 DEF At, m
    <3> QED
      BY <1>3, <1>7, <3>1 DEF At
  <2>2. CASE m # 0
    <3>1. 1 \in 1 .. m
      BY <1>2, <2>2
    <3> QED
      BY <1>1, <1>2, <1>3, <1>7, <3>1 DEF At, m
  <2> QED
    BY <2>1, <2>2
<1>12. ASSUME NEW j \in 1 .. m
       PROVE  next2[u[j]] = At(u, j + 1) /\ prev2[u[j]] = At(u, j - 1)
  <2>1. u[j] = s[j] /\ s[j] \in ToSet(s)
    BY <1>2, <1>3
  <2>2. prev2[s[j]] = At(u, j - 1)
    <3>1. j - 1 \in 1 .. m <=> j - 1 \in 1 .. m + 1
      BY <1>2
    <3>2. At(u, j - 1) = At(s, j - 1)
      BY <1>3, <3>1 DEF At, m
    <3> QED
      BY <1>1, <2>1, <3>2 DEF m
  <2>3. CASE j = m
    <3>1. At(s, Len(s)) = s[j] /\ j + 1 = m + 1
      BY <2>3 DEF At, m
    <3> QED
      BY <1>3, <1>7, <2>1, <2>2, <3>1 DEF At
  <2>4. CASE j # m
    <3>1. j + 1 \in 1 .. m /\ m \in 1 .. m
      BY <1>2, <2>4
    <3>2. At(s, Len(s)) = s[m] /\ s[m] # s[j]
      BY <1>5, <2>4, <3>1 DEF At, m
    <3>3. next2[s[j]] = At(s, j + 1)
      BY <1>1, <2>1, <3>2 DEF m
    <3>4. At(u, j + 1) = At(s, j + 1)
      BY <1>3, <1>7, <3>1 DEF At, m
    <3> QED
      BY <2>1, <2>2, <3>3, <3>4
  <2> QED
    BY <2>3, <2>4
<1>13. next2[u[m + 1]] = At(u, (m + 1) + 1) /\ prev2[u[m + 1]] = At(u, (m + 1) - 1)
  <2>1. (m + 1) + 1 \notin 1 .. m + 1 /\ (m + 1) - 1 = m
    BY <1>2
  <2>2. At(u, (m + 1) + 1) = INVALID
    BY <1>3, <2>1 DEF At
  <2>3. At(u, m) = At(s, m)
    <3>1. m \in 1 .. m <=> m \in 1 .. m + 1
      BY <1>2
    <3> QED
      BY <1>3, <3>1 DEF At, m
  <2> QED
    BY <1>3, <2>1, <2>2, <2>3 DEF m
<1>14. \A j \in 1 .. m + 1 : next2[u[j]] = At(u, j + 1) /\ prev2[u[j]] = At(u, j - 1)
  BY <1>6, <1>12, <1>13
<1>15. Linked(next2, prev2, h2, u)
  BY <1>3, <1>8, <1>11, <1>14 DEF Linked, IsList
<1> QED
  BY <1>9, <1>10, <1>15 DEF u, LinkedBehind

-----------------------------------------------------------------------------
(***************************************************************************)
(* What is behind a node.                                                  *)
(***************************************************************************)
(* The nodes behind n in s.                                                *)
Later(s, n) ==
  {x \in ToSet(s) : \E i, j \in 1 .. Len(s) : i < j /\ s[i] = n /\ s[j] = x}

LEMMA LaterIn ==
  ASSUME NEW s \in Seq(Node), IsInjective(s), NEW n
  PROVE  Later(s, n) \subseteq ToSet(s) /\ n \notin Later(s, n) /\ (n \notin ToSet(s) => Later(s, n) = {})
<1>1. Len(s) \in Nat /\ \A i \in 1 .. Len(s) : s[i] \in ToSet(s)
  BY SeqNode, InList
<1>2. ASSUME n \in Later(s, n) PROVE FALSE
  <2>1. PICK i, j \in 1 .. Len(s) : i < j /\ s[i] = n /\ s[j] = n
    BY <1>2 DEF Later
  <2>2. i = j
    BY <2>1, SameIndex
  <2> QED BY <1>1, <2>1, <2>2
<1>3. n \notin ToSet(s) => Later(s, n) = {}
  BY <1>1 DEF Later
<1> QED BY <1>2, <1>3 DEF Later

LEMMA LaterAt ==
  ASSUME NEW s \in Seq(Node), IsInjective(s), NEW k \in 1 .. Len(s)
  PROVE  \A x : x \in Later(s, s[k]) <=> \E j \in 1 .. Len(s) : k < j /\ s[j] = x
<1>1. \A i \in 1 .. Len(s) : s[i] = s[k] => i = k
  BY SameIndex
<1>2. \A i \in 1 .. Len(s) : s[i] \in ToSet(s)
  BY InList
<1> QED BY <1>1, <1>2 DEF Later

LEMMA LaterPrepend ==
  ASSUME NEW s \in Seq(Node), IsInjective(s), NEW n \in Node, n \notin ToSet(s), NEW x
  PROVE  Later(<<n>> \o s, x) = IF x = n THEN ToSet(s) ELSE Later(s, x)
<1> DEFINE m == Len(s)
           u == <<n>> \o s
<1>1. /\ u \in Seq(Node) /\ IsInjective(u) /\ Len(u) = m + 1 /\ ToSet(u) = ToSet(s) \cup {n}
      /\ u[1] = n /\ \A i \in 1 .. m : u[i + 1] = s[i]
  BY Prepended
<1>2. m \in Nat /\ (\A i \in 1 .. m : s[i] \in ToSet(s)) /\ \A y \in ToSet(s) : \E i \in 1 .. m : y = s[i]
  BY SeqNode, InList
<1> HIDE DEF m, u
<1>3. \A i \in 1 .. m : i + 1 \in 1 .. m + 1 /\ 1 < i + 1
  BY <1>2
<1>4. \A j \in 1 .. m + 1 : j # 1 => j - 1 \in 1 .. m /\ (j - 1) + 1 = j
  BY <1>2
<1>5. 1 \in 1 .. m + 1 /\ 1 \in 1 .. Len(u)
  BY <1>1, <1>2
<1>6. CASE x = n
  <2>1. \A y : y \in Later(u, u[1]) <=> \E j \in 1 .. Len(u) : 1 < j /\ u[j] = y
    BY <1>1, <1>5, LaterAt
  <2>2. ASSUME NEW y \in ToSet(s) PROVE y \in Later(u, n)
    <3>1. PICK i \in 1 .. m : y = s[i]
      BY <1>2
    <3>2. i + 1 \in 1 .. Len(u) /\ 1 < i + 1 /\ u[i + 1] = y
      BY <1>1, <1>3, <3>1
    <3> QED BY <1>1, <2>1, <3>2
  <2>3. Later(u, n) \subseteq ToSet(u) /\ n \notin Later(u, n)
    BY <1>1, LaterIn
  <2>4. Later(u, n) = ToSet(s)
    BY <1>1, <2>2, <2>3
  <2> QED BY <1>6, <2>4 DEF u
<1>7. CASE x # n
  <2>1. ASSUME NEW y \in Later(s, x) PROVE y \in Later(u, x)
    <3>1. PICK i, j \in 1 .. m : i < j /\ s[i] = x /\ s[j] = y
      BY DEF Later, m
    <3>2. i + 1 < j + 1 /\ i + 1 \in 1 .. m + 1 /\ j + 1 \in 1 .. m + 1
      BY <1>2, <3>1
    <3>3. u[i + 1] = x /\ u[j + 1] = y /\ y \in ToSet(u)
      BY <1>1, <1>2, <3>1
    <3> QED BY <1>1, <3>2, <3>3 DEF Later
  <2>2. ASSUME NEW y \in Later(u, x) PROVE y \in Later(s, x)
    <3>1. PICK i, j \in 1 .. m + 1 : i < j /\ u[i] = x /\ u[j] = y
      BY <1>1 DEF Later
    <3>2. i # 1 /\ j # 1
      BY <1>1, <1>2, <1>7, <3>1
    <3>3. i - 1 \in 1 .. m /\ j - 1 \in 1 .. m /\ i - 1 < j - 1
      BY <1>2, <3>1, <3>2
    <3>4. s[i - 1] = x /\ s[j - 1] = y
      BY <1>1, <1>4, <3>1, <3>2
    <3> QED BY <1>2, <3>3, <3>4 DEF Later, m
  <2> QED BY <1>7, <2>1, <2>2 DEF u
<1> QED BY <1>6, <1>7

LEMMA LaterAppend ==
  ASSUME NEW s \in Seq(Node), IsInjective(s), NEW n \in Node, n \notin ToSet(s), NEW x,
         ToSet(Append(s, n)) = ToSet(s) \cup {n}
  PROVE  Later(Append(s, n), x) = IF x \in ToSet(s) THEN Later(s, x) \cup {n} ELSE {}
<1> DEFINE m == Len(s)
           u == Append(s, n)
<1>1. /\ Len(u) = m + 1 /\ ToSet(u) = ToSet(s) \cup {n}
      /\ u[m + 1] = n /\ \A i \in 1 .. m : u[i] = s[i]
  BY AppendProperties
<1>2. m \in Nat /\ (\A i \in 1 .. m : s[i] \in ToSet(s)) /\ \A y \in ToSet(s) : \E i \in 1 .. m : y = s[i]
  BY SeqNode, InList
<1> HIDE DEF m, u
<1>3. \A i \in 1 .. m : i \in 1 .. m + 1 /\ i < m + 1
  BY <1>2
<1>4. \A j \in 1 .. m + 1 : j # m + 1 => j \in 1 .. m
  BY <1>2
<1>5. m + 1 \in 1 .. m + 1
  BY <1>2
<1>6. ASSUME NEW y \in Later(u, x) PROVE x \in ToSet(s) /\ y \in Later(s, x) \cup {n}
  <2>1. PICK i, j \in 1 .. m + 1 : i < j /\ u[i] = x /\ u[j] = y
    BY <1>1 DEF Later
  <2>2. i \in 1 .. m
    BY <1>2, <2>1
  <2>3. CASE j = m + 1
    BY <1>1, <1>2, <2>1, <2>2, <2>3
  <2>4. CASE j \in 1 .. m
    BY <1>1, <1>2, <2>1, <2>2, <2>4 DEF Later, m
  <2> QED BY <1>4, <2>3, <2>4
<1>7. ASSUME NEW y \in Later(s, x) PROVE y \in Later(u, x)
  <2>1. PICK i, j \in 1 .. m : i < j /\ s[i] = x /\ s[j] = y
    BY DEF Later, m
  <2> QED BY <1>1, <1>2, <1>3, <2>1 DEF Later
<1>8. ASSUME x \in ToSet(s) PROVE n \in Later(u, x)
  <2>1. PICK i \in 1 .. m : x = s[i]
    BY <1>2, <1>8
  <2> QED BY <1>1, <1>3, <1>5, <2>1 DEF Later
<1> QED BY <1>6, <1>7, <1>8 DEF u

LEMMA LaterCut ==
  ASSUME NEW s \in Seq(Node), IsInjective(s), NEW k \in 1 .. Len(s), NEW x
  PROVE  Later(Cut(s, k), x) = IF x = s[k] THEN {} ELSE Later(s, x) \ {s[k]}
<1> DEFINE m == Len(s)
           u == Cut(s, k)
<1>1. /\ u \in Seq(Node) /\ IsInjective(u) /\ Len(u) = m - 1 /\ ToSet(u) = ToSet(s) \ {s[k]}
  BY CutNodes
<1>2. m \in Nat /\ k \in 1 .. m /\ \A i \in 1 .. m : s[i] \in ToSet(s)
  BY SeqNode, InList
<1>3. u = [j \in 1 .. m - 1 |-> IF j < k THEN s[j] ELSE s[j + 1]]
  BY DEF Cut
<1>i. \A i \in 1 .. m : s[i] = s[k] => i = k
  BY SameIndex
<1> HIDE DEF m, u
<1> DEFINE to(j) == IF j < k THEN j ELSE j + 1
<1>4. \A j \in 1 .. m - 1 : to(j) \in 1 .. m /\ u[j] = s[to(j)]
  BY <1>2, <1>3
<1>5. \A i, j \in 1 .. m - 1 : i < j => to(i) < to(j)
  BY <1>2
<1>6. ASSUME NEW y \in Later(u, x) PROVE x # s[k] /\ y \in Later(s, x) \ {s[k]}
  <2>1. PICK i, j \in 1 .. m - 1 : i < j /\ u[i] = x /\ u[j] = y
    BY <1>1 DEF Later
  <2>2. to(i) \in 1 .. m /\ to(j) \in 1 .. m /\ to(i) < to(j) /\ s[to(i)] = x /\ s[to(j)] = y
    BY <1>4, <1>5, <2>1
  <2>3. to(i) # k /\ to(j) # k
    BY <1>2, <2>1
  <2> HIDE DEF to
  <2> QED BY <1>2, <1>i, <2>2, <2>3 DEF Later, m
<1>7. ASSUME NEW y \in Later(s, x), x # s[k], y # s[k] PROVE y \in Later(u, x)
  <2>1. PICK i, j \in 1 .. m : i < j /\ s[i] = x /\ s[j] = y
    BY DEF Later, m
  <2>2. i # k /\ j # k
    BY <1>7, <2>1
  <2> DEFINE of(a) == IF a < k THEN a ELSE a - 1
  <2>3. of(i) \in 1 .. m - 1 /\ of(j) \in 1 .. m - 1 /\ of(i) < of(j) /\ to(of(i)) = i /\ to(of(j)) = j
    BY <1>2, <2>1, <2>2
  <2>4. u[of(i)] = x /\ u[of(j)] = y
    BY <1>4, <2>1, <2>3
  <2>5. y \in ToSet(u)
    BY <1>1, <1>2, <1>7, <2>1
  <2> HIDE DEF of, to
  <2> QED BY <1>1, <2>3, <2>4, <2>5 DEF Later
<1> QED BY <1>6, <1>7 DEF u

(* What the functions of the add list and of the buckets do to that.       *)
Dropped(C, A, n) ==
  \A x : Later(C, x) = IF x = n THEN {} ELSE Later(A, x) \ {n}
ToHead(C, A, n) ==
  \A x : Later(C, x) = IF x = n THEN ToSet(A) \ {n} ELSE Later(A, x) \ {n}
ToEnd(C, A, n) ==
  \A x : Later(C, x) = IF x = n \/ x \notin ToSet(A) THEN {} ELSE Later(A, x) \cup {n}
Filed(C, B, b, n) ==
  \A c \in Bucket : \A x :
    Later(C[c], x) = IF c = b /\ x = n THEN ToSet(B[b]) ELSE Later(B[c], x)
Unfiled(C, B, n) ==
  \A c \in Bucket : \A x : Later(C[c], x) = IF x = n THEN {} ELSE Later(B[c], x) \ {n}

-----------------------------------------------------------------------------
(***************************************************************************)
(* The table.                                                              *)
(***************************************************************************)
Handle == Node \cup {INVALID}

TableType ==
  [used_node_num_ : Int, used_bucket_num_ : Int,
   add_head_ : Handle, add_tail_ : Handle, free_list_ : Handle,
   bucket : [Bucket -> Handle], key_ : [Node -> Key \cup {NoKey}],
   chunk_len_ : [Node -> Nat], chunk_head_ : [Node -> ChunkHandle \cup {INVALID}],
   node_prev_ : [Node -> Handle], node_next_ : [Node -> Handle],
   add_prev_ : [Node -> Handle], add_next_ : [Node -> Handle]]

(* What a call of a helper leaves as it was.                               *)
KeepsNodes(d, m) ==
  /\ d.node_next_ = m.node_next_ /\ d.node_prev_ = m.node_prev_
  /\ d.free_list_ = m.free_list_ /\ d.bucket = m.bucket /\ d.key_ = m.key_
KeepsCounts(d, m) ==
  d.used_node_num_ = m.used_node_num_ /\ d.used_bucket_num_ = m.used_bucket_num_
KeepsAdds(d, m) ==
  /\ d.add_next_ = m.add_next_ /\ d.add_prev_ = m.add_prev_
  /\ d.add_head_ = m.add_head_ /\ d.add_tail_ = m.add_tail_
KeepsValues(d, m) ==
  d.chunk_len_ = m.chunk_len_ /\ d.chunk_head_ = m.chunk_head_

LEMMA BucketId ==
  ASSUME NEW k \in Key
  PROVE  get_bucket_id(k) \in Bucket
<1>1. hash_func_[k] \in Nat /\ BucketSize \in Nat \ {0}
  BY TableAssumption
<1> DEFINE x == hash_func_[k]
<1> HIDE DEF x
<1>2. x \in Nat => x % BucketSize \in 0 .. BucketSize - 1
  BY <1>1
<1> QED
  BY <1>1, <1>2 DEF x, get_bucket_id, Bucket

(* g is f with v stored at n.                                              *)
IsPut(g, f, n, v) ==
  g \in [Node -> Handle] /\ \A x \in Node : g[x] = IF x = n THEN v ELSE f[x]

LEMMA PutNode ==
  ASSUME NEW f \in [Node -> Handle], NEW n \in Handle, NEW v \in Handle
  PROVE  IsPut(Put(f, n, v), f, n, v)
<1>1. CASE n = INVALID
  BY <1>1, NodeFacts DEF Put, IsPut
<1>2. CASE n # INVALID
  <2>1. n \in Node
    BY <1>2 DEF Handle
  <2> QED
    BY <1>2, <2>1 DEF Put, IsPut
<1> QED
  BY <1>1, <1>2

ArePut(g, f, p, v, n, w) ==
  /\ g \in [Node -> Handle]
  /\ \A x \in Node : g[x] = IF x = n THEN w ELSE IF x = p THEN v ELSE f[x]

LEMMA PutTwice ==
  ASSUME NEW f \in [Node -> Handle], NEW p \in Handle, NEW v \in Handle,
         NEW n \in Handle, NEW w \in Handle
  PROVE  ArePut(Put(Put(f, p, v), n, w), f, p, v, n, w)
<1> DEFINE g == Put(f, p, v)
           e == Put(g, n, w)
<1>1. IsPut(g, f, p, v)
  BY PutNode
<1>2. g \in [Node -> Handle]
  BY <1>1 DEF IsPut
<1> HIDE DEF g
<1>3. IsPut(e, g, n, w)
  BY <1>2, PutNode
<1> HIDE DEF e
<1>4. ArePut(e, f, p, v, n, w)
  BY <1>1, <1>3 DEF IsPut, ArePut
<1> QED
  BY <1>4 DEF g, e

(* The free list has the nodes F, bucket b the nodes B[b] with their keys, *)
(* and the nodes in hand are on no list.                                   *)
Lists(m, F, B, hand) ==
  /\ IsList(m.node_next_, m.free_list_, F)
  /\ B \in [Bucket -> Seq(Node)]
  /\ \A b \in Bucket : Linked(m.node_next_, m.node_prev_, m.bucket[b], B[b])
  /\ \A b \in Bucket : \A n \in ToSet(B[b]) :
       m.key_[n] \in Key /\ get_bucket_id(m.key_[n]) = b /\ n \notin ToSet(F)
  /\ \A n \in hand : n \in Node /\ m.node_next_[n] = INVALID /\ n \notin ToSet(F)
  /\ \A n \in hand : \A b \in Bucket : n \notin ToSet(B[b])
  /\ \A n \in Node : n \in hand \/ n \in ToSet(F) \/ \E b \in Bucket : n \in ToSet(B[b])

(* The add list has the nodes A.                                           *)
Added(m, A) ==
  /\ Linked(m.add_next_, m.add_prev_, m.add_head_, A)
  /\ m.add_tail_ = At(A, Len(A))
  /\ \A n \in Node : n \notin ToSet(A) => m.add_next_[n] = INVALID /\ m.add_prev_[n] = INVALID

LEMMA ListsSame ==
  ASSUME NEW m, NEW d, KeepsNodes(d, m), NEW F, NEW B, NEW hand, Lists(m, F, B, hand)
  PROVE  Lists(d, F, B, hand)
BY DEF Lists, KeepsNodes

LEMMA AddedSame ==
  ASSUME NEW m, NEW d, KeepsAdds(d, m), NEW A, Added(m, A)
  PROVE  Added(d, A)
BY DEF Added, KeepsAdds

(* Where each node is on a list or ends one, every walk ends.              *)
LEMMA AllEnd ==
  ASSUME NEW next,
         \A n \in Node : next[n] = INVALID \/ \E h, s : IsList(next, h, s) /\ n \in ToSet(s)
  PROVE  Ends(next)
<1> SUFFICES ASSUME NEW n \in Node PROVE \E s : IsList(next, n, s)
  BY DEF Ends
<1>1. CASE next[n] = INVALID
  <2>1. n \notin ToSet(<<>>) /\ \A x \in ToSet(<<>>) : next[x] = next[x]
    BY DEF ToSet
  <2>2. IsList(next, INVALID, <<>>)
    BY NoList
  <2>3. IsList(next, n, <<n>> \o <<>>)
    BY <1>1, <2>1, <2>2, ListPrepend
  <2> QED
    BY <2>3
<1>2. CASE next[n] # INVALID
  <2>1. PICK h, s : IsList(next, h, s) /\ n \in ToSet(s)
    BY <1>2
  <2>2. PICK k \in 1 .. Len(s) : n = s[k]
    BY <2>1, InList DEF IsList
  <2> QED
    BY <2>1, <2>2, ListSuffix DEF RestAt
<1> QED
  BY <1>1, <1>2

LEMMA ListsEnd ==
  ASSUME NEW m, NEW F, NEW B, NEW hand, Lists(m, F, B, hand)
  PROVE  Ends(m.node_next_)
<1>1. ASSUME NEW n \in Node
      PROVE  m.node_next_[n] = INVALID \/ \E h, s : IsList(m.node_next_, h, s) /\ n \in ToSet(s)
  BY DEF Lists, Linked
<1> QED
  BY <1>1, AllEnd

LEMMA AddedEnd ==
  ASSUME NEW m, NEW A, Added(m, A)
  PROVE  Ends(m.add_next_)
<1>1. ASSUME NEW n \in Node
      PROVE  m.add_next_[n] = INVALID \/ \E h, s : IsList(m.add_next_, h, s) /\ n \in ToSet(s)
  BY DEF Added, Linked
<1> QED
  BY <1>1, AllEnd

LEMMA RestNodes ==
  ASSUME NEW next, NEW n \in Node, NEW s, IsList(next, n, s)
  PROVE  n \notin ToSet(Tail(s)) /\ ToSet(s) = ToSet(Tail(s)) \cup {n}
<1> DEFINE m == Len(s)
           u == Tail(s)
<1>1. /\ IsList(next, next[n], u) /\ s[1] = n /\ m \in Nat \ {0} /\ Len(u) = m - 1
      /\ \A i \in 1 .. m - 1 : u[i] = s[i + 1]
  BY ListRest
<1>2. s \in Seq(Node) /\ IsInjective(s) /\ u \in Seq(Node)
  BY <1>1 DEF IsList
<1>3. DOMAIN s = 1 .. m /\ DOMAIN u = 1 .. m - 1
  BY <1>1, <1>2, LenProperties
<1> HIDE DEF m, u
<1>4. 1 \in 1 .. m /\ \A i \in 1 .. m - 1 : i + 1 \in 1 .. m /\ i + 1 # 1
  BY <1>1
<1>5. \A j \in 1 .. m : j # 1 => j - 1 \in 1 .. m - 1 /\ (j - 1) + 1 = j
  BY <1>1
<1>6. ASSUME n \in ToSet(u)
      PROVE  FALSE
  <2>1. PICK i \in 1 .. m - 1 : n = u[i]
    BY <1>3, <1>6 DEF ToSet
  <2>2. s[i + 1] = s[1] /\ i + 1 \in 1 .. m /\ 1 \in 1 .. m
    BY <1>1, <1>4, <2>1
  <2>3. i + 1 = 1
    BY <1>2, <1>3, <2>2, Zenon DEF IsInjective
  <2> QED
    BY <1>4, <2>3
<1>7. ToSet(u) \cup {n} \subseteq ToSet(s)
  BY <1>1, <1>3, <1>4 DEF ToSet
<1>8. ASSUME NEW j \in 1 .. m, s[j] # n
      PROVE  s[j] \in ToSet(u)
  <2>1. j - 1 \in 1 .. m - 1 /\ (j - 1) + 1 = j
    BY <1>1, <1>5, <1>8
  <2>2. u[j - 1] = s[j]
    BY <1>1, <2>1
  <2> QED
    BY <1>3, <2>1, <2>2, Zenon DEF ToSet
<1>9. ToSet(s) \subseteq ToSet(u) \cup {n}
  BY <1>3, <1>8 DEF ToSet
<1> QED
  BY <1>6, <1>7, <1>9 DEF u

LEMMA ListHead ==
  ASSUME NEW next, NEW h, NEW s, IsList(next, h, s)
  PROVE  h \in Handle /\ (h # INVALID => h \in ToSet(s))
<1>1. s \in Seq(Node) /\ h = At(s, 1)
  BY DEF IsList
<1> QED
  BY <1>1, SeqNode, InList DEF At, Handle

LEMMA BehindIs ==
  ASSUME NEW next \in [Node -> Handle], Ends(next), NEW h, NEW s, IsList(next, h, s),
         NEW n \in ToSet(s)
  PROVE  Behind(next, n) = Later(s, n)
<1>1. s \in Seq(Node) /\ IsInjective(s)
  BY DEF IsList
<1>2. PICK k \in 1 .. Len(s) : n = s[k]
  BY <1>1, InList
<1>3. PICK u : RestAt(next, s, k, u)
  BY ListSuffix
<1>4. n \in Node
  BY <1>1, InList
<1>5. IsList(next, next[n], Tail(u)) /\ n \notin ToSet(Tail(u)) /\ ToSet(u) = ToSet(Tail(u)) \cup {n}
  BY <1>2, <1>3, <1>4, ListRest, RestNodes DEF RestAt
<1>6. Walk(next, next[n]) = Tail(u)
  BY <1>5, WalkIs DEF Handle
<1>7. Len(s) \in Nat /\ \A i \in 1 .. Len(s) : s[i] = s[k] => i = k
  BY <1>1, SeqNode, SameIndex
<1>8. ASSUME NEW x PROVE x \in ToSet(u) \ {n} <=> x \in Later(s, n)
  <2>1. x \in Later(s, n) <=> \E j \in 1 .. Len(s) : k < j /\ s[j] = x
    BY <1>1, <1>2, LaterAt
  <2>2. x \in ToSet(u) \ {n} <=> \E j \in k .. Len(s) : j # k /\ s[j] = x
    BY <1>2, <1>3, <1>7 DEF RestAt
  <2>3. \A j : (j \in k .. Len(s) /\ j # k) <=> (j \in 1 .. Len(s) /\ k < j)
    BY <1>7
  <2> QED BY <2>1, <2>2, <2>3
<1>9. ToSet(Tail(u)) = Later(s, n)
  BY <1>5, <1>8
<1> QED BY <1>6, <1>9 DEF Behind

-----------------------------------------------------------------------------
(***************************************************************************)
(* What the helpers do to the lists.                                       *)
(***************************************************************************)
LEMMA FreeListRemove ==
  ASSUME NEW m \in TableType, NEW F, NEW B, Lists(m, F, B, {}), m.free_list_ # INVALID
  PROVE  LET n == m.free_list_
             d == free_list_remove(m)
         IN  /\ d \in TableType /\ KeepsCounts(d, m) /\ KeepsAdds(d, m) /\ KeepsValues(d, m)
             /\ d.bucket = m.bucket /\ d.key_ = m.key_
             /\ Lists(d, Tail(F), B, {n})
             /\ n \in ToSet(F) /\ ToSet(Tail(F)) = ToSet(F) \ {n}
             /\ Len(Tail(F)) = Len(F) - 1
<1> DEFINE n == m.free_list_
           d == free_list_remove(m)
<1>1. n \in Node
  BY DEF TableType, Handle
<1>2. /\ d \in TableType /\ KeepsCounts(d, m) /\ KeepsAdds(d, m) /\ KeepsValues(d, m)
      /\ d.bucket = m.bucket /\ d.key_ = m.key_ /\ d.node_prev_ = m.node_prev_
      /\ d.free_list_ = m.node_next_[n]
      /\ d.node_next_ = [m.node_next_ EXCEPT ![n] = INVALID]
  BY <1>1 DEF free_list_remove, TableType, Handle, KeepsCounts, KeepsAdds, KeepsValues
<1>3. d.node_next_[n] = INVALID /\ \A x \in Node : x # n => d.node_next_[x] = m.node_next_[x]
  BY <1>1, <1>2 DEF TableType
<1>4. IsList(m.node_next_, n, F) /\ F \in Seq(Node)
  BY DEF Lists, IsList
<1>5. IsList(m.node_next_, m.node_next_[n], Tail(F)) /\ Len(Tail(F)) = Len(F) - 1
  BY <1>1, <1>4, ListRest
<1>6. n \notin ToSet(Tail(F)) /\ ToSet(F) = ToSet(Tail(F)) \cup {n}
  BY <1>1, <1>4, RestNodes
<1> HIDE DEF d, n
<1>7. \A x \in ToSet(Tail(F)) : d.node_next_[x] = m.node_next_[x]
  BY <1>3, <1>4, <1>6, InList
<1>8. IsList(d.node_next_, d.free_list_, Tail(F))
  BY <1>2, <1>5, <1>7, ListSame
<1>9. ASSUME NEW b \in Bucket
      PROVE  Linked(d.node_next_, d.node_prev_, d.bucket[b], B[b])
  <2>1. B[b] \in Seq(Node) /\ Linked(m.node_next_, m.node_prev_, m.bucket[b], B[b])
    BY DEF Lists
  <2>2. n \notin ToSet(B[b])
    BY <1>6 DEF Lists
  <2>3. \A x \in ToSet(B[b]) : d.node_next_[x] = m.node_next_[x] /\ d.node_prev_[x] = m.node_prev_[x]
    BY <1>2, <1>3, <2>1, <2>2, InList
  <2>4. Linked(d.node_next_, d.node_prev_, m.bucket[b], B[b])
    BY <2>1, <2>3, LinkedSame
  <2> QED
    BY <1>2, <2>4
<1>10. Lists(d, Tail(F), B, {n})
  BY <1>1, <1>2, <1>3, <1>6, <1>8, <1>9 DEF Lists
<1> QED
  BY <1>2, <1>5, <1>6, <1>10 DEF d, n

FreeInserted(d, m, F, B, n) ==
  /\ d \in TableType /\ KeepsCounts(d, m) /\ KeepsAdds(d, m) /\ KeepsValues(d, m)
  /\ d.bucket = m.bucket /\ d.key_ = m.key_
  /\ \E G : Lists(d, G, B, {}) /\ ToSet(G) = ToSet(F) \cup {n} /\ Len(G) = Len(F) + 1

LEMMA FreeListInsert ==
  ASSUME NEW m \in TableType, NEW F, NEW B, NEW n, Lists(m, F, B, {n})
  PROVE  FreeInserted(free_list_insert(m, n), m, F, B, n)
<1> DEFINE d == free_list_insert(m, n)
           G == <<n>> \o F
<1>1. /\ n \in Node /\ n \notin ToSet(F) /\ IsList(m.node_next_, m.free_list_, F)
      /\ \A b \in Bucket : n \notin ToSet(B[b])
  BY DEF Lists
<1>2. /\ d \in TableType /\ KeepsCounts(d, m) /\ KeepsAdds(d, m) /\ KeepsValues(d, m)
      /\ d.bucket = m.bucket /\ d.key_ = m.key_ /\ d.node_prev_ = m.node_prev_
      /\ d.free_list_ = n
      /\ d.node_next_ = [m.node_next_ EXCEPT ![n] = m.free_list_]
  BY <1>1 DEF free_list_insert, TableType, Handle, KeepsCounts, KeepsAdds, KeepsValues
<1>3. d.node_next_[n] = m.free_list_ /\ \A x \in Node : x # n => d.node_next_[x] = m.node_next_[x]
  BY <1>1, <1>2 DEF TableType
<1>4. F \in Seq(Node) /\ IsInjective(F)
  BY <1>1 DEF IsList
<1>5. Len(G) = Len(F) + 1 /\ ToSet(G) = ToSet(F) \cup {n}
  BY <1>1, <1>4, Prepended
<1> HIDE DEF d
<1>6. \A x \in ToSet(F) : d.node_next_[x] = m.node_next_[x]
  BY <1>1, <1>3, <1>4, InList
<1>7. IsList(d.node_next_, n, G)
  BY <1>1, <1>3, <1>6, ListPrepend
<1> HIDE DEF G
<1>9. ASSUME NEW b \in Bucket
      PROVE  Linked(d.node_next_, d.node_prev_, d.bucket[b], B[b])
  <2>1. B[b] \in Seq(Node) /\ Linked(m.node_next_, m.node_prev_, m.bucket[b], B[b])
    BY DEF Lists
  <2>2. \A x \in ToSet(B[b]) : d.node_next_[x] = m.node_next_[x] /\ d.node_prev_[x] = m.node_prev_[x]
    BY <1>1, <1>2, <1>3, <2>1, InList
  <2>3. Linked(d.node_next_, d.node_prev_, m.bucket[b], B[b])
    BY <2>1, <2>2, LinkedSame
  <2> QED
    BY <1>2, <2>3
<1>10. Lists(d, G, B, {})
  BY <1>1, <1>2, <1>5, <1>7, <1>9 DEF Lists
<1> QED
  BY <1>2, <1>5, <1>10 DEF d, FreeInserted

NodeInserted(d, m, F, B, n, b) ==
  /\ d \in TableType /\ KeepsAdds(d, m) /\ KeepsValues(d, m)
  /\ d.used_node_num_ = m.used_node_num_ + 1
  /\ d.used_bucket_num_ = m.used_bucket_num_
  /\ d.bucket = [m.bucket EXCEPT ![b] = n]
  /\ d.key_ = m.key_
  /\ \E C : Lists(d, F, C, {}) /\ Filed(C, B, b, n)

LEMMA InsertNodeList ==
  ASSUME NEW m \in TableType, NEW F, NEW B, NEW n, Lists(m, F, B, {n}), m.key_[n] \in Key
  PROVE  NodeInserted(insert_node_list(m, n), m, F, B, n, get_bucket_id(m.key_[n]))
<1> DEFINE d == insert_node_list(m, n)
           b == get_bucket_id(m.key_[n])
           h == m.bucket[b]
           s == B[b]
           C == [B EXCEPT ![b] = <<n>> \o s]
           P == Put(Put(m.node_prev_, n, INVALID), h, n)
<1>1. /\ n \in Node /\ n \notin ToSet(F) /\ IsList(m.node_next_, m.free_list_, F)
      /\ m.node_next_[n] = INVALID
      /\ \A c \in Bucket : n \notin ToSet(B[c])
  BY DEF Lists
<1>2. b \in Bucket
  BY BucketId
<1>3. h \in Handle
  BY <1>2 DEF TableType
<1>4. ArePut(P, m.node_prev_, n, INVALID, h, n)
  <2>1. m.node_prev_ \in [Node -> Handle] /\ n \in Handle /\ INVALID \in Handle
    BY <1>1 DEF TableType, Handle
  <2> QED
    BY <1>3, <2>1, PutTwice
<1>5. d = [m EXCEPT !.node_next_[n] = h, !.node_prev_ = P, !.bucket[b] = n,
                    !.used_node_num_ = m.used_node_num_ + 1]
  BY DEF insert_node_list, TableType
<1> HIDE DEF P, d
<1>c. /\ d.bucket = [m.bucket EXCEPT ![b] = n]
      /\ d.node_next_ = [m.node_next_ EXCEPT ![n] = h]
      /\ d.node_prev_ = P
      /\ d.used_node_num_ = m.used_node_num_ + 1
      /\ d.used_bucket_num_ = m.used_bucket_num_
      /\ d.key_ = m.key_ /\ d.free_list_ = m.free_list_
      /\ KeepsAdds(d, m) /\ KeepsValues(d, m)
  BY <1>5 DEF TableType, KeepsAdds, KeepsValues
<1>6. d \in TableType
  <2>1. P \in [Node -> Handle] /\ n \in Handle
    BY <1>1, <1>4 DEF ArePut, Handle
  <2> DEFINE N == [m.node_next_ EXCEPT ![n] = h]
             K == [m.bucket EXCEPT ![b] = n]
             u == m.used_node_num_ + 1
  <2>2. d = [m EXCEPT !.node_next_ = N, !.node_prev_ = P, !.bucket = K, !.used_node_num_ = u]
    BY <1>5
  <2>3. N \in [Node -> Handle] /\ K \in [Bucket -> Handle] /\ u \in Int
    BY <1>1, <1>2, <1>3, <2>1 DEF TableType
  <2> HIDE DEF N, K, u
  <2> QED
    BY <2>1, <2>2, <2>3 DEF TableType
<1>7. /\ d.node_next_[n] = h
      /\ \A x \in Node : x # n => d.node_next_[x] = m.node_next_[x]
      /\ \A x \in Node : d.node_prev_[x] = IF x = h THEN n ELSE IF x = n THEN INVALID ELSE m.node_prev_[x]
      /\ d.bucket[b] = n /\ \A c \in Bucket : c # b => d.bucket[c] = m.bucket[c]
  BY <1>1, <1>2, <1>4, <1>c DEF TableType, ArePut
<1>8. /\ B \in [Bucket -> Seq(Node)]
      /\ \A c \in Bucket : Linked(m.node_next_, m.node_prev_, m.bucket[c], B[c])
  BY DEF Lists
<1>9. s \in Seq(Node) /\ IsInjective(s) /\ IsList(m.node_next_, h, s) /\ (h # INVALID => h \in ToSet(s))
  <2>1. IsList(m.node_next_, h, s)
    BY <1>2, <1>8 DEF Linked
  <2> QED
    BY <2>1, ListHead DEF IsList
<1>10. C[b] = <<n>> \o s /\ \A c \in Bucket : c # b => C[c] = B[c]
  BY <1>2, <1>8
<1>11. C \in [Bucket -> Seq(Node)] /\ ToSet(C[b]) = ToSet(s) \cup {n}
  BY <1>1, <1>2, <1>8, <1>9, <1>10, Prepended
<1>f. Filed(C, B, b, n)
  <2>1. \A x : Later(C[b], x) = IF x = n THEN ToSet(s) ELSE Later(s, x)
    BY <1>1, <1>2, <1>9, <1>10, LaterPrepend
  <2> HIDE DEF b, C
  <2> QED
    BY <1>10, <2>1 DEF Filed
<1>12. n # h
  BY <1>1, <1>2, <1>9, NodeFacts
<1> HIDE DEF b, h, s, C
<1>13. Linked(d.node_next_, d.node_prev_, d.bucket[b], C[b])
  <2>1. Linked(m.node_next_, m.node_prev_, h, s) /\ n \notin ToSet(s)
    BY <1>1, <1>2, <1>8 DEF h, s
  <2>2. /\ d.node_next_[n] = h /\ \A x \in ToSet(s) : d.node_next_[x] = m.node_next_[x]
        /\ d.node_prev_[n] = INVALID
        /\ \A x \in ToSet(s) : d.node_prev_[x] = IF x = h THEN n ELSE m.node_prev_[x]
    BY <1>1, <1>7, <1>9, <1>12, <2>1, InList
  <2>3. Linked(d.node_next_, d.node_prev_, n, <<n>> \o s)
    BY <1>1, <2>1, <2>2, LinkedPrepend
  <2> QED
    BY <1>7, <1>10, <2>3
<1>14. ASSUME NEW c \in Bucket, c # b
       PROVE  Linked(d.node_next_, d.node_prev_, d.bucket[c], C[c])
  <2>1. B[c] \in Seq(Node) /\ Linked(m.node_next_, m.node_prev_, m.bucket[c], B[c])
    BY <1>8
  <2>2. \A x \in ToSet(B[c]) : x \in Node /\ x # n /\ x # h
    <3>1. \A x \in ToSet(B[c]) : x \in Node /\ x # n /\ get_bucket_id(m.key_[x]) = c
      BY <1>1, <2>1, InList DEF Lists
    <3>2. h # INVALID => get_bucket_id(m.key_[h]) = b
      BY <1>2, <1>9 DEF Lists, s
    <3> QED
      BY <1>14, <3>1, <3>2, NodeFacts
  <2>3. \A x \in ToSet(B[c]) : d.node_next_[x] = m.node_next_[x] /\ d.node_prev_[x] = m.node_prev_[x]
    BY <1>7, <2>2
  <2>4. Linked(d.node_next_, d.node_prev_, m.bucket[c], B[c])
    BY <2>1, <2>3, LinkedSame
  <2> QED
    BY <1>7, <1>10, <1>14, <2>4
<1>15. IsList(d.node_next_, d.free_list_, F)
  <2>1. F \in Seq(Node)
    BY <1>1 DEF IsList
  <2>2. \A x \in ToSet(F) : d.node_next_[x] = m.node_next_[x]
    BY <1>1, <1>7, <2>1, InList
  <2>3. IsList(d.node_next_, m.free_list_, F)
    <3> DEFINE nx == d.node_next_
               mx == m.node_next_
    <3>1. IsList(mx, m.free_list_, F) /\ \A x \in ToSet(F) : nx[x] = mx[x]
      BY <1>1, <2>2
    <3> HIDE DEF nx, mx
    <3>2. IsList(nx, m.free_list_, F)
      BY <3>1, ListSame
    <3> QED
      BY <3>2 DEF nx
  <2> QED
    BY <1>c, <2>3
<1>16. \A c \in Bucket : \A x \in ToSet(C[c]) :
         d.key_[x] \in Key /\ get_bucket_id(d.key_[x]) = c /\ x \notin ToSet(F)
  <2> SUFFICES ASSUME NEW c \in Bucket, NEW x \in ToSet(C[c])
               PROVE  m.key_[x] \in Key /\ get_bucket_id(m.key_[x]) = c /\ x \notin ToSet(F)
    BY <1>c
  <2>1. CASE c # b \/ x # n
    <3>1. x \in ToSet(B[c])
      BY <1>10, <1>11, <2>1 DEF s
    <3> QED
      BY <3>1 DEF Lists
  <2>2. CASE c = b /\ x = n
    BY <1>1, <2>2 DEF b
  <2> QED
    BY <2>1, <2>2
<1>17. \A x \in Node : x \in ToSet(F) \/ \E c \in Bucket : x \in ToSet(C[c])
  <2> SUFFICES ASSUME NEW x \in Node, x \notin ToSet(F)
               PROVE  \E c \in Bucket : x \in ToSet(C[c])
    OBVIOUS
  <2>1. CASE x = n
    BY <1>2, <1>11, <2>1
  <2>2. CASE x # n
    <3>1. PICK c \in Bucket : x \in ToSet(B[c])
      BY <2>2 DEF Lists
    <3>2. x \in ToSet(C[c])
      BY <1>10, <1>11, <3>1 DEF s
    <3> QED
      BY <3>2
  <2> QED
    BY <2>1, <2>2
<1>18. Lists(d, F, C, {})
  BY <1>11, <1>13, <1>14, <1>15, <1>16, <1>17 DEF Lists
<1> QED
  BY <1>c, <1>6, <1>f, <1>18 DEF b, d, NodeInserted

LEMMA DeleteFromNodeList ==
  ASSUME NEW m \in TableType, NEW F, NEW B, Lists(m, F, B, {}),
         NEW b \in Bucket, NEW n \in ToSet(B[b])
  PROVE  LET d == delete_from_node_list(m, n)
         IN  /\ d \in TableType /\ KeepsAdds(d, m) /\ KeepsValues(d, m)
             /\ d.used_node_num_ = m.used_node_num_ - 1
             /\ d.used_bucket_num_ = m.used_bucket_num_
             /\ b = get_bucket_id(m.key_[n])
             /\ m.bucket[b] # INVALID /\ \A c \in Bucket : c # b => d.bucket[c] = m.bucket[c]
             /\ d.key_ = m.key_
             /\ \E C : Lists(d, F, C, {n}) /\ Unfiled(C, B, n)
<1> DEFINE d == delete_from_node_list(m, n)
           s == B[b]
           h == m.bucket[b]
           next == m.node_next_[n]
           prev == m.node_prev_[n]
           h2 == IF h = n THEN next ELSE h
           N == Put(Put(m.node_next_, prev, next), n, INVALID)
           P == Put(Put(m.node_prev_, next, prev), n, INVALID)
           K == [m.bucket EXCEPT ![b] = h2]
           u == m.used_node_num_ - 1
<1>1. /\ s \in Seq(Node) /\ Linked(m.node_next_, m.node_prev_, h, s)
      /\ m.key_[n] \in Key /\ get_bucket_id(m.key_[n]) = b /\ n \notin ToSet(F)
      /\ IsList(m.node_next_, m.free_list_, F)
  BY DEF Lists
<1>2. IsList(m.node_next_, h, s) /\ IsInjective(s)
  BY <1>1 DEF Linked, IsList
<1>3. PICK k \in 1 .. Len(s) : n = s[k]
  BY <1>1, InList
<1>4. n \in Node
  BY <1>1, InList
<1>5. next = At(s, k + 1) /\ prev = At(s, k - 1)
  BY <1>1, <1>2, <1>3 DEF Linked, IsList
<1>6. /\ n \in Handle /\ next \in Handle /\ prev \in Handle /\ INVALID \in Handle
      /\ m.node_prev_ \in [Node -> Handle] /\ m.node_next_ \in [Node -> Handle]
      /\ h \in Handle
  BY <1>4 DEF TableType, Handle
<1>7. ArePut(N, m.node_next_, prev, next, n, INVALID) /\ ArePut(P, m.node_prev_, next, prev, n, INVALID)
  <2>1. ArePut(N, m.node_next_, prev, next, n, INVALID)
    BY <1>6, PutTwice
  <2>2. ArePut(P, m.node_prev_, next, prev, n, INVALID)
    BY <1>6, PutTwice
  <2> QED
    BY <2>1, <2>2
<1>8. d = [m EXCEPT !.node_next_ = N, !.node_prev_ = P, !.bucket = K, !.used_node_num_ = u]
  BY <1>1 DEF delete_from_node_list, TableType
<1>9. N \in [Node -> Handle] /\ P \in [Node -> Handle] /\ K \in [Bucket -> Handle] /\ u \in Int
  BY <1>6, <1>7 DEF ArePut, TableType
<1>10. K[b] = h2 /\ \A c \in Bucket : c # b => K[c] = m.bucket[c]
  BY DEF TableType
<1>11. u = m.used_node_num_ - 1
  OBVIOUS
<1> HIDE DEF N, P, K, u, d
<1>12. /\ d \in TableType /\ KeepsAdds(d, m) /\ KeepsValues(d, m)
       /\ d.node_next_ = N /\ d.node_prev_ = P /\ d.bucket = K
       /\ d.used_node_num_ = u /\ d.used_bucket_num_ = m.used_bucket_num_
       /\ d.free_list_ = m.free_list_ /\ d.key_ = m.key_
  BY <1>8, <1>9 DEF TableType, KeepsAdds, KeepsValues
<1> DEFINE C == [B EXCEPT ![b] = Cut(s, k)]
<1>13. B \in [Bucket -> Seq(Node)]
  BY DEF Lists
<1>14. C[b] = Cut(s, k) /\ \A c \in Bucket : c # b => C[c] = B[c]
  BY <1>13
<1>15. Cut(s, k) \in Seq(Node) /\ ToSet(Cut(s, k)) = ToSet(s) \ {n}
  BY <1>1, <1>2, <1>3, CutNodes
<1>16. C \in [Bucket -> Seq(Node)]
  BY <1>13, <1>15
<1>f. Unfiled(C, B, n)
  <2> HIDE DEF C, s
  <2>1. \A x : Later(C[b], x) = IF x = n THEN {} ELSE Later(s, x) \ {n}
    BY <1>1, <1>2, <1>3, <1>14, LaterCut
  <2>2. ASSUME NEW c \in Bucket, c # b, NEW x
        PROVE  Later(C[c], x) = IF x = n THEN {} ELSE Later(B[c], x) \ {n}
    <3>1. B[c] \in Seq(Node) /\ IsInjective(B[c]) /\ n \notin ToSet(B[c])
      BY <1>1, <2>2 DEF Lists, Linked, IsList
    <3>2. n \notin Later(B[c], x) /\ Later(B[c], n) = {}
      BY <3>1, LaterIn
    <3> QED
      BY <1>14, <2>2, <3>2
  <2> QED
    BY <2>1, <2>2 DEF Unfiled, s
<1>17. h # INVALID
  <2>1. Len(s) \in Nat /\ h = At(s, 1)
    BY <1>1, <1>2, SeqNode DEF IsList
  <2>2. 1 \in 1 .. Len(s)
    BY <1>3, <2>1
  <2> QED
    BY <1>1, <2>1, <2>2, SeqNode
<1>18. (next # INVALID => next \in ToSet(s)) /\ (prev # INVALID => prev \in ToSet(s))
  BY <1>1, <1>5, InList DEF At
<1> HIDE DEF C, s, h, next, prev, h2
<1>19. \A x \in Node : /\ x # n => N[x] = IF x = prev THEN next ELSE m.node_next_[x]
                       /\ x # n => P[x] = IF x = next THEN prev ELSE m.node_prev_[x]
                       /\ x = n => N[x] = INVALID
  BY <1>7 DEF ArePut
<1>20. Linked(N, P, h2, Cut(s, k))
  <2>1. \A x \in Node : x # s[k] =>
           /\ N[x] = IF x = At(s, k - 1) THEN At(s, k + 1) ELSE m.node_next_[x]
           /\ P[x] = IF x = At(s, k + 1) THEN At(s, k - 1) ELSE m.node_prev_[x]
    BY <1>3, <1>5, <1>19
  <2>2. h2 = IF h = s[k] THEN At(s, k + 1) ELSE h
    BY <1>3, <1>5 DEF h2
  <2> QED
    BY <1>1, <1>3, <2>1, <2>2, LinkedCut
<1>21. ASSUME NEW x \in Node, x # n, x \notin ToSet(s)
       PROVE  N[x] = m.node_next_[x] /\ P[x] = m.node_prev_[x]
  BY <1>18, <1>19, <1>21, NodeFacts
<1>22. ASSUME NEW c \in Bucket
       PROVE  Linked(N, P, K[c], C[c])
  <2>1. CASE c = b
    BY <1>10, <1>14, <1>20, <2>1
  <2>2. CASE c # b
    <3>1. B[c] \in Seq(Node) /\ Linked(m.node_next_, m.node_prev_, m.bucket[c], B[c])
      BY DEF Lists
    <3>2. \A x \in ToSet(B[c]) : x \in Node /\ x # n /\ x \notin ToSet(s)
      BY <1>1, <2>2, <3>1, InList DEF Lists, s
    <3>3. \A x \in ToSet(B[c]) : N[x] = m.node_next_[x] /\ P[x] = m.node_prev_[x]
      BY <1>21, <3>2
    <3>4. Linked(N, P, m.bucket[c], B[c])
      BY <3>1, <3>3, LinkedSame
    <3> QED
      BY <1>10, <1>14, <2>2, <3>4
  <2> QED
    BY <2>1, <2>2
<1>23. IsList(N, m.free_list_, F)
  <2>1. \A x \in ToSet(F) : x \in Node /\ x # n /\ x \notin ToSet(s)
    BY <1>1, InList DEF Lists, IsList, s
  <2>2. \A x \in ToSet(F) : N[x] = m.node_next_[x]
    BY <1>21, <2>1
  <2> QED
    BY <1>1, <2>2, ListSame
<1>24. \A c \in Bucket : ToSet(C[c]) = ToSet(B[c]) \ {n}
  <2> SUFFICES ASSUME NEW c \in Bucket PROVE ToSet(C[c]) = ToSet(B[c]) \ {n}
    OBVIOUS
  <2>1. CASE c = b
    BY <1>14, <1>15, <2>1 DEF s
  <2>2. CASE c # b
    BY <1>1, <1>14, <2>2 DEF Lists
  <2> QED
    BY <2>1, <2>2
<1>25. Lists(d, F, C, {n})
  <2>1. \A c \in Bucket : Linked(d.node_next_, d.node_prev_, d.bucket[c], C[c])
    BY <1>12, <1>22
  <2>2. \A c \in Bucket : \A x \in ToSet(C[c]) :
          d.key_[x] \in Key /\ get_bucket_id(d.key_[x]) = c /\ x \notin ToSet(F)
    BY <1>12, <1>24 DEF Lists
  <2>3. \A x \in Node : x = n \/ x \in ToSet(F) \/ \E c \in Bucket : x \in ToSet(C[c])
    BY <1>24 DEF Lists
  <2> QED
    BY <1>1, <1>4, <1>12, <1>16, <1>19, <1>23, <1>24, <2>1, <2>2, <2>3 DEF Lists
<1> QED
  BY <1>1, <1>10, <1>11, <1>12, <1>17, <1>f, <1>25 DEF d, h

NodeInited(d, m, F, B, n, A) ==
  /\ d \in TableType /\ KeepsCounts(d, m) /\ d.bucket = m.bucket /\ d.key_ = m.key_
  /\ d.chunk_len_ = [m.chunk_len_ EXCEPT ![n] = 0]
  /\ d.chunk_head_ = [m.chunk_head_ EXCEPT ![n] = INVALID]
  /\ Lists(d, F, B, {n}) /\ Added(d, A)

LEMMA InitNode ==
  ASSUME NEW m \in TableType, NEW F, NEW B, NEW n, Lists(m, F, B, {n}),
         NEW A, Added(m, A), n \notin ToSet(A)
  PROVE  NodeInited(init_node(m, n), m, F, B, n, A)
<1> DEFINE d == init_node(m, n)
           N == [m.node_next_ EXCEPT ![n] = INVALID]
           P == [m.node_prev_ EXCEPT ![n] = INVALID]
           AN == [m.add_next_ EXCEPT ![n] = INVALID]
           AP == [m.add_prev_ EXCEPT ![n] = INVALID]
           L == [m.chunk_len_ EXCEPT ![n] = 0]
           H == [m.chunk_head_ EXCEPT ![n] = INVALID]
<1>1. /\ n \in Node /\ m.node_next_[n] = INVALID /\ \A b \in Bucket : n \notin ToSet(B[b])
      /\ n \notin ToSet(F)
  BY DEF Lists
<1>2. d = [m EXCEPT !.node_next_ = N, !.node_prev_ = P, !.add_next_ = AN, !.add_prev_ = AP,
                    !.chunk_len_ = L, !.chunk_head_ = H]
  BY DEF init_node, TableType
<1>3. /\ N \in [Node -> Handle] /\ P \in [Node -> Handle]
      /\ AN \in [Node -> Handle] /\ AP \in [Node -> Handle]
      /\ L \in [Node -> Nat] /\ H \in [Node -> ChunkHandle \cup {INVALID}]
  BY <1>1 DEF TableType, Handle
<1>4. \A x \in Node : /\ N[x] = m.node_next_[x]
                      /\ x # n => P[x] = m.node_prev_[x] /\ AN[x] = m.add_next_[x] /\ AP[x] = m.add_prev_[x]
                      /\ x = n => AN[x] = INVALID /\ AP[x] = INVALID
  BY <1>1 DEF TableType
<1> HIDE DEF N, P, AN, AP, L, H, d
<1>5. /\ d \in TableType /\ KeepsCounts(d, m) /\ d.bucket = m.bucket
      /\ d.chunk_len_ = L /\ d.chunk_head_ = H
      /\ d.node_next_ = N /\ d.node_prev_ = P /\ d.add_next_ = AN /\ d.add_prev_ = AP
      /\ d.key_ = m.key_ /\ d.free_list_ = m.free_list_
      /\ d.add_head_ = m.add_head_ /\ d.add_tail_ = m.add_tail_
  BY <1>2, <1>3 DEF TableType, KeepsCounts
<1>6. IsList(N, m.free_list_, F)
  <2>1. IsList(m.node_next_, m.free_list_, F) /\ F \in Seq(Node)
    BY DEF Lists, IsList
  <2>2. \A x \in ToSet(F) : N[x] = m.node_next_[x]
    BY <1>4, <2>1, InList
  <2> QED
    BY <2>1, <2>2, ListSame
<1>7. ASSUME NEW b \in Bucket
      PROVE  Linked(N, P, m.bucket[b], B[b])
  <2>1. B[b] \in Seq(Node) /\ Linked(m.node_next_, m.node_prev_, m.bucket[b], B[b])
    BY DEF Lists
  <2>2. \A x \in ToSet(B[b]) : N[x] = m.node_next_[x] /\ P[x] = m.node_prev_[x]
    BY <1>1, <1>4, <2>1, InList
  <2> QED
    BY <2>1, <2>2, LinkedSame
<1>8. Lists(d, F, B, {n})
  BY <1>1, <1>4, <1>5, <1>6, <1>7 DEF Lists
<1>9. Linked(AN, AP, m.add_head_, A)
  <2>1. Linked(m.add_next_, m.add_prev_, m.add_head_, A) /\ A \in Seq(Node)
    BY DEF Added, Linked, IsList
  <2>2. \A x \in ToSet(A) : AN[x] = m.add_next_[x] /\ AP[x] = m.add_prev_[x]
    BY <1>4, <2>1, InList
  <2> QED
    BY <2>1, <2>2, LinkedSame
<1>10. Added(d, A)
  BY <1>4, <1>5, <1>9 DEF Added
<1> QED
  BY <1>5, <1>8, <1>10 DEF d, L, H, NodeInited

LEMMA ListLast ==
  ASSUME NEW s \in Seq(Node)
  PROVE  /\ At(s, Len(s)) \in Handle /\ At(s, 1) \in Handle
         /\ At(s, Len(s)) # INVALID => At(s, Len(s)) \in ToSet(s)
         /\ At(s, Len(s)) = INVALID <=> Len(s) = 0
         /\ At(s, 1) = INVALID <=> Len(s) = 0
<1>1. Len(s) \in Nat
  BY SeqNode
<1>2. Len(s) \in 1 .. Len(s) <=> Len(s) # 0
  BY <1>1
<1>3. 1 \in 1 .. Len(s) <=> Len(s) # 0
  BY <1>1
<1> QED
  BY <1>2, <1>3, SeqNode, InList DEF At, Handle

LEMMA DeleteFromAddList ==
  ASSUME NEW m \in TableType, NEW A, Added(m, A), NEW n \in Node
  PROVE  LET d == delete_from_add_list(m, n)
         IN  /\ d \in TableType /\ KeepsNodes(d, m) /\ KeepsCounts(d, m) /\ KeepsValues(d, m)
             /\ \E C : Added(d, C) /\ ToSet(C) = ToSet(A) \ {n} /\ Dropped(C, A, n)
<1> DEFINE d == delete_from_add_list(m, n)
           next == m.add_next_[n]
           prev == m.add_prev_[n]
           h == m.add_head_
           l == m.add_tail_
           h2 == IF h = n THEN next ELSE h
           l2 == IF l = n THEN prev ELSE l
           N == Put(Put(m.add_next_, prev, next), n, INVALID)
           P == Put(Put(m.add_prev_, next, prev), n, INVALID)
<1>1. /\ A \in Seq(Node) /\ Linked(m.add_next_, m.add_prev_, h, A) /\ h = At(A, 1)
      /\ IsInjective(A) /\ l = At(A, Len(A))
      /\ \A x \in Node : x \notin ToSet(A) => m.add_next_[x] = INVALID /\ m.add_prev_[x] = INVALID
  BY DEF Added, Linked, IsList
<1>2. /\ n \in Handle /\ next \in Handle /\ prev \in Handle /\ INVALID \in Handle
      /\ m.add_prev_ \in [Node -> Handle] /\ m.add_next_ \in [Node -> Handle]
      /\ h \in Handle /\ l \in Handle
  BY DEF TableType, Handle
<1>3. ArePut(N, m.add_next_, prev, next, n, INVALID)
  BY <1>2, PutTwice
<1>4. ArePut(P, m.add_prev_, next, prev, n, INVALID)
  BY <1>2, PutTwice
<1>5. d = [m EXCEPT !.add_next_ = N, !.add_prev_ = P, !.add_head_ = h2, !.add_tail_ = l2]
  BY DEF delete_from_add_list, TableType
<1>6. N \in [Node -> Handle] /\ P \in [Node -> Handle] /\ h2 \in Handle /\ l2 \in Handle
  BY <1>2, <1>3, <1>4 DEF ArePut
<1> HIDE DEF N, P, h2, l2, d
<1>7. /\ d \in TableType /\ KeepsNodes(d, m) /\ KeepsCounts(d, m) /\ KeepsValues(d, m)
      /\ d.add_next_ = N /\ d.add_prev_ = P /\ d.add_head_ = h2 /\ d.add_tail_ = l2
  BY <1>5, <1>6 DEF TableType, KeepsNodes, KeepsCounts, KeepsValues
<1>8. \A x \in Node : /\ x # n => N[x] = IF x = prev THEN next ELSE m.add_next_[x]
                      /\ x # n => P[x] = IF x = next THEN prev ELSE m.add_prev_[x]
                      /\ x = n => N[x] = INVALID /\ P[x] = INVALID
  BY <1>3, <1>4 DEF ArePut
<1>9. CASE n \notin ToSet(A)
  <2>1. next = INVALID /\ prev = INVALID
    BY <1>1, <1>9
  <2>2. \A x \in Node : N[x] = m.add_next_[x] /\ P[x] = m.add_prev_[x]
    BY <1>8, <2>1, NodeFacts
  <2>3. h2 = h /\ l2 = l
    <3>1. h # n
      BY <1>1, <1>9, ListHead, NodeFacts DEF Linked
    <3>2. l # n
      BY <1>1, <1>9, ListLast, NodeFacts
    <3> QED
      BY <3>1, <3>2 DEF h2, l2
  <2>4. \A x \in ToSet(A) : N[x] = m.add_next_[x] /\ P[x] = m.add_prev_[x]
    BY <1>1, <2>2, InList
  <2>5. Linked(N, P, h, A)
    BY <1>1, <2>4, LinkedSame
  <2>6. Added(d, A)
    BY <1>1, <1>7, <2>2, <2>3, <2>5 DEF Added
  <2>7. Dropped(A, A, n)
    BY <1>1, <1>9, LaterIn DEF Dropped
  <2> QED
    BY <1>7, <1>9, <2>6, <2>7 DEF d
<1>10. CASE n \in ToSet(A)
  <2>1. PICK k \in 1 .. Len(A) : n = A[k]
    BY <1>1, <1>10, InList
  <2>2. next = At(A, k + 1) /\ prev = At(A, k - 1)
    BY <1>1, <2>1 DEF Linked, IsList
  <2> DEFINE C == Cut(A, k)
             q == Len(A)
  <2>3. /\ C \in Seq(Node) /\ Len(C) = q - 1 /\ ToSet(C) = ToSet(A) \ {n}
        /\ \A j \in Int : At(C, j) = IF j < k THEN At(A, j) ELSE At(A, j + 1)
    BY <1>1, <2>1, CutNodes
  <2>9. Dropped(C, A, n)
    BY <1>1, <2>1, LaterCut DEF Dropped
  <2>4. q \in Nat /\ k \in 1 .. q
    BY <1>1, SeqNode
  <2>5. Linked(N, P, h2, C)
    <3>1. \A x \in Node : x # A[k] =>
             /\ N[x] = IF x = At(A, k - 1) THEN At(A, k + 1) ELSE m.add_next_[x]
             /\ P[x] = IF x = At(A, k + 1) THEN At(A, k - 1) ELSE m.add_prev_[x]
      BY <1>8, <2>1, <2>2
    <3>2. h2 = IF h = A[k] THEN At(A, k + 1) ELSE h
      BY <2>1, <2>2 DEF h2
    <3> HIDE DEF h
    <3> QED
      BY <1>1, <3>1, <3>2, LinkedCut
  <2> HIDE DEF C, q
  <2>6. l2 = At(C, Len(C))
    <3>1. CASE k = q
      <4>1. l = n
        BY <1>1, <2>1, <2>4, <3>1 DEF At, q
      <4>2. q - 1 \in Int /\ q - 1 < k /\ q - 1 = k - 1
        BY <2>4, <3>1
      <4> QED
        BY <2>2, <2>3, <4>1, <4>2 DEF l2
    <3>2. CASE k # q
      <4>1. q \in 1 .. q /\ q - 1 \in Int /\ ~(q - 1 < k) /\ (q - 1) + 1 = q
        BY <2>4, <3>2
      <4>2. l = A[q] /\ A[q] # A[k]
        <5>1. l = A[q]
          BY <1>1, <4>1 DEF At, q
        <5>2. A[q] # A[k]
          BY <1>1, <2>4, <3>2, <4>1, SameIndex DEF q
        <5> QED
          BY <5>1, <5>2
      <4>3. At(C, q - 1) = At(A, q)
        BY <2>3, <4>1
      <4> QED
        BY <1>1, <2>1, <2>3, <4>2, <4>3 DEF l2, q
    <3> QED
      BY <3>1, <3>2
  <2>7. ASSUME NEW x \in Node, x \notin ToSet(C)
        PROVE  N[x] = INVALID /\ P[x] = INVALID
    <3>1. CASE x = n
      BY <1>8, <3>1
    <3>2. CASE x # n
      <4>1. x \notin ToSet(A)
        BY <2>3, <2>7, <3>2
      <4>2. x # next /\ x # prev
        BY <1>1, <2>2, <4>1, InList, NodeFacts DEF At
      <4> QED
        BY <1>1, <1>8, <3>2, <4>1, <4>2
    <3> QED
      BY <3>1, <3>2
  <2>8. Added(d, C)
    BY <1>7, <2>5, <2>6, <2>7 DEF Added
  <2> QED
    BY <1>7, <2>3, <2>8, <2>9 DEF d
<1> QED
  BY <1>9, <1>10

LEMMA InsertAddListHead ==
  ASSUME NEW m \in TableType, NEW A, Added(m, A), NEW n \in Node
  PROVE  LET e == insert_add_list_head(m, n)
         IN  /\ e \in TableType /\ KeepsNodes(e, m) /\ KeepsCounts(e, m) /\ KeepsValues(e, m)
             /\ \E C : Added(e, C) /\ ToSet(C) = ToSet(A) \cup {n} /\ ToHead(C, A, n)
<1> DEFINE d == delete_from_add_list(m, n)
           e == insert_add_list_head(m, n)
           h == d.add_head_
           l == d.add_tail_
           l2 == IF l = INVALID THEN n ELSE l
           N == [d.add_next_ EXCEPT ![n] = h]
           P == Put(Put(d.add_prev_, n, INVALID), h, n)
<1>1. d \in TableType /\ KeepsNodes(d, m) /\ KeepsCounts(d, m) /\ KeepsValues(d, m)
  BY DeleteFromAddList
<1>2. PICK C : Added(d, C) /\ ToSet(C) = ToSet(A) \ {n} /\ Dropped(C, A, n)
  BY DeleteFromAddList
<1>3. e = [d EXCEPT !.add_next_[n] = h, !.add_head_ = n, !.add_tail_ = IF @ = INVALID THEN n ELSE @,
                    !.add_prev_ = Put(Put(@, n, INVALID), h, n)]
  BY DEF insert_add_list_head
<1> HIDE DEF d, e
<1>4. e = [d EXCEPT !.add_next_ = N, !.add_prev_ = P, !.add_head_ = n, !.add_tail_ = l2]
  BY <1>1, <1>3 DEF TableType
<1>5. /\ n \in Handle /\ h \in Handle /\ l \in Handle /\ INVALID \in Handle
      /\ d.add_prev_ \in [Node -> Handle] /\ d.add_next_ \in [Node -> Handle]
  BY <1>1 DEF TableType, Handle
<1>6. ArePut(P, d.add_prev_, n, INVALID, h, n)
  BY <1>5, PutTwice
<1>7. N \in [Node -> Handle] /\ P \in [Node -> Handle] /\ l2 \in Handle
  BY <1>5, <1>6 DEF ArePut
<1>8. /\ N[n] = h /\ \A x \in Node : x # n => N[x] = d.add_next_[x]
      /\ \A x \in Node : P[x] = IF x = h THEN n ELSE IF x = n THEN INVALID ELSE d.add_prev_[x]
  BY <1>5, <1>6 DEF ArePut
<1> HIDE DEF N, P, l2
<1>9. /\ e \in TableType /\ KeepsNodes(e, d) /\ KeepsCounts(e, d) /\ KeepsValues(e, d)
      /\ e.add_next_ = N /\ e.add_prev_ = P /\ e.add_head_ = n /\ e.add_tail_ = l2
  BY <1>1, <1>4, <1>5, <1>7 DEF TableType, KeepsNodes, KeepsCounts, KeepsValues
<1>10. KeepsNodes(e, m) /\ KeepsCounts(e, m) /\ KeepsValues(e, m)
  BY <1>1, <1>9 DEF KeepsNodes, KeepsCounts, KeepsValues
<1>11. /\ C \in Seq(Node) /\ IsInjective(C) /\ h = At(C, 1) /\ l = At(C, Len(C))
       /\ Linked(d.add_next_, d.add_prev_, h, C) /\ IsList(d.add_next_, h, C)
       /\ \A x \in Node : x \notin ToSet(C) => d.add_next_[x] = INVALID /\ d.add_prev_[x] = INVALID
  BY <1>2 DEF Added, Linked, IsList
<1> DEFINE D == <<n>> \o C
           q == Len(C)
<1>12. n \notin ToSet(C)
  BY <1>2
<1>13. /\ D \in Seq(Node) /\ Len(D) = q + 1 /\ D[1] = n /\ \A i \in 1 .. q : D[i + 1] = C[i]
       /\ ToSet(D) = ToSet(C) \cup {n}
  BY <1>11, <1>12, Prepended
<1>d. ToHead(D, A, n)
  <2>1. \A x : Later(D, x) = IF x = n THEN ToSet(C) ELSE Later(C, x)
    BY <1>11, <1>12, LaterPrepend
  <2> QED
    BY <1>2, <2>1 DEF ToHead, Dropped
<1>14. h # n
  BY <1>11, <1>12, ListHead, NodeFacts
<1>15. Linked(N, P, n, D)
  <2>1. /\ \A x \in ToSet(C) : N[x] = d.add_next_[x]
        /\ P[n] = INVALID
        /\ \A x \in ToSet(C) : P[x] = IF x = h THEN n ELSE d.add_prev_[x]
    BY <1>8, <1>11, <1>12, <1>14, InList
  <2> HIDE DEF h
  <2> QED
    BY <1>8, <1>11, <1>12, <2>1, LinkedPrepend
<1>16. q \in Nat
  BY <1>11, SeqNode
<1> HIDE DEF D, q
<1>17. l2 = At(D, Len(D))
  <2>0. q + 1 \in 1 .. q + 1
    BY <1>16
  <2>1. At(D, Len(D)) = D[q + 1]
    BY <1>13, <2>0 DEF At
  <2>2. CASE q = 0
    <3>1. l = INVALID
      BY <1>11, <2>2, ListLast DEF q
    <3> QED
      BY <1>13, <2>1, <2>2, <3>1 DEF l2
  <2>3. CASE q # 0
    <3>1. q \in 1 .. q
      BY <1>16, <2>3
    <3>2. l # INVALID /\ l = C[q]
      BY <1>11, <2>3, <3>1, ListLast DEF q, At
    <3> QED
      BY <1>13, <2>1, <3>1, <3>2 DEF l2
  <2> QED
    BY <2>2, <2>3
<1>18. ASSUME NEW x \in Node, x \notin ToSet(D)
       PROVE  N[x] = INVALID /\ P[x] = INVALID
  <2>1. x # n /\ x \notin ToSet(C)
    BY <1>13, <1>18
  <2>2. x # h
    BY <1>11, <2>1, ListHead, NodeFacts
  <2> QED
    BY <1>8, <1>11, <2>1, <2>2
<1>19. Added(e, D)
  BY <1>9, <1>15, <1>17, <1>18 DEF Added
<1>20. ToSet(D) = ToSet(A) \cup {n}
  BY <1>2, <1>13
<1> QED
  BY <1>9, <1>10, <1>d, <1>19, <1>20 DEF e

LEMMA InsertAddListTail ==
  ASSUME NEW m \in TableType, NEW A, Added(m, A), NEW n \in Node
  PROVE  LET e == insert_add_list_tail(m, n)
         IN  /\ e \in TableType /\ KeepsNodes(e, m) /\ KeepsCounts(e, m) /\ KeepsValues(e, m)
             /\ \E C : Added(e, C) /\ ToSet(C) = ToSet(A) \cup {n} /\ ToEnd(C, A, n)
<1> DEFINE d == delete_from_add_list(m, n)
           e == insert_add_list_tail(m, n)
           h == d.add_head_
           l == d.add_tail_
           h2 == IF h = INVALID THEN n ELSE h
           P == [d.add_prev_ EXCEPT ![n] = l]
           N == Put(Put(d.add_next_, n, INVALID), l, n)
<1>1. d \in TableType /\ KeepsNodes(d, m) /\ KeepsCounts(d, m) /\ KeepsValues(d, m)
  BY DeleteFromAddList
<1>2. PICK C : Added(d, C) /\ ToSet(C) = ToSet(A) \ {n} /\ Dropped(C, A, n)
  BY DeleteFromAddList
<1>3. e = [d EXCEPT !.add_prev_[n] = l, !.add_tail_ = n, !.add_head_ = IF @ = INVALID THEN n ELSE @,
                    !.add_next_ = Put(Put(@, n, INVALID), l, n)]
  BY DEF insert_add_list_tail
<1> HIDE DEF d, e
<1>4. e = [d EXCEPT !.add_next_ = N, !.add_prev_ = P, !.add_head_ = h2, !.add_tail_ = n]
  BY <1>1, <1>3 DEF TableType
<1>5. /\ n \in Handle /\ h \in Handle /\ l \in Handle /\ INVALID \in Handle
      /\ d.add_prev_ \in [Node -> Handle] /\ d.add_next_ \in [Node -> Handle]
  BY <1>1 DEF TableType, Handle
<1>6. ArePut(N, d.add_next_, n, INVALID, l, n)
  BY <1>5, PutTwice
<1>7. N \in [Node -> Handle] /\ P \in [Node -> Handle] /\ h2 \in Handle
  BY <1>5, <1>6 DEF ArePut
<1>8. /\ P[n] = l /\ \A x \in Node : x # n => P[x] = d.add_prev_[x]
      /\ \A x \in Node : N[x] = IF x = l THEN n ELSE IF x = n THEN INVALID ELSE d.add_next_[x]
  BY <1>5, <1>6 DEF ArePut
<1> HIDE DEF N, P, h2
<1>9. /\ e \in TableType /\ KeepsNodes(e, d) /\ KeepsCounts(e, d) /\ KeepsValues(e, d)
      /\ e.add_next_ = N /\ e.add_prev_ = P /\ e.add_head_ = h2 /\ e.add_tail_ = n
  BY <1>1, <1>4, <1>5, <1>7 DEF TableType, KeepsNodes, KeepsCounts, KeepsValues
<1>10. KeepsNodes(e, m) /\ KeepsCounts(e, m) /\ KeepsValues(e, m)
  BY <1>1, <1>9 DEF KeepsNodes, KeepsCounts, KeepsValues
<1>11. /\ C \in Seq(Node) /\ IsInjective(C) /\ h = At(C, 1) /\ l = At(C, Len(C))
       /\ Linked(d.add_next_, d.add_prev_, h, C)
       /\ \A x \in Node : x \notin ToSet(C) => d.add_next_[x] = INVALID /\ d.add_prev_[x] = INVALID
  BY <1>2 DEF Added, Linked, IsList
<1> DEFINE D == Append(C, n)
<1>12. n \notin ToSet(C)
  BY <1>2
<1>13. l # n /\ (l # INVALID => l \in ToSet(C))
  BY <1>11, <1>12, ListLast, NodeFacts
<1>14. /\ N[n] = INVALID /\ P[n] = At(C, Len(C)) /\ h2 = IF h = INVALID THEN n ELSE h
       /\ \A x \in ToSet(C) : /\ N[x] = IF x = At(C, Len(C)) THEN n ELSE d.add_next_[x]
                              /\ P[x] = d.add_prev_[x]
  BY <1>8, <1>11, <1>12, <1>13, InList DEF h2
<1> HIDE DEF h
<1>15. LinkedBehind(N, P, h2, D, C, n)
  <2>1. Linked(d.add_next_, d.add_prev_, h, C)
    BY <1>11
  <2>2. \A x \in ToSet(C) : /\ N[x] = IF x = At(C, Len(C)) THEN n ELSE d.add_next_[x]
                            /\ P[x] = d.add_prev_[x]
    BY <1>14
  <2>3. N[n] = INVALID /\ P[n] = At(C, Len(C))
    BY <1>14
  <2>4. h2 = IF h = INVALID THEN n ELSE h
    BY <1>14
  <2> QED
    BY <1>12, <2>1, <2>2, <2>3, <2>4, LinkedAppend
<1>16. ToSet(D) = ToSet(C) \cup {n} /\ At(D, Len(D)) = n /\ Linked(N, P, h2, D)
  BY <1>15 DEF LinkedBehind
<1>d. ToEnd(D, A, n)
  <2>1. \A x : Later(D, x) = IF x \in ToSet(C) THEN Later(C, x) \cup {n} ELSE {}
    BY <1>11, <1>12, <1>16, LaterAppend
  <2> HIDE DEF D
  <2> QED
    BY <1>2, <2>1 DEF ToEnd, Dropped
<1> HIDE DEF D
<1>18. ASSUME NEW x \in Node, x \notin ToSet(D)
       PROVE  N[x] = INVALID /\ P[x] = INVALID
  <2>1. x # n /\ x \notin ToSet(C) /\ x # l
    BY <1>13, <1>16, <1>18, NodeFacts
  <2> QED
    BY <1>8, <1>11, <2>1
<1>19. Added(e, D)
  BY <1>9, <1>16, <1>18 DEF Added
<1>20. ToSet(D) = ToSet(A) \cup {n}
  BY <1>2, <1>16
<1> QED
  BY <1>9, <1>10, <1>d, <1>19, <1>20 DEF e

-----------------------------------------------------------------------------
(***************************************************************************)
(* What the calls do to the table.                                         *)
(***************************************************************************)
Busy(m) == {b \in Bucket : m.bucket[b] # INVALID}

LEMMA BusyFinite ==
  ASSUME NEW m
  PROVE  IsFiniteSet(Busy(m)) /\ Cardinality(Busy(m)) \in Int
<1>1. IsFiniteSet(Bucket)
  <2>1. 0 \in Int /\ BucketSize - 1 \in Int
    BY NodeFacts
  <2> QED
    BY <2>1, FS_Interval DEF Bucket
<1>2. Busy(m) \in SUBSET Bucket
  BY DEF Busy
<1>3. IsFiniteSet(Busy(m))
  BY <1>1, <1>2, FS_Subset
<1> QED
  BY <1>3, FS_CardinalityType

LEMMA BucketLen ==
  ASSUME NEW m \in TableType, Ends(m.node_next_), NEW b \in Bucket
  PROVE  get_bucket_list_len(m, b) = 0 <=> m.bucket[b] = INVALID
<1>1. m.bucket[b] \in Node \cup {INVALID} /\ m.node_next_ \in [Node -> Node \cup {INVALID}]
  BY DEF TableType, Handle
<1> QED
  BY <1>1, WalkEmpty DEF get_bucket_list_len

LEMMA UseNode ==
  ASSUME NEW m \in TableType, NEW F, NEW B, NEW n, Lists(m, F, B, {n}),
         NEW k \in Key, NEW len \in Nat, NEW h \in ChunkHandle,
         m.used_bucket_num_ = Cardinality(Busy(m))
  PROVE  LET e == use_node(m, n, k, len, h)
         IN  /\ e \in TableType /\ KeepsAdds(e, m)
             /\ e.chunk_len_ = [m.chunk_len_ EXCEPT ![n] = len]
             /\ e.chunk_head_ = [m.chunk_head_ EXCEPT ![n] = h]
             /\ e.used_node_num_ = m.used_node_num_ + 1
             /\ e.used_bucket_num_ = Cardinality(Busy(e))
             /\ e.key_ = [m.key_ EXCEPT ![n] = k]
             /\ \E C : Lists(e, F, C, {}) /\ Filed(C, B, get_bucket_id(k), n)
<1> DEFINE K == [m.key_ EXCEPT ![n] = k]
           L == [m.chunk_len_ EXCEPT ![n] = len]
           H == [m.chunk_head_ EXCEPT ![n] = h]
           m1 == [m EXCEPT !.key_[n] = k, !.chunk_len_[n] = len, !.chunk_head_[n] = h]
           m2 == CountBucket(m1, k)
           e == use_node(m, n, k, len, h)
           b == get_bucket_id(k)
<1>1. n \in Node /\ \A c \in Bucket : n \notin ToSet(B[c])
  BY DEF Lists
<1>2. m1 = [m EXCEPT !.key_ = K, !.chunk_len_ = L, !.chunk_head_ = H]
  BY DEF TableType
<1>3. /\ K \in [Node -> Key \cup {NoKey}] /\ L \in [Node -> Nat]
      /\ H \in [Node -> ChunkHandle \cup {INVALID}]
      /\ K[n] = k /\ \A x \in Node : x # n => K[x] = m.key_[x]
  BY <1>1 DEF TableType
<1>4. e = insert_node_list(m2, n)
  BY DEF use_node
<1> HIDE DEF K, L, H, m1
<1>5. /\ m1 \in TableType /\ KeepsAdds(m1, m) /\ KeepsCounts(m1, m)
      /\ m1.key_ = K /\ m1.chunk_len_ = L /\ m1.chunk_head_ = H
      /\ m1.node_next_ = m.node_next_ /\ m1.node_prev_ = m.node_prev_
      /\ m1.free_list_ = m.free_list_ /\ m1.bucket = m.bucket
  BY <1>2, <1>3 DEF TableType, KeepsAdds, KeepsCounts
<1>6. Lists(m1, F, B, {n})
  <2>1. \A c \in Bucket : \A x \in ToSet(B[c]) : x \in Node /\ x # n
    BY <1>1, InList DEF Lists
  <2>2. \A c \in Bucket : \A x \in ToSet(B[c]) : m1.key_[x] = m.key_[x]
    BY <1>3, <1>5, <2>1
  <2>3. \A c \in Bucket : \A x \in ToSet(B[c]) :
          m1.key_[x] \in Key /\ get_bucket_id(m1.key_[x]) = c /\ x \notin ToSet(F)
    BY <2>2 DEF Lists
  <2> QED
    BY <1>5, <2>3 DEF Lists
<1>7. b \in Bucket
  BY BucketId
<1>8. get_bucket_list_len(m1, b) = 0 <=> m1.bucket[b] = INVALID
  BY <1>5, <1>6, <1>7, ListsEnd, BucketLen
<1> DEFINE u == IF m1.bucket[b] = INVALID THEN m1.used_bucket_num_ + 1 ELSE m1.used_bucket_num_
<1>9. m2 = [m1 EXCEPT !.used_bucket_num_ = u]
  BY <1>8 DEF CountBucket
<1>10. u \in Int
  BY <1>5 DEF TableType
<1> HIDE DEF u, m2, e, b
<1>11. /\ m2 \in TableType /\ KeepsAdds(m2, m1) /\ KeepsNodes(m2, m1) /\ KeepsValues(m2, m1)
       /\ m2.used_bucket_num_ = u /\ m2.used_node_num_ = m1.used_node_num_
  BY <1>5, <1>9, <1>10 DEF TableType, KeepsAdds, KeepsNodes, KeepsValues
<1>12. Lists(m2, F, B, {n})
  BY <1>6, <1>11, ListsSame
<1>13. m2.key_[n] = k
  BY <1>3, <1>5, <1>11 DEF KeepsNodes
<1>14. /\ e \in TableType /\ KeepsAdds(e, m2) /\ KeepsValues(e, m2)
       /\ e.used_node_num_ = m2.used_node_num_ + 1
       /\ e.used_bucket_num_ = m2.used_bucket_num_
       /\ e.bucket = [m2.bucket EXCEPT ![b] = n]
       /\ e.key_ = m2.key_
       /\ \E C : Lists(e, F, C, {}) /\ Filed(C, B, b, n)
  <2>1. m2.key_[n] \in Key /\ get_bucket_id(m2.key_[n]) = b
    BY <1>13 DEF b
  <2>2. NodeInserted(e, m2, F, B, n, b)
    BY <1>4, <1>11, <1>12, <2>1, InsertNodeList
  <2> QED
    BY <2>2 DEF NodeInserted
<1>15. Busy(e) = Busy(m) \cup {b}
  <2>1. m2.bucket = m.bucket /\ m.bucket \in [Bucket -> Handle]
    BY <1>5, <1>11 DEF KeepsNodes, TableType
  <2>2. e.bucket[b] = n /\ \A c \in Bucket : c # b => e.bucket[c] = m.bucket[c]
    BY <1>7, <1>14, <2>1
  <2> QED
    BY <1>1, <1>7, <2>2, NodeFacts DEF Busy
<1>16. Cardinality(Busy(e)) = IF b \in Busy(m) THEN Cardinality(Busy(m)) ELSE Cardinality(Busy(m)) + 1
  BY <1>15, BusyFinite, FS_AddElement
<1>17. u = IF b \in Busy(m) THEN Cardinality(Busy(m)) ELSE Cardinality(Busy(m)) + 1
  BY <1>5, <1>7 DEF u, Busy, KeepsCounts
<1>18. e.used_bucket_num_ = Cardinality(Busy(e))
  BY <1>11, <1>14, <1>16, <1>17
<1>19. /\ KeepsAdds(e, m) /\ e.chunk_len_ = L /\ e.chunk_head_ = H
       /\ e.used_node_num_ = m.used_node_num_ + 1 /\ e.key_ = K
  BY <1>5, <1>11, <1>14 DEF KeepsAdds, KeepsValues, KeepsCounts, KeepsNodes
<1> QED
  BY <1>14, <1>18, <1>19 DEF e, K, L, H, b

LEMMA FreeNode ==
  ASSUME NEW m \in TableType, NEW F, NEW B, Lists(m, F, B, {}),
         NEW A, Added(m, A), NEW n \in Node, n \notin ToSet(A), n \notin ToSet(F),
         m.used_bucket_num_ = Cardinality(Busy(m))
  PROVE  LET e == free_node(m, n)
         IN  /\ e \in TableType /\ Added(e, A)
             /\ e.chunk_len_ = [m.chunk_len_ EXCEPT ![n] = 0]
             /\ e.chunk_head_ = [m.chunk_head_ EXCEPT ![n] = INVALID]
             /\ e.used_node_num_ = m.used_node_num_ - 1
             /\ e.used_bucket_num_ = Cardinality(Busy(e))
             /\ e.key_ = m.key_
             /\ \E C : Lists(e, F, C, {n}) /\ Unfiled(C, B, n)
<1> DEFINE d == delete_from_node_list(m, n)
           b == get_bucket_id(m.key_[n])
           u == IF d.bucket[b] = INVALID THEN d.used_bucket_num_ - 1 ELSE d.used_bucket_num_
           d2 == [d EXCEPT !.used_bucket_num_ = IF get_bucket_list_len(d, b) = 0 THEN @ - 1 ELSE @]
           e == free_node(m, n)
<1>1. PICK c \in Bucket : n \in ToSet(B[c])
  BY DEF Lists
<1>2. /\ d \in TableType /\ KeepsAdds(d, m) /\ KeepsValues(d, m)
      /\ d.used_node_num_ = m.used_node_num_ - 1
      /\ d.used_bucket_num_ = m.used_bucket_num_
      /\ c = b
      /\ m.bucket[b] # INVALID /\ \A x \in Bucket : x # b => d.bucket[x] = m.bucket[x]
      /\ d.key_ = m.key_
      /\ \E C : Lists(d, F, C, {n}) /\ Unfiled(C, B, n)
  BY <1>1, DeleteFromNodeList, SMTT(40)
<1>3. PICK C : Lists(d, F, C, {n}) /\ Unfiled(C, B, n)
  BY <1>2
<1>4. e = init_node(d2, n)
  BY DEF free_node
<1>5. b \in Bucket
  BY <1>1, <1>2
<1> HIDE DEF d, b
<1>6. get_bucket_list_len(d, b) = 0 <=> d.bucket[b] = INVALID
  BY <1>2, <1>3, <1>5, ListsEnd, BucketLen
<1>7. d2 = [d EXCEPT !.used_bucket_num_ = u]
  BY <1>6
<1>8. u \in Int
  BY <1>2 DEF TableType
<1> HIDE DEF u, d2, e
<1>9. /\ d2 \in TableType /\ KeepsAdds(d2, d) /\ KeepsNodes(d2, d) /\ KeepsValues(d2, d)
      /\ d2.used_bucket_num_ = u /\ d2.used_node_num_ = d.used_node_num_
  BY <1>2, <1>7, <1>8 DEF TableType, KeepsAdds, KeepsNodes, KeepsValues
<1>10. Lists(d2, F, C, {n}) /\ Added(d2, A)
  <2>1. Lists(d2, F, C, {n})
    BY <1>3, <1>9, ListsSame
  <2>2. Added(d, A)
    BY <1>2, AddedSame
  <2>3. Added(d2, A)
    BY <1>9, <2>2, AddedSame
  <2> QED
    BY <2>1, <2>3
<1>11. /\ e \in TableType /\ KeepsCounts(e, d2)
       /\ e.bucket = d2.bucket /\ e.key_ = d2.key_
       /\ e.chunk_len_ = [d2.chunk_len_ EXCEPT ![n] = 0]
       /\ e.chunk_head_ = [d2.chunk_head_ EXCEPT ![n] = INVALID]
       /\ Lists(e, F, C, {n}) /\ Added(e, A)
  <2>1. NodeInited(e, d2, F, C, n, A)
    BY <1>4, <1>9, <1>10, InitNode
  <2> QED
    BY <2>1 DEF NodeInited
<1>12. Busy(e) = IF d.bucket[b] = INVALID THEN Busy(m) \ {b} ELSE Busy(m)
  <2>1. e.bucket = d.bucket
    BY <1>9, <1>11 DEF KeepsNodes
  <2> QED
    BY <1>2, <1>5, <2>1 DEF Busy
<1>13. b \in Busy(m)
  BY <1>2, <1>5 DEF Busy
<1>14. Cardinality(Busy(e)) = IF d.bucket[b] = INVALID THEN Cardinality(Busy(m)) - 1 ELSE Cardinality(Busy(m))
  <2>1. Cardinality(Busy(m) \ {b}) = Cardinality(Busy(m)) - 1
    BY <1>13, BusyFinite, FS_RemoveElement
  <2> QED
    BY <1>12, <2>1
<1>15. e.used_bucket_num_ = Cardinality(Busy(e))
  BY <1>2, <1>9, <1>11, <1>14 DEF KeepsCounts, u
<1>16. /\ e.chunk_len_ = [m.chunk_len_ EXCEPT ![n] = 0]
       /\ e.chunk_head_ = [m.chunk_head_ EXCEPT ![n] = INVALID]
       /\ e.used_node_num_ = m.used_node_num_ - 1
       /\ e.key_ = m.key_
  BY <1>2, <1>9, <1>11 DEF KeepsValues, KeepsCounts, KeepsNodes
<1> QED
  BY <1>3, <1>11, <1>15, <1>16 DEF e

(* The table is in order: its lists have the nodes, its counters agree.    *)
Good(m, F, B, A) ==
  /\ m \in TableType
  /\ Lists(m, F, B, {}) /\ Added(m, A) /\ ToSet(A) = Node \ ToSet(F)
  /\ m.used_node_num_ + Len(F) = NodeTotal
  /\ m.used_bucket_num_ = Cardinality(Busy(m))

LEMMA GoodSeq ==
  ASSUME NEW m, NEW F, NEW B, NEW A, Good(m, F, B, A)
  PROVE  F \in Seq(Node) /\ IsInjective(F) /\ Len(F) \in Nat /\ ToSet(F) \subseteq Node
BY SeqNode, InList DEF Good, Lists, IsList

(* A node found is moved to the head of the add list, by ToTail to its     *)
(* tail.                                                                   *)
LEMMA Moved ==
  ASSUME NEW m, NEW e \in TableType, NEW F, NEW B, NEW A, Good(m, F, B, A), NEW n \in ToSet(A),
         KeepsNodes(e, m), KeepsCounts(e, m),
         NEW C, Added(e, C), ToSet(C) = ToSet(A) \cup {n}
  PROVE  Good(e, F, B, C) /\ ToSet(C) = ToSet(A) /\ e.key_ = m.key_
<1>1. Lists(e, F, B, {})
  BY ListsSame DEF Good
<1>2. Busy(e) = Busy(m) /\ e.key_ = m.key_
  BY DEF Busy, KeepsNodes
<1>3. ToSet(C) = ToSet(A)
  OBVIOUS
<1> QED
  BY <1>1, <1>2, <1>3 DEF Good, KeepsCounts

LEMMA MovedToHead ==
  ASSUME NEW m, NEW F, NEW B, NEW A, Good(m, F, B, A), NEW n \in ToSet(A)
  PROVE  LET e == insert_add_list_head(m, n)
         IN  /\ KeepsValues(e, m) /\ e.key_ = m.key_
             /\ \E C : Good(e, F, B, C) /\ ToSet(C) = ToSet(A) /\ ToHead(C, A, n)
<1> DEFINE e == insert_add_list_head(m, n)
<1>1. m \in TableType /\ Added(m, A) /\ n \in Node
  BY DEF Good
<1>2. /\ e \in TableType /\ KeepsNodes(e, m) /\ KeepsCounts(e, m) /\ KeepsValues(e, m)
      /\ \E C : Added(e, C) /\ ToSet(C) = ToSet(A) \cup {n} /\ ToHead(C, A, n)
  BY <1>1, InsertAddListHead
<1>3. PICK C : Added(e, C) /\ ToSet(C) = ToSet(A) \cup {n} /\ ToHead(C, A, n)
  BY <1>2
<1> HIDE DEF e
<1>4. Good(e, F, B, C) /\ ToSet(C) = ToSet(A) /\ e.key_ = m.key_
  BY <1>2, <1>3, Moved
<1> QED
  BY <1>2, <1>3, <1>4 DEF e

LEMMA MovedToTail ==
  ASSUME NEW m, NEW F, NEW B, NEW A, Good(m, F, B, A), NEW n \in ToSet(A)
  PROVE  LET e == insert_add_list_tail(m, n)
         IN  /\ KeepsValues(e, m) /\ e.key_ = m.key_
             /\ \E C : Good(e, F, B, C) /\ ToSet(C) = ToSet(A) /\ ToEnd(C, A, n)
<1> DEFINE e == insert_add_list_tail(m, n)
<1>1. m \in TableType /\ Added(m, A) /\ n \in Node
  BY DEF Good
<1>2. /\ e \in TableType /\ KeepsNodes(e, m) /\ KeepsCounts(e, m) /\ KeepsValues(e, m)
      /\ \E C : Added(e, C) /\ ToSet(C) = ToSet(A) \cup {n} /\ ToEnd(C, A, n)
  BY <1>1, InsertAddListTail
<1>3. PICK C : Added(e, C) /\ ToSet(C) = ToSet(A) \cup {n} /\ ToEnd(C, A, n)
  BY <1>2
<1> HIDE DEF e
<1>4. Good(e, F, B, C) /\ ToSet(C) = ToSet(A) /\ e.key_ = m.key_
  BY <1>2, <1>3, Moved
<1> QED
  BY <1>2, <1>3, <1>4 DEF e

(* e is table m with node n put in bucket b and at the head of the add     *)
(* list; and with node n taken out of both.                                *)
Grown(e, m, B, A, n, k, len, h) ==
  /\ n \in Node /\ n \notin ToSet(A)
  /\ e.key_ = [m.key_ EXCEPT ![n] = k]
  /\ e.chunk_len_ = [m.chunk_len_ EXCEPT ![n] = len]
  /\ e.chunk_head_ = [m.chunk_head_ EXCEPT ![n] = h]
  /\ \E G, C, D : /\ Good(e, G, C, D) /\ ToSet(D) = ToSet(A) \cup {n}
                  /\ Filed(C, B, get_bucket_id(k), n) /\ ToHead(D, A, n)
Shrunk(e, m, B, A, n) ==
  /\ e.key_ = m.key_
  /\ e.chunk_len_ = [m.chunk_len_ EXCEPT ![n] = 0]
  /\ e.chunk_head_ = [m.chunk_head_ EXCEPT ![n] = INVALID]
  /\ \E G, C, D : /\ Good(e, G, C, D) /\ ToSet(D) = ToSet(A) \ {n}
                  /\ Unfiled(C, B, n) /\ Dropped(D, A, n)

LEMMA Inserted ==
  ASSUME NEW m, NEW F, NEW B, NEW A, Good(m, F, B, A), m.free_list_ # INVALID,
         NEW k \in Key, NEW len \in Nat, NEW h \in ChunkHandle
  PROVE  LET n == m.free_list_
         IN  Grown(insert_add_list_head(use_node(free_list_remove(m), n, k, len, h), n),
                   m, B, A, n, k, len, h)
<1> DEFINE n == m.free_list_
           m1 == free_list_remove(m)
           m2 == use_node(m1, n, k, len, h)
           e == insert_add_list_head(m2, n)
           G == Tail(F)
<1>1. /\ m \in TableType /\ Lists(m, F, B, {}) /\ Added(m, A) /\ ToSet(A) = Node \ ToSet(F)
      /\ m.used_node_num_ + Len(F) = NodeTotal
      /\ m.used_bucket_num_ = Cardinality(Busy(m))
  BY DEF Good
<1>2. /\ m1 \in TableType /\ KeepsCounts(m1, m) /\ KeepsAdds(m1, m) /\ KeepsValues(m1, m)
      /\ m1.bucket = m.bucket /\ m1.key_ = m.key_
      /\ Lists(m1, G, B, {n})
      /\ n \in ToSet(F) /\ ToSet(G) = ToSet(F) \ {n}
      /\ Len(G) = Len(F) - 1
  BY <1>1, FreeListRemove
<1>3. n \in Node /\ n \notin ToSet(A)
  BY <1>1, <1>2, GoodSeq
<1>4. m1.used_bucket_num_ = Cardinality(Busy(m1))
  BY <1>1, <1>2 DEF Busy, KeepsCounts
<1> HIDE DEF m1, G
<1>5. /\ m2 \in TableType /\ KeepsAdds(m2, m1)
      /\ m2.chunk_len_ = [m1.chunk_len_ EXCEPT ![n] = len]
      /\ m2.chunk_head_ = [m1.chunk_head_ EXCEPT ![n] = h]
      /\ m2.used_node_num_ = m1.used_node_num_ + 1
      /\ m2.used_bucket_num_ = Cardinality(Busy(m2))
      /\ m2.key_ = [m1.key_ EXCEPT ![n] = k]
      /\ \E C : Lists(m2, G, C, {}) /\ Filed(C, B, get_bucket_id(k), n)
  BY <1>2, <1>4, UseNode
<1>6. PICK C : Lists(m2, G, C, {}) /\ Filed(C, B, get_bucket_id(k), n)
  BY <1>5
<1> HIDE DEF m2
<1>7. Added(m2, A)
  <2>1. Added(m1, A)
    BY <1>1, <1>2, AddedSame
  <2> QED
    BY <1>5, <2>1, AddedSame
<1>8. /\ e \in TableType /\ KeepsNodes(e, m2) /\ KeepsCounts(e, m2) /\ KeepsValues(e, m2)
      /\ \E D : Added(e, D) /\ ToSet(D) = ToSet(A) \cup {n} /\ ToHead(D, A, n)
  BY <1>3, <1>5, <1>7, InsertAddListHead
<1>9. PICK D : Added(e, D) /\ ToSet(D) = ToSet(A) \cup {n} /\ ToHead(D, A, n)
  BY <1>8
<1> HIDE DEF e
<1>10. Lists(e, G, C, {})
  BY <1>6, <1>8, ListsSame
<1>11. e.used_node_num_ + Len(G) = NodeTotal
  <2>1. Len(F) \in Nat /\ m.used_node_num_ \in Int
    BY <1>1, GoodSeq DEF TableType
  <2>2. e.used_node_num_ = m.used_node_num_ + 1
    BY <1>2, <1>5, <1>8 DEF KeepsCounts
  <2> DEFINE f == Len(F)
  <2> HIDE DEF f
  <2>3. e.used_node_num_ + (f - 1) = m.used_node_num_ + f
    BY <2>1, <2>2 DEF f
  <2> QED
    BY <1>1, <1>2, <2>3 DEF f
<1>12. e.used_bucket_num_ = Cardinality(Busy(e))
  BY <1>5, <1>8 DEF Busy, KeepsNodes, KeepsCounts
<1>13. ToSet(D) = Node \ ToSet(G)
  BY <1>1, <1>2, <1>3, <1>9
<1>14. Good(e, G, C, D)
  BY <1>8, <1>9, <1>10, <1>11, <1>12, <1>13 DEF Good
<1>15. /\ e.chunk_len_ = [m.chunk_len_ EXCEPT ![n] = len]
       /\ e.chunk_head_ = [m.chunk_head_ EXCEPT ![n] = h]
       /\ e.key_ = [m.key_ EXCEPT ![n] = k]
  BY <1>2, <1>5, <1>8 DEF KeepsValues, KeepsNodes
<1> QED
  BY <1>3, <1>6, <1>9, <1>14, <1>15 DEF e, m1, m2, Grown

LEMMA Deleted ==
  ASSUME NEW m, NEW F, NEW B, NEW A, Good(m, F, B, A), NEW n \in ToSet(A)
  PROVE  Shrunk(free_list_insert(free_node(delete_from_add_list(m, n), n), n), m, B, A, n)
<1> DEFINE m1 == delete_from_add_list(m, n)
           m2 == free_node(m1, n)
           e == free_list_insert(m2, n)
<1>1. /\ m \in TableType /\ Lists(m, F, B, {}) /\ Added(m, A) /\ ToSet(A) = Node \ ToSet(F)
      /\ m.used_node_num_ + Len(F) = NodeTotal
      /\ m.used_bucket_num_ = Cardinality(Busy(m))
  BY DEF Good
<1>2. n \in Node /\ n \notin ToSet(F)
  BY <1>1
<1>3. /\ m1 \in TableType /\ KeepsNodes(m1, m) /\ KeepsCounts(m1, m) /\ KeepsValues(m1, m)
      /\ \E D : Added(m1, D) /\ ToSet(D) = ToSet(A) \ {n} /\ Dropped(D, A, n)
  BY <1>1, <1>2, DeleteFromAddList
<1>4. PICK D : Added(m1, D) /\ ToSet(D) = ToSet(A) \ {n} /\ Dropped(D, A, n)
  BY <1>3
<1> HIDE DEF m1
<1>5. Lists(m1, F, B, {})
  BY <1>1, <1>3, ListsSame
<1>6. m1.used_bucket_num_ = Cardinality(Busy(m1)) /\ n \notin ToSet(D)
  BY <1>1, <1>3, <1>4 DEF Busy, KeepsNodes, KeepsCounts
<1>7. /\ m2 \in TableType /\ Added(m2, D)
      /\ m2.chunk_len_ = [m1.chunk_len_ EXCEPT ![n] = 0]
      /\ m2.chunk_head_ = [m1.chunk_head_ EXCEPT ![n] = INVALID]
      /\ m2.used_node_num_ = m1.used_node_num_ - 1
      /\ m2.used_bucket_num_ = Cardinality(Busy(m2))
      /\ m2.key_ = m1.key_
      /\ \E C : Lists(m2, F, C, {n}) /\ Unfiled(C, B, n)
  BY <1>2, <1>3, <1>4, <1>5, <1>6, FreeNode
<1>8. PICK C : Lists(m2, F, C, {n}) /\ Unfiled(C, B, n)
  BY <1>7
<1> HIDE DEF m2
<1>9. /\ e \in TableType /\ KeepsCounts(e, m2) /\ KeepsAdds(e, m2) /\ KeepsValues(e, m2)
      /\ e.bucket = m2.bucket /\ e.key_ = m2.key_
      /\ \E G : Lists(e, G, C, {}) /\ ToSet(G) = ToSet(F) \cup {n} /\ Len(G) = Len(F) + 1
  <2>1. FreeInserted(e, m2, F, C, n)
    BY <1>7, <1>8, FreeListInsert
  <2> QED
    BY <2>1 DEF FreeInserted
<1>g. PICK G : Lists(e, G, C, {}) /\ ToSet(G) = ToSet(F) \cup {n} /\ Len(G) = Len(F) + 1
  BY <1>9
<1> HIDE DEF e
<1>10. Added(e, D)
  BY <1>7, <1>9, AddedSame
<1>11. e.used_node_num_ + Len(G) = NodeTotal
  <2>1. Len(F) \in Nat /\ m.used_node_num_ \in Int
    BY <1>1, GoodSeq DEF TableType
  <2>2. e.used_node_num_ = m.used_node_num_ - 1
    BY <1>3, <1>7, <1>9 DEF KeepsCounts
  <2> DEFINE f == Len(F)
  <2> HIDE DEF f
  <2>3. e.used_node_num_ + (f + 1) = m.used_node_num_ + f
    BY <2>1, <2>2 DEF f
  <2> QED
    BY <1>1, <1>g, <2>3 DEF f
<1>12. e.used_bucket_num_ = Cardinality(Busy(e))
  BY <1>7, <1>9 DEF Busy, KeepsCounts
<1>13. ToSet(D) = Node \ ToSet(G)
  BY <1>1, <1>4, <1>g
<1>14. Good(e, G, C, D)
  BY <1>9, <1>g, <1>10, <1>11, <1>12, <1>13 DEF Good
<1>15. /\ e.chunk_len_ = [m.chunk_len_ EXCEPT ![n] = 0]
       /\ e.chunk_head_ = [m.chunk_head_ EXCEPT ![n] = INVALID]
       /\ e.key_ = m.key_
  BY <1>3, <1>7, <1>9 DEF KeepsValues, KeepsNodes
<1> QED
  BY <1>4, <1>8, <1>14, <1>15 DEF e, m1, m2, Shrunk

-----------------------------------------------------------------------------
(***************************************************************************)
(* The values: each belongs to one of the nodes in use.                    *)
(***************************************************************************)
Owned(m, st, used) ==
  /\ DOMAIN st \subseteq ChunkHandle
  /\ \A n \in used :
       /\ m.chunk_head_[n] # INVALID =>
            m.chunk_head_[n] \in DOMAIN st /\ st[m.chunk_head_[n]].len = m.chunk_len_[n]
       /\ m.chunk_head_[n] = INVALID <=> m.chunk_len_[n] = 0
  /\ \A h \in DOMAIN st : \E n \in used : m.chunk_head_[n] = h
  /\ \A n, o \in used :
       m.chunk_head_[n] # INVALID /\ m.chunk_head_[n] = m.chunk_head_[o] => n = o

LEMMA OwnedSame ==
  ASSUME NEW m, NEW e, NEW st, NEW used, Owned(m, st, used), KeepsValues(e, m)
  PROVE  Owned(e, st, used)
BY DEF Owned, KeepsValues

(* What update_node and delete_node leave of the values.                   *)
Rest(st, head) == IF head = INVALID THEN st ELSE Pool!Without(st, head)

SetTo(e, m, n, len, h) ==
  /\ e.chunk_len_ = [m.chunk_len_ EXCEPT ![n] = len]
  /\ e.chunk_head_ = [m.chunk_head_ EXCEPT ![n] = h]

LEMMA OwnedSet ==
  ASSUME NEW m \in TableType, NEW e, NEW st, NEW used \in SUBSET Node, Owned(m, st, used),
         NEW n \in used, NEW h \in ChunkHandle \cup {INVALID}, NEW len, NEW r,
         SetTo(e, m, n, len, h),
         h \notin DOMAIN Rest(st, m.chunk_head_[n]), h = INVALID <=> len = 0,
         NEW st2, st2 = IF h = INVALID THEN Rest(st, m.chunk_head_[n])
                        ELSE Pool!With(Rest(st, m.chunk_head_[n]), h, len, r)
  PROVE  Owned(e, st2, used)
<1> DEFINE head == m.chunk_head_[n]
           rest == Rest(st, head)
<1>1. INVALID \notin ChunkHandle
  BY TableAssumption
<1>2. /\ e.chunk_len_[n] = len /\ e.chunk_head_[n] = h
      /\ \A o \in used : o # n => e.chunk_len_[o] = m.chunk_len_[o] /\ e.chunk_head_[o] = m.chunk_head_[o]
  BY DEF SetTo, TableType
<1>3. DOMAIN rest = DOMAIN st \ {head} /\ \A g \in DOMAIN rest : rest[g] = st[g]
  <2>1. CASE head = INVALID
    BY <1>1, <2>1 DEF Rest, Owned
  <2>2. CASE head # INVALID
    BY <2>2 DEF Rest, Pool!Without
  <2> QED
    BY <2>1, <2>2
<1>4. ASSUME NEW o \in used, o # n, m.chunk_head_[o] # INVALID
      PROVE  m.chunk_head_[o] \in DOMAIN rest /\ st[m.chunk_head_[o]].len = m.chunk_len_[o]
  BY <1>3, <1>4 DEF Owned
<1>5. ASSUME NEW g \in DOMAIN rest
      PROVE  \E o \in used : o # n /\ m.chunk_head_[o] = g
  BY <1>3 DEF Owned
<1> HIDE DEF rest, head
<1>6. CASE h = INVALID
  <2>1. st2 = rest
    BY <1>6 DEF rest, head
  <2> QED
    BY <1>1, <1>2, <1>3, <1>4, <1>5, <1>6, <2>1 DEF Owned
<1>7. CASE h # INVALID
  <2>1. st2 = Pool!With(rest, h, len, r) /\ h \notin DOMAIN rest
    BY <1>7 DEF rest, head
  <2>2. /\ DOMAIN st2 = DOMAIN rest \cup {h} /\ st2[h].len = len
        /\ \A g \in DOMAIN rest : st2[g] = st[g]
    BY <1>3, <2>1 DEF Pool!With
  <2>3. DOMAIN st2 \subseteq ChunkHandle
    BY <1>3, <1>7, <2>2 DEF Owned
  <2>4. \A o \in used :
          /\ e.chunk_head_[o] # INVALID =>
               e.chunk_head_[o] \in DOMAIN st2 /\ st2[e.chunk_head_[o]].len = e.chunk_len_[o]
          /\ e.chunk_head_[o] = INVALID <=> e.chunk_len_[o] = 0
    <3> SUFFICES ASSUME NEW o \in used
                 PROVE  /\ e.chunk_head_[o] # INVALID =>
                             e.chunk_head_[o] \in DOMAIN st2 /\ st2[e.chunk_head_[o]].len = e.chunk_len_[o]
                        /\ e.chunk_head_[o] = INVALID <=> e.chunk_len_[o] = 0
      OBVIOUS
    <3>1. CASE o = n
      BY <1>2, <1>7, <2>2, <3>1
    <3>2. CASE o # n
      BY <1>2, <1>4, <2>2, <3>2 DEF Owned
    <3> QED
      BY <3>1, <3>2
  <2>5. \A g \in DOMAIN st2 : \E o \in used : e.chunk_head_[o] = g
    BY <1>2, <1>5, <2>2
  <2>6. \A p, o \in used :
          e.chunk_head_[p] # INVALID /\ e.chunk_head_[p] = e.chunk_head_[o] => p = o
    <3> SUFFICES ASSUME NEW p \in used, NEW o \in used, p # o,
                        e.chunk_head_[p] # INVALID, e.chunk_head_[p] = e.chunk_head_[o]
                 PROVE  FALSE
      OBVIOUS
    <3>1. CASE p = n
      BY <1>2, <1>4, <2>1, <3>1
    <3>2. CASE o = n
      BY <1>2, <1>4, <2>1, <3>2
    <3>3. CASE p # n /\ o # n
      BY <1>2, <3>3 DEF Owned
    <3> QED
      BY <3>1, <3>2, <3>3
  <2> QED
    BY <2>3, <2>4, <2>5, <2>6 DEF Owned
<1> QED
  BY <1>6, <1>7

LEMMA OwnedAdd ==
  ASSUME NEW m \in TableType, NEW e, NEW st, NEW used \in SUBSET Node, Owned(m, st, used),
         NEW n \in Node, n \notin used, NEW h \in ChunkHandle, NEW len, len # 0, NEW r,
         SetTo(e, m, n, len, h), h \notin DOMAIN st
  PROVE  Owned(e, Pool!With(st, h, len, r), used \cup {n})
<1> DEFINE st2 == Pool!With(st, h, len, r)
<1>1. INVALID \notin ChunkHandle
  BY TableAssumption
<1>2. /\ e.chunk_len_[n] = len /\ e.chunk_head_[n] = h
      /\ \A o \in used : e.chunk_len_[o] = m.chunk_len_[o] /\ e.chunk_head_[o] = m.chunk_head_[o]
  BY DEF SetTo, TableType
<1>3. /\ DOMAIN st2 = DOMAIN st \cup {h} /\ st2[h].len = len
      /\ \A g \in DOMAIN st : st2[g] = st[g]
  BY DEF Pool!With
<1> HIDE DEF st2
<1>4. \A o \in used : m.chunk_head_[o] # h
  BY <1>1 DEF Owned
<1>5. DOMAIN st2 \subseteq ChunkHandle
  BY <1>3 DEF Owned
<1>6. \A o \in used \cup {n} :
        /\ e.chunk_head_[o] # INVALID =>
             e.chunk_head_[o] \in DOMAIN st2 /\ st2[e.chunk_head_[o]].len = e.chunk_len_[o]
        /\ e.chunk_head_[o] = INVALID <=> e.chunk_len_[o] = 0
  BY <1>1, <1>2, <1>3 DEF Owned
<1>7. \A g \in DOMAIN st2 : \E o \in used \cup {n} : e.chunk_head_[o] = g
  BY <1>2, <1>3 DEF Owned
<1>8. \A p, o \in used \cup {n} :
        e.chunk_head_[p] # INVALID /\ e.chunk_head_[p] = e.chunk_head_[o] => p = o
  BY <1>2, <1>4 DEF Owned
<1> QED
  BY <1>5, <1>6, <1>7, <1>8 DEF Owned, st2

(* A node without a value can leave.                                       *)
LEMMA OwnedDrop ==
  ASSUME NEW m, NEW st, NEW used, Owned(m, st, used), NEW n \in used, m.chunk_head_[n] = INVALID
  PROVE  Owned(m, st, used \ {n})
BY TableAssumption DEF Owned

(* Only an empty value takes no chunk.                                     *)
LEMMA NeedZero ==
  ASSUME NEW len \in Nat
  PROVE  Pool!Need(len) \in Nat /\ (Pool!Need(len) = 0 <=> len = 0)
<1>1. ChunkSize \in Nat \ {0}
  BY TableAssumption
<1> DEFINE c == ChunkSize
           a == len + c - 1
<1>2. a \in Nat
  BY <1>1
<1>3. a \div c \in Int /\ a = c * (a \div c) + (a % c) /\ a % c \in 0 .. c - 1
  BY <1>1, <1>2
<1>4. a \div c >= 0
  BY <1>1, <1>2
<1>5. ASSUME len = 0
      PROVE  a \div c = 0
  BY <1>1, <1>5
<1>6. ASSUME a \div c = 0
      PROVE  len = 0
  <2>1. a = a % c
    BY <1>1, <1>2, <1>3, <1>6
  <2> QED
    BY <1>1, <1>3, <2>1
<1> QED
  BY <1>3, <1>4, <1>5, <1>6 DEF Pool!Need

-----------------------------------------------------------------------------
(***************************************************************************)
(* The invariant and the theorems.                                         *)
(***************************************************************************)
TableInv ==
  \E F, B, A : Good(t, F, B, A) /\ Owned(t, stored, ToSet(A))

LEMMA PoolData ==
  ASSUME NEW keys \in [Node -> Key \cup {NoKey}]
  PROVE  \E F, B, A : Good(init_pool_data(keys), F, B, A) /\ ToSet(A) = {}
<1> DEFINE m == init_pool_data(keys)
           N == NodeTotal
           F == [i \in 1 .. N |-> N - i]
           B == [b \in Bucket |-> <<>>]
           next == [n \in Node |-> n - 1]
<1>1. N \in Nat /\ INVALID = -1 /\ Node = 0 .. N - 1
  BY NodeFacts DEF Node
<1>2. /\ m.used_node_num_ = 0 /\ m.used_bucket_num_ = 0
      /\ m.add_head_ = INVALID /\ m.add_tail_ = INVALID /\ m.free_list_ = N - 1
      /\ m.bucket = [b \in Bucket |-> INVALID] /\ m.key_ = keys
      /\ m.node_prev_ = NoHandles /\ m.node_next_ = next
      /\ m.add_prev_ = NoHandles /\ m.add_next_ = NoHandles
  BY DEF init_pool_data
<1>3. m \in TableType
  <2>1. NoHandles \in [Node -> Handle] /\ NoHandles \in [Node -> ChunkHandle \cup {INVALID}]
    BY DEF NoHandles, Handle
  <2>2. next \in [Node -> Handle] /\ N - 1 \in Handle
    BY <1>1 DEF Handle
  <2>3. [b \in Bucket |-> INVALID] \in [Bucket -> Handle] /\ INVALID \in Handle
    BY DEF Handle
  <2>4. [n \in Node |-> 0] \in [Node -> Nat]
    OBVIOUS
  <2> HIDE DEF next
  <2>5. m = [used_node_num_ |-> 0, used_bucket_num_ |-> 0,
             add_head_ |-> INVALID, add_tail_ |-> INVALID, free_list_ |-> N - 1,
             bucket |-> [b \in Bucket |-> INVALID],
             key_ |-> keys, chunk_len_ |-> [n \in Node |-> 0], chunk_head_ |-> NoHandles,
             node_prev_ |-> NoHandles, node_next_ |-> next,
             add_prev_ |-> NoHandles, add_next_ |-> NoHandles]
    BY DEF init_pool_data, next
  <2> QED
    BY <2>1, <2>2, <2>3, <2>4, <2>5 DEF TableType
<1> HIDE DEF m
<1>4. F \in Seq(Node) /\ Len(F) = N
  <2>1. F \in [1 .. N -> Node]
    BY <1>1
  <2>2. F \in Seq(Node)
    BY <1>1, <2>1, SeqDef
  <2>3. Len(F) = N
    BY <1>1, <2>1
  <2> QED
    BY <2>2, <2>3
<1>5. IsInjective(F)
  BY <1>1 DEF IsInjective
<1>6. ToSet(F) = Node
  <2>1. \A n \in Node : N - n \in 1 .. N /\ N - (N - n) = n
    BY <1>1
  <2>2. \A n \in Node : N - n \in DOMAIN F /\ F[N - n] = n
    BY <2>1
  <2>3. Node \subseteq ToSet(F)
    BY <2>2 DEF ToSet
  <2>4. ToSet(F) \subseteq Node
    BY <1>4, InList
  <2> QED
    BY <2>3, <2>4
<1>7. IsList(next, N - 1, F)
  <2>1. \A i \in 1 .. N : F[i] = N - i
    OBVIOUS
  <2> HIDE DEF F
  <2>2. N - 1 = At(F, 1)
    <3>1. CASE N = 0
      BY <1>1, <1>4, <3>1 DEF At
    <3>2. CASE N # 0
      BY <1>1, <1>4, <2>1, <3>2 DEF At
    <3> QED
      BY <3>1, <3>2
  <2>3. ASSUME NEW i \in 1 .. N
        PROVE  next[F[i]] = At(F, i + 1)
    <3>1. next[F[i]] = N - i - 1
      BY <1>1, <2>1
    <3>2. CASE i = N
      <4>1. i + 1 \notin 1 .. N /\ N - i - 1 = -1
        BY <1>1, <3>2
      <4> QED
        BY <1>1, <1>4, <3>1, <4>1 DEF At
    <3>3. CASE i # N
      <4>1. i + 1 \in 1 .. N /\ N - i - 1 = N - (i + 1)
        BY <1>1, <3>3
      <4> QED
        BY <1>4, <2>1, <3>1, <4>1 DEF At
    <3> QED
      BY <3>2, <3>3
  <2> QED
    BY <1>4, <1>5, <2>2, <2>3 DEF IsList
<1>8. /\ ToSet(<<>>) = {} /\ <<>> \in Seq(Node) /\ At(<<>>, Len(<<>>)) = INVALID
      /\ \A f, g : Linked(f, g, INVALID, <<>>)
  <2>1. Len(<<>>) = 0 /\ \A i : i \notin 1 .. Len(<<>>)
    OBVIOUS
  <2>2. ToSet(<<>>) = {}
    BY DEF ToSet
  <2>3. \A f, g : Linked(f, g, INVALID, <<>>)
    BY <2>1, NoList DEF Linked
  <2> QED
    BY <2>1, <2>2, <2>3, EmptySeq DEF At
<1> HIDE DEF F
<1>9. Lists(m, F, B, {})
  <2>1. \A b \in Bucket : B[b] = <<>> /\ m.bucket[b] = INVALID
    BY <1>2
  <2>2. B \in [Bucket -> Seq(Node)]
    BY <1>8
  <2> HIDE DEF B, next
  <2> QED
    BY <1>2, <1>6, <1>7, <1>8, <2>1, <2>2 DEF Lists
<1>10. Added(m, <<>>)
  BY <1>2, <1>8 DEF Added, NoHandles
<1>11. Cardinality(Busy(m)) = 0
  <2>1. Busy(m) = {}
    BY <1>2 DEF Busy
  <2> QED
    BY <2>1, FS_EmptySet
<1>12. Good(m, F, B, <<>>)
  BY <1>1, <1>2, <1>3, <1>4, <1>6, <1>8, <1>9, <1>10, <1>11 DEF Good
<1> QED
  BY <1>8, <1>12 DEF m

LEMMA OwnsNothing ==
  ASSUME NEW m
  PROVE  Owned(m, [h \in {} |-> <<>>], {})
BY DEF Owned

LEMMA InitInv == Init => TableInv
<1> SUFFICES ASSUME Init PROVE TableInv
  OBVIOUS
<1>1. [n \in Node |-> NoKey] \in [Node -> Key \cup {NoKey}]
  OBVIOUS
<1>2. PICK F, B, A : Good(t, F, B, A) /\ ToSet(A) = {}
  BY <1>1, PoolData DEF Init
<1>3. stored = [h \in {} |-> <<>>]
  BY DEF Init, Pool!Init
<1>4. Owned(t, stored, ToSet(A))
  BY <1>2, <1>3, OwnsNothing
<1> QED
  BY <1>2, <1>4 DEF TableInv

(* The walks of the code see the lists of the invariant.                   *)
LEMMA Walks ==
  ASSUME NEW m, NEW F, NEW B, NEW A, Good(m, F, B, A)
  PROVE  /\ Walk(m.node_next_, m.free_list_) = F
         /\ \A b \in Bucket : Walk(m.node_next_, m.bucket[b]) = B[b]
         /\ Walk(m.add_next_, m.add_head_) = A
<1>1. /\ m.node_next_ \in [Node -> Node \cup {INVALID}] /\ Ends(m.node_next_)
      /\ m.add_next_ \in [Node -> Node \cup {INVALID}] /\ Ends(m.add_next_)
  BY ListsEnd, AddedEnd DEF Good, TableType, Handle
<1>2. /\ IsList(m.node_next_, m.free_list_, F)
      /\ \A b \in Bucket : IsList(m.node_next_, m.bucket[b], B[b])
      /\ IsList(m.add_next_, m.add_head_, A)
  BY DEF Good, Lists, Added, Linked
<1> QED
  BY <1>1, <1>2, WalkIs

LEMMA UsedIs ==
  ASSUME NEW F, NEW B, NEW A, Good(t, F, B, A)
  PROVE  UsedNodes = ToSet(A)
BY Walks DEF Good, UsedNodes

(* A node found is in use.                                                 *)
LEMMA LookupUsed ==
  ASSUME NEW F, NEW B, NEW A, Good(t, F, B, A), NEW k \in Key, Lookup(k) # INVALID
  PROVE  Lookup(k) \in ToSet(A)
<1> DEFINE b == get_bucket_id(k)
           chain == Walk(t.node_next_, t.bucket[b])
           hits == {i \in DOMAIN chain : t.key_[chain[i]] = k}
<1>1. b \in Bucket
  BY BucketId
<1>2. chain = B[b]
  BY <1>1, Walks
<1>3. B[b] \in Seq(Node)
  BY <1>1 DEF Good, Lists
<1> HIDE DEF chain, b
<1>4. DOMAIN chain = 1 .. Len(chain) /\ Len(chain) \in Nat
  BY <1>2, <1>3, SeqNode
<1>5. hits # {} /\ Lookup(k) = chain[Min(hits)]
  BY DEF Lookup, chain, b
<1>6. hits \subseteq Nat
  BY <1>4
<1>7. Min(hits) \in hits
  <2>1. \E i \in hits : \A j \in hits : i <= j
    BY <1>5, <1>6, LeastNat
  <2> HIDE DEF hits
  <2> QED
    BY <2>1 DEF Min
<1>8. Lookup(k) \in ToSet(chain)
  BY <1>5, <1>7 DEF ToSet
<1>9. Lookup(k) \in Node /\ Lookup(k) \notin ToSet(F)
  BY <1>1, <1>2, <1>3, <1>8, InList DEF Good, Lists
<1> QED
  BY <1>9 DEF Good

LEMMA FoundGood ==
  ASSUME NEW F, NEW B, NEW A, Good(t, F, B, A), Owned(t, stored, ToSet(A)),
         NEW k \in Key, Lookup(k) # INVALID
  PROVE  /\ KeepsValues(Found(k), t) /\ Found(k).key_ = t.key_
         /\ \E C : /\ Good(Found(k), F, B, C) /\ ToSet(C) = ToSet(A)
                   /\ ToHead(C, A, Lookup(k))
                   /\ Owned(Found(k), stored, ToSet(C))
<1>1. Lookup(k) \in ToSet(A)
  BY LookupUsed
<1>2. Found(k) = insert_add_list_head(t, Lookup(k))
  BY DEF Found
<1>3. /\ KeepsValues(Found(k), t) /\ Found(k).key_ = t.key_
      /\ \E C : /\ Good(Found(k), F, B, C) /\ ToSet(C) = ToSet(A)
                /\ ToHead(C, A, Lookup(k))
  BY <1>1, <1>2, MovedToHead
<1>4. Owned(Found(k), stored, ToSet(A))
  BY <1>3, OwnedSame
<1> QED
  BY <1>3, <1>4

LEMMA ToTailInv ==
  ASSUME TableInv, NEW n \in UsedNodes, ToTail(n)
  PROVE  TableInv'
<1>1. PICK F, B, A : Good(t, F, B, A) /\ Owned(t, stored, ToSet(A))
  BY DEF TableInv
<1>2. n \in ToSet(A)
  BY <1>1, UsedIs
<1>3. t' = insert_add_list_tail(t, n) /\ stored' = stored
  BY DEF ToTail
<1>4. KeepsValues(t', t) /\ \E C : Good(t', F, B, C) /\ ToSet(C) = ToSet(A)
  BY <1>1, <1>2, <1>3, MovedToTail
<1>5. Owned(t', stored', ToSet(A))
  BY <1>1, <1>3, <1>4, OwnedSame
<1> QED
  BY <1>4, <1>5 DEF TableInv

LEMMA FindInv ==
  ASSUME TableInv, NEW k \in Key, Find(k)
  PROVE  TableInv'
<1>1. PICK F, B, A : Good(t, F, B, A) /\ Owned(t, stored, ToSet(A))
  BY DEF TableInv
<1>2. CASE Lookup(k) # INVALID /\ t' = Found(k) /\ stored' = stored
  BY <1>1, <1>2, FoundGood DEF TableInv
<1>3. CASE t' = t /\ stored' = stored
  BY <1>1, <1>3 DEF TableInv
<1> QED
  BY <1>2, <1>3 DEF Find, Fail

LEMMA InsertInv ==
  ASSUME TableInv, NEW k \in Key, NEW len \in Lens, NEW r, insert_node(k, len, r)
  PROVE  TableInv'
<1>1. PICK F, B, A : Good(t, F, B, A) /\ Owned(t, stored, ToSet(A))
  BY DEF TableInv
<1>2. CASE CanInsert(len) /\ \E h \in ChunkHandle :
              /\ Pool!Store(h, len, r)
              /\ t' = insert_add_list_head(
                        use_node(free_list_remove(t), t.free_list_, k, len, h), t.free_list_)
  <2>1. PICK h \in ChunkHandle :
              /\ Pool!Store(h, len, r)
              /\ t' = insert_add_list_head(
                        use_node(free_list_remove(t), t.free_list_, k, len, h), t.free_list_)
    BY <1>2
  <2>2. t.free_list_ # INVALID /\ len \in Nat /\ len # 0
    BY <1>2, TableAssumption DEF CanInsert
  <2> DEFINE n == t.free_list_
  <2>3. Grown(t', t, B, A, n, k, len, h)
    BY <1>1, <2>1, <2>2, Inserted
  <2>4. PICK G, C, D : Good(t', G, C, D) /\ ToSet(D) = ToSet(A) \cup {n}
    BY <2>3 DEF Grown
  <2>5. h \notin DOMAIN stored /\ stored' = Pool!With(stored, h, len, r)
    BY <2>1 DEF Pool!Store
  <2>6. t \in TableType /\ ToSet(A) \in SUBSET Node /\ SetTo(t', t, n, len, h)
    BY <1>1, <2>3 DEF Good, SetTo, Grown
  <2>9. n \in Node /\ n \notin ToSet(A)
    BY <2>3 DEF Grown
  <2> HIDE DEF n
  <2>7. Owned(t', stored', ToSet(A) \cup {n})
    BY <1>1, <2>2, <2>5, <2>6, <2>9, OwnedAdd
  <2>8. Owned(t', stored', ToSet(D))
    BY <2>4, <2>7
  <2> QED
    BY <2>4, <2>8 DEF TableInv
<1>3. CASE t' = t /\ stored' = stored
  BY <1>1, <1>3 DEF TableInv
<1> QED
  BY <1>2, <1>3 DEF insert_node, Fail

(* t' is m with a value of length len at node n.                           *)
Renewed(m, F, B, A, n, len, r) ==
  \E h \in ChunkHandle \cup {INVALID} :
    /\ h \notin DOMAIN Rest(stored, m.chunk_head_[n]) /\ (h = INVALID <=> len = 0)
    /\ SetTo(t', m, n, len, h) /\ t'.key_ = m.key_
    /\ stored' = IF h = INVALID THEN Rest(stored, m.chunk_head_[n])
                 ELSE Pool!With(Rest(stored, m.chunk_head_[n]), h, len, r)
    /\ Good(t', F, B, A)

(* What update_node of node n in table m does is that, or nothing.         *)
LEMMA Updated ==
  ASSUME NEW m, NEW F, NEW B, NEW A, Good(m, F, B, A), Owned(m, stored, ToSet(A)),
         NEW n \in ToSet(A), NEW len \in Lens, NEW r, update_node(m, n, len, r)
  PROVE  \/ ~CanUpdate(m, n, len) /\ t' = m /\ stored' = stored
         \/ CanUpdate(m, n, len) /\ Renewed(m, F, B, A, n, len, r)
<1> DEFINE old == Pool!Need(m.chunk_len_[n])
           new == Pool!Need(len)
           head == m.chunk_head_[n]
           rest == Rest(stored, head)
           Set(h) == /\ t' = [m EXCEPT !.chunk_len_[n] = len, !.chunk_head_[n] = h]
                     /\ stored' = IF h = INVALID THEN rest ELSE Pool!With(rest, h, len, r)
<1>1. /\ m \in TableType /\ n \in Node /\ len \in Nat /\ ToSet(A) \in SUBSET Node
      /\ INVALID \notin ChunkHandle
  BY TableAssumption DEF Good
<1>2. head \in ChunkHandle \cup {INVALID} /\ m.chunk_len_[n] \in Nat
  BY <1>1 DEF TableType
<1>3. ASSUME NEW h \in ChunkHandle \cup {INVALID}, Set(h), h \notin DOMAIN rest, h = INVALID <=> len = 0
      PROVE  Renewed(m, F, B, A, n, len, r)
  <2> DEFINE L == [m.chunk_len_ EXCEPT ![n] = len]
             H == [m.chunk_head_ EXCEPT ![n] = h]
  <2>1. t' = [m EXCEPT !.chunk_len_ = L, !.chunk_head_ = H]
    BY <1>3
  <2>2. L \in [Node -> Nat] /\ H \in [Node -> ChunkHandle \cup {INVALID}]
    BY <1>1, <1>3 DEF TableType
  <2> HIDE DEF L, H
  <2>3. /\ t' \in TableType /\ KeepsNodes(t', m) /\ KeepsCounts(t', m) /\ KeepsAdds(t', m)
        /\ t'.chunk_len_ = L /\ t'.chunk_head_ = H
    BY <1>1, <2>1, <2>2 DEF TableType, KeepsNodes, KeepsCounts, KeepsAdds
  <2>4. Lists(t', F, B, {})
    BY <2>3, ListsSame DEF Good
  <2>5. Added(t', A)
    BY <2>3, AddedSame DEF Good
  <2>6. Good(t', F, B, A)
    BY <2>3, <2>4, <2>5 DEF Good, KeepsCounts, KeepsNodes, Busy
  <2>7. SetTo(t', m, n, len, h) /\ t'.key_ = m.key_
    BY <2>3 DEF SetTo, L, H, KeepsNodes
  <2>8. stored' = IF h = INVALID THEN Rest(stored, m.chunk_head_[n])
                  ELSE Pool!With(Rest(stored, m.chunk_head_[n]), h, len, r)
    BY <1>3
  <2>9. h \notin DOMAIN Rest(stored, m.chunk_head_[n])
    BY <1>3
  <2> QED
    BY <1>3, <2>6, <2>7, <2>8, <2>9 DEF Renewed
<1>5. /\ new \in Nat /\ (new = 0 <=> len = 0)
      /\ old \in Nat /\ (old = 0 <=> m.chunk_len_[n] = 0)
  BY <1>1, <1>2, NeedZero
<1>6. DOMAIN rest = DOMAIN stored \ {head}
  BY <1>1 DEF Rest, Pool!Without, Owned
<1>7. head = INVALID <=> m.chunk_len_[n] = 0
  BY DEF Owned
<1>8. INVALID \notin DOMAIN rest
  BY <1>1, <1>6 DEF Owned
<1>9. \/ ~CanUpdate(m, n, len) /\ t' = m /\ stored' = stored
      \/ new = old /\ Set(head)
      \/ CanUpdate(m, n, len) /\ new = 0 /\ Set(INVALID)
      \/ CanUpdate(m, n, len) /\ new > 0 /\ \E h \in ChunkHandle \ DOMAIN rest : Set(h)
  BY DEF update_node, Rest
<1>10. new = old => CanUpdate(m, n, len)
  BY <1>5 DEF CanUpdate
<1> HIDE DEF Set, rest, new, old, head
<1>11. CASE new = old /\ Set(head)
  BY <1>2, <1>3, <1>5, <1>6, <1>7, <1>10, <1>11
<1>12. CASE CanUpdate(m, n, len) /\ new = 0 /\ Set(INVALID)
  BY <1>3, <1>5, <1>8, <1>12
<1>13. CASE CanUpdate(m, n, len) /\ new > 0 /\ \E h \in ChunkHandle \ DOMAIN rest : Set(h)
  BY <1>1, <1>3, <1>5, <1>13
<1> QED
  BY <1>9, <1>11, <1>12, <1>13

LEMMA UpdateInv ==
  ASSUME NEW m, NEW F, NEW B, NEW A, Good(m, F, B, A), Owned(m, stored, ToSet(A)),
         NEW n \in ToSet(A), NEW len \in Lens, NEW r, update_node(m, n, len, r)
  PROVE  TableInv'
<1>1. m \in TableType /\ ToSet(A) \in SUBSET Node
  BY DEF Good
<1>2. CASE t' = m /\ stored' = stored
  BY <1>2 DEF TableInv
<1>3. CASE Renewed(m, F, B, A, n, len, r)
  <2>1. PICK h \in ChunkHandle \cup {INVALID} :
          /\ h \notin DOMAIN Rest(stored, m.chunk_head_[n]) /\ (h = INVALID <=> len = 0)
          /\ SetTo(t', m, n, len, h) /\ t'.key_ = m.key_
          /\ stored' = IF h = INVALID THEN Rest(stored, m.chunk_head_[n])
                       ELSE Pool!With(Rest(stored, m.chunk_head_[n]), h, len, r)
          /\ Good(t', F, B, A)
    BY <1>3 DEF Renewed
  <2>2. Owned(t', stored', ToSet(A))
    BY <1>1, <2>1, OwnedSet
  <2> QED
    BY <2>1, <2>2 DEF TableInv
<1> QED
  BY <1>2, <1>3, Updated

LEMMA DeleteInv ==
  ASSUME NEW m, NEW F, NEW B, NEW A, Good(m, F, B, A), Owned(m, stored, ToSet(A)),
         NEW n \in ToSet(A), delete_node(m, n)
  PROVE  TableInv'
<1>1. /\ m \in TableType /\ n \in Node /\ ToSet(A) \in SUBSET Node
      /\ INVALID \notin ChunkHandle
  BY TableAssumption DEF Good
<1>2. t' = free_list_insert(free_node(delete_from_add_list(m, n), n), n)
  BY DEF delete_node
<1>3. Shrunk(t', m, B, A, n)
  BY <1>2, Deleted
<1>4. PICK G, C, D : Good(t', G, C, D) /\ ToSet(D) = ToSet(A) \ {n}
  BY <1>3 DEF Shrunk
<1>5. stored' = Rest(stored, m.chunk_head_[n])
  BY DEF delete_node, Rest
<1>6. INVALID \notin DOMAIN Rest(stored, m.chunk_head_[n])
  BY <1>1 DEF Rest, Pool!Without, Owned
<1>7. SetTo(t', m, n, 0, INVALID)
  BY <1>3 DEF SetTo, Shrunk
<1>8. stored' = IF INVALID = INVALID THEN Rest(stored, m.chunk_head_[n])
                ELSE Pool!With(Rest(stored, m.chunk_head_[n]), INVALID, 0, <<>>)
  BY <1>5
<1>9. INVALID \in ChunkHandle \cup {INVALID} /\ (INVALID = INVALID <=> 0 = 0)
  OBVIOUS
<1>10. Owned(t', stored', ToSet(A))
  BY <1>1, <1>6, <1>7, <1>8, <1>9, OwnedSet
<1>11. t'.chunk_head_[n] = INVALID
  BY <1>1, <1>7 DEF TableType, SetTo
<1>12. Owned(t', stored', ToSet(D))
  BY <1>4, <1>10, <1>11, OwnedDrop
<1> QED
  BY <1>4, <1>12 DEF TableInv

LEMMA ReopenInv ==
  ASSUME TableInv, Reopen
  PROVE  TableInv'
<1>1. PICK F, B, A : Good(t, F, B, A) /\ Owned(t, stored, ToSet(A))
  BY DEF TableInv
<1>2. CASE t' = init_pool_data(t.key_) /\ stored' = [h \in {} |-> <<>>]
  <2>1. t.key_ \in [Node -> Key \cup {NoKey}]
    BY <1>1 DEF Good, TableType
  <2>2. PICK G, C, D : Good(t', G, C, D) /\ ToSet(D) = {}
    BY <1>2, <2>1, PoolData
  <2>3. Owned(t', stored', ToSet(D))
    BY <1>2, <2>2, OwnsNothing
  <2> QED
    BY <2>2, <2>3 DEF TableInv
<1>3. CASE t' = t /\ stored' = stored
  BY <1>1, <1>3 DEF TableInv
<1> QED
  BY <1>2, <1>3 DEF Reopen

LEMMA NextInv == TableInv /\ [Next]_vars => TableInv'
<1> SUFFICES ASSUME TableInv, [Next]_vars PROVE TableInv'
  OBVIOUS
<1>1. PICK F, B, A : Good(t, F, B, A) /\ Owned(t, stored, ToSet(A))
  BY DEF TableInv
<1>2. ASSUME NEW k \in Key, Find(k)
      PROVE  TableInv'
  BY <1>2, FindInv
<1>3. ASSUME NEW k \in Key, Delete(k)
      PROVE  TableInv'
  <2>1. CASE Lookup(k) # INVALID /\ delete_node(Found(k), Lookup(k))
    <3>1. PICK C : /\ Good(Found(k), F, B, C) /\ ToSet(C) = ToSet(A)
                   /\ Owned(Found(k), stored, ToSet(C))
      BY <1>1, <2>1, FoundGood
    <3>2. Lookup(k) \in ToSet(C)
      BY <1>1, <2>1, <3>1, LookupUsed
    <3> QED
      BY <2>1, <3>1, <3>2, DeleteInv
  <2>2. CASE t' = t /\ stored' = stored
    BY <1>1, <2>2 DEF TableInv
  <2> QED
    BY <1>3, <2>1, <2>2 DEF Delete, Fail
<1>4. ASSUME NEW len \in Lens, NEW r \in Records, NEW k \in Key, insert_node(k, len, r)
      PROVE  TableInv'
  BY <1>4, InsertInv
<1>5. ASSUME NEW len \in Lens, NEW r \in Records, NEW k \in Key, SetValue(k, len, r)
      PROVE  TableInv'
  <2>1. CASE Lookup(k) # INVALID /\ update_node(Found(k), Lookup(k), len, r)
    <3>1. PICK C : /\ Good(Found(k), F, B, C) /\ ToSet(C) = ToSet(A)
                   /\ Owned(Found(k), stored, ToSet(C))
      BY <1>1, <2>1, FoundGood
    <3>2. Lookup(k) \in ToSet(C)
      BY <1>1, <2>1, <3>1, LookupUsed
    <3> QED
      BY <2>1, <3>1, <3>2, UpdateInv
  <2>2. CASE insert_node(k, len, r)
    BY <2>2, InsertInv
  <2> QED
    BY <1>5, <2>1, <2>2 DEF SetValue
<1>6. ASSUME NEW len \in Lens, NEW r \in Records, NEW n \in UsedNodes, VisUpdate(n, len, r)
      PROVE  TableInv'
  <2>1. n \in ToSet(A) /\ update_node(t, n, len, r)
    BY <1>1, <1>6, UsedIs DEF VisUpdate
  <2> QED
    BY <1>1, <2>1, UpdateInv
<1>7. ASSUME NEW n \in UsedNodes, VisErase(n)
      PROVE  TableInv'
  <2>1. n \in ToSet(A) /\ delete_node(t, n)
    BY <1>1, <1>7, UsedIs DEF VisErase
  <2> QED
    BY <1>1, <2>1, DeleteInv
<1>8. ASSUME NEW n \in UsedNodes, ToTail(n)
      PROVE  TableInv'
  BY <1>8, ToTailInv
<1>9. CASE Reopen
  BY <1>9, ReopenInv
<1>10. CASE UNCHANGED vars
  BY <1>1, <1>10 DEF vars, TableInv
<1> QED
  BY <1>2, <1>3, <1>4, <1>5, <1>6, <1>7, <1>8, <1>9, <1>10 DEF Next

LEMMA TableOrder == Spec => []TableInv
<1>1. Init => TableInv
  BY InitInv
<1>2. TableInv /\ [Next]_vars => TableInv'
  BY NextInv
<1> QED
  BY <1>1, <1>2, PTL DEF Spec

(* Whatever the calls of CHashMap, insert_node_list, delete_from_node_list *)
(* and their free and add lists leave each node on one list of the right   *)
(* kind, and a walk along any of them ends.                                *)
THEOREM Partitioned == Spec => []NodesPartitioned
<1>1. TableInv => NodesPartitioned
  <2> SUFFICES ASSUME TableInv PROVE NodesPartitioned
    OBVIOUS
  <2>1. PICK F, B, A : Good(t, F, B, A) /\ Owned(t, stored, ToSet(A))
    BY DEF TableInv
  <2>2. /\ Walk(t.node_next_, t.free_list_) = F
        /\ \A b \in Bucket : Walk(t.node_next_, t.bucket[b]) = B[b]
        /\ Walk(t.add_next_, t.add_head_) = A
        /\ UsedNodes = ToSet(A) /\ ToSet(A) = Node \ ToSet(F)
    BY <2>1, Walks, UsedIs DEF Good
  <2>3. IsInjective(F) /\ IsInjective(A)
    BY <2>1 DEF Good, Lists, Added, Linked, IsList
  <2>4. \A b \in Bucket : B[b] \in Seq(Node) /\ IsInjective(B[b])
    BY <2>1 DEF Good, Lists, Linked, IsList
  <2>5. \A b \in Bucket : \A n \in ToSet(B[b]) :
          n \in ToSet(A) /\ t.key_[n] \in Key /\ get_bucket_id(t.key_[n]) = b
    BY <2>1, <2>4, InList DEF Good, Lists
  <2>6. \A n \in ToSet(A) : \E b \in Bucket : n \in ToSet(B[b])
    BY <2>1 DEF Good, Lists
  <2>7. ASSUME NEW b \in Bucket
        PROVE  ToSet(B[b]) = {n \in UsedNodes : t.key_[n] \in Key /\ get_bucket_id(t.key_[n]) = b}
    BY <2>2, <2>5, <2>6
  <2>8. UsedNodes = UNION {ToSet(Walk(t.node_next_, t.bucket[b])) : b \in Bucket}
    BY <2>2, <2>5, <2>6
  <2>9. \A b \in Bucket :
       /\ IsInjective(Walk(t.node_next_, t.bucket[b]))
       /\ ToSet(Walk(t.node_next_, t.bucket[b])) =
            {n \in UsedNodes : t.key_[n] \in Key /\ get_bucket_id(t.key_[n]) = b}
    BY <2>2, <2>4, <2>7
  <2> QED
    BY <2>2, <2>3, <2>8, <2>9 DEF NodesPartitioned
<1> QED
  BY <1>1, TableOrder, PTL

(* A process that attaches finds the counters as verify_pool_data wants    *)
(* them: use_node and free_node do not let them drift.                     *)
THEOREM Accepted == Spec => []VerifyAccepts
<1>1. TableInv => VerifyAccepts
  BY Walks DEF TableInv, VerifyAccepts, verify_pool_data, Good, Busy
<1> QED
  BY <1>1, TableOrder, PTL

(* insert_node, update_node and delete_node keep exactly the values of the *)
(* nodes in use, each once and with its length.                            *)
THEOREM EachItsValue == Spec => []ValuesOwned
<1>1. TableInv => ValuesOwned
  <2> SUFFICES ASSUME TableInv PROVE ValuesOwned
    OBVIOUS
  <2>1. PICK F, B, A : Good(t, F, B, A) /\ Owned(t, stored, ToSet(A))
    BY DEF TableInv
  <2> DEFINE owners == {n \in UsedNodes : t.chunk_head_[n] # INVALID}
             f == [n \in owners |-> t.chunk_head_[n]]
  <2>2. UsedNodes = ToSet(A) /\ ToSet(A) \subseteq Node
    BY <2>1, UsedIs DEF Good
  <2>3. DOMAIN stored = {t.chunk_head_[n] : n \in owners}
    <3>1. \A h \in DOMAIN stored : h # INVALID /\ \E n \in ToSet(A) : t.chunk_head_[n] = h
      BY <2>1, TableAssumption DEF Owned
    <3>2. \A n \in owners : t.chunk_head_[n] \in DOMAIN stored
      BY <2>1, <2>2 DEF Owned
    <3> QED
      BY <2>2, <3>1, <3>2
  <2>4. IsFiniteSet(owners)
    <3>1. 0 \in Int /\ NodeTotal - 1 \in Int
      BY NodeFacts
    <3>2. IsFiniteSet(Node)
      BY <3>1, FS_Interval DEF Node
    <3>3. owners \in SUBSET Node
      BY <2>2
    <3> QED
      BY <3>2, <3>3, FS_Subset
  <2>5. f \in Bijection(owners, DOMAIN stored)
    <3>1. \A n, o \in owners : t.chunk_head_[n] = t.chunk_head_[o] => n = o
      BY <2>1, <2>2 DEF Owned
    <3>2. f \in [owners -> DOMAIN stored]
      BY <2>3
    <3>3. \A n, o \in owners : f[n] = f[o] => n = o
      BY <3>1
    <3>4. \A h \in DOMAIN stored : \E n \in owners : f[n] = h
      BY <2>3
    <3> HIDE DEF f, owners
    <3> QED
      BY <3>2, <3>3, <3>4 DEF Bijection, Injection, Surjection, IsInjective
  <2>6. Cardinality(DOMAIN stored) = Cardinality(owners)
    BY <2>4, <2>5, FS_Bijection DEF ExistsBijection
  <2>7. /\ \A n \in owners : stored[t.chunk_head_[n]].len = t.chunk_len_[n]
        /\ \A n \in UsedNodes \ owners : t.chunk_len_[n] = 0
    BY <2>1, <2>2 DEF Owned
  <2> QED
    BY <2>3, <2>6, <2>7 DEF ValuesOwned
<1> QED
  BY <1>1, TableOrder, PTL

-----------------------------------------------------------------------------
(***************************************************************************)
(* The table its callers see.                                              *)
(***************************************************************************)
EntryOf(m, st, n) ==
  [key |-> m.key_[n], len |-> m.chunk_len_[n],
   rec |-> IF m.chunk_head_[n] = INVALID THEN <<>> ELSE st[m.chunk_head_[n]].rec]
EntriesOf(m, st, used) == [n \in used |-> EntryOf(m, st, n)]
UnderOf(m, B) ==
  [n \in Node |-> {x \in Node : m.key_[x] = m.key_[n] /\ \E b \in Bucket : x \in Later(B[b], n)}]
OlderOf(A) == [n \in Node |-> Later(A, n)]

Entries == [n \in UsedNodes |-> Entry(n)]

(* The views of table m.                                                   *)
UsedIn(m) == Node \ ToSet(Walk(m.node_next_, m.free_list_))
UnderIn(m) ==
  [n \in Node |-> {x \in Behind(m.node_next_, n) \cap UsedIn(m) : m.key_[x] = m.key_[n]}]
OlderIn(m) == [n \in Node |-> Behind(m.add_next_, n)]

LEMMA Views ==
  /\ UsedNodes = UsedIn(t) /\ Under = UnderIn(t) /\ Older = OlderIn(t)
  /\ Entries = EntriesOf(t, stored, UsedIn(t))
BY DEF UsedNodes, UsedIn, Under, UnderIn, Older, OlderIn, Entries, EntriesOf, Entry, EntryOf

LEMMA ViewsNext ==
  /\ UsedNodes' = UsedIn(t') /\ Under' = UnderIn(t') /\ Older' = OlderIn(t')
  /\ Entries' = EntriesOf(t', stored', UsedIn(t'))
BY DEF UsedNodes, UsedIn, Under, UnderIn, Older, OlderIn, Entries, EntriesOf, Entry, EntryOf

(* What is behind a node that is in no list, or is the last of one.        *)
LEMMA BehindNone ==
  ASSUME NEW next \in [Node -> Handle], Ends(next), NEW n \in Node, next[n] = INVALID
  PROVE  Behind(next, n) = {}
<1>1. Walk(next, INVALID) = <<>>
  BY NoList, WalkIs DEF Handle
<1> QED
  BY <1>1 DEF Behind, ToSet

LEMMA GoodBucket ==
  ASSUME NEW m, NEW F, NEW B, NEW A, Good(m, F, B, A), NEW b \in Bucket
  PROVE  /\ B[b] \in Seq(Node) /\ IsInjective(B[b]) /\ IsList(m.node_next_, m.bucket[b], B[b])
         /\ \A n \in ToSet(B[b]) : /\ n \in ToSet(A) /\ n \in Node
                                   /\ m.key_[n] \in Key /\ get_bucket_id(m.key_[n]) = b
<1>1. /\ B[b] \in Seq(Node) /\ IsInjective(B[b]) /\ IsList(m.node_next_, m.bucket[b], B[b])
      /\ \A n \in ToSet(B[b]) : m.key_[n] \in Key /\ get_bucket_id(m.key_[n]) = b /\ n \notin ToSet(F)
  BY DEF Good, Lists, Linked, IsList
<1>2. \A n \in ToSet(B[b]) : n \in Node
  BY <1>1, InList
<1> QED
  BY <1>1, <1>2 DEF Good

LEMMA GoodAdds ==
  ASSUME NEW m, NEW F, NEW B, NEW A, Good(m, F, B, A)
  PROVE  /\ A \in Seq(Node) /\ IsInjective(A) /\ IsList(m.add_next_, m.add_head_, A)
         /\ ToSet(A) \in SUBSET Node
         /\ \A n \in ToSet(A) : \E b \in Bucket : n \in ToSet(B[b])
<1>1. /\ A \in Seq(Node) /\ IsInjective(A) /\ IsList(m.add_next_, m.add_head_, A)
      /\ ToSet(A) = Node \ ToSet(F)
  BY DEF Good, Added, Linked, IsList
<1>2. \A n \in Node : n \in ToSet(F) \/ \E b \in Bucket : n \in ToSet(B[b])
  BY DEF Good, Lists
<1> QED
  BY <1>1, <1>2

(* What is behind a node of a bucket is in the bucket.                     *)
LEMMA LaterBucket ==
  ASSUME NEW m, NEW F, NEW B, NEW A, Good(m, F, B, A), NEW b \in Bucket, NEW n,
         NEW x \in Later(B[b], n)
  PROVE  /\ x \in ToSet(B[b]) /\ n \in ToSet(B[b]) /\ x # n /\ x \in Node /\ x \in ToSet(A)
         /\ m.key_[n] \in Key /\ b = get_bucket_id(m.key_[n])
<1>1. B[b] \in Seq(Node) /\ IsInjective(B[b])
  BY GoodBucket
<1>2. x \in ToSet(B[b]) /\ x # n /\ n \in ToSet(B[b])
  BY <1>1, LaterIn
<1> QED
  BY <1>2, GoodBucket

(* The views are those of the lists.                                       *)
LEMMA ViewIs ==
  ASSUME NEW m, NEW F, NEW B, NEW A, Good(m, F, B, A)
  PROVE  UsedIn(m) = ToSet(A) /\ UnderIn(m) = UnderOf(m, B) /\ OlderIn(m) = OlderOf(A)
<1>1. /\ m.node_next_ \in [Node -> Handle] /\ Ends(m.node_next_)
      /\ m.add_next_ \in [Node -> Handle] /\ Ends(m.add_next_)
  BY ListsEnd, AddedEnd DEF Good, TableType
<1>2. UsedIn(m) = ToSet(A)
  BY Walks DEF Good, UsedIn
<1>3. \A n \in ToSet(A) : n \in Node
  BY GoodAdds
<1>4. ASSUME NEW n \in Node
      PROVE  Behind(m.add_next_, n) = Later(A, n)
  <2>1. A \in Seq(Node) /\ IsInjective(A) /\ IsList(m.add_next_, m.add_head_, A)
    BY GoodAdds
  <2>2. CASE n \in ToSet(A)
    BY <1>1, <2>1, <2>2, BehindIs
  <2>3. CASE n \notin ToSet(A)
    <3>1. m.add_next_[n] = INVALID
      BY <2>3 DEF Good, Added
    <3>2. Behind(m.add_next_, n) = {}
      BY <1>1, <3>1, BehindNone
    <3>3. Later(A, n) = {}
      BY <2>1, <2>3, LaterIn
    <3> QED
      BY <3>2, <3>3
  <2> QED
    BY <2>2, <2>3
<1>5. ASSUME NEW n \in Node, NEW x
      PROVE  x \in Behind(m.node_next_, n) \cap ToSet(A) <=> \E b \in Bucket : x \in Later(B[b], n)
  <2>1. ASSUME NEW b \in Bucket, n \in ToSet(B[b])
        PROVE  Behind(m.node_next_, n) = Later(B[b], n)
    BY <1>1, <2>1, GoodBucket, BehindIs
  <2>2. CASE n \in ToSet(A)
    <3>1. PICK b \in Bucket : n \in ToSet(B[b])
      BY <2>2, GoodAdds
    <3>2. \A c \in Bucket : x \in Later(B[c], n) => c = b /\ x \in ToSet(A)
      <4>1. b = get_bucket_id(m.key_[n])
        BY <3>1, GoodBucket
      <4> QED
        BY <4>1, LaterBucket
    <3> QED
      BY <2>1, <3>1, <3>2
  <2>3. CASE n \notin ToSet(A)
    <3>1. \A b \in Bucket : x \notin Later(B[b], n)
      BY <2>3, LaterBucket, GoodBucket
    <3>2. n \in ToSet(F) /\ IsList(m.node_next_, m.free_list_, F)
      BY <2>3 DEF Good, Lists
    <3>3. Behind(m.node_next_, n) = Later(F, n)
      BY <1>1, <3>2, BehindIs
    <3>4. Later(F, n) \subseteq ToSet(F)
      BY DEF Later
    <3>5. ToSet(F) \cap ToSet(A) = {}
      BY DEF Good
    <3> QED
      BY <3>1, <3>3, <3>4, <3>5
  <2> QED
    BY <2>2, <2>3
<1>6. UnderIn(m) = UnderOf(m, B)
  <2> SUFFICES ASSUME NEW n \in Node
               PROVE  {x \in Behind(m.node_next_, n) \cap UsedIn(m) : m.key_[x] = m.key_[n]} =
                      {x \in Node : m.key_[x] = m.key_[n] /\ \E b \in Bucket : x \in Later(B[b], n)}
    BY DEF UnderIn, UnderOf
  <2> QED
    BY <1>2, <1>3, <1>5
<1>7. OlderIn(m) = OlderOf(A)
  BY <1>4 DEF OlderIn, OlderOf
<1> QED
  BY <1>2, <1>6, <1>7

(* The nodes of a key are all in its bucket.                               *)
OfKey(k) == {n \in UsedNodes : t.key_[n] = k}

LEMMA OfKeyIs ==
  ASSUME NEW F, NEW B, NEW A, Good(t, F, B, A), NEW k \in Key
  PROVE  OfKey(k) = {n \in ToSet(B[get_bucket_id(k)]) : t.key_[n] = k}
<1> DEFINE b == get_bucket_id(k)
<1>1. UsedNodes = ToSet(A) /\ b \in Bucket
  BY UsedIs, BucketId
<1>2. ASSUME NEW n \in ToSet(A), t.key_[n] = k
      PROVE  n \in ToSet(B[b])
  <2>1. PICK c \in Bucket : n \in ToSet(B[c])
    BY GoodAdds
  <2>2. get_bucket_id(t.key_[n]) = c
    BY <2>1, GoodBucket
  <2> QED
    BY <1>2, <2>1, <2>2
<1>3. \A n \in ToSet(B[b]) : n \in ToSet(A)
  BY <1>1, GoodBucket
<1> QED
  BY <1>1, <1>2, <1>3 DEF OfKey

(* find_node finds the first node of the key, with the others behind it.   *)
LEMMA LookupTop ==
  ASSUME NEW F, NEW B, NEW A, Good(t, F, B, A), NEW k \in Key
  PROVE  /\ Lookup(k) = INVALID => OfKey(k) = {}
         /\ Lookup(k) # INVALID => Lookup(k) \in OfKey(k) /\ Under[Lookup(k)] = OfKey(k) \ {Lookup(k)}
<1> DEFINE b == get_bucket_id(k)
           s == B[b]
           hits == {i \in DOMAIN s : t.key_[s[i]] = k}
<1>1. b \in Bucket /\ s \in Seq(Node) /\ IsInjective(s) /\ Walk(t.node_next_, t.bucket[b]) = s
  BY BucketId, GoodBucket, Walks
<1>2. Lookup(k) = IF hits = {} THEN INVALID ELSE s[Min(hits)]
  BY <1>1 DEF Lookup
<1>3. DOMAIN s = 1 .. Len(s) /\ Len(s) \in Nat /\ \A i \in 1 .. Len(s) : s[i] \in ToSet(s) /\ s[i] # INVALID
  BY <1>1, SeqNode, InList
<1>4. OfKey(k) = {n \in ToSet(s) : t.key_[n] = k}
  BY OfKeyIs
<1>5. \A n \in ToSet(s) : \E i \in 1 .. Len(s) : n = s[i]
  BY <1>1, InList
<1>u. Under = UnderOf(t, B)
  BY Views, ViewIs
<1>l. \A c \in Bucket : \A n, x : x \in Later(B[c], n) => x \in ToSet(B[c]) /\ c = get_bucket_id(t.key_[n])
  BY LaterBucket
<1>n. \A n \in ToSet(s) : n \in Node
  BY <1>1, InList
<1> HIDE DEF s, b
<1>6. CASE hits = {}
  <2>1. \A i \in 1 .. Len(s) : t.key_[s[i]] # k
    BY <1>3, <1>6
  <2>2. OfKey(k) = {}
    BY <1>4, <1>5, <2>1
  <2> QED
    BY <1>2, <1>6, <2>2
<1>7. CASE hits # {}
  <2> DEFINE i == Min(hits)
             n == s[i]
  <2>1. i \in hits /\ \A j \in hits : i <= j
    <3>1. hits \subseteq Nat
      BY <1>3
    <3> HIDE DEF hits
    <3>2. \E m \in hits : \A j \in hits : m <= j
      BY <1>7, <3>1, LeastNat
    <3> QED
      BY <3>2 DEF Min
  <2>2. i \in 1 .. Len(s) /\ t.key_[n] = k
    BY <1>3, <2>1
  <2>3. Lookup(k) = n
    BY <1>2, <1>7
  <2> HIDE DEF i
  <2>4. n \in ToSet(s) /\ n # INVALID /\ n \in OfKey(k) /\ n \in Node
    BY <1>3, <1>4, <1>n, <2>2
  <2>5. \A x : x \in Later(s, n) <=> \E j \in 1 .. Len(s) : i < j /\ s[j] = x
    BY <1>1, <2>2, LaterAt
  <2>6. \A j \in 1 .. Len(s) : s[j] = n => j = i
    BY <1>1, <2>2, SameIndex
  <2>7. ASSUME NEW x \in OfKey(k), x # n
        PROVE  x \in Later(s, n)
    <3>1. PICK j \in 1 .. Len(s) : x = s[j]
      BY <1>4, <1>5
    <3>2. j \in hits
      BY <1>3, <1>4, <3>1
    <3>3. i < j
      BY <1>3, <2>1, <2>2, <2>7, <3>1, <3>2
    <3> QED
      BY <2>5, <3>1, <3>3
  <2>8. n \notin Later(s, n)
    BY <1>1, LaterIn
  <2>9. \A x : x \in OfKey(k) \ {n} <=>
               x \in Node /\ t.key_[x] = t.key_[n] /\ \E c \in Bucket : x \in Later(B[c], n)
    <3> SUFFICES ASSUME NEW x
                 PROVE  x \in OfKey(k) \ {n} <=>
                        x \in Node /\ t.key_[x] = t.key_[n] /\ \E c \in Bucket : x \in Later(B[c], n)
      OBVIOUS
    <3>1. ASSUME x \in OfKey(k) \ {n}
          PROVE  x \in Node /\ t.key_[x] = t.key_[n] /\ \E c \in Bucket : x \in Later(B[c], n)
      BY <1>1, <1>4, <1>n, <2>2, <2>7, <3>1 DEF s
    <3>2. ASSUME t.key_[x] = t.key_[n], NEW c \in Bucket, x \in Later(B[c], n)
          PROVE  x \in OfKey(k) \ {n}
      <4>1. c = b /\ x \in ToSet(s)
        BY <1>l, <2>2, <3>2 DEF b, s
      <4>2. x \in Later(s, n)
        BY <3>2, <4>1 DEF s
      <4> QED
        BY <1>4, <2>2, <2>8, <3>2, <4>1, <4>2
    <3> QED
      BY <3>1, <3>2
  <2> HIDE DEF n
  <2>10. Under[n] = OfKey(k) \ {n}
    BY <1>u, <2>4, <2>9 DEF UnderOf
  <2> QED
    BY <2>3, <2>4, <2>10
<1> QED
  BY <1>6, <1>7

-----------------------------------------------------------------------------
(***************************************************************************)
(* The chunks that values take: the same whether they are counted by the   *)
(* handles of the values or by the nodes that own them.                    *)
(***************************************************************************)
PartsOf(s) == UNION {{h} \X (1 .. Pool!Need(s[h].len)) : h \in DOMAIN s}
UsedOf(s) == Cardinality(PartsOf(s))

(* Finitely many values, each with a length.                               *)
Sized(s) == IsFiniteSet(DOMAIN s) /\ \A h \in DOMAIN s : s[h].len \in Nat

LEMMA PoolUsed == ASSUME NEW s PROVE Pool!Used(s) = UsedOf(s)
BY DEF Pool!Used, Pool!Parts, Pool!Cardinality, Cardinality, UsedOf, PartsOf

LEMMA SpaceUsed == ASSUME NEW s PROVE Table!Space!Used(s) = UsedOf(s)
<1>1. \A len : Table!Space!Need(len) = Pool!Need(len)
  BY DEF Table!Space!Need, Pool!Need
<1>2. Table!Space!Parts(s) = PartsOf(s)
  BY <1>1 DEF Table!Space!Parts, PartsOf
<1>3. \A S : Table!Space!Cardinality(S) = Cardinality(S)
  BY DEF Table!Space!Cardinality, Cardinality
<1> QED
  BY <1>2, <1>3 DEF Table!Space!Used, UsedOf

LEMMA InParts ==
  ASSUME NEW s
  PROVE  \A p : p \in PartsOf(s) <=> \E h \in DOMAIN s : \E i \in 1 .. Pool!Need(s[h].len) : p = <<h, i>>
BY DEF PartsOf

LEMMA PartOf ==
  ASSUME NEW h, NEW n \in Nat
  PROVE  IsFiniteSet({h} \X (1 .. n)) /\ Cardinality({h} \X (1 .. n)) = n
<1>1. IsFiniteSet({h}) /\ Cardinality({h}) = 1
  BY FS_Singleton
<1>2. IsFiniteSet(1 .. n) /\ Cardinality(1 .. n) = n
  <2>1. 1 \in Int /\ n \in Int
    OBVIOUS
  <2>2. /\ IsFiniteSet(1 .. n)
        /\ Cardinality(1 .. n) = IF 1 > n THEN 0 ELSE n - 1 + 1
    BY <2>1, FS_Interval
  <2> QED
    BY <2>2
<1>3. /\ IsFiniteSet({h} \X (1 .. n))
      /\ Cardinality({h} \X (1 .. n)) = Cardinality({h}) * Cardinality(1 .. n)
  BY <1>1, <1>2, FS_Product
<1> QED
  BY <1>1, <1>2, <1>3

LEMMA PartsFinite ==
  ASSUME NEW s, Sized(s)
  PROVE  IsFiniteSet(PartsOf(s)) /\ UsedOf(s) \in Nat
<1> DEFINE P(h) == {h} \X (1 .. Pool!Need(s[h].len))
           S == {P(h) : h \in DOMAIN s}
<1>1. \A h \in DOMAIN s : IsFiniteSet(P(h))
  BY NeedZero, PartOf DEF Sized
<1>2. IsFiniteSet(S)
  <2> DEFINE f == [h \in DOMAIN s |-> P(h)]
  <2>1. f \in Surjection(DOMAIN s, S)
    BY DEF Surjection
  <2>2. IsFiniteSet(DOMAIN s)
    BY DEF Sized
  <2> HIDE DEF f, S
  <2> QED
    BY <2>1, <2>2, FS_Surjection
<1>3. \A T \in S : IsFiniteSet(T)
  BY <1>1
<1>4. IsFiniteSet(UNION S)
  <2> HIDE DEF S
  <2> QED
    BY <1>2, <1>3, FS_UNION
<1>5. PartsOf(s) = UNION S
  BY DEF PartsOf
<1> HIDE DEF S
<1>6. IsFiniteSet(PartsOf(s))
  BY <1>4, <1>5
<1> QED
  BY <1>6, FS_CardinalityType DEF UsedOf

(* A value takes the chunks that are free without it.                      *)
LEMMA UsedWithout ==
  ASSUME NEW s, Sized(s), NEW h \in DOMAIN s
  PROVE  /\ Sized(Pool!Without(s, h)) /\ UsedOf(Pool!Without(s, h)) \in Nat
         /\ UsedOf(s) = UsedOf(Pool!Without(s, h)) + Pool!Need(s[h].len)
<1> DEFINE r == Pool!Without(s, h)
           n == Pool!Need(s[h].len)
           P == {h} \X (1 .. n)
<1>1. DOMAIN r = DOMAIN s \ {h} /\ \A g \in DOMAIN r : r[g] = s[g]
  BY DEF Pool!Without
<1> HIDE DEF r
<1>2. Sized(r)
  <2>1. DOMAIN r \in SUBSET DOMAIN s /\ IsFiniteSet(DOMAIN s)
    BY <1>1 DEF Sized
  <2>2. IsFiniteSet(DOMAIN r)
    BY <2>1, FS_Subset
  <2> QED
    BY <1>1, <2>2 DEF Sized
<1>3. n \in Nat
  BY NeedZero DEF Sized
<1>4. IsFiniteSet(P) /\ Cardinality(P) = n
  BY <1>3, PartOf
<1>5. IsFiniteSet(PartsOf(r)) /\ UsedOf(r) \in Nat
  BY <1>2, PartsFinite
<1>6. PartsOf(s) = PartsOf(r) \cup P
  <2>1. \A p : p \in P <=> \E i \in 1 .. n : p = <<h, i>>
    OBVIOUS
  <2>2. \A p : p \in PartsOf(s) <=> \E g \in DOMAIN s : \E i \in 1 .. Pool!Need(s[g].len) : p = <<g, i>>
    BY InParts
  <2>3. \A p : p \in PartsOf(r) <=> \E g \in DOMAIN r : \E i \in 1 .. Pool!Need(r[g].len) : p = <<g, i>>
    BY InParts
  <2>4. \A p : p \in PartsOf(s) <=> p \in PartsOf(r) \/ p \in P
    BY <1>1, <2>1, <2>2, <2>3
  <2> QED
    BY <2>4
<1>7. PartsOf(r) \cap P = {}
  BY <1>1, InParts
<1> HIDE DEF P, n
<1>8. Cardinality(PartsOf(r) \cup P) = Cardinality(PartsOf(r)) + Cardinality(P) - Cardinality(PartsOf(r) \cap P)
  BY <1>4, <1>5, FS_Union
<1>9. Cardinality(PartsOf(r) \cap P) = 0
  BY <1>7, FS_EmptySet
<1>10. UsedOf(s) = UsedOf(r) + n
  BY <1>3, <1>4, <1>5, <1>6, <1>8, <1>9 DEF UsedOf
<1> QED
  BY <1>2, <1>5, <1>10 DEF r, n

LEMMA UsedWith ==
  ASSUME NEW s, Sized(s), NEW h, h \notin DOMAIN s, NEW len \in Nat, NEW r
  PROVE  /\ Sized(Pool!With(s, h, len, r))
         /\ UsedOf(Pool!With(s, h, len, r)) = UsedOf(s) + Pool!Need(len)
<1> DEFINE u == Pool!With(s, h, len, r)
           w == Pool!Without(u, h)
<1>1. DOMAIN u = DOMAIN s \cup {h} /\ u[h].len = len /\ \A g \in DOMAIN s : u[g] = s[g]
  BY DEF Pool!With
<1> HIDE DEF u
<1>2. Sized(u)
  <2>1. IsFiniteSet(DOMAIN u)
    BY <1>1, FS_AddElement DEF Sized
  <2> QED
    BY <1>1, <2>1 DEF Sized
<1>3. UsedOf(u) = UsedOf(w) + Pool!Need(u[h].len)
  BY <1>1, <1>2, UsedWithout
<1>4. PartsOf(w) = PartsOf(s)
  <2>1. DOMAIN w = DOMAIN s /\ \A g \in DOMAIN s : w[g] = s[g]
    BY <1>1 DEF Pool!Without
  <2> HIDE DEF w
  <2>2. \A p : p \in PartsOf(w) <=> p \in PartsOf(s)
    BY <2>1, InParts
  <2> QED
    BY <2>2
<1> QED
  BY <1>1, <1>2, <1>3, <1>4 DEF UsedOf, u

(* The values are finitely many.                                           *)
LEMMA NodesFinite == IsFiniteSet(Node)
<1>1. 0 \in Int /\ NodeTotal - 1 \in Int
  BY NodeFacts
<1> QED
  BY <1>1, FS_Interval DEF Node

LEMMA StoredSized ==
  ASSUME NEW m \in TableType, NEW st, NEW used \in SUBSET Node, Owned(m, st, used)
  PROVE  Sized(st) /\ Sized(EntriesOf(m, st, used))
<1> DEFINE owners == {n \in used : m.chunk_head_[n] # INVALID}
           f == [n \in owners |-> m.chunk_head_[n]]
<1>1. IsFiniteSet(used) /\ IsFiniteSet(owners)
  <2>1. used \in SUBSET Node /\ owners \in SUBSET Node
    OBVIOUS
  <2> QED
    BY <2>1, NodesFinite, FS_Subset
<1>2. DOMAIN st = {m.chunk_head_[n] : n \in owners}
  <2>1. \A h \in DOMAIN st : h # INVALID /\ \E n \in used : m.chunk_head_[n] = h
    BY TableAssumption DEF Owned
  <2>2. \A n \in owners : m.chunk_head_[n] \in DOMAIN st
    BY DEF Owned
  <2> QED
    BY <2>1, <2>2
<1>3. f \in Surjection(owners, DOMAIN st)
  BY <1>2 DEF Surjection
<1>4. IsFiniteSet(DOMAIN st)
  <2> HIDE DEF f, owners
  <2> QED
    BY <1>1, <1>3, FS_Surjection
<1>5. \A h \in DOMAIN st : st[h].len \in Nat
  <2> SUFFICES ASSUME NEW h \in DOMAIN st PROVE st[h].len \in Nat
    OBVIOUS
  <2>1. PICK n \in owners : m.chunk_head_[n] = h
    BY <1>2
  <2>2. st[h].len = m.chunk_len_[n]
    BY <2>1 DEF Owned
  <2> QED
    BY <2>2 DEF TableType
<1>6. Sized(EntriesOf(m, st, used))
  BY <1>1 DEF Sized, EntriesOf, EntryOf, TableType
<1> QED
  BY <1>4, <1>5, <1>6 DEF Sized

LEMMA SameUsed ==
  ASSUME NEW m \in TableType, NEW st, NEW used \in SUBSET Node, Owned(m, st, used)
  PROVE  UsedOf(EntriesOf(m, st, used)) = UsedOf(st)
<1> DEFINE e == EntriesOf(m, st, used)
           S == PartsOf(e)
           T == PartsOf(st)
           f == [p \in S |-> <<m.chunk_head_[p[1]], p[2]>>]
<1>1. DOMAIN e = used /\ \A n \in used : e[n].len = m.chunk_len_[n] /\ m.chunk_len_[n] \in Nat
  BY DEF EntriesOf, EntryOf, TableType
<1> HIDE DEF e
<1>2. \A p : p \in S <=> \E n \in used : \E i \in 1 .. Pool!Need(m.chunk_len_[n]) : p = <<n, i>>
  BY <1>1, InParts
<1>3. \A p : p \in T <=> \E h \in DOMAIN st : \E i \in 1 .. Pool!Need(st[h].len) : p = <<h, i>>
  BY InParts
<1>4. ASSUME NEW n \in used, NEW i \in 1 .. Pool!Need(m.chunk_len_[n])
      PROVE  /\ m.chunk_head_[n] # INVALID /\ m.chunk_head_[n] \in DOMAIN st
             /\ st[m.chunk_head_[n]].len = m.chunk_len_[n]
  <2>1. Pool!Need(m.chunk_len_[n]) # 0
    BY <1>4
  <2>2. m.chunk_len_[n] # 0
    BY <1>1, <2>1, NeedZero
  <2> QED
    BY <2>2 DEF Owned
<1> HIDE DEF S, T
<1>5. ASSUME NEW p \in S
      PROVE  f[p] \in T /\ \E n \in used : \E i \in 1 .. Pool!Need(m.chunk_len_[n]) :
                             p = <<n, i>> /\ f[p] = <<m.chunk_head_[n], i>>
  <2>1. PICK n \in used : \E i \in 1 .. Pool!Need(m.chunk_len_[n]) : p = <<n, i>>
    BY <1>2
  <2>i. PICK i \in 1 .. Pool!Need(m.chunk_len_[n]) : p = <<n, i>>
    BY <2>1
  <2>2. f[p] = <<m.chunk_head_[n], i>>
    BY <2>i
  <2>3. m.chunk_head_[n] \in DOMAIN st /\ st[m.chunk_head_[n]].len = m.chunk_len_[n]
    BY <1>4
  <2>4. <<m.chunk_head_[n], i>> \in T
    BY <1>3, <2>3
  <2> QED
    BY <2>i, <2>2, <2>4
<1>6. f \in [S -> T]
  BY <1>5
<1>7. ASSUME NEW p \in S, NEW q \in S, f[p] = f[q]
      PROVE  p = q
  <2>n. PICK n \in used : \E i \in 1 .. Pool!Need(m.chunk_len_[n]) :
                 p = <<n, i>> /\ f[p] = <<m.chunk_head_[n], i>>
    BY <1>5
  <2>1. PICK i \in 1 .. Pool!Need(m.chunk_len_[n]) : p = <<n, i>> /\ f[p] = <<m.chunk_head_[n], i>>
    BY <2>n
  <2>o. PICK o \in used : \E j \in 1 .. Pool!Need(m.chunk_len_[o]) :
                 q = <<o, j>> /\ f[q] = <<m.chunk_head_[o], j>>
    BY <1>5
  <2>2. PICK j \in 1 .. Pool!Need(m.chunk_len_[o]) : q = <<o, j>> /\ f[q] = <<m.chunk_head_[o], j>>
    BY <2>o
  <2>3. m.chunk_head_[n] = m.chunk_head_[o] /\ i = j
    BY <1>7, <2>1, <2>2
  <2>4. m.chunk_head_[n] # INVALID
    BY <1>4
  <2>5. n = o
    BY <2>3, <2>4 DEF Owned
  <2> QED
    BY <2>1, <2>2, <2>3, <2>5
<1>8. ASSUME NEW q \in T
      PROVE  \E p \in S : f[p] = q
  <2>h. PICK h \in DOMAIN st : \E i \in 1 .. Pool!Need(st[h].len) : q = <<h, i>>
    BY <1>3
  <2>1. PICK i \in 1 .. Pool!Need(st[h].len) : q = <<h, i>>
    BY <2>h
  <2>2. PICK n \in used : m.chunk_head_[n] = h
    BY DEF Owned
  <2>3. h # INVALID
    BY TableAssumption DEF Owned
  <2>4. st[h].len = m.chunk_len_[n]
    BY <2>2, <2>3 DEF Owned
  <2>5. <<n, i>> \in S
    BY <1>2, <2>1, <2>4
  <2>6. f[<<n, i>>] = <<h, i>>
    BY <2>2, <2>5
  <2> QED
    BY <2>1, <2>5, <2>6
<1>9. f \in Bijection(S, T)
  <2> HIDE DEF f
  <2> QED
    BY <1>6, <1>7, <1>8 DEF Bijection, Injection, Surjection, IsInjective
<1>10. IsFiniteSet(S)
  BY StoredSized, PartsFinite DEF S, e
<1>11. Cardinality(S) = Cardinality(T)
  <2> HIDE DEF f
  <2>1. IsFiniteSet(T)
    BY StoredSized, PartsFinite DEF T
  <2> QED
    BY <1>9, <1>10, <2>1, FS_Bijection DEF ExistsBijection
<1> QED
  BY <1>11 DEF S, T, e, UsedOf

-----------------------------------------------------------------------------
(***************************************************************************)
(* What the calls do to the views.                                         *)
(***************************************************************************)
LEMMA OlderHead ==
  ASSUME NEW A, NEW C, NEW n, ToHead(C, A, n)
  PROVE  OlderOf(C) = [j \in Node |-> IF j = n THEN ToSet(A) \ {n} ELSE OlderOf(A)[j] \ {n}]
BY DEF ToHead, OlderOf

LEMMA OlderTail ==
  ASSUME NEW A, NEW C, NEW n, ToEnd(C, A, n)
  PROVE  OlderOf(C) = [j \in Node |-> IF j = n \/ j \notin ToSet(A) THEN {} ELSE OlderOf(A)[j] \cup {n}]
BY DEF ToEnd, OlderOf

(* f without n.                                                            *)
NoLonger(f, n) == [j \in Node |-> IF j = n THEN {} ELSE f[j] \ {n}]

LEMMA OlderDrop ==
  ASSUME NEW A, NEW C, NEW D, NEW n, Dropped(D, C, n), C = A \/ ToHead(C, A, n)
  PROVE  OlderOf(D) = NoLonger(OlderOf(A), n)
<1>1. ASSUME NEW j \in Node, j # n
      PROVE  Later(D, j) = Later(A, j) \ {n}
  <2>1. Later(D, j) = Later(C, j) \ {n}
    BY <1>1 DEF Dropped
  <2>2. C = A \/ Later(C, j) = Later(A, j) \ {n}
    BY <1>1 DEF ToHead
  <2> QED
    BY <2>1, <2>2
<1>2. Later(D, n) = {}
  BY DEF Dropped
<1> QED
  BY <1>1, <1>2 DEF OlderOf, NoLonger

(* The nodes of key k in its bucket.                                       *)
InBucket(m, B, k) == {x \in ToSet(B[get_bucket_id(k)]) : m.key_[x] = k}

(* n gets the key k, and is in front of the others of it.                  *)
Keyed(e, m, n, k) == e.key_ = [m.key_ EXCEPT ![n] = k]
Topped(e, C, m, B, n, k) == UnderOf(e, C) = [UnderOf(m, B) EXCEPT ![n] = InBucket(m, B, k)]

LEMMA UnderAdd ==
  ASSUME NEW m, NEW F, NEW B, NEW A, Good(m, F, B, A), NEW C, NEW n \in Node, n \notin ToSet(A),
         NEW k \in Key, Filed(C, B, get_bucket_id(k), n),
         NEW e, Keyed(e, m, n, k)
  PROVE  Topped(e, C, m, B, n, k)
<1> DEFINE b == get_bucket_id(k)
<1>1. b \in Bucket
  BY BucketId
<1>2. m.key_ \in [Node -> Key \cup {NoKey}]
  BY DEF Good, TableType
<1>3. e.key_[n] = k /\ \A x \in Node : x # n => e.key_[x] = m.key_[x]
  BY <1>2 DEF Keyed
<1>4. \A c \in Bucket : n \notin ToSet(B[c])
  BY GoodBucket
<1>5. \A c \in Bucket : \A j, x : x \in Later(B[c], j) => x \in Node /\ x # n /\ j # n
  <2> SUFFICES ASSUME NEW c \in Bucket, NEW j, NEW x \in Later(B[c], j)
               PROVE  x \in Node /\ x # n /\ j # n
    OBVIOUS
  <2>1. x \in ToSet(B[c]) /\ j \in ToSet(B[c]) /\ x \in Node
    BY LaterBucket
  <2> QED
    BY <1>4, <2>1
<1>6. \A x \in ToSet(B[b]) : x \in Node /\ x # n
  BY <1>1, <1>4, GoodBucket
<1>7. \A c \in Bucket : \A j : Later(C[c], j) = IF c = b /\ j = n THEN ToSet(B[b]) ELSE Later(B[c], j)
  BY DEF Filed
<1> HIDE DEF b
<1> DEFINE U(j) == {x \in Node : e.key_[x] = e.key_[j] /\ \E c \in Bucket : x \in Later(C[c], j)}
           V(j) == {x \in Node : m.key_[x] = m.key_[j] /\ \E c \in Bucket : x \in Later(B[c], j)}
           W == {x \in ToSet(B[b]) : m.key_[x] = k}
<1>8. U(n) = W
  <2>1. \A x : (\E c \in Bucket : x \in Later(C[c], n)) <=> x \in ToSet(B[b])
    BY <1>1, <1>5, <1>7
  <2> QED
    BY <1>3, <1>6, <2>1
<1>9. ASSUME NEW j \in Node, j # n
      PROVE  U(j) = V(j)
  <2>1. \A x : \A c \in Bucket : x \in Later(C[c], j) <=> x \in Later(B[c], j)
    BY <1>7, <1>9
  <2>2. \A x \in Node : (\E c \in Bucket : x \in Later(B[c], j)) => e.key_[x] = m.key_[x]
    BY <1>3, <1>5
  <2>3. e.key_[j] = m.key_[j]
    BY <1>3, <1>9
  <2> QED
    BY <2>1, <2>2, <2>3
<1>10. UnderOf(e, C) = [j \in Node |-> U(j)] /\ UnderOf(m, B) = [j \in Node |-> V(j)]
  BY DEF UnderOf
<1> HIDE DEF U, V, W
<1>11. [j \in Node |-> U(j)] = [[j \in Node |-> V(j)] EXCEPT ![n] = W]
  BY <1>8, <1>9
<1> QED
  BY <1>10, <1>11 DEF W, b, InBucket, Topped

LEMMA UnderDrop ==
  ASSUME NEW m, NEW B, NEW C, NEW n \in Node, Unfiled(C, B, n), NEW e, e.key_ = m.key_
  PROVE  UnderOf(e, C) = NoLonger(UnderOf(m, B), n)
<1> DEFINE U(j) == {x \in Node : e.key_[x] = e.key_[j] /\ \E c \in Bucket : x \in Later(C[c], j)}
           V(j) == {x \in Node : m.key_[x] = m.key_[j] /\ \E c \in Bucket : x \in Later(B[c], j)}
<1>1. U(n) = {}
  BY DEF Unfiled, Dropped
<1>2. ASSUME NEW j \in Node, j # n
      PROVE  U(j) = V(j) \ {n}
  <2>1. \A x : \A c \in Bucket : x \in Later(C[c], j) <=> x \in Later(B[c], j) /\ x # n
    BY <1>2 DEF Unfiled, Dropped
  <2> QED
    BY <2>1
<1>3. UnderOf(e, C) = [j \in Node |-> U(j)] /\ UnderOf(m, B) = [j \in Node |-> V(j)]
  BY DEF UnderOf
<1> HIDE DEF U, V
<1>4. [j \in Node |-> U(j)] =
      [j \in Node |-> IF j = n THEN {} ELSE [i \in Node |-> V(i)][j] \ {n}]
  BY <1>1, <1>2
<1> QED
  BY <1>3, <1>4 DEF NoLonger

(* E with the entry v of n added; and entry n replaced, the others as      *)
(* they were.                                                              *)
WithEntry(E, used, n, v) == [j \in used \cup {n} |-> IF j = n THEN v ELSE E[j]]
Replaced(e, st2, m, st, used, n, len, r) ==
  /\ EntryOf(e, st2, n) = [key |-> m.key_[n], len |-> len, rec |-> IF len = 0 THEN <<>> ELSE r]
  /\ \A j \in used : j # n => EntryOf(e, st2, j) = EntryOf(m, st, j)

LEMMA EntriesAdd ==
  ASSUME NEW m \in TableType, NEW B, NEW A, NEW st, Owned(m, st, ToSet(A)), ToSet(A) \in SUBSET Node,
         NEW n, NEW k, NEW len, NEW h \in ChunkHandle, h \notin DOMAIN st, NEW r,
         NEW e, Grown(e, m, B, A, n, k, len, h)
  PROVE  EntriesOf(e, Pool!With(st, h, len, r), ToSet(A) \cup {n}) =
           WithEntry(EntriesOf(m, st, ToSet(A)), ToSet(A), n, [key |-> k, len |-> len, rec |-> r])
<1> DEFINE st2 == Pool!With(st, h, len, r)
<1>1. /\ n \in Node /\ n \notin ToSet(A)
      /\ e.key_[n] = k /\ e.chunk_len_[n] = len /\ e.chunk_head_[n] = h
      /\ \A j \in ToSet(A) : /\ e.key_[j] = m.key_[j] /\ e.chunk_len_[j] = m.chunk_len_[j]
                             /\ e.chunk_head_[j] = m.chunk_head_[j]
  BY DEF Grown, TableType
<1>2. st2[h].rec = r /\ \A g \in DOMAIN st : st2[g] = st[g]
  BY DEF Pool!With
<1>3. h # INVALID
  BY TableAssumption
<1> HIDE DEF st2
<1>4. EntryOf(e, st2, n) = [key |-> k, len |-> len, rec |-> r]
  BY <1>1, <1>2, <1>3 DEF EntryOf
<1>5. ASSUME NEW j \in ToSet(A)
      PROVE  EntryOf(e, st2, j) = EntryOf(m, st, j)
  <2>1. m.chunk_head_[j] # INVALID => m.chunk_head_[j] \in DOMAIN st
    BY DEF Owned
  <2> QED
    BY <1>1, <1>2, <2>1 DEF EntryOf
<1> QED
  BY <1>1, <1>4, <1>5 DEF EntriesOf, WithEntry, st2

(* A value set, or taken away, does not show in the other entries.         *)
LEMMA EntriesSet ==
  ASSUME NEW m \in TableType, NEW st, NEW used \in SUBSET Node, Owned(m, st, used),
         NEW n \in used, NEW h \in ChunkHandle \cup {INVALID}, NEW len, NEW r,
         NEW e, SetTo(e, m, n, len, h), e.key_ = m.key_,
         h \notin DOMAIN Rest(st, m.chunk_head_[n]), h = INVALID <=> len = 0,
         NEW st2, st2 = IF h = INVALID THEN Rest(st, m.chunk_head_[n])
                        ELSE Pool!With(Rest(st, m.chunk_head_[n]), h, len, r)
  PROVE  Replaced(e, st2, m, st, used, n, len, r)
<1> DEFINE rest == Rest(st, m.chunk_head_[n])
<1>1. /\ e.chunk_len_[n] = len /\ e.chunk_head_[n] = h
      /\ \A j \in used : j # n => e.chunk_len_[j] = m.chunk_len_[j] /\ e.chunk_head_[j] = m.chunk_head_[j]
  BY DEF SetTo, TableType
<1>2. \A g \in DOMAIN st : g # m.chunk_head_[n] => g \in DOMAIN rest /\ rest[g] = st[g]
  BY DEF Rest, Pool!Without
<1> HIDE DEF rest
<1>3. /\ h # INVALID => st2[h].rec = r
      /\ \A g \in DOMAIN rest : st2[g] = rest[g]
  BY DEF Pool!With, rest
<1>4. EntryOf(e, st2, n) = [key |-> m.key_[n], len |-> len, rec |-> IF len = 0 THEN <<>> ELSE r]
  BY <1>1, <1>3 DEF EntryOf
<1>5. ASSUME NEW j \in used, j # n
      PROVE  EntryOf(e, st2, j) = EntryOf(m, st, j)
  <2>1. m.chunk_head_[j] # INVALID => m.chunk_head_[j] \in DOMAIN st /\ m.chunk_head_[j] # m.chunk_head_[n]
    BY <1>5 DEF Owned
  <2>2. m.chunk_head_[j] # INVALID => st2[m.chunk_head_[j]] = st[m.chunk_head_[j]]
    BY <1>2, <1>3, <2>1
  <2> QED
    BY <1>1, <1>5, <2>2 DEF EntryOf
<1> QED
  BY <1>4, <1>5 DEF Replaced

-----------------------------------------------------------------------------
(***************************************************************************)
(* Each call is a step of the abstract table.                              *)
(***************************************************************************)
(* The second half of the invariant: what is stored fits.                  *)
RoomInv == UsedOf(stored) <= ChunkTotal /\ ok \in BOOLEAN

LEMMA SeenNow ==
  ASSUME NEW F, NEW B, NEW A, Good(t, F, B, A)
  PROVE  /\ UsedNodes = ToSet(A) /\ Entries = EntriesOf(t, stored, ToSet(A))
         /\ Under = UnderOf(t, B) /\ Older = OlderOf(A)
BY Views, ViewIs

LEMMA SeenNext ==
  ASSUME NEW F, NEW B, NEW A, Good(t', F, B, A)
  PROVE  /\ UsedNodes' = ToSet(A) /\ Entries' = EntriesOf(t', stored', ToSet(A))
         /\ Under' = UnderOf(t', B) /\ Older' = OlderOf(A)
BY ViewsNext, ViewIs

(* A move in the add list, and an update, leave the rest as it is.         *)
LEMMA SeenSame ==
  ASSUME NEW e, NEW m, KeepsValues(e, m), e.key_ = m.key_, NEW st, NEW S
  PROVE  EntriesOf(e, st, S) = EntriesOf(m, st, S)
BY DEF EntriesOf, EntryOf, KeepsValues

LEMMA SeenUnder ==
  ASSUME NEW e, NEW m, e.key_ = m.key_, NEW B
  PROVE  UnderOf(e, B) = UnderOf(m, B)
BY DEF UnderOf

LEMMA SeenEmpty ==
  ASSUME NEW m, NEW F, NEW B, NEW A, Good(m, F, B, A), ToSet(A) = {}, NEW st
  PROVE  /\ EntriesOf(m, st, ToSet(A)) = [n \in {} |-> <<>>]
         /\ UnderOf(m, B) = [n \in Node |-> {}] /\ OlderOf(A) = [n \in Node |-> {}]
<1>1. \A n \in Node : Later(A, n) = {}
  BY GoodAdds, LaterIn
<1>2. ASSUME NEW n \in Node, NEW b \in Bucket, NEW x \in Later(B[b], n)
      PROVE  FALSE
  BY <1>2, LaterBucket
<1>3. \A n \in Node : \A x : ~\E b \in Bucket : x \in Later(B[b], n)
  BY <1>2
<1>4. UnderOf(m, B) = [n \in Node |-> {}]
  BY <1>3 DEF UnderOf
<1> QED
  BY <1>1, <1>4 DEF OlderOf, EntriesOf

-----------------------------------------------------------------------------
(* What the abstract table says, in the terms of the views.                *)
AsEntry(k, len, r) == [key |-> k, len |-> len, rec |-> IF len = 0 THEN <<>> ELSE r]
UsesLast(n) == Older' = [j \in Node |-> IF j = n THEN UsedNodes \ {n} ELSE Older[j] \ {n}]
IsTop(n, k) == n \in OfKey(k) /\ Under[n] = OfKey(k) \ {n}
Accepts(len) == Node \ UsedNodes # {} /\ len > 0 /\ UsedOf(Entries) + Pool!Need(len) <= ChunkTotal
Exchanges(n, len) == UsedOf(Pool!Without(Entries, n)) + Pool!Need(len) <= ChunkTotal
Renews(n, len, r) ==
  Entries' = IF Exchanges(n, len) THEN [Entries EXCEPT ![n] = AsEntry(@.key, len, r)] ELSE Entries
Adds(k, len, r) ==
  \E n \in Node \ UsedNodes :
    /\ Entries' = [j \in UsedNodes \cup {n} |-> IF j = n THEN AsEntry(k, len, r) ELSE Entries[j]]
    /\ Under' = [Under EXCEPT ![n] = OfKey(k)]
    /\ UsesLast(n)
Inserts(k, len, r) ==
  \/ Accepts(len) /\ ok' = TRUE /\ Adds(k, len, r)
  \/ ~Accepts(len) /\ ok' = FALSE /\ Entries' = Entries /\ Under' = Under /\ Older' = Older
Removes(n) ==
  /\ Entries' = [j \in UsedNodes \ {n} |-> Entries[j]]
  /\ Under' = NoLonger(Under, n)
  /\ Older' = NoLonger(Older, n)
Keeps == Entries' = Entries /\ Under' = Under

LEMMA TableOf ==
  ASSUME NEW k
  PROVE  Table!Of(k) = OfKey(k)
BY DEF Table!Of, OfKey, Entry

LEMMA TableLast ==
  ASSUME NEW n
  PROVE  Table!UsedLast(n, UsedNodes) <=> UsesLast(n)
BY DEF Table!UsedLast, UsesLast

LEMMA TableTop ==
  ASSUME NEW k, NEW n
  PROVE  n \in Table!Top(k) <=> IsTop(n, k)
BY TableOf DEF Table!Top, IsTop

LEMMA TableAccepts ==
  ASSUME NEW len
  PROVE  Table!Accepts(len) <=> Accepts(len)
<1>1. Table!Space!Used(Entries) = UsedOf(Entries)
  BY SpaceUsed
<1>2. Table!Space!Need(len) = Pool!Need(len)
  BY DEF Table!Space!Need, Pool!Need
<1>3. Table!Accepts(len) <=>
        Node \ DOMAIN Entries # {} /\ len > 0 /\ Table!Space!Fits(Entries, len)
  BY DEF Table!Accepts, Entries
<1>4. DOMAIN Entries = UsedNodes
  BY DEF Entries
<1> QED
  BY <1>1, <1>2, <1>3, <1>4 DEF Table!Space!Fits, Accepts

LEMMA TableExchanges ==
  ASSUME NEW n, NEW len
  PROVE  Table!CanUpdate(n, len) <=> Exchanges(n, len)
<1>1. Table!Space!Used(Pool!Without(Entries, n)) = UsedOf(Pool!Without(Entries, n))
  BY SpaceUsed
<1>2. Table!Space!Need(len) = Pool!Need(len)
  BY DEF Table!Space!Need, Pool!Need
<1>3. Table!CanUpdate(n, len) <=> Table!Space!Fits(Table!Space!Without(Entries, n), len)
  BY DEF Table!CanUpdate, Entries
<1>4. Table!Space!Without(Entries, n) = Pool!Without(Entries, n)
  BY DEF Table!Space!Without, Pool!Without
<1> QED
  BY <1>1, <1>2, <1>3, <1>4 DEF Table!Space!Fits, Exchanges

LEMMA TableUpdate ==
  ASSUME NEW n \in UsedNodes, NEW len, NEW r
  PROVE  Table!Update(n, len, r) <=> Renews(n, len, r)
<1>1. Table!CanUpdate(n, len) <=> Exchanges(n, len)
  BY TableExchanges
<1>2. Table!Update(n, len, r) <=>
        Entries' = IF Table!CanUpdate(n, len)
                   THEN [Entries EXCEPT ![n] = Table!Entry(@.key, len, r)] ELSE Entries
  BY DEF Table!Update, Entries
<1>3. \A k : Table!Entry(k, len, r) = AsEntry(k, len, r)
  BY DEF Table!Entry, AsEntry
<1> QED
  BY <1>1, <1>2, <1>3 DEF Renews

LEMMA TableInsert ==
  ASSUME NEW k, NEW len, NEW r, Inserts(k, len, r)
  PROVE  Table!Insert(k, len, r)
<1>1. Table!Accepts(len) <=> Accepts(len)
  BY TableAccepts
<1>2. CASE Accepts(len) /\ ok' = TRUE /\ Adds(k, len, r)
  <2>1. PICK n \in Node \ UsedNodes :
          /\ Entries' = [j \in UsedNodes \cup {n} |-> IF j = n THEN AsEntry(k, len, r) ELSE Entries[j]]
          /\ Under' = [Under EXCEPT ![n] = OfKey(k)]
          /\ UsesLast(n)
    BY <1>2 DEF Adds
  <2>2. Table!UsedLast(n, UsedNodes) /\ Table!Of(k) = OfKey(k) /\ Table!Entry(k, len, r) = AsEntry(k, len, r)
    BY <2>1, TableLast, TableOf DEF Table!Entry, AsEntry
  <2> QED
    BY <1>1, <1>2, <2>1, <2>2 DEF Table!Insert, Entries
<1>3. CASE ~Accepts(len) /\ ok' = FALSE /\ Entries' = Entries /\ Under' = Under /\ Older' = Older
  BY <1>1, <1>3 DEF Table!Insert, Table!Fail, Entries
<1> QED
  BY <1>2, <1>3 DEF Inserts

LEMMA TableRemove ==
  ASSUME NEW n, Removes(n)
  PROVE  Table!Remove(n)
BY DEF Table!Remove, Removes, NoLonger, Entries

LEMMA TableKeeps ==
  ASSUME Keeps
  PROVE  [n \in UsedNodes |-> Entry(n)]' = [n \in UsedNodes |-> Entry(n)] /\ Under' = Under
BY DEF Keeps, Entries

(* What fits, by the nodes and by the handles.                             *)
LEMMA RestUsed ==
  ASSUME NEW m \in TableType, NEW st, NEW used \in SUBSET Node, Owned(m, st, used), NEW n \in used
  PROVE  /\ Sized(Rest(st, m.chunk_head_[n])) /\ UsedOf(Rest(st, m.chunk_head_[n])) \in Nat
         /\ Pool!Need(m.chunk_len_[n]) \in Nat
         /\ UsedOf(st) = UsedOf(Rest(st, m.chunk_head_[n])) + Pool!Need(m.chunk_len_[n])
<1> DEFINE h == m.chunk_head_[n]
           len == m.chunk_len_[n]
<1>1. Sized(st) /\ UsedOf(st) \in Nat
  BY StoredSized, PartsFinite
<1>2. len \in Nat /\ (h = INVALID <=> len = 0) /\ (h # INVALID => h \in DOMAIN st /\ st[h].len = len)
  BY DEF Owned, TableType
<1> HIDE DEF h, len
<1>3. Pool!Need(len) \in Nat /\ (len = 0 => Pool!Need(len) = 0)
  BY <1>2, NeedZero
<1>4. CASE h = INVALID
  <2>1. Rest(st, h) = st
    BY <1>4 DEF Rest
  <2> QED
    BY <1>1, <1>2, <1>3, <1>4, <2>1 DEF h, len
<1>5. CASE h # INVALID
  <2>1. Rest(st, h) = Pool!Without(st, h) /\ h \in DOMAIN st /\ st[h].len = len
    BY <1>2, <1>5 DEF Rest
  <2>2. /\ Sized(Pool!Without(st, h)) /\ UsedOf(Pool!Without(st, h)) \in Nat
        /\ UsedOf(st) = UsedOf(Pool!Without(st, h)) + Pool!Need(st[h].len)
    BY <1>1, <2>1, UsedWithout
  <2> QED
    BY <1>3, <2>1, <2>2 DEF h, len
<1> QED
  BY <1>4, <1>5

LEMMA ExchangesIs ==
  ASSUME NEW m, NEW F, NEW B, NEW A, Good(m, F, B, A), Owned(m, stored, ToSet(A)), RoomInv,
         NEW n \in ToSet(A), NEW len \in Nat, EntriesOf(m, stored, ToSet(A)) = Entries
  PROVE  CanUpdate(m, n, len) <=> Exchanges(n, len)
<1> DEFINE w == UsedOf(Pool!Without(Entries, n))
           old == Pool!Need(m.chunk_len_[n])
           new == Pool!Need(len)
           u == UsedOf(stored)
<1>1. m \in TableType /\ ToSet(A) \in SUBSET Node
  BY GoodAdds DEF Good
<1>2. Sized(Entries) /\ UsedOf(Entries) = u
  BY <1>1, StoredSized, SameUsed
<1>3. n \in DOMAIN Entries /\ Entries[n].len = m.chunk_len_[n] /\ m.chunk_len_[n] \in Nat
  BY <1>1 DEF EntriesOf, EntryOf, TableType
<1>4. w \in Nat /\ UsedOf(Entries) = w + Pool!Need(Entries[n].len)
  BY <1>2, <1>3, UsedWithout
<1>5. u = w + old
  BY <1>2, <1>3, <1>4
<1>6. old \in Nat /\ new \in Nat
  BY <1>3, NeedZero
<1>7. u <= ChunkTotal /\ ChunkTotal \in Int
  BY TableAssumption DEF RoomInv
<1>8. CanUpdate(m, n, len) <=> (new - old > 0 => ChunkTotal - u >= new - old)
  BY PoolUsed DEF CanUpdate
<1>9. Exchanges(n, len) <=> w + new <= ChunkTotal
  BY DEF Exchanges
<1> HIDE DEF w, old, new, u
<1> QED
  BY <1>4, <1>5, <1>6, <1>7, <1>8, <1>9

LEMMA AcceptsIs ==
  ASSUME NEW F, NEW B, NEW A, Good(t, F, B, A), Owned(t, stored, ToSet(A)), NEW len
  PROVE  CanInsert(len) <=> Accepts(len)
<1>1. t \in TableType /\ ToSet(A) \in SUBSET Node
  BY GoodAdds DEF Good
<1>2. UsedOf(Entries) = UsedOf(stored)
  BY <1>1, SameUsed, SeenNow
<1>3. Pool!Used(stored) = UsedOf(stored)
  BY PoolUsed
<1>4. Node \ UsedNodes = ToSet(F)
  <2>1. ToSet(F) \subseteq Node /\ ToSet(A) = Node \ ToSet(F) /\ UsedNodes = ToSet(A)
    BY GoodSeq, SeenNow DEF Good
  <2> QED
    BY <2>1
<1>5. t.free_list_ # INVALID <=> ToSet(F) # {}
  <2>1. IsList(t.node_next_, t.free_list_, F)
    BY DEF Good, Lists
  <2>2. t.free_list_ # INVALID => t.free_list_ \in ToSet(F)
    BY <2>1, ListHead
  <2>3. F \in Seq(Node) /\ t.free_list_ = At(F, 1)
    BY <2>1 DEF IsList
  <2>4. Len(F) \in Nat /\ (At(F, 1) # INVALID <=> 1 \in 1 .. Len(F))
    BY <2>3, SeqNode
  <2>5. \A x \in ToSet(F) : \E i \in 1 .. Len(F) : x = F[i]
    BY <2>3, InList
  <2> QED
    BY <2>2, <2>3, <2>4, <2>5
<1> QED
  BY <1>2, <1>3, <1>4, <1>5 DEF CanInsert, Accepts, Pool!Fits

(* A look-up, and what it does to the add list.                            *)
LEMMA FoundSeen ==
  ASSUME NEW F, NEW B, NEW A, Good(t, F, B, A), Owned(t, stored, ToSet(A)),
         NEW k \in Key, Lookup(k) # INVALID,
         NEW C, ToSet(C) = ToSet(A), ToHead(C, A, Lookup(k))
  PROVE  /\ IsTop(Lookup(k), k) /\ Lookup(k) \in UsedNodes
         /\ EntriesOf(Found(k), stored, ToSet(C)) = Entries
         /\ UnderOf(Found(k), B) = Under
         /\ OlderOf(C) = [j \in Node |-> IF j = Lookup(k) THEN UsedNodes \ {Lookup(k)}
                                         ELSE Older[j] \ {Lookup(k)}]
<1>1. /\ UsedNodes = ToSet(A) /\ Entries = EntriesOf(t, stored, ToSet(A))
      /\ Under = UnderOf(t, B) /\ Older = OlderOf(A)
  BY SeenNow
<1>2. KeepsValues(Found(k), t) /\ Found(k).key_ = t.key_
  BY FoundGood
<1>3. /\ EntriesOf(Found(k), stored, ToSet(A)) = EntriesOf(t, stored, ToSet(A))
      /\ UnderOf(Found(k), B) = UnderOf(t, B)
  BY <1>2, SeenSame, SeenUnder
<1>4. IsTop(Lookup(k), k) /\ Lookup(k) \in ToSet(A)
  BY LookupTop, LookupUsed DEF IsTop
<1>5. OlderOf(C) = [j \in Node |-> IF j = Lookup(k) THEN ToSet(A) \ {Lookup(k)}
                                   ELSE OlderOf(A)[j] \ {Lookup(k)}]
  BY OlderHead
<1> QED
  BY <1>1, <1>3, <1>4, <1>5

LEMMA FindStep ==
  ASSUME TableInv, NEW k \in Key, Find(k)
  PROVE  Table!Find(k)
<1>1. PICK F, B, A : Good(t, F, B, A) /\ Owned(t, stored, ToSet(A))
  BY DEF TableInv
<1>2. CASE Lookup(k) # INVALID /\ t' = Found(k) /\ ok' = TRUE /\ stored' = stored
  <2>1. PICK C : Good(Found(k), F, B, C) /\ ToSet(C) = ToSet(A) /\ ToHead(C, A, Lookup(k))
    BY <1>1, <1>2, FoundGood
  <2>2. /\ IsTop(Lookup(k), k)
        /\ EntriesOf(t', stored', ToSet(C)) = Entries
        /\ UnderOf(t', B) = Under
        /\ OlderOf(C) = [j \in Node |-> IF j = Lookup(k) THEN UsedNodes \ {Lookup(k)}
                                        ELSE Older[j] \ {Lookup(k)}]
    BY <1>1, <1>2, <2>1, FoundSeen
  <2>3. Good(t', F, B, C)
    BY <1>2, <2>1
  <2>4. Keeps /\ UsesLast(Lookup(k))
    BY <2>2, <2>3, SeenNext DEF Keeps, UsesLast
  <2>5. Lookup(k) \in Table!Top(k)
    BY <2>2, TableTop
  <2>6. Table!UsedLast(Lookup(k), UsedNodes)
    BY <2>4, TableLast
  <2> HIDE DEF Lookup
  <2> QED
    BY <1>2, <2>4, <2>5, <2>6, TableKeeps DEF Table!Find
<1>3. CASE Lookup(k) = INVALID /\ ok' = FALSE /\ t' = t /\ stored' = stored
  <2>1. OfKey(k) = {}
    BY <1>1, <1>3, LookupTop
  <2>2. Entries' = Entries /\ Under' = Under /\ Older' = Older
    BY <1>3, Views, ViewsNext
  <2> QED
    BY <1>3, <2>1, <2>2, TableOf DEF Table!Find, Table!Fail, Entries
<1> QED
  BY <1>1, <1>2, <1>3 DEF Find, Fail

(* The calls.                                                              *)
LEMMA InsertStep ==
  ASSUME TableInv, NEW k \in Key, NEW len \in Lens, NEW r, insert_node(k, len, r)
  PROVE  Inserts(k, len, r)
<1>1. PICK F, B, A : Good(t, F, B, A) /\ Owned(t, stored, ToSet(A))
  BY DEF TableInv
<1>2. CanInsert(len) <=> Accepts(len)
  BY <1>1, AcceptsIs
<1>3. CASE CanInsert(len) /\ ok' = TRUE /\ \E h \in ChunkHandle :
              /\ Pool!Store(h, len, r)
              /\ t' = insert_add_list_head(
                        use_node(free_list_remove(t), t.free_list_, k, len, h), t.free_list_)
  <2>1. PICK h \in ChunkHandle :
              /\ Pool!Store(h, len, r)
              /\ t' = insert_add_list_head(
                        use_node(free_list_remove(t), t.free_list_, k, len, h), t.free_list_)
    BY <1>3
  <2>2. t.free_list_ # INVALID /\ len \in Nat /\ len # 0
    BY <1>3, TableAssumption DEF CanInsert
  <2> DEFINE n == t.free_list_
             b == get_bucket_id(k)
  <2>3. Grown(t', t, B, A, n, k, len, h)
    BY <1>1, <2>1, <2>2, Inserted
  <2>4. PICK G, C, D : /\ Good(t', G, C, D) /\ ToSet(D) = ToSet(A) \cup {n}
                       /\ Filed(C, B, get_bucket_id(k), n) /\ ToHead(D, A, n)
    BY <2>3 DEF Grown
  <2>5. h \notin DOMAIN stored /\ stored' = Pool!With(stored, h, len, r)
    BY <2>1 DEF Pool!Store
  <2>6. /\ t \in TableType /\ ToSet(A) \in SUBSET Node
        /\ n \in Node /\ n \notin ToSet(A) /\ Keyed(t', t, n, k)
    BY <1>1, <2>3, GoodAdds DEF Good, Grown, Keyed
  <2>7. /\ UsedNodes = ToSet(A) /\ Entries = EntriesOf(t, stored, ToSet(A))
        /\ Under = UnderOf(t, B) /\ Older = OlderOf(A)
    BY <1>1, SeenNow
  <2>8. /\ Entries' = EntriesOf(t', stored', ToSet(D))
        /\ Under' = UnderOf(t', C) /\ Older' = OlderOf(D)
    BY <2>4, SeenNext
  <2> HIDE DEF n
  <2>9. EntriesOf(t', stored', ToSet(A) \cup {n}) =
          WithEntry(EntriesOf(t, stored, ToSet(A)), ToSet(A), n, [key |-> k, len |-> len, rec |-> r])
    BY <1>1, <2>3, <2>5, <2>6, EntriesAdd
  <2>10. AsEntry(k, len, r) = [key |-> k, len |-> len, rec |-> r]
    BY <2>2 DEF AsEntry
  <2>11. Topped(t', C, t, B, n, k)
    BY <1>1, <2>4, <2>6, UnderAdd
  <2>12. OfKey(k) = InBucket(t, B, k)
    BY <1>1, OfKeyIs DEF InBucket
  <2>13. OlderOf(D) = [j \in Node |-> IF j = n THEN ToSet(A) \ {n} ELSE OlderOf(A)[j] \ {n}]
    BY <2>4, OlderHead
  <2>14. Entries' = [j \in UsedNodes \cup {n} |-> IF j = n THEN AsEntry(k, len, r) ELSE Entries[j]]
    BY <2>4, <2>7, <2>8, <2>9, <2>10 DEF WithEntry
  <2>15. Under' = [Under EXCEPT ![n] = OfKey(k)]
    BY <2>7, <2>8, <2>11, <2>12 DEF Topped
  <2>16. UsesLast(n)
    BY <2>7, <2>8, <2>13 DEF UsesLast
  <2> QED
    BY <1>2, <1>3, <2>6, <2>7, <2>14, <2>15, <2>16 DEF Inserts, Adds
<1>4. CASE ~CanInsert(len) /\ ok' = FALSE /\ t' = t /\ stored' = stored
  <2>1. Entries' = Entries /\ Under' = Under /\ Older' = Older
    BY <1>4, Views, ViewsNext
  <2> QED
    BY <1>2, <1>4, <2>1 DEF Inserts
<1> QED
  BY <1>3, <1>4 DEF insert_node, Fail

LEMMA UpdateStep ==
  ASSUME NEW m, NEW F, NEW B, NEW A, Good(m, F, B, A), Owned(m, stored, ToSet(A)), RoomInv,
         NEW n \in ToSet(A), NEW len \in Lens, NEW r, update_node(m, n, len, r),
         EntriesOf(m, stored, ToSet(A)) = Entries
  PROVE  /\ Renews(n, len, r) /\ (CanUpdate(m, n, len) <=> Exchanges(n, len))
         /\ Under' = UnderOf(m, B) /\ Older' = OlderOf(A)
<1>1. /\ m \in TableType /\ n \in Node /\ len \in Nat /\ ToSet(A) \in SUBSET Node
  BY TableAssumption, GoodAdds DEF Good
<1>2. CanUpdate(m, n, len) <=> Exchanges(n, len)
  BY <1>1, ExchangesIs
<1>3. CASE ~CanUpdate(m, n, len) /\ t' = m /\ stored' = stored
  <2>1. Entries' = EntriesOf(m, stored, ToSet(A)) /\ Under' = UnderOf(m, B) /\ Older' = OlderOf(A)
    BY <1>3, SeenNext
  <2> QED
    BY <1>2, <1>3, <2>1 DEF Renews
<1>4. CASE CanUpdate(m, n, len) /\ Renewed(m, F, B, A, n, len, r)
  <2>1. PICK h \in ChunkHandle \cup {INVALID} :
          /\ h \notin DOMAIN Rest(stored, m.chunk_head_[n]) /\ (h = INVALID <=> len = 0)
          /\ SetTo(t', m, n, len, h) /\ t'.key_ = m.key_
          /\ stored' = IF h = INVALID THEN Rest(stored, m.chunk_head_[n])
                       ELSE Pool!With(Rest(stored, m.chunk_head_[n]), h, len, r)
          /\ Good(t', F, B, A)
    BY <1>4 DEF Renewed
  <2>2. /\ Entries' = EntriesOf(t', stored', ToSet(A))
        /\ Under' = UnderOf(t', B) /\ Older' = OlderOf(A)
    BY <2>1, SeenNext
  <2>3. Under' = UnderOf(m, B)
    BY <2>1, <2>2, SeenUnder
  <2>4. Replaced(t', stored', m, stored, ToSet(A), n, len, r)
    BY <1>1, <2>1, EntriesSet
  <2>5. Entries' = [Entries EXCEPT ![n] = AsEntry(@.key, len, r)]
    <3>1. Entries = [j \in ToSet(A) |-> EntryOf(m, stored, j)]
      BY DEF EntriesOf
    <3>2. Entries' = [j \in ToSet(A) |-> EntryOf(t', stored', j)]
      BY <2>2 DEF EntriesOf
    <3>3. EntryOf(m, stored, n).key = m.key_[n]
      BY DEF EntryOf
    <3>4. EntryOf(t', stored', n) = AsEntry(Entries[n].key, len, r)
      BY <2>4, <3>1, <3>3 DEF AsEntry, Replaced
    <3> QED
      BY <2>4, <3>1, <3>2, <3>4 DEF Replaced
  <2> QED
    BY <1>2, <1>4, <2>2, <2>3, <2>5 DEF Renews
<1> QED
  BY <1>3, <1>4, Updated

LEMMA SetValueStep ==
  ASSUME TableInv, RoomInv, NEW k \in Key, NEW len \in Lens, NEW r, SetValue(k, len, r)
  PROVE  Table!SetValue(k, len, r)
<1>1. PICK F, B, A : Good(t, F, B, A) /\ Owned(t, stored, ToSet(A))
  BY DEF TableInv
<1>2. CASE /\ Lookup(k) # INVALID /\ update_node(Found(k), Lookup(k), len, r)
           /\ ok' = CanUpdate(t, Lookup(k), len)
  <2> DEFINE n == Lookup(k)
             m == Found(k)
  <2>1. PICK C : /\ Good(m, F, B, C) /\ ToSet(C) = ToSet(A) /\ ToHead(C, A, n)
                 /\ Owned(m, stored, ToSet(C))
    BY <1>1, <1>2, FoundGood
  <2>2. /\ IsTop(n, k) /\ n \in UsedNodes
        /\ EntriesOf(m, stored, ToSet(C)) = Entries
        /\ UnderOf(m, B) = Under
        /\ OlderOf(C) = [j \in Node |-> IF j = n THEN UsedNodes \ {n} ELSE Older[j] \ {n}]
    BY <1>1, <1>2, <2>1, FoundSeen
  <2>3. n \in ToSet(C) /\ KeepsValues(m, t)
    BY <1>1, <1>2, <2>1, LookupUsed, FoundGood
  <2>4. CanUpdate(t, n, len) <=> CanUpdate(m, n, len)
    BY <2>3 DEF CanUpdate, KeepsValues
  <2>5. update_node(m, n, len, r)
    BY <1>2
  <2>6. ok' = CanUpdate(t, n, len)
    BY <1>2
  <2> HIDE DEF n, m
  <2>7. /\ Renews(n, len, r) /\ (CanUpdate(m, n, len) <=> Exchanges(n, len))
        /\ Under' = UnderOf(m, B) /\ Older' = OlderOf(C)
    BY <2>1, <2>2, <2>3, <2>5, UpdateStep
  <2>8. n \in Table!Top(k)
    BY <2>2, TableTop
  <2>9. Table!UsedLast(n, UsedNodes)
    BY <2>2, <2>7, TableLast DEF UsesLast
  <2>10. Table!Update(n, len, r)
    BY <2>2, <2>7, TableUpdate
  <2>11. Table!CanUpdate(n, len) <=> CanUpdate(t, n, len)
    BY <2>4, <2>7, TableExchanges
  <2>12. ok' = Table!CanUpdate(n, len)
    <3>1. CanUpdate(t, n, len) \in BOOLEAN /\ Table!CanUpdate(n, len) \in BOOLEAN
      BY DEF CanUpdate, Table!CanUpdate, Table!Space!Fits
    <3> QED
      BY <2>6, <2>11, <3>1
  <2>13. Under' = Under
    BY <2>2, <2>7
  <2> QED
    BY <2>8, <2>9, <2>10, <2>12, <2>13 DEF Table!SetValue
<1>3. CASE Lookup(k) = INVALID /\ insert_node(k, len, r)
  <2>1. Table!Of(k) = {}
    BY <1>1, <1>3, LookupTop, TableOf
  <2>2. Table!Insert(k, len, r)
    BY <1>3, InsertStep, TableInsert
  <2> QED
    BY <2>1, <2>2 DEF Table!SetValue
<1> QED
  BY <1>2, <1>3 DEF SetValue

LEMMA VisUpdateStep ==
  ASSUME TableInv, RoomInv, NEW n \in UsedNodes, NEW len \in Lens, NEW r, VisUpdate(n, len, r)
  PROVE  Table!UpdateData(n, len, r)
<1>1. PICK F, B, A : Good(t, F, B, A) /\ Owned(t, stored, ToSet(A))
  BY DEF TableInv
<1>2. /\ UsedNodes = ToSet(A) /\ Entries = EntriesOf(t, stored, ToSet(A))
      /\ Under = UnderOf(t, B) /\ Older = OlderOf(A)
  BY <1>1, SeenNow
<1>3. update_node(t, n, len, r) /\ ok' = ok
  BY DEF VisUpdate
<1>4. Renews(n, len, r) /\ Under' = UnderOf(t, B) /\ Older' = OlderOf(A)
  BY <1>1, <1>2, <1>3, UpdateStep
<1>5. Table!Update(n, len, r)
  BY <1>4, TableUpdate
<1> QED
  BY <1>2, <1>3, <1>4, <1>5 DEF Table!UpdateData

(* C is A, or A after a look-up of n.                                      *)
LEMMA RemoveStep ==
  ASSUME NEW F, NEW B, NEW A, Good(t, F, B, A),
         NEW m, NEW C, Good(m, F, B, C), Owned(m, stored, ToSet(C)), ToSet(C) = ToSet(A),
         NEW n \in ToSet(C), C = A \/ ToHead(C, A, n),
         EntriesOf(m, stored, ToSet(C)) = Entries, UnderOf(m, B) = Under,
         delete_node(m, n)
  PROVE  Removes(n)
<1>1. /\ m \in TableType /\ n \in Node /\ ToSet(C) \in SUBSET Node /\ INVALID \notin ChunkHandle
  BY TableAssumption, GoodAdds DEF Good
<1>2. Shrunk(t', m, B, C, n)
  <2>1. t' = free_list_insert(free_node(delete_from_add_list(m, n), n), n)
    BY DEF delete_node
  <2> QED
    BY <2>1, Deleted
<1>3. PICK G, U, D : /\ Good(t', G, U, D) /\ ToSet(D) = ToSet(C) \ {n}
                     /\ Unfiled(U, B, n) /\ Dropped(D, C, n)
  BY <1>2 DEF Shrunk
<1>4. /\ UsedNodes = ToSet(A) /\ Older = OlderOf(A)
  BY SeenNow
<1>5. /\ Entries' = EntriesOf(t', stored', ToSet(D))
      /\ Under' = UnderOf(t', U) /\ Older' = OlderOf(D)
  BY <1>3, SeenNext
<1>6. Older' = NoLonger(Older, n)
  <2>1. OlderOf(D) = NoLonger(OlderOf(A), n)
    BY <1>3, OlderDrop
  <2> QED
    BY <1>4, <1>5, <2>1
<1>7. Under' = NoLonger(Under, n)
  <2>1. t'.key_ = m.key_
    BY <1>2 DEF Shrunk
  <2>2. UnderOf(t', U) = NoLonger(UnderOf(m, B), n)
    BY <1>1, <1>3, <2>1, UnderDrop
  <2> QED
    BY <1>5, <2>2
<1> DEFINE none == <<>>
<1>8. Replaced(t', stored', m, stored, ToSet(C), n, 0, none)
  <2>1. stored' = Rest(stored, m.chunk_head_[n])
    BY DEF delete_node, Rest
  <2>2. INVALID \notin DOMAIN Rest(stored, m.chunk_head_[n])
    BY <1>1 DEF Rest, Pool!Without, Owned
  <2>3. SetTo(t', m, n, 0, INVALID) /\ t'.key_ = m.key_
    BY <1>2 DEF SetTo, Shrunk
  <2> HIDE DEF none
  <2>4. stored' = IF INVALID = INVALID THEN Rest(stored, m.chunk_head_[n])
                  ELSE Pool!With(Rest(stored, m.chunk_head_[n]), INVALID, 0, none)
    BY <2>1
  <2>5. INVALID \in ChunkHandle \cup {INVALID} /\ (INVALID = INVALID <=> 0 = 0)
    OBVIOUS
  <2> QED
    BY <1>1, <2>2, <2>3, <2>4, <2>5, EntriesSet
<1>9. Entries' = [j \in UsedNodes \ {n} |-> Entries[j]]
  <2>1. Entries = [j \in ToSet(C) |-> EntryOf(m, stored, j)]
    BY DEF EntriesOf
  <2>2. Entries' = [j \in ToSet(D) |-> EntryOf(t', stored', j)]
    BY <1>5 DEF EntriesOf
  <2>3. ToSet(D) = UsedNodes \ {n} /\ UsedNodes = ToSet(C)
    BY <1>3, <1>4
  <2> QED
    BY <1>8, <2>1, <2>2, <2>3 DEF Replaced
<1> QED
  BY <1>6, <1>7, <1>9 DEF Removes

LEMMA DeleteStep ==
  ASSUME TableInv, NEW k \in Key, Delete(k)
  PROVE  Table!Delete(k)
<1>1. PICK F, B, A : Good(t, F, B, A) /\ Owned(t, stored, ToSet(A))
  BY DEF TableInv
<1>2. CASE Lookup(k) # INVALID /\ delete_node(Found(k), Lookup(k)) /\ ok' = TRUE
  <2> DEFINE n == Lookup(k)
             m == Found(k)
  <2>1. PICK C : /\ Good(m, F, B, C) /\ ToSet(C) = ToSet(A) /\ ToHead(C, A, n)
                 /\ Owned(m, stored, ToSet(C))
    BY <1>1, <1>2, FoundGood
  <2>2. /\ IsTop(n, k) /\ EntriesOf(m, stored, ToSet(C)) = Entries /\ UnderOf(m, B) = Under
    BY <1>1, <1>2, <2>1, FoundSeen
  <2>3. n \in ToSet(C) /\ delete_node(m, n)
    BY <1>1, <1>2, <2>1, LookupUsed
  <2> HIDE DEF n, m
  <2>4. Removes(n)
    BY <1>1, <2>1, <2>2, <2>3, RemoveStep
  <2>5. n \in Table!Top(k) /\ Table!Remove(n)
    BY <2>2, <2>4, TableTop, TableRemove
  <2> QED
    BY <1>2, <2>5 DEF Table!Delete
<1>3. CASE Lookup(k) = INVALID /\ ok' = FALSE /\ t' = t /\ stored' = stored
  <2>1. Table!Of(k) = {}
    BY <1>1, <1>3, LookupTop, TableOf
  <2>2. Entries' = Entries /\ Under' = Under /\ Older' = Older
    BY <1>3, Views, ViewsNext
  <2> QED
    BY <1>3, <2>1, <2>2 DEF Table!Delete, Table!Fail, Entries
<1> QED
  BY <1>2, <1>3 DEF Delete, Fail

LEMMA VisEraseStep ==
  ASSUME TableInv, NEW n \in UsedNodes, VisErase(n)
  PROVE  Table!Erase(n)
<1>1. PICK F, B, A : Good(t, F, B, A) /\ Owned(t, stored, ToSet(A))
  BY DEF TableInv
<1>2. /\ UsedNodes = ToSet(A) /\ Entries = EntriesOf(t, stored, ToSet(A)) /\ Under = UnderOf(t, B)
  BY <1>1, SeenNow
<1>3. delete_node(t, n) /\ ok' = ok
  BY DEF VisErase
<1>4. Removes(n)
  BY <1>1, <1>2, <1>3, RemoveStep
<1> QED
  BY <1>3, <1>4, TableRemove DEF Table!Erase

LEMMA ToTailStep ==
  ASSUME TableInv, NEW n \in UsedNodes, ToTail(n)
  PROVE  Table!ToBack(n)
<1>1. PICK F, B, A : Good(t, F, B, A) /\ Owned(t, stored, ToSet(A))
  BY DEF TableInv
<1>2. /\ UsedNodes = ToSet(A) /\ Entries = EntriesOf(t, stored, ToSet(A))
      /\ Under = UnderOf(t, B) /\ Older = OlderOf(A)
  BY <1>1, SeenNow
<1>3. t' = insert_add_list_tail(t, n) /\ stored' = stored /\ ok' = ok
  BY DEF ToTail
<1>4. /\ KeepsValues(t', t) /\ t'.key_ = t.key_
      /\ \E C : Good(t', F, B, C) /\ ToSet(C) = ToSet(A) /\ ToEnd(C, A, n)
  BY <1>1, <1>2, <1>3, MovedToTail
<1>5. PICK C : Good(t', F, B, C) /\ ToSet(C) = ToSet(A) /\ ToEnd(C, A, n)
  BY <1>4
<1>6. /\ Entries' = EntriesOf(t', stored', ToSet(C))
      /\ Under' = UnderOf(t', B) /\ Older' = OlderOf(C)
  BY <1>5, SeenNext
<1>7. EntriesOf(t', stored, ToSet(A)) = EntriesOf(t, stored, ToSet(A)) /\ UnderOf(t', B) = UnderOf(t, B)
  BY <1>4, SeenSame, SeenUnder
<1>8. Entries' = Entries /\ Under' = Under
  BY <1>2, <1>3, <1>5, <1>6, <1>7
<1>9. Table!UsedFirst(n, UsedNodes)
  <2>1. OlderOf(C) = [j \in Node |-> IF j = n \/ j \notin ToSet(A) THEN {} ELSE OlderOf(A)[j] \cup {n}]
    BY <1>5, OlderTail
  <2> QED
    BY <1>2, <1>6, <2>1 DEF Table!UsedFirst
<1> QED
  BY <1>3, <1>8, <1>9 DEF Table!ToBack, Entries

LEMMA ReopenStep ==
  ASSUME TableInv, RoomInv, Reopen
  PROVE  [Table!Next]_(Table!vars)
<1>1. PICK F, B, A : Good(t, F, B, A) /\ Owned(t, stored, ToSet(A))
  BY DEF TableInv
<1>2. CASE t' = init_pool_data(t.key_) /\ stored' = [h \in {} |-> <<>>] /\ ok' = ok
  <2>1. t.key_ \in [Node -> Key \cup {NoKey}]
    BY <1>1 DEF Good, TableType
  <2>2. PICK G, C, D : Good(t', G, C, D) /\ ToSet(D) = {}
    BY <1>2, <2>1, PoolData
  <2>3. /\ Entries' = [n \in {} |-> <<>>]
        /\ Under' = [n \in Node |-> {}] /\ Older' = [n \in Node |-> {}]
    BY <2>2, SeenNext, SeenEmpty
  <2>4. Table!Wipe
    BY <1>2, <2>3 DEF Table!Wipe, Table!NoEntries, Entries
  <2> QED
    BY <2>4 DEF Table!Next
<1>3. CASE ok' = (ok /\ verify_pool_data) /\ t' = t /\ stored' = stored
  <2>1. verify_pool_data
    BY <1>1, Walks DEF verify_pool_data, Good, Busy
  <2>2. ok' = ok
    BY <1>3, <2>1 DEF RoomInv
  <2>3. Entries' = Entries /\ Under' = Under /\ Older' = Older
    BY <1>3, Views, ViewsNext
  <2> QED
    BY <2>2, <2>3 DEF Table!vars, Entries
<1> QED
  BY <1>2, <1>3 DEF Reopen

LEMMA InitStep == Init => Table!Init
<1> SUFFICES ASSUME Init PROVE Table!Init
  OBVIOUS
<1>1. [n \in Node |-> NoKey] \in [Node -> Key \cup {NoKey}]
  OBVIOUS
<1>2. PICK F, B, A : Good(t, F, B, A) /\ ToSet(A) = {}
  BY <1>1, PoolData DEF Init
<1>3. /\ Entries = [n \in {} |-> <<>>]
      /\ Under = [n \in Node |-> {}] /\ Older = [n \in Node |-> {}]
  BY <1>2, SeenNow, SeenEmpty
<1> QED
  BY <1>3 DEF Table!Init, Table!NoEntries, Entries, Init

LEMMA InitRoom == Init => RoomInv
<1> SUFFICES ASSUME Init PROVE RoomInv
  OBVIOUS
<1>1. stored = [h \in {} |-> <<>>] /\ ok = TRUE
  BY DEF Init, Pool!Init
<1>2. PartsOf(stored) = {}
  BY <1>1 DEF PartsOf
<1>3. UsedOf(stored) = 0
  BY <1>2, FS_EmptySet DEF UsedOf
<1> QED
  BY <1>1, <1>3, TableAssumption DEF RoomInv

LEMMA InsertRoom ==
  ASSUME TableInv, RoomInv, NEW k, NEW len \in Lens, NEW r, insert_node(k, len, r)
  PROVE  RoomInv'
<1>1. PICK F, B, A : Good(t, F, B, A) /\ Owned(t, stored, ToSet(A))
  BY DEF TableInv
<1>2. CASE ok' = TRUE /\ \E h \in ChunkHandle : Pool!Store(h, len, r)
  <2>1. PICK h \in ChunkHandle : Pool!Store(h, len, r)
    BY <1>2
  <2>2. Sized(stored) /\ len \in Nat
    BY <1>1, StoredSized, GoodAdds, TableAssumption DEF Good
  <2>3. /\ stored' = Pool!With(stored, h, len, r) /\ h \notin DOMAIN stored
        /\ UsedOf(stored) + Pool!Need(len) <= ChunkTotal
    BY <2>1, PoolUsed DEF Pool!Store, Pool!Fits
  <2>4. UsedOf(Pool!With(stored, h, len, r)) = UsedOf(stored) + Pool!Need(len)
    BY <2>2, <2>3, UsedWith
  <2> QED
    BY <1>2, <2>3, <2>4 DEF RoomInv, UsedOf, PartsOf
<1>3. CASE ok' = FALSE /\ stored' = stored
  BY <1>3 DEF RoomInv, UsedOf, PartsOf
<1> QED
  BY <1>2, <1>3 DEF insert_node, Fail

LEMMA UpdateRoom ==
  ASSUME NEW m, NEW F, NEW B, NEW A, Good(m, F, B, A), Owned(m, stored, ToSet(A)), RoomInv,
         NEW n \in ToSet(A), NEW len \in Lens, NEW r, update_node(m, n, len, r)
  PROVE  UsedOf(stored') <= ChunkTotal
<1> DEFINE rest == Rest(stored, m.chunk_head_[n])
           old == Pool!Need(m.chunk_len_[n])
           new == Pool!Need(len)
<1>1. m \in TableType /\ ToSet(A) \in SUBSET Node /\ len \in Nat /\ INVALID \notin ChunkHandle
  BY GoodAdds, TableAssumption DEF Good
<1>2. /\ Sized(rest) /\ UsedOf(rest) \in Nat /\ old \in Nat /\ UsedOf(stored) = UsedOf(rest) + old
  BY <1>1, RestUsed
<1>3. new \in Nat /\ (new = 0 <=> len = 0)
  BY <1>1, NeedZero
<1>4. UsedOf(stored) <= ChunkTotal /\ ChunkTotal \in Int
  BY TableAssumption DEF RoomInv
<1>5. CASE stored' = stored
  BY <1>4, <1>5
<1>6. CASE CanUpdate(m, n, len) /\ Renewed(m, F, B, A, n, len, r)
  <2>1. PICK h \in ChunkHandle \cup {INVALID} :
          /\ h \notin DOMAIN rest /\ (h = INVALID <=> len = 0)
          /\ stored' = IF h = INVALID THEN rest ELSE Pool!With(rest, h, len, r)
    BY <1>6 DEF Renewed
  <2>2. new - old > 0 => ChunkTotal - UsedOf(stored) >= new - old
    BY <1>6, PoolUsed DEF CanUpdate
  <2> HIDE DEF rest, old
  <2>3. UsedOf(Pool!With(rest, h, len, r)) = UsedOf(rest) + new
    BY <1>1, <1>2, <2>1, UsedWith
  <2> HIDE DEF new
  <2>4. UsedOf(rest) + new <= ChunkTotal /\ UsedOf(rest) <= ChunkTotal
    BY <1>2, <1>3, <1>4, <2>2
  <2> QED
    BY <2>1, <2>3, <2>4
<1> QED
  BY <1>5, <1>6, Updated

LEMMA DeleteRoom ==
  ASSUME NEW m, NEW F, NEW B, NEW A, Good(m, F, B, A), Owned(m, stored, ToSet(A)), RoomInv,
         NEW n \in ToSet(A), delete_node(m, n)
  PROVE  UsedOf(stored') <= ChunkTotal
<1>1. m \in TableType /\ ToSet(A) \in SUBSET Node
  BY GoodAdds DEF Good
<1>2. stored' = Rest(stored, m.chunk_head_[n])
  BY DEF delete_node, Rest
<1>3. /\ UsedOf(Rest(stored, m.chunk_head_[n])) \in Nat /\ Pool!Need(m.chunk_len_[n]) \in Nat
      /\ UsedOf(stored) = UsedOf(Rest(stored, m.chunk_head_[n])) + Pool!Need(m.chunk_len_[n])
  BY <1>1, RestUsed
<1>4. UsedOf(stored) <= ChunkTotal /\ ChunkTotal \in Int
  BY TableAssumption DEF RoomInv
<1> QED
  BY <1>2, <1>3, <1>4

LEMMA NextRoom == TableInv /\ RoomInv /\ [Next]_vars => RoomInv'
<1> SUFFICES ASSUME TableInv, RoomInv, [Next]_vars PROVE RoomInv'
  OBVIOUS
<1>1. PICK F, B, A : Good(t, F, B, A) /\ Owned(t, stored, ToSet(A))
  BY DEF TableInv
<1>r. RoomInv' <=> UsedOf(stored') <= ChunkTotal /\ ok' \in BOOLEAN
  BY DEF RoomInv, UsedOf, PartsOf
<1>s. UsedOf(stored) <= ChunkTotal /\ ok \in BOOLEAN
  BY DEF RoomInv
<1>2. ASSUME NEW k \in Key, Find(k)
      PROVE  RoomInv'
  BY <1>2, <1>r, <1>s DEF Find, Fail
<1>3. ASSUME NEW k \in Key, Delete(k)
      PROVE  RoomInv'
  <2>1. CASE Lookup(k) # INVALID /\ delete_node(Found(k), Lookup(k)) /\ ok' = TRUE
    <3>1. PICK C : /\ Good(Found(k), F, B, C) /\ ToSet(C) = ToSet(A)
                   /\ Owned(Found(k), stored, ToSet(C))
      BY <1>1, <2>1, FoundGood
    <3>2. Lookup(k) \in ToSet(C)
      BY <1>1, <2>1, <3>1, LookupUsed
    <3>3. UsedOf(stored') <= ChunkTotal
      BY <2>1, <3>1, <3>2, DeleteRoom
    <3> QED
      BY <1>r, <2>1, <3>3
  <2>2. CASE ok' = FALSE /\ stored' = stored
    BY <1>r, <1>s, <2>2
  <2> QED
    BY <1>3, <2>1, <2>2 DEF Delete, Fail
<1>4. ASSUME NEW len \in Lens, NEW r \in Records, NEW k \in Key, insert_node(k, len, r)
      PROVE  RoomInv'
  BY <1>4, InsertRoom
<1>5. ASSUME NEW len \in Lens, NEW r \in Records, NEW k \in Key, SetValue(k, len, r)
      PROVE  RoomInv'
  <2>1. CASE /\ Lookup(k) # INVALID /\ update_node(Found(k), Lookup(k), len, r)
             /\ ok' = CanUpdate(t, Lookup(k), len)
    <3>1. PICK C : /\ Good(Found(k), F, B, C) /\ ToSet(C) = ToSet(A)
                   /\ Owned(Found(k), stored, ToSet(C))
      BY <1>1, <2>1, FoundGood
    <3>2. Lookup(k) \in ToSet(C)
      BY <1>1, <2>1, <3>1, LookupUsed
    <3>3. UsedOf(stored') <= ChunkTotal
      BY <2>1, <3>1, <3>2, UpdateRoom
    <3>4. CanUpdate(t, Lookup(k), len) \in BOOLEAN
      BY DEF CanUpdate
    <3> QED
      BY <1>r, <2>1, <3>3, <3>4
  <2>2. CASE insert_node(k, len, r)
    BY <2>2, InsertRoom
  <2> QED
    BY <1>5, <2>1, <2>2 DEF SetValue
<1>6. ASSUME NEW len \in Lens, NEW r \in Records, NEW n \in UsedNodes, VisUpdate(n, len, r)
      PROVE  RoomInv'
  <2>1. n \in ToSet(A) /\ update_node(t, n, len, r) /\ ok' = ok
    BY <1>1, <1>6, UsedIs DEF VisUpdate
  <2>2. UsedOf(stored') <= ChunkTotal
    BY <1>1, <2>1, UpdateRoom
  <2> QED
    BY <1>r, <1>s, <2>1, <2>2
<1>7. ASSUME NEW n \in UsedNodes, VisErase(n)
      PROVE  RoomInv'
  <2>1. n \in ToSet(A) /\ delete_node(t, n) /\ ok' = ok
    BY <1>1, <1>7, UsedIs DEF VisErase
  <2>2. UsedOf(stored') <= ChunkTotal
    BY <1>1, <2>1, DeleteRoom
  <2> QED
    BY <1>r, <1>s, <2>1, <2>2
<1>8. ASSUME NEW n \in UsedNodes, ToTail(n)
      PROVE  RoomInv'
  BY <1>8, <1>r, <1>s DEF ToTail
<1>9. CASE Reopen
  <2>1. CASE stored' = [h \in {} |-> <<>>] /\ ok' = ok
    <3>1. PartsOf(stored') = {}
      BY <2>1 DEF PartsOf
    <3>2. UsedOf(stored') = 0
      BY <3>1, FS_EmptySet DEF UsedOf
    <3> QED
      BY <1>r, <1>s, <2>1, <3>2, TableAssumption
  <2>2. CASE ok' = (ok /\ verify_pool_data) /\ stored' = stored
    <3>1. verify_pool_data
      BY <1>1, Walks DEF verify_pool_data, Good, Busy
    <3> QED
      BY <1>r, <1>s, <2>2, <3>1
  <2> QED
    BY <1>9, <2>1, <2>2 DEF Reopen
<1>10. CASE UNCHANGED vars
  BY <1>r, <1>s, <1>10 DEF vars
<1> QED
  BY <1>2, <1>3, <1>4, <1>5, <1>6, <1>7, <1>8, <1>9, <1>10 DEF Next

(* So each step of the table is one of the abstract table.                 *)
LEMMA NextStep == TableInv /\ RoomInv /\ [Next]_vars => [Table!Next]_(Table!vars)
<1> SUFFICES ASSUME TableInv, RoomInv, [Next]_vars PROVE [Table!Next]_(Table!vars)
  OBVIOUS
<1>u. DOMAIN [n \in UsedNodes |-> Entry(n)] = UsedNodes
  OBVIOUS
<1>1. ASSUME NEW k \in Key, Find(k)
      PROVE  Table!Next
  BY <1>1, FindStep DEF Table!Next
<1>2. ASSUME NEW k \in Key, Delete(k)
      PROVE  Table!Next
  BY <1>2, DeleteStep DEF Table!Next
<1>3. ASSUME NEW len \in Lens, NEW r \in Records, NEW k \in Key, insert_node(k, len, r)
      PROVE  Table!Next
  BY <1>3, InsertStep, TableInsert DEF Table!Next
<1>4. ASSUME NEW len \in Lens, NEW r \in Records, NEW k \in Key, SetValue(k, len, r)
      PROVE  Table!Next
  BY <1>4, SetValueStep DEF Table!Next
<1>5. ASSUME NEW len \in Lens, NEW r \in Records, NEW n \in UsedNodes, VisUpdate(n, len, r)
      PROVE  Table!Next
  BY <1>5, <1>u, VisUpdateStep DEF Table!Next
<1>6. ASSUME NEW n \in UsedNodes, VisErase(n)
      PROVE  Table!Next
  BY <1>6, <1>u, VisEraseStep DEF Table!Next
<1>7. ASSUME NEW n \in UsedNodes, ToTail(n)
      PROVE  Table!Next
  BY <1>7, <1>u, ToTailStep DEF Table!Next
<1>8. CASE Reopen
  BY <1>8, ReopenStep
<1>9. CASE UNCHANGED vars
  <2>1. t' = t /\ stored' = stored /\ ok' = ok
    BY <1>9 DEF vars
  <2>2. Entries' = Entries /\ Under' = Under /\ Older' = Older
    BY <2>1, Views, ViewsNext
  <2> QED
    BY <2>1, <2>2 DEF Table!vars, Entries
<1> QED
  BY <1>1, <1>2, <1>3, <1>4, <1>5, <1>6, <1>7, <1>8, <1>9 DEF Next

(* Every call of CHashMap and of its vistor does to the entries, to the    *)
(* order of their last use and to its result what the abstract table says: *)
(* insert_node hides the older entries of its key, find_node finds the     *)
(* last inserted, and a call that fails changes nothing.                   *)
THEOREM TableRefined == Spec => IsTable
<1>1. Init => TableInv /\ RoomInv
  BY InitInv, InitRoom
<1>2. TableInv /\ RoomInv /\ [Next]_vars => TableInv' /\ RoomInv'
  BY NextInv, NextRoom
<1>3. Init => Table!Init
  BY InitStep
<1>4. TableInv /\ RoomInv /\ [Next]_vars => [Table!Next]_(Table!vars)
  BY NextStep
<1> QED
  BY <1>1, <1>2, <1>3, <1>4, PTL DEF Spec, IsTable, Table!Spec

=============================================================================
