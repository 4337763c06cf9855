--------------------------- MODULE RawCacheProofs ----------------------------
(***************************************************************************)
(* The buffers of a pool, for any number of them, any block sizes and any  *)
(* limit: no byte outside a block (InsideBlocks), no block with two owners *)
(* (OneOwner), no more memory than is accounted for and than the limit     *)
(* (InAccount), and the bytes of each buffer in their order (BytesInOrder).*)
(* BufferInv keeps what append has found out while the pool works: the     *)
(* block it asked for is larger than the bytes, and nobody changes them    *)
(* until it has it.                                                        *)
(***************************************************************************)
EXTENDS RawCache, FiniteSetTheorems, SequenceTheorems, WellFoundedInduction, TLAPS

-----------------------------------------------------------------------------
(***************************************************************************)
(* The rules of sizes.                                                     *)
(***************************************************************************)
LEMMA Sizes ==
  /\ Size \subseteq Nat \ {0} /\ TopBlock \in Size
  /\ Addr \subseteq Nat \ {0} /\ NULL \notin Addr
BY MemPoolAssumption DEF Size, Addr, NULL

LEMMA LeastExists ==
  ASSUME NEW S, S \subseteq Nat, S # {}
  PROVE  Least(S) \in S /\ \A y \in S : Least(S) <= y
<1>1. PICK m \in S : \A k \in S : <<k, m>> \notin OpToRel(<, Nat)
  BY WFMin, NatLessThanWellFounded, Zenon
<1>2. \A k \in S : ~(k < m)
  BY <1>1, Zenon DEF OpToRel
<1>3. m \in S /\ \A k \in S : m <= k
  BY <1>2
<1> QED
  BY <1>3 DEF Least

LEMMA FitBlockSize ==
  ASSUME NEW size \in Nat, size < TopBlock
  PROVE  fit_block_size(size) \in Size /\ size < fit_block_size(size)
<1> DEFINE S == {s \in Size : s > size}
<1>1. S \subseteq Nat /\ S # {}
  BY Sizes
<1>2. Least(S) \in S
  BY <1>1, LeastExists
<1> QED
  BY <1>2 DEF fit_block_size

LEMMA FitExtendSet ==
  ASSUME NEW size \in Size
  PROVE  fit_extend_set(size) \in Nat \ {0}
<1>1. size \in Nat \ {0}
  BY Sizes
<1>2. C_SLOT_2 \in Nat \ {0} /\ C_SLOT_1 \in Nat \ {0} /\ C_EXTEND_SET \in Nat \ {0}
  BY MemPoolAssumption
<1>3. ASSUME size < C_SLOT_2
      PROVE  C_ALLOC_CAPCITY \div size \in Nat \ {0}
  <2> DEFINE a == C_ALLOC_CAPCITY
  <2>1. a \in Nat /\ size <= a
    BY <1>1, <1>2, <1>3 DEF C_ALLOC_CAPCITY
  <2> HIDE DEF a
  <2>2. a \div size \in Int /\ a = size * (a \div size) + (a % size) /\ a % size \in 0 .. size - 1
    BY <1>1, <2>1
  <2>3. a \div size >= 0
    BY <1>1, <2>1
  <2>4. a \div size # 0
    BY <1>1, <2>1, <2>2
  <2>5. a \div size \in Nat \ {0}
    BY <2>2, <2>3, <2>4
  <2> QED
    BY <2>5 DEF a
<1> QED
  BY <1>2, <1>3 DEF fit_extend_set

LEMMA ReleaseSize ==
  ASSUME NEW size, NEW n \in Nat, NEW stubs, NEW mark
  PROVE  release_size(size, n, stubs, mark) \in 0 .. n
<1>1. n \div 2 \in 0 .. n
  OBVIOUS
<1> QED
  BY <1>1 DEF release_size

LEMMA ProductNat ==
  ASSUME NEW a \in Nat, NEW b \in Nat
  PROVE  a * b \in Nat
OBVIOUS

-----------------------------------------------------------------------------
(***************************************************************************)
(* Lists of blocks.                                                        *)
(***************************************************************************)
LEMMA Split ==
  ASSUME NEW list \in Seq(Addr), NEW n \in 0 .. Len(list), IsInjective(list)
  PROVE  LET gone == SubSeq(list, 1, n)
             rest == SubSeq(list, n + 1, Len(list))
         IN  /\ gone \in Seq(Addr) /\ Len(gone) = n /\ IsInjective(gone)
             /\ rest \in Seq(Addr) /\ IsInjective(rest)
             /\ ToSet(list) = ToSet(gone) \cup ToSet(rest)
             /\ ToSet(gone) \cap ToSet(rest) = {}
<1> DEFINE gone == SubSeq(list, 1, n)
           rest == SubSeq(list, n + 1, Len(list))
           m == Len(list)
<1>1. m \in Nat /\ DOMAIN list = 1 .. m /\ \A i \in 1 .. m : list[i] \in Addr
  BY LenProperties, ElementOfSeq
<1>2. /\ gone \in Seq(Addr) /\ Len(gone) = n
      /\ \A i \in 1 .. n : gone[i] = list[i]
  BY <1>1, SubSeqProperties
<1>3. /\ rest \in Seq(Addr) /\ Len(rest) = m - n
      /\ \A i \in 1 .. m - n : rest[i] = list[i + n]
  <2>1. /\ rest \in Seq(Addr) /\ Len(rest) = IF n + 1 <= m THEN m - (n + 1) + 1 ELSE 0
        /\ \A i \in 1 .. m - (n + 1) + 1 : rest[i] = list[(n + 1) + i - 1]
    <3>1. n + 1 \in Int /\ m \in Int /\ \A i \in n + 1 .. m : list[i] \in Addr
      BY <1>1
    <3> QED
      BY <3>1, SubSeqProperties
  <2> HIDE DEF rest, m
  <2>2. /\ n \in Nat /\ n <= m /\ m - (n + 1) + 1 = m - n
        /\ \A i \in 1 .. m - n : (n + 1) + i - 1 = i + n
    BY <1>1 DEF m
  <2> QED
    BY <1>1, <2>1, <2>2
<1>4. DOMAIN gone = 1 .. n /\ DOMAIN rest = 1 .. m - n
  BY <1>2, <1>3, LenProperties
<1>n. n \in Nat /\ n <= m
  BY <1>1
<1> HIDE DEF gone, rest, m
<1>i. \A i \in 1 .. m - n : i + n \in 1 .. m
  BY <1>1, <1>n
<1>5. IsInjective(rest)
  <2> SUFFICES ASSUME NEW i \in 1 .. m - n, NEW j \in 1 .. m - n, rest[i] = rest[j]
               PROVE  i = j
    BY <1>4 DEF IsInjective
  <2>1. i + n \in 1 .. m /\ j + n \in 1 .. m /\ list[i + n] = list[j + n]
    BY <1>3, <1>i
  <2>2. i + n = j + n
    BY <1>1, <2>1 DEF IsInjective
  <2> QED
    BY <1>1, <1>n, <2>2
<1>6. ToSet(gone) \subseteq ToSet(list) /\ ToSet(rest) \subseteq ToSet(list)
  <2>1. \A i \in 1 .. n : i \in 1 .. m
    BY <1>1, <1>n
  <2>2. ToSet(gone) \subseteq ToSet(list)
    BY <1>1, <1>2, <1>4, <2>1 DEF ToSet
  <2>3. ToSet(rest) \subseteq ToSet(list)
    BY <1>1, <1>3, <1>4, <1>i DEF ToSet
  <2> QED
    BY <2>2, <2>3
<1>7. ASSUME NEW a \in ToSet(list)
      PROVE  a \in ToSet(gone) \cup ToSet(rest)
  <2>1. PICK i \in 1 .. m : a = list[i]
    BY <1>1 DEF ToSet
  <2>2. CASE i <= n
    BY <1>1, <1>2, <1>4, <2>1, <2>2 DEF ToSet
  <2>3. CASE i > n
    <3>1. i - n \in 1 .. m - n /\ (i - n) + n = i
      BY <1>1, <1>n, <2>1, <2>3
    <3>2. rest[i - n] = a
      BY <1>3, <2>1, <3>1
    <3> QED
      BY <1>4, <3>1, <3>2 DEF ToSet
  <2> QED
    BY <1>1, <2>1, <2>2, <2>3
<1>8. ASSUME NEW a \in ToSet(gone), a \in ToSet(rest)
      PROVE  FALSE
  <2>1. PICK i \in 1 .. n : a = gone[i]
    BY <1>4 DEF ToSet
  <2>2. PICK j \in 1 .. m - n : a = rest[j]
    BY <1>4, <1>8 DEF ToSet
  <2>3. i \in 1 .. m /\ j + n \in 1 .. m /\ i # j + n
    BY <1>1, <1>n
  <2>4. list[i] = list[j + n]
    BY <1>2, <1>3, <2>1, <2>2
  <2> QED
    BY <1>1, <2>3, <2>4 DEF IsInjective
<1>9. IsInjective(gone)
  BY <1>1, <1>2, <1>4, <1>n DEF IsInjective
<1> QED
  BY <1>2, <1>3, <1>5, <1>6, <1>7, <1>8, <1>9 DEF gone, rest, m

LEMMA Joined ==
  ASSUME NEW s \in Seq(Addr), NEW t \in Seq(Addr), IsInjective(s), IsInjective(t),
         ToSet(s) \cap ToSet(t) = {}
  PROVE  /\ s \o t \in Seq(Addr) /\ IsInjective(s \o t)
         /\ ToSet(s \o t) = ToSet(s) \cup ToSet(t)
<1> DEFINE m == Len(s)
           n == Len(t)
           u == s \o t
<1>1. m \in Nat /\ n \in Nat /\ DOMAIN s = 1 .. m /\ DOMAIN t = 1 .. n
  BY LenProperties
<1>2. /\ u \in Seq(Addr) /\ Len(u) = m + n
      /\ \A i \in 1 .. m + n : u[i] = IF i <= m THEN s[i] ELSE t[i - m]
  BY ConcatProperties
<1>3. DOMAIN u = 1 .. m + n
  BY <1>2, LenProperties
<1> HIDE DEF m, n, u
<1>4. \A i \in 1 .. m : i \in 1 .. m + n /\ u[i] = s[i]
  BY <1>1, <1>2
<1>5. \A i \in 1 .. n : i + m \in 1 .. m + n /\ u[i + m] = t[i]
  BY <1>1, <1>2
<1>6. \A i \in 1 .. m + n : \/ i \in 1 .. m /\ u[i] = s[i]
                            \/ i - m \in 1 .. n /\ u[i] = t[i - m]
  BY <1>1, <1>2
<1>7. ToSet(u) = ToSet(s) \cup ToSet(t)
  <2>1. ToSet(s) \cup ToSet(t) \subseteq ToSet(u)
    BY <1>1, <1>3, <1>4, <1>5 DEF ToSet
  <2>2. ToSet(u) \subseteq ToSet(s) \cup ToSet(t)
    BY <1>1, <1>3, <1>6 DEF ToSet
  <2> QED
    BY <2>1, <2>2
<1>8. ASSUME NEW i \in 1 .. m + n, NEW j \in 1 .. m + n, u[i] = u[j]
      PROVE  i = j
  <2>1. CASE i \in 1 .. m /\ u[i] = s[i] /\ j \in 1 .. m /\ u[j] = s[j]
    BY <1>1, <1>8, <2>1 DEF IsInjective
  <2>2. CASE i - m \in 1 .. n /\ u[i] = t[i - m] /\ j - m \in 1 .. n /\ u[j] = t[j - m]
    <3>1. i - m = j - m
      BY <1>1, <1>8, <2>2 DEF IsInjective
    <3> QED
      BY <1>1, <3>1
  <2>3. CASE i \in 1 .. m /\ u[i] = s[i] /\ j - m \in 1 .. n /\ u[j] = t[j - m]
    BY <1>1, <1>8, <2>3 DEF ToSet
  <2>4. CASE j \in 1 .. m /\ u[j] = s[j] /\ i - m \in 1 .. n /\ u[i] = t[i - m]
    BY <1>1, <1>8, <2>4 DEF ToSet
  <2> QED
    BY <1>6, <2>1, <2>2, <2>3, <2>4
<1>9. IsInjective(u)
  BY <1>3, <1>8 DEF IsInjective
<1> QED
  BY <1>2, <1>7, <1>9 DEF u

(* The new addresses of extend are different blocks there were not.        *)
LEMMA NewBlocks ==
  ASSUME NEW n \in Nat \ {0}, NEW new \in NewAddrs(n)
  PROVE  /\ new \in Seq(Addr) /\ Len(new) = n /\ new # <<>>
         /\ IsInjective(new) /\ ToSet(new) \cap DOMAIN live = {}
<1> DEFINE unused == Addr \ DOMAIN live
<1>1. /\ new \in [1 .. n -> unused]
      /\ \A i, j \in 1 .. n : i < j => new[i] < new[j]
  BY DEF NewAddrs, Lowest
<1>2. DOMAIN new = 1 .. n /\ \A i \in 1 .. n : new[i] \in unused
  BY <1>1
<1>3. new \in Seq(Addr) /\ Len(new) = n
  <2>1. new \in [1 .. n -> Addr]
    BY <1>1
  <2>2. new \in Seq(Addr)
    BY <2>1, SeqDef
  <2> QED
    BY <1>2, <2>2, LenProperties
<1>4. \A i \in 1 .. n : new[i] \in Nat
  BY <1>2, Sizes
<1>5. IsInjective(new)
  BY <1>1, <1>2, <1>4 DEF IsInjective
<1>6. ToSet(new) \cap DOMAIN live = {}
  BY <1>2 DEF ToSet
<1>7. new # <<>>
  BY <1>3, LenProperties, EmptySeq
<1> QED
  BY <1>3, <1>5, <1>6, <1>7

-----------------------------------------------------------------------------
(***************************************************************************)
(* The invariant.  f, lv, st and used stand for free, live, stub and the   *)
(* blocks that caches and allocate have, now or after a step.              *)
(***************************************************************************)
Listed(f, lv, st, used) ==
  \A s \in Size :
    /\ IsInjective(f[s])
    /\ \A a \in ToSet(f[s]) : a \in DOMAIN lv /\ lv[a] = s /\ a \in st[s] /\ a \notin used

Covered(f, lv, used) == DOMAIN lv = used \cup UNION {ToSet(f[s]) : s \in Size}

PoolTypes ==
  /\ free \in [Size -> Seq(Addr)]
  /\ stub \in [Size -> SUBSET Addr]
  /\ total \in Int /\ total <= C_MAX_POOL_SIZE
  /\ op \in [pc : {"idle", "purge", "extend", "pop", "got", "null"},
             size : Size \cup {0}, purge : Nat, mem : Addr \cup {NULL}]

CacheTypes ==
  /\ mem \in [Cache -> Addr \cup {NULL}] /\ block_size \in [Cache -> Size \cup {0}]
  /\ head \in [Cache -> Nat] /\ len \in [Cache -> Nat] /\ DOMAIN buf = Cache

(* What append has found out stays true until it has its block.            *)
Calling ==
  /\ op.pc # "idle" => call.who \in Cache /\ call.data \in Data
  /\ op.pc \in {"purge", "extend", "pop", "got"} =>
       op.size \in Size /\ Len(call.data) + len[call.who] < op.size
  /\ op.pc = "extend" => total + op.size * fit_extend_set(op.size) <= C_MAX_POOL_SIZE
  /\ op.pc = "pop" => free[op.size] # <<>>
  /\ op.pc = "got" => op.mem \in DOMAIN live /\ live[op.mem] = op.size /\ op.mem \in stub[op.size]

Mine == {mem[c] : c \in {d \in Cache : mem[d] # NULL}}
Used == Mine \cup InHand

Blocks ==
  /\ \A c \in Cache : mem[c] # NULL =>
       /\ block_size[c] \in Size
       /\ mem[c] \in DOMAIN live /\ live[mem[c]] = block_size[c]
       /\ mem[c] \in stub[block_size[c]]
       /\ mem[c] \notin InHand
  /\ \A c, d \in Cache : mem[c] # NULL /\ mem[c] = mem[d] => c = d
  /\ Listed(free, live, stub, Used) /\ Covered(free, live, Used)

BufferInv == PoolTypes /\ CacheTypes /\ Calling /\ Blocks /\ InBlock

LEMMA DataLen ==
  ASSUME NEW d \in Data
  PROVE  d \in Seq(ToSet(d)) /\ Len(d) \in Nat
<1>1. d \in Seq(ToSet(d))
  BY RawCacheAssumption
<1> QED
  BY <1>1, LenProperties

LEMMA InitInv == Init => BufferInv
<1> SUFFICES ASSUME Init PROVE BufferInv
  OBVIOUS
<1> USE DEF Init, PoolInit
<1>1. \A s \in Size : free[s] = <<>> /\ ToSet(free[s]) = {} /\ IsInjective(free[s])
  BY DEF ToSet, IsInjective
<1>2. op = NoOp /\ op.pc = "idle" /\ InHand = {} /\ Mine = {} /\ Used = {} /\ DOMAIN live = {}
  BY DEF NoOp, InHand, Mine, Used
<1>3. PoolTypes
  <2>1. <<>> \in Seq(Addr) /\ 0 <= C_MAX_POOL_SIZE
    BY EmptySeq, MemPoolAssumption
  <2>2. op \in [pc : {"idle", "purge", "extend", "pop", "got", "null"},
             size : Size \cup {0}, purge : Nat, mem : Addr \cup {NULL}]
    BY DEF NoOp, NULL
  <2> QED
    BY <2>1, <2>2 DEF PoolTypes
<1>4. CacheTypes
  BY DEF CacheTypes
<1>5. Calling
  BY <1>2 DEF Calling
<1>6. Blocks
  BY <1>1, <1>2 DEF Blocks, Listed, Covered, NULL
<1>7. InBlock
  BY DEF InBlock
<1> QED
  BY <1>3, <1>4, <1>5, <1>6, <1>7 DEF BufferInv

-----------------------------------------------------------------------------
(***************************************************************************)
(* The memory of the pool.                                                 *)
(***************************************************************************)
Totalled == IsFiniteSet(Space) /\ total = Cardinality(Space)

LEMMA InSpace ==
  \A x : x \in Space <=> \E a \in DOMAIN live : \E i \in 1 .. live[a] : x = <<a, i>>
BY DEF Space

LEMMA InSpaceNext ==
  \A x : x \in Space' <=> \E a \in DOMAIN live' : \E i \in 1 .. live'[a] : x = <<a, i>>
BY DEF Space

(* The blocks of a list, all of one size.                                  *)
LEMMA ListSpace ==
  ASSUME NEW list \in Seq(Addr), IsInjective(list), NEW s \in Nat
  PROVE  /\ IsFiniteSet(ToSet(list) \X (1 .. s))
         /\ Cardinality(ToSet(list) \X (1 .. s)) = s * Len(list)
<1> DEFINE n == Len(list)
           T == ToSet(list)
<1>1. n \in Nat /\ DOMAIN list = 1 .. n /\ list \in [1 .. n -> Addr]
  BY LenProperties
<1>2. list \in Bijection(1 .. n, T)
  <2>1. T = {list[i] : i \in 1 .. n}
    BY <1>1 DEF ToSet
  <2> HIDE DEF T, n
  <2>2. list \in [1 .. n -> T]
    BY <1>1, <2>1
  <2>3. \A i, j \in 1 .. n : list[i] = list[j] => i = j
    BY <1>1 DEF IsInjective
  <2>4. list \in Injection(1 .. n, T)
    BY <2>2, <2>3 DEF Injection
  <2>5. list \in Surjection(1 .. n, T)
    BY <2>1, <2>2 DEF Surjection
  <2> QED
    BY <2>4, <2>5 DEF Bijection
<1>3. IsFiniteSet(1 .. n) /\ Cardinality(1 .. n) = n
  BY <1>1, FS_Interval
<1>4. ExistsBijection(1 .. n, T)
  BY <1>2 DEF ExistsBijection
<1> HIDE DEF n, T
<1>5. IsFiniteSet(T) /\ Cardinality(T) = n
  BY <1>3, <1>4, FS_Bijection
<1>6. IsFiniteSet(1 .. s) /\ Cardinality(1 .. s) = s
  BY FS_Interval
<1>7. IsFiniteSet(T \X (1 .. s)) /\ Cardinality(T \X (1 .. s)) = Cardinality(T) * Cardinality(1 .. s)
  BY <1>5, <1>6, FS_Product
<1>8. n * s = s * n
  BY <1>1
<1> QED
  BY <1>5, <1>6, <1>7, <1>8 DEF T, n

(* The memory without the blocks of a list, ...                            *)
LEMMA SpaceLess ==
  ASSUME Totalled, NEW list \in Seq(Addr), IsInjective(list), NEW s \in Nat,
         \A a \in ToSet(list) : a \in DOMAIN live /\ live[a] = s,
         DOMAIN live' = DOMAIN live \ ToSet(list),
         \A a \in DOMAIN live' : live'[a] = live[a],
         total' = total - s * Len(list)
  PROVE  Totalled'
<1> DEFINE L == ToSet(list) \X (1 .. s)
<1>1. IsFiniteSet(L) /\ Cardinality(L) = s * Len(list)
  BY ListSpace
<1>2. \A x : x \in L <=> \E a \in ToSet(list) : \E i \in 1 .. s : x = <<a, i>>
  OBVIOUS
<1> HIDE DEF L
<1>3. Space' = Space \ L
  <2>1. ASSUME NEW x, x \in Space'
        PROVE  x \in Space /\ x \notin L
    <3>1. PICK a \in DOMAIN live' : \E i \in 1 .. live'[a] : x = <<a, i>>
      BY <2>1, InSpaceNext
    <3>2. a \in DOMAIN live /\ a \notin ToSet(list) /\ live'[a] = live[a]
      BY <3>1
    <3> QED
      BY <1>2, <3>1, <3>2, InSpace
  <2>2. ASSUME NEW x, x \in Space, x \notin L
        PROVE  x \in Space'
    <3>1. PICK a \in DOMAIN live : \E i \in 1 .. live[a] : x = <<a, i>>
      BY <2>2, InSpace
    <3>2. a \notin ToSet(list)
      BY <1>2, <2>2, <3>1
    <3>3. a \in DOMAIN live' /\ live'[a] = live[a]
      BY <3>1, <3>2
    <3> QED
      BY <3>1, <3>3, InSpaceNext
  <2> QED
    BY <2>1, <2>2
<1>4. Space \cap L = L
  BY <1>2, InSpace
<1>5. /\ IsFiniteSet(Space \ L)
      /\ Cardinality(Space \ L) = Cardinality(Space) - Cardinality(Space \cap L)
  BY FS_Difference DEF Totalled
<1> QED
  BY <1>1, <1>3, <1>4, <1>5 DEF Totalled

(* ... and with new ones.                                                  *)
LEMMA SpaceMore ==
  ASSUME Totalled, NEW list \in Seq(Addr), IsInjective(list), NEW s \in Nat,
         \A a \in ToSet(list) : a \notin DOMAIN live,
         DOMAIN live' = DOMAIN live \cup ToSet(list),
         \A a \in DOMAIN live : live'[a] = live[a],
         \A a \in ToSet(list) : live'[a] = s,
         total' = total + s * Len(list)
  PROVE  Totalled'
<1> DEFINE L == ToSet(list) \X (1 .. s)
<1>1. IsFiniteSet(L) /\ Cardinality(L) = s * Len(list)
  BY ListSpace
<1>2. \A x : x \in L <=> \E a \in ToSet(list) : \E i \in 1 .. s : x = <<a, i>>
  OBVIOUS
<1> HIDE DEF L
<1>3. Space' = Space \cup L
  <2>1. ASSUME NEW x, x \in Space'
        PROVE  x \in Space \/ x \in L
    <3>1. PICK a \in DOMAIN live' : \E i \in 1 .. live'[a] : x = <<a, i>>
      BY <2>1, InSpaceNext
    <3>2. CASE a \in ToSet(list)
      BY <1>2, <3>1, <3>2
    <3>3. CASE a \notin ToSet(list)
      <4>1. a \in DOMAIN live /\ live'[a] = live[a]
        BY <3>1, <3>3
      <4> QED
        BY <3>1, <4>1, InSpace
    <3> QED
      BY <3>2, <3>3
  <2>2. ASSUME NEW x, x \in Space \/ x \in L
        PROVE  x \in Space'
    <3>1. CASE x \in Space
      <4>1. PICK a \in DOMAIN live : \E i \in 1 .. live[a] : x = <<a, i>>
        BY <3>1, InSpace
      <4>2. a \in DOMAIN live' /\ live'[a] = live[a]
        BY <4>1
      <4> QED
        BY <4>1, <4>2, InSpaceNext
    <3>2. CASE x \in L
      <4>1. PICK a \in ToSet(list) : \E i \in 1 .. s : x = <<a, i>>
        BY <1>2, <3>2
      <4>2. a \in DOMAIN live' /\ live'[a] = s
        BY <4>1
      <4> QED
        BY <4>1, <4>2, InSpaceNext
    <3> QED
      BY <2>2, <3>1, <3>2
  <2> QED
    BY <2>1, <2>2
<1>4. Space \cap L = {}
  <2> SUFFICES ASSUME NEW x, x \in Space, x \in L PROVE FALSE
    OBVIOUS
  <2>1. PICK a \in DOMAIN live : \E i \in 1 .. live[a] : x = <<a, i>>
    BY InSpace
  <2>2. PICK b \in ToSet(list) : \E i \in 1 .. s : x = <<b, i>>
    BY <1>2
  <2> QED
    BY <2>1, <2>2
<1>5. /\ IsFiniteSet(Space \cup L)
      /\ Cardinality(Space \cup L) = Cardinality(Space) + Cardinality(L) - Cardinality(Space \cap L)
  BY <1>1, FS_Union DEF Totalled
<1>6. Cardinality({}) = 0 /\ Cardinality(Space) \in Nat /\ Cardinality(L) \in Nat
  BY <1>1, FS_EmptySet, FS_CardinalityType DEF Totalled
<1>7. total = Cardinality(Space)
  BY DEF Totalled
<1>8. IsFiniteSet(Space') /\ Cardinality(Space') = Cardinality(Space \cup L)
  BY <1>3, <1>5
<1>9. Cardinality(Space \cup L) = Cardinality(Space) + Cardinality(L)
  <2>1. Cardinality(Space \cap L) = 0
    BY <1>4, <1>6, Zenon
  <2> QED
    BY <1>5, <1>6, <2>1
<1>10. total' = Cardinality(Space')
  BY <1>1, <1>7, <1>8, <1>9
<1> QED
  BY <1>8, <1>10 DEF Totalled

-----------------------------------------------------------------------------
(***************************************************************************)
(* release, for any pool whose list of s is f[s] for the moment.           *)
(***************************************************************************)
LEMMA Released ==
  ASSUME NEW f \in [Size -> Seq(Addr)], NEW s \in Size, NEW mark, NEW used,
         free \in [Size -> Seq(Addr)], total \in Int,
         \A t \in Size \ {s} : f[t] = free[t],
         Listed(f, live, stub, used), Covered(f, live, used),
         release(s, f[s], mark)
  PROVE  /\ free' \in [Size -> Seq(Addr)] /\ total' \in Int /\ total' <= total
         /\ Listed(free', live', stub, used) /\ Covered(free', live', used)
         /\ \A a \in used : a \in DOMAIN live' /\ live'[a] = live[a]
         /\ Totalled => Totalled'
<1> DEFINE n == release_size(s, Len(f[s]), Cardinality(stub[s]), mark)
           gone == SubSeq(f[s], 1, n)
           rest == SubSeq(f[s], n + 1, Len(f[s]))
<1>1. f[s] \in Seq(Addr) /\ Len(f[s]) \in Nat
  BY LenProperties
<1>2. n \in 0 .. Len(f[s])
  BY <1>1, ReleaseSize
<1>3. /\ free' = [free EXCEPT ![s] = rest]
      /\ live' = [a \in DOMAIN live \ ToSet(gone) |-> live[a]]
      /\ total' = total - s * n
  BY DEF release, Delete
<1> HIDE DEF n
<1>4. IsInjective(f[s])
  BY DEF Listed
<1>5. /\ gone \in Seq(Addr) /\ Len(gone) = n /\ IsInjective(gone)
      /\ rest \in Seq(Addr) /\ IsInjective(rest)
      /\ ToSet(f[s]) = ToSet(gone) \cup ToSet(rest) /\ ToSet(gone) \cap ToSet(rest) = {}
  BY <1>1, <1>2, <1>4, Split
<1> HIDE DEF gone, rest
<1>6. /\ free' \in [Size -> Seq(Addr)] /\ free'[s] = rest
      /\ \A t \in Size \ {s} : free'[t] = f[t]
  BY <1>3, <1>5
<1>7. total' \in Int /\ total' <= total
  <2>1. n \in Nat /\ s \in Nat
    BY <1>1, <1>2, Sizes
  <2>2. s * n \in Nat
    BY <2>1, ProductNat
  <2> QED
    BY <1>3, <2>2
<1>8. /\ DOMAIN live' = DOMAIN live \ ToSet(gone)
      /\ \A a \in DOMAIN live' : live'[a] = live[a]
  BY <1>3
<1>9. \A t \in Size : ToSet(free'[t]) = ToSet(f[t]) \ ToSet(gone)
  <2> SUFFICES ASSUME NEW t \in Size PROVE ToSet(free'[t]) = ToSet(f[t]) \ ToSet(gone)
    OBVIOUS
  <2>1. CASE t = s
    BY <1>5, <1>6, <2>1
  <2>2. CASE t # s
    <3>1. \A a \in ToSet(f[t]) : live[a] = t
      BY DEF Listed
    <3>2. \A a \in ToSet(gone) : live[a] = s
      BY <1>5 DEF Listed
    <3> QED
      BY <1>6, <2>2, <3>1, <3>2
  <2> QED
    BY <2>1, <2>2
<1>10. Listed(free', live', stub, used)
  <2> SUFFICES ASSUME NEW t \in Size
               PROVE  /\ IsInjective(free'[t])
                      /\ \A a \in ToSet(free'[t]) :
                           a \in DOMAIN live' /\ live'[a] = t /\ a \in stub[t] /\ a \notin used
    BY DEF Listed
  <2>1. IsInjective(free'[t])
    BY <1>5, <1>6 DEF Listed
  <2> QED
    BY <1>8, <1>9, <2>1 DEF Listed
<1>11. \A a \in used : a \in DOMAIN live /\ a \notin ToSet(gone)
  <2>1. \A a \in used : a \in DOMAIN live
    BY DEF Covered
  <2>2. \A a \in ToSet(f[s]) : a \notin used
    BY DEF Listed
  <2> QED
    BY <1>5, <2>1, <2>2
<1> DEFINE U == UNION {ToSet(f[t]) : t \in Size}
           V == UNION {ToSet(free'[t]) : t \in Size}
<1>12. V = U \ ToSet(gone)
  <2>1. \A a : a \in V <=> \E t \in Size : a \in ToSet(free'[t])
    OBVIOUS
  <2>2. \A a : a \in U <=> \E t \in Size : a \in ToSet(f[t])
    OBVIOUS
  <2> HIDE DEF U, V
  <2>3. \A a : a \in V <=> a \in U /\ a \notin ToSet(gone)
    BY <1>9, <2>1, <2>2
  <2> QED
    BY <2>3
<1>13. Covered(free', live', used)
  <2>1. DOMAIN live = used \cup U
    BY DEF Covered
  <2> HIDE DEF U, V
  <2>2. DOMAIN live' = used \cup V
    BY <1>8, <1>11, <1>12, <2>1
  <2> QED
    BY <2>2 DEF Covered, V
<1>14. ASSUME Totalled PROVE Totalled'
  <2>1. \A a \in ToSet(gone) : a \in DOMAIN live /\ live[a] = s
    BY <1>5 DEF Listed
  <2>2. s \in Nat /\ total' = total - s * Len(gone)
    BY <1>3, <1>5, Sizes
  <2> QED
    BY <1>5, <1>8, <1>14, <2>1, <2>2, SpaceLess
<1> QED
  BY <1>6, <1>7, <1>8, <1>10, <1>11, <1>13, <1>14

(* recycle takes the block of a cache.                                     *)
LEMMA Recycled ==
  ASSUME PoolTypes, Blocks, NEW c \in Cache, mem[c] # NULL, mem[c] \in Addr \cup {NULL},
         recycle(mem[c], block_size[c])
  PROVE  /\ free' \in [Size -> Seq(Addr)] /\ total' \in Int /\ total' <= total
         /\ Listed(free', live', stub, Used \ {mem[c]})
         /\ Covered(free', live', Used \ {mem[c]})
         /\ \A a \in Used \ {mem[c]} : a \in DOMAIN live' /\ live'[a] = live[a]
         /\ Totalled => Totalled'
<1> DEFINE old == mem[c]
           s == block_size[c]
           list == <<old>> \o free[s]
           f == [free EXCEPT ![s] = list]
           used == Used \ {old}
<1>1. /\ old \in Addr /\ s \in Size /\ old \in DOMAIN live /\ live[old] = s /\ old \in stub[s]
      /\ old \in Used
  BY DEF Blocks, Used, Mine
<1>2. release(s, list, C_MAX_WATER_MARK)
  BY <1>1 DEF recycle
<1>3. free \in [Size -> Seq(Addr)] /\ free[s] \in Seq(Addr) /\ total \in Int
  BY <1>1 DEF PoolTypes
<1>4. <<old>> \in Seq(Addr) /\ IsInjective(<<old>>) /\ ToSet(<<old>>) = {old}
  BY <1>1 DEF IsInjective, ToSet
<1>5. /\ Listed(free, live, stub, Used) /\ Covered(free, live, Used)
      /\ IsInjective(free[s]) /\ old \notin ToSet(free[s])
  BY <1>1 DEF Blocks, Listed
<1>6. list \in Seq(Addr) /\ IsInjective(list) /\ ToSet(list) = {old} \cup ToSet(free[s])
  <2>1. ToSet(<<old>>) \cap ToSet(free[s]) = {}
    BY <1>4, <1>5
  <2> HIDE DEF old, s
  <2>2. /\ list \in Seq(Addr) /\ IsInjective(list)
        /\ ToSet(list) = ToSet(<<old>>) \cup ToSet(free[s])
    BY <1>3, <1>4, <1>5, <2>1, Joined
  <2> QED
    BY <1>4, <2>2
<1> HIDE DEF list, old, s
<1>7. /\ f \in [Size -> Seq(Addr)] /\ f[s] = list /\ \A t \in Size \ {s} : f[t] = free[t]
  BY <1>1, <1>3, <1>6
<1> HIDE DEF f
<1>8. Listed(f, live, stub, used)
  <2> SUFFICES ASSUME NEW t \in Size
               PROVE  /\ IsInjective(f[t])
                      /\ \A a \in ToSet(f[t]) :
                           a \in DOMAIN live /\ live[a] = t /\ a \in stub[t] /\ a \notin used
    BY DEF Listed
  <2>1. CASE t = s
    BY <1>1, <1>5, <1>6, <1>7, <2>1 DEF Listed
  <2>2. CASE t # s
    BY <1>5, <1>7, <2>2 DEF Listed
  <2> QED
    BY <2>1, <2>2
<1>9. Covered(f, live, used)
  <2>1. UNION {ToSet(f[t]) : t \in Size} = {old} \cup UNION {ToSet(free[t]) : t \in Size}
    <3>1. \A t \in Size : ToSet(f[t]) = IF t = s THEN {old} \cup ToSet(free[s]) ELSE ToSet(free[t])
      BY <1>6, <1>7
    <3> HIDE DEF f
    <3> QED
      BY <1>1, <3>1
  <2> QED
    BY <1>1, <1>5, <2>1 DEF Covered
<1>10. release(s, f[s], C_MAX_WATER_MARK)
  BY <1>2, <1>7
<1> HIDE DEF used
<1>11. /\ free' \in [Size -> Seq(Addr)] /\ total' \in Int /\ total' <= total
       /\ Listed(free', live', stub, used) /\ Covered(free', live', used)
       /\ \A a \in used : a \in DOMAIN live' /\ live'[a] = live[a]
       /\ Totalled => Totalled'
  BY <1>1, <1>3, <1>7, <1>8, <1>9, <1>10, Released
<1> QED
  BY <1>11 DEF used, old

-----------------------------------------------------------------------------
(***************************************************************************)
(* The steps of allocate.                                                  *)
(***************************************************************************)
LEMMA CacheKept ==
  ASSUME CacheTypes, InBlock, UNCHANGED cacheVars
  PROVE  CacheTypes' /\ InBlock'
BY DEF CacheTypes, InBlock, cacheVars

LEMMA BlocksKept ==
  ASSUME Blocks, UNCHANGED <<mem, block_size>>,
         \A a \in Mine : a \in DOMAIN live' /\ live'[a] = live[a] /\ a \notin InHand',
         \A s \in Size : stub[s] \subseteq stub'[s],
         Listed(free', live', stub', Mine \cup InHand'),
         Covered(free', live', Mine \cup InHand')
  PROVE  Blocks'
<1>1. mem' = mem /\ block_size' = block_size /\ Mine' = Mine /\ Used' = Mine \cup InHand'
  BY DEF Mine, Used
<1>2. \A c \in Cache : mem[c] # NULL => mem[c] \in Mine
  BY DEF Mine
<1> QED
  BY <1>1, <1>2 DEF Blocks

(* Only op has changed, and allocate has no block before or after.         *)
LEMMA OpOnly ==
  ASSUME PoolTypes, CacheTypes, Blocks, InBlock, op.pc # "got", op'.pc # "got",
         UNCHANGED <<free, stub, total, live, cacheVars>>,
         op' \in [pc : {"idle", "purge", "extend", "pop", "got", "null"},
                  size : Size \cup {0}, purge : Nat, mem : Addr \cup {NULL}]
  PROVE  PoolTypes' /\ CacheTypes' /\ Blocks' /\ InBlock'
<1>1. InHand = {} /\ InHand' = {} /\ Used = Mine
  BY DEF InHand, Used
<1>2. CacheTypes' /\ InBlock'
  BY CacheKept
<1>3. PoolTypes'
  BY DEF PoolTypes
<1>4. Listed(free', live', stub', Mine \cup InHand') /\ Covered(free', live', Mine \cup InHand')
  BY <1>1 DEF Blocks
<1>5. Blocks'
  <2>1. \A a \in Mine : a \in DOMAIN live /\ a \notin InHand'
    BY <1>1 DEF Blocks, Mine
  <2> QED
    BY <1>4, <2>1, BlocksKept DEF cacheVars
<1> QED
  BY <1>2, <1>3, <1>5

LEMMA AppendAllocInv ==
  ASSUME BufferInv, NEW c \in Cache, NEW d \in Data, AppendAlloc(c, d)
  PROVE  BufferInv'
<1> DEFINE size == Len(d) + len[c]
           bs   == fit_block_size(size)
           set  == fit_extend_set(bs)
<1>1. size \in Nat
  BY DataLen DEF BufferInv, CacheTypes
<1>2. /\ op.pc = "idle" /\ size < TopBlock
      /\ UNCHANGED <<free, stub, total, live, cacheVars>>
      /\ call' = [who |-> c, data |-> d]
  BY DEF AppendAlloc, AllocCall
<1>3. bs \in Size /\ size < bs
  BY <1>1, <1>2, FitBlockSize
<1>4. set \in Nat \ {0} /\ bs \in Nat \ {0}
  BY <1>3, FitExtendSet, Sizes
<1> DEFINE over == total + bs * set >= C_MAX_POOL_SIZE
           next == IF free[bs] # <<>> THEN "pop" ELSE IF over THEN "purge" ELSE "extend"
<1>5. op' = [NoOp EXCEPT !.pc = next, !.size = bs, !.purge = TopBlock]
  BY DEF AppendAlloc, AllocCall
<1>6. op' = [pc |-> next, size |-> bs, purge |-> TopBlock, mem |-> 0]
  BY <1>5 DEF NoOp
<1>7. /\ op'.pc = next /\ op'.size = bs
      /\ op' \in [pc : {"idle", "purge", "extend", "pop", "got", "null"},
                  size : Size \cup {0}, purge : Nat, mem : Addr \cup {NULL}]
  BY <1>3, <1>6, Sizes DEF NULL
<1>8. next \in {"pop", "purge", "extend"}
  OBVIOUS
<1>9. PoolTypes' /\ CacheTypes' /\ Blocks' /\ InBlock'
  BY <1>2, <1>7, <1>8, OpOnly DEF BufferInv
<1>10. next = "pop" => free[bs] # <<>>
  OBVIOUS
<1>11. next = "extend" => ~over
  OBVIOUS
<1>12. ~over => total + bs * set <= C_MAX_POOL_SIZE
  <2>1. total \in Int /\ C_MAX_POOL_SIZE \in Int /\ bs * set \in Nat
    <3>1. bs \in Nat /\ set \in Nat
      BY <1>4
    <3> HIDE DEF bs, set
    <3>2. bs * set \in Nat
      BY <3>1, ProductNat
    <3> QED
      BY <3>2, MemPoolAssumption DEF BufferInv, PoolTypes
  <2> HIDE DEF bs, set
  <2> QED
    BY <2>1
<1>13. Len(d) + len[c] < bs
  BY <1>3
<1> HIDE DEF next, over, bs
<1>14. Calling'
  <2>1. call'.who \in Cache /\ call'.data \in Data /\ Len(call'.data) + len'[call'.who] < op'.size
    BY <1>2, <1>7, <1>13 DEF cacheVars
  <2>2. op'.pc = "extend" => total' + op'.size * fit_extend_set(op'.size) <= C_MAX_POOL_SIZE
    BY <1>2, <1>7, <1>11, <1>12
  <2>3. op'.pc = "pop" => free'[op'.size] # <<>>
    BY <1>2, <1>7, <1>10
  <2> QED
    BY <1>3, <1>7, <1>8, <2>1, <2>2, <2>3 DEF Calling
<1> QED
  BY <1>9, <1>14 DEF BufferInv

LEMMA PurgeInv ==
  ASSUME BufferInv, Purge, UNCHANGED <<cacheVars, call>>
  PROVE  BufferInv'
<1> DEFINE s == op.purge \div 2
<1>1. op.pc = "purge" /\ op.purge \in Nat /\ s \in Nat /\ stub' = stub
  BY DEF BufferInv, PoolTypes, Purge
<1>2. op' = [op EXCEPT !.purge = s]
  BY DEF Purge
<1>3. /\ op'.pc = "purge" /\ op'.size = op.size
      /\ op' \in [pc : {"idle", "purge", "extend", "pop", "got", "null"},
                  size : Size \cup {0}, purge : Nat, mem : Addr \cup {NULL}]
  BY <1>1, <1>2 DEF BufferInv, PoolTypes
<1>4. InHand = {} /\ InHand' = {} /\ Used = Mine
  BY <1>1, <1>3 DEF InHand, Used
<1>5. /\ free \in [Size -> Seq(Addr)] /\ total \in Int
      /\ Listed(free, live, stub, Mine) /\ Covered(free, live, Mine)
  BY <1>4 DEF BufferInv, PoolTypes, Blocks
<1>6. \A a \in Mine : a \in DOMAIN live
  BY <1>5 DEF Covered
<1>7. /\ free' \in [Size -> Seq(Addr)] /\ total' \in Int /\ total' <= total
      /\ Listed(free', live', stub, Mine) /\ Covered(free', live', Mine)
      /\ \A a \in Mine : a \in DOMAIN live' /\ live'[a] = live[a]
  <2>1. CASE s \in Size
    <3>1. release(s, free[s], C_ALLOC_CAPCITY)
      BY <2>1 DEF Purge
    <3> HIDE DEF s
    <3> QED
      BY <1>5, <2>1, <3>1, Released
  <2>2. CASE s \notin Size
    <3>1. UNCHANGED <<free, live, total>>
      BY <2>2 DEF Purge
    <3> QED
      BY <1>5, <1>6, <3>1
  <2> QED
    BY <2>1, <2>2
<1>8. PoolTypes'
  <2>1. total' <= C_MAX_POOL_SIZE
    BY <1>5, <1>7, MemPoolAssumption DEF BufferInv, PoolTypes
  <2> QED
    BY <1>1, <1>3, <1>7, <2>1 DEF BufferInv, PoolTypes
<1>9. Blocks'
  <2>1. Listed(free', live', stub', Mine \cup InHand') /\ Covered(free', live', Mine \cup InHand')
    BY <1>1, <1>4, <1>7
  <2> QED
    BY <1>1, <1>4, <1>7, <2>1, BlocksKept DEF BufferInv, cacheVars
<1>10. Calling'
  BY <1>1, <1>3 DEF BufferInv, Calling, cacheVars
<1>11. CacheTypes' /\ InBlock'
  BY CacheKept DEF BufferInv
<1> QED
  BY <1>8, <1>9, <1>10, <1>11 DEF BufferInv

LEMMA PurgeEndInv ==
  ASSUME BufferInv, PurgeEnd, UNCHANGED <<cacheVars, call>>
  PROVE  BufferInv'
<1>1. op.pc = "purge" /\ UNCHANGED <<free, stub, total, live>>
  BY DEF PurgeEnd
<1>2. CASE Room /\ op' = [op EXCEPT !.pc = "extend"]
  <2>1. /\ op'.pc = "extend" /\ op'.size = op.size
        /\ op' \in [pc : {"idle", "purge", "extend", "pop", "got", "null"},
                    size : Size \cup {0}, purge : Nat, mem : Addr \cup {NULL}]
    BY <1>2 DEF BufferInv, PoolTypes
  <2>2. Calling'
    BY <1>1, <1>2, <2>1 DEF BufferInv, Calling, cacheVars, Room
  <2> QED
    BY <1>1, <2>1, <2>2, OpOnly DEF BufferInv
<1>3. CASE op' = [NoOp EXCEPT !.pc = "null"]
  <2>1. /\ op'.pc = "null"
        /\ op' \in [pc : {"idle", "purge", "extend", "pop", "got", "null"},
                    size : Size \cup {0}, purge : Nat, mem : Addr \cup {NULL}]
    BY <1>3 DEF NoOp, NULL
  <2>2. Calling'
    BY <1>1, <2>1 DEF BufferInv, Calling
  <2> QED
    BY <1>1, <2>1, <2>2, OpOnly DEF BufferInv
<1> QED
  BY <1>2, <1>3 DEF PurgeEnd

LEMMA ExtendInv ==
  ASSUME BufferInv, Extend, UNCHANGED <<cacheVars, call>>
  PROVE  BufferInv'
<1> DEFINE s == op.size
           n == fit_extend_set(s)
<1>1. op.pc = "extend" /\ s \in Size
  BY DEF BufferInv, Calling, Extend
<1>2. n \in Nat \ {0}
  BY <1>1, FitExtendSet
<1>3. PICK new \in NewAddrs(n) :
        /\ live' = [a \in DOMAIN live \cup ToSet(new) |-> IF a \in ToSet(new) THEN s ELSE live[a]]
        /\ free' = [free EXCEPT ![s] = new \o @]
        /\ stub' = [stub EXCEPT ![s] = @ \cup ToSet(new)]
  BY DEF Extend
<1>4. total' = total + s * n /\ op' = [op EXCEPT !.pc = "pop"]
  BY DEF Extend
<1>5. total + s * n <= C_MAX_POOL_SIZE
  BY <1>1 DEF BufferInv, Calling
<1> HIDE DEF n
<1>6. /\ new \in Seq(Addr) /\ Len(new) = n /\ new # <<>>
      /\ IsInjective(new) /\ ToSet(new) \cap DOMAIN live = {}
  BY <1>2, NewBlocks
<1>7. ToSet(new) \subseteq Addr
  BY <1>6, LenProperties DEF ToSet
<1>8. /\ op'.pc = "pop" /\ op'.size = s
      /\ op' \in [pc : {"idle", "purge", "extend", "pop", "got", "null"},
                  size : Size \cup {0}, purge : Nat, mem : Addr \cup {NULL}]
  BY <1>4 DEF BufferInv, PoolTypes
<1>9. InHand = {} /\ InHand' = {} /\ Used = Mine
  BY <1>1, <1>8 DEF InHand, Used
<1>10. /\ free \in [Size -> Seq(Addr)] /\ stub \in [Size -> SUBSET Addr]
       /\ total \in Int /\ total <= C_MAX_POOL_SIZE
       /\ Listed(free, live, stub, Mine) /\ Covered(free, live, Mine)
  BY <1>9 DEF BufferInv, PoolTypes, Blocks
<1>11. /\ IsInjective(free[s]) /\ ToSet(new) \cap ToSet(free[s]) = {} /\ free[s] \in Seq(Addr)
  BY <1>1, <1>6, <1>10 DEF Listed
<1>12. /\ new \o free[s] \in Seq(Addr) /\ IsInjective(new \o free[s])
       /\ ToSet(new \o free[s]) = ToSet(new) \cup ToSet(free[s])
  BY <1>6, <1>11, Joined
<1>13. new \o free[s] # <<>>
  BY <1>6, <1>11, ConcatEqualIffEmpty
<1> HIDE DEF s
<1> DEFINE list == new \o free[s]
<1> HIDE DEF list
<1>14. free' = [free EXCEPT ![s] = list]
  BY <1>3 DEF list
<1>15. /\ free' \in [Size -> Seq(Addr)] /\ free'[s] = list
       /\ \A t \in Size \ {s} : free'[t] = free[t]
  BY <1>1, <1>10, <1>12, <1>14 DEF list
<1>16. /\ stub' \in [Size -> SUBSET Addr] /\ stub'[s] = stub[s] \cup ToSet(new)
       /\ \A t \in Size : stub[t] \subseteq stub'[t]
  BY <1>1, <1>3, <1>7, <1>10
<1>17. /\ DOMAIN live' = DOMAIN live \cup ToSet(new)
       /\ \A a \in DOMAIN live : live'[a] = live[a]
       /\ \A a \in ToSet(new) : live'[a] = s
  BY <1>3, <1>6
<1>18. \A a \in Mine : a \in DOMAIN live
  BY <1>10 DEF Covered
<1>19. \A t \in Size : ToSet(free'[t]) = IF t = s THEN ToSet(new) \cup ToSet(free[s]) ELSE ToSet(free[t])
  BY <1>12, <1>15 DEF list
<1>20. Listed(free', live', stub', Mine)
  <2> SUFFICES ASSUME NEW t \in Size
               PROVE  /\ IsInjective(free'[t])
                      /\ \A a \in ToSet(free'[t]) :
                           a \in DOMAIN live' /\ live'[a] = t /\ a \in stub'[t] /\ a \notin Mine
    BY DEF Listed
  <2>1. \A a \in ToSet(free[t]) :
          a \in DOMAIN live' /\ live'[a] = t /\ a \in stub'[t] /\ a \notin Mine
    BY <1>10, <1>16, <1>17 DEF Listed
  <2>2. CASE t = s
    <3>1. IsInjective(free'[t])
      BY <1>12, <1>15, <2>2 DEF list
    <3>2. \A a \in ToSet(new) :
            a \in DOMAIN live' /\ live'[a] = t /\ a \in stub'[t] /\ a \notin Mine
      BY <1>6, <1>16, <1>17, <1>18, <2>2
    <3> QED
      BY <1>19, <2>1, <2>2, <3>1, <3>2
  <2>3. CASE t # s
    BY <1>10, <1>15, <2>1, <2>3 DEF Listed
  <2> QED
    BY <2>2, <2>3
<1>21. Covered(free', live', Mine)
  <2> DEFINE U == UNION {ToSet(free[t]) : t \in Size}
             V == UNION {ToSet(free'[t]) : t \in Size}
  <2>1. DOMAIN live = Mine \cup U
    BY <1>10 DEF Covered
  <2>2. V = U \cup ToSet(new)
    <3>1. \A a : a \in V <=> \E t \in Size : a \in ToSet(free'[t])
      OBVIOUS
    <3>2. \A a : a \in U <=> \E t \in Size : a \in ToSet(free[t])
      OBVIOUS
    <3> HIDE DEF U, V
    <3>3. \A a : a \in V <=> a \in U \/ a \in ToSet(new)
      BY <1>1, <1>19, <3>1, <3>2
    <3> QED
      BY <3>3
  <2> HIDE DEF U, V
  <2>3. DOMAIN live' = Mine \cup V
    BY <1>17, <2>1, <2>2
  <2> QED
    BY <2>3 DEF Covered, V
<1>22. Blocks'
  <2>1. Listed(free', live', stub', Mine \cup InHand') /\ Covered(free', live', Mine \cup InHand')
    BY <1>9, <1>20, <1>21
  <2> QED
    BY <1>9, <1>16, <1>17, <1>18, <2>1, BlocksKept DEF BufferInv, cacheVars
<1>23. PoolTypes'
  <2>1. s * n \in Nat
    BY <1>1, <1>2, Sizes, ProductNat
  <2>2. total' \in Int /\ total' <= C_MAX_POOL_SIZE
    BY <1>4, <1>5, <1>10, <2>1 DEF s
  <2> QED
    BY <1>8, <1>15, <1>16, <2>2 DEF PoolTypes
<1>24. Calling'
  <2>1. free'[op'.size] # <<>>
    BY <1>8, <1>13, <1>15 DEF list
  <2> QED
    BY <1>1, <1>8, <2>1 DEF BufferInv, Calling, cacheVars, s
<1>25. CacheTypes' /\ InBlock'
  BY CacheKept DEF BufferInv
<1> QED
  BY <1>22, <1>23, <1>24, <1>25 DEF BufferInv

LEMMA PopList ==
  ASSUME NEW list \in Seq(Addr), list # <<>>, IsInjective(list)
  PROVE  /\ Head(list) \in Addr /\ Tail(list) \in Seq(Addr) /\ IsInjective(Tail(list))
         /\ ToSet(list) = {Head(list)} \cup ToSet(Tail(list))
         /\ Head(list) \notin ToSet(Tail(list))
<1>1. Len(list) \in Nat \ {0} /\ \A i \in 1 .. Len(list) : list[i] \in Addr
  BY EmptySeq, ElementOfSeq
<1>2. /\ Head(list) \in Addr /\ Head(list) = list[1]
      /\ Tail(list) = SubSeq(list, 2, Len(list))
  BY <1>1, HeadTailProperties, TailIsSubSeq
<1> DEFINE gone == SubSeq(list, 1, 1)
<1>3. /\ Tail(list) \in Seq(Addr) /\ IsInjective(Tail(list))
      /\ ToSet(list) = ToSet(gone) \cup ToSet(Tail(list))
      /\ ToSet(gone) \cap ToSet(Tail(list)) = {}
  <2>1. 1 \in 0 .. Len(list)
    BY <1>1
  <2>2. LET rest == SubSeq(list, 1 + 1, Len(list))
        IN  /\ rest \in Seq(Addr) /\ IsInjective(rest)
            /\ ToSet(list) = ToSet(gone) \cup ToSet(rest)
            /\ ToSet(gone) \cap ToSet(rest) = {}
    BY <2>1, Split
  <2>3. SubSeq(list, 1 + 1, Len(list)) = Tail(list)
    BY <1>2
  <2> QED
    BY <2>2, <2>3
<1>4. gone \in Seq(Addr) /\ Len(gone) = 1 /\ gone[1] = list[1]
  BY <1>1, SubSeqProperties
<1> HIDE DEF gone
<1>5. ToSet(gone) = {Head(list)}
  BY <1>2, <1>4, LenProperties DEF ToSet
<1> QED
  BY <1>2, <1>3, <1>5

LEMMA PopInv ==
  ASSUME BufferInv, Pop, UNCHANGED <<cacheVars, call>>
  PROVE  BufferInv'
<1> DEFINE s == op.size
           list == free[s]
           b == Head(list)
<1>1. op.pc = "pop" /\ s \in Size /\ list # <<>>
  BY DEF BufferInv, Calling, Pop
<1>2. /\ free' = [free EXCEPT ![s] = Tail(list)]
      /\ op' = [op EXCEPT !.pc = "got", !.mem = b]
      /\ UNCHANGED <<stub, total, live>>
  BY DEF Pop
<1>3. InHand = {} /\ Used = Mine
  BY <1>1 DEF InHand, Used
<1>4. /\ free \in [Size -> Seq(Addr)] /\ list \in Seq(Addr) /\ IsInjective(list)
      /\ Listed(free, live, stub, Mine) /\ Covered(free, live, Mine)
  BY <1>1, <1>3 DEF BufferInv, PoolTypes, Blocks, Listed
<1>5. /\ b \in Addr /\ Tail(list) \in Seq(Addr) /\ IsInjective(Tail(list))
      /\ ToSet(list) = {b} \cup ToSet(Tail(list)) /\ b \notin ToSet(Tail(list))
  BY <1>1, <1>4, PopList
<1>6. b \in DOMAIN live /\ live[b] = s /\ b \in stub[s] /\ b \notin Mine
  BY <1>1, <1>4, <1>5 DEF Listed
<1>7. /\ op'.pc = "got" /\ op'.size = s /\ op'.mem = b
      /\ op' \in [pc : {"idle", "purge", "extend", "pop", "got", "null"},
                  size : Size \cup {0}, purge : Nat, mem : Addr \cup {NULL}]
  BY <1>2, <1>5 DEF BufferInv, PoolTypes
<1>8. InHand' = {b}
  BY <1>7 DEF InHand
<1> HIDE DEF s, b
<1> DEFINE rest == Tail(list)
<1> HIDE DEF rest
<1>9. /\ free' \in [Size -> Seq(Addr)] /\ free'[s] = rest
      /\ \A t \in Size \ {s} : free'[t] = free[t]
  BY <1>1, <1>2, <1>4, <1>5 DEF rest
<1> HIDE DEF list
<1>10. \A t \in Size : ToSet(free'[t]) = ToSet(free[t]) \ {b}
  <2> SUFFICES ASSUME NEW t \in Size PROVE ToSet(free'[t]) = ToSet(free[t]) \ {b}
    OBVIOUS
  <2>1. CASE t = s
    BY <1>5, <1>9, <2>1 DEF list, rest
  <2>2. CASE t # s
    <3>1. b \notin ToSet(free[t])
      BY <1>4, <1>6, <2>2 DEF Listed
    <3> QED
      BY <1>9, <2>2, <3>1
  <2> QED
    BY <2>1, <2>2
<1>11. Listed(free', live', stub', Mine \cup {b})
  <2> SUFFICES ASSUME NEW t \in Size
               PROVE  /\ IsInjective(free'[t])
                      /\ \A a \in ToSet(free'[t]) :
                           /\ a \in DOMAIN live' /\ live'[a] = t /\ a \in stub'[t]
                           /\ a \notin Mine \cup {b}
    BY DEF Listed
  <2>1. IsInjective(free'[t])
    BY <1>4, <1>5, <1>9 DEF Listed, rest
  <2> QED
    BY <1>2, <1>4, <1>10, <2>1 DEF Listed
<1>12. Covered(free', live', Mine \cup {b})
  <2> DEFINE U == UNION {ToSet(free[t]) : t \in Size}
             V == UNION {ToSet(free'[t]) : t \in Size}
  <2>1. DOMAIN live = Mine \cup U
    BY <1>4 DEF Covered
  <2>2. V = U \ {b}
    <3>1. \A a : a \in V <=> \E t \in Size : a \in ToSet(free'[t])
      OBVIOUS
    <3>2. \A a : a \in U <=> \E t \in Size : a \in ToSet(free[t])
      OBVIOUS
    <3> HIDE DEF U, V
    <3>3. \A a : a \in V <=> a \in U /\ a # b
      BY <1>10, <3>1, <3>2
    <3> QED
      BY <3>3
  <2> HIDE DEF U, V
  <2>3. DOMAIN live' = Mine \cup {b} \cup V
    BY <1>2, <1>6, <2>1, <2>2
  <2> QED
    BY <2>3 DEF Covered, V
<1>13. Blocks'
  <2>1. \A a \in Mine : a \in DOMAIN live /\ a \notin InHand'
    BY <1>4, <1>6, <1>8 DEF Covered
  <2> QED
    BY <1>2, <1>8, <1>11, <1>12, <2>1, BlocksKept DEF BufferInv, cacheVars
<1>14. PoolTypes'
  BY <1>2, <1>7, <1>9 DEF BufferInv, PoolTypes
<1>15. Calling'
  BY <1>1, <1>2, <1>6, <1>7 DEF BufferInv, Calling, cacheVars, s
<1>16. CacheTypes' /\ InBlock'
  BY CacheKept DEF BufferInv
<1> QED
  BY <1>13, <1>14, <1>15, <1>16 DEF BufferInv

-----------------------------------------------------------------------------
(***************************************************************************)
(* Bytes in memory: the n bytes of m from offset h on.                     *)
(***************************************************************************)
Bytes(m, h, n) == [i \in 1 .. n |-> m[h + i - 1]]

LEMMA BytesSeq ==
  ASSUME NEW m, NEW h \in Nat, NEW n \in Nat, NEW S, \A i \in 1 .. n : m[h + i - 1] \in S
  PROVE  /\ Bytes(m, h, n) \in Seq(S) /\ Len(Bytes(m, h, n)) = n
         /\ \A i \in 1 .. n : Bytes(m, h, n)[i] = m[h + i - 1]
<1>1. Bytes(m, h, n) \in [1 .. n -> S] /\ DOMAIN Bytes(m, h, n) = 1 .. n
  BY DEF Bytes
<1>2. Bytes(m, h, n) \in Seq(S)
  BY <1>1, SeqDef
<1>3. Len(Bytes(m, h, n)) = n
  BY <1>1, <1>2, LenProperties
<1> QED
  BY <1>2, <1>3 DEF Bytes

(* w holds the bytes s at off.                                              *)
Holds(w, off, s) == \A i \in 1 .. Len(s) : w[off + i - 1] = s[i]

LEMMA WriteAt ==
  ASSUME NEW m, NEW off \in Nat, NEW S, NEW s \in Seq(S)
  PROVE  /\ DOMAIN Write(m, off, s) = DOMAIN m \cup (off .. off + Len(s) - 1)
         /\ Holds(Write(m, off, s), off, s)
         /\ \A i \in DOMAIN m \ (off .. off + Len(s) - 1) : Write(m, off, s)[i] = m[i]
<1> DEFINE n == Len(s)
<1>1. n \in Nat
  BY LenProperties
<1> HIDE DEF n
<1>2. Write(m, off, s) = [i \in DOMAIN m \cup off .. off + n - 1 |->
                            IF i \in off .. off + n - 1 THEN s[i - off + 1] ELSE m[i]]
  BY DEF Write, n
<1>3. \A i \in 1 .. n : off + i - 1 \in off .. off + n - 1 /\ (off + i - 1) - off + 1 = i
  BY <1>1
<1>4. \A i \in 1 .. n : Write(m, off, s)[off + i - 1] = s[i]
  BY <1>2, <1>3
<1>5. \A i \in DOMAIN m \ (off .. off + n - 1) : Write(m, off, s)[i] = m[i]
  BY <1>2
<1>6. DOMAIN Write(m, off, s) = DOMAIN m \cup (off .. off + n - 1)
  BY <1>2
<1> QED
  BY <1>4, <1>5, <1>6 DEF n, Holds

LEMMA WriteInside ==
  ASSUME NEW m, NEW size \in Nat, DOMAIN m = 0 .. size - 1,
         NEW off \in Nat, NEW S, NEW s \in Seq(S), off + Len(s) <= size
  PROVE  DOMAIN Write(m, off, s) = 0 .. size - 1
<1> DEFINE n == Len(s)
<1>1. n \in Nat /\ off + n <= size
  BY LenProperties
<1> HIDE DEF n
<1>2. off .. off + n - 1 \subseteq 0 .. size - 1
  BY <1>1
<1>3. DOMAIN Write(m, off, s) = DOMAIN m \cup (off .. off + n - 1)
  BY WriteAt DEF n
<1> QED
  BY <1>2, <1>3

(* What is written behind n bytes is behind them.                          *)
LEMMA WriteBehind ==
  ASSUME NEW m, NEW h \in Nat, NEW n \in Nat, NEW S, NEW s \in Seq(S),
         h .. h + n - 1 \subseteq DOMAIN m
  PROVE  Bytes(Write(m, h + n, s), h, n + Len(s)) = Bytes(m, h, n) \o s
<1> DEFINE k == Len(s)
           w == Write(m, h + n, s)
           T == S \cup {m[h + i - 1] : i \in 1 .. n}
<1>1. k \in Nat /\ s \in Seq(T) /\ \A i \in 1 .. k : s[i] \in T
  <2>1. s \in Seq(T)
    BY SeqMonotonic
  <2> QED
    BY <2>1, LenProperties, ElementOfSeq
<1>2. /\ \A i \in 1 .. k : w[(h + n) + i - 1] = s[i]
      /\ \A i \in DOMAIN m \ ((h + n) .. (h + n) + k - 1) : w[i] = m[i]
  <2>1. h + n \in Nat
    OBVIOUS
  <2>2. /\ Holds(w, h + n, s)
        /\ \A i \in DOMAIN m \ ((h + n) .. (h + n) + k - 1) : w[i] = m[i]
    BY <2>1, WriteAt
  <2> HIDE DEF T, w
  <2> QED
    BY <2>2 DEF Holds
<1> HIDE DEF k, w
<1>3. \A i \in 1 .. n : w[h + i - 1] = m[h + i - 1] /\ w[h + i - 1] \in T
  <2> SUFFICES ASSUME NEW i \in 1 .. n PROVE w[h + i - 1] = m[h + i - 1]
    OBVIOUS
  <2>1. h + i - 1 \in h .. h + n - 1 /\ h + i - 1 \notin (h + n) .. (h + n) + k - 1
    BY <1>1
  <2> QED
    BY <1>2, <2>1
<1>4. \A i \in n + 1 .. n + k : w[h + i - 1] = s[i - n] /\ w[h + i - 1] \in T
  <2> SUFFICES ASSUME NEW i \in n + 1 .. n + k
               PROVE  w[h + i - 1] = s[i - n] /\ s[i - n] \in T
    OBVIOUS
  <2>1. i - n \in 1 .. k /\ (h + n) + (i - n) - 1 = h + i - 1
    BY <1>1
  <2> QED
    BY <1>1, <1>2, <2>1
<1> HIDE DEF T
<1>5. \A i \in 1 .. n + k : w[h + i - 1] \in T
  <2>1. \A i \in 1 .. n + k : i \in 1 .. n \/ i \in n + 1 .. n + k
    BY <1>1
  <2> QED
    BY <1>3, <1>4, <2>1
<1>6. /\ Bytes(w, h, n + k) \in Seq(T) /\ Len(Bytes(w, h, n + k)) = n + k
      /\ \A i \in 1 .. n + k : Bytes(w, h, n + k)[i] = w[h + i - 1]
  <2>1. n + k \in Nat
    BY <1>1
  <2> QED
    BY <1>5, <2>1, BytesSeq
<1>7. /\ Bytes(m, h, n) \in Seq(T) /\ Len(Bytes(m, h, n)) = n
      /\ \A i \in 1 .. n : Bytes(m, h, n)[i] = m[h + i - 1]
  <2>1. \A i \in 1 .. n : m[h + i - 1] \in T
    BY <1>3
  <2> QED
    BY <2>1, BytesSeq
<1> DEFINE a == Bytes(w, h, n + k)
           b == Bytes(m, h, n)
<1> HIDE DEF a, b
<1>8. /\ b \o s \in Seq(T) /\ Len(b \o s) = n + k
      /\ \A i \in 1 .. n + k : (b \o s)[i] = IF i <= n THEN b[i] ELSE s[i - n]
  BY <1>1, <1>7, ConcatProperties DEF b, k
<1>9. \A i \in 1 .. n + k : a[i] = (b \o s)[i]
  <2> SUFFICES ASSUME NEW i \in 1 .. n + k PROVE a[i] = (b \o s)[i]
    OBVIOUS
  <2>1. a[i] = w[h + i - 1]
    BY <1>6 DEF a
  <2>2. CASE i <= n
    <3>1. i \in 1 .. n
      BY <1>1, <2>2
    <3> QED
      BY <1>3, <1>7, <1>8, <2>1, <2>2, <3>1 DEF b
  <2>3. CASE ~(i <= n)
    <3>1. i \in n + 1 .. n + k
      BY <1>1, <2>3
    <3> QED
      BY <1>4, <1>8, <2>1, <2>3, <3>1
  <2> QED
    BY <2>2, <2>3
<1>10. a = b \o s
  <2>1. a \in Seq(T) /\ Len(a) = n + k
    BY <1>6 DEF a
  <2> QED
    BY <1>8, <1>9, <2>1, SeqEqual
<1> QED
  BY <1>10 DEF a, b, k, w

(* Two writes to empty memory, as append does them to move the bytes.      *)
LEMMA WriteTwo ==
  ASSUME NEW m, NEW S, NEW s \in Seq(S), NEW t \in Seq(S)
  PROVE  Bytes(Write(Write(m, 0, s), Len(s), t), 0, Len(s) + Len(t)) = s \o t
<1>0. PICK z : z = 0
  OBVIOUS
<1> DEFINE n == Len(s)
           w == Write(m, z, s)
<1>1. n \in Nat /\ z \in Nat /\ z + n = n
  BY <1>0, LenProperties
<1>2. DOMAIN w = DOMAIN m \cup (z .. z + n - 1) /\ Holds(w, z, s)
  <2>1. z \in Nat
    BY <1>1
  <2>2. DOMAIN Write(m, z, s) = DOMAIN m \cup (z .. z + Len(s) - 1)
    BY <2>1, WriteAt, Zenon
  <2>3. Holds(Write(m, z, s), z, s)
    BY <2>1, WriteAt, Zenon
  <2> QED
    BY <2>2, <2>3
<1> HIDE DEF w
<1>3. \A i \in 1 .. n : w[z + i - 1] = s[i] /\ s[i] \in S
  <2>1. \A i \in 1 .. n : s[i] \in S
    BY ElementOfSeq
  <2>2. \A i \in 1 .. n : w[z + i - 1] = s[i]
    BY <1>2 DEF Holds
  <2> QED
    BY <2>1, <2>2
<1>4. z .. z + n - 1 \subseteq DOMAIN w
  BY <1>2
<1> HIDE DEF w, n
<1>5. Bytes(w, z, n) = s
  <2>1. \A i \in 1 .. n : w[z + i - 1] \in S
    BY <1>3
  <2>2. /\ Bytes(w, z, n) \in Seq(S) /\ Len(Bytes(w, z, n)) = n
        /\ \A i \in 1 .. n : Bytes(w, z, n)[i] = w[z + i - 1]
    BY <1>1, <2>1, BytesSeq, Zenon
  <2>3. \A i \in 1 .. n : Bytes(w, z, n)[i] = s[i]
    BY <1>3, <2>2
  <2> QED
    BY <2>2, <2>3, SeqEqual DEF n
<1>6. Bytes(Write(w, z + n, t), z, n + Len(t)) = Bytes(w, z, n) \o t
  <2>1. z \in Nat /\ n \in Nat
    BY <1>1
  <2> QED
    BY <1>4, <2>1, WriteBehind, ZenonT(60)
<1>7. Bytes(Write(w, n, t), z, n + Len(t)) = s \o t
  BY <1>1, <1>5, <1>6, Zenon
<1> QED
  BY <1>0, <1>7 DEF w, n

(* skip: the bytes behind the first n stay.                                *)
Blanks(n) == [i \in 1 .. n |-> Blank]

LEMMA WriteBefore ==
  ASSUME NEW m, NEW h \in Nat, NEW l \in Nat, NEW n \in 0 .. l,
         h .. h + l - 1 \subseteq DOMAIN m
  PROVE  Bytes(Write(m, h, Blanks(n)), h + n, l - n)
           = SubSeq(Bytes(m, h, l), n + 1, l)
<1> DEFINE s == Blanks(n)
           w == Write(m, h, s)
           T == {m[h + i - 1] : i \in 1 .. l}
           a == Bytes(w, h + n, l - n)
           b == Bytes(m, h, l)
           c == SubSeq(b, n + 1, l)
<1>1. s \in Seq({Blank}) /\ Len(s) = n
  <2>1. s \in [1 .. n -> {Blank}] /\ DOMAIN s = 1 .. n /\ n \in Nat
    BY DEF Blanks
  <2> HIDE DEF s
  <2>2. s \in Seq({Blank})
    BY <2>1, SeqDef
  <2> QED
    BY <2>1, <2>2, LenProperties
<1> HIDE DEF s
<1>2. \A i \in DOMAIN m \ (h .. h + n - 1) : w[i] = m[i]
  <2>1. \A i \in DOMAIN m \ (h .. h + Len(s) - 1) : Write(m, h, s)[i] = m[i]
    BY <1>1, WriteAt, ZenonT(60)
  <2> QED
    BY <1>1, <2>1
<1> HIDE DEF w
<1>3. \A i \in 1 .. l - n :
        /\ w[(h + n) + i - 1] = m[h + (n + i) - 1]
        /\ w[(h + n) + i - 1] \in T /\ n + i \in 1 .. l
  <2> SUFFICES ASSUME NEW i \in 1 .. l - n
               PROVE  /\ w[(h + n) + i - 1] = m[h + (n + i) - 1]
                      /\ m[h + (n + i) - 1] \in T /\ n + i \in 1 .. l
    OBVIOUS
  <2>1. /\ n + i \in 1 .. l /\ (h + n) + i - 1 = h + (n + i) - 1
        /\ (h + n) + i - 1 \in h .. h + l - 1 /\ (h + n) + i - 1 \notin h .. h + n - 1
    OBVIOUS
  <2> QED
    BY <1>2, <2>1
<1>4. \A i \in 1 .. l : m[h + i - 1] \in T
  OBVIOUS
<1> HIDE DEF T
<1>5. a \in Seq(T) /\ Len(a) = l - n /\ \A i \in 1 .. l - n : a[i] = w[(h + n) + i - 1]
  <2>1. h + n \in Nat /\ l - n \in Nat
    OBVIOUS
  <2> QED
    BY <1>3, <2>1, BytesSeq
<1>6. b \in Seq(T) /\ Len(b) = l /\ \A i \in 1 .. l : b[i] = m[h + i - 1]
  BY <1>4, BytesSeq
<1> HIDE DEF a, b
<1>7. /\ c \in Seq(T) /\ Len(c) = IF n + 1 <= l THEN l - (n + 1) + 1 ELSE 0
      /\ \A i \in 1 .. l - (n + 1) + 1 : c[i] = b[(n + 1) + i - 1]
  <2>1. n + 1 \in Int /\ l \in Int /\ \A i \in n + 1 .. l : b[i] \in T
    BY <1>4, <1>6
  <2> QED
    BY <2>1, SubSeqProperties
<1> HIDE DEF c
<1>8. Len(c) = l - n /\ \A i \in 1 .. l - n : c[i] = b[n + i]
  <2>1. /\ l - (n + 1) + 1 = l - n /\ (~(n + 1 <= l) => l - n = 0)
        /\ \A i \in 1 .. l - n : (n + 1) + i - 1 = n + i
    OBVIOUS
  <2> QED
    BY <1>7, <2>1
<1>9. \A i \in 1 .. l - n : a[i] = c[i]
  BY <1>3, <1>5, <1>6, <1>8
<1>10. a = c
  BY <1>5, <1>7, <1>8, <1>9, SeqEqual
<1> QED
  BY <1>10 DEF a, b, c, w, s

-----------------------------------------------------------------------------
(***************************************************************************)
(* The steps of a cache.                                                   *)
(***************************************************************************)
InOne(m, size, h, l, b) ==
  /\ DOMAIN b = 0 .. size - 1 \/ m = NULL
  /\ h + l <= size
  /\ m = NULL <=> size = 0
  /\ l > 0 => h < size

LEMMA InBlockEach ==
  InBlock <=> \A c \in Cache : InOne(mem[c], block_size[c], head[c], len[c], buf[c])
BY DEF InBlock, InOne

Contents == [c \in Cache |-> Content(c)]

LEMMA ContentBytes ==
  \A c \in Cache : Contents[c] = Bytes(buf[c], head[c], len[c])
BY DEF Contents, Content, Bytes

(* A step that changes what c holds to v, and no other cache.              *)
Becomes(c, v) == Contents' = [Contents EXCEPT ![c] = v]

LEMMA BecomesFrom ==
  ASSUME NEW c \in Cache, NEW v,
         \A e \in Cache \ {c} : buf'[e] = buf[e] /\ head'[e] = head[e] /\ len'[e] = len[e],
         Bytes(buf'[c], head'[c], len'[c]) = v
  PROVE  Becomes(c, v)
<1>1. \A e \in Cache : Contents'[e] = IF e = c THEN v ELSE Contents[e]
  BY DEF Contents, Content, Bytes
<1>2. Contents' = [e \in Cache |-> Contents'[e]]
  BY DEF Contents
<1>3. DOMAIN Contents = Cache
  BY DEF Contents
<1> HIDE DEF Contents
<1> QED
  BY <1>1, <1>2, <1>3 DEF Becomes

LEMMA HasRoom ==
  ASSUME CacheTypes, InBlock, NEW c \in Cache, mem[c] # NULL
  PROVE  /\ block_size[c] \in Nat /\ head[c] \in Nat /\ len[c] \in Nat
         /\ DOMAIN buf[c] = 0 .. block_size[c] - 1 /\ head[c] + len[c] <= block_size[c]
         /\ block_size[c] # 0
         /\ head[c] .. head[c] + len[c] - 1 \subseteq DOMAIN buf[c]
<1>1. /\ block_size[c] \in Nat /\ head[c] \in Nat /\ len[c] \in Nat
      /\ DOMAIN buf[c] = 0 .. block_size[c] - 1 /\ head[c] + len[c] <= block_size[c]
      /\ block_size[c] # 0
  BY Sizes DEF CacheTypes, InBlock
<1> DEFINE s == block_size[c]
           h == head[c]
           l == len[c]
<1>2. s \in Nat /\ h \in Nat /\ l \in Nat /\ h + l <= s
  BY <1>1
<1> HIDE DEF s, h, l
<1>3. h .. h + l - 1 \subseteq 0 .. s - 1
  BY <1>2
<1> QED
  BY <1>1, <1>3 DEF s, h, l

LEMMA PoolKept ==
  ASSUME PoolTypes, Blocks, op.pc = "idle", UNCHANGED <<poolVars, mem, block_size, call>>
  PROVE  PoolTypes' /\ Blocks' /\ Calling'
<1>1. UNCHANGED <<free, stub, total, live, op, mem, block_size, call>>
  BY DEF poolVars
<1>2. PoolTypes' /\ InHand' = InHand /\ Mine' = Mine /\ Used' = Used
  BY <1>1 DEF PoolTypes, InHand, Mine, Used
<1>3. Blocks'
  BY <1>1, <1>2 DEF Blocks
<1>4. Calling'
  BY <1>1 DEF Calling
<1> QED
  BY <1>2, <1>3, <1>4

Changed(f, g, c, v) == g = [f EXCEPT ![c] = v]

LEMMA CacheBecomes ==
  ASSUME CacheTypes, InBlock, NEW c \in Cache,
         NEW a \in Addr \cup {NULL}, NEW z \in Size \cup {0}, NEW b, NEW h \in Nat, NEW l \in Nat,
         Changed(mem, mem', c, a), Changed(block_size, block_size', c, z),
         Changed(buf, buf', c, b), Changed(head, head', c, h), Changed(len, len', c, l),
         InOne(a, z, h, l, b)
  PROVE  /\ CacheTypes' /\ InBlock'
         /\ Becomes(c, Bytes(b, h, l))
<1>1. /\ mem'[c] = a /\ block_size'[c] = z /\ buf'[c] = b /\ head'[c] = h /\ len'[c] = l
      /\ \A e \in Cache \ {c} :
           /\ mem'[e] = mem[e] /\ block_size'[e] = block_size[e]
           /\ buf'[e] = buf[e] /\ head'[e] = head[e] /\ len'[e] = len[e]
  BY DEF CacheTypes, Changed
<1>2. CacheTypes'
  BY DEF CacheTypes, Changed
<1>3. \A e \in Cache : InOne(mem'[e], block_size'[e], head'[e], len'[e], buf'[e])
  <2> SUFFICES ASSUME NEW e \in Cache
               PROVE  InOne(mem'[e], block_size'[e], head'[e], len'[e], buf'[e])
    OBVIOUS
  <2>1. CASE e = c
    BY <1>1, <2>1
  <2>2. CASE e # c
    BY <1>1, <2>2, InBlockEach
  <2> QED
    BY <2>1, <2>2
<1>4. InBlock'
  BY <1>3 DEF InBlock, InOne
<1>5. Becomes(c, Bytes(b, h, l))
  BY <1>1, BecomesFrom
<1> QED
  BY <1>2, <1>4, <1>5

LEMMA CacheChange ==
  ASSUME CacheTypes, InBlock, NEW c \in Cache, NEW b, NEW h \in Nat, NEW l \in Nat,
         UNCHANGED <<mem, block_size>>,
         Changed(buf, buf', c, b), Changed(head, head', c, h), Changed(len, len', c, l),
         InOne(mem[c], block_size[c], h, l, b)
  PROVE  /\ CacheTypes' /\ InBlock'
         /\ Becomes(c, Bytes(b, h, l))
<1> DEFINE a == mem[c]
           z == block_size[c]
<1>1. a \in Addr \cup {NULL} /\ z \in Size \cup {0}
  BY DEF CacheTypes
<1>2. Changed(mem, mem', c, a) /\ Changed(block_size, block_size', c, z)
  BY DEF CacheTypes, Changed
<1>3. InOne(a, z, h, l, b)
  OBVIOUS
<1> HIDE DEF a, z
<1>4. CacheTypes'
  BY <1>1, <1>2, <1>3, CacheBecomes
<1>5. InBlock'
  BY <1>1, <1>2, <1>3, CacheBecomes
<1>6. Becomes(c, Bytes(b, h, l))
  BY <1>1, <1>2, <1>3, CacheBecomes
<1> QED
  BY <1>4, <1>5, <1>6

LEMMA AppendBehindInv ==
  ASSUME BufferInv, NEW c \in Cache, NEW d \in Data, AppendBehind(c, d)
  PROVE  BufferInv' /\ Becomes(c, Contents[c] \o d)
<1> DEFINE h == head[c]
           l == len[c]
           k == Len(d)
           b == Write(buf[c], h + l, d)
<1>1. /\ mem[c] # NULL /\ k + h + l <= block_size[c] /\ op.pc = "idle"
      /\ UNCHANGED <<poolVars, mem, block_size, head, call>>
      /\ buf' = [buf EXCEPT ![c] = b] /\ len' = [len EXCEPT ![c] = l + k]
  BY DEF AppendBehind, FitsBehind
<1>2. /\ block_size[c] \in Nat /\ h \in Nat /\ l \in Nat
      /\ DOMAIN buf[c] = 0 .. block_size[c] - 1
      /\ block_size[c] # 0 /\ h .. h + l - 1 \subseteq DOMAIN buf[c]
  BY <1>1, HasRoom DEF BufferInv
<1>3. d \in Seq(ToSet(d)) /\ k \in Nat
  BY DataLen
<1> DEFINE size == block_size[c]
<1>4. (h + l) + k <= size /\ h + l \in Nat /\ l + k \in Nat
  BY <1>1, <1>2, <1>3
<1>5. DOMAIN b = 0 .. size - 1
  <2>1. (h + l) + Len(d) <= size
    BY <1>4
  <2>2. /\ DOMAIN buf[c] = 0 .. size - 1 /\ size \in Nat /\ d \in Seq(ToSet(d))
        /\ h + l \in Nat
    BY <1>2, <1>3, <1>4
  <2> DEFINE off == h + l
  <2> HIDE DEF h, l, k, size, off
  <2>3. DOMAIN Write(buf[c], off, d) = 0 .. size - 1
    BY <2>1, <2>2, WriteInside DEF off
  <2> QED
    BY <2>3 DEF off
<1>6. InOne(mem[c], size, h, l + k, b)
  <2>1. h + (l + k) <= size /\ (l + k > 0 => h < size)
    BY <1>2, <1>3, <1>4
  <2> HIDE DEF h, l, k, b, size
  <2> QED
    BY <1>1, <1>2, <1>5, <2>1 DEF InOne, size
<1>7. Bytes(b, h, l + k) = Contents[c] \o d
  <2>1. Bytes(b, h, l + k) = Bytes(buf[c], h, l) \o d
    <3> HIDE DEF h, l
    <3> QED
      BY <1>2, <1>3, WriteBehind
  <2>2. Contents[c] = Bytes(buf[c], h, l)
    BY ContentBytes
  <2> QED
    BY <2>1, <2>2
<1> HIDE DEF b, k, h, l
<1>8. CacheTypes' /\ InBlock' /\ Becomes(c, Bytes(b, h, l + k))
  <2> DEFINE ll == l + k
  <2>1. CacheTypes /\ InBlock /\ UNCHANGED <<mem, block_size>>
    BY <1>1 DEF BufferInv
  <2>2. Changed(buf, buf', c, b) /\ Changed(head, head', c, h) /\ Changed(len, len', c, ll)
    BY <1>1, <2>1 DEF Changed, h, CacheTypes
  <2>3. InOne(mem[c], block_size[c], h, ll, b) /\ h \in Nat /\ ll \in Nat
    BY <1>2, <1>4, <1>6
  <2> HIDE DEF ll
  <2>4. CacheTypes' /\ InBlock' /\ Becomes(c, Bytes(b, h, ll))
    BY <2>1, <2>2, <2>3, CacheChange
  <2> QED
    BY <2>4 DEF ll
<1>9. PoolTypes' /\ Blocks' /\ Calling'
  BY <1>1, PoolKept DEF BufferInv
<1> QED
  BY <1>7, <1>8, <1>9 DEF BufferInv

(* The bytes s and then d at the head of a block.                          *)
Moved(size, s, d) == Write(Write(Memory(size), 0, s), Len(s), d)

LEMMA MovedBytes ==
  ASSUME NEW size \in Nat, size # 0, NEW S, NEW s \in Seq(S), NEW d \in Data,
         Len(s) + Len(d) <= size, NEW m, m # NULL
  PROVE  /\ InOne(m, size, 0, Len(s) + Len(d), Moved(size, s, d))
         /\ Bytes(Moved(size, s, d), 0, Len(s) + Len(d)) = s \o d
         /\ Len(s) + Len(d) \in Nat
<1> DEFINE n == Len(s)
           k == Len(d)
           z == Write(Memory(size), 0, s)
           b == Write(z, n, d)
           T == S \cup ToSet(d)
<1>1. n \in Nat /\ k \in Nat /\ d \in Seq(ToSet(d))
  BY DataLen, LenProperties
<1>2. s \in Seq(T) /\ d \in Seq(T)
  BY <1>1, SeqMonotonic
<1>3. DOMAIN Memory(size) = 0 .. size - 1
  BY DEF Memory
<1>4. DOMAIN z = 0 .. size - 1
  <2>1. 0 + Len(s) <= size
    BY <1>1
  <2> QED
    BY <1>3, <2>1, WriteInside
<1> HIDE DEF z
<1>5. DOMAIN b = 0 .. size - 1
  BY <1>1, <1>4, WriteInside
<1> HIDE DEF b, T
<1>6. InOne(m, size, 0, n + k, b)
  <2>1. 0 + (n + k) <= size /\ 0 < size
    BY <1>1
  <2> HIDE DEF n, k
  <2> QED
    BY <1>5, <2>1 DEF InOne
<1>7. Bytes(b, 0, n + k) = s \o d
  BY <1>2, WriteTwo DEF b, z
<1> QED
  BY <1>1, <1>6, <1>7 DEF b, z, Moved

LEMMA ContentSeq ==
  ASSUME CacheTypes, NEW c \in Cache
  PROVE  \E S : /\ Content(c) \in Seq(S) /\ Len(Content(c)) = len[c]
                /\ Contents[c] = Content(c)
<1> DEFINE S == {buf[c][head[c] + i - 1] : i \in 1 .. len[c]}
<1>1. Bytes(buf[c], head[c], len[c]) \in Seq(S) /\ Len(Bytes(buf[c], head[c], len[c])) = len[c]
  <2>1. head[c] \in Nat /\ len[c] \in Nat /\ \A i \in 1 .. len[c] : buf[c][head[c] + i - 1] \in S
    BY DEF CacheTypes
  <2> HIDE DEF S
  <2> QED
    BY <2>1, BytesSeq
<1>2. Content(c) = Bytes(buf[c], head[c], len[c])
  BY DEF Content, Bytes
<1>3. Contents[c] = Content(c)
  BY DEF Contents
<1> QED
  BY <1>1, <1>2, <1>3

LEMMA AppendMoveInv ==
  ASSUME BufferInv, NEW c \in Cache, NEW d \in Data, AppendMove(c, d)
  PROVE  BufferInv' /\ Becomes(c, Contents[c] \o d)
<1> DEFINE b == Write(Write(Memory(block_size[c]), 0, Content(c)), len[c], d)
           l == len[c] + Len(d)
<1>1. /\ mem[c] # NULL /\ Len(d) + len[c] <= block_size[c] /\ op.pc = "idle"
      /\ UNCHANGED <<poolVars, mem, block_size, call>>
      /\ buf' = [buf EXCEPT ![c] = b] /\ head' = [head EXCEPT ![c] = 0]
      /\ len' = [len EXCEPT ![c] = l]
  BY DEF AppendMove, FitsBlock
<1>2. block_size[c] \in Nat /\ len[c] \in Nat /\ block_size[c] # 0
  BY <1>1, HasRoom DEF BufferInv
<1>3. PICK S : Content(c) \in Seq(S) /\ Len(Content(c)) = len[c] /\ Contents[c] = Content(c)
  BY ContentSeq DEF BufferInv
<1>4. InOne(mem[c], block_size[c], 0, l, b) /\ Bytes(b, 0, l) = Contents[c] \o d /\ l \in Nat
  <2>1. Len(Content(c)) + Len(d) <= block_size[c]
    BY <1>1, <1>2, <1>3, DataLen
  <2> DEFINE t == Content(c)
             size == block_size[c]
             m == mem[c]
  <2>a. size \in Nat /\ size # 0 /\ t \in Seq(S) /\ Len(t) + Len(d) <= size /\ m # NULL
    BY <1>1, <1>2, <1>3, <2>1
  <2> HIDE DEF t, size, m
  <2>b. /\ InOne(m, size, 0, Len(t) + Len(d), Moved(size, t, d))
        /\ Bytes(Moved(size, t, d), 0, Len(t) + Len(d)) = t \o d
        /\ Len(t) + Len(d) \in Nat
    <3>1. InOne(m, size, 0, Len(t) + Len(d), Moved(size, t, d))
      BY <2>a, MovedBytes
    <3>2. Bytes(Moved(size, t, d), 0, Len(t) + Len(d)) = t \o d
      BY <2>a, MovedBytes
    <3>3. Len(t) + Len(d) \in Nat
      BY <2>a, MovedBytes
    <3> QED
      BY <3>1, <3>2, <3>3
  <2>c. Moved(size, t, d) = b
    BY <1>3 DEF t, size, Moved
  <2> QED
    BY <1>3, <2>b, <2>c DEF t, size, m
<1> HIDE DEF b, l
<1>5. CacheTypes' /\ InBlock' /\ Becomes(c, Bytes(b, 0, l))
  <2>1. CacheTypes /\ InBlock /\ UNCHANGED <<mem, block_size>>
    BY <1>1 DEF BufferInv
  <2>2. Changed(buf, buf', c, b) /\ Changed(head, head', c, 0) /\ Changed(len, len', c, l)
    BY <1>1 DEF Changed
  <2>3. 0 \in Nat
    OBVIOUS
  <2> QED
    BY <1>4, <2>1, <2>2, <2>3, CacheChange
<1>6. PoolTypes' /\ Blocks' /\ Calling'
  BY <1>1, PoolKept DEF BufferInv
<1> QED
  BY <1>4, <1>5, <1>6 DEF BufferInv

LEMMA SkipSomeInv ==
  ASSUME BufferInv, NEW c \in Cache, NEW n \in 0 .. MaxLen, SkipSome(c, n)
  PROVE  /\ BufferInv' /\ n \in 0 .. Len(Contents[c])
         /\ Becomes(c, SubSeq(Contents[c], n + 1, Len(Contents[c])))
<1> DEFINE h == head[c]
           l == len[c]
           s == Blanks(n)
           b == Write(buf[c], h, s)
           size == block_size[c]
<1>1. /\ mem[c] # NULL /\ n < l /\ op.pc = "idle" /\ n \in Nat
      /\ UNCHANGED <<poolVars, mem, block_size, call>>
      /\ buf' = [buf EXCEPT ![c] = b] /\ head' = [head EXCEPT ![c] = h + n]
      /\ len' = [len EXCEPT ![c] = l - n]
  BY RawCacheAssumption DEF SkipSome, Blanks
<1>2. /\ size \in Nat /\ h \in Nat /\ l \in Nat
      /\ DOMAIN buf[c] = 0 .. size - 1 /\ h + l <= size
      /\ size # 0 /\ h .. h + l - 1 \subseteq DOMAIN buf[c]
  BY <1>1, HasRoom DEF BufferInv
<1>3. s \in Seq({Blank}) /\ Len(s) = n
  <2>1. s \in [1 .. n -> {Blank}] /\ DOMAIN s = 1 .. n
    BY DEF Blanks
  <2> HIDE DEF s
  <2>2. s \in Seq({Blank})
    BY <1>1, <2>1, SeqDef
  <2> QED
    BY <1>1, <2>1, <2>2, LenProperties
<1>4. DOMAIN b = 0 .. size - 1
  <2>1. h + Len(s) <= size
    BY <1>1, <1>2, <1>3
  <2>2. size \in Nat /\ DOMAIN buf[c] = 0 .. size - 1 /\ h \in Nat /\ s \in Seq({Blank})
    BY <1>2, <1>3
  <2> HIDE DEF h, l, s, size
  <2> QED
    BY <2>1, <2>2, WriteInside
<1>5. Len(Contents[c]) = l /\ Contents[c] = Bytes(buf[c], h, l)
  BY ContentSeq, ContentBytes DEF BufferInv
<1> HIDE DEF h, l
<1>6. Bytes(b, h + n, l - n) = SubSeq(Contents[c], n + 1, l)
  <2>1. n \in 0 .. l
    BY <1>1, <1>2
  <2>2. Bytes(b, h + n, l - n) = SubSeq(Bytes(buf[c], h, l), n + 1, l)
    BY <1>2, <2>1, WriteBefore
  <2> QED
    BY <1>5, <2>2
<1> HIDE DEF s, b
<1>7. h + n \in Nat /\ l - n \in Nat /\ n \in 0 .. l
  BY <1>1, <1>2
<1>8. InOne(mem[c], size, h + n, l - n, b)
  <2>1. (h + n) + (l - n) <= size /\ h + n < size
    BY <1>1, <1>2
  <2> HIDE DEF size
  <2> QED
    BY <1>1, <1>2, <1>4, <2>1 DEF InOne
<1>9. CacheTypes' /\ InBlock' /\ Becomes(c, Bytes(b, h + n, l - n))
  <2> DEFINE hh == h + n
             ll == l - n
  <2>1. CacheTypes /\ InBlock /\ hh \in Nat /\ ll \in Nat
    BY <1>7 DEF BufferInv
  <2>2. InOne(mem[c], block_size[c], hh, ll, b)
    BY <1>8
  <2>3. /\ Changed(buf, buf', c, b) /\ Changed(head, head', c, hh) /\ Changed(len, len', c, ll)
        /\ UNCHANGED <<mem, block_size>>
    BY <1>1 DEF Changed
  <2> HIDE DEF hh, ll
  <2>4. CacheTypes' /\ InBlock' /\ Becomes(c, Bytes(b, hh, ll))
    BY <2>1, <2>2, <2>3, CacheChange
  <2> QED
    BY <2>4 DEF hh, ll
<1>10. PoolTypes' /\ Blocks' /\ Calling'
  BY <1>1, PoolKept DEF BufferInv
<1> QED
  BY <1>5, <1>6, <1>7, <1>9, <1>10 DEF BufferInv

(* c's block is returned, and c has a: none, or the one of allocate.       *)
LEMMA BlocksTaken ==
  ASSUME Blocks, CacheTypes, NEW c \in Cache, NEW a, NEW z, stub' = stub,
         Changed(mem, mem', c, a), Changed(block_size, block_size', c, z),
         InHand = {a} \ {NULL}, InHand' = {},
         a # NULL => a \in DOMAIN live /\ live[a] = z /\ a \in stub[z] /\ z \in Size,
         Listed(free', live', stub, Used \ {mem[c]}),
         Covered(free', live', Used \ {mem[c]}),
         \A x \in Used \ {mem[c]} : x \in DOMAIN live' /\ live'[x] = live[x]
  PROVE  Blocks'
<1>1. /\ mem'[c] = a /\ block_size'[c] = z
      /\ \A e \in Cache \ {c} : mem'[e] = mem[e] /\ block_size'[e] = block_size[e]
  BY DEF CacheTypes, Changed
<1>2. \A e \in Cache : mem[e] # NULL => mem[e] \in Mine /\ mem[e] \notin InHand
  BY DEF Blocks, Mine
<1>3. \A e, g \in Cache : mem[e] # NULL /\ mem[e] = mem[g] => e = g
  BY DEF Blocks
<1>4. Mine' = Used \ {mem[c]}
  <2>1. ASSUME NEW x \in Mine' PROVE x \in Used \ {mem[c]}
    <3>1. PICK e \in Cache : mem'[e] # NULL /\ x = mem'[e]
      BY <2>1 DEF Mine
    <3>2. CASE e = c
      <4>1. x = a /\ a # NULL /\ a \in InHand
        BY <1>1, <3>1, <3>2
      <4> QED
        BY <1>2, <4>1 DEF Used
    <3>3. CASE e # c
      BY <1>1, <1>2, <1>3, <3>1, <3>3 DEF Used
    <3> QED
      BY <3>2, <3>3
  <2>2. ASSUME NEW x \in Used, x # mem[c] PROVE x \in Mine'
    <3>1. CASE x \in InHand
      <4>1. x = a /\ mem'[c] = x /\ mem'[c] # NULL
        BY <1>1, <3>1
      <4> QED
        BY <4>1 DEF Mine
    <3>2. CASE x \in Mine
      <4>1. PICK e \in Cache : mem[e] # NULL /\ x = mem[e]
        BY <3>2 DEF Mine
      <4>2. mem'[e] = x /\ mem'[e] # NULL
        BY <1>1, <2>2, <4>1
      <4> QED
        BY <4>2 DEF Mine
    <3> QED
      BY <2>2, <3>1, <3>2 DEF Used
  <2> QED
    BY <2>1, <2>2
<1>5. Used' = Used \ {mem[c]}
  BY <1>4 DEF Used
<1>6. ASSUME NEW e \in Cache, mem'[e] # NULL
      PROVE  /\ block_size'[e] \in Size
             /\ mem'[e] \in DOMAIN live' /\ live'[mem'[e]] = block_size'[e]
             /\ mem'[e] \in stub'[block_size'[e]]
             /\ mem'[e] \notin InHand'
  <2>1. mem'[e] \in Used \ {mem[c]}
    BY <1>4, <1>6 DEF Mine
  <2>2. mem'[e] \in DOMAIN live' /\ live'[mem'[e]] = live[mem'[e]]
    BY <2>1
  <2>3. CASE e = c
    BY <1>1, <1>6, <2>2, <2>3
  <2>4. CASE e # c
    <3>1. mem'[e] = mem[e] /\ block_size'[e] = block_size[e]
      BY <1>1, <2>4
    <3> QED
      BY <1>6, <2>2, <3>1 DEF Blocks
  <2> QED
    BY <2>3, <2>4
<1>7. ASSUME NEW e \in Cache, NEW g \in Cache, mem'[e] # NULL, mem'[e] = mem'[g]
      PROVE  e = g
  <2>1. CASE e # c /\ g # c
    BY <1>1, <1>3, <1>7, <2>1
  <2>2. CASE e = c \/ g = c
    <3>1. \A f \in Cache \ {c} : mem[f] # NULL => mem[f] # a
      BY <1>2
    <3> QED
      BY <1>1, <1>7, <2>2, <3>1
  <2> QED
    BY <2>1, <2>2
<1>8. Listed(free', live', stub', Used') /\ Covered(free', live', Used')
  BY <1>5
<1> QED
  BY <1>6, <1>7, <1>8 DEF Blocks

LEMMA Idle ==
  /\ NoOp \in [pc : {"idle", "purge", "extend", "pop", "got", "null"},
               size : Size \cup {0}, purge : Nat, mem : Addr \cup {NULL}]
  /\ NoOp.pc = "idle"
BY DEF NoOp, NULL

LEMMA SkipAllInv ==
  ASSUME BufferInv, NEW c \in Cache, SkipAll(c)
  PROVE  BufferInv' /\ Becomes(c, <<>>)
<1>1. /\ op.pc = "idle" /\ mem[c] # NULL /\ recycle(mem[c], block_size[c])
      /\ UNCHANGED <<stub, op, call>>
      /\ Changed(mem, mem', c, NULL) /\ Changed(block_size, block_size', c, 0)
      /\ Changed(head, head', c, 0) /\ Changed(len, len', c, 0) /\ Changed(buf, buf', c, <<>>)
  BY DEF SkipAll, Changed
<1>2. InHand = {} /\ InHand' = {}
  BY <1>1 DEF InHand
<1>3. mem[c] \in Addr \cup {NULL} /\ PoolTypes /\ CacheTypes /\ Blocks /\ InBlock
  BY DEF BufferInv, CacheTypes
<1>4. /\ free' \in [Size -> Seq(Addr)] /\ total' \in Int /\ total' <= total
      /\ Listed(free', live', stub, Used \ {mem[c]})
      /\ Covered(free', live', Used \ {mem[c]})
      /\ \A a \in Used \ {mem[c]} : a \in DOMAIN live' /\ live'[a] = live[a]
  BY <1>1, <1>3, Recycled
<1>5. Blocks'
  <2>1. InHand = {NULL} \ {NULL} /\ stub' = stub
    BY <1>1, <1>2
  <2> QED
    BY <1>1, <1>2, <1>3, <1>4, <2>1, BlocksTaken
<1>6. PoolTypes'
  <2>1. total' <= C_MAX_POOL_SIZE
    BY <1>3, <1>4, MemPoolAssumption DEF PoolTypes
  <2> QED
    BY <1>1, <1>3, <1>4, <2>1 DEF PoolTypes
<1>7. CacheTypes' /\ InBlock' /\ Becomes(c, Bytes(<<>>, 0, 0))
  <2>1. /\ NULL \in Addr \cup {NULL} /\ 0 \in Size \cup {0} /\ 0 \in Nat
        /\ InOne(NULL, 0, 0, 0, <<>>)
    BY DEF InOne
  <2>2. CacheTypes'
    BY <1>1, <1>3, <2>1, CacheBecomes
  <2>3. InBlock'
    BY <1>1, <1>3, <2>1, CacheBecomes
  <2>4. Becomes(c, Bytes(<<>>, 0, 0))
    BY <1>1, <1>3, <2>1, CacheBecomes
  <2> QED
    BY <2>2, <2>3, <2>4
<1>8. Bytes(<<>>, 0, 0) = <<>>
  BY DEF Bytes
<1>9. Calling'
  BY <1>1 DEF Calling
<1> QED
  BY <1>5, <1>6, <1>7, <1>8, <1>9 DEF BufferInv

LEMMA AppendTakeInv ==
  ASSUME BufferInv, AppendTake
  PROVE  /\ BufferInv' /\ call.who \in Cache /\ call.data \in Data
         /\ Becomes(call.who, Contents[call.who] \o call.data)
<1> DEFINE c == call.who
           d == call.data
           a == op.mem
           z == op.size
           t == Content(c)
           b == Write(Write(Memory(z), 0, t), len[c], d)
           l == len[c] + Len(d)
<1>1. /\ op.pc = "got" /\ op' = NoOp /\ stub' = stub
      /\ IF mem[c] = NULL THEN UNCHANGED <<free, total, live>>
                          ELSE recycle(mem[c], block_size[c])
      /\ Changed(mem, mem', c, a) /\ Changed(block_size, block_size', c, z)
      /\ Changed(head, head', c, 0) /\ Changed(len, len', c, l) /\ Changed(buf, buf', c, b)
  BY DEF AppendTake, Changed
<1>2. PoolTypes /\ CacheTypes /\ Blocks /\ InBlock
  BY DEF BufferInv
<1>3. /\ c \in Cache /\ d \in Data /\ z \in Size /\ Len(d) + len[c] < z
      /\ a \in DOMAIN live /\ live[a] = z /\ a \in stub[z]
  BY <1>1 DEF BufferInv, Calling
<1>4. InHand = {a} /\ InHand' = {} /\ a \in Addr /\ a # NULL
  <2>1. stub[z] \subseteq Addr
    BY <1>2, <1>3 DEF PoolTypes
  <2> QED
    BY <1>1, <1>3, <2>1, Idle, Sizes DEF InHand
<1> HIDE DEF c, d, a, z
<1>5. mem[c] \in Addr \cup {NULL} /\ len[c] \in Nat
  BY <1>2, <1>3 DEF CacheTypes
<1>6. /\ free' \in [Size -> Seq(Addr)] /\ total' \in Int /\ total' <= total
      /\ Listed(free', live', stub, Used \ {mem[c]})
      /\ Covered(free', live', Used \ {mem[c]})
      /\ \A x \in Used \ {mem[c]} : x \in DOMAIN live' /\ live'[x] = live[x]
  <2>1. CASE mem[c] # NULL
    <3>1. recycle(mem[c], block_size[c])
      BY <1>1, <2>1
    <3> QED
      BY <1>2, <1>3, <1>5, <2>1, <3>1, Recycled
  <2>2. CASE mem[c] = NULL
    <3>1. free' = free /\ total' = total /\ live' = live
      BY <1>1, <2>2
    <3>2. NULL \notin Used
      BY <1>4 DEF Used, Mine
    <3>3. Used \ {mem[c]} = Used
      BY <2>2, <3>2
    <3>4. total \in Int /\ total <= total /\ free \in [Size -> Seq(Addr)]
      BY <1>2 DEF PoolTypes
    <3>5. Listed(free, live, stub, Used) /\ Covered(free, live, Used)
      BY <1>2 DEF Blocks
    <3>6. \A x \in Used : x \in DOMAIN live
      BY <3>5 DEF Covered
    <3> QED
      BY <3>1, <3>3, <3>4, <3>5, <3>6
  <2> QED
    BY <2>1, <2>2
<1>7. Blocks'
  <2>1. InHand = {a} \ {NULL}
    BY <1>4
  <2> QED
    BY <1>1, <1>2, <1>3, <1>4, <1>6, <2>1, BlocksTaken
<1>8. PoolTypes'
  <2>1. total' <= C_MAX_POOL_SIZE
    BY SMTT(30), <1>2, <1>6, MemPoolAssumption DEF PoolTypes
  <2> QED
    BY <1>1, <1>2, <1>6, <2>1, Idle DEF PoolTypes
<1>9. PICK S : t \in Seq(S) /\ Len(t) = len[c] /\ Contents[c] = t
  BY <1>2, <1>3, ContentSeq
<1> HIDE DEF t
<1>10. InOne(a, z, 0, l, b) /\ Bytes(b, 0, l) = t \o d /\ l \in Nat
  <2>1. z \in Nat /\ z # 0 /\ Len(t) + Len(d) <= z
    BY <1>3, <1>5, <1>9, Sizes, DataLen
  <2>2. InOne(a, z, 0, Len(t) + Len(d), Moved(z, t, d))
    BY <1>3, <1>4, <1>9, <2>1, MovedBytes
  <2>3. Bytes(Moved(z, t, d), 0, Len(t) + Len(d)) = t \o d
    BY <1>3, <1>4, <1>9, <2>1, MovedBytes
  <2>4. Len(t) + Len(d) \in Nat
    BY <1>3, <1>4, <1>9, <2>1, MovedBytes
  <2>5. Moved(z, t, d) = b
    BY <1>9 DEF Moved
  <2> QED
    BY <1>9, <2>2, <2>3, <2>4, <2>5
<1> HIDE DEF b, l
<1>11. CacheTypes' /\ InBlock' /\ Becomes(c, Bytes(b, 0, l))
  <2>1. a \in Addr \cup {NULL} /\ z \in Size \cup {0} /\ 0 \in Nat
    BY <1>3, <1>4
  <2>2. CacheTypes'
    BY <1>1, <1>2, <1>3, <1>10, <2>1, CacheBecomes
  <2>3. InBlock'
    BY <1>1, <1>2, <1>3, <1>10, <2>1, CacheBecomes
  <2>4. Becomes(c, Bytes(b, 0, l))
    BY <1>1, <1>2, <1>3, <1>10, <2>1, CacheBecomes
  <2> QED
    BY <2>2, <2>3, <2>4
<1>12. Calling'
  BY <1>1, Idle DEF Calling
<1> QED
  BY <1>3, <1>7, <1>8, <1>9, <1>10, <1>11, <1>12 DEF BufferInv, c, d

LEMMA AppendThrowInv ==
  ASSUME BufferInv, AppendThrow
  PROVE  BufferInv'
<1>1. /\ op.pc = "null" /\ op' = NoOp /\ UNCHANGED <<free, stub, total, live, cacheVars>>
  BY DEF AppendThrow
<1>2. PoolTypes' /\ CacheTypes' /\ Blocks' /\ InBlock'
  BY <1>1, Idle, OpOnly DEF BufferInv
<1>3. Calling'
  BY <1>1, Idle DEF Calling
<1> QED
  BY <1>2, <1>3 DEF BufferInv

-----------------------------------------------------------------------------
(***************************************************************************)
(* The theorems.                                                           *)
(***************************************************************************)

(* A step for the caches: nothing, or one of the abstract queues.          *)
Appended(c, d) == Becomes(c, Contents[c] \o d)
Skipped(c, n)  == Becomes(c, SubSeq(Contents[c], n + 1, Len(Contents[c])))

QueueStep ==
  \/ Contents' = Contents
  \/ \E c \in Cache : \/ \E d \in Data : Appended(c, d)
                      \/ \E n \in 1 .. Len(Contents[c]) : Skipped(c, n)

LEMMA ContentsKept ==
  ASSUME UNCHANGED cacheVars
  PROVE  Contents' = Contents
BY DEF cacheVars, Contents, Content

LEMMA ContentsFcn ==
  ASSUME CacheTypes, NEW c \in Cache
  PROVE  /\ \E S : Contents[c] \in Seq(S)
         /\ Len(Contents[c]) \in Nat
         /\ Becomes(c, Contents[c]) => Contents' = Contents
<1>1. PICK S : Contents[c] \in Seq(S)
  BY ContentSeq
<1>2. Len(Contents[c]) \in Nat
  BY <1>1, LenProperties
<1>3. Contents = [e \in Cache |-> Contents[e]]
  BY DEF Contents
<1> HIDE DEF Contents
<1>4. Becomes(c, Contents[c]) => Contents' = Contents
  BY <1>3 DEF Becomes
<1> QED
  BY <1>1, <1>2, <1>4

LEMMA SkipSomeStep ==
  ASSUME BufferInv, NEW c \in Cache, NEW n \in 0 .. MaxLen, SkipSome(c, n)
  PROVE  QueueStep
<1>1. n \in 0 .. Len(Contents[c]) /\ Skipped(c, n)
  BY SkipSomeInv DEF Skipped
<1>2. PICK S : Contents[c] \in Seq(S)
  BY ContentsFcn DEF BufferInv
<1>3. CASE n = 0
  <2>1. SubSeq(Contents[c], 1, Len(Contents[c])) = Contents[c]
    BY <1>2, SubSeqFull
  <2>2. Becomes(c, Contents[c])
    <3>1. n + 1 = 1
      BY <1>3
    <3> QED
      BY <1>1, <2>1, <3>1, Zenon DEF Skipped
  <2> QED
    BY <2>2, ContentsFcn DEF BufferInv, QueueStep
<1>4. CASE n # 0
  <2>1. n \in 1 .. Len(Contents[c])
    BY <1>1, <1>2, <1>4, LenProperties
  <2> QED
    BY <1>1, <2>1 DEF QueueStep
<1> QED
  BY <1>3, <1>4

LEMMA SkipAllStep ==
  ASSUME BufferInv, NEW c \in Cache, SkipAll(c)
  PROVE  QueueStep
<1> DEFINE n == Len(Contents[c])
<1>1. Becomes(c, <<>>)
  BY SkipAllInv
<1>2. PICK S : Contents[c] \in Seq(S)
  BY ContentsFcn DEF BufferInv
<1>3. n \in Nat
  BY <1>2, LenProperties
<1>4. CASE n = 0
  <2>1. Contents[c] = <<>>
    BY <1>2, <1>4, EmptySeq
  <2> QED
    BY <1>1, <2>1, ContentsFcn DEF BufferInv, QueueStep
<1>5. CASE n # 0
  <2>1. SubSeq(Contents[c], n + 1, n) = <<>>
    <3>1. n + 1 \in Int /\ n \in Int /\ n < n + 1
      BY <1>3
    <3> QED
      BY <3>1, SubSeqEmpty
  <2>2. Skipped(c, n)
    BY <1>1, <2>1 DEF Skipped
  <2>3. n \in 1 .. Len(Contents[c])
    BY <1>3, <1>5
  <2> QED
    BY <2>2, <2>3 DEF QueueStep
<1> QED
  BY <1>4, <1>5

LEMMA StepInv == BufferInv /\ [Next]_vars => BufferInv' /\ QueueStep
<1> SUFFICES ASSUME BufferInv, [Next]_vars
             PROVE  BufferInv' /\ QueueStep
  OBVIOUS
<1>1. CASE UNCHANGED vars
  <2>1. /\ UNCHANGED <<free, stub, total, live, op, cacheVars, call>>
        /\ UNCHANGED <<mem, block_size, head, len, buf>>
    BY <1>1 DEF vars, poolVars, cacheVars
  <2>2. PoolTypes' /\ CacheTypes' /\ Calling' /\ InBlock'
    BY <2>1 DEF BufferInv, PoolTypes, CacheTypes, Calling, InBlock
  <2>3. Blocks'
    BY <2>1 DEF BufferInv, Blocks, Used, Mine, InHand
  <2> QED
    BY <2>1, <2>2, <2>3, ContentsKept DEF BufferInv, QueueStep
<1>2. ASSUME NEW c \in Cache, NEW d \in Data, AppendBehind(c, d)
      PROVE  BufferInv' /\ QueueStep
  BY <1>2, AppendBehindInv DEF QueueStep, Appended
<1>3. ASSUME NEW c \in Cache, NEW d \in Data, AppendMove(c, d)
      PROVE  BufferInv' /\ QueueStep
  BY <1>3, AppendMoveInv DEF QueueStep, Appended
<1>4. ASSUME NEW c \in Cache, NEW d \in Data, AppendAlloc(c, d)
      PROVE  BufferInv' /\ QueueStep
  <2>1. UNCHANGED cacheVars
    BY <1>4 DEF AppendAlloc
  <2> QED
    BY <1>4, <2>1, AppendAllocInv, ContentsKept DEF QueueStep
<1>5. ASSUME NEW c \in Cache, SkipAll(c)
      PROVE  BufferInv' /\ QueueStep
  BY <1>5, SkipAllInv, SkipAllStep
<1>6. ASSUME NEW c \in Cache, NEW n \in 0 .. MaxLen, SkipSome(c, n)
      PROVE  BufferInv' /\ QueueStep
  BY <1>6, SkipSomeInv, SkipSomeStep
<1>7. CASE PoolStep /\ UNCHANGED <<cacheVars, call>>
  <2>1. UNCHANGED cacheVars
    BY <1>7
  <2>2. Contents' = Contents
    BY <2>1, ContentsKept
  <2> QED
    BY <1>7, <2>2, PurgeInv, PurgeEndInv, ExtendInv, PopInv DEF PoolStep, QueueStep
<1>8. CASE AppendTake
  BY <1>8, AppendTakeInv DEF QueueStep, Appended
<1>9. CASE AppendThrow
  <2>1. UNCHANGED cacheVars
    BY <1>9 DEF AppendThrow
  <2> QED
    BY <1>9, <2>1, AppendThrowInv, ContentsKept DEF QueueStep
<1> QED
  BY <1>1, <1>2, <1>3, <1>4, <1>5, <1>6, <1>7, <1>8, <1>9 DEF Next

LEMMA Invariant == Spec => []BufferInv
<1>1. BufferInv /\ [Next]_vars => BufferInv'
  BY StepInv
<1> QED
  BY InitInv, <1>1, PTL DEF Spec

(* The bytes of a buffer are inside its block, whatever is appended and    *)
(* skipped: cache.cpp's three cases of append leave none out.              *)
THEOREM InsideBlocks == Spec => []InBlock
<1>1. BufferInv => InBlock
  BY DEF BufferInv
<1> QED
  BY Invariant, <1>1, PTL

(* Every block has one owner, a buffer or a free list of its size, and     *)
(* recycle and release find it there.                                      *)
THEOREM OneOwner == Spec => []BlocksOwned
<1>1. BufferInv => BlocksOwned
  <2> SUFFICES ASSUME BufferInv PROVE BlocksOwned
    OBVIOUS
  <2> DEFINE D == {c \in Cache : mem[c] # NULL}
  <2>1. /\ DOMAIN Held = D /\ \A c \in D : Held[c] = mem[c]
        /\ Range(Held) = Mine
    BY DEF Held, Range, Mine
  <2>2. Listed(free, live, stub, Used) /\ Covered(free, live, Used) /\ Used = Mine \cup InHand
    BY DEF BufferInv, Blocks, Used
  <2>3. \A c \in D : /\ c \in Cache /\ mem[c] # NULL
                     /\ mem[c] \in DOMAIN live /\ live[mem[c]] = block_size[c]
                     /\ mem[c] \in stub[block_size[c]] /\ mem[c] \notin InHand
    BY DEF BufferInv, Blocks
  <2>4. \A c, d \in D : mem[c] = mem[d] => c = d
    BY DEF BufferInv, Blocks
  <2> HIDE DEF D
  <2>5. IsInjective(Held)
    BY <2>1, <2>4 DEF IsInjective
  <2>6. InHand \cap Range(Held) = {}
    BY <2>1, <2>3 DEF Mine, BufferInv, Blocks
  <2>7. \A c \in DOMAIN Held : /\ Held[c] \in DOMAIN live
                               /\ live[Held[c]] = block_size[c]
                               /\ Held[c] \in stub[block_size[c]]
    BY <2>1, <2>3
  <2>8. \A s \in Size : /\ IsInjective(free[s])
                        /\ \A a \in ToSet(free[s]) : a \in DOMAIN live /\ live[a] = s
                        /\ ToSet(free[s]) \subseteq stub[s] \ (InHand \cup Range(Held))
    BY <2>1, <2>2 DEF Listed
  <2>9. DOMAIN live = InHand \cup Range(Held) \cup UNION {ToSet(free[s]) : s \in Size}
    BY <2>1, <2>2 DEF Covered
  <2> QED
    BY <2>5, <2>6, <2>7, <2>8, <2>9 DEF BlocksOwned
<1> QED
  BY Invariant, <1>1, PTL

(* What is accounted for is what there is.                                 *)
LEMMA TotalSame ==
  ASSUME Totalled, UNCHANGED <<total, live>>
  PROVE  Totalled'
<1>1. Space' = Space /\ total' = total
  BY DEF Space
<1> QED
  BY <1>1 DEF Totalled

LEMMA TotalStep == BufferInv /\ Totalled /\ [Next]_vars => Totalled'
<1> SUFFICES ASSUME BufferInv, Totalled, [Next]_vars
             PROVE  Totalled'
  OBVIOUS
<1>0. /\ PoolTypes /\ CacheTypes /\ Blocks
      /\ Listed(free, live, stub, Used) /\ Covered(free, live, Used)
      /\ \A c \in Cache : mem[c] \in Addr \cup {NULL}
  BY DEF BufferInv, CacheTypes, Blocks
<1>1. ASSUME UNCHANGED poolVars PROVE Totalled'
  BY <1>1, TotalSame DEF poolVars
<1>2. ASSUME NEW c \in Cache, NEW d \in Data, AppendAlloc(c, d) PROVE Totalled'
  BY <1>2, TotalSame DEF AppendAlloc, AllocCall
<1>3. ASSUME NEW c \in Cache, SkipAll(c) PROVE Totalled'
  <2>1. mem[c] # NULL /\ recycle(mem[c], block_size[c])
    BY <1>3 DEF SkipAll
  <2> QED
    BY <1>0, <2>1, Recycled
<1>4. ASSUME Purge PROVE Totalled'
  <2> DEFINE s == op.purge \div 2
  <2>1. IF s \in Size THEN release(s, free[s], C_ALLOC_CAPCITY)
                      ELSE UNCHANGED <<free, live, total>>
    BY <1>4 DEF Purge
  <2> HIDE DEF s
  <2>2. CASE s \in Size
    <3>1. free \in [Size -> Seq(Addr)] /\ total \in Int
      BY <1>0 DEF PoolTypes
    <3>2. release(s, free[s], C_ALLOC_CAPCITY)
      BY <2>1, <2>2
    <3> QED
      BY <1>0, <2>2, <3>1, <3>2, Released
  <2>3. CASE s \notin Size
    BY <2>1, <2>3, TotalSame
  <2> QED
    BY <2>2, <2>3
<1>5. ASSUME PurgeEnd \/ Pop PROVE Totalled'
  BY <1>5, TotalSame DEF PurgeEnd, Pop
<1>6. ASSUME Extend PROVE Totalled'
  <2> DEFINE s == op.size
             n == fit_extend_set(s)
  <2>1. s \in Size /\ s \in Nat
    BY <1>6, Sizes DEF BufferInv, Calling, Extend
  <2>2. n \in Nat \ {0}
    BY <2>1, FitExtendSet
  <2>3. PICK new \in NewAddrs(n) :
          live' = [a \in DOMAIN live \cup ToSet(new) |-> IF a \in ToSet(new) THEN s ELSE live[a]]
    BY <1>6 DEF Extend
  <2>4. total' = total + s * n
    BY <1>6 DEF Extend
  <2> HIDE DEF s, n
  <2>5. new \in Seq(Addr) /\ Len(new) = n /\ IsInjective(new) /\ ToSet(new) \cap DOMAIN live = {}
    BY <2>2, NewBlocks
  <2>6. /\ DOMAIN live' = DOMAIN live \cup ToSet(new)
        /\ \A a \in DOMAIN live : live'[a] = live[a]
        /\ \A a \in ToSet(new) : live'[a] = s
        /\ \A a \in ToSet(new) : a \notin DOMAIN live
    BY <2>3, <2>5
  <2> QED
    BY <2>1, <2>4, <2>5, <2>6, SpaceMore
<1>7. ASSUME AppendTake PROVE Totalled'
  <2>1. op.pc = "got"
    BY <1>7 DEF AppendTake
  <2>2. call.who \in Cache
    BY <2>1 DEF BufferInv, Calling
  <2>3. CASE mem[call.who] = NULL
    BY <1>7, <2>3, TotalSame DEF AppendTake
  <2>4. CASE mem[call.who] # NULL
    <3>1. recycle(mem[call.who], block_size[call.who])
      BY <1>7, <2>4 DEF AppendTake
    <3> QED
      BY <1>0, <2>2, <2>4, <3>1, Recycled
  <2> QED
    BY <2>3, <2>4
<1>8. ASSUME AppendThrow PROVE Totalled'
  BY <1>8, TotalSame DEF AppendThrow
<1>9. CASE UNCHANGED vars
  BY <1>1, <1>9 DEF vars
<1>10. ASSUME NEW c \in Cache, NEW d \in Data, AppendBehind(c, d) \/ AppendMove(c, d)
       PROVE  Totalled'
  BY <1>1, <1>10 DEF AppendBehind, AppendMove
<1>11. ASSUME NEW c \in Cache, NEW n \in 0 .. MaxLen, SkipSome(c, n) PROVE Totalled'
  BY <1>1, <1>11 DEF SkipSome
<1> QED
  BY <1>2, <1>3, <1>4, <1>5, <1>6, <1>7, <1>8, <1>9, <1>10, <1>11 DEF Next, PoolStep

(* _allocated_size is the size of the blocks there are, and it stays       *)
(* within C_MAX_POOL_SIZE, also when extend comes after a purge.           *)
THEOREM InAccount == Spec => []Accounted
<1>1. Init => Totalled
  <2> SUFFICES ASSUME Init PROVE Totalled
    OBVIOUS
  <2>1. total = 0 /\ DOMAIN live = {}
    BY DEF Init, PoolInit
  <2>2. Space = {}
    BY <2>1, InSpace
  <2> QED
    BY <2>1, <2>2, FS_EmptySet DEF Totalled
<1>2. BufferInv /\ Totalled => Accounted
  BY DEF BufferInv, PoolTypes, Totalled, Accounted, Limited
<1>3. Spec => [](BufferInv /\ Totalled)
  <2>1. Init => BufferInv /\ Totalled
    BY <1>1, InitInv
  <2>2. BufferInv /\ Totalled /\ [Next]_vars => (BufferInv /\ Totalled)'
    BY StepInv, TotalStep
  <2> QED
    BY <2>1, <2>2, PTL DEF Spec
<1> QED
  BY <1>2, <1>3, PTL

(* The buffers of a thread are queues of bytes: append and skip of cache.h *)
(* keep their bytes and their order through every move between blocks.     *)
THEOREM BytesInOrder == Spec => InOrder
<1>1. Init => Queues!Init
  <2> SUFFICES ASSUME Init PROVE Queues!Init
    OBVIOUS
  <2>1. \A c \in Cache : Content(c) = <<>>
    BY DEF Init, Content
  <2> QED
    BY <2>1 DEF Queues!Init
<1>2. QueueStep => [Queues!Next]_Contents
  BY DEF QueueStep, Appended, Skipped, Becomes, Contents, Queues!Next, Queues!Add, Queues!Skip
<1>3. BufferInv /\ [Next]_vars => [Queues!Next]_Contents
  BY StepInv, <1>2
<1> QED
  BY Invariant, <1>1, <1>3, PTL DEF Spec, InOrder, Queues!Spec, Contents

=============================================================================
