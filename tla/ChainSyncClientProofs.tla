------------------------ MODULE ChainSyncClientProofs ------------------------
(***************************************************************************)
(* Theorems about the chain-synchronization client of the TypeScript       *)
(* package, for every window, any number of calls of resume() and of       *)
(* blocks, and forks of any depth.                                         *)
(***************************************************************************)
EXTENDS ChainSyncClient, SequenceTheorems, FiniteSetTheorems, WellFoundedInduction, TLAPS

USE ChainSyncClientAssumption

-----------------------------------------------------------------------------
(* What the variables hold.                                                 *)
Blocks == [id : Nat, ancestor : Nat]
Calls  == [state : {"tip", "point", "resolved", "rejected"}, window : Nat, point : Nat]
Requests ==
  [method : {"nextBlock", "findIntersection"}, resume : Nat, point : Nat]
Intersections ==
  [method : {"findIntersection"}, resume : Nat, found : BOOLEAN, tip : Nat]
Rolls ==
  [method : {"nextBlock"}, direction : {"forward", "backward"}, block : Blocks,
   base : Seq(Blocks)]
Messages == Intersections \cup Rolls
Handlers == [message : Rolls, asked : BOOLEAN]

Finds(x) == x.method = "findIntersection"

Typed ==
  /\ sequential \in BOOLEAN
  /\ open \in BOOLEAN
  /\ rewound \in BOOLEAN
  /\ minted \in 0 .. MaxBlocks
  /\ requests \in Seq(Requests)
  /\ messages \in Seq(Messages)
  /\ resumes \in Seq(Calls)
  /\ tasks \in Seq(Rolls)
  /\ running \in Seq(Handlers)
  /\ failed \in Nat
  /\ tasks # <<>> => sequential /\ running # <<>>
  /\ sequential => Len(running) <= 1

-----------------------------------------------------------------------------
(* Every chain there ever was, and every part of one from the origin on, is *)
(* in a tree: a block is in one place in it, with the blocks before it.     *)
Linked(c) ==
  \A i \in 1 .. Len(c) - 1 :
    c[i + 1].id > c[i].id /\ c[i + 1].ancestor = c[i].id

IsChain(c, top) ==
  /\ c \in Seq(Blocks) /\ c # <<>> /\ c[1] = Block(Origin, Origin)
  /\ Linked(c)
  /\ \A i \in DOMAIN c : c[i].id <= top

SamePlace(c, i, d, j) == i = j /\ \A k \in 1 .. i : c[k] = d[k]

Tree(tree, top) ==
  /\ \A c \in tree : IsChain(c, top) /\ \A n \in 1 .. Len(c) : SubSeq(c, 1, n) \in tree
  /\ \A c, d \in tree : \A i \in DOMAIN c : \A j \in DOMAIN d :
       c[i].id = d[j].id => SamePlace(c, i, d, j)

(* A bounded set of numbers has a greatest member.                          *)
LEMMA Greatest ==
  ASSUME NEW n \in Nat, NEW S, S \subseteq 0 .. n, S # {}
  PROVE  \E x \in S : \A y \in S : y <= x
<1> DEFINE M == {k \in Nat : n - k \in S}
<1>1. M # {} /\ M \subseteq Nat
  <2>1. PICK x \in S : TRUE
    OBVIOUS
  <2>2. x \in 0 .. n
    OBVIOUS
  <2>3. n - x \in Nat /\ n - (n - x) = x
    BY <2>2
  <2>4. n - x \in M
    BY <2>1, <2>3
  <2> QED
    BY <2>4
<1>2. PICK m \in M : \A k \in M : <<k, m>> \notin OpToRel(<, Nat)
  BY <1>1, WFMin, NatLessThanWellFounded, Zenon
<1>3. m \in Nat /\ n - m \in S /\ \A k \in M : ~(k < m)
  BY <1>2, Zenon DEF OpToRel
<1>4. ASSUME NEW y \in S PROVE y <= n - m
  <2>1. y \in 0 .. n
    OBVIOUS
  <2>2. n - y \in Nat /\ n - (n - y) = y
    BY <2>1
  <2>3. n - y \in M
    BY <2>2
  <2>4. ~(n - y < m)
    BY <1>3, <2>3
  <2> QED
    BY <1>3, <2>1, <2>4
<1> QED
  BY <1>3, <1>4

(* The first n elements of a sequence.                                      *)
LEMMA FirstOnes ==
  ASSUME NEW S, NEW c \in Seq(S), NEW n \in 1 .. Len(c), NEW d, d = SubSeq(c, 1, n)
  PROVE  /\ d \in Seq(S) /\ Len(d) = n /\ DOMAIN d = 1 .. n /\ d # <<>>
         /\ \A i \in 1 .. n : d[i] = c[i] /\ i \in DOMAIN c
<1>1. Len(c) \in Nat /\ n \in Nat /\ \A i \in 1 .. n : i \in 1 .. Len(c)
  BY LenProperties
<1>2. \A i \in 1 .. n : c[i] \in S
  BY <1>1, ElementOfSeq
<1>3. /\ d \in Seq(S) /\ Len(d) = n - 1 + 1
      /\ \A i \in 1 .. n - 1 + 1 : d[i] = c[1 + i - 1]
  BY <1>1, <1>2, SubSeqProperties
<1>4. Len(d) = n /\ \A i \in 1 .. n : d[i] = c[i]
  BY <1>1, <1>3
<1>5. DOMAIN d = 1 .. n
  BY <1>3, <1>4, LenProperties
<1>6. d # <<>>
  BY <1>1, <1>4, EmptySeq
<1> QED
  BY <1>1, <1>3, <1>4, <1>5, <1>6

(* The last block of a chain, and its id.                                   *)
LEMMA ChainEnds ==
  ASSUME NEW c, NEW top \in Nat, IsChain(c, top)
  PROVE  /\ Len(c) \in Nat /\ Len(c) >= 1 /\ Len(c) \in DOMAIN c /\ DOMAIN c = 1 .. Len(c)
         /\ 1 \in DOMAIN c
         /\ Last(c) = c[Len(c)] /\ Last(c) \in Blocks
         /\ TipOf(c) = c[Len(c)].id /\ TipOf(c) \in 0 .. top
         /\ \A i \in DOMAIN c : c[i] \in Blocks /\ c[i].id \in 0 .. top
         /\ Knows(c, TipOf(c))
<1>1. c \in Seq(Blocks) /\ c # <<>> /\ \A i \in DOMAIN c : c[i].id <= top
  BY DEF IsChain
<1>2. Len(c) \in Nat /\ Len(c) >= 1 /\ DOMAIN c = 1 .. Len(c) /\ Len(c) \in DOMAIN c /\ 1 \in DOMAIN c
  BY <1>1, LenProperties, EmptySeq
<1>3. \A i \in DOMAIN c : c[i] \in Blocks
  BY <1>1, <1>2, ElementOfSeq
<1>4. \A i \in DOMAIN c : c[i].id \in 0 .. top
  BY <1>1, <1>3 DEF Blocks
<1> QED
  BY <1>2, <1>3, <1>4 DEF TipOf, Last, Knows

(* UpTo(c, point) is the part of the chain that ends in the point.          *)
LEMMA UpToPoint ==
  ASSUME NEW tree, NEW top \in Nat, Tree(tree, top), NEW c \in tree, NEW point, Knows(c, point)
  PROVE  /\ UpTo(c, point) \in tree /\ TipOf(UpTo(c, point)) = point
         /\ \E n \in 1 .. Len(c) : c[n].id = point /\ UpTo(c, point) = SubSeq(c, 1, n)
<1>1. PICK n : n \in DOMAIN c /\ c[n].id = point /\ UpTo(c, point) = SubSeq(c, 1, n)
  BY DEF Knows, UpTo
<1>2. IsChain(c, top)
  BY DEF Tree
<1>3. n \in 1 .. Len(c) /\ c \in Seq(Blocks)
  BY <1>1, <1>2, ChainEnds DEF IsChain
<1>4. PICK d : d = SubSeq(c, 1, n)
  OBVIOUS
<1>5. d \in tree
  BY <1>3, <1>4 DEF Tree
<1>6. Len(d) = n /\ d[n] = c[n]
  BY <1>3, <1>4, FirstOnes
<1>7. TipOf(d) = point
  BY <1>1, <1>6 DEF TipOf, Last
<1> QED
  BY <1>1, <1>3, <1>4, <1>5, <1>7

(* A chain that has the last block of another one starts with it.           *)
LEMMA UpToTip ==
  ASSUME NEW tree, NEW top \in Nat, Tree(tree, top), NEW c \in tree, NEW d \in tree,
         Knows(c, TipOf(d))
  PROVE  /\ UpTo(c, TipOf(d)) = d
         /\ Len(d) \in 1 .. Len(c) /\ \A k \in 1 .. Len(d) : c[k] = d[k]
<1>1. PICK n \in 1 .. Len(c) : c[n].id = TipOf(d) /\ UpTo(c, TipOf(d)) = SubSeq(c, 1, n)
  BY UpToPoint
<1>2. IsChain(c, top) /\ IsChain(d, top)
  BY DEF Tree
<1>3. c \in Seq(Blocks) /\ d \in Seq(Blocks)
  BY <1>2 DEF IsChain
<1>4. n \in DOMAIN c /\ Len(d) \in DOMAIN d /\ TipOf(d) = d[Len(d)].id
  BY <1>1, <1>2, ChainEnds
<1>5. SamePlace(c, n, d, Len(d))
  BY <1>1, <1>4 DEF Tree
<1>6. n = Len(d) /\ \A k \in 1 .. Len(d) : c[k] = d[k]
  BY <1>5 DEF SamePlace
<1>7. PICK e : e = SubSeq(c, 1, n)
  OBVIOUS
<1>8. e \in Seq(Blocks) /\ Len(e) = n /\ \A i \in 1 .. n : e[i] = c[i]
  BY <1>3, <1>7, FirstOnes
<1>9. e = d
  BY <1>3, <1>6, <1>8, SeqEqual
<1> QED
  BY <1>1, <1>6, <1>7, <1>9

(* The longest common prefix of two chains.                                 *)
Common(c, d, n) == n \in 1 .. Len(c) /\ n \in 1 .. Len(d) /\ \A k \in 1 .. n : c[k] = d[k]

LEMMA CommonPrefix ==
  ASSUME NEW c \in Seq(Blocks), NEW d \in Seq(Blocks), NEW p \in CommonPrefixes({c, d})
  PROVE  p \in Seq(Blocks) /\ Len(p) \in 0 .. Len(d) /\ p = SubSeq(d, 1, Len(p))
<1>1. PICK q \in {c, d} : \E l \in 0 .. Len(q) : p = SubSeq(q, 1, l)
  BY DEF CommonPrefixes, Prefixes
<1>2. Len(p) <= Len(d) /\ SubSeq(p, 1, Len(p)) = SubSeq(d, 1, Len(p))
  BY DEF CommonPrefixes, IsPrefix
<1>0. PICK l \in 0 .. Len(q) : p = SubSeq(q, 1, l)
  BY <1>1
<1>3. q \in Seq(Blocks) /\ Len(q) \in Nat /\ l \in Nat
  BY <1>1, LenProperties
<1>4. p \in Seq(Blocks)
  <2>1. CASE l = 0
    BY <1>0, <2>1, SubSeqEmpty, EmptySeq
  <2>2. CASE l # 0
    <3>1. l \in 1 .. Len(q)
      BY <1>1, <1>3, <2>2
    <3> QED
      BY <1>0, <1>3, <3>1, FirstOnes
  <2> QED
    BY <2>1, <2>2
<1>5. Len(p) \in Nat /\ Len(d) \in Nat /\ SubSeq(p, 1, Len(p)) = p
  BY <1>4, LenProperties, SubSeqFull
<1> QED
  BY <1>2, <1>4, <1>5

LEMMA CommonIsPrefix ==
  ASSUME NEW c \in Seq(Blocks), NEW d \in Seq(Blocks), NEW n, Common(c, d, n)
  PROVE  SubSeq(c, 1, n) \in CommonPrefixes({c, d}) /\ Len(SubSeq(c, 1, n)) = n
<1>1. n \in 1 .. Len(c) /\ n \in 1 .. Len(d) /\ \A k \in 1 .. n : c[k] = d[k]
  BY DEF Common
<1>2. PICK p, e : p = SubSeq(c, 1, n) /\ e = SubSeq(d, 1, n)
  OBVIOUS
<1>3. p \in Seq(Blocks) /\ Len(p) = n /\ \A i \in 1 .. n : p[i] = c[i]
  BY <1>1, <1>2, FirstOnes
<1>4. e \in Seq(Blocks) /\ Len(e) = n /\ \A i \in 1 .. n : e[i] = d[i]
  BY <1>1, <1>2, FirstOnes
<1>5. p = e
  BY <1>1, <1>3, <1>4, SeqEqual
<1>6. SubSeq(p, 1, Len(p)) = p
  BY <1>3, SubSeqFull
<1>7. Len(c) \in Nat /\ Len(d) \in Nat /\ n \in 0 .. Len(c) /\ n <= Len(c) /\ n <= Len(d)
  BY <1>1, LenProperties
<1>8. p \in Prefixes(c)
  BY <1>2, <1>7 DEF Prefixes
<1>9. IsPrefix(p, c) /\ IsPrefix(p, d)
  BY <1>2, <1>3, <1>5, <1>6, <1>7 DEF IsPrefix
<1>10. p \in CommonPrefixes({c, d})
  BY <1>8, <1>9 DEF CommonPrefixes
<1> QED
  BY <1>2, <1>3, <1>10

PartOf(tree, c, d, s) ==
  /\ s \in tree
  /\ \E n \in 1 .. Len(d) :
       n = Len(s) /\ s = SubSeq(d, 1, n) /\ \A m : Common(c, d, m) => m <= n

LEMMA SharedPart ==
  ASSUME NEW tree, NEW top \in Nat, Tree(tree, top), NEW c \in tree, NEW d \in tree,
         NEW s, s = LongestCommonPrefix({c, d})
  PROVE  PartOf(tree, c, d, s)
<1> DEFINE S == CommonPrefixes({c, d})
           L == {Len(p) : p \in S}
<1>1. IsChain(c, top) /\ IsChain(d, top)
  BY DEF Tree
<1>2. c \in Seq(Blocks) /\ d \in Seq(Blocks) /\ c[1] = d[1] /\ Len(d) \in Nat
      /\ 1 \in 1 .. Len(c) /\ 1 \in 1 .. Len(d)
  BY <1>1, ChainEnds DEF IsChain
<1>3. \A p \in S : Len(p) \in 0 .. Len(d) /\ p = SubSeq(d, 1, Len(p))
  BY <1>2, CommonPrefix
<1>4. \A n : Common(c, d, n) => \E p \in S : Len(p) = n
  BY <1>2, CommonIsPrefix
<1>5. Common(c, d, 1)
  BY <1>2 DEF Common
<1>6. L \subseteq 0 .. Len(d) /\ L # {}
  BY <1>3, <1>4, <1>5
<1>7. \E x \in L : \A y \in L : y <= x
  BY <1>2, <1>6, Greatest
<1>8. s = CHOOSE longest \in S : \A other \in S : Len(other) <= Len(longest)
  BY DEF LongestCommonPrefix
<1> HIDE DEF S
<1>9. \E longest \in S : \A other \in S : Len(other) <= Len(longest)
  BY <1>7
<1>10. s \in S /\ \A other \in S : Len(other) <= Len(s)
  BY <1>8, <1>9
<1>11. PICK n : n = Len(s)
  OBVIOUS
<1>12. n \in 0 .. Len(d) /\ s = SubSeq(d, 1, n)
  BY <1>3, <1>10, <1>11, Zenon
<1>13. \A m : Common(c, d, m) => m <= n
  BY <1>4, <1>10, <1>11
<1>14. n \in 1 .. Len(d)
  <2>1. 1 <= n /\ n \in 0 .. Len(d)
    BY <1>5, <1>12, <1>13
  <2> QED
    BY <1>2, <2>1
<1>15. s \in tree
  BY <1>12, <1>14 DEF Tree
<1> QED
  BY <1>11, <1>12, <1>13, <1>14, <1>15 DEF PartOf

(* What ServesBlock makes of it: a prefix of both chains; the second chain  *)
(* itself if the first one has its last block.                              *)
LEMMA SharedIs ==
  ASSUME NEW tree, NEW top \in Nat, Tree(tree, top), NEW c \in tree, NEW d \in tree,
         NEW s, PartOf(tree, c, d, s)
  PROVE  /\ s \in tree
         /\ Knows(d, TipOf(s)) /\ UpTo(d, TipOf(s)) = s
         /\ Knows(c, TipOf(d)) => s = d
<1>1. s \in tree
  BY DEF PartOf
<1>2. IsChain(c, top) /\ IsChain(d, top)
  BY DEF Tree
<1>3. d \in Seq(Blocks) /\ Len(d) \in Nat /\ DOMAIN d = 1 .. Len(d)
  BY <1>2, ChainEnds DEF IsChain
<1>4. PICK n \in 1 .. Len(d) : n = Len(s) /\ s = SubSeq(d, 1, n) /\ \A m : Common(c, d, m) => m <= n
  BY DEF PartOf
<1>5. s[n] = d[n] /\ n \in DOMAIN d
  BY <1>3, <1>4, FirstOnes
<1>6. Knows(d, TipOf(s))
  BY <1>4, <1>5 DEF Knows, TipOf, Last
<1>7. UpTo(d, TipOf(s)) = s
  BY <1>1, <1>6, UpToTip
<1>8. ASSUME Knows(c, TipOf(d)) PROVE s = d
  <2>1. Len(d) \in 1 .. Len(c) /\ \A k \in 1 .. Len(d) : c[k] = d[k]
    BY <1>8, UpToTip
  <2>2. Len(d) \in 1 .. Len(d)
    BY <1>2, ChainEnds
  <2>3. Common(c, d, Len(d))
    BY <2>1, <2>2 DEF Common
  <2>4. Len(d) <= n
    BY <1>4, <2>3
  <2>5. n = Len(d)
    <3>1. PICK m : m = Len(d)
      OBVIOUS
    <3>2. m \in Nat /\ n \in 1 .. m /\ m <= n
      BY <1>3, <2>4, <3>1
    <3> QED
      BY <3>1, <3>2
  <2>6. s = SubSeq(d, 1, Len(d))
    BY <1>4, <2>5
  <2> QED
    BY <1>3, <2>6, SubSeqFull
<1> QED
  BY <1>1, <1>6, <1>7, <1>8

(* One more block of a chain than another one it starts with.               *)
LEMMA OneBlockMore ==
  ASSUME NEW tree, NEW top \in Nat, Tree(tree, top), NEW c \in tree, NEW d \in tree,
         LongestCommonPrefix({c, d}) = d, Len(c) > Len(d)
  PROVE  Append(d, c[Len(d) + 1]) \in tree /\ c[Len(d) + 1] \in Blocks
<1>1. PICK s : s = LongestCommonPrefix({d, c})
  OBVIOUS
<1>2. {c, d} = {d, c}
  OBVIOUS
<1>3. \E n \in 1 .. Len(c) : n = Len(d) /\ d = SubSeq(c, 1, n)
  <2>1. PartOf(tree, d, c, s)
    BY <1>1, SharedPart
  <2>2. s = d
    BY <1>1, <1>2
  <2> QED
    BY <2>1, <2>2 DEF PartOf
<1>4. PICK n \in 1 .. Len(c) : n = Len(d) /\ d = SubSeq(c, 1, n)
  BY <1>3
<1>5. IsChain(c, top) /\ IsChain(d, top)
  BY DEF Tree
<1>6. c \in Seq(Blocks) /\ d \in Seq(Blocks) /\ Len(c) \in Nat /\ n \in Nat
      /\ n + 1 \in DOMAIN c /\ n + 1 \in 1 .. Len(c) /\ c[n + 1] \in Blocks
  <2>1. c \in Seq(Blocks) /\ d \in Seq(Blocks) /\ Len(c) \in Nat /\ n \in Nat /\ DOMAIN c = 1 .. Len(c)
    BY <1>4, <1>5, ChainEnds DEF IsChain
  <2>2. n + 1 \in 1 .. Len(c)
    BY <1>4, <2>1
  <2> QED
    BY <2>1, <2>2, ElementOfSeq
<1>7. PICK e, f : e = SubSeq(c, 1, n + 1) /\ f = Append(d, c[n + 1])
  OBVIOUS
<1>8. e \in Seq(Blocks) /\ Len(e) = n + 1 /\ \A i \in 1 .. n + 1 : e[i] = c[i]
  BY <1>6, <1>7, FirstOnes, SMTT(30)
<1>9. f \in Seq(Blocks) /\ Len(f) = n + 1 /\ f[n + 1] = c[n + 1] /\ \A i \in 1 .. n : f[i] = d[i]
  BY <1>4, <1>6, <1>7, AppendProperties
<1>10. \A i \in 1 .. n : d[i] = c[i]
  BY <1>4, <1>6, FirstOnes
<1>11. \A i \in 1 .. n + 1 : e[i] = f[i]
  <2>1. \A i \in 1 .. n + 1 : i \in 1 .. n \/ i = n + 1
    BY <1>6
  <2>2. \A i \in 1 .. n : e[i] = c[i] /\ f[i] = d[i] /\ d[i] = c[i]
    BY <1>6, <1>8, <1>9, <1>10
  <2>3. e[n + 1] = f[n + 1]
    BY <1>6, <1>8, <1>9
  <2> QED
    BY <2>1, <2>2, <2>3
<1>12. e = f
  BY <1>6, <1>8, <1>9, <1>11, SeqEqual
<1>13. e \in tree
  BY <1>6, <1>7 DEF Tree
<1> QED
  BY <1>4, <1>6, <1>7, <1>12, <1>13

-----------------------------------------------------------------------------
(* What the program's chain becomes with a message; not a roll, no change.  *)
After(c, message) ==
  IF Finds(message) THEN c
  ELSE CASE message.direction = "forward" -> Append(c, message.block)
         [] message.direction = "backward" /\ Knows(c, message.block.id) ->
              UpTo(c, message.block.id)
         [] message.direction = "backward" /\ ~Knows(c, message.block.id) ->
              IF message.base # <<>> THEN message.base ELSE Append(c, message.block)

LEMMA ApplyingIsAfter ==
  ASSUME NEW message \in Rolls
  PROVE  Applying(message) = After(applied, message) /\ ~Finds(message)
<1>1. message.method = "nextBlock"
  BY DEF Rolls
<1> QED
  BY <1>1 DEF Applying, After, Finds

(* The rolls in `items' lead from one chain to another, by way of chains of *)
(* a set.                                                                   *)
Leads(set, from, items, to) ==
  \E h \in Seq(set) :
    /\ Len(h) = Len(items) + 1
    /\ h[1] = from
    /\ h[Len(items) + 1] = to
    /\ \A k \in 1 .. Len(items) : h[k + 1] = After(h[k], items[k])

LEMMA LeadsNowhere ==
  ASSUME NEW set, NEW c \in set
  PROVE  Leads(set, c, <<>>, c)
<1>1. PICK h : h = <<c>>
  OBVIOUS
<1>2. h \in Seq(set) /\ Len(h) = 1 /\ h[1] = c
  BY <1>1
<1>3. Len(<<>>) = 0 /\ 0 + 1 = 1
  BY EmptySeq
<1>4. \A k \in 1 .. Len(<<>>) : h[k + 1] = After(h[k], <<>>[k])
  BY <1>3
<1> QED
  BY <1>2, <1>3, <1>4 DEF Leads

LEMMA LeadsEnds ==
  ASSUME NEW set, NEW M, NEW items \in Seq(M), NEW from, NEW to, Leads(set, from, items, to)
  PROVE  from \in set /\ to \in set /\ (items = <<>> => from = to)
<1>1. PICK h \in Seq(set) : /\ Len(h) = Len(items) + 1 /\ h[1] = from
                            /\ h[Len(items) + 1] = to
  BY DEF Leads
<1>2. Len(items) \in Nat
  BY LenProperties
<1>3. PICK n \in Nat : n = Len(items)
  BY <1>2
<1>4. 1 \in 1 .. Len(h) /\ n + 1 \in 1 .. Len(h)
  BY <1>1, <1>3
<1>5. h[1] \in set /\ h[n + 1] \in set
  BY <1>4, ElementOfSeq
<1>6. items = <<>> => n = 0
  BY <1>3, EmptySeq
<1> QED
  BY <1>1, <1>3, <1>5, <1>6

LEMMA LeadsOn ==
  ASSUME NEW set, NEW M, NEW items \in Seq(M), NEW from, NEW to, Leads(set, from, items, to),
         NEW e \in M, NEW next \in set
  PROVE  next = After(to, e) => Leads(set, from, Append(items, e), next)
<1>1. PICK h \in Seq(set) :
        /\ Len(h) = Len(items) + 1 /\ h[1] = from /\ h[Len(items) + 1] = to
        /\ \A k \in 1 .. Len(items) : h[k + 1] = After(h[k], items[k])
  BY DEF Leads
<1>2. PICK n : n = Len(items)
  OBVIOUS
<1>3. PICK longer, g : longer = Append(items, e) /\ g = Append(h, next)
  OBVIOUS
<1>4. n \in Nat /\ Len(longer) = n + 1 /\ longer[n + 1] = e /\ \A k \in 1 .. n : longer[k] = items[k]
  BY <1>2, <1>3, LenProperties, AppendProperties
<1>5. /\ g \in Seq(set) /\ Len(g) = n + 2 /\ g[n + 2] = next
      /\ \A k \in 1 .. n + 1 : g[k] = h[k]
  <2>1. Len(h) = n + 1 /\ n + 1 + 1 = n + 2
    BY <1>1, <1>2, <1>4
  <2> QED
    BY <1>3, <2>1, AppendProperties, SMTT(30)
<1>6. g[1] = from
  <2>1. 1 \in 1 .. n + 1
    BY <1>4
  <2> QED
    BY <1>1, <1>5, <2>1
<1>7. ASSUME next = After(to, e), NEW k \in 1 .. n + 1
      PROVE  g[k + 1] = After(g[k], longer[k])
  <2>1. CASE k \in 1 .. n
    <3>1. k + 1 \in 1 .. n + 1 /\ k \in 1 .. n + 1
      BY <1>4, <2>1
    <3>2. h[k + 1] = After(h[k], items[k])
      BY <1>1, <1>2, <2>1
    <3>3. g[k + 1] = h[k + 1] /\ g[k] = h[k] /\ longer[k] = items[k]
      BY <1>4, <1>5, <2>1, <3>1
    <3> QED
      BY <3>2, <3>3
  <2>2. CASE k = n + 1
    <3>1. g[n + 1] = to /\ n + 1 \in 1 .. n + 1
      <4>1. n + 1 \in 1 .. n + 1
        BY <1>4
      <4>2. g[n + 1] = h[n + 1]
        BY <1>5, <4>1
      <4>3. h[n + 1] = to
        BY <1>1, <1>2
      <4> QED
        BY <4>1, <4>2, <4>3
    <3>2. k + 1 = n + 2
      BY <1>4, <2>2
    <3> QED
      BY <1>4, <1>5, <1>7, <2>2, <3>1, <3>2
  <2> QED
    BY <1>4, <2>1, <2>2
<1>8. Len(longer) + 1 = n + 2
  BY <1>4
<1>9. next = After(to, e) => Leads(set, from, longer, next)
  BY <1>4, <1>5, <1>6, <1>7, <1>8, ZenonT(40) DEF Leads
<1> QED
  BY <1>3, <1>9

LEMMA LeadsRest ==
  ASSUME NEW set, NEW M, NEW items \in Seq(M), NEW from, NEW to, Leads(set, from, items, to),
         items # <<>>
  PROVE  Leads(set, After(from, Head(items)), Tail(items), to)
<1>1. PICK h \in Seq(set) :
        /\ Len(h) = Len(items) + 1 /\ h[1] = from /\ h[Len(items) + 1] = to
        /\ \A k \in 1 .. Len(items) : h[k + 1] = After(h[k], items[k])
  BY DEF Leads
<1>2. PICK n : n = Len(items)
  OBVIOUS
<1>3. PICK rest, g : rest = Tail(items) /\ g = Tail(h)
  OBVIOUS
<1>4. n \in Nat /\ n >= 1 /\ Len(rest) = n - 1 /\ Head(items) = items[1]
      /\ \A k \in 1 .. n - 1 : rest[k] = items[k + 1]
  BY <1>2, <1>3, LenProperties, EmptySeq, HeadTailProperties
<1>5. h # <<>> /\ Len(h) = n + 1
  BY <1>1, <1>2, <1>4, EmptySeq
<1>6. g \in Seq(set) /\ Len(g) = n /\ \A k \in 1 .. n : g[k] = h[k + 1]
  <2>1. g \in Seq(set) /\ Len(g) = Len(h) - 1 /\ \A k \in 1 .. Len(g) : g[k] = h[k + 1]
    BY <1>3, <1>5, HeadTailProperties
  <2>2. Len(g) = n
    BY <1>4, <1>5, <2>1
  <2> QED
    BY <2>1, <2>2
<1>7. g[1] = After(from, Head(items))
  BY <1>1, <1>2, <1>4, <1>6
<1>8. g[n] = to
  BY <1>1, <1>2, <1>4, <1>6, SMTT(30)
<1>9. ASSUME NEW k \in 1 .. n - 1 PROVE g[k + 1] = After(g[k], rest[k])
  <2>1. k \in 1 .. n /\ k + 1 \in 1 .. n
    BY <1>4
  <2>2. h[k + 1 + 1] = After(h[k + 1], items[k + 1])
    BY <1>1, <1>2, <2>1
  <2>3. g[k + 1] = h[k + 1 + 1] /\ g[k] = h[k + 1] /\ rest[k] = items[k + 1]
    BY <1>4, <1>6, <2>1
  <2> QED
    BY <2>2, <2>3
<1>10. Len(rest) + 1 = n
  BY <1>4
<1>11. Leads(set, After(from, Head(items)), rest, to)
  BY <1>4, <1>6, <1>7, <1>8, <1>9, <1>10 DEF Leads
<1> QED
  BY <1>3, <1>11

LEMMA LeadsInMore ==
  ASSUME NEW set, NEW more, set \subseteq more, NEW items, NEW from, NEW to,
         Leads(set, from, items, to)
  PROVE  Leads(more, from, items, to)
<1>1. \A h \in Seq(set) : h \in Seq(more)
  BY SeqMonotonic
<1> QED
  BY <1>1 DEF Leads

-----------------------------------------------------------------------------
(* The tree grows by a branch: blocks with new ids, after the first blocks  *)
(* of a chain.                                                              *)
Branch(c, keep, n, top, e) ==
  /\ e \in Seq(Blocks) /\ Len(e) = keep + n
  /\ \A k \in 1 .. keep : e[k] = c[k]
  /\ \A k \in 1 .. n : e[keep + k] = Block(top + k, IF k = 1 THEN c[keep].id ELSE top + k - 1)

Grown(c, keep, n, top, e) ==
  /\ Linked(e)
  /\ keep \in Nat /\ keep >= 1 /\ \A k \in 1 .. keep : k \in DOMAIN c /\ e[k] = c[k]
  /\ \A k \in 1 .. keep : e[k].id \in 0 .. top
  /\ \A k \in keep + 1 .. keep + n : e[k].id = top + (k - keep)

LEMMA BranchLinked ==
  ASSUME NEW top \in Nat, NEW c, IsChain(c, top), NEW keep \in 1 .. Len(c), NEW n \in Nat,
         NEW e, Branch(c, keep, n, top, e)
  PROVE  Grown(c, keep, n, top, e)
<1>1. /\ e \in Seq(Blocks) /\ Len(e) = keep + n
      /\ \A k \in 1 .. keep : e[k] = c[k]
      /\ \A k \in 1 .. n : e[keep + k] = Block(top + k, IF k = 1 THEN c[keep].id ELSE top + k - 1)
  BY DEF Branch
<1>2. Len(c) \in Nat /\ DOMAIN c = 1 .. Len(c) /\ keep \in Nat /\ keep >= 1 /\ keep <= Len(c)
      /\ \A k \in 1 .. keep : k \in DOMAIN c
      /\ \A i \in DOMAIN c : c[i].id \in 0 .. top
  BY ChainEnds
<1>3. \A k \in 1 .. keep : e[k].id \in 0 .. top
  BY <1>1, <1>2
<1>4. \A k \in 1 .. n : /\ e[keep + k].id = top + k
                        /\ e[keep + k].ancestor = IF k = 1 THEN c[keep].id ELSE top + k - 1
  <2> TAKE k \in 1 .. n
  <2>1. e[keep + k] = Block(top + k, IF k = 1 THEN c[keep].id ELSE top + k - 1)
    BY <1>1
  <2> QED
    BY <2>1 DEF Block
<1>5. ASSUME NEW k \in keep + 1 .. keep + n
      PROVE  /\ e[k].id = top + (k - keep)
             /\ e[k].ancestor = IF k = keep + 1 THEN c[keep].id ELSE top + (k - keep) - 1
  <2>1. k - keep \in 1 .. n /\ keep + (k - keep) = k /\ (k - keep = 1 <=> k = keep + 1)
    BY <1>2
  <2> QED
    BY <1>4, <2>1
<1>6. \A i \in 1 .. Len(c) - 1 : c[i + 1].id > c[i].id /\ c[i + 1].ancestor = c[i].id
  BY DEF IsChain, Linked
<1>7. ASSUME NEW i \in 1 .. Len(e) - 1
      PROVE  e[i + 1].id > e[i].id /\ e[i + 1].ancestor = e[i].id
  <2>0. i \in Nat /\ i >= 1 /\ i < keep + n
    BY <1>1, <1>2
  <2>1. CASE i < keep
    <3>1. i \in 1 .. Len(c) - 1 /\ i \in 1 .. keep /\ i + 1 \in 1 .. keep
      BY <1>2, <2>0, <2>1
    <3> QED
      BY <1>1, <1>6, <3>1
  <2>2. CASE i = keep
    <3>1. i + 1 \in keep + 1 .. keep + n /\ i \in 1 .. keep
      BY <1>2, <2>0, <2>2
    <3>2. e[i + 1].id = top + 1 /\ e[i + 1].ancestor = c[keep].id
      <4>1. top + (i + 1 - keep) = top + 1 /\ i + 1 = keep + 1
        BY <1>2, <2>0, <2>2
      <4> QED
        BY <1>5, <3>1, <4>1
    <3>3. e[i] = c[keep] /\ e[i].id \in 0 .. top
      BY <1>1, <1>3, <2>2, <3>1
    <3> QED
      BY <3>2, <3>3, SMTT(30)
  <2>3. CASE i > keep
    <3>1. i + 1 \in keep + 1 .. keep + n /\ i \in keep + 1 .. keep + n /\ i + 1 # keep + 1
      BY <1>2, <2>0, <2>3
    <3>2. e[i + 1].id = top + (i + 1 - keep) /\ e[i + 1].ancestor = top + (i + 1 - keep) - 1
          /\ e[i].id = top + (i - keep)
      BY <1>5, <3>1
    <3> QED
      BY <1>2, <2>0, <3>2
  <2> QED
    BY <1>2, <2>0, <2>1, <2>2, <2>3
<1> QED
  BY <1>1, <1>2, <1>3, <1>5, <1>7 DEF Linked, Grown

LEMMA TreeGrows ==
  ASSUME NEW tree, NEW top \in Nat, Tree(tree, top), NEW c \in tree,
         NEW keep \in 1 .. Len(c), NEW n \in Nat, NEW e, Branch(c, keep, n, top, e)
  PROVE  \E more : tree \subseteq more /\ Tree(more, top + n) /\ e \in more
<1> DEFINE P == {SubSeq(e, 1, m) : m \in 1 .. Len(e)}
           more == tree \cup P
<1>1. \A d \in tree : IsChain(d, top) /\ \A m \in 1 .. Len(d) : SubSeq(d, 1, m) \in tree
  BY DEF Tree
<1>2. /\ Linked(e)
      /\ keep \in Nat /\ keep >= 1 /\ \A k \in 1 .. keep : k \in DOMAIN c /\ e[k] = c[k]
      /\ \A k \in 1 .. keep : e[k].id \in 0 .. top
      /\ \A k \in keep + 1 .. keep + n : e[k].id = top + (k - keep)
  <2>1. Grown(c, keep, n, top, e)
    BY <1>1, BranchLinked
  <2> QED
    BY <2>1 DEF Grown
<1>3. e \in Seq(Blocks) /\ Len(e) = keep + n
  BY DEF Branch
<1>4. ASSUME NEW d \in P
      PROVE  \E m \in 1 .. Len(e) : /\ d \in Seq(Blocks) /\ Len(d) = m /\ DOMAIN d = 1 .. m /\ d # <<>>
                                    /\ \A i \in 1 .. m : d[i] = e[i] /\ i \in 1 .. Len(e)
  <2>1. PICK m \in 1 .. Len(e) : d = SubSeq(e, 1, m)
    OBVIOUS
  <2> HIDE DEF P, more
  <2>2. DOMAIN e = 1 .. Len(e)
    BY <1>3, LenProperties
  <2> QED
    <3>1. /\ d \in Seq(Blocks) /\ Len(d) = m /\ DOMAIN d = 1 .. m /\ d # <<>>
          /\ \A i \in 1 .. m : d[i] = e[i] /\ i \in DOMAIN e
      <4>1. e \in Seq(Blocks)
        BY <1>3
      <4> QED
        <5>1. d \in Seq(Blocks)
          BY <2>1, <4>1, FirstOnes
        <5>2. Len(d) = m /\ DOMAIN d = 1 .. m
          BY <2>1, <4>1, FirstOnes
        <5>3. d # <<>>
          BY <2>1, <4>1, FirstOnes
        <5>4. \A i \in 1 .. m : d[i] = e[i] /\ i \in DOMAIN e
          BY <2>1, <4>1, FirstOnes
        <5> QED
          BY <5>1, <5>2, <5>3, <5>4
    <3> QED
      BY <2>2, <3>1
<1>5. \A d \in P : IsChain(d, top + n)
  <2> SUFFICES ASSUME NEW d \in P PROVE IsChain(d, top + n)
    OBVIOUS
  <2>1. PICK m \in 1 .. Len(e) : /\ d \in Seq(Blocks) /\ Len(d) = m /\ DOMAIN d = 1 .. m /\ d # <<>>
                                 /\ \A i \in 1 .. m : d[i] = e[i] /\ i \in 1 .. Len(e)
    BY <1>4
  <2>2. d[1] = Block(Origin, Origin)
    <3>1. c[1] = Block(Origin, Origin)
      BY <1>1 DEF IsChain
    <3>2. 1 \in 1 .. m /\ 1 \in 1 .. keep
      BY <1>2, <1>3
    <3> QED
      BY <1>2, <2>1, <3>1, <3>2
  <2>3. Linked(d)
    <3> SUFFICES ASSUME NEW i \in 1 .. m - 1
                 PROVE  d[i + 1].id > d[i].id /\ d[i + 1].ancestor = d[i].id
      BY <2>1 DEF Linked
    <3>1. i \in 1 .. m /\ i + 1 \in 1 .. m /\ i \in 1 .. Len(e) - 1
      BY <1>2, <1>3
    <3>2. e[i + 1].id > e[i].id /\ e[i + 1].ancestor = e[i].id
      BY <1>2, <3>1 DEF Linked
    <3> QED
      BY <2>1, <3>1, <3>2
  <2>4. ASSUME NEW i \in 1 .. m PROVE d[i].id <= top + n
    <3>1. d[i] = e[i] /\ (i \in 1 .. keep \/ i \in keep + 1 .. keep + n)
      BY <1>2, <1>3, <2>1
    <3>2. CASE i \in 1 .. keep
      <4>1. e[i].id \in 0 .. top
        BY <1>2, <3>2
      <4> QED
        BY <3>1, <4>1, SMTT(30)
    <3>3. CASE i \in keep + 1 .. keep + n
      <4>1. e[i].id = top + (i - keep) /\ i - keep <= n /\ i - keep \in Int
        BY <1>2, <3>3
      <4> QED
        BY <3>1, <4>1
    <3> QED
      BY <3>1, <3>2, <3>3
  <2> QED
    BY <2>1, <2>2, <2>3, <2>4 DEF IsChain
<1>6. \A d \in tree : IsChain(d, top + n)
  <2> SUFFICES ASSUME NEW d \in tree PROVE IsChain(d, top + n)
    OBVIOUS
  <2>1. \A i \in DOMAIN d : d[i].id \in 0 .. top
    BY <1>1, ChainEnds
  <2>2. \A i \in DOMAIN d : d[i].id <= top + n
    BY <2>1
  <2> QED
    BY <1>1, <2>2 DEF IsChain
<1>7. \A d \in P : \A m \in 1 .. Len(d) : SubSeq(d, 1, m) \in P
  <2> SUFFICES ASSUME NEW d \in P, NEW m \in 1 .. Len(d) PROVE SubSeq(d, 1, m) \in P
    OBVIOUS
  <2>1. PICK j \in 1 .. Len(e) : /\ d \in Seq(Blocks) /\ Len(d) = j
                                 /\ \A i \in 1 .. j : d[i] = e[i]
    BY <1>4
  <2>2. m \in 1 .. Len(e) /\ m \in Nat
    BY <1>2, <1>3, <2>1
  <2>3. PICK x, y : x = SubSeq(d, 1, m) /\ y = SubSeq(e, 1, m)
    OBVIOUS
  <2>4. x \in Seq(Blocks) /\ Len(x) = m /\ \A i \in 1 .. m : x[i] = d[i]
    BY <2>1, <2>3, FirstOnes
  <2>5. y \in Seq(Blocks) /\ Len(y) = m /\ \A i \in 1 .. m : y[i] = e[i]
    BY <1>3, <2>2, <2>3, FirstOnes
  <2>6. \A i \in 1 .. m : i \in 1 .. j
    BY <1>2, <1>3, <2>1
  <2>7. x = y
    BY <2>1, <2>4, <2>5, <2>6, SeqEqual
  <2> QED
    BY <2>2, <2>3, <2>7
<1>8. \A d \in tree : \A i \in DOMAIN d : \A j \in 1 .. Len(e) :
        d[i].id = e[j].id => SamePlace(d, i, e, j)
  <2> SUFFICES ASSUME NEW d \in tree, NEW i \in DOMAIN d, NEW j \in 1 .. Len(e), d[i].id = e[j].id
               PROVE  SamePlace(d, i, e, j)
    OBVIOUS
  <2>1. d[i].id \in 0 .. top
    BY <1>1, ChainEnds
  <2>2. j \in 1 .. keep
    <3>1. j \in 1 .. keep \/ j \in keep + 1 .. keep + n
      BY <1>2, <1>3
    <3>2. j \in keep + 1 .. keep + n => e[j].id = top + (j - keep) /\ j - keep > 0 /\ j - keep \in Int
      BY <1>2, SMTT(30)
    <3> QED
      BY <2>1, <3>1, <3>2, SMTT(30)
  <2>3. e[j] = c[j] /\ j \in DOMAIN c
    BY <1>2, <2>2
  <2>4. SamePlace(d, i, c, j)
    BY <2>3 DEF Tree
  <2>5. i = j /\ \A k \in 1 .. i : d[k] = c[k]
    BY <2>4 DEF SamePlace
  <2>6. \A k \in 1 .. i : k \in 1 .. keep
    BY <1>2, <2>2, <2>5
  <2> QED
    BY <1>2, <2>5, <2>6 DEF SamePlace
<1>9. \A i, j \in 1 .. Len(e) : e[i].id = e[j].id => i = j
  <2> SUFFICES ASSUME NEW i \in 1 .. Len(e), NEW j \in 1 .. Len(e), e[i].id = e[j].id
               PROVE  i = j
    OBVIOUS
  <2>1. /\ i \in 1 .. keep \/ i \in keep + 1 .. keep + n
        /\ j \in 1 .. keep \/ j \in keep + 1 .. keep + n
    BY <1>2, <1>3
  <2>2. CASE i \in 1 .. keep
    <3>1. e[i] = c[i] /\ i \in DOMAIN c /\ c \in tree
      BY <1>2, <2>2
    <3>2. c[i].id = e[j].id
      BY <3>1
    <3>3. SamePlace(c, i, e, j)
      BY <1>8, <3>1, <3>2
    <3> QED
      BY <3>3 DEF SamePlace
  <2>3. CASE j \in 1 .. keep
    <3>1. e[j] = c[j] /\ j \in DOMAIN c /\ c \in tree
      BY <1>2, <2>3
    <3>2. c[j].id = e[i].id
      BY <3>1
    <3>3. SamePlace(c, j, e, i)
      BY <1>8, <3>1, <3>2
    <3> QED
      BY <3>3 DEF SamePlace
  <2>4. CASE i \in keep + 1 .. keep + n /\ j \in keep + 1 .. keep + n
    <3>1. top + (i - keep) = top + (j - keep)
      BY <1>2, <2>4
    <3> QED
      BY <1>2, <2>4, <3>1
  <2> QED
    BY <2>1, <2>2, <2>3, <2>4
<1>10. \A d \in more, x \in more : \A i \in DOMAIN d : \A j \in DOMAIN x :
         d[i].id = x[j].id => SamePlace(d, i, x, j)
  <2> SUFFICES ASSUME NEW d \in more, NEW x \in more, NEW i \in DOMAIN d, NEW j \in DOMAIN x,
                      d[i].id = x[j].id
               PROVE  SamePlace(d, i, x, j)
    OBVIOUS
  <2> DEFINE OfBranch(y) ==
               \E m \in 1 .. Len(e) : DOMAIN y = 1 .. m /\ \A k \in 1 .. m : y[k] = e[k] /\ k \in 1 .. Len(e)
  <2>1. (d \in tree \/ OfBranch(d)) /\ (x \in tree \/ OfBranch(x))
    BY <1>4
  <2> HIDE DEF P
  <2>2. CASE d \in tree /\ x \in tree
    BY <2>2 DEF Tree
  <2>3. CASE d \in tree /\ OfBranch(x)
    <3>1. PICK m \in 1 .. Len(e) : DOMAIN x = 1 .. m /\ \A k \in 1 .. m : x[k] = e[k] /\ k \in 1 .. Len(e)
      BY <2>3
    <3>2. x[j] = e[j] /\ j \in 1 .. Len(e) /\ j \in 1 .. m
      BY <3>1
    <3>3. SamePlace(d, i, e, j)
      BY <1>8, <2>3, <3>2
    <3>4. i = j /\ \A k \in 1 .. i : d[k] = e[k]
      BY <3>3 DEF SamePlace
    <3>5. \A k \in 1 .. i : k \in 1 .. m
      BY <3>2, <3>4, <1>2, <1>3
    <3> QED
      BY <3>1, <3>4, <3>5 DEF SamePlace
  <2>4. CASE OfBranch(d) /\ x \in tree
    <3>1. PICK m \in 1 .. Len(e) : DOMAIN d = 1 .. m /\ \A k \in 1 .. m : d[k] = e[k] /\ k \in 1 .. Len(e)
      BY <2>4
    <3>2. d[i] = e[i] /\ i \in 1 .. Len(e) /\ i \in 1 .. m
      BY <3>1
    <3>3. SamePlace(x, j, e, i)
      BY <1>8, <2>4, <3>2
    <3>4. i = j /\ \A k \in 1 .. i : x[k] = e[k]
      BY <3>3 DEF SamePlace
    <3>5. \A k \in 1 .. i : k \in 1 .. m
      BY <3>2, <3>4, <1>2, <1>3
    <3> QED
      BY <3>1, <3>4, <3>5 DEF SamePlace
  <2>5. CASE OfBranch(d) /\ OfBranch(x)
    <3>1. PICK m \in 1 .. Len(e) : DOMAIN d = 1 .. m /\ \A k \in 1 .. m : d[k] = e[k] /\ k \in 1 .. Len(e)
      BY <2>5
    <3>2. PICK l \in 1 .. Len(e) : DOMAIN x = 1 .. l /\ \A k \in 1 .. l : x[k] = e[k] /\ k \in 1 .. Len(e)
      BY <2>5
    <3>3. i \in 1 .. m /\ j \in 1 .. l /\ d[i] = e[i] /\ x[j] = e[j]
          /\ i \in 1 .. Len(e) /\ j \in 1 .. Len(e)
      BY <3>1, <3>2
    <3>4. i = j
      BY <1>9, <3>3
    <3>5. \A k \in 1 .. i : k \in 1 .. m /\ k \in 1 .. l
      BY <3>3, <3>4, <1>2, <1>3, SMTT(30)
    <3> QED
      BY <3>1, <3>2, <3>4, <3>5 DEF SamePlace
  <2> QED
    BY <2>1, <2>2, <2>3, <2>4, <2>5
<1>11. e \in P
  <2>1. Len(e) \in 1 .. Len(e) /\ SubSeq(e, 1, Len(e)) = e
    <3>1. Len(e) \in 1 .. Len(e)
      BY <1>2, <1>3
    <3> QED
      BY <1>3, <3>1, SubSeqFull
  <2> QED
    BY <2>1
<1> HIDE DEF P
<1>12. Tree(more, top + n)
  <2>1. \A d \in more : IsChain(d, top + n) /\ \A m \in 1 .. Len(d) : SubSeq(d, 1, m) \in more
    BY <1>1, <1>5, <1>6, <1>7
  <2> QED
    BY <1>10, <2>1 DEF Tree
<1> QED
  BY <1>11, <1>12

-----------------------------------------------------------------------------
(* The program's chain, and what it becomes with the rolls its handlers     *)
(* have, those that wait for one, and those on their way: with the last of  *)
(* them it is the node's idea of it.  That idea changes without a roll when *)
(* an intersection is found, and there is nothing to agree on before.       *)
Untouched ==
  /\ ~rewound
  /\ applied = <<>> /\ running = <<>> /\ tasks = <<>>
  /\ \A i \in 1 .. Len(requests) : Finds(requests[i])
  /\ \A i \in 1 .. Len(messages) : Finds(messages[i]) /\ ~messages[i].found

Follows(c) == rewound \/ c = follower \/ Untouched

TracedBy(set, m, n, t) ==
  /\ applied \in set
  /\ running = <<>> => m = applied
  /\ running # <<>> => m = After(applied, running[1].message)
  /\ Leads(set, m, tasks, n)
  /\ Leads(set, n, messages, t)
  /\ Follows(t)

Traced(tree) == \E m, n, t : TracedBy(tree \cup {<<>>}, m, n, t)

RootedIn(tree) ==
  /\ Tree(tree, minted)
  /\ chain \in tree /\ follower \in tree
  /\ sequential /\ failed = 0 => Traced(tree)

-----------------------------------------------------------------------------
(* What the server does: the response, and its idea of the program's chain. *)
Found(tree, request, message) ==
  /\ request = Head(requests) /\ request \in Requests /\ Finds(request)
  /\ message \in Intersections /\ message.resume = request.resume /\ message.tip <= minted
  /\ messages' = Append(messages, message)
  /\ follower' \in tree
  /\ message.found => rewound' = TRUE /\ TipOf(follower') = request.point
  /\ ~message.found => follower' = follower /\ rewound' = rewound

LEMMA FoundPoint ==
  ASSUME Typed, NEW tree, RootedIn(tree), FindsIntersection
  PROVE  \E request, message : Found(tree, request, message)
<1>0. minted \in Nat /\ MaxBlocks \in Nat
  BY DEF Typed
<1>1. Tree(tree, minted) /\ chain \in tree /\ follower \in tree
  BY DEF RootedIn
<1>2. PICK request : request = Head(requests)
  OBVIOUS
<1>3. requests # <<>> /\ request \in Requests
  BY <1>2, HeadTailProperties DEF FindsIntersection, Typed
<1>4. PICK found : found = Knows(chain, request.point)
  OBVIOUS
<1>5. found \in BOOLEAN
  BY <1>4 DEF Knows
<1>6. /\ messages' = Append(messages, Intersection(request.resume, found, TipOf(chain)))
      /\ follower' = IF found THEN UpTo(chain, request.point) ELSE follower
      /\ rewound' = (rewound \/ found)
      /\ request.method = "findIntersection"
  BY <1>2, <1>4 DEF FindsIntersection
<1>7. IsChain(chain, minted)
  BY <1>1 DEF Tree
<1>8. PICK tip : tip = TipOf(chain)
  OBVIOUS
<1>9. tip \in 0 .. minted
  BY <1>0, <1>7, <1>8, ChainEnds
<1>10. PICK message : message = Intersection(request.resume, found, tip)
  OBVIOUS
<1>11. /\ message \in Intersections /\ message.resume = request.resume
       /\ message.tip = tip /\ message.found = found
  BY <1>0, <1>3, <1>5, <1>9, <1>10 DEF Intersection, Intersections, Requests
<1>12. found => UpTo(chain, request.point) \in tree /\ TipOf(UpTo(chain, request.point)) = request.point
  <2>1. ASSUME found
        PROVE  /\ UpTo(chain, request.point) \in tree
               /\ TipOf(UpTo(chain, request.point)) = request.point
    <3>1. Knows(chain, request.point)
      BY <1>4, <2>1
    <3> QED
      BY <1>0, <1>1, <3>1, UpToPoint
  <2> QED
    BY <2>1
<1>13. PICK f : f = follower'
  OBVIOUS
<1>14. f \in tree /\ (found => TipOf(f) = request.point) /\ (~found => f = follower)
  BY <1>1, <1>6, <1>12, <1>13
<1>15. message.found => rewound' = TRUE
  BY <1>6, <1>11
<1>16. ~message.found => rewound' = rewound
  BY <1>6, <1>11 DEF Typed
<1>17. Found(tree, request, message)
  BY <1>0, <1>2, <1>3, <1>6, <1>8, <1>9, <1>10, <1>11, <1>13, <1>14, <1>15, <1>16 DEF Found, Finds
<1> QED
  BY <1>17

Served(tree, roll) ==
  /\ roll \in Rolls /\ ~Finds(roll)
  /\ messages' = Append(messages, roll)
  /\ follower' \in tree
  /\ \A c \in tree \cup {<<>>} : rewound \/ c = follower => After(c, roll) = follower'
  /\ rewound =>
       /\ roll.direction = "backward"
       /\ roll.block.id = TipOf(follower) \/ ~Knows(chain, TipOf(follower))

LEMMA ServedRoll ==
  ASSUME Typed, NEW tree, RootedIn(tree), ServesBlock
  PROVE  \E roll : Served(tree, roll)
<1>0. minted \in Nat /\ rewound \in BOOLEAN
  BY DEF Typed
<1>1. Tree(tree, minted) /\ chain \in tree /\ follower \in tree
  BY DEF RootedIn
<1>2. PICK s : s = LongestCommonPrefix({chain, follower})
  OBVIOUS
<1>3. PICK b : b = chain[Len(follower) + 1]
  OBVIOUS
<1>4. \/ /\ rewound \/ s # follower
         /\ messages' = Append(messages, RollBackward(s, rewound))
         /\ follower' = s
      \/ /\ ~rewound /\ s = follower /\ Len(chain) > Len(follower)
         /\ messages' = Append(messages, RollForward(b))
         /\ follower' = Append(follower, b)
  BY <1>2, <1>3 DEF ServesBlock
<1>5. PartOf(tree, chain, follower, s)
  BY <1>0, <1>1, <1>2, SharedPart
<1>6. /\ s \in tree
      /\ Knows(follower, TipOf(s)) /\ UpTo(follower, TipOf(s)) = s
      /\ Knows(chain, TipOf(follower)) => s = follower
  BY <1>0, <1>1, <1>5, SharedIs
<1>7. IsChain(s, minted)
  BY <1>1, <1>6 DEF Tree
<1>8. s \in Seq(Blocks) /\ s # <<>> /\ Last(s) \in Blocks /\ TipOf(s) = Last(s).id
  BY <1>0, <1>7, ChainEnds DEF IsChain, TipOf
<1>9. CASE /\ rewound \/ s # follower
           /\ messages' = Append(messages, RollBackward(s, rewound))
           /\ follower' = s
  <2>1. PICK roll : roll = RollBackward(s, rewound)
    OBVIOUS
  <2>2. roll.method = "nextBlock" /\ roll.direction = "backward" /\ roll.block = Last(s)
        /\ roll.base = IF rewound THEN s ELSE <<>>
    BY <2>1 DEF RollBackward
  <2>3. roll \in Rolls
    <3>1. (IF rewound THEN s ELSE <<>>) \in Seq(Blocks)
      BY <1>8, EmptySeq
    <3> QED
      BY <1>8, <2>1, <3>1 DEF RollBackward, Rolls
  <2>4. ~Finds(roll)
    BY <2>2 DEF Finds
  <2>5. ASSUME NEW c \in tree \cup {<<>>}, rewound \/ c = follower PROVE After(c, roll) = s
    <3>1. CASE Knows(c, TipOf(s))
      <4>1. c # <<>>
        BY <3>1, EmptySeq DEF Knows
      <4>2. c \in tree
        BY <2>5, <4>1
      <4>3. UpTo(c, TipOf(s)) = s
        BY <1>0, <1>1, <1>6, <3>1, <4>2, UpToTip
      <4> QED
        BY <1>8, <2>2, <2>4, <3>1, <4>3 DEF After
    <3>2. CASE ~Knows(c, TipOf(s))
      <4>1. rewound
        BY <1>6, <2>5, <3>2
      <4>2. roll.base = s
        BY <2>2, <4>1
      <4> QED
        BY <1>8, <2>2, <2>4, <3>2, <4>2 DEF After
    <3> QED
      BY <3>1, <3>2
  <2>6. roll.block.id = TipOf(follower) \/ ~Knows(chain, TipOf(follower))
    BY <1>6, <1>8, <2>2
  <2>7. Served(tree, roll)
    BY <1>6, <1>9, <2>1, <2>2, <2>3, <2>4, <2>5, <2>6 DEF Served
  <2> QED
    BY <2>7
<1>10. CASE /\ ~rewound /\ s = follower /\ Len(chain) > Len(follower)
            /\ messages' = Append(messages, RollForward(b))
            /\ follower' = Append(follower, b)
  <2>1. PICK roll : roll = RollForward(b)
    OBVIOUS
  <2>2. Append(follower, b) \in tree /\ b \in Blocks
    BY <1>0, <1>1, <1>2, <1>3, <1>10, OneBlockMore
  <2>3. roll.method = "nextBlock" /\ roll.direction = "forward" /\ roll.block = b
    BY <2>1 DEF RollForward
  <2>4. roll \in Rolls
    BY <2>1, <2>2, EmptySeq DEF RollForward, Rolls
  <2>5. ~Finds(roll)
    BY <2>3 DEF Finds
  <2>6. After(follower, roll) = Append(follower, b)
    BY <2>3, <2>5 DEF After
  <2>7. Served(tree, roll)
    BY <1>10, <2>1, <2>2, <2>4, <2>5, <2>6 DEF Served
  <2> QED
    BY <2>7
<1> QED
  BY <1>4, <1>9, <1>10

(* The node adopts blocks: what its chain has lost, it never has again.     *)
Adopted(tree, more) ==
  /\ tree \subseteq more /\ Tree(more, minted') /\ chain' \in more
  /\ minted' \in 0 .. MaxBlocks /\ minted <= minted'
  /\ \A p \in 0 .. minted : Knows(chain', p) => Knows(chain, p)

LEMMA AdoptGrows ==
  ASSUME Typed, NEW tree, RootedIn(tree), NEW dropped \in 0 .. MaxRollback, Adopt(dropped)
  PROVE  \E more : Adopted(tree, more)
<1>0. minted \in Nat /\ MaxBlocks \in Nat /\ dropped \in Nat
  BY DEF Typed
<1>1. Tree(tree, minted) /\ chain \in tree
  BY DEF RootedIn
<1>2. IsChain(chain, minted)
  BY <1>1 DEF Tree
<1>3. chain \in Seq(Blocks) /\ Len(chain) \in Nat /\ Len(chain) >= 1 /\ DOMAIN chain = 1 .. Len(chain)
  BY <1>0, <1>2, ChainEnds DEF IsChain
<1>4. PICK keep, n : keep = Len(chain) - dropped /\ n = IF dropped = 0 THEN 1 ELSE dropped
  OBVIOUS
<1>5. n \in Nat /\ n >= 1 /\ minted + n <= MaxBlocks /\ dropped < Len(chain) /\ minted' = minted + n
  BY <1>0, <1>4 DEF Adopt
<1>6. keep \in 1 .. Len(chain) /\ keep \in Nat
  BY <1>0, <1>3, <1>4, <1>5
<1>7. PICK s : s = SubSeq(chain, 1, keep)
  OBVIOUS
<1>8. PICK new :
        new = [i \in 1 .. (minted + (IF dropped = 0 THEN 1 ELSE dropped)) - minted |->
                 Block(minted + i,
                       IF i = 1 THEN chain[Len(chain) - dropped].id ELSE minted + i - 1)]
  OBVIOUS
<1>9. chain' = s \o new
  <2>1. chain' = SubSeq(chain, 1, Len(chain) - dropped) \o new
    BY <1>8 DEF Adopt
  <2> QED
    BY <1>4, <1>7, <2>1
<1>10. s \in Seq(Blocks) /\ Len(s) = keep /\ \A i \in 1 .. keep : s[i] = chain[i]
  BY <1>3, <1>6, <1>7, FirstOnes
<1>11. new \in Seq(Blocks) /\ Len(new) = n
       /\ \A i \in 1 .. n :
            new[i] = Block(minted + i, IF i = 1 THEN chain[keep].id ELSE minted + i - 1)
  <2>0. /\ DOMAIN new = 1 .. n
        /\ new = [i \in 1 .. n |-> new[i]]
        /\ \A i \in 1 .. n :
             new[i] = Block(minted + i, IF i = 1 THEN chain[keep].id ELSE minted + i - 1)
    <3>1. (minted + (IF dropped = 0 THEN 1 ELSE dropped)) - minted = n
      BY <1>0, <1>4
    <3> QED
      BY <1>4, <1>8, <3>1
  <2>1. chain[keep].id \in Nat
    BY <1>0, <1>2, <1>6, <1>3, ChainEnds
  <2>2. ASSUME NEW i \in 1 .. n PROVE new[i] \in Blocks
    <3>1. new[i] = [id |-> minted + i, ancestor |-> IF i = 1 THEN chain[keep].id ELSE minted + i - 1]
      BY <2>0 DEF Block
    <3>2. minted + i \in Nat /\ minted + i - 1 \in Nat
      BY <1>0, <1>5
    <3> QED
      BY <2>1, <3>1, <3>2 DEF Blocks
  <2>3. new \in [1 .. n -> Blocks]
    BY <2>0, <2>2
  <2>4. new \in Seq(Blocks)
    BY <1>5, <2>3, SeqDef
  <2>5. Len(new) = n
    <3>1. DOMAIN new = 1 .. n /\ DOMAIN new = 1 .. Len(new) /\ Len(new) \in Nat
      BY <2>3, <2>4, LenProperties
    <3> QED
      BY <1>5, <3>1
  <2> QED
    BY <2>0, <2>4, <2>5
<1>12. PICK e : e = s \o new
  OBVIOUS
<1>13. e \in Seq(Blocks) /\ Len(e) = keep + n
       /\ \A i \in 1 .. keep + n : e[i] = IF i <= keep THEN s[i] ELSE new[i - keep]
  <2>1. /\ e \in Seq(Blocks) /\ Len(e) = Len(s) + Len(new)
        /\ \A i \in 1 .. Len(s) + Len(new) : e[i] = IF i <= Len(s) THEN s[i] ELSE new[i - Len(s)]
    <3>1. s \in Seq(Blocks) /\ new \in Seq(Blocks)
      BY <1>10, <1>11
    <3> QED
      BY <1>12, <3>1, ConcatProperties
  <2>2. Len(s) = keep /\ Len(new) = n
    BY <1>10, <1>11
  <2> QED
    BY <2>1, <2>2
<1>14. Branch(chain, keep, n, minted, e)
  <2>1. ASSUME NEW i \in 1 .. keep PROVE e[i] = chain[i]
    <3>1. i \in 1 .. keep + n /\ i <= keep
      BY <1>5, <1>6
    <3> QED
      BY <1>10, <1>13, <3>1
  <2>2. ASSUME NEW i \in 1 .. n
        PROVE  e[keep + i] = Block(minted + i, IF i = 1 THEN chain[keep].id ELSE minted + i - 1)
    <3>1. keep + i \in 1 .. keep + n /\ ~(keep + i <= keep) /\ keep + i - keep = i
      BY <1>5, <1>6
    <3>2. e[keep + i] = new[i]
      <4>1. PICK k : k = keep + i
        OBVIOUS
      <4>2. k \in 1 .. keep + n /\ ~(k <= keep) /\ k - keep = i
        BY <1>5, <1>6, <4>1
      <4>3. e[k] = new[k - keep]
        BY <1>13, <4>2
      <4> QED
        BY <4>1, <4>2, <4>3
    <3> QED
      BY <1>11, <3>2
  <2> QED
    BY <1>13, <2>1, <2>2 DEF Branch
<1>15. PICK more : tree \subseteq more /\ Tree(more, minted + n) /\ e \in more
  BY <1>0, <1>1, <1>5, <1>6, <1>14, TreeGrows
<1>16. Grown(chain, keep, n, minted, e)
  BY <1>0, <1>2, <1>5, <1>6, <1>14, BranchLinked
<1>17. ASSUME NEW p \in 0 .. minted, Knows(e, p) PROVE Knows(chain, p)
  <2>1. PICK k \in DOMAIN e : e[k].id = p
    BY <1>17 DEF Knows
  <2>2. k \in 1 .. keep + n
    BY <1>13, <2>1, LenProperties
  <2>3. k \in 1 .. keep
    <3>1. k \in 1 .. keep \/ k \in keep + 1 .. keep + n
      BY <1>5, <1>6, <2>2
    <3>2. k \in keep + 1 .. keep + n => e[k].id = minted + (k - keep) /\ k - keep > 0 /\ k - keep \in Int
      BY <1>5, <1>6, <1>16, SMTT(30) DEF Grown
    <3> QED
      BY <1>0, <2>1, <3>1, <3>2
  <2>4. k \in DOMAIN chain /\ e[k] = chain[k]
    BY <1>16, <2>3 DEF Grown
  <2> QED
    BY <2>1, <2>4 DEF Knows
<1>18. minted' \in 0 .. MaxBlocks /\ minted <= minted'
  BY <1>0, <1>5
<1>19. PICK c : c = chain'
  OBVIOUS
<1>20. c = e
  BY <1>9, <1>12, <1>19
<1>21. Adopted(tree, more)
  BY <1>5, <1>15, <1>17, <1>18, <1>19, <1>20 DEF Adopted
<1> QED
  BY <1>21

-----------------------------------------------------------------------------
(* A sequence without its element k.                                        *)
Without(S, s, k, t) ==
  /\ t \in Seq(S) /\ Len(t) = Len(s) - 1
  /\ \A i \in 1 .. Len(s) - 1 : (i < k => t[i] = s[i]) /\ (i >= k => t[i] = s[i + 1])

LEMMA RemovedAt ==
  ASSUME NEW S, NEW s \in Seq(S), NEW k \in 1 .. Len(s), NEW t, t = RemoveAt(s, k)
  PROVE  Without(S, s, k, t)
<1> DEFINE n == Len(s)
           a == SubSeq(s, 1, k - 1)
           b == SubSeq(s, k + 1, n)
<1>1. n \in Nat /\ k \in Nat /\ 1 <= k /\ k <= n /\ \A i \in 1 .. n : s[i] \in S
  BY LenProperties, ElementOfSeq
<1>2. t = a \o b
  BY DEF RemoveAt
<1>3. /\ a \in Seq(S) /\ Len(a) = k - 1
      /\ \A i \in 1 .. k - 1 : a[i] = s[i]
  <2>1. \A i \in 1 .. k - 1 : s[i] \in S
    BY <1>1
  <2>2. /\ a \in Seq(S)
        /\ Len(a) = IF 1 <= k - 1 THEN k - 1 - 1 + 1 ELSE 0
        /\ \A i \in 1 .. k - 1 - 1 + 1 : a[i] = s[1 + i - 1]
    BY <1>1, <2>1, SubSeqProperties
  <2> QED
    BY <1>1, <2>2
<1>4. /\ b \in Seq(S) /\ Len(b) = n - k
      /\ \A i \in 1 .. n - k : b[i] = s[k + i]
  <2>1. \A i \in k + 1 .. n : s[i] \in S
    BY <1>1
  <2>2. /\ b \in Seq(S)
        /\ Len(b) = IF k + 1 <= n THEN n - (k + 1) + 1 ELSE 0
        /\ \A i \in 1 .. n - (k + 1) + 1 : b[i] = s[k + 1 + i - 1]
    BY <1>1, <2>1, SubSeqProperties
  <2> QED
    BY <1>1, <2>2
<1> HIDE DEF a, b, n
<1>5. /\ t \in Seq(S) /\ Len(t) = Len(a) + Len(b)
      /\ \A i \in 1 .. Len(a) + Len(b) :
           t[i] = IF i <= Len(a) THEN a[i] ELSE b[i - Len(a)]
  BY <1>2, <1>3, <1>4, ConcatProperties, SMTT(30)
<1>6. Len(t) = n - 1
  BY <1>1, <1>3, <1>4, <1>5
<1>7. ASSUME NEW i \in 1 .. n - 1
      PROVE  (i < k => t[i] = s[i]) /\ (i >= k => t[i] = s[i + 1])
  <2>1. i \in 1 .. Len(a) + Len(b)
    BY <1>1, <1>3, <1>4
  <2>2. CASE i < k
    <3>1. i \in 1 .. k - 1 /\ i <= Len(a)
      BY <1>1, <1>3, <2>2
    <3>2. t[i] = a[i]
      BY <1>5, <2>1, <3>1
    <3> QED
      BY <1>3, <2>2, <3>1, <3>2
  <2>3. CASE i >= k
    <3>1. t[i] = b[i - (k - 1)] /\ i - (k - 1) \in 1 .. n - k
      BY <1>1, <1>3, <1>5, <2>1, <2>3
    <3>2. b[i - (k - 1)] = s[k + (i - (k - 1))]
      BY <1>4, <3>1
    <3>3. k + (i - (k - 1)) = i + 1
      BY <1>1
    <3> QED
      BY <2>3, <3>1, <3>2, <3>3
  <2> QED
    BY <1>1, <2>2, <2>3
<1> QED
  BY <1>5, <1>6, <1>7 DEF n, Without

(* The elements of a sequence of requests or responses; the calls of        *)
(* resume() among them; and that each of those has one.                     *)
Elements(s) == {s[i] : i \in 1 .. Len(s)}
Asking(s)   == {x.resume : x \in {y \in Elements(s) : Finds(y)}}
Distinct(s) ==
  \A i, j \in 1 .. Len(s) :
    Finds(s[i]) /\ Finds(s[j]) /\ s[i].resume = s[j].resume => i = j

AskedBy(e, r) == Finds(e) /\ e.resume = r

LEMMA AskingMeans ==
  ASSUME NEW s, NEW r
  PROVE  r \in Asking(s) <=> \E i \in 1 .. Len(s) : AskedBy(s[i], r)
BY DEF Asking, AskedBy, Elements

TakenOut(s, t, e) ==
  /\ e \in Elements(s) /\ Elements(t) \subseteq Elements(s)
  /\ Distinct(s) =>
       /\ Distinct(t)
       /\ \A r : r \in Asking(t) <=> r \in Asking(s) /\ ~AskedBy(e, r)

LEMMA OneTakenOut ==
  ASSUME NEW M, NEW s \in Seq(M), NEW k \in 1 .. Len(s), NEW t, Without(M, s, k, t)
  PROVE  TakenOut(s, t, s[k])
<1> DEFINE at(i) == IF i < k THEN i ELSE i + 1
<1>0. t \in Seq(M) /\ Len(t) = Len(s) - 1
      /\ \A i \in 1 .. Len(s) - 1 : (i < k => t[i] = s[i]) /\ (i >= k => t[i] = s[i + 1])
  BY DEF Without
<1>1. Len(s) \in Nat /\ k \in Nat /\ 1 <= k /\ k <= Len(s) /\ Len(t) = Len(s) - 1
  BY <1>0, LenProperties
<1>2. \A i \in 1 .. Len(t) : i \in Nat /\ at(i) \in 1 .. Len(s) /\ at(i) # k /\ t[i] = s[at(i)]
  BY <1>0, <1>1
<1>3. \A i, j \in 1 .. Len(t) : at(i) = at(j) => i = j
  BY <1>1
<1>4. \A j \in 1 .. Len(s) : j # k => \E i \in 1 .. Len(t) : at(i) = j
  <2> SUFFICES ASSUME NEW j \in 1 .. Len(s), j # k PROVE \E i \in 1 .. Len(t) : at(i) = j
    OBVIOUS
  <2>1. CASE j < k
    <3>1. j \in 1 .. Len(t) /\ at(j) = j
      BY <1>1, <2>1
    <3> QED
      BY <3>1
  <2>2. CASE j > k
    <3>1. j - 1 \in 1 .. Len(t) /\ at(j - 1) = j
      BY <1>1, <2>2
    <3> QED
      BY <3>1
  <2> QED
    BY <1>1, <2>1, <2>2
<1> HIDE DEF at
<1>5. Elements(t) \subseteq Elements(s) /\ s[k] \in Elements(s)
  BY <1>2 DEF Elements
<1>6. ASSUME Distinct(s) PROVE Distinct(t)
  <2> SUFFICES ASSUME NEW i \in 1 .. Len(t), NEW j \in 1 .. Len(t),
                      Finds(t[i]), Finds(t[j]), t[i].resume = t[j].resume
               PROVE  i = j
    BY DEF Distinct
  <2>1. at(i) = at(j)
    <3>1. PICK x, y : x = at(i) /\ y = at(j)
      OBVIOUS
    <3>2. x \in 1 .. Len(s) /\ y \in 1 .. Len(s) /\ t[i] = s[x] /\ t[j] = s[y]
      BY <1>2, <3>1
    <3>3. x = y
      BY <1>6, <3>2 DEF Distinct
    <3> QED
      BY <3>1, <3>3
  <2> QED
    BY <1>3, <2>1
<1>7. ASSUME Distinct(s), NEW r
      PROVE  r \in Asking(t) <=> r \in Asking(s) /\ ~AskedBy(s[k], r)
  <2>1. ASSUME r \in Asking(t) PROVE r \in Asking(s) /\ ~AskedBy(s[k], r)
    <3>1. PICK i \in 1 .. Len(t) : AskedBy(t[i], r)
      BY <2>1, AskingMeans
    <3>2. at(i) \in 1 .. Len(s) /\ at(i) # k /\ AskedBy(s[at(i)], r)
      BY <1>2, <3>1
    <3>3. r \in Asking(s)
      BY <3>2, AskingMeans
    <3>4. ~AskedBy(s[k], r)
      BY <1>7, <3>2 DEF Distinct, AskedBy
    <3> QED
      BY <3>3, <3>4
  <2>2. ASSUME r \in Asking(s), ~AskedBy(s[k], r) PROVE r \in Asking(t)
    <3>1. PICK j \in 1 .. Len(s) : AskedBy(s[j], r)
      BY <2>2, AskingMeans
    <3>2. j # k
      BY <2>2, <3>1
    <3>3. PICK i \in 1 .. Len(t) : at(i) = j
      BY <1>4, <3>2
    <3>4. AskedBy(t[i], r)
      BY <1>2, <3>1, <3>3
    <3> QED
      BY <3>4, AskingMeans
  <2> QED
    BY <2>1, <2>2
<1> QED
  BY <1>5, <1>6, <1>7 DEF TakenOut

LEMMA HeadTakenOut ==
  ASSUME NEW M, NEW s \in Seq(M), s # <<>>
  PROVE  TakenOut(s, Tail(s), Head(s))
<1>1. PICK t : t = Tail(s)
  OBVIOUS
<1>2. t \in Seq(M) /\ Len(t) = Len(s) - 1 /\ \A i \in 1 .. Len(t) : t[i] = s[i + 1]
  BY <1>1, HeadTailProperties
<1>3. Len(s) \in Nat /\ 1 \in 1 .. Len(s) /\ Head(s) = s[1]
  BY LenProperties, EmptySeq
<1>4. Without(M, s, 1, t)
  BY <1>2, <1>3 DEF Without
<1>5. TakenOut(s, t, s[1])
  BY <1>3, <1>4, OneTakenOut
<1> QED
  BY <1>1, <1>3, <1>5

LEMMA ThisTakenOut ==
  ASSUME NEW M, NEW s \in Seq(M), NEW k \in 1 .. Len(s)
  PROVE  TakenOut(s, RemoveAt(s, k), s[k]) /\ RemoveAt(s, k) \in Seq(M)
<1>1. PICK t : t = RemoveAt(s, k)
  OBVIOUS
<1>2. Without(M, s, k, t)
  BY <1>1, RemovedAt
<1>3. TakenOut(s, t, s[k])
  BY <1>2, OneTakenOut
<1> QED
  BY <1>1, <1>2, <1>3 DEF Without

PutIn(s, t, e) ==
  /\ \A x \in Elements(t) : x \in Elements(s) \/ x = e
  /\ \A r : r \in Asking(t) <=> r \in Asking(s) \/ AskedBy(e, r)
  /\ Distinct(s) /\ (\A r \in Asking(s) : ~AskedBy(e, r)) => Distinct(t)

LEMMA OnePutIn ==
  ASSUME NEW M, NEW s \in Seq(M), NEW e \in M
  PROVE  PutIn(s, Append(s, e), e)
<1>1. PICK t : t = Append(s, e)
  OBVIOUS
<1>2. PICK n : n = Len(s)
  OBVIOUS
<1>3. n \in Nat /\ Len(t) = n + 1 /\ t[n + 1] = e /\ \A i \in 1 .. n : t[i] = s[i]
  BY <1>1, <1>2, LenProperties, AppendProperties
<1>4. \A i \in 1 .. n + 1 : i \in 1 .. n \/ i = n + 1
  BY <1>3
<1>5. ASSUME NEW r PROVE r \in Asking(t) <=> r \in Asking(s) \/ AskedBy(e, r)
  <2>1. \A i \in 1 .. n : i \in 1 .. n + 1
    BY <1>3
  <2>2. n + 1 \in 1 .. n + 1
    BY <1>3
  <2>3. (\E i \in 1 .. n + 1 : AskedBy(t[i], r)) <=> (\E i \in 1 .. n : AskedBy(s[i], r)) \/ AskedBy(e, r)
    BY <1>3, <1>4, <2>1, <2>2
  <2> QED
    BY <1>2, <1>3, <2>3, AskingMeans
<1>6. \A x \in Elements(t) : x \in Elements(s) \/ x = e
  BY <1>2, <1>3, <1>4 DEF Elements
<1>7. ASSUME Distinct(s), \A r \in Asking(s) : ~AskedBy(e, r) PROVE Distinct(t)
  <2>1. ASSUME NEW i \in 1 .. n PROVE ~(Finds(s[i]) /\ Finds(e) /\ s[i].resume = e.resume)
    <3>1. Finds(s[i]) => s[i].resume \in Asking(s)
      BY <1>2, <2>1, AskingMeans DEF AskedBy
    <3> QED
      BY <1>7, <3>1 DEF AskedBy
  <2> SUFFICES ASSUME NEW i \in 1 .. n + 1, NEW j \in 1 .. n + 1,
                      Finds(t[i]), Finds(t[j]), t[i].resume = t[j].resume
               PROVE  i = j
    BY <1>3 DEF Distinct
  <2>2. CASE i \in 1 .. n /\ j \in 1 .. n
    BY <1>2, <1>3, <1>7, <2>2 DEF Distinct
  <2>3. CASE i \in 1 .. n /\ j = n + 1
    BY <1>3, <2>1, <2>3
  <2>4. CASE i = n + 1 /\ j \in 1 .. n
    BY <1>3, <2>1, <2>4
  <2> QED
    BY <1>4, <2>2, <2>3, <2>4
<1>8. PutIn(s, t, e)
  BY <1>5, <1>6, <1>7 DEF PutIn
<1> QED
  BY <1>1, <1>8

(* Requests for blocks come from no call of resume().                       *)
LEMMA BlocksPutIn ==
  ASSUME NEW s \in Seq(Requests), NEW w \in Nat, NEW t, t = s \o [n \in 1 .. w |-> NextBlock]
  PROVE  t \in Seq(Requests) /\ PutIn(s, t, NextBlock)
<1>1. PICK b : b = [n \in 1 .. w |-> NextBlock]
  OBVIOUS
<1>2. PICK e : e = NextBlock
  OBVIOUS
<1>3. e \in Requests /\ ~Finds(e)
  BY <1>2 DEF NextBlock, Requests, Origin, Finds
<1>4. b \in [1 .. w -> Requests] /\ \A i \in 1 .. w : b[i] = e
  BY <1>1, <1>2, <1>3
<1>5. b \in Seq(Requests)
  BY <1>4, SeqDef
<1>6. Len(b) = w
  <2>1. DOMAIN b = 1 .. w /\ DOMAIN b = 1 .. Len(b) /\ Len(b) \in Nat
    BY <1>4, <1>5, LenProperties
  <2> QED
    BY <2>1
<1>7. PICK l : l = Len(s)
  OBVIOUS
<1>8. PICK u : u = s \o b
  OBVIOUS
<1>9. /\ u \in Seq(Requests) /\ Len(u) = l + w /\ l \in Nat
      /\ \A i \in 1 .. l + w : u[i] = IF i <= l THEN s[i] ELSE b[i - l]
  <2>1. /\ u \in Seq(Requests) /\ Len(u) = Len(s) + Len(b)
        /\ \A i \in 1 .. Len(s) + Len(b) : u[i] = IF i <= Len(s) THEN s[i] ELSE b[i - Len(s)]
    BY <1>5, <1>8, ConcatProperties
  <2> QED
    BY <1>6, <1>7, <2>1, LenProperties
<1>10. \A i \in 1 .. l + w : (i \in 1 .. l /\ u[i] = s[i]) \/ u[i] = e
  <2> SUFFICES ASSUME NEW i \in 1 .. l + w PROVE (i \in 1 .. l /\ u[i] = s[i]) \/ u[i] = e
    OBVIOUS
  <2>1. CASE i <= l
    BY <1>9, <2>1
  <2>2. CASE ~(i <= l)
    <3>1. i - l \in 1 .. w
      BY <1>9, <2>2
    <3> QED
      BY <1>4, <1>9, <2>2, <3>1
  <2> QED
    BY <2>1, <2>2
<1>11. \A i \in 1 .. l : i \in 1 .. l + w /\ u[i] = s[i]
  BY <1>9
<1>12. ASSUME NEW r PROVE r \in Asking(u) <=> r \in Asking(s) \/ AskedBy(e, r)
  <2>1. (\E i \in 1 .. l + w : AskedBy(u[i], r)) <=> (\E i \in 1 .. l : AskedBy(s[i], r))
    BY <1>3, <1>10, <1>11 DEF AskedBy
  <2>2. ~AskedBy(e, r)
    BY <1>3 DEF AskedBy
  <2> QED
    BY <1>7, <1>9, <2>1, <2>2, AskingMeans
<1>13. \A x \in Elements(u) : x \in Elements(s) \/ x = e
  BY <1>7, <1>9, <1>10 DEF Elements
<1>14. ASSUME Distinct(s) PROVE Distinct(u)
  BY <1>3, <1>7, <1>9, <1>10, <1>14 DEF Distinct
<1>15. PutIn(s, u, e)
  BY <1>12, <1>13, <1>14 DEF PutIn
<1> QED
  BY <1>1, <1>2, <1>8, <1>9, <1>15

-----------------------------------------------------------------------------
(* Each call of resume() that waits has one request under way, or one       *)
(* response; the request is for the point the call goes by.                 *)
Asked ==
  /\ Distinct(requests) /\ Distinct(messages)
  /\ \A r \in Asking(requests) : r \notin Asking(messages)
  /\ \A r \in Asking(requests) \cup Asking(messages) :
       r \in 1 .. Len(resumes) /\ (open => resumes[r].state \in {"tip", "point"})
  /\ \A x \in Elements(requests) :
       Finds(x) /\ resumes[x.resume].state = "point" => x.point = resumes[x.resume].point
  /\ \A x \in Elements(messages) : Finds(x) => x.tip <= minted
  /\ \A r \in 1 .. Len(resumes) : resumes[r].point <= minted

(* What follows an intersection, the message k or the one dealt with last   *)
(* (0): a rollback to it, or to before it when the node has left it; or     *)
(* nothing yet, and then the server is still there.                         *)
Fresh(k, point) ==
  /\ k = Len(messages) => rewound /\ TipOf(follower) = point
  /\ k < Len(messages) => /\ messages[k + 1].direction = "backward"
                          /\ messages[k + 1].block.id = point \/ ~Knows(chain, point)

NoneAfter(k) == \A j \in k + 1 .. Len(messages) : ~Finds(messages[j])

StartsAt(k) ==
  Finds(messages[k]) /\ messages[k].found /\ NoneAfter(k) =>
    LET call == resumes[messages[k].resume]
    IN call.state = "point" => Fresh(k, call.point)

Expects ==
  expected # <<>> =>
    /\ Asking(requests) = {} /\ Asking(messages) = {}
    /\ \E p \in 0 .. minted : expected = <<p>> /\ Fresh(0, p)

Started == (\A k \in 1 .. Len(messages) : StartsAt(k)) /\ Expects

Rooted == \E tree : RootedIn(tree)

Inv == Typed /\ Rooted /\ Asked /\ Started

-----------------------------------------------------------------------------
LEMMA Lengths ==
  ASSUME Typed
  PROVE  /\ minted \in Nat
         /\ Len(requests) \in Nat /\ DOMAIN requests = 1 .. Len(requests)
         /\ Len(messages) \in Nat /\ DOMAIN messages = 1 .. Len(messages)
         /\ Len(resumes) \in Nat /\ DOMAIN resumes = 1 .. Len(resumes)
         /\ \A i \in 1 .. Len(requests) : requests[i] \in Requests
         /\ \A i \in 1 .. Len(messages) : messages[i] \in Messages
         /\ \A r \in 1 .. Len(resumes) : resumes[r] \in Calls
<1>1. minted \in Nat
  BY DEF Typed
<1>2. Len(requests) \in Nat /\ DOMAIN requests = 1 .. Len(requests)
      /\ \A i \in 1 .. Len(requests) : requests[i] \in Requests
  BY LenProperties, ElementOfSeq DEF Typed
<1>3. Len(messages) \in Nat /\ DOMAIN messages = 1 .. Len(messages)
      /\ \A i \in 1 .. Len(messages) : messages[i] \in Messages
  BY LenProperties, ElementOfSeq DEF Typed
<1>4. Len(resumes) \in Nat /\ DOMAIN resumes = 1 .. Len(resumes)
      /\ \A r \in 1 .. Len(resumes) : resumes[r] \in Calls
  BY LenProperties, ElementOfSeq DEF Typed
<1> QED
  BY <1>1, <1>2, <1>3, <1>4

LEMMA InitInv == Init => Inv
<1> SUFFICES ASSUME Init PROVE Inv
  OBVIOUS
<1>1. PICK c : c = <<Block(Origin, Origin)>>
  OBVIOUS
<1>2. /\ sequential \in BOOLEAN /\ open = TRUE /\ chain = c /\ minted = 0 /\ follower = c
      /\ rewound = FALSE /\ requests = <<>> /\ messages = <<>> /\ resumes = <<>>
      /\ tasks = <<>> /\ running = <<>> /\ applied = <<>> /\ failed = 0 /\ expected = <<>>
  BY <1>1, ChainSyncClientAssumption DEF Init
<1>3. Typed
  <2>1. 0 \in 0 .. MaxBlocks /\ Len(<<>>) <= 1 /\ \A S : <<>> \in Seq(S)
    BY EmptySeq
  <2> QED
    BY <1>2, <2>1 DEF Typed
<1>4. Len(<<>>) = 0
  BY EmptySeq
<1>5. RootedIn({c})
  <2>1. c \in Seq(Blocks) /\ Len(c) = 1 /\ DOMAIN c = 1 .. 1 /\ c[1] = Block(Origin, Origin) /\ c # <<>>
    <3>1. Block(Origin, Origin) \in Blocks
      BY DEF Block, Origin, Blocks
    <3> QED
      BY <1>1, <3>1
  <2>2. c[1].id = 0
    BY <2>1 DEF Block, Origin
  <2>3. IsChain(c, 0)
    BY <2>1, <2>2 DEF IsChain, Linked
  <2>4. SubSeq(c, 1, 1) = c
    BY <2>1, SubSeqFull
  <2>5. Tree({c}, 0)
    <3>1. SamePlace(c, 1, c, 1)
      BY DEF SamePlace
    <3>2. \A i \in DOMAIN c : i = 1
      BY <2>1
    <3>3. \A n \in 1 .. Len(c) : SubSeq(c, 1, n) \in {c}
      BY <2>1, <2>4
    <3> QED
      BY <2>3, <3>1, <3>2, <3>3 DEF Tree
  <2>6. TracedBy({c} \cup {<<>>}, <<>>, <<>>, <<>>)
    <3>1. Leads({c} \cup {<<>>}, <<>>, <<>>, <<>>)
      BY LeadsNowhere
    <3>2. Untouched
      BY <1>2, <1>4 DEF Untouched
    <3> QED
      BY <1>2, <3>1, <3>2 DEF TracedBy, Follows
  <2> QED
    BY <1>2, <2>5, <2>6 DEF RootedIn, Traced
<1>6. Elements(<<>>) = {} /\ Asking(<<>>) = {} /\ Distinct(<<>>)
  BY <1>4 DEF Elements, Asking, Distinct
<1>7. Asked
  BY <1>2, <1>4, <1>6 DEF Asked
<1>8. Started
  BY <1>2, <1>4 DEF Started, Expects
<1> QED
  BY <1>3, <1>5, <1>7, <1>8 DEF Inv, Rooted

(* Nothing but the node's chain.                                            *)
LEMMA AdoptStep ==
  ASSUME Inv, NEW dropped \in 0 .. MaxRollback, Adopt(dropped)
  PROVE  Inv'
<1>0. Typed /\ Asked /\ Started
  BY DEF Inv
<1>1. PICK tree : RootedIn(tree)
  BY DEF Inv, Rooted
<1>2. PICK more : Adopted(tree, more)
  BY <1>0, <1>1, AdoptGrows
<1>3. UNCHANGED <<sequential, open, follower, rewound, requests, messages, resumes, tasks, running,
                  applied, failed, expected>>
  BY DEF Adopt, program, settings
<1>4. /\ tree \subseteq more /\ Tree(more, minted') /\ chain' \in more
      /\ minted' \in 0 .. MaxBlocks /\ minted <= minted'
      /\ \A p \in 0 .. minted : Knows(chain', p) => Knows(chain, p)
  BY <1>2 DEF Adopted
<1>5. minted \in Nat /\ minted' \in Nat /\ \A r \in 1 .. Len(resumes) : resumes[r].point \in Nat
  BY <1>0, <1>4, Lengths DEF Calls
<1>6. Typed'
  BY <1>0, <1>3, <1>4 DEF Typed
<1>7. RootedIn(more)'
  <2>1. ASSUME sequential, failed = 0 PROVE Traced(more)'
    <3>1. PICK m, n, t : TracedBy(tree \cup {<<>>}, m, n, t)
      BY <1>1, <2>1 DEF RootedIn, Traced
    <3>2. tree \cup {<<>>} \subseteq more \cup {<<>>}
      BY <1>4
    <3>3. Leads(more \cup {<<>>}, m, tasks, n) /\ Leads(more \cup {<<>>}, n, messages, t)
      BY <3>1, <3>2, LeadsInMore DEF TracedBy
    <3>4. Follows(t)'
      BY <1>3, <3>1 DEF TracedBy, Follows, Untouched
    <3>5. TracedBy(more \cup {<<>>}, m, n, t)'
      BY <1>3, <3>1, <3>2, <3>3, <3>4 DEF TracedBy
    <3> QED
      BY <3>5 DEF Traced
  <2>2. follower' \in more
    BY <1>1, <1>3, <1>4 DEF RootedIn
  <2> QED
    BY <1>3, <1>4, <2>1, <2>2 DEF RootedIn
<1>8. Asked'
  <2>1. \A x \in Elements(messages) : Finds(x) => x.tip <= minted'
    <3> SUFFICES ASSUME NEW x \in Elements(messages), Finds(x) PROVE x.tip <= minted'
      OBVIOUS
    <3>1. x \in Messages
      BY <1>0, Lengths DEF Elements
    <3>2. x.tip \in Nat
      BY <3>1 DEF Messages, Intersections, Rolls, Finds
    <3>3. x.tip <= minted
      BY <1>0 DEF Asked
    <3> QED
      BY <1>4, <1>5, <3>2, <3>3
  <2>2. \A r \in 1 .. Len(resumes) : resumes[r].point <= minted'
    BY <1>0, <1>4, <1>5 DEF Asked
  <2> QED
    BY <1>0, <1>3, <2>1, <2>2 DEF Asked
<1>9. ASSUME NEW k \in 0 .. Len(messages), NEW p \in 0 .. minted, Fresh(k, p)
      PROVE  Fresh(k, p)'
  BY <1>3, <1>4, <1>9 DEF Fresh
<1>10. Started'
  <2>1. ASSUME NEW k \in 1 .. Len(messages) PROVE StartsAt(k)'
    <3> SUFFICES ASSUME Finds(messages[k]), messages[k].found, NoneAfter(k),
                        resumes[messages[k].resume].state = "point"
                 PROVE  Fresh(k, resumes[messages[k].resume].point)'
      BY <1>3 DEF StartsAt, NoneAfter
    <3>1. PICK r : r = messages[k].resume
      OBVIOUS
    <3>2. r \in Asking(messages)
      BY <3>1, AskingMeans DEF AskedBy
    <3>3. r \in 1 .. Len(resumes)
      BY <1>0, <3>2 DEF Asked
    <3>4. PICK p : p = resumes[r].point
      OBVIOUS
    <3>5. p \in 0 .. minted
      BY <1>0, <1>5, <3>3, <3>4 DEF Asked
    <3>6. Fresh(k, p)
      BY <1>0, <3>1, <3>4 DEF Started, StartsAt
    <3>7. k \in 0 .. Len(messages)
      OBVIOUS
    <3>8. Fresh(k, p)'
      BY <1>9, <3>5, <3>6, <3>7
    <3> QED
      BY <1>3, <3>1, <3>4, <3>8
  <2>2. Expects'
    <3> SUFFICES ASSUME expected # <<>>
                 PROVE  \E p \in 0 .. minted' : expected = <<p>> /\ Fresh(0, p)'
      BY <1>0, <1>3 DEF Started, Expects
    <3>1. PICK p \in 0 .. minted : expected = <<p>> /\ Fresh(0, p)
      BY <1>0 DEF Started, Expects
    <3>2. 0 \in 0 .. Len(messages) /\ p \in 0 .. minted'
      BY <1>0, <1>4, <1>5, Lengths
    <3>3. Fresh(0, p)'
      BY <1>9, <3>1, <3>2
    <3> QED
      BY <3>1, <3>2, <3>3
  <2> QED
    BY <1>3, <2>1, <2>2 DEF Started
<1> QED
  BY <1>6, <1>7, <1>8, <1>10 DEF Inv, Rooted

-----------------------------------------------------------------------------
(* A response to findIntersection behind the others: the ones before it     *)
(* are not the last any more.                                               *)
LEMMA Superseded ==
  ASSUME NEW message \in Messages, Typed, messages' = Append(messages, message), Finds(message)
  PROVE  /\ Len(messages') = Len(messages) + 1 /\ messages'[Len(messages) + 1] = message
         /\ messages' \in Seq(Messages)
         /\ \A k \in 1 .. Len(messages) : messages'[k] = messages[k] /\ ~NoneAfter(k)'
<1>1. PICK n, s : n = Len(messages) /\ s = messages'
  OBVIOUS
<1>2. s \in Seq(Messages) /\ n \in Nat /\ Len(s) = n + 1 /\ s[n + 1] = message
      /\ \A k \in 1 .. n : s[k] = messages[k]
  BY <1>1, AppendProperties, LenProperties DEF Typed
<1>3. ASSUME NEW k \in 1 .. n PROVE ~NoneAfter(k)'
  <2>1. n + 1 \in k + 1 .. Len(s)
    BY <1>2
  <2> QED
    BY <1>1, <1>2, <2>1 DEF NoneAfter
<1> QED
  BY <1>1, <1>2, <1>3

LEMMA FindsIntersectionStep ==
  ASSUME Inv, FindsIntersection
  PROVE  Inv'
<1>0. Typed /\ Asked /\ Started
  BY DEF Inv
<1>1. PICK tree : RootedIn(tree)
  BY DEF Inv, Rooted
<1>2. PICK request, message : Found(tree, request, message)
  BY <1>0, <1>1, FoundPoint
<1>3. /\ request = Head(requests) /\ request \in Requests /\ Finds(request)
      /\ message \in Intersections /\ message.resume = request.resume /\ message.tip <= minted
      /\ messages' = Append(messages, message)
      /\ follower' \in tree
      /\ message.found => rewound' = TRUE /\ TipOf(follower') = request.point
      /\ ~message.found => follower' = follower /\ rewound' = rewound
  BY <1>2 DEF Found
<1>4. requests # <<>> /\ requests' = Tail(requests)
      /\ UNCHANGED <<sequential, open, chain, minted, resumes, tasks, running, applied, failed, expected>>
  BY DEF FindsIntersection, program, settings
<1>5. message \in Messages /\ Finds(message)
  BY <1>3 DEF Messages, Intersections, Finds
<1>6. PICK n, s : n = Len(messages) /\ s = messages'
  OBVIOUS
<1>7. /\ Len(s) = n + 1 /\ s[n + 1] = message /\ s \in Seq(Messages) /\ n \in Nat
      /\ \A k \in 1 .. n : s[k] = messages[k] /\ ~NoneAfter(k)'
  BY <1>0, <1>3, <1>5, <1>6, Superseded, Lengths
<1>8. requests' \in Seq(Requests) /\ TakenOut(requests, requests', request)
  BY <1>0, <1>3, <1>4, HeadTailProperties, HeadTakenOut DEF Typed
<1>9. PutIn(messages, messages', message)
  BY <1>0, <1>3, <1>5, OnePutIn DEF Typed
<1>10. request.resume \in Asking(requests)
  <2>1. request \in Elements(requests)
    BY <1>8 DEF TakenOut
  <2> QED
    BY <1>3, <2>1 DEF Asking
<1>11. Typed'
  <2>1. rewound' \in BOOLEAN
    BY <1>0, <1>3 DEF Typed, Intersections
  <2> QED
    BY <1>0, <1>4, <1>6, <1>7, <1>8, <2>1 DEF Typed
<1>12. RootedIn(tree)'
  <2>1. ASSUME sequential, failed = 0 PROVE Traced(tree)'
    <3>1. PICK m, q, t : TracedBy(tree \cup {<<>>}, m, q, t)
      BY <1>1, <2>1 DEF RootedIn, Traced
    <3>2. Leads(tree \cup {<<>>}, q, messages, t) /\ messages \in Seq(Messages)
      BY <1>0, <3>1 DEF TracedBy, Typed
    <3>3. t \in tree \cup {<<>>} /\ t = After(t, message)
      BY <1>5, <3>2, LeadsEnds DEF After
    <3>4. Leads(tree \cup {<<>>}, q, Append(messages, message), t)
      BY <1>5, <3>2, <3>3, LeadsOn
    <3>5. Follows(t)'
      <4>1. CASE message.found
        BY <1>3, <4>1 DEF Follows
      <4>2. CASE ~message.found
        <5>1. Untouched => Untouched'
          <6> SUFFICES ASSUME Untouched PROVE Untouched'
            OBVIOUS
          <6>1. \A i \in 1 .. Len(requests') : Finds(requests'[i])
            <7>1. \A x \in Elements(requests) : Finds(x)
              BY DEF Untouched, Elements
            <7>2. \A x \in Elements(requests') : Finds(x)
              BY <1>8, <7>1 DEF TakenOut
            <7> QED
              BY <7>2 DEF Elements
          <6>2. \A i \in 1 .. n + 1 : Finds(s[i]) /\ ~s[i].found
            <7>1. \A i \in 1 .. n + 1 : i \in 1 .. n \/ i = n + 1
              BY <1>7
            <7>2. \A i \in 1 .. n : Finds(s[i]) /\ ~s[i].found
              BY <1>6, <1>7 DEF Untouched
            <7> QED
              BY <1>5, <1>7, <4>2, <7>1, <7>2
          <6> QED
            BY <1>3, <1>4, <1>6, <1>7, <4>2, <6>1, <6>2 DEF Untouched
        <5> QED
          BY <1>3, <3>1, <4>2, <5>1 DEF TracedBy, Follows
      <4> QED
        BY <4>1, <4>2
    <3>6. TracedBy(tree \cup {<<>>}, m, q, t)'
      BY <1>3, <1>4, <3>1, <3>4, <3>5 DEF TracedBy
    <3> QED
      BY <3>6 DEF Traced
  <2> QED
    BY <1>1, <1>3, <1>4, <2>1 DEF RootedIn
<1>13. Asked'
  <2>1. Distinct(requests') /\ \A r : r \in Asking(requests') <=> r \in Asking(requests) /\ ~AskedBy(request, r)
    BY <1>0, <1>8 DEF Asked, TakenOut
  <2>2. \A r : AskedBy(message, r) <=> r = request.resume
    BY <1>3, <1>5 DEF AskedBy
  <2>3. \A r : AskedBy(request, r) <=> r = request.resume
    BY <1>3 DEF AskedBy
  <2>4. Distinct(messages') /\ \A r : r \in Asking(messages') <=> r \in Asking(messages) \/ r = request.resume
    BY <1>0, <1>9, <1>10, <2>2 DEF Asked, PutIn
  <2>5. \A r \in Asking(requests') : r \notin Asking(messages')
    BY <1>0, <2>1, <2>3, <2>4 DEF Asked
  <2>6. \A r \in Asking(requests') \cup Asking(messages') : r \in Asking(requests) \cup Asking(messages)
    BY <1>10, <2>1, <2>4
  <2>7. \A x \in Elements(requests') : x \in Elements(requests)
    BY <1>8 DEF TakenOut
  <2>8. \A x \in Elements(messages') : Finds(x) => x.tip <= minted
    BY <1>0, <1>3, <1>9 DEF Asked, PutIn
  <2> QED
    BY <1>0, <1>4, <2>1, <2>4, <2>5, <2>6, <2>7, <2>8 DEF Asked
<1>14. Started'
  <2>1. ASSUME NEW k \in 1 .. n + 1 PROVE StartsAt(k)'
    <3>1. CASE k \in 1 .. n
      BY <1>7, <3>1 DEF StartsAt
    <3>2. CASE k = n + 1
      <4> SUFFICES ASSUME message.found, resumes[message.resume].state = "point"
                   PROVE  Fresh(n + 1, resumes[message.resume].point)'
        BY <1>4, <1>6, <1>7, <3>2 DEF StartsAt
      <4>1. request.point = resumes[request.resume].point
        <5>1. request \in Elements(requests)
          BY <1>8 DEF TakenOut
        <5> QED
          BY <1>0, <1>3, <5>1 DEF Asked
      <4>2. ~(n + 1 < Len(s)) /\ rewound' /\ TipOf(follower') = resumes[message.resume].point
        BY <1>3, <1>7, <4>1
      <4> QED
        BY <1>4, <1>6, <4>2 DEF Fresh
    <3> QED
      BY <1>7, <3>1, <3>2
  <2>2. Expects'
    BY <1>0, <1>4, <1>10 DEF Started, Expects
  <2> QED
    BY <1>6, <1>7, <2>1, <2>2 DEF Started
<1> QED
  BY <1>11, <1>12, <1>13, <1>14 DEF Inv, Rooted

LEMMA RefusesStep ==
  ASSUME Inv, NEW i0 \in DOMAIN requests, RefusesIntersection(i0)
  PROVE  Inv'
<1>0. Typed /\ Asked /\ Started
  BY DEF Inv
<1>1. PICK tree : RootedIn(tree)
  BY DEF Inv, Rooted
<1>2. PICK request : request = requests[i0]
  OBVIOUS
<1>3. PICK message : message = Intersection(request.resume, FALSE, TipOf(chain))
  OBVIOUS
<1>4. /\ Finds(request) /\ requests' = RemoveAt(requests, i0)
      /\ messages' = Append(messages, message)
      /\ UNCHANGED <<sequential, open, node, resumes, tasks, running, applied, failed, expected>>
  BY <1>2, <1>3 DEF RefusesIntersection, program, Finds, settings
<1>5. request \in Requests /\ i0 \in 1 .. Len(requests)
  BY <1>0, <1>2, Lengths
<1>6. TipOf(chain) \in 0 .. minted
  <2>1. IsChain(chain, minted)
    BY <1>1 DEF RootedIn, Tree
  <2> QED
    BY <1>0, <2>1, ChainEnds, Lengths
<1>7. /\ message \in Messages /\ Finds(message) /\ message.resume = request.resume
      /\ message.found = FALSE /\ message.tip <= minted
  <2>1. PICK tip : tip = TipOf(chain)
    OBVIOUS
  <2>2. tip \in Nat /\ tip <= minted /\ minted \in Nat
    BY <1>0, <1>6, <2>1, Lengths
  <2> QED
    BY <1>3, <1>5, <2>1, <2>2 DEF Intersection, Messages, Intersections, Requests, Finds
<1>8. PICK n, s : n = Len(messages) /\ s = messages'
  OBVIOUS
<1>9. /\ Len(s) = n + 1 /\ s[n + 1] = message /\ s \in Seq(Messages) /\ n \in Nat
      /\ \A k \in 1 .. n : s[k] = messages[k] /\ ~NoneAfter(k)'
  BY <1>0, <1>4, <1>7, <1>8, Superseded, Lengths
<1>10. requests' \in Seq(Requests) /\ TakenOut(requests, requests', request)
  <2>1. requests \in Seq(Requests)
    BY <1>0 DEF Typed
  <2> QED
    BY <1>2, <1>4, <1>5, <2>1, ThisTakenOut
<1>11. PutIn(messages, messages', message)
  BY <1>0, <1>4, <1>7, OnePutIn DEF Typed
<1>12. request.resume \in Asking(requests)
  <2>1. request \in Elements(requests)
    BY <1>10 DEF TakenOut
  <2> QED
    BY <1>4, <2>1 DEF Asking
<1>13. Typed'
  BY <1>0, <1>4, <1>8, <1>9, <1>10 DEF Typed, node
<1>14. RootedIn(tree)'
  <2>1. ASSUME sequential, failed = 0 PROVE Traced(tree)'
    <3>1. PICK m, q, t : TracedBy(tree \cup {<<>>}, m, q, t)
      BY <1>1, <2>1 DEF RootedIn, Traced
    <3>2. Leads(tree \cup {<<>>}, q, messages, t) /\ messages \in Seq(Messages)
      BY <1>0, <3>1 DEF TracedBy, Typed
    <3>3. t \in tree \cup {<<>>} /\ t = After(t, message)
      BY <1>7, <3>2, LeadsEnds DEF After
    <3>4. Leads(tree \cup {<<>>}, q, Append(messages, message), t)
      BY <1>7, <3>2, <3>3, LeadsOn
    <3>5. Follows(t)'
      <4>1. ASSUME Untouched PROVE Untouched'
        <5>1. \A i \in 1 .. Len(requests') : Finds(requests'[i])
          <6>1. \A x \in Elements(requests) : Finds(x)
            BY <4>1 DEF Untouched, Elements
          <6>2. \A x \in Elements(requests') : Finds(x)
            BY <1>10, <6>1 DEF TakenOut
          <6> QED
            BY <6>2 DEF Elements
        <5>2. \A i \in 1 .. n + 1 : Finds(s[i]) /\ ~s[i].found
          <6>1. \A i \in 1 .. n + 1 : i \in 1 .. n \/ i = n + 1
            BY <1>9
          <6>2. \A i \in 1 .. n : Finds(s[i]) /\ ~s[i].found
            BY <1>8, <1>9, <4>1 DEF Untouched
          <6> QED
            BY <1>7, <1>9, <6>1, <6>2
        <5> QED
          BY <1>4, <1>8, <1>9, <4>1, <5>1, <5>2 DEF Untouched, node
      <4> QED
        BY <1>4, <3>1, <4>1 DEF TracedBy, Follows, node
    <3>6. TracedBy(tree \cup {<<>>}, m, q, t)'
      BY <1>4, <3>1, <3>4, <3>5 DEF TracedBy
    <3> QED
      BY <3>6 DEF Traced
  <2> QED
    BY <1>1, <1>4, <2>1 DEF RootedIn, node
<1>15. Asked'
  <2>1. Distinct(requests') /\ \A r : r \in Asking(requests') <=> r \in Asking(requests) /\ ~AskedBy(request, r)
    BY <1>0, <1>10 DEF Asked, TakenOut
  <2>2. \A r : AskedBy(message, r) <=> r = request.resume
    BY <1>7 DEF AskedBy
  <2>3. \A r : AskedBy(request, r) <=> r = request.resume
    BY <1>4 DEF AskedBy
  <2>4. Distinct(messages') /\ \A r : r \in Asking(messages') <=> r \in Asking(messages) \/ r = request.resume
    BY <1>0, <1>11, <1>12, <2>2 DEF Asked, PutIn
  <2>5. \A r \in Asking(requests') : r \notin Asking(messages')
    BY <1>0, <2>1, <2>3, <2>4 DEF Asked
  <2>6. \A r \in Asking(requests') \cup Asking(messages') : r \in Asking(requests) \cup Asking(messages)
    BY <1>12, <2>1, <2>4
  <2>7. \A x \in Elements(requests') : x \in Elements(requests)
    BY <1>10 DEF TakenOut
  <2>8. \A x \in Elements(messages') : Finds(x) => x.tip <= minted
    BY <1>0, <1>7, <1>11 DEF Asked, PutIn
  <2> QED
    BY <1>0, <1>4, <2>1, <2>4, <2>5, <2>6, <2>7, <2>8 DEF Asked, node
<1>16. Started'
  <2>1. ASSUME NEW k \in 1 .. n + 1 PROVE StartsAt(k)'
    <3>1. CASE k \in 1 .. n
      BY <1>9, <3>1 DEF StartsAt
    <3>2. CASE k = n + 1
      BY <1>7, <1>8, <1>9, <3>2 DEF StartsAt
    <3> QED
      BY <1>9, <3>1, <3>2
  <2>2. Expects'
    BY <1>0, <1>4, <1>12 DEF Started, Expects
  <2> QED
    BY <1>8, <1>9, <2>1, <2>2 DEF Started
<1> QED
  BY <1>13, <1>14, <1>15, <1>16 DEF Inv, Rooted

LEMMA ServesBlockStep ==
  ASSUME Inv, ServesBlock
  PROVE  Inv'
<1>0. Typed /\ Asked /\ Started
  BY DEF Inv
<1>1. PICK tree : RootedIn(tree)
  BY DEF Inv, Rooted
<1>2. PICK roll : Served(tree, roll)
  BY <1>0, <1>1, ServedRoll
<1>3. /\ roll \in Rolls /\ ~Finds(roll)
      /\ messages' = Append(messages, roll)
      /\ follower' \in tree
      /\ \A c \in tree \cup {<<>>} : rewound \/ c = follower => After(c, roll) = follower'
      /\ rewound => /\ roll.direction = "backward"
                    /\ roll.block.id = TipOf(follower) \/ ~Knows(chain, TipOf(follower))
  BY <1>2 DEF Served
<1>4. requests # <<>> /\ ~Finds(Head(requests)) /\ requests' = Tail(requests) /\ rewound' = FALSE
      /\ UNCHANGED <<sequential, open, chain, minted, resumes, tasks, running, applied, failed, expected>>
  BY DEF ServesBlock, program, Finds, settings
<1>5. roll \in Messages
  BY <1>3 DEF Messages
<1>6. PICK n, s : n = Len(messages) /\ s = messages'
  OBVIOUS
<1>7. /\ Len(s) = n + 1 /\ s[n + 1] = roll /\ s \in Seq(Messages) /\ n \in Nat
      /\ \A k \in 1 .. n : s[k] = messages[k]
  BY <1>0, <1>3, <1>5, <1>6, AppendProperties, Lengths DEF Typed
<1>8. PICK request : request = Head(requests)
  OBVIOUS
<1>9. requests' \in Seq(Requests) /\ TakenOut(requests, requests', request)
  BY <1>0, <1>4, <1>8, HeadTailProperties, HeadTakenOut DEF Typed
<1>10. PutIn(messages, messages', roll)
  BY <1>0, <1>3, <1>5, OnePutIn DEF Typed
<1>11. Typed'
  BY <1>0, <1>4, <1>6, <1>7, <1>9 DEF Typed
<1>12. RootedIn(tree)'
  <2>1. ASSUME sequential, failed = 0 PROVE Traced(tree)'
    <3>1. PICK m, q, t : TracedBy(tree \cup {<<>>}, m, q, t)
      BY <1>1, <2>1 DEF RootedIn, Traced
    <3>2. Leads(tree \cup {<<>>}, q, messages, t) /\ messages \in Seq(Messages)
      BY <1>0, <3>1 DEF TracedBy, Typed
    <3>3. t \in tree \cup {<<>>}
      BY <3>2, LeadsEnds
    <3>4. ~Untouched
      <4>1. 1 \in 1 .. Len(requests) /\ Head(requests) = requests[1]
        BY <1>0, <1>4, EmptySeq, Lengths DEF Typed
      <4> QED
        BY <1>4, <4>1 DEF Untouched
    <3>5. PICK f : f = follower'
      OBVIOUS
    <3>6. After(t, roll) = f /\ f \in tree \cup {<<>>}
      BY <1>3, <3>1, <3>3, <3>4, <3>5 DEF TracedBy, Follows
    <3>7. Leads(tree \cup {<<>>}, q, Append(messages, roll), f)
      BY <1>5, <3>2, <3>6, LeadsOn
    <3>8. TracedBy(tree \cup {<<>>}, m, q, f)'
      BY <1>3, <1>4, <3>1, <3>5, <3>7 DEF TracedBy, Follows
    <3> QED
      BY <3>8 DEF Traced
  <2> QED
    BY <1>1, <1>3, <1>4, <2>1 DEF RootedIn
<1>13. Asked'
  <2>0. (\A r : ~AskedBy(request, r)) /\ \A r : ~AskedBy(roll, r)
    BY <1>3, <1>4, <1>8 DEF AskedBy
  <2>1. Distinct(requests') /\ \A r : r \in Asking(requests') <=> r \in Asking(requests)
    BY <1>0, <1>9, <2>0 DEF Asked, TakenOut
  <2>2. Distinct(messages') /\ \A r : r \in Asking(messages') <=> r \in Asking(messages)
    BY <1>0, <1>10, <2>0 DEF Asked, PutIn
  <2>3. \A x \in Elements(requests') : x \in Elements(requests)
    BY <1>9 DEF TakenOut
  <2>4. \A x \in Elements(messages') : Finds(x) => x.tip <= minted
    BY <1>0, <1>3, <1>10 DEF Asked, PutIn
  <2> QED
    BY <1>0, <1>4, <2>1, <2>2, <2>3, <2>4 DEF Asked
<1>14. ASSUME NEW k \in 0 .. n, NEW p, Fresh(k, p) PROVE Fresh(k, p)'
  <2>1. CASE k = n
    <3>1. rewound /\ TipOf(follower) = p
      BY <1>6, <1>14, <2>1 DEF Fresh
    <3>2. roll.direction = "backward" /\ (roll.block.id = p \/ ~Knows(chain, p))
      BY <1>3, <3>1
    <3>3. k # Len(s) /\ s[k + 1] = roll
      BY <1>7, <2>1
    <3> QED
      BY <1>4, <1>6, <3>2, <3>3 DEF Fresh
  <2>2. CASE k # n
    <3>1. k < n /\ k + 1 \in 1 .. n /\ k # n + 1
      BY <1>7, <2>2
    <3>2. messages[k + 1].direction = "backward" /\ (messages[k + 1].block.id = p \/ ~Knows(chain, p))
      BY <1>6, <1>14, <3>1 DEF Fresh
    <3>3. k # Len(s) /\ s[k + 1] = messages[k + 1]
      BY <1>7, <3>1
    <3> QED
      BY <1>4, <1>6, <3>2, <3>3 DEF Fresh
  <2> QED
    BY <2>1, <2>2
<1>15. Started'
  <2>1. ASSUME NEW k \in 1 .. n + 1 PROVE StartsAt(k)'
    <3>1. CASE k \in 1 .. n
      <4> SUFFICES ASSUME Finds(messages[k]), messages[k].found, NoneAfter(k)',
                          resumes[messages[k].resume].state = "point"
                   PROVE  Fresh(k, resumes[messages[k].resume].point)'
        BY <1>4, <1>6, <1>7, <3>1 DEF StartsAt
      <4>1. NoneAfter(k)
        <5> SUFFICES ASSUME NEW j \in k + 1 .. n PROVE ~Finds(messages[j])
          BY <1>6 DEF NoneAfter
        <5>1. j \in k + 1 .. n + 1 /\ j \in 1 .. n
          BY <1>7, <3>1
        <5> QED
          BY <1>6, <1>7, <5>1 DEF NoneAfter
      <4>2. PICK p : p = resumes[messages[k].resume].point
        OBVIOUS
      <4>3. Fresh(k, p)
        BY <1>0, <1>6, <3>1, <4>1, <4>2 DEF Started, StartsAt
      <4>4. Fresh(k, p)'
        <5>1. k \in 0 .. n
          BY <1>7, <3>1
        <5> QED
          BY <1>14, <4>3, <5>1
      <4> QED
        BY <1>4, <1>6, <1>7, <3>1, <4>2, <4>4
    <3>2. CASE k = n + 1
      BY <1>3, <1>6, <1>7, <3>2 DEF StartsAt
    <3> QED
      BY <1>7, <3>1, <3>2
  <2>2. Expects'
    <3> SUFFICES ASSUME expected # <<>> PROVE Expects'
      BY <1>4 DEF Expects
    <3>1. PICK p \in 0 .. minted : expected = <<p>> /\ Fresh(0, p)
      BY <1>0 DEF Started, Expects
    <3>2. Fresh(0, p)'
      BY <1>7, <1>14, <3>1
    <3>3. Asking(requests') = {} /\ Asking(messages') = {}
      <4>1. Asking(requests) = {} /\ Asking(messages) = {}
        BY <1>0 DEF Started, Expects
      <4>2. (\A r : ~AskedBy(request, r)) /\ \A r : ~AskedBy(roll, r)
        BY <1>3, <1>4, <1>8 DEF AskedBy
      <4>3. \A r : r \in Asking(requests') <=> r \in Asking(requests)
        BY <1>0, <1>9, <4>2 DEF Asked, TakenOut
      <4>4. \A r : r \in Asking(messages') <=> r \in Asking(messages)
        BY <1>0, <1>10, <4>2 DEF Asked, PutIn
      <4> QED
        BY <4>1, <4>3, <4>4
    <3> QED
      BY <1>4, <3>1, <3>2, <3>3 DEF Expects
  <2> QED
    BY <1>6, <1>7, <2>1, <2>2 DEF Started
<1> QED
  BY <1>11, <1>12, <1>13, <1>15 DEF Inv, Rooted

-----------------------------------------------------------------------------
(* A call of resume().                                                      *)
LEMMA ResumeStep ==
  ASSUME Inv, Resume
  PROVE  Inv'
<1>0. Typed /\ Asked /\ Started
  BY DEF Inv
<1>1. PICK tree : RootedIn(tree)
  BY DEF Inv, Rooted
<1>2. PICK r : r = Len(resumes) + 1
  OBVIOUS
<1>3. PICK state \in {"tip", "point"}, point \in 0 .. minted :
        /\ resumes' = Append(resumes, [state |-> IF open THEN state ELSE "rejected",
                                       window |-> Window(InFlights[r]), point |-> point])
        /\ requests' = IF open THEN Append(requests, FindIntersection(r, point)) ELSE requests
  <2>1. 0 \in 0 .. minted
    BY <1>0, Lengths
  <2> QED
    BY <1>2, <2>1 DEF Resume, Origin
<1>4. PICK call : call = [state |-> IF open THEN state ELSE "rejected",
                          window |-> Window(InFlights[r]), point |-> point]
  OBVIOUS
<1>5. /\ expected' = <<>> /\ Len(resumes) < Len(InFlights)
      /\ UNCHANGED <<sequential, open, node, messages, tasks, running, applied, failed>>
  BY DEF Resume, program, settings
<1>6. PICK request : request = FindIntersection(r, point)
  OBVIOUS
<1>7. r \in Nat /\ r \in 1 .. Len(InFlights) /\ minted \in Nat /\ point \in Nat /\ point <= minted
  <2>1. Len(InFlights) \in Nat
    BY LenProperties
  <2> QED
    BY <1>0, <1>2, <1>5, <2>1, Lengths
<1>8. call \in Calls /\ call.point = point /\ (open => call.state \in {"tip", "point"})
  <2>1. InFlights[r] \in Nat
    BY <1>7, ElementOfSeq
  <2>2. Window(InFlights[r]) \in Nat
    BY <2>1 DEF Window
  <2> QED
    BY <1>4, <1>7, <2>2 DEF Calls
<1>9. request \in Requests /\ Finds(request) /\ request.resume = r /\ request.point = point
  BY <1>6, <1>7 DEF FindIntersection, Requests, Finds
<1>10. PICK n, s : n = Len(resumes) /\ s = resumes'
  OBVIOUS
<1>11. /\ s \in Seq(Calls) /\ Len(s) = n + 1 /\ s[n + 1] = call /\ n \in Nat /\ r = n + 1
       /\ \A i \in 1 .. n : s[i] = resumes[i] /\ i \in 1 .. n + 1
  <2>1. resumes \in Seq(Calls) /\ n \in Nat /\ r = n + 1
    BY <1>0, <1>2, <1>10, Lengths DEF Typed
  <2>2. s = Append(resumes, call)
    BY <1>3, <1>4, <1>10
  <2>3. /\ s \in Seq(Calls) /\ Len(s) = Len(resumes) + 1 /\ s[Len(resumes) + 1] = call
        /\ \A i \in 1 .. Len(resumes) : s[i] = resumes[i]
    BY <1>8, <2>1, <2>2, AppendProperties
  <2> QED
    BY <1>10, <2>1, <2>3
<1>12. \A x \in Asking(requests) \cup Asking(messages) : x \in 1 .. n /\ x # r
  <2>1. \A x \in 1 .. n : x # r
    BY <1>11
  <2> QED
    BY <1>0, <1>10, <2>1 DEF Asked
<1>13. open => requests' = Append(requests, request) /\ PutIn(requests, requests', request)
               /\ requests' \in Seq(Requests)
  <2>1. requests \in Seq(Requests)
    BY <1>0 DEF Typed
  <2> QED
    BY <1>3, <1>6, <1>9, <2>1, OnePutIn, AppendProperties
<1>14. ~open => requests' = requests
  BY <1>3
<1>15. Typed'
  BY <1>0, <1>5, <1>10, <1>11, <1>13, <1>14 DEF Typed, node
<1>16. RootedIn(tree)'
  <2>1. ASSUME sequential, failed = 0 PROVE Traced(tree)'
    <3>1. PICK m, q, t : TracedBy(tree \cup {<<>>}, m, q, t)
      BY <1>1, <2>1 DEF RootedIn, Traced
    <3>2. ASSUME Untouched PROVE Untouched'
      <4>1. \A x \in Elements(requests) : Finds(x)
        BY <3>2 DEF Untouched, Elements
      <4>2. \A x \in Elements(requests') : Finds(x)
        BY <1>9, <1>13, <1>14, <4>1 DEF PutIn
      <4>3. \A i \in 1 .. Len(requests') : Finds(requests'[i])
        BY <4>2 DEF Elements
      <4> QED
        BY <1>5, <3>2, <4>3 DEF Untouched, node
    <3>3. Follows(t)'
      BY <1>5, <3>1, <3>2 DEF TracedBy, Follows, node
    <3>4. TracedBy(tree \cup {<<>>}, m, q, t)'
      BY <1>5, <3>1, <3>3 DEF TracedBy
    <3> QED
      BY <3>4 DEF Traced
  <2> QED
    BY <1>1, <1>5, <2>1 DEF RootedIn, node
<1>17. Asked'
  <2>1. \A x : AskedBy(request, x) <=> x = r
    BY <1>9 DEF AskedBy
  <2>2. Distinct(requests') /\ \A x : x \in Asking(requests') => x \in Asking(requests) \/ (open /\ x = r)
    <3>1. CASE open
      BY <1>0, <1>12, <1>13, <2>1, <3>1 DEF Asked, PutIn
    <3>2. CASE ~open
      BY <1>0, <1>14, <3>2 DEF Asked
    <3> QED
      BY <3>1, <3>2
  <2>3. \A x \in Asking(requests') : x \notin Asking(messages)
    BY <1>0, <1>12, <2>2 DEF Asked
  <2>4. ASSUME NEW x \in Asking(requests') \cup Asking(messages)
        PROVE  x \in 1 .. n + 1 /\ (open => s[x].state \in {"tip", "point"})
    <3>1. CASE x \in Asking(requests) \cup Asking(messages)
      BY <1>0, <1>11, <1>12, <3>1 DEF Asked
    <3>2. CASE x = r
      BY <1>8, <1>11, <3>2
    <3> QED
      BY <2>2, <3>1, <3>2
  <2>5. ASSUME NEW x \in Elements(requests'), Finds(x), s[x.resume].state = "point"
        PROVE  x.point = s[x.resume].point
    <3>1. CASE x \in Elements(requests)
      <4>1. x.resume \in Asking(requests)
        BY <2>5, <3>1 DEF Asking
      <4>2. s[x.resume] = resumes[x.resume]
        BY <1>11, <1>12, <4>1
      <4> QED
        BY <1>0, <2>5, <3>1, <4>2 DEF Asked
    <3>2. CASE x = request
      BY <1>8, <1>9, <1>11, <3>2
    <3> QED
      BY <1>13, <1>14, <2>5, <3>1, <3>2 DEF PutIn
  <2>6. ASSUME NEW x \in 1 .. n + 1 PROVE s[x].point <= minted
    <3>1. x \in 1 .. n \/ x = n + 1
      BY <1>11
    <3> QED
      BY <1>0, <1>7, <1>8, <1>10, <1>11, <3>1 DEF Asked
  <2> QED
    BY <1>0, <1>5, <1>10, <1>11, <2>2, <2>3, <2>4, <2>5, <2>6 DEF Asked, node
<1>18. Started'
  <2>1. ASSUME NEW k \in 1 .. Len(messages) PROVE StartsAt(k)'
    <3> SUFFICES ASSUME Finds(messages[k]), messages[k].found, NoneAfter(k),
                        s[messages[k].resume].state = "point"
                 PROVE  Fresh(k, s[messages[k].resume].point)'
      BY <1>5, <1>10 DEF StartsAt, NoneAfter
    <3>1. PICK x : x = messages[k].resume
      OBVIOUS
    <3>2. x \in Asking(messages)
      BY <3>1, AskingMeans DEF AskedBy
    <3>3. s[x] = resumes[x]
      BY <1>11, <1>12, <3>2
    <3>4. PICK p : p = resumes[x].point
      OBVIOUS
    <3>5. Fresh(k, p)
      BY <1>0, <3>1, <3>3, <3>4 DEF Started, StartsAt
    <3>6. Fresh(k, p)'
      BY <1>5, <3>5 DEF Fresh, node
    <3> QED
      BY <1>5, <1>10, <3>1, <3>3, <3>4, <3>6
  <2>2. Expects'
    BY <1>5 DEF Expects
  <2> QED
    BY <1>5, <2>1, <2>2 DEF Started
<1> QED
  BY <1>15, <1>16, <1>17, <1>18 DEF Inv, Rooted

-----------------------------------------------------------------------------
(* A message is delivered: what follows one moves up.                       *)
Shifted ==
  /\ Len(messages') = Len(messages) - 1
  /\ \A k \in 1 .. Len(messages) - 1 : messages'[k] = messages[k + 1]
  /\ \A k \in 0 .. Len(messages) - 1 : \A p : Fresh(k + 1, p) => Fresh(k, p)'
  /\ \A k \in 0 .. Len(messages) - 1 : NoneAfter(k)' => NoneAfter(k + 1)

LEMMA Shifts ==
  ASSUME Typed, messages # <<>>, messages' = Tail(messages), UNCHANGED node
  PROVE  Shifted
<1>1. PICK n, s : n = Len(messages) /\ s = messages'
  OBVIOUS
<1>2. n \in Nat /\ n >= 1 /\ Len(s) = n - 1 /\ \A k \in 1 .. n - 1 : s[k] = messages[k + 1]
  BY <1>1, HeadTailProperties, LenProperties, EmptySeq DEF Typed
<1>3. ASSUME NEW k \in 0 .. n - 1, NEW p, Fresh(k + 1, p) PROVE Fresh(k, p)'
  <2>1. CASE k = n - 1
    <3>1. k + 1 = Len(messages)
      BY <1>1, <1>2, <2>1
    <3>2. rewound /\ TipOf(follower) = p /\ ~(k < Len(s))
      BY <1>2, <1>3, <2>1, <3>1 DEF Fresh
    <3> QED
      BY <1>1, <3>2 DEF Fresh, node
  <2>2. CASE k # n - 1
    <3>1. k + 1 < Len(messages) /\ k # Len(s) /\ k + 1 \in 1 .. n - 1
      BY <1>1, <1>2, <2>2
    <3>2. s[k + 1] = messages[k + 1 + 1]
      BY <1>2, <3>1
    <3>3. messages[k + 1 + 1].direction = "backward"
          /\ (messages[k + 1 + 1].block.id = p \/ ~Knows(chain, p))
      BY <1>3, <3>1 DEF Fresh
    <3> QED
      BY <1>1, <3>1, <3>2, <3>3 DEF Fresh, node
  <2> QED
    BY <2>1, <2>2
<1>4. ASSUME NEW k \in 0 .. n - 1, NoneAfter(k)' PROVE NoneAfter(k + 1)
  <2> SUFFICES ASSUME NEW j \in k + 1 + 1 .. n PROVE ~Finds(messages[j])
    BY <1>1 DEF NoneAfter
  <2>1. PICK i : i = j - 1
    OBVIOUS
  <2>2. i \in k + 1 .. Len(s) /\ i \in 1 .. n - 1 /\ i + 1 = j
    BY <1>2, <2>1
  <2>3. ~Finds(s[i])
    BY <1>1, <1>4, <2>2 DEF NoneAfter
  <2> QED
    BY <1>2, <2>2, <2>3
<1> QED
  BY <1>1, <1>2, <1>3, <1>4 DEF Shifted

LEMMA StartsLater ==
  ASSUME Typed, Asked, Started, Shifted, \A x \in Asking(messages') : resumes'[x] = resumes[x]
  PROVE  \A k \in 1 .. Len(messages') : StartsAt(k)'
<1>1. PICK n, s : n = Len(messages) /\ s = messages'
  OBVIOUS
<1>2. n \in Nat /\ Len(s) = n - 1 /\ \A k \in 1 .. n - 1 : s[k] = messages[k + 1]
  BY <1>1, Lengths DEF Shifted
<1>3. ASSUME NEW k \in 1 .. n - 1 PROVE StartsAt(k)'
  <2>1. PICK r : r = s[k].resume
    OBVIOUS
  <2>2. PICK p : p = resumes[r].point
    OBVIOUS
  <2>3. ASSUME Finds(s[k]), s[k].found, NoneAfter(k)', resumes'[r].state = "point"
        PROVE  resumes'[r] = resumes[r] /\ Fresh(k, p)'
    <3>1. r \in Asking(s)
      BY <1>2, <2>1, <2>3, AskingMeans DEF AskedBy
    <3>2. resumes'[r] = resumes[r]
      BY <1>1, <3>1
    <3>3. k + 1 \in 1 .. n /\ k \in 0 .. n - 1 /\ s[k] = messages[k + 1]
      BY <1>2
    <3>4. PICK j : j = k + 1
      OBVIOUS
    <3>5. NoneAfter(j)
      BY <1>1, <2>3, <3>3, <3>4 DEF Shifted
    <3>6. Fresh(j, p)
      BY <1>1, <2>1, <2>2, <2>3, <3>2, <3>3, <3>4, <3>5 DEF Started, StartsAt
    <3>7. Fresh(k, p)'
      BY <1>1, <3>3, <3>4, <3>6 DEF Shifted
    <3> QED
      BY <3>2, <3>7
  <2> QED
    BY <1>1, <2>1, <2>2, <2>3 DEF StartsAt
<1> QED
  BY <1>1, <1>2, <1>3

(* A response to findIntersection is delivered to the call r of resume().   *)
Arrives(message, r) ==
  /\ message \in Intersections /\ Finds(message) /\ r = message.resume
  /\ messages # <<>> /\ message = Head(messages) /\ message = messages[1] /\ message.tip <= minted
  /\ messages' \in Seq(Messages)
  /\ r \in 1 .. Len(resumes) /\ r \in Asking(messages) /\ r \notin Asking(requests)
  /\ Distinct(messages')
  /\ \A x : x \in Asking(messages') <=> x \in Asking(messages) /\ x # r
  /\ Elements(messages') \subseteq Elements(messages)
  /\ Shifted

LEMMA IntersectionArrives ==
  ASSUME Typed, Asked, OnIntersection
  PROVE  \E message, r : Arrives(message, r)
<1>1. messages # <<>> /\ Head(messages).method = "findIntersection" /\ messages' = Tail(messages)
      /\ UNCHANGED node
  BY DEF OnIntersection
<1>2. PICK message : message = Head(messages)
  OBVIOUS
<1>3. PICK r : r = message.resume
  OBVIOUS
<1>4. messages \in Seq(Messages)
  BY DEF Typed
<1>5. message \in Messages /\ messages' \in Seq(Messages)
  BY <1>1, <1>2, <1>4, HeadTailProperties
<1>6. message \in Intersections /\ Finds(message)
  BY <1>1, <1>2, <1>5 DEF Messages, Rolls, Finds
<1>7. TakenOut(messages, messages', message)
  BY <1>1, <1>2, <1>4, HeadTakenOut
<1>8. message = messages[1] /\ 1 \in 1 .. Len(messages)
  BY <1>1, <1>2, <1>4, EmptySeq, Lengths
<1>9. AskedBy(message, r) /\ \A x : AskedBy(message, x) <=> x = r
  BY <1>3, <1>6 DEF AskedBy
<1>10. r \in Asking(messages)
  BY <1>8, <1>9, AskingMeans
<1>11. r \in 1 .. Len(resumes) /\ r \notin Asking(requests) /\ Distinct(messages)
  BY <1>10 DEF Asked
<1>12. message.tip <= minted
  BY <1>6, <1>7 DEF Asked, TakenOut
<1>13. Distinct(messages') /\ \A x : x \in Asking(messages') <=> x \in Asking(messages) /\ x # r
  BY <1>7, <1>9, <1>11 DEF TakenOut
<1>14. Elements(messages') \subseteq Elements(messages)
  BY <1>7 DEF TakenOut
<1>15. Shifted
  BY <1>1, Shifts
<1>16. Arrives(message, r)
  BY <1>1, <1>2, <1>3, <1>5, <1>6, <1>8, <1>10, <1>11, <1>12, <1>13, <1>14, <1>15 DEF Arrives
<1> QED
  BY <1>16

LEMMA IntersectionRooted ==
  ASSUME Typed, NEW tree, RootedIn(tree), OnIntersection, NEW message, NEW r, Arrives(message, r)
  PROVE  RootedIn(tree)'
<1>1. /\ messages # <<>> /\ messages' = Tail(messages)
      /\ UNCHANGED <<sequential, open, node, tasks, running, applied, failed>>
  BY DEF OnIntersection, program, settings
<1>2. message = Head(messages) /\ Finds(message) /\ message = messages[1]
  BY DEF Arrives
<1>3. message.found \/ requests' = requests
  BY <1>2 DEF OnIntersection
<1>4. ASSUME sequential, failed = 0 PROVE Traced(tree)'
  <2>1. PICK m, q, t : TracedBy(tree \cup {<<>>}, m, q, t)
    BY <1>4 DEF RootedIn, Traced
  <2>2. Leads(tree \cup {<<>>}, q, messages, t) /\ messages \in Seq(Messages)
    BY <2>1 DEF TracedBy, Typed
  <2>3. Leads(tree \cup {<<>>}, After(q, message), Tail(messages), t)
    BY <1>1, <1>2, <2>2, LeadsRest
  <2>4. After(q, message) = q
    BY <1>2 DEF After
  <2>5. ASSUME Untouched PROVE Untouched'
    <3>1. 1 \in 1 .. Len(messages)
      BY <1>1, <2>2, EmptySeq, Lengths
    <3>2. requests' = requests
      BY <1>2, <1>3, <2>5, <3>1 DEF Untouched
    <3>3. \A x \in Elements(messages) : Finds(x) /\ ~x.found
      BY <2>5 DEF Untouched, Elements
    <3>4. \A x \in Elements(messages') : Finds(x) /\ ~x.found
      BY <3>3 DEF Arrives
    <3>5. \A i \in 1 .. Len(messages') : Finds(messages'[i]) /\ ~messages'[i].found
      BY <3>4 DEF Elements
    <3> QED
      BY <1>1, <2>5, <3>2, <3>5 DEF Untouched, node
  <2>6. Follows(t)'
    BY <1>1, <2>1, <2>5 DEF TracedBy, Follows, node
  <2>7. TracedBy(tree \cup {<<>>}, m, q, t)'
    BY <1>1, <2>1, <2>3, <2>4, <2>6 DEF TracedBy
  <2> QED
    BY <2>7 DEF Traced
<1> QED
  BY <1>1, <1>4 DEF RootedIn, node

(* resume() goes on: its call is another one, the requests that other calls *)
(* have made stay, and it has none left, or one for the point it goes by.   *)
GoesOn(r, call) ==
  /\ resumes' \in Seq(Calls) /\ Len(resumes') = Len(resumes)
  /\ resumes'[r] = call /\ call.point <= minted
  /\ \A x \in 1 .. Len(resumes) : x # r => resumes'[x] = resumes[x]
  /\ requests' \in Seq(Requests) /\ Distinct(requests')
  /\ \A x \in Asking(requests') :
       x \in Asking(requests) \/ (x = r /\ call.state \in {"tip", "point"})
  /\ \A x \in Elements(requests') :
       Finds(x) => x \in Elements(requests) \/ (x.resume = r /\ x.point = call.point)
  /\ Expects'

LEMMA IntersectionStep ==
  ASSUME Inv, OnIntersection, NEW message, NEW r, Arrives(message, r), NEW call, GoesOn(r, call)
  PROVE  Inv'
<1>0. Typed /\ Asked /\ Started
  BY DEF Inv
<1>1. PICK tree : RootedIn(tree)
  BY DEF Inv, Rooted
<1>2. UNCHANGED <<sequential, open, node, tasks, running, applied, failed>>
  BY DEF OnIntersection, program, settings
<1>3. Rooted'
  BY <1>0, <1>1, IntersectionRooted DEF Rooted
<1>4. Typed'
  BY <1>0, <1>2 DEF Typed, Arrives, GoesOn, node
<1>5. \A x \in Asking(messages') : x \in Asking(messages) /\ x # r /\ x \in 1 .. Len(resumes)
        /\ resumes'[x] = resumes[x]
  BY <1>0 DEF Asked, Arrives, GoesOn
<1>6. r \notin Asking(requests) /\ r \notin Asking(messages')
  BY DEF Arrives
<1>7. \A x \in Asking(requests) : x # r /\ x \in 1 .. Len(resumes) /\ resumes'[x] = resumes[x]
  BY <1>0, <1>6 DEF Asked, GoesOn
<1>8. \A x \in Asking(requests') : x \notin Asking(messages')
  BY <1>0, <1>5, <1>6 DEF Asked, GoesOn
<1>9. ASSUME NEW x \in Asking(requests') \cup Asking(messages')
      PROVE  x \in 1 .. Len(resumes') /\ (open => resumes'[x].state \in {"tip", "point"})
  <2>1. CASE x = r /\ call.state \in {"tip", "point"}
    BY <2>1 DEF Arrives, GoesOn
  <2>2. CASE x \in Asking(requests) \cup Asking(messages) /\ resumes'[x] = resumes[x]
    BY <1>0, <2>2 DEF Asked, GoesOn
  <2> QED
    BY <1>5, <1>7, <2>1, <2>2 DEF GoesOn
<1>10. ASSUME NEW x \in Elements(requests'), Finds(x), resumes'[x.resume].state = "point"
       PROVE  x.point = resumes'[x.resume].point
  <2>1. CASE x \in Elements(requests)
    <3>1. x.resume \in Asking(requests)
      BY <1>10, <2>1 DEF Asking
    <3>2. resumes'[x.resume] = resumes[x.resume]
      BY <1>7, <3>1
    <3> QED
      BY <1>0, <1>10, <2>1, <3>2 DEF Asked
  <2>2. CASE x.resume = r /\ x.point = call.point
    BY <2>2 DEF GoesOn
  <2> QED
    BY <1>10, <2>1, <2>2 DEF GoesOn
<1>11. \A x \in Elements(messages') : Finds(x) => x.tip <= minted
  BY <1>0 DEF Asked, Arrives
<1>12. \A x \in 1 .. Len(resumes') : resumes'[x].point <= minted
  BY <1>0 DEF Asked, GoesOn
<1>13. Asked'
  <2>1. Distinct(requests') /\ Distinct(messages')
    BY DEF Arrives, GoesOn
  <2> QED
    BY <1>2, <1>8, <1>9, <1>10, <1>11, <1>12, <2>1 DEF Asked, node
<1>14. Started'
  <2>1. \A k \in 1 .. Len(messages') : StartsAt(k)'
    BY <1>0, <1>5, StartsLater DEF Arrives
  <2> QED
    BY <2>1 DEF Started, GoesOn
<1> QED
  BY <1>3, <1>4, <1>13, <1>14 DEF Inv

(* The call r of resume() becomes another.                                  *)
Becoming(r, call, s) ==
  /\ s \in Seq(Calls) /\ Len(s) = Len(resumes) /\ s[r] = call
  /\ \A x \in 1 .. Len(resumes) : x # r => s[x] = resumes[x]

LEMMA CallBecomes ==
  ASSUME Typed, NEW r \in 1 .. Len(resumes), NEW call \in Calls
  PROVE  Becoming(r, call, [resumes EXCEPT ![r] = call])
<1>1. resumes \in Seq(Calls)
  BY DEF Typed
<1>2. PICK s : s = [resumes EXCEPT ![r] = call]
  OBVIOUS
<1>3. /\ s \in Seq(Calls) /\ Len(s) = Len(resumes)
      /\ \A x \in 1 .. Len(resumes) : s[x] = IF x = r THEN call ELSE resumes[x]
  BY <1>1, <1>2, ExceptSeq
<1>4. Becoming(r, call, s)
  BY <1>3 DEF Becoming
<1> QED
  BY <1>2, <1>4

LEMMA OnIntersectionStep ==
  ASSUME Inv, OnIntersection
  PROVE  Inv'
<1>0. Typed /\ Asked /\ Started
  BY DEF Inv
<1>1. PICK message, r : Arrives(message, r)
  BY <1>0, IntersectionArrives
<1>2. /\ message = Head(messages) /\ r = message.resume /\ r \in 1 .. Len(resumes)
      /\ message.tip <= minted /\ r \in Asking(messages) /\ r \notin Asking(requests)
      /\ message \in Intersections /\ message = messages[1] /\ Finds(message) /\ messages # <<>>
  BY <1>1 DEF Arrives
<1>3. PICK old : old = resumes[r]
  OBVIOUS
<1>4. /\ old \in Calls /\ minted \in Nat /\ old.point <= minted
      /\ open /\ old.state \in {"tip", "point"}
  BY <1>0, <1>2, <1>3, Lengths DEF Asked, OnIntersection
<1>5. expected = <<>>
  BY <1>0, <1>2 DEF Started, Expects
<1>6. requests \in Seq(Requests) /\ Distinct(requests)
  BY <1>0 DEF Typed, Asked
<1>7. CASE /\ resumes' = [resumes EXCEPT ![r].state = "rejected"]
           /\ UNCHANGED <<requests, expected>>
  <2>1. PICK call : call = [state |-> "rejected", window |-> old.window, point |-> old.point]
    OBVIOUS
  <2>2. call \in Calls /\ call.point = old.point
    BY <1>4, <2>1 DEF Calls
  <2>3. [old EXCEPT !.state = "rejected"] = call
    BY <1>4, <2>1 DEF Calls
  <2>4. resumes' = [resumes EXCEPT ![r] = call]
    BY <1>3, <1>7, <2>3
  <2>5. GoesOn(r, call)
    <3>1. /\ resumes' \in Seq(Calls) /\ Len(resumes') = Len(resumes) /\ resumes'[r] = call
          /\ \A x \in 1 .. Len(resumes) : x # r => resumes'[x] = resumes[x]
      BY <1>0, <1>2, <2>2, <2>4, CallBecomes DEF Becoming
    <3>2. Expects'
      BY <1>5, <1>7 DEF Expects
    <3> QED
      BY <1>4, <1>6, <1>7, <2>2, <3>1, <3>2 DEF GoesOn
  <2> QED
    BY <1>1, <2>5, IntersectionStep
<1>8. CASE /\ resumes' = [resumes EXCEPT ![r].state = "point", ![r].point = message.tip]
           /\ requests' = Append(requests, FindIntersection(r, PointFromTip(message.tip)))
           /\ UNCHANGED expected
  <2>1. PICK call : call = [state |-> "point", window |-> old.window, point |-> message.tip]
    OBVIOUS
  <2>2. call \in Calls /\ call.point = message.tip /\ call.state = "point"
    BY <1>2, <1>4, <2>1 DEF Calls, Intersections
  <2>3. [old EXCEPT !.state = "point", !.point = message.tip] = call
    <3>1. PICK tip : tip = message.tip
      OBVIOUS
    <3>2. PICK new : new = [old EXCEPT !.state = "point"]
      OBVIOUS
    <3>3. new = [state |-> "point", window |-> old.window, point |-> old.point]
      BY <1>4, <3>2 DEF Calls
    <3>4. [new EXCEPT !.point = tip] = [state |-> "point", window |-> old.window, point |-> tip]
      BY <3>3
    <3>5. [old EXCEPT !.state = "point", !.point = tip] = [new EXCEPT !.point = tip]
      BY <3>2
    <3> QED
      BY <2>1, <3>1, <3>4, <3>5
  <2>4. resumes' = [resumes EXCEPT ![r] = call]
    BY <1>3, <1>8, <2>3
  <2>5. PICK request : request = FindIntersection(r, message.tip)
    OBVIOUS
  <2>6. request \in Requests /\ Finds(request) /\ request.resume = r /\ request.point = message.tip
    BY <1>2, <2>5 DEF FindIntersection, Requests, Finds, Intersections
  <2>7. requests' = Append(requests, request)
    BY <1>8, <2>5 DEF PointFromTip
  <2>8. requests' \in Seq(Requests) /\ PutIn(requests, requests', request)
    BY <1>6, <2>6, <2>7, AppendProperties, OnePutIn
  <2>9. \A x : AskedBy(request, x) <=> x = r
    BY <2>6 DEF AskedBy
  <2>10. GoesOn(r, call)
    <3>1. /\ resumes' \in Seq(Calls) /\ Len(resumes') = Len(resumes) /\ resumes'[r] = call
          /\ \A x \in 1 .. Len(resumes) : x # r => resumes'[x] = resumes[x]
      BY <1>0, <1>2, <2>2, <2>4, CallBecomes DEF Becoming
    <3>2. Expects'
      BY <1>5, <1>8 DEF Expects
    <3>3. Distinct(requests') /\ \A x \in Asking(requests') : x \in Asking(requests) \/ x = r
      BY <1>2, <1>6, <2>8, <2>9 DEF PutIn
    <3>4. \A x \in Elements(requests') : x \in Elements(requests) \/ x = request
      BY <2>8 DEF PutIn
    <3> QED
      BY <1>2, <2>2, <2>6, <2>8, <3>1, <3>2, <3>3, <3>4 DEF GoesOn
  <2> QED
    BY <1>1, <2>10, IntersectionStep
<1>9. CASE /\ message.found /\ old.state = "point"
           /\ resumes' = [resumes EXCEPT ![r].state = "resolved"]
           /\ requests' = requests \o [n \in 1 .. old.window |-> NextBlock]
           /\ expected' = IF Awaited = {r} THEN <<old.point>> ELSE <<>>
  <2>1. PICK call : call = [state |-> "resolved", window |-> old.window, point |-> old.point]
    OBVIOUS
  <2>2. call \in Calls /\ call.point = old.point
    BY <1>4, <2>1 DEF Calls
  <2>3. [old EXCEPT !.state = "resolved"] = call
    BY <1>4, <2>1 DEF Calls
  <2>4. resumes' = [resumes EXCEPT ![r] = call]
    BY <1>3, <1>9, <2>3
  <2>5. PICK w : w = old.window
    OBVIOUS
  <2>6. w \in Nat /\ requests' = requests \o [n \in 1 .. w |-> NextBlock]
    BY <1>4, <1>9, <2>5 DEF Calls
  <2>7. requests' \in Seq(Requests) /\ PutIn(requests, requests', NextBlock)
    BY <1>6, <2>6, BlocksPutIn
  <2>8. ~Finds(NextBlock) /\ \A x : ~AskedBy(NextBlock, x)
    BY DEF NextBlock, Finds, AskedBy
  <2>9. Distinct(requests') /\ \A x : x \in Asking(requests') <=> x \in Asking(requests)
    BY <1>6, <2>7, <2>8 DEF PutIn
  <2>10. Expects'
    <3> SUFFICES ASSUME Awaited = {r} PROVE Expects'
      BY <1>9 DEF Expects
    <3>1. \A x \in Asking(requests) \cup Asking(messages) : x = r
      BY <1>0, <1>4, Lengths DEF Asked, Awaited
    <3>2. \A x : x \in Asking(messages') <=> x \in Asking(messages) /\ x # r
      BY <1>1 DEF Arrives
    <3>3. Asking(requests') = {} /\ Asking(messages') = {}
      BY <1>2, <2>9, <3>1, <3>2
    <3>4. PICK p : p = old.point
      OBVIOUS
    <3>5. NoneAfter(1)
      <4> SUFFICES ASSUME NEW j \in 1 + 1 .. Len(messages), Finds(messages[j]) PROVE FALSE
        BY DEF NoneAfter
      <4>1. 1 \in 1 .. Len(messages) /\ j \in 1 .. Len(messages) /\ j # 1
        BY <1>0, Lengths
      <4>2. messages[j].resume \in Asking(messages)
        BY <4>1, AskingMeans DEF AskedBy
      <4>3. messages[j].resume = messages[1].resume
        BY <1>2, <3>1, <4>2
      <4> QED
        BY <1>0, <1>2, <4>1, <4>3 DEF Asked, Distinct
    <3>6. Len(messages) \in Nat /\ Len(messages) >= 1
      BY <1>0, <1>2, EmptySeq, Lengths DEF Typed
    <3>7. Fresh(1, p)
      <4>1. StartsAt(1)
        BY <1>0, <3>6 DEF Started
      <4>2. Finds(messages[1]) /\ messages[1].found /\ messages[1].resume = r
        BY <1>2, <1>9
      <4> QED
        BY <1>3, <1>9, <3>4, <3>5, <4>1, <4>2 DEF StartsAt
    <3>8. Fresh(0, p)'
      <4>1. Shifted /\ 0 \in 0 .. Len(messages) - 1 /\ 0 + 1 = 1
        BY <1>1, <3>6 DEF Arrives
      <4> QED
        BY <3>7, <4>1 DEF Shifted
    <3>9. p \in 0 .. minted /\ minted' = minted /\ expected' = <<p>>
      <4>1. p \in 0 .. minted
        BY <1>4, <3>4 DEF Calls
      <4>2. minted' = minted
        BY DEF OnIntersection, node
      <4> QED
        BY <1>9, <3>4, <4>1, <4>2
    <3> QED
      BY <3>3, <3>8, <3>9 DEF Expects
  <2>11. GoesOn(r, call)
    <3>1. /\ resumes' \in Seq(Calls) /\ Len(resumes') = Len(resumes) /\ resumes'[r] = call
          /\ \A x \in 1 .. Len(resumes) : x # r => resumes'[x] = resumes[x]
      BY <1>0, <1>2, <2>2, <2>4, CallBecomes DEF Becoming
    <3>2. \A x \in Elements(requests') : Finds(x) => x \in Elements(requests)
      BY <2>7, <2>8 DEF PutIn
    <3> QED
      BY <1>4, <2>2, <2>7, <2>9, <2>10, <3>1, <3>2 DEF GoesOn
  <2> QED
    BY <1>1, <2>11, IntersectionStep
<1> QED
  BY <1>2, <1>3, <1>7, <1>8, <1>9 DEF OnIntersection

-----------------------------------------------------------------------------
(* The callback on messages: a roll is given to a handler, or waits.        *)
LEMMA OnBlockRooted ==
  ASSUME Typed, NEW tree, RootedIn(tree), OnBlock
  PROVE  RootedIn(tree)'
<1>1. /\ messages # <<>> /\ messages' = Tail(messages) /\ ~Finds(Head(messages))
      /\ UNCHANGED <<sequential, open, node, requests, resumes, applied, failed>>
  BY DEF OnBlock, settings, Finds
<1>2. PICK roll : roll = Head(messages)
  OBVIOUS
<1>3. roll \in Messages /\ messages \in Seq(Messages)
  BY <1>1, <1>2, HeadTailProperties DEF Typed
<1>4. roll \in Rolls
  BY <1>1, <1>2, <1>3 DEF Messages, Intersections, Finds
<1>5. ASSUME sequential, failed = 0 PROVE Traced(tree)'
  <2>1. PICK m, q, t : TracedBy(tree \cup {<<>>}, m, q, t)
    BY <1>5 DEF RootedIn, Traced
  <2>2. PICK set : set = tree \cup {<<>>}
    OBVIOUS
  <2>3. /\ applied \in set /\ Leads(set, m, tasks, q) /\ Leads(set, q, messages, t)
        /\ running = <<>> => m = applied
        /\ running # <<>> => m = After(applied, running[1].message)
    BY <2>1, <2>2 DEF TracedBy
  <2>4. PICK next : next = After(q, roll)
    OBVIOUS
  <2>5. Leads(set, next, Tail(messages), t)
    BY <1>1, <1>2, <1>3, <2>3, <2>4, LeadsRest
  <2>6. next \in set
    <3>1. Tail(messages) \in Seq(Messages)
      BY <1>1, <1>3, HeadTailProperties
    <3> QED
      BY <2>5, <3>1, LeadsEnds
  <2>7. Follows(t)'
    <3>1. ~Untouched
      <4>1. 1 \in 1 .. Len(messages) /\ Head(messages) = messages[1]
        BY <1>1, <1>3, EmptySeq, Lengths
      <4> QED
        BY <1>1, <4>1 DEF Untouched
    <3> QED
      BY <1>1, <2>1, <3>1 DEF TracedBy, Follows, node
  <2>8. CASE Len(running) >= Concurrency
    <3>1. tasks' = Append(tasks, roll) /\ running' = running
      BY <1>2, <1>5, <2>8 DEF OnBlock
    <3>2. Leads(set, m, Append(tasks, roll), next)
      BY <1>4, <2>3, <2>4, <2>6, LeadsOn DEF Typed
    <3>3. TracedBy(set, m, next, t)'
      BY <1>1, <2>3, <2>5, <2>7, <3>1, <3>2 DEF TracedBy
    <3> QED
      BY <2>2, <3>3 DEF Traced
  <2>9. CASE ~(Len(running) >= Concurrency)
    <3>1. running' = Append(running, Handler(roll)) /\ tasks' = tasks
      BY <1>2, <1>5, <2>9 DEF OnBlock
    <3>2. running = <<>>
      <4>1. running \in Seq(Handlers) /\ Len(running) \in Nat
        BY LenProperties DEF Typed
      <4>2. Len(running) = 0
        BY <2>9, <4>1 DEF Concurrency
      <4> QED
        BY <4>1, <4>2, EmptySeq
    <3>3. tasks = <<>> /\ tasks \in Seq(Rolls)
      BY <3>2 DEF Typed
    <3>4. m = applied /\ q = m
      BY <2>3, <3>2, <3>3, LeadsEnds
    <3>5. running' # <<>> /\ running'[1].message = roll
      <4>1. PICK h : h = Handler(roll)
        OBVIOUS
      <4>2. h \in Handlers /\ h.message = roll
        BY <1>4, <4>1 DEF Handler, Handlers
      <4>3. running' = <<h>>
        BY <3>1, <3>2, <4>1
      <4> QED
        BY <4>2, <4>3
    <3>6. Leads(set, next, <<>>, next)
      BY <2>6, LeadsNowhere
    <3>7. TracedBy(set, next, next, t)'
      BY <1>1, <2>3, <2>4, <2>5, <2>7, <3>1, <3>3, <3>4, <3>5, <3>6 DEF TracedBy
    <3> QED
      BY <2>2, <3>7 DEF Traced
  <2> QED
    BY <2>8, <2>9
<1> QED
  BY <1>1, <1>5 DEF RootedIn, node

LEMMA OnBlockStep ==
  ASSUME Inv, OnBlock
  PROVE  Inv'
<1>0. Typed /\ Asked /\ Started
  BY DEF Inv
<1>1. PICK tree : RootedIn(tree)
  BY DEF Inv, Rooted
<1>2. /\ messages # <<>> /\ messages' = Tail(messages) /\ ~Finds(Head(messages)) /\ expected' = <<>>
      /\ UNCHANGED <<sequential, open, node, requests, resumes, applied, failed>>
  BY DEF OnBlock, settings, Finds
<1>3. PICK roll : roll = Head(messages)
  OBVIOUS
<1>4. roll \in Messages /\ messages' \in Seq(Messages) /\ TakenOut(messages, messages', roll)
  BY <1>0, <1>2, <1>3, HeadTailProperties, HeadTakenOut DEF Typed
<1>5. roll \in Rolls
  BY <1>2, <1>3, <1>4 DEF Messages, Intersections, Finds
<1>6. Rooted'
  BY <1>0, <1>1, OnBlockRooted DEF Rooted
<1>7. Typed'
  <2>1. running \in Seq(Handlers) /\ tasks \in Seq(Rolls) /\ Len(running) \in Nat
    BY <1>0, LenProperties DEF Typed
  <2>2. CASE sequential /\ Len(running) >= Concurrency
    <3>1. tasks' = Append(tasks, roll) /\ running' = running
      BY <1>3, <2>2 DEF OnBlock
    <3>2. tasks' \in Seq(Rolls)
      BY <1>5, <2>1, <3>1, AppendProperties
    <3>3. running # <<>>
      BY <2>2, EmptySeq DEF Concurrency
    <3> QED
      BY <1>0, <1>2, <1>4, <2>2, <3>1, <3>2, <3>3 DEF Typed, node
  <2>3. CASE ~(sequential /\ Len(running) >= Concurrency)
    <3>1. running' = Append(running, Handler(roll)) /\ tasks' = tasks
      BY <1>3, <2>3 DEF OnBlock
    <3>2. PICK h : h = Handler(roll)
      OBVIOUS
    <3>3. h \in Handlers
      BY <1>5, <3>2 DEF Handler, Handlers
    <3>4. running' \in Seq(Handlers) /\ running' # <<>> /\ Len(running') = Len(running) + 1
      BY <2>1, <3>1, <3>2, <3>3, AppendProperties
    <3>5. sequential => Len(running') <= 1
      BY <2>1, <2>3, <3>4 DEF Concurrency
    <3> QED
      BY <1>0, <1>2, <1>4, <3>1, <3>4, <3>5 DEF Typed, node
  <2> QED
    BY <2>2, <2>3
<1>8. Distinct(messages') /\ Elements(messages') \subseteq Elements(messages)
      /\ \A x : x \in Asking(messages') <=> x \in Asking(messages)
  <2>1. \A x : ~AskedBy(roll, x)
    BY <1>2, <1>3 DEF AskedBy
  <2> QED
    BY <1>0, <1>4, <2>1 DEF Asked, TakenOut
<1>9. Asked'
  BY <1>0, <1>2, <1>8 DEF Asked, node
<1>10. Started'
  <2>1. Shifted
    BY <1>0, <1>2, Shifts
  <2>2. \A k \in 1 .. Len(messages') : StartsAt(k)'
    BY <1>0, <1>2, <2>1, StartsLater
  <2> QED
    BY <1>2, <2>2 DEF Started, Expects
<1> QED
  BY <1>6, <1>7, <1>9, <1>10 DEF Inv

-----------------------------------------------------------------------------
(* What leaves the messages and the node's chain as they are.              *)
LEMMA ExpectsStays ==
  ASSUME Started, UNCHANGED <<node, messages, expected>>,
         Asking(requests) = {} => Asking(requests') = {}
  PROVE  Expects'
<1> SUFFICES ASSUME expected # <<>> PROVE Expects'
  BY DEF Expects
<1>1. PICK p \in 0 .. minted : expected = <<p>> /\ Fresh(0, p)
  BY DEF Started, Expects
<1>2. Fresh(0, p)'
  BY <1>1 DEF Fresh, node
<1>3. Asking(requests') = {} /\ Asking(messages) = {}
  BY DEF Started, Expects
<1>4. expected' = <<p>> /\ minted' = minted /\ messages' = messages
  BY <1>1 DEF node
<1> QED
  BY <1>1, <1>2, <1>3, <1>4 DEF Expects

LEMMA StartedStays ==
  ASSUME Started, UNCHANGED <<node, messages, resumes, expected>>,
         Asking(requests) = {} => Asking(requests') = {}
  PROVE  Started'
<1>1. ASSUME NEW k \in 1 .. Len(messages) PROVE StartsAt(k)'
  <2>1. StartsAt(k)
    BY DEF Started
  <2> QED
    BY <2>1 DEF StartsAt, NoneAfter, Fresh, node
<1>2. Expects'
  BY ExpectsStays
<1> QED
  BY <1>1, <1>2 DEF Started

LEMMA AsksStep ==
  ASSUME Inv, NEW i \in DOMAIN running, Asks(i)
  PROVE  Inv'
<1>0. Typed /\ Asked /\ Started
  BY DEF Inv
<1>1. PICK tree : RootedIn(tree)
  BY DEF Inv, Rooted
<1>2. /\ running' = [running EXCEPT ![i].asked = TRUE]
      /\ requests' = IF open THEN Append(requests, NextBlock) ELSE requests
      /\ UNCHANGED <<sequential, open, node, messages, resumes, tasks, applied, failed, expected>>
  BY DEF Asks, settings
<1>3. requests \in Seq(Requests) /\ running \in Seq(Handlers)
  BY <1>0 DEF Typed
<1>4. PICK next : next = NextBlock
  OBVIOUS
<1>5. next \in Requests /\ ~Finds(next)
  BY <1>4 DEF NextBlock, Requests, Finds, Origin
<1>6. \A x : ~AskedBy(next, x)
  BY <1>5 DEF AskedBy
<1>7. open => requests' \in Seq(Requests) /\ PutIn(requests, requests', next)
  BY <1>2, <1>3, <1>4, <1>5, AppendProperties, OnePutIn
<1>8. /\ requests' \in Seq(Requests) /\ Distinct(requests')
      /\ \A x : x \in Asking(requests') <=> x \in Asking(requests)
      /\ \A x \in Elements(requests') : Finds(x) => x \in Elements(requests)
  <2>1. CASE open
    BY <1>0, <1>5, <1>6, <1>7, <2>1 DEF Asked, PutIn
  <2>2. CASE ~open
    BY <1>0, <1>2, <1>3, <2>2 DEF Asked
  <2> QED
    BY <2>1, <2>2
<1>9. PICK old, s : old = running[i] /\ s = running'
  OBVIOUS
<1>10. i \in 1 .. Len(running) /\ old \in Handlers /\ Len(running) \in Nat
  BY <1>3, <1>9, LenProperties, ElementOfSeq
<1>11. PICK h : h = [old EXCEPT !.asked = TRUE]
  OBVIOUS
<1>12. h \in Handlers /\ h.message = old.message
  BY <1>10, <1>11 DEF Handlers
<1>13. s = [running EXCEPT ![i] = h]
  BY <1>2, <1>9, <1>11
<1>14. /\ s \in Seq(Handlers) /\ Len(s) = Len(running)
       /\ \A j \in 1 .. Len(running) : s[j] = IF j = i THEN h ELSE running[j]
  BY <1>3, <1>10, <1>12, <1>13, ExceptSeq
<1>15. \A j \in 1 .. Len(running) : s[j].message = running[j].message
  BY <1>9, <1>12, <1>14
<1>16. running # <<>> /\ s # <<>> /\ 1 \in 1 .. Len(running)
  BY <1>10, <1>14, EmptySeq
<1>17. Typed'
  BY <1>0, <1>2, <1>8, <1>9, <1>14, <1>16 DEF Typed, node
<1>18. RootedIn(tree)'
  <2>1. ASSUME sequential, failed = 0 PROVE Traced(tree)'
    <3>1. PICK m, q, t : TracedBy(tree \cup {<<>>}, m, q, t)
      BY <1>1, <2>1 DEF RootedIn, Traced
    <3>2. Follows(t)'
      BY <1>2, <1>16, <3>1 DEF TracedBy, Follows, Untouched, node
    <3>3. s[1].message = running[1].message
      BY <1>15, <1>16
    <3>4. TracedBy(tree \cup {<<>>}, m, q, t)'
      BY <1>2, <1>9, <1>16, <3>1, <3>2, <3>3 DEF TracedBy
    <3> QED
      BY <3>4 DEF Traced
  <2> QED
    BY <1>1, <1>2, <2>1 DEF RootedIn, node
<1>19. Asked'
  BY <1>0, <1>2, <1>8 DEF Asked, node
<1>20. Started'
  BY <1>0, <1>2, <1>8, StartedStays
<1> QED
  BY <1>17, <1>18, <1>19, <1>20 DEF Inv, Rooted

(* A handler is over: with `sequential', it was the only one.               *)
LEMMA HandlerOver ==
  ASSUME Typed, NEW i \in DOMAIN running, Over(i)
  PROVE  /\ running' \in Seq(Handlers) /\ tasks' \in Seq(Rolls)
         /\ tasks' # <<>> => sequential /\ running' # <<>>
         /\ sequential => i = 1 /\ running' = Pulled /\ Len(running') <= 1
<1>1. running \in Seq(Handlers) /\ tasks \in Seq(Rolls)
  BY DEF Typed
<1>2. i \in 1 .. Len(running) /\ Len(running) \in Nat
  BY <1>1, LenProperties
<1>3. PICK rest : rest = RemoveAt(running, i)
  OBVIOUS
<1>4. rest \in Seq(Handlers) /\ Len(rest) = Len(running) - 1
  BY <1>1, <1>2, <1>3, RemovedAt DEF Without
<1>5. PICK next : next = Pulled
  OBVIOUS
<1>6. next \in Seq(Handlers) /\ Len(next) <= 1 /\ Len(next) \in Nat /\ (tasks # <<>> => Len(next) = 1)
  <2>1. CASE tasks = <<>>
    BY <1>5, <2>1, EmptySeq DEF Pulled
  <2>2. CASE tasks # <<>>
    <3>1. PICK roll, h : roll = Head(tasks) /\ h = Handler(roll)
      OBVIOUS
    <3>2. roll \in Rolls
      BY <1>1, <2>2, <3>1, HeadTailProperties
    <3>3. h \in Handlers
      BY <3>1, <3>2 DEF Handler, Handlers
    <3>4. next = <<h>>
      BY <1>5, <2>2, <3>1 DEF Pulled
    <3> QED
      BY <3>3, <3>4
  <2> QED
    BY <2>1, <2>2
<1>7. running' = rest \o next /\ tasks' = IF tasks = <<>> THEN <<>> ELSE Tail(tasks)
  BY <1>3, <1>5 DEF Over
<1>8. running' \in Seq(Handlers) /\ Len(running') = Len(rest) + Len(next)
  BY <1>4, <1>6, <1>7, ConcatProperties
<1>9. tasks' \in Seq(Rolls)
  <2>1. CASE tasks = <<>>
    BY <1>1, <1>7, <2>1
  <2>2. CASE tasks # <<>>
    BY <1>1, <1>7, <2>2, HeadTailProperties
  <2> QED
    BY <2>1, <2>2
<1>10. tasks' # <<>> => sequential /\ running' # <<>>
  <2>1. tasks' # <<>> => tasks # <<>>
    BY <1>7
  <2>2. tasks # <<>> => sequential
    BY DEF Typed
  <2>3. tasks # <<>> => Len(running') # 0
    <3>1. PICK n, k : n = Len(running) /\ k = Len(next)
      OBVIOUS
    <3>2. Len(running') = n - 1 + k /\ n \in Nat /\ n >= 1 /\ (tasks # <<>> => k = 1)
      BY <1>2, <1>4, <1>6, <1>8, <3>1
    <3> QED
      BY <3>2
  <2> QED
    BY <2>1, <2>2, <2>3, EmptySeq
<1>11. ASSUME sequential PROVE i = 1 /\ running' = Pulled /\ Len(running') <= 1
  <2>1. Len(running) = 1 /\ i = 1
    <3>1. Len(running) <= 1
      BY <1>11 DEF Typed
    <3>2. PICK n : n = Len(running)
      OBVIOUS
    <3>3. n \in Nat /\ n <= 1 /\ i \in 1 .. n
      BY <1>2, <3>1, <3>2
    <3>4. n = 1 /\ i = 1
      BY <3>3
    <3> QED
      BY <3>2, <3>4
  <2>2. rest = <<>>
    BY <1>4, <2>1, EmptySeq
  <2>3. running' = next
    BY <1>6, <1>7, <2>2, ConcatEmptySeq
  <2> QED
    BY <1>5, <1>6, <2>1, <2>3
<1> QED
  BY <1>8, <1>9, <1>10, <1>11

LEMMA FinishesRooted ==
  ASSUME Typed, NEW tree, RootedIn(tree), NEW i \in DOMAIN running, Finishes(i)
  PROVE  RootedIn(tree)'
<1>1. /\ applied' = Applying(running[i].message) /\ Over(i)
      /\ UNCHANGED <<sequential, open, node, requests, messages, resumes, failed, expected>>
  BY DEF Finishes, settings
<1>2. running \in Seq(Handlers) /\ tasks \in Seq(Rolls) /\ i \in 1 .. Len(running) /\ running # <<>>
  BY LenProperties, EmptySeq DEF Typed
<1>3. ASSUME sequential, failed = 0 PROVE Traced(tree)'
  <2>1. PICK m, q, t : TracedBy(tree \cup {<<>>}, m, q, t)
    BY <1>3 DEF RootedIn, Traced
  <2>2. PICK set : set = tree \cup {<<>>}
    OBVIOUS
  <2>3. /\ applied \in set /\ Leads(set, m, tasks, q) /\ Leads(set, q, messages, t)
        /\ m = After(applied, running[1].message) /\ Follows(t)
    BY <1>2, <2>1, <2>2 DEF TracedBy
  <2>4. i = 1 /\ running' = Pulled
    BY <1>1, <1>3, HandlerOver
  <2>5. PICK roll : roll = running[1].message
    OBVIOUS
  <2>6. roll \in Rolls
    <3>1. running[1] \in Handlers
      BY <1>2, <2>4, ElementOfSeq
    <3> QED
      BY <2>5, <3>1 DEF Handlers
  <2>7. applied' = m
    BY <1>1, <2>3, <2>4, <2>5, <2>6, ApplyingIsAfter
  <2>8. m \in set
    BY <1>2, <2>3, LeadsEnds
  <2>9. Follows(t)'
    BY <1>1, <1>2, <2>3 DEF Follows, Untouched, node
  <2>10. CASE tasks = <<>>
    <3>1. running' = <<>> /\ tasks' = <<>>
      BY <1>1, <2>4, <2>10 DEF Pulled, Over
    <3>2. TracedBy(set, m, q, t)'
      BY <1>1, <2>3, <2>7, <2>8, <2>9, <2>10, <3>1 DEF TracedBy
    <3> QED
      BY <2>2, <3>2 DEF Traced
  <2>11. CASE tasks # <<>>
    <3>1. PICK head, next : head = Head(tasks) /\ next = After(m, head)
      OBVIOUS
    <3>2. running' = <<Handler(head)>> /\ tasks' = Tail(tasks)
      BY <1>1, <2>4, <2>11, <3>1 DEF Pulled, Over
    <3>3. running' # <<>> /\ running'[1].message = head
      BY <3>2 DEF Handler
    <3>4. Leads(set, next, Tail(tasks), q)
      BY <1>2, <2>3, <2>11, <3>1, LeadsRest
    <3>5. TracedBy(set, next, q, t)'
      BY <1>1, <2>3, <2>7, <2>8, <2>9, <3>1, <3>2, <3>3, <3>4 DEF TracedBy
    <3> QED
      BY <2>2, <3>5 DEF Traced
  <2> QED
    BY <2>10, <2>11
<1> QED
  BY <1>1, <1>3 DEF RootedIn, node

LEMMA FinishesStep ==
  ASSUME Inv, NEW i \in DOMAIN running, Finishes(i)
  PROVE  Inv'
<1>0. Typed /\ Asked /\ Started
  BY DEF Inv
<1>1. PICK tree : RootedIn(tree)
  BY DEF Inv, Rooted
<1>2. Over(i) /\ UNCHANGED <<sequential, open, node, requests, messages, resumes, failed, expected>>
  BY DEF Finishes, settings
<1>3. Rooted'
  BY <1>0, <1>1, FinishesRooted DEF Rooted
<1>4. Typed'
  BY <1>0, <1>2, HandlerOver DEF Typed, node
<1>5. Asked'
  BY <1>0, <1>2 DEF Asked, node
<1>6. Started'
  BY <1>0, <1>2, StartedStays
<1> QED
  BY <1>3, <1>4, <1>5, <1>6 DEF Inv

(* A handler that fails is the end of what is said of the program's chain.  *)
LEMMA FailsStep ==
  ASSUME Inv, NEW i \in DOMAIN running, Fails(i)
  PROVE  Inv'
<1>0. Typed /\ Asked /\ Started
  BY DEF Inv
<1>1. PICK tree : RootedIn(tree)
  BY DEF Inv, Rooted
<1>2. /\ Over(i) /\ failed' = failed + 1
      /\ UNCHANGED <<sequential, open, node, requests, messages, resumes, applied, expected>>
  BY DEF Fails, settings
<1>3. failed \in Nat /\ failed' \in Nat /\ failed' # 0
  BY <1>0, <1>2 DEF Typed
<1>4. RootedIn(tree)'
  BY <1>1, <1>2, <1>3 DEF RootedIn, node
<1>5. Typed'
  BY <1>0, <1>2, <1>3, HandlerOver DEF Typed, node
<1>6. Asked'
  BY <1>0, <1>2 DEF Asked, node
<1>7. Started'
  BY <1>0, <1>2, StartedStays
<1> QED
  BY <1>4, <1>5, <1>6, <1>7 DEF Inv, Rooted

-----------------------------------------------------------------------------
LEMMA CloseStep ==
  ASSUME Inv, Close
  PROVE  Inv'
<1>0. Typed /\ Asked /\ Started
  BY DEF Inv
<1>1. PICK tree : RootedIn(tree)
  BY DEF Inv, Rooted
<1>2. /\ open' = FALSE
      /\ resumes' = [r \in DOMAIN resumes |->
                       IF r \in Awaited THEN Closed(resumes[r]) ELSE resumes[r]]
      /\ UNCHANGED <<sequential, node, requests, messages, tasks, running, applied, failed, expected>>
  BY DEF Close, program, settings
<1>3. PICK n, s : n = Len(resumes) /\ s = resumes'
  OBVIOUS
<1>4. n \in Nat /\ DOMAIN resumes = 1 .. n /\ \A r \in 1 .. n : resumes[r] \in Calls
  BY <1>0, <1>3, Lengths
<1>5. ASSUME NEW r \in 1 .. n
      PROVE  /\ s[r] \in Calls /\ s[r].point = resumes[r].point
             /\ s[r].state # "point" \/ s[r] = resumes[r]
  <2>1. s[r] = IF r \in Awaited THEN Closed(resumes[r]) ELSE resumes[r]
    BY <1>2, <1>3, <1>4
  <2>2. PICK old : old = resumes[r]
    OBVIOUS
  <2>3. old \in Calls
    BY <1>4, <2>2
  <2>4. PICK call : call = Closed(old)
    OBVIOUS
  <2>5. call \in Calls /\ call.point = old.point /\ (call.state = "rejected" \/ call = old)
    BY <2>3, <2>4 DEF Closed, Calls
  <2> QED
    BY <2>1, <2>2, <2>3, <2>4, <2>5
<1>6. s \in Seq(Calls) /\ Len(s) = n
  <2>1. s \in [1 .. n -> Calls]
    <3>1. s = [r \in 1 .. n |-> s[r]]
      BY <1>2, <1>3, <1>4
    <3> QED
      BY <1>5, <3>1
  <2>2. s \in Seq(Calls)
    BY <1>4, <2>1, SeqDef
  <2>3. DOMAIN s = 1 .. n /\ DOMAIN s = 1 .. Len(s) /\ Len(s) \in Nat
    BY <2>1, <2>2, LenProperties
  <2> QED
    BY <1>4, <2>2, <2>3
<1>7. Typed'
  BY <1>0, <1>2, <1>3, <1>6 DEF Typed, node
<1>8. RootedIn(tree)'
  <2>1. ASSUME sequential, failed = 0 PROVE Traced(tree)'
    <3>1. PICK m, q, t : TracedBy(tree \cup {<<>>}, m, q, t)
      BY <1>1, <2>1 DEF RootedIn, Traced
    <3>2. TracedBy(tree \cup {<<>>}, m, q, t)'
      BY <1>2, <3>1 DEF TracedBy, Follows, Untouched, node
    <3> QED
      BY <3>2 DEF Traced
  <2> QED
    BY <1>1, <1>2, <2>1 DEF RootedIn, node
<1>9. \A r \in Asking(requests) \cup Asking(messages) : r \in 1 .. n
  BY <1>0, <1>3 DEF Asked
<1>10. Asked'
  <2>1. \A x \in Elements(requests) :
          Finds(x) /\ s[x.resume].state = "point" => x.point = s[x.resume].point
    <3>1. \A x \in Elements(requests) : Finds(x) => x.resume \in 1 .. n
      BY <1>9 DEF Asking
    <3> QED
      BY <1>0, <1>5, <3>1 DEF Asked
  <2>2. \A r \in 1 .. n : s[r].point <= minted
    BY <1>0, <1>3, <1>5 DEF Asked
  <2> QED
    BY <1>0, <1>2, <1>3, <1>6, <1>9, <2>1, <2>2 DEF Asked, node
<1>11. Started'
  <2>1. ASSUME NEW k \in 1 .. Len(messages) PROVE StartsAt(k)'
    <3>1. Finds(messages[k]) => messages[k].resume \in 1 .. n
      BY <1>9, AskingMeans DEF AskedBy
    <3>2. Finds(messages[k]) =>
            LET call == s[messages[k].resume]
            IN  call.state # "point" \/ call = resumes[messages[k].resume]
      BY <1>5, <3>1
    <3>3. StartsAt(k)
      BY <1>0 DEF Started
    <3> QED
      BY <1>2, <1>3, <3>2, <3>3 DEF StartsAt, NoneAfter, Fresh, node
  <2>2. Expects'
    BY <1>0, <1>2, ExpectsStays
  <2> QED
    BY <1>2, <2>1, <2>2 DEF Started
<1> QED
  BY <1>7, <1>8, <1>10, <1>11 DEF Inv, Rooted

LEMMA StutterStep ==
  ASSUME Inv, UNCHANGED vars
  PROVE  Inv'
<1>0. Typed /\ Asked /\ Started
  BY DEF Inv
<1>1. PICK tree : RootedIn(tree)
  BY DEF Inv, Rooted
<1>2. UNCHANGED <<sequential, open, node, requests, messages, resumes, tasks, running, applied,
                  failed, expected>>
  BY DEF vars, program, settings
<1>3. Typed'
  BY <1>0, <1>2 DEF Typed, node
<1>4. RootedIn(tree)'
  <2>1. ASSUME sequential, failed = 0 PROVE Traced(tree)'
    <3>1. PICK m, q, t : TracedBy(tree \cup {<<>>}, m, q, t)
      BY <1>1, <2>1 DEF RootedIn, Traced
    <3>2. TracedBy(tree \cup {<<>>}, m, q, t)'
      BY <1>2, <3>1 DEF TracedBy, Follows, Untouched, node
    <3> QED
      BY <3>2 DEF Traced
  <2> QED
    BY <1>1, <1>2, <2>1 DEF RootedIn, node
<1>5. Asked'
  BY <1>0, <1>2 DEF Asked, node
<1>6. Started'
  BY <1>0, <1>2, StartedStays
<1> QED
  BY <1>3, <1>4, <1>5, <1>6 DEF Inv, Rooted

LEMMA NextStep == Inv /\ [Next]_vars => Inv'
<1> SUFFICES ASSUME Inv, [Next]_vars PROVE Inv'
  OBVIOUS
<1>1. ASSUME NEW dropped \in 0 .. MaxRollback, Adopt(dropped) PROVE Inv'
  BY <1>1, AdoptStep
<1>2. CASE FindsIntersection
  BY <1>2, FindsIntersectionStep
<1>3. CASE ServesBlock
  BY <1>3, ServesBlockStep
<1>4. ASSUME NEW i \in DOMAIN requests, RefusesIntersection(i) PROVE Inv'
  BY <1>4, RefusesStep
<1>5. CASE Resume
  BY <1>5, ResumeStep
<1>6. CASE OnIntersection
  BY <1>6, OnIntersectionStep
<1>7. CASE OnBlock
  BY <1>7, OnBlockStep
<1>8. ASSUME NEW i \in DOMAIN running, Asks(i) PROVE Inv'
  BY <1>8, AsksStep
<1>9. ASSUME NEW i \in DOMAIN running, Finishes(i) PROVE Inv'
  BY <1>9, FinishesStep
<1>10. ASSUME NEW i \in DOMAIN running, Fails(i) PROVE Inv'
  BY <1>10, FailsStep
<1>11. CASE Close
  BY <1>11, CloseStep
<1>12. CASE UNCHANGED vars
  BY <1>12, StutterStep
<1> QED
  BY <1>1, <1>2, <1>3, <1>4, <1>5, <1>6, <1>7, <1>8, <1>9, <1>10, <1>11, <1>12
     DEF Next, Server, Deliver, Handle

LEMMA Invariance == Spec => []Inv
<1> QED
  BY InitInv, NextStep, PTL DEF Spec

-----------------------------------------------------------------------------
(* The state has its shape, and both chains start at the origin.            *)
THEOREM TypeCorrect == Spec => []TypeOK
<1>1. Inv => TypeOK
  <2> SUFFICES ASSUME Inv PROVE TypeOK
    OBVIOUS
  <2>0. Typed
    BY DEF Inv
  <2>1. PICK tree : RootedIn(tree)
    BY DEF Inv, Rooted
  <2>2. \A c \in {chain, follower} : c # <<>> /\ c[1] = Block(Origin, Origin)
    BY <2>1 DEF RootedIn, Tree, IsChain
  <2>3. \A r \in DOMAIN resumes : resumes[r].state \in {"tip", "point", "resolved", "rejected"}
    BY <2>0, Lengths DEF Calls
  <2>4. \A i \in DOMAIN messages : messages[i].method \in {"nextBlock", "findIntersection"}
    BY <2>0, Lengths DEF Messages, Intersections, Rolls
  <2>5. minted <= MaxBlocks /\ (tasks # <<>> => sequential /\ running # <<>>)
        /\ (sequential => Len(running) <= 1)
    BY <2>0 DEF Typed
  <2> QED
    BY <2>2, <2>3, <2>4, <2>5 DEF TypeOK
<1> QED
  BY <1>1, Invariance, PTL

(* Handlers that run one at a time and do not fail build a chain of blocks, *)
(* each followed by one of which it is the ancestor, whatever the forks,    *)
(* the windows and the calls of resume().                                   *)
THEOREM ChainIsBuilt == Spec => []AppliedIsAChain
<1>1. Inv => AppliedIsAChain
  <2> SUFFICES ASSUME Inv, sequential, failed = 0, NEW i \in 1 .. Len(applied) - 1
               PROVE  applied[i + 1].id > applied[i].id /\ applied[i + 1].ancestor = applied[i].id
    BY DEF AppliedIsAChain
  <2>1. PICK tree : RootedIn(tree)
    BY DEF Inv, Rooted
  <2>2. applied \in tree \cup {<<>>}
    BY <2>1 DEF RootedIn, Traced, TracedBy
  <2>3. applied # <<>>
    BY EmptySeq
  <2>4. Linked(applied)
    BY <2>1, <2>2, <2>3 DEF RootedIn, Tree, IsChain
  <2> QED
    BY <2>4 DEF Linked
<1> QED
  BY <1>1, Invariance, PTL

(* What comes first after a resume() that resolves, with no other under     *)
(* way, is a rollback to its intersection, or to before it.                 *)
THEOREM ResumesThere == Spec => []ResumesAtIntersection
<1>1. Inv => ResumesAtIntersection
  <2> SUFFICES ASSUME Inv, NEW i \in DOMAIN messages, expected # <<>>,
                      messages[i].method = "nextBlock",
                      \A j \in 1 .. i - 1 : messages[j].method # "nextBlock"
               PROVE  /\ messages[i].direction = "backward"
                      /\ messages[i].block.id = expected[1] \/ ~Knows(chain, expected[1])
    BY DEF ResumesAtIntersection
  <2>0. Typed /\ Started
    BY DEF Inv
  <2>1. Asking(messages) = {}
    BY <2>0 DEF Started, Expects
  <2>2. PICK p : expected = <<p>> /\ Fresh(0, p)
    BY <2>0 DEF Started, Expects
  <2>3. i \in 1 .. Len(messages) /\ Len(messages) \in Nat
    BY <2>0, Lengths
  <2>4. 1 \in 1 .. Len(messages)
    BY <2>3
  <2>5. ~Finds(messages[1])
    BY <2>1, <2>4, AskingMeans DEF AskedBy
  <2>6. messages[1].method = "nextBlock"
    BY <2>0, <2>4, <2>5, Lengths DEF Messages, Intersections, Rolls, Finds
  <2>7. i = 1
    <3>1. i # 1 => 1 \in 1 .. i - 1
      BY <2>3
    <3> QED
      BY <2>6, <3>1
  <2>8. messages[1].direction = "backward" /\ (messages[1].block.id = p \/ ~Knows(chain, p))
    <3>1. 0 < Len(messages) /\ 0 + 1 = 1
      BY <2>3
    <3> QED
      BY <2>2, <3>1 DEF Fresh
  <2> QED
    BY <2>2, <2>7, <2>8
<1> QED
  BY <1>1, Invariance, PTL

-----------------------------------------------------------------------------
(* Counting elements of a sequence of length n by their places A, when one  *)
(* is taken out, put in behind, or many are.                                *)
LEMMA PartOfInterval ==
  ASSUME NEW n \in Int, NEW A, A \subseteq 1 .. n
  PROVE  IsFiniteSet(A) /\ Cardinality(A) \in Nat
<1>1. PICK D : D = 1 .. n
  OBVIOUS
<1>2. IsFiniteSet(D)
  BY <1>1, FS_Interval
<1>3. A \in SUBSET D
  BY <1>1
<1>4. IsFiniteSet(A)
  BY <1>2, <1>3, FS_Subset
<1> QED
  BY <1>4, FS_CardinalityType

LessPlace(A, B, n, k) ==
  /\ A \subseteq 1 .. n /\ B \subseteq 1 .. n - 1
  /\ \A i \in 1 .. n - 1 : (i < k => (i \in B <=> i \in A)) /\ (i >= k => (i \in B <=> i + 1 \in A))

OneLess(a, b, out) ==
  a \in Nat /\ b \in Nat /\ (out => b = a - 1) /\ (~out => b = a)

LEMMA OneFewer ==
  ASSUME NEW n \in Nat, NEW k \in 1 .. n, NEW A, NEW B, LessPlace(A, B, n, k)
  PROVE  OneLess(Cardinality(A), Cardinality(B), k \in A)
<1>1. IsFiniteSet(A) /\ IsFiniteSet(B) /\ Cardinality(A) \in Nat /\ Cardinality(B) \in Nat
  <2>1. PICK m \in Int : m = n - 1
    OBVIOUS
  <2>2. A \subseteq 1 .. n /\ B \subseteq 1 .. m /\ n \in Int
    BY <2>1 DEF LessPlace
  <2> QED
    BY <2>2, PartOfInterval
<1> DEFINE at == [i \in B |-> IF i < k THEN i ELSE i + 1]
<1>3. \A i \in B : i \in Int /\ at[i] \in A \ {k} /\ at[i] = IF i < k THEN i ELSE i + 1
  <2> TAKE i \in B
  <2>1. i \in 1 .. n - 1 /\ i \in Int /\ k \in Int
    BY DEF LessPlace
  <2>2. at[i] = IF i < k THEN i ELSE i + 1
    OBVIOUS
  <2>3. CASE i < k
    BY <2>1, <2>2, <2>3 DEF LessPlace
  <2>4. CASE i >= k
    <3>1. i + 1 \in A /\ at[i] = i + 1 /\ i + 1 # k
      BY <2>1, <2>2, <2>4 DEF LessPlace
    <3> QED
      BY <2>1, <2>2, <2>4, <3>1
  <2> QED
    BY <2>1, <2>3, <2>4
<1>4. at \in [B -> A \ {k}]
  BY <1>3
<1>5. \A i, j \in B : at[i] = at[j] => i = j
  <2> TAKE i \in B, j \in B
  <2>1. /\ i \in Int /\ at[i] = IF i < k THEN i ELSE i + 1
        /\ j \in Int /\ at[j] = IF j < k THEN j ELSE j + 1
    BY <1>3
  <2> QED
    BY <2>1
<1>6. ASSUME NEW a \in A \ {k} PROVE \E i \in B : at[i] = a
  <2>1. CASE a < k
    <3>1. a \in B /\ at[a] = a
      BY <2>1, <1>3 DEF LessPlace
    <3> QED
      BY <3>1
  <2>2. CASE a > k
    <3>1. a - 1 \in 1 .. n - 1 /\ a - 1 >= k /\ a - 1 + 1 = a /\ ~(a - 1 < k)
      BY <2>2 DEF LessPlace
    <3>2. a - 1 \in B
      BY <3>1 DEF LessPlace
    <3>3. at[a - 1] = a
      BY <1>3, <3>1, <3>2
    <3> QED
      BY <3>2, <3>3
  <2>3. a \in 1 .. n
    BY DEF LessPlace
  <2> QED
    BY <2>1, <2>2, <2>3
<1> HIDE DEF at
<1>7. at \in Bijection(B, A \ {k})
  BY <1>4, <1>5, <1>6 DEF Bijection, Injection, Surjection, IsInjective
<1>8. Cardinality(A \ {k}) = Cardinality(B)
  BY <1>1, <1>7, FS_Bijection DEF ExistsBijection
<1>9. Cardinality(A \ {k}) = IF k \in A THEN Cardinality(A) - 1 ELSE Cardinality(A)
  BY <1>1, FS_RemoveElement
<1> QED
  BY <1>1, <1>8, <1>9 DEF OneLess

MorePlaces(A, B, n, w) ==
  A \subseteq 1 .. n /\ \A i : i \in B <=> i \in A \/ i \in n + 1 .. n + w

LEMMA ManyMore ==
  ASSUME NEW n \in Nat, NEW w \in Nat, NEW A, NEW B, MorePlaces(A, B, n, w)
  PROVE  Cardinality(A) \in Nat /\ Cardinality(B) = Cardinality(A) + w
<1>1. IsFiniteSet(A) /\ Cardinality(A) \in Nat
  <2>1. n \in Int /\ A \subseteq 1 .. n
    BY DEF MorePlaces
  <2> QED
    BY <2>1, PartOfInterval
<1>2. PICK l \in Int, m \in Int : l = n + 1 /\ m = n + w
  OBVIOUS
<1>3. PICK C : C = l .. m
  OBVIOUS
<1>4. IsFiniteSet(C) /\ Cardinality(C) = IF l > m THEN 0 ELSE m - l + 1
  BY <1>3, FS_Interval
<1>5. Cardinality(C) = w
  BY <1>2, <1>4
<1>6. A \cap C = {}
  BY <1>2, <1>3 DEF MorePlaces
<1>7. B = A \cup C
  BY <1>2, <1>3 DEF MorePlaces
<1>8. Cardinality(A \cup C) = Cardinality(A) + Cardinality(C) - Cardinality(A \cap C)
  BY <1>1, <1>4, FS_Union
<1>9. Cardinality(A \cap C) = 0
  BY <1>6, FS_EmptySet
<1> QED
  BY <1>1, <1>5, <1>7, <1>8, <1>9

-----------------------------------------------------------------------------
(* The blocks among requests and responses.                                 *)
BlocksOf(q) == {i \in DOMAIN q : q[i].method = "nextBlock"}
Unasked(q)  == {i \in DOMAIN q : ~q[i].asked}

Fewer(s, t, e) ==
  OneLess(Cardinality(BlocksOf(s)), Cardinality(BlocksOf(t)), e.method = "nextBlock")

LEMMA BlockTakenOut ==
  ASSUME NEW M, NEW s \in Seq(M), NEW k \in 1 .. Len(s), NEW t, Without(M, s, k, t)
  PROVE  Fewer(s, t, s[k])
<1>1. PICK n : n = Len(s)
  OBVIOUS
<1>2. /\ n \in Nat /\ DOMAIN s = 1 .. n /\ k \in 1 .. n
      /\ DOMAIN t = 1 .. n - 1
      /\ \A i \in 1 .. n - 1 : (i < k => t[i] = s[i]) /\ (i >= k => t[i] = s[i + 1])
  BY <1>1, LenProperties DEF Without
<1>3. PICK A, B : A = BlocksOf(s) /\ B = BlocksOf(t)
  OBVIOUS
<1>4. A \subseteq 1 .. n /\ B \subseteq 1 .. n - 1
  BY <1>2, <1>3 DEF BlocksOf
<1>5. ASSUME NEW i \in 1 .. n - 1
      PROVE  (i < k => (i \in B <=> i \in A)) /\ (i >= k => (i \in B <=> i + 1 \in A))
  <2>1. i \in 1 .. n /\ i + 1 \in 1 .. n
    BY <1>2
  <2>2. i \in B <=> t[i].method = "nextBlock"
    BY <1>2, <1>3 DEF BlocksOf
  <2>3. i \in A <=> s[i].method = "nextBlock"
    BY <1>2, <1>3, <2>1 DEF BlocksOf
  <2>4. i + 1 \in A <=> s[i + 1].method = "nextBlock"
    BY <1>2, <1>3, <2>1 DEF BlocksOf
  <2> QED
    BY <1>2, <2>2, <2>3, <2>4
<1>6. k \in A <=> s[k].method = "nextBlock"
  BY <1>2, <1>3 DEF BlocksOf
<1>7. LessPlace(A, B, n, k)
  BY <1>4, <1>5 DEF LessPlace
<1>8. OneLess(Cardinality(A), Cardinality(B), k \in A)
  BY <1>2, <1>7, OneFewer
<1> QED
  BY <1>3, <1>6, <1>8 DEF Fewer, OneLess

LEMMA HeadBlockTakenOut ==
  ASSUME NEW M, NEW s \in Seq(M), s # <<>>
  PROVE  Fewer(s, Tail(s), Head(s))
<1>1. PICK t : t = Tail(s)
  OBVIOUS
<1>2. t \in Seq(M) /\ Len(t) = Len(s) - 1 /\ \A i \in 1 .. Len(t) : t[i] = s[i + 1]
  BY <1>1, HeadTailProperties
<1>3. Len(s) \in Nat /\ 1 \in 1 .. Len(s) /\ Head(s) = s[1]
  BY LenProperties, EmptySeq
<1>4. Without(M, s, 1, t)
  BY <1>2, <1>3 DEF Without
<1> QED
  BY <1>1, <1>3, <1>4, BlockTakenOut

LEMMA BlockPutIn ==
  ASSUME NEW M, NEW s \in Seq(M), NEW e
  PROVE  Fewer(Append(s, e), s, e)
<1>1. PICK t, n, N : t = Append(s, e) /\ n = Len(s) /\ N = M \cup {e}
  OBVIOUS
<1>2. s \in Seq(N) /\ e \in N
  <2>1. n \in Nat /\ s \in [1 .. n -> M]
    BY <1>1, LenProperties
  <2>2. s \in [1 .. n -> N] /\ e \in N
    BY <1>1, <2>1
  <2>3. n \in Nat
    BY <2>1
  <2>4. s \in Seq(N)
    BY <2>2, <2>3, SeqDef, SMTT(30)
  <2> QED
    BY <2>2, <2>4
<1>3. n \in Nat /\ t \in Seq(N) /\ Len(t) = n + 1 /\ t[n + 1] = e /\ \A i \in 1 .. n : t[i] = s[i]
  BY <1>1, <1>2, LenProperties, AppendProperties
<1>4. n + 1 \in 1 .. Len(t)
  BY <1>3
<1>5. Without(N, t, n + 1, s)
  <2>1. Len(s) = Len(t) - 1
    BY <1>1, <1>3
  <2>2. \A i \in 1 .. Len(t) - 1 : i \in 1 .. n /\ i < n + 1
    BY <1>3
  <2> QED
    BY <1>2, <1>3, <2>1, <2>2 DEF Without
<1>6. Fewer(t, s, t[n + 1])
  BY <1>3, <1>4, <1>5, BlockTakenOut
<1> QED
  BY <1>1, <1>3, <1>6

LEMMA SequencePutIn ==
  ASSUME NEW M, NEW s \in Seq(M), NEW e, NEW t, t = Append(s, e), NEW n, n = Len(s)
  PROVE  /\ n \in Nat /\ DOMAIN s = 1 .. n /\ DOMAIN t = 1 .. n + 1
         /\ t[n + 1] = e /\ \A i \in 1 .. n : t[i] = s[i]
<1>1. PICK N : N = M \cup {e}
  OBVIOUS
<1>2. n \in Nat /\ DOMAIN s = 1 .. n /\ s \in [1 .. n -> M]
  BY LenProperties
<1>3. s \in Seq(N) /\ e \in N
  <2>1. M \subseteq N /\ e \in N
    BY <1>1
  <2> QED
    BY <2>1, SeqMonotonic
<1>4. /\ t \in Seq(N) /\ Len(t) = Len(s) + 1 /\ t[Len(s) + 1] = e
      /\ \A i \in 1 .. Len(s) : t[i] = s[i]
  BY <1>3, AppendProperties
<1>5. t \in Seq(N) /\ Len(t) = n + 1 /\ t[n + 1] = e /\ \A i \in 1 .. n : t[i] = s[i]
  BY <1>4
<1>6. DOMAIN t = 1 .. n + 1
  BY <1>5, LenProperties
<1> QED
  BY <1>2, <1>5, <1>6

LEMMA WindowPutIn ==
  ASSUME NEW s \in Seq(Requests), NEW w \in Nat
  PROVE  LET t == s \o [n \in 1 .. w |-> NextBlock]
         IN Cardinality(BlocksOf(s)) \in Nat
            /\ Cardinality(BlocksOf(t)) = Cardinality(BlocksOf(s)) + w
<1>1. PICK b, e : b = [n \in 1 .. w |-> NextBlock] /\ e = NextBlock
  OBVIOUS
<1>2. e \in Requests /\ e.method = "nextBlock"
  BY <1>1 DEF NextBlock, Requests, Origin
<1>3. b \in [1 .. w -> Requests] /\ \A i \in 1 .. w : b[i] = e
  BY <1>1, <1>2
<1>4. b \in Seq(Requests)
  BY <1>3, SeqDef
<1>5. Len(b) = w
  <2>1. DOMAIN b = 1 .. w /\ DOMAIN b = 1 .. Len(b) /\ Len(b) \in Nat
    BY <1>3, <1>4, LenProperties
  <2> QED
    BY <2>1
<1>6. PICK l, u : l = Len(s) /\ u = s \o b
  OBVIOUS
<1>7. /\ u \in Seq(Requests) /\ Len(u) = l + w /\ l \in Nat
      /\ \A i \in 1 .. l + w : u[i] = IF i <= l THEN s[i] ELSE b[i - l]
  <2>1. /\ u \in Seq(Requests) /\ Len(u) = Len(s) + Len(b)
        /\ \A i \in 1 .. Len(s) + Len(b) : u[i] = IF i <= Len(s) THEN s[i] ELSE b[i - Len(s)]
    BY <1>4, <1>6, ConcatProperties
  <2> QED
    BY <1>5, <1>6, <2>1, LenProperties
<1>8. DOMAIN s = 1 .. l /\ DOMAIN u = 1 .. l + w
  BY <1>6, <1>7, LenProperties
<1>9. PICK A, B : A = BlocksOf(s) /\ B = BlocksOf(u)
  OBVIOUS
<1>10. A \subseteq 1 .. l /\ B \subseteq 1 .. l + w
  BY <1>8, <1>9 DEF BlocksOf
<1>11. \A i \in 1 .. l : i \in B <=> i \in A
  <2>1. \A i \in 1 .. l : i \in 1 .. l + w /\ u[i] = s[i]
    BY <1>7
  <2> QED
    BY <1>8, <1>9, <2>1 DEF BlocksOf
<1>12. ASSUME NEW i \in l + 1 .. l + w PROVE i \in B
  <2>1. i \in 1 .. l + w /\ ~(i <= l) /\ i - l \in 1 .. w
    BY <1>7
  <2>2. u[i] = e
    BY <1>3, <1>7, <2>1
  <2> QED
    BY <1>2, <1>8, <1>9, <2>1, <2>2 DEF BlocksOf
<1>13. \A i : i \in B <=> i \in A \/ i \in l + 1 .. l + w
  <2>1. l \in Nat /\ w \in Nat
    BY <1>7
  <2>2. ASSUME NEW i \in B PROVE i \in A \/ i \in l + 1 .. l + w
    <3>1. i \in 1 .. l + w
      BY <1>10
    <3> QED
      BY <1>11, <2>1, <3>1
  <2>3. \A i \in A : i \in B
    BY <1>10, <1>11
  <2> QED
    BY <1>12, <2>2, <2>3
<1>14. Cardinality(A) \in Nat /\ Cardinality(B) = Cardinality(A) + w
  <2>1. MorePlaces(A, B, l, w) /\ l \in Nat
    BY <1>7, <1>10, <1>13 DEF MorePlaces
  <2> QED
    BY <2>1, ManyMore
<1> QED
  BY <1>1, <1>6, <1>9, <1>14

(* Handlers that have not requested a block yet.                            *)
FewerUnasked(s, t, h) ==
  OneLess(Cardinality(Unasked(s)), Cardinality(Unasked(t)), ~h.asked)

LEMMA HandlerTakenOut ==
  ASSUME NEW s \in Seq(Handlers), NEW k \in 1 .. Len(s), NEW t, Without(Handlers, s, k, t)
  PROVE  FewerUnasked(s, t, s[k])
<1>1. PICK n : n = Len(s)
  OBVIOUS
<1>2. /\ n \in Nat /\ DOMAIN s = 1 .. n /\ k \in 1 .. n
      /\ DOMAIN t = 1 .. n - 1
      /\ \A i \in 1 .. n - 1 : (i < k => t[i] = s[i]) /\ (i >= k => t[i] = s[i + 1])
  BY <1>1, LenProperties DEF Without
<1>3. PICK A, B : A = Unasked(s) /\ B = Unasked(t)
  OBVIOUS
<1>4. A \subseteq 1 .. n /\ B \subseteq 1 .. n - 1
  BY <1>2, <1>3 DEF Unasked
<1>5. ASSUME NEW i \in 1 .. n - 1
      PROVE  (i < k => (i \in B <=> i \in A)) /\ (i >= k => (i \in B <=> i + 1 \in A))
  <2>1. i \in 1 .. n /\ i + 1 \in 1 .. n
    BY <1>2
  <2>2. i \in B <=> ~t[i].asked
    BY <1>2, <1>3 DEF Unasked
  <2>3. i \in A <=> ~s[i].asked
    BY <1>2, <1>3, <2>1 DEF Unasked
  <2>4. i + 1 \in A <=> ~s[i + 1].asked
    BY <1>2, <1>3, <2>1 DEF Unasked
  <2> QED
    BY <1>2, <2>2, <2>3, <2>4
<1>6. k \in A <=> ~s[k].asked
  BY <1>2, <1>3 DEF Unasked
<1>7. LessPlace(A, B, n, k)
  BY <1>4, <1>5 DEF LessPlace
<1>8. OneLess(Cardinality(A), Cardinality(B), k \in A)
  BY <1>2, <1>7, OneFewer
<1> QED
  BY <1>3, <1>6, <1>8 DEF FewerUnasked, OneLess

LEMMA HandlerPutIn ==
  ASSUME NEW s \in Seq(Handlers), NEW h \in Handlers
  PROVE  FewerUnasked(Append(s, h), s, h)
<1>1. PICK t, n : t = Append(s, h) /\ n = Len(s)
  OBVIOUS
<1>2. n \in Nat /\ t \in Seq(Handlers) /\ Len(t) = n + 1 /\ t[n + 1] = h /\ \A i \in 1 .. n : t[i] = s[i]
  BY <1>1, LenProperties, AppendProperties
<1>3. n + 1 \in 1 .. Len(t)
  BY <1>2
<1>4. Without(Handlers, t, n + 1, s)
  <2>1. Len(s) = Len(t) - 1
    BY <1>1, <1>2
  <2>2. \A i \in 1 .. Len(t) - 1 : i \in 1 .. n /\ i < n + 1
    BY <1>2
  <2> QED
    BY <1>2, <2>1, <2>2 DEF Without
<1>5. FewerUnasked(t, s, t[n + 1])
  BY <1>2, <1>3, <1>4, HandlerTakenOut
<1> QED
  BY <1>1, <1>2, <1>5

LEMMA HandlerAsked ==
  ASSUME NEW s \in Seq(Handlers), NEW k \in 1 .. Len(s), NEW h \in Handlers, h.asked, ~s[k].asked
  PROVE  FewerUnasked(s, [s EXCEPT ![k] = h], s[k])
<1>1. PICK t, n : t = [s EXCEPT ![k] = h] /\ n = Len(s)
  OBVIOUS
<1>2. /\ n \in Nat /\ DOMAIN s = 1 .. n /\ DOMAIN t = 1 .. n /\ k \in 1 .. n
      /\ \A i \in 1 .. n : t[i] = IF i = k THEN h ELSE s[i]
  BY <1>1, LenProperties
<1>3. PICK A, B : A = Unasked(s) /\ B = Unasked(t)
  OBVIOUS
<1>4. A \subseteq 1 .. n /\ k \in A
  BY <1>2, <1>3 DEF Unasked
<1>5. B = A \ {k}
  <2>1. ASSUME NEW i \in 1 .. n PROVE i \in B <=> i \in A /\ i # k
    BY <1>2, <1>3 DEF Unasked
  <2>2. B \subseteq 1 .. n
    BY <1>2, <1>3 DEF Unasked
  <2> QED
    BY <1>4, <2>1, <2>2
<1>6. IsFiniteSet(A) /\ Cardinality(A) \in Nat
  <2>1. n \in Int /\ A \subseteq 1 .. n
    BY <1>2, <1>4
  <2> QED
    BY <2>1, PartOfInterval
<1>7. IsFiniteSet(B) /\ Cardinality(B) = Cardinality(A) - 1
  BY <1>4, <1>5, <1>6, FS_RemoveElement
<1>8. Cardinality(B) \in Nat
  BY <1>7, FS_CardinalityType
<1> QED
  BY <1>1, <1>3, <1>6, <1>7, <1>8 DEF FewerUnasked, OneLess

-----------------------------------------------------------------------------
(* What WindowKept counts, and the windows it weighs it against.            *)
Counts ==
  Cardinality(BlocksOf(requests)) + Cardinality(BlocksOf(messages))
    + Len(tasks) + Cardinality(Unasked(running)) + failed

Kept == open => IsFiniteSet(Windows) /\ Counts = Cardinality(Windows)

LEMMA CountsAre ==
  ASSUME Typed
  PROVE  /\ Cardinality(BlocksOf(requests)) \in Nat /\ Cardinality(BlocksOf(messages)) \in Nat
         /\ Len(tasks) \in Nat /\ Cardinality(Unasked(running)) \in Nat /\ failed \in Nat
<1>1. /\ requests \in Seq(Requests) /\ messages \in Seq(Messages)
      /\ tasks \in Seq(Rolls) /\ running \in Seq(Handlers) /\ failed \in Nat
  BY DEF Typed
<1>2. PICK e : e = NextBlock
  OBVIOUS
<1>3. Fewer(Append(requests, e), requests, e) /\ Fewer(Append(messages, e), messages, e)
  BY <1>1, BlockPutIn
<1>4. PICK n, A : n = Len(running) /\ A = Unasked(running)
  OBVIOUS
<1>5. n \in Int /\ A \subseteq 1 .. n
  BY <1>1, <1>4, LenProperties DEF Unasked
<1>6. Cardinality(A) \in Nat
  BY <1>5, PartOfInterval
<1> QED
  BY <1>1, <1>3, <1>4, <1>6, LenProperties DEF Fewer, OneLess

LEMMA KeptStays ==
  ASSUME Kept, UNCHANGED <<open, resumes>>, open => Counts' = Counts
  PROVE  Kept'
BY DEF Kept, Windows

LEMMA KeptWhenServed ==
  ASSUME Typed, Kept, NEW e, NEW message,
         Fewer(requests, requests', e), messages' = Append(messages, message),
         e.method = "nextBlock" <=> message.method = "nextBlock",
         UNCHANGED <<open, resumes, tasks, running, failed>>
  PROVE  Kept'
<1>1. messages \in Seq(Messages)
  BY DEF Typed
<1>2. Fewer(messages', messages, message)
  BY <1>1, BlockPutIn
<1>3. Counts' = Counts
  <2>1. PICK a, b, c, d, f :
          /\ a = Cardinality(BlocksOf(requests)) /\ b = Cardinality(BlocksOf(messages))
          /\ c = Len(tasks) /\ d = Cardinality(Unasked(running)) /\ f = failed
    OBVIOUS
  <2>2. a \in Nat /\ b \in Nat /\ c \in Nat /\ d \in Nat /\ f \in Nat
    BY <2>1, CountsAre
  <2>3. PICK p, q : p = Cardinality(BlocksOf(requests')) /\ q = Cardinality(BlocksOf(messages'))
    OBVIOUS
  <2>4. p + q = a + b /\ p \in Nat /\ q \in Nat
    <3>1. /\ p \in Nat
          /\ e.method = "nextBlock" => p = a - 1
          /\ e.method # "nextBlock" => p = a
      BY <2>1, <2>3 DEF Fewer, OneLess
    <3>2. /\ q \in Nat
          /\ message.method = "nextBlock" => b = q - 1
          /\ message.method # "nextBlock" => b = q
      BY <1>2, <2>1, <2>3 DEF Fewer, OneLess
    <3> QED
      BY <2>2, <3>1, <3>2
  <2>5. p + q + c + d + f = a + b + c + d + f
    BY <2>2, <2>4
  <2> QED
    BY <2>1, <2>3, <2>5 DEF Counts
<1> QED
  BY <1>3, KeptStays

LEMMA FindsIntersectionKept ==
  ASSUME Typed, Kept, FindsIntersection
  PROVE  Kept'
<1>1. PICK message :
        /\ messages' = Append(messages, message) /\ message.method = "findIntersection"
        /\ requests # <<>> /\ Head(requests).method = "findIntersection" /\ requests' = Tail(requests)
        /\ UNCHANGED <<open, resumes, tasks, running, failed>>
  BY DEF FindsIntersection, Intersection, program
<1>2. requests \in Seq(Requests)
  BY DEF Typed
<1>3. PICK e : e = Head(requests)
  OBVIOUS
<1>4. Fewer(requests, requests', e)
  BY <1>1, <1>2, <1>3, HeadBlockTakenOut
<1> QED
  BY <1>1, <1>3, <1>4, KeptWhenServed

LEMMA ServesBlockKept ==
  ASSUME Typed, Kept, ServesBlock
  PROVE  Kept'
<1>1. PICK message :
        /\ messages' = Append(messages, message) /\ message.method = "nextBlock"
        /\ requests # <<>> /\ Head(requests).method = "nextBlock" /\ requests' = Tail(requests)
        /\ UNCHANGED <<open, resumes, tasks, running, failed>>
  BY DEF ServesBlock, RollForward, RollBackward, program
<1>2. requests \in Seq(Requests)
  BY DEF Typed
<1>3. PICK e : e = Head(requests)
  OBVIOUS
<1>4. Fewer(requests, requests', e)
  BY <1>1, <1>2, <1>3, HeadBlockTakenOut
<1> QED
  BY <1>1, <1>3, <1>4, KeptWhenServed

LEMMA RefusesKept ==
  ASSUME Typed, Kept, NEW i \in DOMAIN requests, RefusesIntersection(i)
  PROVE  Kept'
<1>1. PICK message, e, t :
        /\ messages' = Append(messages, message) /\ message.method = "findIntersection"
        /\ e = requests[i] /\ e.method = "findIntersection"
        /\ t = RemoveAt(requests, i) /\ requests' = t
        /\ UNCHANGED <<open, resumes, tasks, running, failed>>
  BY DEF RefusesIntersection, Intersection, program
<1>2. requests \in Seq(Requests) /\ i \in 1 .. Len(requests)
  BY Lengths DEF Typed
<1>3. Without(Requests, requests, i, t)
  BY <1>1, <1>2, RemovedAt
<1>4. Fewer(requests, requests', e)
  BY <1>1, <1>2, <1>3, BlockTakenOut
<1> QED
  BY <1>1, <1>4, KeptWhenServed

(* The windows: those of the same calls, or of one more.                    *)
LEMMA InWindows ==
  ASSUME NEW p
  PROVE  p \in Windows <=>
           \E r \in DOMAIN resumes :
             resumes[r].state = "resolved" /\ \E n \in 1 .. resumes[r].window : p = <<r, n>>
BY DEF Windows

SameResolved ==
  \A r : /\ r \in DOMAIN resumes' /\ resumes'[r].state = "resolved" <=>
              r \in DOMAIN resumes /\ resumes[r].state = "resolved"
         /\ r \in DOMAIN resumes /\ resumes[r].state = "resolved" =>
              resumes'[r].window = resumes[r].window

LEMMA WindowsStay ==
  ASSUME SameResolved
  PROVE  Windows' = Windows
<1>1. ASSUME NEW p PROVE p \in Windows' <=> p \in Windows
  <2>1. p \in Windows' <=>
           \E r \in DOMAIN resumes' :
             resumes'[r].state = "resolved" /\ \E n \in 1 .. resumes'[r].window : p = <<r, n>>
    BY DEF Windows
  <2> QED
    BY <2>1, InWindows DEF SameResolved
<1> QED
  BY <1>1

LEMMA ResumeKept ==
  ASSUME Typed, Kept, Resume
  PROVE  Kept'
<1>1. PICK call, request :
        /\ resumes' = Append(resumes, call)
        /\ open => call.state # "resolved"
        /\ open => requests' = Append(requests, request) /\ request.method = "findIntersection"
        /\ UNCHANGED <<open, messages, tasks, running, failed>>
  <2>1. UNCHANGED <<open, messages, tasks, running, failed>>
    BY DEF Resume, program, settings
  <2> DEFINE Called(r, state, point) ==
               /\ resumes' = Append(resumes,
                    [state |-> IF open THEN state ELSE "rejected",
                     window |-> Window(InFlights[r]), point |-> point])
               /\ requests' = IF open THEN Append(requests, FindIntersection(r, point))
                                      ELSE requests
  <2>0. PICK r : Called(r, "tip", Origin) \/ \E point \in 0 .. minted : Called(r, "point", point)
    BY DEF Resume
  <2>2. PICK state, point : state \in {"tip", "point"} /\ Called(r, state, point)
    <3> HIDE DEF Called
    <3> QED
      BY <2>0
  <2>3. PICK call, request :
          /\ call = [state |-> IF open THEN state ELSE "rejected",
                     window |-> Window(InFlights[r]), point |-> point]
          /\ request = FindIntersection(r, point)
    OBVIOUS
  <2>4. /\ open => call.state # "resolved"
        /\ request.method = "findIntersection"
    BY <2>2, <2>3 DEF FindIntersection
  <2> QED
    BY <2>1, <2>2, <2>3, <2>4
<1>2. CASE ~open
  BY <1>1, <1>2 DEF Kept
<1>3. CASE open
  <2>1. requests \in Seq(Requests) /\ resumes \in Seq(Calls)
    BY DEF Typed
  <2>2. Fewer(requests', requests, request)
    BY <1>1, <1>3, <2>1, BlockPutIn
  <2>3. Counts' = Counts
    BY <1>1, <1>3, <2>2 DEF Fewer, OneLess, Counts
  <2>4. PICK n : n = Len(resumes)
    OBVIOUS
  <2>5. /\ n \in Nat /\ DOMAIN resumes = 1 .. n /\ DOMAIN resumes' = 1 .. n + 1
        /\ resumes'[n + 1] = call /\ \A r \in 1 .. n : resumes'[r] = resumes[r]
    BY <1>1, <2>1, <2>4, SequencePutIn
  <2>6. SameResolved
    BY <1>1, <1>3, <2>5 DEF SameResolved
  <2> QED
    BY <1>1, <2>3, <2>6, WindowsStay DEF Kept
<1> QED
  BY <1>2, <1>3

(* One call more succeeded, with its window.                                *)
LEMMA WindowOpens ==
  ASSUME NEW r \in DOMAIN resumes, resumes[r].state # "resolved", IsFiniteSet(Windows),
         DOMAIN resumes' = DOMAIN resumes, resumes'[r].state = "resolved",
         \A s \in DOMAIN resumes : s # r => resumes'[s] = resumes[s],
         NEW w \in Nat, resumes'[r].window = w
  PROVE  IsFiniteSet(Windows') /\ Cardinality(Windows') = Cardinality(Windows) + w
<1>1. PICK N, W : N = 1 .. w /\ W = {<<r, n>> : n \in N}
  OBVIOUS
<1>2. IsFiniteSet(N) /\ Cardinality(N) = w
  <2>1. PICK one \in Int, m \in Int : one = 1 /\ m = w
    OBVIOUS
  <2>2. IsFiniteSet(one .. m) /\ Cardinality(one .. m) = IF one > m THEN 0 ELSE m - one + 1
    BY FS_Interval
  <2> QED
    BY <1>1, <2>1, <2>2
<1>3. IsFiniteSet(W) /\ Cardinality(W) = w
  <2> DEFINE f == [n \in N |-> <<r, n>>]
  <2>1. f \in Bijection(N, W)
    <3>1. f \in [N -> W]
      BY <1>1
    <3>2. \A m, n \in N : f[m] = f[n] => m = n
      OBVIOUS
    <3>3. \A p \in W : \E n \in N : f[n] = p
      BY <1>1
    <3> HIDE DEF f
    <3> QED
      BY <3>1, <3>2, <3>3 DEF Bijection, Injection, Surjection, IsInjective
  <2> QED
    BY <1>2, <2>1, FS_Bijection DEF ExistsBijection
<1>4. Windows' = Windows \cup W
  <2>1. ASSUME NEW p PROVE p \in Windows' <=> p \in Windows \/ p \in W
    <3>1. p \in Windows' <=>
             \E s \in DOMAIN resumes' :
               resumes'[s].state = "resolved" /\ \E n \in 1 .. resumes'[s].window : p = <<s, n>>
      BY DEF Windows
    <3>2. p \in Windows <=>
             \E s \in DOMAIN resumes :
               resumes[s].state = "resolved" /\ \E n \in 1 .. resumes[s].window : p = <<s, n>>
      BY InWindows
    <3>3. p \in W <=> \E n \in 1 .. resumes'[r].window : p = <<r, n>>
      BY <1>1
    <3> QED
      BY <3>1, <3>2, <3>3
  <2> QED
    BY <2>1
<1>5. Windows \cap W = {}
  <2>1. ASSUME NEW p \in W PROVE p \notin Windows
    BY <1>1, InWindows
  <2> QED
    BY <2>1
<1>6. PICK V : V = Windows
  OBVIOUS
<1>7. /\ IsFiniteSet(V \cup W)
      /\ Cardinality(V \cup W) = Cardinality(V) + Cardinality(W) - Cardinality(V \cap W)
  BY <1>3, <1>6, FS_Union
<1>8. Cardinality(V) \in Nat /\ Cardinality(V \cap W) = 0
  BY <1>5, <1>6, FS_CardinalityType, FS_EmptySet
<1> QED
  BY <1>3, <1>4, <1>6, <1>7, <1>8

CallIs(r, state) ==
  /\ DOMAIN resumes' = DOMAIN resumes /\ r \in DOMAIN resumes
  /\ resumes'[r].state = state /\ resumes'[r].window = resumes[r].window
  /\ \A s \in DOMAIN resumes : s # r => resumes'[s] = resumes[s]

LEMMA CallSettles ==
  ASSUME Typed, NEW r \in 1 .. Len(resumes), NEW call \in Calls, call.window = resumes[r].window,
         resumes' = [resumes EXCEPT ![r] = call]
  PROVE  CallIs(r, call.state)
<1>1. resumes \in Seq(Calls)
  BY DEF Typed
<1>2. /\ resumes' \in Seq(Calls) /\ Len(resumes') = Len(resumes) /\ resumes'[r] = call
      /\ \A s \in 1 .. Len(resumes) : s # r => resumes'[s] = resumes[s]
  BY CallBecomes DEF Becoming
<1>3. DOMAIN resumes = 1 .. Len(resumes) /\ DOMAIN resumes' = 1 .. Len(resumes)
  BY <1>1, <1>2, LenProperties
<1> QED
  BY <1>2, <1>3 DEF CallIs

LEMMA OnIntersectionKept ==
  ASSUME Inv, Kept, OnIntersection
  PROVE  Kept'
<1>0. Typed /\ Asked
  BY DEF Inv
<1>1. PICK message, r : Arrives(message, r)
  BY <1>0, IntersectionArrives
<1>2. /\ message = Head(messages) /\ r = message.resume /\ r \in 1 .. Len(resumes)
      /\ message.tip \in Nat /\ r \in Asking(messages) /\ Finds(message) /\ messages # <<>>
  BY <1>1 DEF Arrives, Intersections
<1>3. PICK old : old = resumes[r]
  OBVIOUS
<1>4. /\ old \in Calls /\ open /\ old.state \in {"tip", "point"}
      /\ requests \in Seq(Requests) /\ messages \in Seq(Messages)
  BY <1>0, <1>2, <1>3, Lengths DEF Asked, OnIntersection, Typed
<1>5. messages' = Tail(messages) /\ UNCHANGED <<open, tasks, running, failed>>
  BY DEF OnIntersection, program, settings
<1>6. Cardinality(BlocksOf(messages')) = Cardinality(BlocksOf(messages))
  <2>1. Fewer(messages, messages', message)
    BY <1>2, <1>4, <1>5, HeadBlockTakenOut
  <2>2. message.method # "nextBlock"
    BY <1>2 DEF Finds
  <2> QED
    BY <2>1, <2>2 DEF Fewer, OneLess
<1>7. IsFiniteSet(Windows) /\ Counts = Cardinality(Windows)
  BY <1>4 DEF Kept
<1>8. ASSUME CallIs(r, "rejected") \/ CallIs(r, "point"),
             Cardinality(BlocksOf(requests')) = Cardinality(BlocksOf(requests))
      PROVE  Kept'
  <2>1. SameResolved
    BY <1>3, <1>4, <1>8 DEF CallIs, SameResolved
  <2>2. Counts' = Counts
    BY <1>5, <1>6, <1>8 DEF Counts
  <2> QED
    BY <1>7, <2>1, <2>2, WindowsStay DEF Kept
<1>9. CASE /\ resumes' = [resumes EXCEPT ![r].state = "rejected"]
           /\ UNCHANGED <<requests, expected>>
  <2>1. PICK call : call = [state |-> "rejected", window |-> old.window, point |-> old.point]
    OBVIOUS
  <2>2. call \in Calls /\ call.window = old.window /\ call.state = "rejected"
    BY <1>4, <2>1 DEF Calls
  <2>3. [old EXCEPT !.state = "rejected"] = call
    BY <1>4, <2>1 DEF Calls
  <2>4. resumes' = [resumes EXCEPT ![r] = call]
    BY <1>3, <1>9, <2>3
  <2>5. CallIs(r, "rejected")
    BY <1>0, <1>2, <1>3, <2>2, <2>4, CallSettles
  <2> QED
    BY <1>8, <1>9, <2>5
<1>10. CASE /\ resumes' = [resumes EXCEPT ![r].state = "point", ![r].point = message.tip]
            /\ requests' = Append(requests, FindIntersection(r, PointFromTip(message.tip)))
            /\ UNCHANGED expected
  <2>1. PICK call : call = [state |-> "point", window |-> old.window, point |-> message.tip]
    OBVIOUS
  <2>2. call \in Calls /\ call.window = old.window /\ call.state = "point"
    BY <1>2, <1>4, <2>1 DEF Calls
  <2>3. [old EXCEPT !.state = "point", !.point = message.tip] = call
    <3>1. PICK tip : tip = message.tip
      OBVIOUS
    <3>2. PICK new : new = [old EXCEPT !.state = "point"]
      OBVIOUS
    <3>3. new = [state |-> "point", window |-> old.window, point |-> old.point]
      BY <1>4, <3>2 DEF Calls
    <3>4. [new EXCEPT !.point = tip] = [state |-> "point", window |-> old.window, point |-> tip]
      BY <3>3
    <3>5. [old EXCEPT !.state = "point", !.point = tip] = [new EXCEPT !.point = tip]
      BY <3>2
    <3> QED
      BY <2>1, <3>1, <3>4, <3>5
  <2>4. resumes' = [resumes EXCEPT ![r] = call]
    BY <1>3, <1>10, <2>3
  <2>5. CallIs(r, "point")
    BY <1>0, <1>2, <1>3, <2>2, <2>4, CallSettles
  <2>6. PICK request : request = FindIntersection(r, PointFromTip(message.tip))
    OBVIOUS
  <2>7. Fewer(requests', requests, request)
    BY <1>4, <1>10, <2>6, BlockPutIn
  <2>8. request.method # "nextBlock"
    BY <2>6 DEF FindIntersection
  <2>9. Cardinality(BlocksOf(requests')) = Cardinality(BlocksOf(requests))
    BY <2>7, <2>8 DEF Fewer, OneLess
  <2> QED
    BY <1>8, <2>5, <2>9
<1>11. CASE /\ resumes' = [resumes EXCEPT ![r].state = "resolved"]
            /\ requests' = requests \o [n \in 1 .. old.window |-> NextBlock]
  <2>1. PICK call : call = [state |-> "resolved", window |-> old.window, point |-> old.point]
    OBVIOUS
  <2>2. call \in Calls /\ call.window = old.window /\ call.state = "resolved"
    BY <1>4, <2>1 DEF Calls
  <2>3. [old EXCEPT !.state = "resolved"] = call
    BY <1>4, <2>1 DEF Calls
  <2>4. resumes' = [resumes EXCEPT ![r] = call]
    BY <1>3, <1>11, <2>3
  <2>5. CallIs(r, "resolved")
    BY <1>0, <1>2, <1>3, <2>2, <2>4, CallSettles
  <2>6. PICK w : w = old.window
    OBVIOUS
  <2>7. w \in Nat /\ requests' = requests \o [n \in 1 .. w |-> NextBlock]
    BY <1>4, <1>11, <2>6 DEF Calls
  <2>8. Cardinality(BlocksOf(requests')) = Cardinality(BlocksOf(requests)) + w
    BY <1>4, <2>7, WindowPutIn
  <2>9. IsFiniteSet(Windows') /\ Cardinality(Windows') = Cardinality(Windows) + w
    <3>1. resumes[r].state # "resolved" /\ resumes'[r].window = w
      BY <1>3, <1>4, <2>5, <2>6 DEF CallIs
    <3> QED
      BY <1>7, <2>5, <2>7, <3>1, WindowOpens DEF CallIs
  <2>10. Counts' = Counts + w
    <3>1. PICK a, b, c, d, f :
            /\ a = Cardinality(BlocksOf(requests)) /\ b = Cardinality(BlocksOf(messages))
            /\ c = Len(tasks) /\ d = Cardinality(Unasked(running)) /\ f = failed
      OBVIOUS
    <3>2. a \in Nat /\ b \in Nat /\ c \in Nat /\ d \in Nat /\ f \in Nat
      BY <1>0, <3>1, CountsAre
    <3>3. a + w + b + c + d + f = a + b + c + d + f + w
      BY <2>7, <3>2
    <3> QED
      BY <1>5, <1>6, <2>8, <3>1, <3>3 DEF Counts
  <2> QED
    BY <1>7, <2>9, <2>10 DEF Kept
<1> QED
  BY <1>2, <1>3, <1>9, <1>10, <1>11 DEF OnIntersection

(* The callback on messages: a block goes to the tasks or to a handler.     *)
LEMMA OnBlockKept ==
  ASSUME Inv, Kept, OnBlock
  PROVE  Kept'
<1>0. Typed
  BY DEF Inv
<1>1. /\ messages # <<>> /\ Head(messages).method = "nextBlock" /\ messages' = Tail(messages)
      /\ UNCHANGED <<open, requests, resumes, failed>>
  BY DEF OnBlock
<1>2. messages \in Seq(Messages) /\ tasks \in Seq(Rolls) /\ running \in Seq(Handlers)
  BY <1>0 DEF Typed
<1>3. PICK roll : roll = Head(messages)
  OBVIOUS
<1>4. Fewer(messages, messages', roll)
  BY <1>1, <1>2, <1>3, HeadBlockTakenOut
<1>5. roll \in Rolls
  <2>1. roll \in Messages
    BY <1>1, <1>2, <1>3, HeadTailProperties
  <2> QED
    BY <1>1, <1>3, <2>1 DEF Messages, Intersections
<1>6. Len(tasks') + Cardinality(Unasked(running')) = Len(tasks) + Cardinality(Unasked(running)) + 1
      /\ Len(tasks') \in Nat /\ Cardinality(Unasked(running')) \in Nat
  <2>1. PICK c, d : c = Len(tasks) /\ d = Cardinality(Unasked(running))
    OBVIOUS
  <2>2. c \in Nat /\ d \in Nat
    BY <1>0, <2>1, CountsAre
  <2>3. CASE tasks' = Append(tasks, roll) /\ running' = running
    <3>1. Len(tasks') = c + 1
      BY <1>2, <1>5, <2>1, <2>3, AppendProperties
    <3>2. Cardinality(Unasked(running')) = d
      BY <2>1, <2>3
    <3> QED
      BY <2>1, <2>2, <3>1, <3>2
  <2>4. CASE running' = Append(running, Handler(roll)) /\ tasks' = tasks
    <3>1. PICK h : h = Handler(roll)
      OBVIOUS
    <3>2. h \in Handlers /\ ~h.asked
      BY <1>5, <3>1 DEF Handler, Handlers
    <3>3. FewerUnasked(running', running, h)
      BY <1>2, <2>4, <3>1, <3>2, HandlerPutIn
    <3>4. PICK e : e = Cardinality(Unasked(running'))
      OBVIOUS
    <3>5. e \in Nat /\ d = e - 1
      BY <2>1, <3>2, <3>3, <3>4 DEF FewerUnasked, OneLess
    <3> QED
      BY <2>1, <2>2, <2>4, <3>4, <3>5
  <2> QED
    BY <1>3, <2>3, <2>4 DEF OnBlock
<1>7. Counts' = Counts
  <2>1. PICK a, b, c, d, f :
          /\ a = Cardinality(BlocksOf(requests)) /\ b = Cardinality(BlocksOf(messages))
          /\ c = Len(tasks) /\ d = Cardinality(Unasked(running)) /\ f = failed
    OBVIOUS
  <2>2. a \in Nat /\ b \in Nat /\ c \in Nat /\ d \in Nat /\ f \in Nat
    BY <1>0, <2>1, CountsAre
  <2>3. PICK p, m, n : p = Cardinality(BlocksOf(messages')) /\ m = Len(tasks')
                       /\ n = Cardinality(Unasked(running'))
    OBVIOUS
  <2>4. p \in Nat /\ p = b - 1
    BY <1>1, <1>3, <1>4, <2>1, <2>3 DEF Fewer, OneLess
  <2>5. m \in Nat /\ n \in Nat /\ m + n = c + d + 1
    BY <1>6, <2>1, <2>3
  <2>6. a + p + m + n + f = a + b + c + d + f
    BY <2>2, <2>4, <2>5
  <2> QED
    BY <1>1, <2>1, <2>3, <2>6 DEF Counts
<1> QED
  BY <1>1, <1>7, KeptStays

(* nextBlock(socket): a handler has requested its block.                    *)
LEMMA AsksKept ==
  ASSUME Inv, Kept, NEW i \in DOMAIN running, Asks(i)
  PROVE  Kept'
<1>0. Typed
  BY DEF Inv
<1>1. /\ ~running[i].asked /\ running' = [running EXCEPT ![i].asked = TRUE]
      /\ requests' = IF open THEN Append(requests, NextBlock) ELSE requests
      /\ UNCHANGED <<open, messages, resumes, tasks, failed>>
  BY DEF Asks, settings
<1>2. requests \in Seq(Requests) /\ running \in Seq(Handlers)
  BY <1>0 DEF Typed
<1>3. i \in 1 .. Len(running)
  BY <1>2, LenProperties
<1>4. PICK old, h : old = running[i] /\ h = [old EXCEPT !.asked = TRUE]
  OBVIOUS
<1>5. old \in Handlers
  BY <1>2, <1>3, <1>4, ElementOfSeq
<1>6. h \in Handlers /\ h.asked
  BY <1>4, <1>5 DEF Handlers
<1>7. running' = [running EXCEPT ![i] = h]
  BY <1>1, <1>4
<1>8. FewerUnasked(running, running', old)
  <2>1. PICK t : t = [running EXCEPT ![i] = h]
    OBVIOUS
  <2>2. FewerUnasked(running, t, running[i])
    BY <1>1, <1>2, <1>3, <1>6, <2>1, HandlerAsked
  <2> QED
    BY <1>4, <1>7, <2>1, <2>2
<1>9. ASSUME open PROVE Counts' = Counts
  <2>1. PICK request : request = NextBlock
    OBVIOUS
  <2>2. Fewer(requests', requests, request)
    BY <1>1, <1>2, <1>9, <2>1, BlockPutIn
  <2>3. request.method = "nextBlock"
    BY <2>1 DEF NextBlock
  <2>4. PICK a, b, c, d, f :
          /\ a = Cardinality(BlocksOf(requests)) /\ b = Cardinality(BlocksOf(messages))
          /\ c = Len(tasks) /\ d = Cardinality(Unasked(running)) /\ f = failed
    OBVIOUS
  <2>5. a \in Nat /\ b \in Nat /\ c \in Nat /\ d \in Nat /\ f \in Nat
    BY <1>0, <2>4, CountsAre
  <2>6. PICK p, n : p = Cardinality(BlocksOf(requests')) /\ n = Cardinality(Unasked(running'))
    OBVIOUS
  <2>7. p \in Nat /\ a = p - 1
    BY <2>2, <2>3, <2>4, <2>6 DEF Fewer, OneLess
  <2>8. n \in Nat /\ n = d - 1
    BY <1>1, <1>4, <1>8, <2>4, <2>6 DEF FewerUnasked, OneLess
  <2>9. p + b + c + n + f = a + b + c + d + f
    BY <2>5, <2>7, <2>8
  <2> QED
    BY <1>1, <2>4, <2>6, <2>9 DEF Counts
<1> QED
  BY <1>1, <1>9, KeptStays

(* A handler is over: one more task has a handler, that has yet to request. *)
LEMMA OverKept ==
  ASSUME Typed, NEW i \in DOMAIN running, Over(i)
  PROVE  /\ Len(tasks') \in Nat /\ Cardinality(Unasked(running')) \in Nat
         /\ Len(tasks') + Cardinality(Unasked(running'))
              + (IF running[i].asked THEN 0 ELSE 1)
            = Len(tasks) + Cardinality(Unasked(running))
<1>1. running \in Seq(Handlers) /\ tasks \in Seq(Rolls)
  BY DEF Typed
<1>2. i \in 1 .. Len(running)
  BY <1>1, LenProperties
<1>3. PICK rest, old : rest = RemoveAt(running, i) /\ old = running[i]
  OBVIOUS
<1>4. Without(Handlers, running, i, rest)
  BY <1>1, <1>2, <1>3, RemovedAt
<1>5. rest \in Seq(Handlers)
  BY <1>4 DEF Without
<1>6. FewerUnasked(running, rest, old)
  BY <1>1, <1>2, <1>3, <1>4, HandlerTakenOut
<1>7. PICK c, d, e : c = Len(tasks) /\ d = Cardinality(Unasked(running)) /\ e = Cardinality(Unasked(rest))
  OBVIOUS
<1>8. /\ c \in Nat /\ d \in Nat /\ e \in Nat
      /\ ~old.asked => e = d - 1
      /\ old.asked => e = d
  BY <1>6, <1>7, CountsAre DEF FewerUnasked, OneLess
<1>9. CASE tasks = <<>>
  <2>1. running' = rest
    BY <1>3, <1>5, <1>9, ConcatEmptySeq DEF Over, Pulled
  <2>2. tasks' = tasks
    BY <1>9 DEF Over
  <2>3. Len(tasks') = c /\ Cardinality(Unasked(running')) = e
    BY <1>7, <2>1, <2>2
  <2>4. c + e + (IF old.asked THEN 0 ELSE 1) = c + d
    BY <1>8
  <2> QED
    BY <1>3, <1>7, <1>8, <2>3, <2>4
<1>10. CASE tasks # <<>>
  <2>1. PICK roll, h : roll = Head(tasks) /\ h = Handler(roll)
    OBVIOUS
  <2>2. roll \in Rolls /\ Len(Tail(tasks)) = c - 1
    BY <1>1, <1>7, <1>10, <2>1, HeadTailProperties
  <2>3. h \in Handlers /\ ~h.asked
    BY <2>1, <2>2 DEF Handler, Handlers
  <2>4. running' = rest \o <<h>> /\ tasks' = Tail(tasks)
    BY <1>3, <1>10, <2>1 DEF Over, Pulled
  <2>5. running' = Append(rest, h)
    BY <1>5, <2>3, <2>4, AppendIsConcat
  <2>6. FewerUnasked(running', rest, h)
    BY <1>5, <2>3, <2>5, HandlerPutIn
  <2>7. PICK m, n : m = Len(tasks') /\ n = Cardinality(Unasked(running'))
    OBVIOUS
  <2>8. m = c - 1 /\ m \in Nat /\ n \in Nat /\ e = n - 1
    <3>1. n \in Nat /\ e = n - 1
      BY <1>7, <2>3, <2>6, <2>7 DEF FewerUnasked, OneLess
    <3>2. m \in Nat
      <4>1. Tail(tasks) \in Seq(Rolls)
        BY <1>1, <1>10, HeadTailProperties
      <4> QED
        BY <2>4, <2>7, <4>1, LenProperties
    <3> QED
      BY <2>2, <2>4, <2>7, <3>1, <3>2
  <2>9. m + n + (IF old.asked THEN 0 ELSE 1) = c + d
    BY <1>8, <2>8
  <2> QED
    BY <1>3, <1>7, <2>7, <2>8, <2>9
<1> QED
  BY <1>9, <1>10

LEMMA FinishesKept ==
  ASSUME Inv, Kept, NEW i \in DOMAIN running, Finishes(i)
  PROVE  Kept'
<1>0. Typed
  BY DEF Inv
<1>1. running[i].asked /\ Over(i) /\ UNCHANGED <<open, requests, messages, resumes, failed>>
  BY DEF Finishes, settings
<1>2. PICK a, b, c, d, f :
        /\ a = Cardinality(BlocksOf(requests)) /\ b = Cardinality(BlocksOf(messages))
        /\ c = Len(tasks) /\ d = Cardinality(Unasked(running)) /\ f = failed
  OBVIOUS
<1>3. a \in Nat /\ b \in Nat /\ c \in Nat /\ d \in Nat /\ f \in Nat
  BY <1>0, <1>2, CountsAre
<1>4. PICK m, n : m = Len(tasks') /\ n = Cardinality(Unasked(running'))
  OBVIOUS
<1>5. m \in Nat /\ n \in Nat /\ m + n + 0 = c + d
  BY <1>0, <1>1, <1>2, <1>4, OverKept
<1>6. a + b + m + n + f = a + b + c + d + f
  BY <1>3, <1>5
<1>7. Counts' = Counts
  BY <1>1, <1>2, <1>4, <1>6 DEF Counts
<1> QED
  BY <1>1, <1>7, KeptStays

LEMMA FailsKept ==
  ASSUME Inv, Kept, NEW i \in DOMAIN running, Fails(i)
  PROVE  Kept'
<1>0. Typed
  BY DEF Inv
<1>1. /\ ~running[i].asked /\ failed' = failed + 1 /\ Over(i)
      /\ UNCHANGED <<open, requests, messages, resumes>>
  BY DEF Fails, settings
<1>2. PICK a, b, c, d, f :
        /\ a = Cardinality(BlocksOf(requests)) /\ b = Cardinality(BlocksOf(messages))
        /\ c = Len(tasks) /\ d = Cardinality(Unasked(running)) /\ f = failed
  OBVIOUS
<1>3. a \in Nat /\ b \in Nat /\ c \in Nat /\ d \in Nat /\ f \in Nat
  BY <1>0, <1>2, CountsAre
<1>4. PICK m, n : m = Len(tasks') /\ n = Cardinality(Unasked(running'))
  OBVIOUS
<1>5. m \in Nat /\ n \in Nat /\ m + n + 1 = c + d
  BY <1>0, <1>1, <1>2, <1>4, OverKept
<1>6. a + b + m + n + (f + 1) = a + b + c + d + f
  BY <1>3, <1>5
<1>7. Counts' = Counts
  BY <1>1, <1>2, <1>4, <1>6 DEF Counts
<1> QED
  BY <1>1, <1>7, KeptStays

LEMMA InitKept == Init => Kept
<1> SUFFICES ASSUME Init PROVE Kept
  OBVIOUS
<1>1. /\ requests = <<>> /\ messages = <<>> /\ tasks = <<>> /\ running = <<>> /\ resumes = <<>>
      /\ failed = 0
  BY DEF Init
<1>2. BlocksOf(requests) = {} /\ BlocksOf(messages) = {} /\ Unasked(running) = {} /\ Len(tasks) = 0
  BY <1>1 DEF BlocksOf, Unasked
<1>3. Windows = {}
  BY <1>1 DEF Windows
<1>4. IsFiniteSet({}) /\ Cardinality({}) = 0
  BY FS_EmptySet
<1>5. Counts = 0
  <2>1. PICK none : none = Cardinality({})
    OBVIOUS
  <2>2. none + none + 0 + none + 0 = 0
    BY <1>4, <2>1
  <2> QED
    BY <1>1, <1>2, <2>1, <2>2 DEF Counts
<1> QED
  BY <1>3, <1>4, <1>5 DEF Kept

LEMMA NextKept == Inv /\ Kept /\ [Next]_vars => Kept'
<1> SUFFICES ASSUME Inv, Kept, [Next]_vars PROVE Kept'
  OBVIOUS
<1>0. Typed
  BY DEF Inv
<1>1. ASSUME NEW dropped \in 0 .. MaxRollback, Adopt(dropped) PROVE Kept'
  <2>1. UNCHANGED <<open, requests, messages, resumes, tasks, running, failed>>
    BY <1>1 DEF Adopt, program, settings
  <2>2. Counts' = Counts
    BY <2>1 DEF Counts
  <2> QED
    BY <2>1, <2>2, KeptStays
<1>2. CASE FindsIntersection
  BY <1>0, <1>2, FindsIntersectionKept
<1>3. CASE ServesBlock
  BY <1>0, <1>3, ServesBlockKept
<1>4. ASSUME NEW i \in DOMAIN requests, RefusesIntersection(i) PROVE Kept'
  BY <1>0, <1>4, RefusesKept
<1>5. CASE Resume
  BY <1>0, <1>5, ResumeKept
<1>6. CASE OnIntersection
  BY <1>6, OnIntersectionKept
<1>7. CASE OnBlock
  BY <1>7, OnBlockKept
<1>8. ASSUME NEW i \in DOMAIN running, Asks(i) PROVE Kept'
  BY <1>8, AsksKept
<1>9. ASSUME NEW i \in DOMAIN running, Finishes(i) PROVE Kept'
  BY <1>9, FinishesKept
<1>10. ASSUME NEW i \in DOMAIN running, Fails(i) PROVE Kept'
  BY <1>10, FailsKept
<1>11. CASE Close
  BY <1>11 DEF Close, Kept
<1>12. CASE UNCHANGED vars
  <2>1. UNCHANGED <<open, requests, messages, resumes, tasks, running, failed>>
    BY <1>12 DEF vars, program, settings
  <2>2. Counts' = Counts
    BY <2>1 DEF Counts
  <2> QED
    BY <2>1, <2>2, KeptStays
<1> QED
  BY <1>1, <1>2, <1>3, <1>4, <1>5, <1>6, <1>7, <1>8, <1>9, <1>10, <1>11, <1>12
     DEF Next, Server, Deliver, Handle

(* The windows stay full: what resume() requested ahead is under way, in    *)
(* the tasks or with a handler that has yet to request the next block, but  *)
(* for one of it for each handler that failed, whatever the windows, the    *)
(* calls, their interleaving with blocks, and the order handlers end in.    *)
THEOREM WindowIsKept == Spec => []InStep
<1>1. Kept => WindowKept
  BY DEF Kept, Counts, WindowKept, BlocksOf, Unasked
<1>2. Spec => []Kept
  BY InitKept, NextKept, Invariance, PTL DEF Spec
<1> QED
  BY <1>1, <1>2, TypeCorrect, PTL DEF InStep
=============================================================================
