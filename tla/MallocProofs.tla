---------------------------- MODULE MallocProofs ----------------------------
(***************************************************************************)
(* The heap of Malloc is what its operations take it for, for every heap,  *)
(* CHUNKSIZE and set of sizes.                                             *)
(*                                                                         *)
(* A set B of addresses is a tiling of the heap (Tiled), a function G the  *)
(* order of the free list (LinkedBy).  Each operation of mm.c is taken     *)
(* apart into the writes it is made of, to tags, to links or to the body   *)
(* of a block; a lemma says of each what it leaves of the tiling, of the   *)
(* list and of the payloads (Keeps), and the lemmas are put together.      *)
(***************************************************************************)
EXTENDS Malloc, FiniteSetTheorems, WellFoundedInduction, TLAPS

(***************************************************************************)
(* Addresses and tags                                                      *)
(***************************************************************************)

Mult8(q) == q \in Nat /\ q % 8 = 0

LEMMA HeapSizes ==
    /\ Mult8(CHUNKSIZE) /\ Mult8(MaxHeap) /\ CHUNKSIZE >= 16 /\ MaxHeap >= 32 + CHUNKSIZE
    /\ Base = 8 /\ head = 8 /\ tail = 16 /\ FirstBlock = 40 /\ Null = 0
BY ChunkAssumption, HeapAssumption DEF Mult8, Base, head, tail, FirstBlock, Null

LEMMA WordsAre ==
    ASSUME NEW q
    PROVE  q \in Words <=> q \in Nat /\ q % 4 = 0 /\ 8 <= q /\ q < 8 + MaxHeap
<1>1. MaxHeap \in Nat /\ MaxHeap % 8 = 0
  BY HeapAssumption
<1>2. ASSUME q \in Words PROVE q \in Nat /\ q % 4 = 0 /\ 8 <= q /\ q < 8 + MaxHeap
  <2>1. PICK k \in 0 .. MaxHeap \div 4 - 1 : q = Base + 4 * k
    BY <1>2 DEF Words
  <2> QED BY <1>1, <2>1, SMTT(20) DEF Base
<1>3. ASSUME q \in Nat, q % 4 = 0, 8 <= q, q < 8 + MaxHeap PROVE q \in Words
  <2> DEFINE k == (q - 8) \div 4
  <2>1. k \in 0 .. MaxHeap \div 4 - 1 /\ q = 8 + 4 * k
    BY <1>1, <1>3, SMTT(20)
  <2> HIDE DEF k
  <2> QED BY <2>1 DEF Words, Base
<1> QED BY <1>2, <1>3

LEMMA Mult8Sums ==
    ASSUME NEW a, Mult8(a), NEW b, Mult8(b)
    PROVE  Mult8(a + b) /\ (b <= a => Mult8(a - b)) /\ (a < b => a + 8 <= b)
BY SMTT(20) DEF Mult8

LEMMA TagHolds ==
    ASSUME NEW s, Mult8(s), NEW alloc \in {0, 1}
    PROVE  /\ s + alloc \in Nat /\ ((s + alloc) \div 8) * 8 = s
           /\ (s + alloc) % 2 = alloc
BY SMTT(20) DEF Mult8

LEMMA SizeIsMult8 ==
    ASSUME NEW x \in Nat
    PROVE  Mult8((x \div 8) * 8)
BY SMTT(20) DEF Mult8

LEMMA AlignHolds ==
    ASSUME NEW n \in Nat
    PROVE  Mult8(ALIGN(n)) /\ n <= ALIGN(n) /\ ALIGN(n) < n + 8
BY SMTT(20) DEF Mult8, ALIGN

(***************************************************************************)
(* The tiling of the heap below the break b: B holds the addresses of its  *)
(* blocks, each of which ends where the next one begins.                   *)
(***************************************************************************)
BlockIn(m, b, B, c) ==
    /\ Mult8(c) /\ FirstBlock <= c /\ c < b
    /\ BlockSize(m, c) >= 16
    /\ m[c + BlockSize(m, c) - 8] = m[c - 4]
    /\ NextBlock(m, c) \in B \cup {b} /\ NextBlock(m, c) <= b

Tiled(m, b, B) ==
    /\ m \in [Words -> Nat]
    /\ Mult8(b) /\ FirstBlock <= b /\ b <= Base + MaxHeap
    /\ m[FirstBlock - 12] = 9 /\ m[FirstBlock - 8] = 9 /\ m[b - 4] = 1
    /\ FirstBlock \in B \cup {b}
    /\ \A c \in B : BlockIn(m, b, B, c)
    /\ \A c, d \in B : c < d => NextBlock(m, c) <= d
    /\ \A c \in (B \cup {b}) \ {FirstBlock} : \E d \in B : NextBlock(m, d) = c

\* Where a block may lie, and which words are then its own.
Placed(c, s) == Mult8(c) /\ Mult8(s) /\ 16 <= c /\ s >= 16 /\ c + s <= Base + MaxHeap

LEMMA PlacedWords ==
    ASSUME NEW c, NEW s, Placed(c, s)
    PROVE  /\ c - 4 \in Words /\ c \in Words /\ c + 4 \in Words /\ c + s - 8 \in Words
           /\ c + s - 4 \in Words
           /\ c \in Nat /\ s \in Nat /\ c % 8 = 0 /\ s % 8 = 0
<1>1. c \in Nat /\ s \in Nat /\ c % 8 = 0 /\ s % 8 = 0 /\ MaxHeap \in Nat /\ Base = 8
      /\ 16 <= c /\ s >= 16 /\ c + s <= 8 + MaxHeap
  BY HeapSizes DEF Placed, Mult8
<1>2. /\ c - 4 \in Nat /\ c + 4 \in Nat /\ c + s - 8 \in Nat /\ c + s - 4 \in Nat
      /\ (c - 4) % 4 = 0 /\ c % 4 = 0 /\ (c + 4) % 4 = 0 /\ (c + s - 8) % 4 = 0
      /\ (c + s - 4) % 4 = 0
  BY <1>1, SMTT(20)
<1>3. c - 4 \in Words
  BY <1>1, <1>2, WordsAre
<1>4. c \in Words
  BY <1>1, <1>2, WordsAre
<1>5. c + 4 \in Words
  BY <1>1, <1>2, WordsAre
<1>6. c + s - 8 \in Words
  BY <1>1, <1>2, WordsAre
<1>7. c + s - 4 \in Words
  BY <1>1, <1>2, WordsAre
<1> QED BY <1>1, <1>3, <1>4, <1>5, <1>6, <1>7

\* Tag writes the two tags of a block and nothing else.
LEMMA TagIs ==
    ASSUME NEW m \in [Words -> Nat], NEW c, NEW s, Placed(c, s), NEW alloc \in {0, 1}
    PROVE  /\ Tag(m, c, s, alloc) \in [Words -> Nat]
           /\ Tag(m, c, s, alloc)[c - 4] = s + alloc
           /\ Tag(m, c, s, alloc)[c + s - 8] = s + alloc
           /\ \A q \in Words : q # c - 4 /\ q # c + s - 8 => Tag(m, c, s, alloc)[q] = m[q]
           /\ BlockSize(Tag(m, c, s, alloc), c) = s
           /\ IsFree(Tag(m, c, s, alloc), c) <=> alloc = 0
<1> DEFINE t == Tag(m, c, s, alloc)
<1>1. c - 4 \in Words /\ c + s - 8 \in Words
  BY PlacedWords
<1>2. s + alloc \in Nat /\ ((s + alloc) \div 8) * 8 = s /\ (s + alloc) % 2 = alloc
  BY TagHolds DEF Placed
<1>3. t \in [Words -> Nat]
  BY <1>1, <1>2 DEF Tag
<1>4. t[c - 4] = s + alloc /\ t[c + s - 8] = s + alloc
  BY <1>1 DEF Tag
<1>5. \A q \in Words : q # c - 4 /\ q # c + s - 8 => t[q] = m[q]
  BY DEF Tag
<1> HIDE DEF t
<1>6. BlockSize(t, c) = s
  BY <1>2, <1>4 DEF BlockSize, GetSize
<1>7. IsFree(t, c) <=> alloc = 0
  BY <1>2, <1>4 DEF IsFree
<1> QED BY <1>3, <1>4, <1>5, <1>6, <1>7 DEF t

\* What a block of the tiling is.
LEMMA BlockIs ==
    ASSUME NEW m, NEW b, NEW B, Tiled(m, b, B), NEW c \in B
    PROVE  /\ Placed(c, BlockSize(m, c)) /\ FirstBlock <= c
           /\ NextBlock(m, c) = c + BlockSize(m, c) /\ NextBlock(m, c) <= b
           /\ NextBlock(m, c) \in B \cup {b}
           /\ m[c - 4] \in Nat /\ m[c + BlockSize(m, c) - 8] = m[c - 4]
           /\ c < b
<1>1. /\ Mult8(c) /\ FirstBlock <= c /\ c < b
      /\ BlockSize(m, c) >= 16
      /\ m[c + BlockSize(m, c) - 8] = m[c - 4]
      /\ NextBlock(m, c) \in B \cup {b} /\ NextBlock(m, c) <= b
  BY DEF Tiled, BlockIn
<1>2. m \in [Words -> Nat] /\ Mult8(b) /\ b <= Base + MaxHeap
  BY DEF Tiled
<1>3. NextBlock(m, c) = c + BlockSize(m, c)
  BY DEF NextBlock
<1>4. c - 4 \in Words
  <2>1. c - 4 \in Nat /\ (c - 4) % 4 = 0 /\ 8 <= c - 4 /\ c - 4 < 8 + MaxHeap
    BY <1>1, <1>2, HeapSizes, SMTT(20) DEF Mult8
  <2> QED BY <2>1, WordsAre
<1>5. m[c - 4] \in Nat
  BY <1>2, <1>4
<1>6. Mult8(BlockSize(m, c))
  BY <1>5, SizeIsMult8 DEF BlockSize, GetSize
<1>7. Placed(c, BlockSize(m, c))
  <2>1. c + BlockSize(m, c) <= Base + MaxHeap
    BY <1>1, <1>2, <1>3, <1>6, HeapSizes DEF Mult8
  <2> QED BY <1>1, <1>6, <2>1, HeapSizes DEF Placed, Mult8
<1> QED BY <1>1, <1>3, <1>5, <1>7

\* The block before c, as the footer before c names it, and the break.
LEMMA PrevIs ==
    ASSUME NEW m, NEW b, NEW B, Tiled(m, b, B), NEW c \in B \cup {b}
    PROVE  /\ c # FirstBlock => /\ PrevBlock(m, c) \in B
                                /\ NextBlock(m, PrevBlock(m, c)) = c
                                /\ PrevBlock(m, c) < c
           /\ c = FirstBlock => /\ PrevBlock(m, c) = FirstBlock - 8
                                /\ ~IsFree(m, PrevBlock(m, c))
<1>1. ASSUME c # FirstBlock
      PROVE  PrevBlock(m, c) \in B /\ NextBlock(m, PrevBlock(m, c)) = c /\ PrevBlock(m, c) < c
  <2>1. PICK d \in B : NextBlock(m, d) = c
    BY <1>1 DEF Tiled
  <2>2. c = d + BlockSize(m, d) /\ m[d + BlockSize(m, d) - 8] = m[d - 4]
        /\ d \in Nat /\ BlockSize(m, d) \in Nat /\ BlockSize(m, d) >= 16
    BY <2>1, BlockIs, PlacedWords DEF Placed
  <2>3. GetSize(m, c - 8) = BlockSize(m, d)
    BY <2>2 DEF GetSize, BlockSize
  <2>4. PrevBlock(m, c) = d
    BY <2>2, <2>3 DEF PrevBlock
  <2> QED BY <2>1, <2>2, <2>4
<1>2. ASSUME c = FirstBlock
      PROVE  PrevBlock(m, c) = FirstBlock - 8 /\ ~IsFree(m, PrevBlock(m, c))
  <2>1. m[28] = 9 /\ m[32] = 9 /\ FirstBlock = 40
    BY HeapSizes DEF Tiled
  <2>2. (9 \div 8) * 8 = 8 /\ 9 % 2 = 1
    OBVIOUS
  <2>3. PrevBlock(m, c) = 32
    BY <1>2, <2>1, <2>2 DEF PrevBlock, GetSize
  <2> QED BY <2>1, <2>2, <2>3 DEF IsFree
<1> QED BY <1>1, <1>2

LEMMA BreakIs ==
    ASSUME NEW m, NEW b, NEW B, Tiled(m, b, B)
    PROVE  ~IsFree(m, b) /\ b \notin B /\ b \in Nat /\ Mult8(b) /\ b - 4 \in Words
           /\ FirstBlock <= b /\ b <= Base + MaxHeap /\ 28 \in Words /\ 32 \in Words
<1>1. m[b - 4] = 1 /\ 1 % 2 = 1
  BY DEF Tiled
<1>2. b \notin B
  <2> SUFFICES ASSUME b \in B PROVE FALSE
    OBVIOUS
  <2>1. b < b
    BY BlockIs
  <2> QED BY <2>1 DEF Tiled, Mult8
<1>3. Mult8(b) /\ FirstBlock <= b /\ b <= Base + MaxHeap
  BY DEF Tiled
<1>4. b - 4 \in Nat /\ (b - 4) % 4 = 0 /\ 8 <= b - 4 /\ b - 4 < 8 + MaxHeap
  BY <1>3, HeapSizes, SMTT(20) DEF Mult8
<1>5. b - 4 \in Words
  BY <1>4, WordsAre
<1>6. 28 \in Words /\ 32 \in Words
  <2>1. 28 % 4 = 0 /\ 32 % 4 = 0 /\ MaxHeap \in Nat /\ MaxHeap >= 48
    BY HeapSizes DEF Mult8
  <2> QED BY <2>1, WordsAre
<1> QED BY <1>1, <1>2, <1>3, <1>5, <1>6 DEF IsFree, Mult8

\* Two blocks are apart.
LEMMA Apart ==
    ASSUME NEW m, NEW b, NEW B, Tiled(m, b, B), NEW c \in B, NEW d \in B, c # d
    PROVE  c + BlockSize(m, c) <= d \/ d + BlockSize(m, d) <= c
<1>1. c \in Nat /\ d \in Nat
  BY BlockIs, PlacedWords
<1>2. c < d => NextBlock(m, c) <= d
  BY DEF Tiled
<1>3. d < c => NextBlock(m, d) <= c
  BY DEF Tiled
<1> QED BY <1>1, <1>2, <1>3 DEF NextBlock

(***************************************************************************)
(* What any rewriting of whole blocks does to a tiling: the blocks from lo *)
(* to hi give way to those of N, and the tags of the others stay.          *)
(***************************************************************************)
Outside(m, b, B, lo, hi, m2) ==
    /\ m2 \in [Words -> Nat] /\ m2[28] = 9 /\ m2[32] = 9 /\ m2[b - 4] = 1
    /\ \A c \in B : c < lo \/ hi <= c =>
          m2[c - 4] = m[c - 4] /\ m2[c + BlockSize(m, c) - 8] = m[c - 4]

Between(m2, lo, hi, N) ==
    /\ lo \in N
    /\ \A c \in N : /\ Mult8(c) /\ lo <= c /\ c < hi
                    /\ BlockSize(m2, c) >= 16
                    /\ m2[c + BlockSize(m2, c) - 8] = m2[c - 4]
                    /\ NextBlock(m2, c) \in N \cup {hi} /\ NextBlock(m2, c) <= hi
    /\ \A c, d \in N : c < d => NextBlock(m2, c) <= d
    /\ \A c \in (N \cup {hi}) \ {lo} : \E d \in N : NextBlock(m2, d) = c

Rewritten(B, lo, hi, N) == {c \in B : c < lo \/ hi <= c} \cup N

LEMMA LocalChange ==
    ASSUME NEW m, NEW b, NEW B, Tiled(m, b, B),
           NEW lo \in B, NEW hi \in B \cup {b}, lo < hi,
           NEW m2, Outside(m, b, B, lo, hi, m2),
           NEW N, Between(m2, lo, hi, N)
    PROVE  /\ Tiled(m2, b, Rewritten(B, lo, hi, N))
           /\ \A c \in B : c < lo \/ hi <= c =>
                 /\ c \in Rewritten(B, lo, hi, N)
                 /\ BlockSize(m2, c) = BlockSize(m, c)
                 /\ IsFree(m2, c) <=> IsFree(m, c)
<1> DEFINE B2 == Rewritten(B, lo, hi, N)
           O == {c \in B : c < lo \/ hi <= c}
<1>0. /\ lo \in N
      /\ \A c \in N : /\ Mult8(c) /\ lo <= c /\ c < hi
                      /\ BlockSize(m2, c) >= 16
                      /\ m2[c + BlockSize(m2, c) - 8] = m2[c - 4]
                      /\ NextBlock(m2, c) \in N \cup {hi} /\ NextBlock(m2, c) <= hi
      /\ \A c, d \in N : c < d => NextBlock(m2, c) <= d
      /\ \A c \in (N \cup {hi}) \ {lo} : \E d \in N : NextBlock(m2, d) = c
  BY DEF Between
<1>1. \A c \in O : /\ m2[c - 4] = m[c - 4] /\ BlockSize(m2, c) = BlockSize(m, c)
                   /\ m2[c + BlockSize(m2, c) - 8] = m2[c - 4]
                   /\ NextBlock(m2, c) = NextBlock(m, c)
                   /\ IsFree(m2, c) <=> IsFree(m, c)
  <2> SUFFICES ASSUME NEW c \in O
               PROVE /\ m2[c - 4] = m[c - 4] /\ BlockSize(m2, c) = BlockSize(m, c)
                     /\ m2[c + BlockSize(m2, c) - 8] = m2[c - 4]
                     /\ NextBlock(m2, c) = NextBlock(m, c)
                     /\ IsFree(m2, c) <=> IsFree(m, c)
    OBVIOUS
  <2>1. m2[c - 4] = m[c - 4] /\ m2[c + BlockSize(m, c) - 8] = m[c - 4]
    BY DEF Outside
  <2>2. BlockSize(m2, c) = BlockSize(m, c)
    BY <2>1 DEF BlockSize, GetSize
  <2> QED BY <2>1, <2>2 DEF NextBlock, IsFree
<1>2. \A c \in B : /\ c \in Nat /\ Mult8(c) /\ FirstBlock <= c /\ c < b
                   /\ BlockSize(m, c) \in Nat /\ BlockSize(m, c) >= 16
                   /\ NextBlock(m, c) = c + BlockSize(m, c) /\ NextBlock(m, c) <= b
                   /\ NextBlock(m, c) \in B \cup {b}
  BY BlockIs, PlacedWords DEF Placed
<1>3. b \in Nat /\ lo \in Nat /\ hi \in Nat /\ hi <= b /\ FirstBlock <= lo /\ FirstBlock \in Nat
  <2>1. b \in Nat /\ FirstBlock \in Nat
    BY BreakIs, HeapSizes
  <2>2. lo \in Nat /\ FirstBlock <= lo
    BY <1>2
  <2>3. hi \in Nat /\ hi <= b
    BY <1>2, <2>1
  <2> QED BY <2>1, <2>2, <2>3
<1>4. \A c \in N : c \in Nat /\ c < b /\ FirstBlock <= c
  BY <1>0, <1>3 DEF Mult8
<1>5. \A c \in O : c < lo => NextBlock(m, c) <= lo
  BY DEF Tiled
<1>6. \A c \in O : hi <= c \/ (c < lo /\ NextBlock(m, c) <= lo)
  BY <1>5
<1>7. lo \in B2 /\ hi \in B2 \cup {b}
  <2>1. hi = b \/ hi \in O
    BY <1>3
  <2> QED BY <1>0, <2>1 DEF Rewritten
<1>8. FirstBlock \in B2 \cup {b}
  <2>1. FirstBlock \in B \cup {b}
    BY DEF Tiled
  <2>2. FirstBlock < lo \/ FirstBlock = lo
    BY <1>3
  <2> QED BY <1>7, <2>1, <2>2 DEF Rewritten
<1>9. ASSUME NEW c \in B2 PROVE BlockIn(m2, b, B2, c)
  <2>1. CASE c \in O
    <3>1. NextBlock(m2, c) \in B \cup {b} /\ NextBlock(m2, c) <= b /\ BlockSize(m2, c) >= 16
      BY <1>1, <1>2, <2>1
    <3>2. NextBlock(m2, c) \in B2 \cup {b}
      <4>1. CASE c < lo
        <5>1. NextBlock(m2, c) <= lo /\ NextBlock(m2, c) \in Nat
          BY <1>1, <1>2, <1>5, <2>1, <4>1
        <5>2. NextBlock(m2, c) < lo \/ NextBlock(m2, c) = lo
          BY <1>3, <5>1
        <5> QED BY <1>7, <3>1, <5>2 DEF Rewritten
      <4>2. CASE hi <= c
        <5>1. hi <= NextBlock(m2, c)
          BY <1>1, <1>2, <1>3, <2>1, <4>2
        <5> QED BY <3>1, <5>1 DEF Rewritten
      <4> QED BY <2>1, <4>1, <4>2
    <3> QED BY <1>1, <1>2, <2>1, <3>1, <3>2 DEF BlockIn
  <2>2. CASE c \in N
    <3>1. NextBlock(m2, c) \in B2 \cup {b} /\ NextBlock(m2, c) <= b
      <4>1. NextBlock(m2, c) \in N \cup {hi} /\ NextBlock(m2, c) <= hi
        BY <1>0, <2>2
      <4>2. NextBlock(m2, c) \in Nat
        BY <1>3, <1>4, <4>1
      <4> QED BY <1>3, <1>7, <4>1, <4>2 DEF Rewritten
    <3> QED BY <1>0, <1>4, <2>2, <3>1 DEF BlockIn
  <2> QED BY <2>1, <2>2 DEF Rewritten
<1>10. ASSUME NEW c \in B2, NEW d \in B2, c < d PROVE NextBlock(m2, c) <= d
  <2>1. CASE c \in N /\ d \in N
    BY <1>0, <1>10, <2>1
  <2>2. CASE c \in N /\ d \in O
    <3>1. hi <= d
      BY <1>0, <1>2, <1>3, <1>4, <1>6, <1>10, <2>2
    <3>2. NextBlock(m2, c) <= hi /\ NextBlock(m2, c) \in Nat
      BY <1>0, <1>3, <1>4, <2>2
    <3> QED BY <1>2, <1>3, <2>2, <3>1, <3>2
  <2>3. CASE c \in O /\ d \in N
    <3>1. c < lo
      BY <1>0, <1>2, <1>3, <1>4, <1>10, <2>3
    <3>2. NextBlock(m2, c) <= lo /\ NextBlock(m2, c) \in Nat
      BY <1>1, <1>2, <1>5, <2>3, <3>1
    <3> QED BY <1>0, <1>3, <1>4, <2>3, <3>2
  <2>4. CASE c \in O /\ d \in O
    <3>1. NextBlock(m, c) <= d
      BY <1>10, <2>4 DEF Tiled
    <3> QED BY <1>1, <2>4, <3>1
  <2> QED BY <2>1, <2>2, <2>3, <2>4 DEF Rewritten
<1>11. ASSUME NEW c \in (B2 \cup {b}) \ {FirstBlock} PROVE \E d \in B2 : NextBlock(m2, d) = c
  <2>1. CASE c \in (N \cup {hi}) \ {lo}
    BY <1>0, <2>1 DEF Rewritten
  <2>2. CASE c \notin (N \cup {hi}) \ {lo}
    <3>1. c \in B \cup {b} /\ c \in Nat /\ (c < lo \/ c = lo \/ hi < c)
      BY <1>0, <1>2, <1>3, <2>2 DEF Rewritten
    <3>2. PICK d \in B : NextBlock(m, d) = c
      BY <1>11, <3>1 DEF Tiled
    <3>3. d \in O
      <4>1. d \in Nat /\ d < c
        BY <1>2, <3>2
      <4>2. CASE c < lo \/ c = lo
        BY <1>3, <3>1, <4>1, <4>2
      <4>3. CASE hi < c
        <5>1. CASE hi = b
          BY <1>2, <1>3, <3>1, <4>3, <5>1
        <5>2. CASE hi \in B
          <6>1. d < hi => NextBlock(m, d) <= hi
            BY <5>2 DEF Tiled
          <6> QED BY <1>3, <3>1, <3>2, <4>1, <4>3, <6>1
        <5> QED BY <5>1, <5>2
      <4> QED BY <3>1, <4>2, <4>3
    <3> QED BY <1>1, <3>2, <3>3 DEF Rewritten
  <2> QED BY <2>1, <2>2
<1>12. m2 \in [Words -> Nat] /\ m2[FirstBlock - 12] = 9 /\ m2[FirstBlock - 8] = 9 /\ m2[b - 4] = 1
  BY HeapSizes DEF Outside
<1>13. Mult8(b) /\ FirstBlock <= b /\ b <= Base + MaxHeap
  BY BreakIs
<1>14. Tiled(m2, b, B2)
  <2> HIDE DEF B2
  <2> QED BY <1>8, <1>9, <1>10, <1>11, <1>12, <1>13 DEF Tiled
<1> QED BY <1>1, <1>14 DEF Rewritten

(***************************************************************************)
(* The free list: the nodes of F, each once, between head and tail, linked *)
(* in both directions.  G tells which node is the k-th.                    *)
(***************************************************************************)
LinkedBy(m, F, n, G) ==
    /\ G[0] = head /\ G[n + 1] = tail
    /\ \A k \in 1 .. n : G[k] \in F
    /\ \A f \in F : \E k \in 1 .. n : G[k] = f
    /\ \A j, k \in 0 .. n + 1 : G[j] = G[k] => j = k
    /\ \A k \in 0 .. n : m[G[k] + 4] = G[k + 1] /\ m[G[k + 1]] = G[k]

Node(f) == Placed(f, 16) /\ FirstBlock <= f

Linked(m, F) ==
    /\ m \in [Words -> Nat]
    /\ \A f \in F : Node(f)
    /\ \E n \in Nat : \E G \in [0 .. n + 1 -> Words] : LinkedBy(m, F, n, G)

\* The words the list is made of.
LinkWords(F) == {head + 4, tail} \cup F \cup {f + 4 : f \in F}

LEMMA NodeIs ==
    ASSUME NEW f, Node(f)
    PROVE  f \in Words /\ f + 4 \in Words /\ f \in Nat /\ f % 8 = 0 /\ f >= 40
BY PlacedWords, HeapSizes DEF Node

LEMMA EndsAreWords ==
    head = 8 /\ tail = 16 /\ head + 4 \in Words /\ head \in Words /\ tail \in Words
<1>1. 12 % 4 = 0 /\ 16 % 4 = 0 /\ 8 % 4 = 0 /\ MaxHeap \in Nat /\ MaxHeap >= 48 /\ head = 8 /\ tail = 16
  BY HeapSizes DEF Mult8
<1> QED BY <1>1, WordsAre

\* The nodes of a list are apart from each other, and from each other's words.
LEMMA ListedWords ==
    ASSUME NEW m, NEW F, NEW n \in Nat, NEW G \in [0 .. n + 1 -> Words],
           LinkedBy(m, F, n, G), \A f \in F : Node(f)
    PROVE  /\ \A k \in 0 .. n + 1 : G[k] \in Nat /\ G[k] % 8 = 0
           /\ \A k \in 1 .. n : G[k] \in F /\ G[k] >= 40
           /\ \A k \in 1 .. n + 1 : G[k] >= 16
           /\ \A k \in 0 .. n : G[k] + 4 \in LinkWords(F) /\ G[k] + 4 \in Words
           /\ \A k \in 1 .. n + 1 : G[k] \in LinkWords(F)
           /\ \A j, k \in 0 .. n + 1 : G[j] + 4 # G[k]
<1>1. G[0] = 8 /\ G[n + 1] = 16 /\ head = 8 /\ tail = 16
  BY EndsAreWords DEF LinkedBy
<1>2. \A k \in 1 .. n : G[k] \in F /\ G[k] \in Nat /\ G[k] % 8 = 0 /\ G[k] >= 40 /\ G[k] + 4 \in Words
  BY NodeIs DEF LinkedBy
<1>3. 8 % 8 = 0 /\ 16 % 8 = 0
  OBVIOUS
<1>4. \A k \in 0 .. n + 1 : k = 0 \/ k \in 1 .. n \/ k = n + 1
  OBVIOUS
<1>5. \A k \in 0 .. n + 1 : G[k] \in Nat /\ G[k] % 8 = 0
  BY <1>1, <1>2, <1>3, <1>4
<1>6. \A k \in 0 .. n : G[k] + 4 \in LinkWords(F) /\ G[k] + 4 \in Words
  BY <1>1, <1>2, EndsAreWords DEF LinkWords
<1>7. \A k \in 1 .. n + 1 : G[k] \in LinkWords(F) /\ G[k] >= 16
  BY <1>1, <1>2 DEF LinkWords
<1>8. \A x, y \in Nat : x % 8 = 0 /\ y % 8 = 0 => x + 4 # y
  BY SMTT(20)
<1>9. \A j, k \in 0 .. n + 1 : G[j] + 4 # G[k]
  BY <1>5, <1>8
<1> QED BY <1>2, <1>5, <1>6, <1>7, <1>9

(***************************************************************************)
(* insert_node puts a block first on the list and touches its words only.  *)
(***************************************************************************)
LEMMA InsertLinks ==
    ASSUME NEW m, NEW F, Linked(m, F), NEW bp, Node(bp), bp \notin F
    PROVE  /\ Linked(InsertNode(m, bp), F \cup {bp})
           /\ \A q \in Words : q \notin LinkWords(F \cup {bp}) => InsertNode(m, bp)[q] = m[q]
<1> PICK n \in Nat : \E G \in [0 .. n + 1 -> Words] : LinkedBy(m, F, n, G)
  BY DEF Linked
<1> PICK G \in [0 .. n + 1 -> Words] : LinkedBy(m, F, n, G)
  OBVIOUS
<1>1. /\ \A k \in 0 .. n + 1 : G[k] \in Nat /\ G[k] % 8 = 0
      /\ \A k \in 1 .. n : G[k] \in F /\ G[k] >= 40
      /\ \A k \in 1 .. n + 1 : G[k] >= 16
      /\ \A k \in 0 .. n : G[k] + 4 \in LinkWords(F) /\ G[k] + 4 \in Words
      /\ \A k \in 1 .. n + 1 : G[k] \in LinkWords(F)
      /\ \A j, k \in 0 .. n + 1 : G[j] + 4 # G[k]
  BY ListedWords DEF Linked
<1>2. bp \in Words /\ bp + 4 \in Words /\ bp \in Nat /\ bp % 8 = 0 /\ bp >= 40
  BY NodeIs
<1>3. head = 8 /\ tail = 16 /\ 12 \in Words /\ G[0] = 8 /\ G[n + 1] = 16
  BY EndsAreWords DEF LinkedBy
<1>4. m \in [Words -> Nat]
  BY DEF Linked
<1> DEFINE i == InsertNode(m, bp)
           first == G[1]
           H == [k \in 0 .. n + 2 |-> IF k = 0 THEN head ELSE IF k = 1 THEN bp ELSE G[k - 1]]
<1>5. NextNode(m, head) = first /\ first \in Words /\ first \in Nat /\ first % 8 = 0 /\ first >= 16
      /\ (first \in F \/ first = 16)
  <2>1. m[G[0] + 4] = G[1] /\ 1 \in 1 .. n + 1 /\ 1 \in 0 .. n + 1 /\ (1 \in 1 .. n \/ 1 = n + 1)
    BY DEF LinkedBy
  <2> QED BY <1>1, <1>3, <2>1 DEF NextNode
<1>6. \A x, y \in Nat : x % 8 = 0 /\ y % 8 = 0 => x + 4 # y
  BY SMTT(20)
<1>7. first # bp /\ first # bp + 4 /\ first # 12
  BY <1>2, <1>5, <1>6
<1>8. bp + 4 # 12 /\ bp # 12 /\ bp # bp + 4
  BY <1>2
<1> HIDE DEF first
<1>9. i = [m EXCEPT ![bp] = 8, ![bp + 4] = first, ![12] = bp, ![first] = bp]
  <2>1. head = 8 /\ head + 4 = 12
    BY <1>3
  <2> QED BY <1>5, <2>1, Zenon DEF InsertNode
<1>10. /\ i \in [Words -> Nat]
       /\ i[bp] = 8 /\ i[bp + 4] = first /\ i[12] = bp /\ i[first] = bp
       /\ \A q \in Words : q # bp /\ q # bp + 4 /\ q # 12 /\ q # first => i[q] = m[q]
  <2> HIDE DEF i
  <2> QED BY <1>2, <1>3, <1>4, <1>5, <1>7, <1>8, <1>9
<1> HIDE DEF i
<1>11. \A q \in Words : q \notin LinkWords(F \cup {bp}) => i[q] = m[q]
  BY <1>3, <1>5, <1>10 DEF LinkWords
<1>12. H \in [0 .. n + 2 -> Words] /\ H[0] = head /\ H[n + 2] = tail /\ H[1] = bp
       /\ \A k \in 2 .. n + 2 : H[k] = G[k - 1] /\ k - 1 \in 1 .. n + 1
  BY <1>2, <1>3, EndsAreWords
<1> HIDE DEF H
<1>13. ASSUME NEW k \in 1 .. n + 1 PROVE H[k] \in F \cup {bp}
  <2>1. CASE k = 1
    BY <1>12, <2>1
  <2>2. CASE k # 1
    <3>1. k \in 2 .. n + 2 /\ k - 1 \in 1 .. n
      BY <2>2
    <3> QED BY <1>1, <1>12, <3>1
  <2> QED BY <2>1, <2>2
<1>14. ASSUME NEW f \in F \cup {bp} PROVE \E k \in 1 .. n + 1 : H[k] = f
  <2>1. CASE f = bp
    BY <1>12, <2>1
  <2>2. CASE f \in F
    <3>1. PICK k \in 1 .. n : G[k] = f
      BY <2>2 DEF LinkedBy
    <3>2. k + 1 \in 2 .. n + 2 /\ k + 1 \in 1 .. n + 1 /\ (k + 1) - 1 = k
      OBVIOUS
    <3> QED BY <1>12, <3>1, <3>2
  <2> QED BY <2>1, <2>2
<1>15. \A j \in 1 .. n + 1 : G[j] # bp /\ G[j] # 8
  <2> SUFFICES ASSUME NEW j \in 1 .. n + 1 PROVE G[j] # bp /\ G[j] # 8
    OBVIOUS
  <2>1. j \in 1 .. n \/ j = n + 1
    OBVIOUS
  <2> QED BY <1>1, <1>2, <1>3, <2>1
<1>16. ASSUME NEW j \in 0 .. n + 2, NEW k \in 0 .. n + 2, H[j] = H[k] PROVE j = k
  <2>1. \A x, y \in 0 .. n + 1 : G[x] = G[y] => x = y
    BY DEF LinkedBy
  <2>2. j = 0 \/ j = 1 \/ j \in 2 .. n + 2
    OBVIOUS
  <2>3. k = 0 \/ k = 1 \/ k \in 2 .. n + 2
    OBVIOUS
  <2>4. CASE j \in 2 .. n + 2 /\ k \in 2 .. n + 2
    <3>1. G[j - 1] = G[k - 1] /\ j - 1 \in 0 .. n + 1 /\ k - 1 \in 0 .. n + 1
      BY <1>12, <1>16, <2>4
    <3>2. j - 1 = k - 1
      BY <2>1, <3>1
    <3> QED BY <3>2, <2>4
  <2> QED BY <1>2, <1>3, <1>12, <1>15, <1>16, <2>2, <2>3, <2>4
<1>17. ASSUME NEW k \in 0 .. n + 1 PROVE i[H[k] + 4] = H[k + 1] /\ i[H[k + 1]] = H[k]
  <2>1. CASE k = 0
    <3>1. H[0] + 4 = 12 /\ 0 + 1 = 1 /\ H[0] = 8
      BY <1>3, <1>12
    <3> QED BY <1>10, <1>12, <2>1, <3>1
  <2>2. CASE k = 1
    <3>1. H[2] = first /\ 1 + 1 = 2
      <4>1. 2 \in 2 .. n + 2 /\ 2 - 1 = 1
        OBVIOUS
      <4> QED BY <1>12, <4>1 DEF first
    <3> QED BY <1>10, <1>12, <2>2, <3>1
  <2>3. CASE k \in 2 .. n + 1
    <3> DEFINE x == G[k - 1]
               y == G[k]
    <3>1. H[k] = x /\ H[k + 1] = y /\ k - 1 \in 1 .. n /\ k \in 2 .. n + 1 /\ k \in 0 .. n + 1
          /\ k - 1 \in 0 .. n /\ (k - 1) + 1 = k
      <4>1. (k + 1) - 1 = k /\ k + 1 \in 2 .. n + 2 /\ k \in 2 .. n + 2
        BY <2>3
      <4> QED BY <1>12, <2>3, <4>1
    <3>2. m[x + 4] = y /\ m[y] = x
      <4>1. \A j \in 0 .. n : m[G[j] + 4] = G[j + 1] /\ m[G[j + 1]] = G[j]
        BY DEF LinkedBy
      <4> QED BY <3>1, <4>1
    <3>3. x # bp /\ y # bp /\ y # first
      <4>1. k # 1 /\ 1 \in 0 .. n + 1
        BY <2>3
      <4> QED BY <1>15, <3>1, <4>1 DEF LinkedBy, first
    <3>4. x \in Nat /\ y \in Nat /\ x % 8 = 0 /\ y % 8 = 0 /\ x >= 40 /\ y >= 16
          /\ x + 4 \in Words /\ y \in Words
      BY <1>1, <3>1
    <3> HIDE DEF x, y
    <3>5. x + 4 # bp /\ x + 4 # bp + 4 /\ x + 4 # 12 /\ x + 4 # first
      BY <1>2, <1>5, <1>6, <3>3, <3>4
    <3>6. y # bp + 4 /\ y # 12
      BY <1>2, <1>6, <3>4
    <3>7. i[x + 4] = y /\ i[y] = x
      BY <1>10, <3>2, <3>3, <3>4, <3>5, <3>6
    <3> QED BY <3>1, <3>7
  <2> QED BY <2>1, <2>2, <2>3
<1>18. LinkedBy(i, F \cup {bp}, n + 1, H) /\ (n + 1) + 1 = n + 2
  BY <1>12, <1>13, <1>14, <1>16, <1>17 DEF LinkedBy
<1>19. Linked(i, F \cup {bp})
  <2>1. \A f \in F \cup {bp} : Node(f)
    BY DEF Linked
  <2>2. n + 1 \in Nat /\ H \in [0 .. (n + 1) + 1 -> Words]
    BY <1>12, <1>18
  <2> QED BY <1>10, <1>18, <2>1, <2>2 DEF Linked
<1> QED BY <1>11, <1>19 DEF i

(***************************************************************************)
(* remove_node takes a block off the list and touches links only.          *)
(***************************************************************************)
LEMMA RemoveLinks ==
    ASSUME NEW m, NEW F, Linked(m, F), NEW bp \in F
    PROVE  /\ Linked(RemoveNode(m, bp), F \ {bp})
           /\ \A q \in Words : q \notin LinkWords(F) => RemoveNode(m, bp)[q] = m[q]
<1> PICK n \in Nat : \E G \in [0 .. n + 1 -> Words] : LinkedBy(m, F, n, G)
  BY DEF Linked
<1> PICK G \in [0 .. n + 1 -> Words] : LinkedBy(m, F, n, G)
  OBVIOUS
<1>1. /\ \A k \in 0 .. n + 1 : G[k] \in Nat /\ G[k] % 8 = 0
      /\ \A k \in 0 .. n : G[k] + 4 \in LinkWords(F) /\ G[k] + 4 \in Words
      /\ \A k \in 1 .. n + 1 : G[k] \in LinkWords(F)
      /\ \A j, k \in 0 .. n + 1 : G[j] + 4 # G[k]
  BY ListedWords DEF Linked
<1>2. /\ \A j, k \in 0 .. n + 1 : G[j] = G[k] => j = k
      /\ \A j \in 0 .. n : m[G[j] + 4] = G[j + 1] /\ m[G[j + 1]] = G[j]
      /\ G[0] = head /\ G[n + 1] = tail
  BY DEF LinkedBy
<1>3. m \in [Words -> Nat]
  BY DEF Linked
<1>4. PICK i \in 1 .. n : G[i] = bp
  BY DEF LinkedBy
<1>5. i - 1 \in 0 .. n /\ i \in 0 .. n /\ i + 1 \in 1 .. n + 1 /\ (i - 1) + 1 = i /\ n >= 1
      /\ i - 1 \in 0 .. n + 1 /\ i + 1 \in 0 .. n + 1 /\ i \in 0 .. n + 1
  OBVIOUS
<1> DEFINE prev == G[i - 1]
           next == G[i + 1]
           r == RemoveNode(m, bp)
           H == [k \in 0 .. n |-> IF k < i THEN G[k] ELSE G[k + 1]]
<1>6. PrevNode(m, bp) = prev /\ NextNode(m, bp) = next
  <2>1. m[G[i] + 4] = G[i + 1] /\ m[G[(i - 1) + 1]] = G[i - 1]
    BY <1>2, <1>5
  <2> QED BY <1>4, <1>5, <2>1 DEF PrevNode, NextNode
<1>7. /\ prev + 4 \in Words /\ next \in Words /\ prev \in Nat /\ next \in Nat /\ prev + 4 # next
      /\ prev + 4 \in LinkWords(F) /\ next \in LinkWords(F)
  BY <1>1, <1>5
<1> HIDE DEF prev, next
<1>8. r = [m EXCEPT ![prev + 4] = next, ![next] = prev]
  BY <1>6, Zenon DEF RemoveNode
<1>9. /\ r \in [Words -> Nat] /\ r[prev + 4] = next /\ r[next] = prev
      /\ \A q \in Words : q # prev + 4 /\ q # next => r[q] = m[q]
  <2> HIDE DEF r
  <2> QED BY <1>3, <1>7, <1>8
<1> HIDE DEF r
<1>10. \A q \in Words : q \notin LinkWords(F) => r[q] = m[q]
  BY <1>7, <1>9
<1>11. /\ H \in [0 .. n -> Words]
       /\ \A k \in 0 .. n : k < i => H[k] = G[k]
       /\ \A k \in 0 .. n : i <= k => H[k] = G[k + 1]
  <2>1. \A k \in 0 .. n : k \in 0 .. n + 1 /\ k + 1 \in 0 .. n + 1
    OBVIOUS
  <2> QED BY <2>1
<1> HIDE DEF H
<1>12. H[0] = head /\ H[n] = tail
  BY <1>2, <1>5, <1>11
<1>13. ASSUME NEW k \in 1 .. n - 1 PROVE H[k] \in F \ {bp}
  <2>1. CASE k < i
    <3>1. H[k] = G[k] /\ k \in 1 .. n /\ k # i /\ k \in 0 .. n + 1
      BY <1>11, <2>1
    <3>2. G[k] # G[i]
      BY <1>2, <1>5, <3>1
    <3>3. G[k] \in F
      BY <3>1 DEF LinkedBy
    <3> QED BY <1>4, <3>1, <3>2, <3>3
  <2>2. CASE i <= k
    <3>1. H[k] = G[k + 1] /\ k + 1 \in 1 .. n /\ k + 1 # i /\ k + 1 \in 0 .. n + 1
      BY <1>11, <2>2
    <3> QED BY <1>2, <1>4, <1>5, <3>1 DEF LinkedBy
  <2> QED BY <2>1, <2>2
<1>14. ASSUME NEW f \in F \ {bp} PROVE \E k \in 1 .. n - 1 : H[k] = f
  <2>1. PICK k \in 1 .. n : G[k] = f
    BY DEF LinkedBy
  <2>2. k # i
    BY <1>4, <2>1
  <2>3. CASE k < i
    <3>1. k \in 1 .. n - 1 /\ H[k] = G[k]
      BY <1>11, <2>3
    <3> QED BY <2>1, <3>1
  <2>4. CASE i < k
    <3>1. k - 1 \in 1 .. n - 1 /\ i <= k - 1 /\ (k - 1) + 1 = k /\ k - 1 \in 0 .. n
      BY <2>4
    <3>2. H[k - 1] = G[k]
      BY <1>11, <3>1
    <3> QED BY <2>1, <3>1, <3>2
  <2> QED BY <2>2, <2>3, <2>4
<1>15. ASSUME NEW j \in 0 .. n, NEW k \in 0 .. n, H[j] = H[k] PROVE j = k
  <2>1. j + 1 \in 0 .. n + 1 /\ k + 1 \in 0 .. n + 1 /\ j \in 0 .. n + 1 /\ k \in 0 .. n + 1
    OBVIOUS
  <2>2. CASE j < i /\ k < i
    BY <1>2, <1>11, <1>15, <2>1, <2>2
  <2>3. CASE j < i /\ i <= k
    <3>1. G[j] = G[k + 1]
      BY <1>11, <1>15, <2>3
    <3>2. j = k + 1
      BY <1>2, <2>1, <3>1
    <3> QED BY <2>3, <3>2
  <2>4. CASE i <= j /\ k < i
    <3>1. G[j + 1] = G[k]
      BY <1>11, <1>15, <2>4
    <3>2. j + 1 = k
      BY <1>2, <2>1, <3>1
    <3> QED BY <2>4, <3>2
  <2>5. CASE i <= j /\ i <= k
    <3>1. G[j + 1] = G[k + 1]
      BY <1>11, <1>15, <2>5
    <3>2. j + 1 = k + 1
      BY <1>2, <2>1, <3>1
    <3> QED BY <3>2
  <2> QED BY <2>2, <2>3, <2>4, <2>5
<1>16. ASSUME NEW x \in 0 .. n, NEW y \in 1 .. n + 1, x # i - 1, y # i + 1
       PROVE  r[G[x] + 4] = m[G[x] + 4] /\ r[G[y]] = m[G[y]]
  <2>1. G[x] + 4 \in Words /\ G[y] \in Words /\ x \in 0 .. n + 1 /\ y \in 0 .. n + 1
    BY <1>1
  <2>2. G[x] # prev /\ G[y] # next
    BY <1>2, <1>5, <1>16, <2>1 DEF prev, next
  <2>3. G[x] + 4 # next /\ G[y] # prev + 4
    BY <1>1, <1>5, <2>1 DEF prev, next
  <2>4. G[x] \in Nat
    BY <1>1, <2>1
  <2>5. G[x] + 4 # prev + 4
    BY <1>7, <2>2, <2>4
  <2> QED BY <1>9, <2>1, <2>2, <2>3, <2>5
<1>17. ASSUME NEW k \in 0 .. n - 1 PROVE r[H[k] + 4] = H[k + 1] /\ r[H[k + 1]] = H[k]
  <2>1. CASE k + 1 < i
    <3>1. H[k] = G[k] /\ H[k + 1] = G[k + 1] /\ k \in 0 .. n /\ k + 1 \in 1 .. n + 1
          /\ k # i - 1 /\ k + 1 # i + 1
      BY <1>11, <2>1
    <3> QED BY <1>2, <1>16, <3>1
  <2>2. CASE k + 1 = i
    <3>1. H[k] = prev /\ H[k + 1] = next
      BY <1>11, <2>2 DEF prev, next
    <3> QED BY <1>9, <3>1
  <2>3. CASE i <= k
    <3>1. H[k] = G[k + 1] /\ H[k + 1] = G[(k + 1) + 1] /\ k + 1 \in 0 .. n
          /\ (k + 1) + 1 \in 1 .. n + 1 /\ k + 1 # i - 1 /\ (k + 1) + 1 # i + 1
      BY <1>11, <2>3
    <3> QED BY <1>2, <1>16, <3>1
  <2> QED BY <2>1, <2>2, <2>3
<1>18. (n - 1) + 1 = n /\ n - 1 \in Nat
  BY <1>5
<1>19. LinkedBy(r, F \ {bp}, n - 1, H)
  BY <1>12, <1>13, <1>14, <1>15, <1>17, <1>18 DEF LinkedBy
<1>20. Linked(r, F \ {bp})
  <2>1. \A f \in F \ {bp} : Node(f)
    BY DEF Linked
  <2>2. H \in [0 .. (n - 1) + 1 -> Words]
    BY <1>11, <1>18
  <2> QED BY <1>9, <1>18, <1>19, <2>1, <2>2 DEF Linked
<1> QED BY <1>10, <1>20 DEF r

(***************************************************************************)
(* A write to any other word leaves the list as it is.                     *)
(***************************************************************************)
LEMMA LinksStay ==
    ASSUME NEW m, NEW F, Linked(m, F), NEW m2 \in [Words -> Nat],
           \A q \in LinkWords(F) : m2[q] = m[q]
    PROVE  Linked(m2, F)
<1> PICK n \in Nat : \E G \in [0 .. n + 1 -> Words] : LinkedBy(m, F, n, G)
  BY DEF Linked
<1> PICK G \in [0 .. n + 1 -> Words] : LinkedBy(m, F, n, G)
  OBVIOUS
<1>1. /\ \A k \in 0 .. n : G[k] + 4 \in LinkWords(F)
      /\ \A k \in 1 .. n + 1 : G[k] \in LinkWords(F)
  BY ListedWords DEF Linked
<1>2. \A k \in 0 .. n : m2[G[k] + 4] = G[k + 1] /\ m2[G[k + 1]] = G[k]
  <2>1. \A k \in 0 .. n : m[G[k] + 4] = G[k + 1] /\ m[G[k + 1]] = G[k] /\ k + 1 \in 1 .. n + 1
    BY DEF LinkedBy
  <2> QED BY <1>1, <2>1
<1>3. LinkedBy(m2, F, n, G)
  BY <1>2 DEF LinkedBy
<1> QED BY <1>3 DEF Linked

\* A list of no nodes.
LEMMA NoLinks ==
    ASSUME NEW m \in [Words -> Nat], m[head + 4] = tail, m[tail] = head
    PROVE  Linked(m, {})
<1> DEFINE G == [k \in 0 .. 1 |-> IF k = 0 THEN head ELSE tail]
<1>1. G \in [0 .. 0 + 1 -> Words] /\ G[0] = head /\ G[0 + 1] = tail /\ head # tail
      /\ \A k \in 0 .. 0 + 1 : k = 0 \/ k = 1
  BY EndsAreWords
<1>2. LinkedBy(m, {}, 0, G)
  <2> HIDE DEF G
  <2> QED BY <1>1 DEF LinkedBy
<1> HIDE DEF G
<1> QED BY <1>1, <1>2 DEF Linked

(***************************************************************************)
(* Tags, links and bodies are apart                                        *)
(***************************************************************************)

\* The words of a block between its tags: the payload of an allocated block,
\* which begins with the links of a free one.
InBody(m, c, q) == q \in Nat /\ c <= q /\ q < c + BlockSize(m, c) - 8

LEMMA BodiesApart ==
    ASSUME NEW m, NEW b, NEW B, Tiled(m, b, B), NEW d \in B, NEW q, InBody(m, d, q)
    PROVE  /\ \A c \in B : q # c - 4 /\ q # c + BlockSize(m, c) - 8
           /\ \A c \in B : InBody(m, c, q) => c = d
           /\ q # 12 /\ q # 16 /\ q # 28 /\ q # 32 /\ q # b - 4
<1>1. d \in Nat /\ d >= 40 /\ BlockSize(m, d) \in Nat /\ d + BlockSize(m, d) <= b
      /\ q \in Nat /\ d <= q /\ q < d + BlockSize(m, d) - 8
  BY BlockIs, PlacedWords, HeapSizes DEF InBody
<1>2. b \in Nat
  BY BreakIs
<1>3. ASSUME NEW c \in B
      PROVE  q # c - 4 /\ q # c + BlockSize(m, c) - 8 /\ (InBody(m, c, q) => c = d)
  <2>1. c \in Nat /\ BlockSize(m, c) \in Nat /\ BlockSize(m, c) >= 16
    BY BlockIs, PlacedWords DEF Placed
  <2>2. CASE c = d
    BY <1>1, <2>1, <2>2
  <2>3. CASE c # d
    <3>1. c + BlockSize(m, c) <= d \/ d + BlockSize(m, d) <= c
      BY <2>3, Apart
    <3> QED BY <1>1, <2>1, <3>1 DEF InBody
  <2> QED BY <2>2, <2>3
<1> QED BY <1>1, <1>2, <1>3

\* The links of listed blocks are in their bodies.
LEMMA LinksInBodies ==
    ASSUME NEW m, NEW b, NEW B, Tiled(m, b, B), NEW F \in SUBSET B, NEW q \in LinkWords(F)
    PROVE  q = 12 \/ q = 16 \/ \E f \in F : InBody(m, f, q)
<1>1. q = 12 \/ q = 16 \/ \E f \in F : q = f \/ q = f + 4
  BY EndsAreWords DEF LinkWords
<1>2. \A f \in F : f \in Nat /\ BlockSize(m, f) \in Nat /\ BlockSize(m, f) >= 16
  BY BlockIs, PlacedWords DEF Placed
<1> QED BY <1>1, <1>2 DEF InBody

\* So no tag is a link.
LEMMA TagsNoLinks ==
    ASSUME NEW m, NEW b, NEW B, Tiled(m, b, B), NEW F \in SUBSET B
    PROVE  /\ \A c \in B : c - 4 \notin LinkWords(F) /\ c + BlockSize(m, c) - 8 \notin LinkWords(F)
           /\ 28 \notin LinkWords(F) /\ 32 \notin LinkWords(F) /\ b - 4 \notin LinkWords(F)
<1>1. b \in Nat /\ b >= 40
  BY BreakIs, HeapSizes
<1>2. \A c \in B : c \in Nat /\ c >= 40 /\ BlockSize(m, c) \in Nat /\ BlockSize(m, c) >= 16
  BY BlockIs, PlacedWords, HeapSizes DEF Placed
<1>3. \A q \in LinkWords(F) :
         /\ q # 28 /\ q # 32 /\ q # b - 4
         /\ \A c \in B : q # c - 4 /\ q # c + BlockSize(m, c) - 8
  <2> SUFFICES ASSUME NEW q \in LinkWords(F)
               PROVE /\ q # 28 /\ q # 32 /\ q # b - 4
                     /\ \A c \in B : q # c - 4 /\ q # c + BlockSize(m, c) - 8
    OBVIOUS
  <2>1. CASE q = 12 \/ q = 16
    BY <1>1, <1>2, <2>1
  <2>2. ASSUME NEW f \in F, InBody(m, f, q)
        PROVE /\ q # 28 /\ q # 32 /\ q # b - 4
              /\ \A c \in B : q # c - 4 /\ q # c + BlockSize(m, c) - 8
    BY <2>2, BodiesApart
  <2> QED BY <2>1, <2>2, LinksInBodies
<1> QED BY <1>3

(***************************************************************************)
(* The blocks of A keep their sizes, their tags and their bodies.          *)
(***************************************************************************)
Keeps(m, m2, A) ==
    \A c \in A :
        /\ m2[c - 4] = m[c - 4] /\ BlockSize(m2, c) = BlockSize(m, c)
        /\ \A q \in Words : InBody(m, c, q) => m2[q] = m[q]

LEMMA KeepsChain ==
    ASSUME NEW m, NEW m1, NEW m2, NEW A, Keeps(m, m1, A), Keeps(m1, m2, A)
    PROVE  Keeps(m, m2, A)
BY DEF Keeps, InBody

LEMMA KeepsFewer ==
    ASSUME NEW m, NEW m2, NEW A, NEW A2 \in SUBSET A, Keeps(m, m2, A)
    PROVE  Keeps(m, m2, A2)
BY DEF Keeps

LEMMA KeepsAsFree ==
    ASSUME NEW m, NEW m2, NEW A, Keeps(m, m2, A)
    PROVE  \A c \in A : /\ IsFree(m2, c) <=> IsFree(m, c)
                        /\ BlockSize(m2, c) = BlockSize(m, c)
                        /\ NextBlock(m2, c) = NextBlock(m, c)
BY DEF Keeps, IsFree, NextBlock

\* The blocks of A keep their sizes, and whether they are free.
SameBlocks(m, m2, A) ==
    \A c \in A : /\ BlockSize(m2, c) = BlockSize(m, c)
                 /\ NextBlock(m2, c) = NextBlock(m, c)
                 /\ IsFree(m2, c) <=> IsFree(m, c)

\* The tiling depends on the tags alone.
LEMMA TagsTile ==
    ASSUME NEW m, NEW b, NEW B, Tiled(m, b, B), NEW m2 \in [Words -> Nat],
           m2[28] = m[28], m2[32] = m[32], m2[b - 4] = m[b - 4],
           \A c \in B : /\ m2[c - 4] = m[c - 4]
                        /\ m2[c + BlockSize(m, c) - 8] = m[c + BlockSize(m, c) - 8]
    PROVE  /\ Tiled(m2, b, B)
           /\ SameBlocks(m, m2, B)
<1>1. SameBlocks(m, m2, B)
  BY DEF SameBlocks, BlockSize, GetSize, NextBlock, IsFree
<1>2. \A c \in B : BlockIn(m2, b, B, c)
  <2> SUFFICES ASSUME NEW c \in B PROVE BlockIn(m2, b, B, c)
    OBVIOUS
  <2>1. BlockIn(m, b, B, c)
    BY DEF Tiled
  <2> QED BY <1>1, <2>1 DEF BlockIn, SameBlocks
<1>3. m2[FirstBlock - 12] = 9 /\ m2[FirstBlock - 8] = 9 /\ m2[b - 4] = 1
  BY HeapSizes DEF Tiled
<1>4. Tiled(m2, b, B)
  BY <1>1, <1>2, <1>3 DEF Tiled, SameBlocks
<1> QED BY <1>1, <1>4

\* A change of links keeps the tiling, and every block that is not listed.
LEMMA LinkChange ==
    ASSUME NEW m, NEW b, NEW B, Tiled(m, b, B), NEW F \in SUBSET B,
           NEW m2 \in [Words -> Nat],
           \A q \in Words : q \notin LinkWords(F) => m2[q] = m[q]
    PROVE  /\ Tiled(m2, b, B)
           /\ SameBlocks(m, m2, B)
           /\ Keeps(m, m2, B \ F)
<1>1. /\ \A c \in B : c - 4 \notin LinkWords(F) /\ c + BlockSize(m, c) - 8 \notin LinkWords(F)
      /\ 28 \notin LinkWords(F) /\ 32 \notin LinkWords(F) /\ b - 4 \notin LinkWords(F)
  BY TagsNoLinks
<1>2. \A c \in B : c - 4 \in Words /\ c + BlockSize(m, c) - 8 \in Words
  BY BlockIs, PlacedWords
<1>3. 28 \in Words /\ 32 \in Words /\ b - 4 \in Words
  BY BreakIs
<1>4. /\ m2[28] = m[28] /\ m2[32] = m[32] /\ m2[b - 4] = m[b - 4]
      /\ \A c \in B : /\ m2[c - 4] = m[c - 4]
                      /\ m2[c + BlockSize(m, c) - 8] = m[c + BlockSize(m, c) - 8]
  BY <1>1, <1>2, <1>3
<1>5. /\ Tiled(m2, b, B)
      /\ SameBlocks(m, m2, B)
  BY <1>4, TagsTile
<1>6. ASSUME NEW c \in B \ F, NEW q \in Words, InBody(m, c, q) PROVE m2[q] = m[q]
  <2>1. ASSUME q \in LinkWords(F) PROVE FALSE
    <3>1. q # 12 /\ q # 16
      BY <1>6, BodiesApart
    <3>2. PICK f \in F : InBody(m, f, q)
      BY <2>1, <3>1, LinksInBodies
    <3>3. f = c
      BY <1>6, <3>2, BodiesApart
    <3> QED BY <3>3
  <2> QED BY <2>1
<1> QED BY <1>4, <1>5, <1>6 DEF Keeps, SameBlocks

\* The blocks whose tags say so.
FreeOf(m, B) == {c \in B : IsFree(m, c)}
AllocOf(m, B) == {c \in B : ~IsFree(m, c)}

LEMMA BlockIsNode ==
    ASSUME NEW m, NEW b, NEW B, Tiled(m, b, B), NEW c \in B
    PROVE  Node(c)
<1>1. Placed(c, BlockSize(m, c)) /\ FirstBlock <= c /\ BlockSize(m, c) \in Nat /\ c \in Nat
      /\ Base + MaxHeap \in Nat
  BY BlockIs, PlacedWords, HeapSizes DEF Mult8
<1>2. Mult8(16)
  BY SMTT(20) DEF Mult8
<1> QED BY <1>1, <1>2 DEF Node, Placed

LEMMA TakeOff ==
    ASSUME NEW m, NEW b, NEW B, Tiled(m, b, B), NEW F \in SUBSET B, Linked(m, F),
           NEW bp \in F, NEW r, r = RemoveNode(m, bp)
    PROVE  /\ Tiled(r, b, B) /\ Linked(r, F \ {bp})
           /\ SameBlocks(m, r, B)
           /\ Keeps(m, r, B \ F)
<1>1. /\ Linked(r, F \ {bp})
      /\ \A q \in Words : q \notin LinkWords(F) => r[q] = m[q]
  BY RemoveLinks
<1>2. r \in [Words -> Nat]
  BY <1>1 DEF Linked
<1> QED BY <1>1, <1>2, LinkChange

LEMMA PutOn ==
    ASSUME NEW m, NEW b, NEW B, Tiled(m, b, B), NEW F \in SUBSET B, Linked(m, F),
           NEW bp \in B \ F, NEW i, i = InsertNode(m, bp)
    PROVE  /\ Tiled(i, b, B) /\ Linked(i, F \cup {bp})
           /\ SameBlocks(m, i, B)
           /\ Keeps(m, i, B \ (F \cup {bp}))
<1>1. /\ Linked(i, F \cup {bp})
      /\ \A q \in Words : q \notin LinkWords(F \cup {bp}) => i[q] = m[q]
  BY BlockIsNode, InsertLinks
<1>2. i \in [Words -> Nat]
  BY <1>1 DEF Linked
<1>3. F \cup {bp} \in SUBSET B
  OBVIOUS
<1> QED BY <1>1, <1>2, <1>3, LinkChange

(***************************************************************************)
(* Writing the tags of one block over those of the blocks from first to    *)
(* last merges them.                                                       *)
(***************************************************************************)
Merged(B, first, hi) == {c \in B : c <= first \/ hi <= c}

MayMerge(m, b, B, first, last, F) ==
    /\ Tiled(m, b, B) /\ first \in B /\ last \in B /\ first <= last
    /\ F \subseteq Merged(B, first, NextBlock(m, last)) /\ Linked(m, F)

IsMerged(m, b, B, first, hi, F, alloc, t) ==
    /\ Tiled(t, b, Merged(B, first, hi)) /\ Linked(t, F)
    /\ first \in Merged(B, first, hi)
    /\ BlockSize(t, first) = hi - first /\ NextBlock(t, first) = hi
    /\ IsFree(t, first) <=> alloc = 0
    /\ SameBlocks(m, t, Merged(B, first, hi) \ {first})
    /\ Keeps(m, t, Merged(B, first, hi) \ {first})
    /\ \A q \in Words : q # first - 4 /\ q # hi - 8 => t[q] = m[q]

LEMMA MergeTags ==
    ASSUME NEW m, NEW b, NEW B, NEW first, NEW last, NEW F, MayMerge(m, b, B, first, last, F),
           NEW hi, hi = NextBlock(m, last), NEW alloc \in {0, 1},
           NEW t, t = Tag(m, first, hi - first, alloc)
    PROVE  IsMerged(m, b, B, first, hi, F, alloc, t)
<1>0. /\ Tiled(m, b, B) /\ first \in B /\ last \in B /\ first <= last
      /\ F \in SUBSET Merged(B, first, hi) /\ Linked(m, F)
  BY DEF MayMerge
<1> USE <1>0
<1> DEFINE B2 == Merged(B, first, hi)
           s == hi - first
<1>1. \A c \in B : /\ c \in Nat /\ Mult8(c) /\ c >= 40 /\ c < b
                   /\ BlockSize(m, c) \in Nat /\ BlockSize(m, c) >= 16 /\ Mult8(BlockSize(m, c))
                   /\ NextBlock(m, c) = c + BlockSize(m, c) /\ NextBlock(m, c) <= b
                   /\ NextBlock(m, c) \in B \cup {b}
                   /\ m[c + BlockSize(m, c) - 8] = m[c - 4]
                   /\ c - 4 \in Words /\ c + BlockSize(m, c) - 8 \in Words
  BY BlockIs, PlacedWords, HeapSizes DEF Placed
<1>2. b \in Nat /\ 28 \in Words /\ 32 \in Words /\ b - 4 \in Words /\ b <= Base + MaxHeap
      /\ m \in [Words -> Nat]
  BY BreakIs DEF Tiled
<1>3. hi \in B \cup {b} /\ hi \in Nat /\ hi <= b /\ first < hi /\ first + 16 <= hi /\ last < hi
      /\ first \in Nat
  <2>1. first \in Nat /\ last \in Nat /\ BlockSize(m, last) \in Nat /\ BlockSize(m, last) >= 16
        /\ hi = last + BlockSize(m, last) /\ hi <= b /\ hi \in B \cup {b}
    BY <1>0, <1>1
  <2> QED BY <2>1
<1>4. Mult8(hi)
  BY <1>1, Mult8Sums
<1>5. Placed(first, s)
  <2>1. Mult8(s)
    BY <1>1, <1>3, <1>4, Mult8Sums
  <2> QED BY <1>1, <1>2, <1>3, <2>1, HeapSizes DEF Placed, Mult8
<1>6. /\ t \in [Words -> Nat]
      /\ t[first - 4] = s + alloc /\ t[first + s - 8] = s + alloc
      /\ \A q \in Words : q # first - 4 /\ q # first + s - 8 => t[q] = m[q]
      /\ BlockSize(t, first) = s
      /\ IsFree(t, first) <=> alloc = 0
  BY <1>2, <1>5, TagIs
<1>7. first + s = hi /\ first + s - 8 = hi - 8
  BY <1>1, <1>3
<1> HIDE DEF s
<1>8. \A q \in Words : q # first - 4 /\ q # hi - 8 => t[q] = m[q]
  BY <1>6, <1>7
<1>9. ASSUME NEW c \in B, c < first \/ hi <= c
      PROVE  t[c - 4] = m[c - 4] /\ t[c + BlockSize(m, c) - 8] = m[c - 4]
  <2>1. c < first => NextBlock(m, c) <= first
    BY DEF Tiled
  <2>2. c - 4 # first - 4 /\ c - 4 # hi - 8
    BY <1>1, <1>3, <1>9
  <2>3. c + BlockSize(m, c) - 8 # first - 4 /\ c + BlockSize(m, c) - 8 # hi - 8
    BY <1>1, <1>3, <1>9, <2>1
  <2> QED BY <1>1, <1>8, <2>2, <2>3
<1>10. t[28] = 9 /\ t[32] = 9 /\ t[b - 4] = 1
  <2>1. 28 # first - 4 /\ 28 # hi - 8 /\ 32 # first - 4 /\ 32 # hi - 8 /\ b - 4 # first - 4
        /\ b - 4 # hi - 8
    BY <1>1, <1>2, <1>3
  <2>2. m[28] = 9 /\ m[32] = 9 /\ m[b - 4] = 1
    BY HeapSizes DEF Tiled
  <2> QED BY <1>2, <1>8, <2>1, <2>2
<1>11. Outside(m, b, B, first, hi, t)
  BY <1>6, <1>9, <1>10 DEF Outside
<1>12. NextBlock(t, first) = hi
  BY <1>6, <1>7 DEF NextBlock
<1>13. /\ Tiled(t, b, Rewritten(B, first, hi, {first}))
       /\ \A c \in B : c < first \/ hi <= c =>
             /\ BlockSize(t, c) = BlockSize(m, c)
             /\ IsFree(t, c) <=> IsFree(m, c)
  <2>1. \A c \in {first} : /\ Mult8(c) /\ first <= c /\ c < hi
                           /\ BlockSize(t, c) >= 16
                           /\ t[c + BlockSize(t, c) - 8] = t[c - 4]
                           /\ NextBlock(t, c) \in {first} \cup {hi} /\ NextBlock(t, c) <= hi
    BY <1>1, <1>3, <1>5, <1>6, <1>12 DEF Placed
  <2>2. \A c, d \in {first} : c < d => NextBlock(t, c) <= d
    BY <1>3
  <2>3. \A c \in ({first} \cup {hi}) \ {first} : \E d \in {first} : NextBlock(t, d) = c
    BY <1>12
  <2> QED BY <1>3, <1>11, <2>1, <2>2, <2>3, LocalChange DEF Between
<1>14. Rewritten(B, first, hi, {first}) = B2
  <2>1. \A c \in B : c \in Nat /\ first \in Nat
    BY <1>1
  <2> QED BY <2>1 DEF Rewritten, Merged
<1>15. ASSUME NEW c \in B2 \ {first}
       PROVE  /\ BlockSize(t, c) = BlockSize(m, c) /\ NextBlock(t, c) = NextBlock(m, c)
              /\ IsFree(t, c) <=> IsFree(m, c)
              /\ t[c - 4] = m[c - 4]
  <2>1. c \in B /\ (c < first \/ hi <= c)
    BY <1>1 DEF Merged
  <2>2. BlockSize(t, c) = BlockSize(m, c) /\ (IsFree(t, c) <=> IsFree(m, c))
    BY <1>13, <2>1
  <2> QED BY <1>9, <2>1, <2>2 DEF NextBlock
<1>16. ASSUME NEW c \in B, c <= first \/ hi <= c, NEW q \in Words, InBody(m, c, q)
       PROVE  t[q] = m[q]
  <2>1. q # first - 4 /\ q # last + BlockSize(m, last) - 8
    BY <1>16, BodiesApart
  <2>2. last + BlockSize(m, last) - 8 = hi - 8
    BY <1>1
  <2> QED BY <1>8, <2>1, <2>2
<1>17. Keeps(m, t, B2 \ {first})
  BY <1>15, <1>16 DEF Keeps, Merged
<1>18. Linked(t, F)
  <2>1. \A q \in LinkWords(F) : t[q] = m[q]
    <3> SUFFICES ASSUME NEW q \in LinkWords(F) PROVE t[q] = m[q]
      OBVIOUS
    <3>1. F \in SUBSET B
      BY DEF Merged
    <3>2. q # first - 4 /\ q # last + BlockSize(m, last) - 8
      BY <3>1, TagsNoLinks
    <3>3. q \in Words
      BY <3>1, BlockIsNode, NodeIs, EndsAreWords DEF LinkWords
    <3>4. last + BlockSize(m, last) - 8 = hi - 8
      BY <1>1
    <3> QED BY <1>8, <3>2, <3>3, <3>4
  <2> QED BY <1>6, <2>1, LinksStay
<1>19. first \in B2
  BY <1>3 DEF Merged
<1>20. BlockSize(t, first) = hi - first /\ Tiled(t, b, B2)
  BY <1>6, <1>13, <1>14 DEF s
<1> HIDE DEF B2
<1>21. SameBlocks(m, t, B2 \ {first})
  BY <1>15 DEF SameBlocks
<1> QED BY <1>6, <1>8, <1>12, <1>17, <1>18, <1>19, <1>20, <1>21 DEF B2, IsMerged

(***************************************************************************)
(* Writing the tags of two blocks over those of one splits it.             *)
(***************************************************************************)
MaySplit(m, b, B, bp, a, F) ==
    /\ Tiled(m, b, B) /\ bp \in B /\ Mult8(a) /\ a >= 16 /\ BlockSize(m, bp) - a >= 16
    /\ F \subseteq B \ {bp} /\ Linked(m, F)

IsSplit(m, b, B, bp, a, F, t) ==
    /\ Tiled(t, b, B \cup {bp + a}) /\ Linked(t, F) /\ bp + a \notin B
    /\ BlockSize(t, bp) = a /\ NextBlock(t, bp) = bp + a /\ ~IsFree(t, bp)
    /\ NextBlock(t, bp + a) = NextBlock(m, bp) /\ IsFree(t, bp + a)
    /\ SameBlocks(m, t, B \ {bp})
    /\ Keeps(m, t, B \ {bp})

LEMMA SplitTags ==
    ASSUME NEW m, NEW b, NEW B, NEW bp, NEW a, NEW F, MaySplit(m, b, B, bp, a, F),
           NEW t, t = Tag(Tag(m, bp, a, 1), bp + a, BlockSize(m, bp) - a, 0)
    PROVE  IsSplit(m, b, B, bp, a, F, t)
<1>0. /\ Tiled(m, b, B) /\ bp \in B /\ Mult8(a) /\ a >= 16 /\ BlockSize(m, bp) - a >= 16
      /\ F \in SUBSET (B \ {bp}) /\ Linked(m, F)
  BY DEF MaySplit
<1> USE <1>0
<1> DEFINE s == BlockSize(m, bp)
           hi == NextBlock(m, bp)
           rest == bp + a
           r == s - a
           t1 == Tag(m, bp, a, 1)
<1>1. \A c \in B : /\ c \in Nat /\ Mult8(c) /\ c >= 40 /\ c < b
                   /\ BlockSize(m, c) \in Nat /\ BlockSize(m, c) >= 16 /\ Mult8(BlockSize(m, c))
                   /\ NextBlock(m, c) = c + BlockSize(m, c) /\ NextBlock(m, c) <= b
                   /\ NextBlock(m, c) \in B \cup {b}
                   /\ m[c + BlockSize(m, c) - 8] = m[c - 4]
                   /\ c - 4 \in Words /\ c + BlockSize(m, c) - 8 \in Words
  BY BlockIs, PlacedWords, HeapSizes DEF Placed
<1>2. b \in Nat /\ 28 \in Words /\ 32 \in Words /\ b - 4 \in Words /\ b <= Base + MaxHeap
      /\ m \in [Words -> Nat] /\ Base + MaxHeap \in Nat
  <2>1. Base + MaxHeap \in Nat
    BY HeapSizes DEF Mult8
  <2> QED BY <2>1, BreakIs DEF Tiled
<1>3. a \in Nat /\ bp \in Nat /\ s \in Nat /\ bp >= 40 /\ hi = bp + s /\ hi \in B \cup {b}
      /\ hi <= b /\ s - a >= 16 /\ a < s
  BY <1>1 DEF Mult8
<1>4. Mult8(rest) /\ Mult8(r) /\ rest \in Nat /\ r \in Nat /\ rest + r = hi /\ r >= 16
      /\ rest >= 56 /\ rest < hi
  <2>1. Mult8(rest)
    BY <1>1, Mult8Sums
  <2>2. Mult8(r)
    BY <1>1, <1>3, Mult8Sums
  <2> QED BY <1>3, <2>1, <2>2 DEF Mult8
<1>5. Placed(bp, a) /\ Placed(rest, r)
  BY <1>1, <1>2, <1>3, <1>4 DEF Placed
<1> HIDE DEF s, hi, rest, r
<1>6. /\ t1 \in [Words -> Nat]
      /\ t1[bp - 4] = a + 1 /\ t1[bp + a - 8] = a + 1
      /\ \A q \in Words : q # bp - 4 /\ q # bp + a - 8 => t1[q] = m[q]
  BY <1>2, <1>5, TagIs
<1> HIDE DEF t1
<1>7. t = Tag(t1, rest, r, 0)
  BY DEF t1, rest, r, s
<1>8. /\ t \in [Words -> Nat]
      /\ t[rest - 4] = r + 0 /\ t[rest + r - 8] = r + 0
      /\ \A q \in Words : q # rest - 4 /\ q # rest + r - 8 => t[q] = t1[q]
      /\ BlockSize(t, rest) = r /\ IsFree(t, rest)
  BY <1>5, <1>6, <1>7, TagIs
<1>9. bp - 4 \in Words /\ bp + a - 8 \in Words
  BY <1>5, PlacedWords
<1>10. t[bp - 4] = a + 1 /\ t[bp + a - 8] = a + 1
  <2>1. bp - 4 # rest - 4 /\ bp - 4 # rest + r - 8 /\ bp + a - 8 # rest - 4
        /\ bp + a - 8 # rest + r - 8
    BY <1>3, <1>4 DEF rest
  <2> QED BY <1>6, <1>8, <1>9, <2>1
<1>11. BlockSize(t, bp) = a /\ ~IsFree(t, bp) /\ NextBlock(t, bp) = rest
       /\ NextBlock(t, rest) = hi
  <2>1. ((a + 1) \div 8) * 8 = a /\ (a + 1) % 2 = 1
    BY TagHolds
  <2>2. BlockSize(t, bp) = a /\ ~IsFree(t, bp)
    BY <1>10, <2>1 DEF BlockSize, GetSize, IsFree
  <2> QED BY <1>4, <1>8, <2>2 DEF NextBlock, rest
<1>12. \A q \in Words : q # bp - 4 /\ q # rest - 8 /\ q # rest - 4 /\ q # hi - 8 => t[q] = m[q]
  <2>1. rest + r - 8 = hi - 8 /\ bp + a - 8 = rest - 8
    BY <1>3, <1>4 DEF rest
  <2> QED BY <1>6, <1>8, <2>1
<1>13. ASSUME NEW c \in B, c < bp \/ hi <= c
       PROVE  t[c - 4] = m[c - 4] /\ t[c + BlockSize(m, c) - 8] = m[c - 4]
  <2>1. c < bp => NextBlock(m, c) <= bp
    BY DEF Tiled
  <2>2. bp < rest /\ bp + 16 <= rest /\ rest + 16 <= hi
    BY <1>3, <1>4 DEF rest
  <2>3. c - 4 # bp - 4 /\ c - 4 # rest - 8 /\ c - 4 # rest - 4 /\ c - 4 # hi - 8
    BY <1>1, <1>3, <1>4, <1>13, <2>2
  <2>4. c + BlockSize(m, c) - 8 # bp - 4 /\ c + BlockSize(m, c) - 8 # rest - 8
        /\ c + BlockSize(m, c) - 8 # rest - 4 /\ c + BlockSize(m, c) - 8 # hi - 8
    BY <1>1, <1>3, <1>4, <1>13, <2>1, <2>2
  <2> QED BY <1>1, <1>12, <2>3, <2>4
<1>14. t[28] = 9 /\ t[32] = 9 /\ t[b - 4] = 1
  <2>1. \A q \in {28, 32, b - 4} : q # bp - 4 /\ q # rest - 8 /\ q # rest - 4 /\ q # hi - 8
    BY <1>1, <1>2, <1>3, <1>4
  <2>2. m[28] = 9 /\ m[32] = 9 /\ m[b - 4] = 1
    BY HeapSizes DEF Tiled
  <2> QED BY <1>2, <1>12, <2>1, <2>2
<1>15. Outside(m, b, B, bp, hi, t)
  BY <1>8, <1>13, <1>14 DEF Outside
<1> DEFINE N == {bp, rest}
<1>16. /\ Tiled(t, b, Rewritten(B, bp, hi, N))
       /\ \A c \in B : c < bp \/ hi <= c =>
             /\ BlockSize(t, c) = BlockSize(m, c)
             /\ IsFree(t, c) <=> IsFree(m, c)
  <2>1. \A c \in N : /\ Mult8(c) /\ bp <= c /\ c < hi
                     /\ BlockSize(t, c) >= 16
                     /\ t[c + BlockSize(t, c) - 8] = t[c - 4]
                     /\ NextBlock(t, c) \in N \cup {hi} /\ NextBlock(t, c) <= hi
    <3>1. CASE TRUE
      <4>1. Mult8(bp) /\ bp <= bp /\ bp < hi /\ Mult8(rest) /\ bp <= rest /\ rest < hi /\ hi <= hi
            /\ rest <= hi
        BY <1>1, <1>3, <1>4 DEF rest
      <4>2. t[bp + BlockSize(t, bp) - 8] = t[bp - 4] /\ t[rest + BlockSize(t, rest) - 8] = t[rest - 4]
        BY <1>8, <1>10, <1>11
      <4> QED BY <1>3, <1>4, <1>8, <1>11, <4>1, <4>2
    <3> QED BY <3>1
  <2>2. \A c, d \in N : c < d => NextBlock(t, c) <= d
    BY <1>3, <1>4, <1>11 DEF rest
  <2>3. \A c \in (N \cup {hi}) \ {bp} : \E d \in N : NextBlock(t, d) = c
    BY <1>11
  <2>4. bp < hi /\ bp \in N
    BY <1>3
  <2> HIDE DEF N
  <2>5. Between(t, bp, hi, N)
    BY <2>1, <2>2, <2>3, <2>4 DEF Between
  <2>6. hi \in B \cup {b}
    BY <1>3
  <2>7. bp < hi
    BY <2>4
  <2>8. Tiled(t, b, Rewritten(B, bp, hi, N))
    BY <1>15, <2>5, <2>6, <2>7, LocalChange
  <2> QED BY <1>15, <2>5, <2>6, <2>7, <2>8, LocalChange
<1>17. \A c \in B \ {bp} : c < bp \/ hi <= c
  <2> SUFFICES ASSUME NEW c \in B \ {bp} PROVE c < bp \/ hi <= c
    OBVIOUS
  <2>1. c + BlockSize(m, c) <= bp \/ bp + BlockSize(m, bp) <= c
    BY Apart
  <2> QED BY <1>1, <1>3, <2>1 DEF s
<1>18. rest \notin B
  <2>1. ~(rest < bp) /\ ~(hi <= rest) /\ rest # bp
    BY <1>3, <1>4 DEF rest
  <2> QED BY <1>17, <2>1
<1>19. Rewritten(B, bp, hi, N) = B \cup {rest}
  BY <1>17 DEF Rewritten
<1>20. ASSUME NEW c \in B \ {bp}
       PROVE  /\ BlockSize(t, c) = BlockSize(m, c) /\ NextBlock(t, c) = NextBlock(m, c)
              /\ IsFree(t, c) <=> IsFree(m, c)
              /\ t[c - 4] = m[c - 4]
  <2>1. BlockSize(t, c) = BlockSize(m, c) /\ (IsFree(t, c) <=> IsFree(m, c))
    BY <1>16, <1>17
  <2>2. t[c - 4] = m[c - 4]
    BY <1>13, <1>17
  <2> QED BY <2>1, <2>2 DEF NextBlock
<1>21. ASSUME NEW c \in B \ {bp}, NEW q \in Words, InBody(m, c, q) PROVE t[q] = m[q]
  <2>1. q # bp - 4 /\ q # bp + BlockSize(m, bp) - 8 /\ ~InBody(m, bp, q)
    BY <1>21, BodiesApart
  <2>2. q # hi - 8
    BY <1>3, <2>1 DEF s
  <2>3. q \in Nat /\ (q < bp \/ hi - 8 <= q)
    BY <1>3, <1>21, <2>1 DEF InBody, s
  <2>4. q # rest - 8 /\ q # rest - 4
    BY <1>3, <1>4, <2>2, <2>3 DEF rest
  <2> QED BY <1>12, <2>1, <2>2, <2>4
<1>22. Keeps(m, t, B \ {bp})
  BY <1>20, <1>21 DEF Keeps
<1>23. Linked(t, F)
  <2>1. ASSUME NEW q \in LinkWords(F) PROVE t[q] = m[q]
    <3>1. F \in SUBSET B
      OBVIOUS
    <3>2. q = 12 \/ q = 16 \/ \E f \in F : InBody(m, f, q)
      BY <3>1, LinksInBodies
    <3>3. q \in Words
      BY <3>1, BlockIsNode, NodeIs, EndsAreWords DEF LinkWords
    <3>4. CASE q = 12 \/ q = 16
      <4>1. q # bp - 4 /\ q # rest - 8 /\ q # rest - 4 /\ q # hi - 8
        BY <1>3, <1>4, <3>4
      <4> QED BY <1>12, <3>3, <4>1
    <3>5. ASSUME NEW f \in F, InBody(m, f, q) PROVE t[q] = m[q]
      BY <1>21, <3>3, <3>5
    <3> QED BY <3>2, <3>4, <3>5
  <2> QED BY <1>8, <2>1, LinksStay
<1>24. Tiled(t, b, B \cup {rest})
  BY <1>16, <1>19
<1>25. SameBlocks(m, t, B \ {bp})
  BY <1>20 DEF SameBlocks
<1> QED BY <1>8, <1>11, <1>18, <1>22, <1>23, <1>24, <1>25 DEF rest, hi, IsSplit

(***************************************************************************)
(* Growing the heap makes the epilogue the header of a free block and      *)
(* writes a new epilogue.                                                  *)
(***************************************************************************)
Grown(m, b, s) == [Tag(m, b, s, 0) EXCEPT ![b + s - 4] = 1]

MayGrow(m, b, B, s, F) ==
    /\ Tiled(m, b, B) /\ F \subseteq B /\ Linked(m, F)
    /\ Mult8(s) /\ s >= 16 /\ b + s <= Base + MaxHeap

IsGrown(m, b, B, s, F, t) ==
    /\ Tiled(t, b + s, B \cup {b}) /\ Linked(t, F)
    /\ BlockSize(t, b) = s /\ NextBlock(t, b) = b + s /\ IsFree(t, b)
    /\ SameBlocks(m, t, B)
    /\ Keeps(m, t, B)

LEMMA GrowTags ==
    ASSUME NEW m, NEW b, NEW B, NEW s, NEW F, MayGrow(m, b, B, s, F),
           NEW t, t = Grown(m, b, s)
    PROVE  IsGrown(m, b, B, s, F, t)
<1>0. /\ Tiled(m, b, B) /\ F \in SUBSET B /\ Linked(m, F)
      /\ Mult8(s) /\ s >= 16 /\ b + s <= Base + MaxHeap
  BY DEF MayGrow
<1> USE <1>0
<1> DEFINE t1 == Tag(m, b, s, 0)
           b2 == b + s
           B2 == B \cup {b}
<1>1. \A c \in B : /\ c \in Nat /\ Mult8(c) /\ c >= 40 /\ c < b /\ FirstBlock <= c
                   /\ BlockSize(m, c) \in Nat /\ BlockSize(m, c) >= 16 /\ Mult8(BlockSize(m, c))
                   /\ NextBlock(m, c) = c + BlockSize(m, c) /\ NextBlock(m, c) <= b
                   /\ NextBlock(m, c) \in B \cup {b}
                   /\ m[c + BlockSize(m, c) - 8] = m[c - 4]
                   /\ c - 4 \in Words /\ c + BlockSize(m, c) - 8 \in Words
  BY BlockIs, PlacedWords, HeapSizes DEF Placed
<1>2. b \in Nat /\ 28 \in Words /\ 32 \in Words /\ b - 4 \in Words /\ b <= Base + MaxHeap
      /\ m \in [Words -> Nat] /\ b >= 40 /\ Mult8(b) /\ FirstBlock <= b
  BY BreakIs, HeapSizes DEF Tiled
<1>3. s \in Nat
  BY DEF Mult8
<1>4. Placed(b, s)
  BY <1>2 DEF Placed
<1>5. /\ t1 \in [Words -> Nat]
      /\ t1[b - 4] = s + 0 /\ t1[b + s - 8] = s + 0
      /\ \A q \in Words : q # b - 4 /\ q # b + s - 8 => t1[q] = m[q]
      /\ BlockSize(t1, b) = s /\ IsFree(t1, b)
  BY <1>2, <1>4, TagIs
<1> HIDE DEF t1
<1>6. b + s - 4 \in Words /\ b - 4 \in Words /\ b + s - 8 \in Words
  BY <1>4, PlacedWords
<1>7. t = [t1 EXCEPT ![b + s - 4] = 1]
  BY DEF t1, Grown
<1>8. /\ t \in [Words -> Nat] /\ t[b2 - 4] = 1
      /\ \A q \in Words : q # b2 - 4 => t[q] = t1[q]
  <2>0. t1 \in [Words -> Nat]
    BY <1>5
  <2>1. t \in [Words -> Nat]
    <3>1. \A f \in [Words -> Nat], x \in Words : [f EXCEPT ![x] = 1] \in [Words -> Nat]
      OBVIOUS
    <3> QED BY <1>6, <1>7, <2>0, <3>1
  <2>2. t[b + s - 4] = 1
    BY <1>5, <1>6, <1>7
  <2>3. \A q \in Words : q # b + s - 4 => t[q] = t1[q]
    BY <1>5, <1>7
  <2>4. b + s - 4 = b2 - 4
    BY <1>2, <1>3
  <2> HIDE DEF b2
  <2> QED BY <2>1, <2>2, <2>3, <2>4
<1>9. /\ t[b - 4] = s /\ t[b + s - 8] = s
      /\ \A q \in Words : q # b - 4 /\ q # b2 - 8 /\ q # b2 - 4 => t[q] = m[q]
  <2>1. b - 4 # b2 - 4 /\ b + s - 8 # b2 - 4
    BY <1>2, <1>3
  <2>2. s + 0 = s
    BY <1>3
  <2>3. t[b - 4] = s /\ t[b + s - 8] = s
    BY <1>5, <1>6, <1>8, <2>1, <2>2
  <2>4. \A q \in Words : q # b - 4 /\ q # b2 - 8 /\ q # b2 - 4 => t[q] = m[q]
    <3> SUFFICES ASSUME NEW q \in Words, q # b - 4, q # b2 - 8, q # b2 - 4 PROVE t[q] = m[q]
      OBVIOUS
    <3>1. t[q] = t1[q]
      BY <1>8
    <3>2. q # b + s - 8
      BY <1>2, <1>3
    <3>3. t1[q] = m[q]
      BY <1>5, <3>2
    <3> QED BY <3>1, <3>3
  <2> QED BY <2>3, <2>4
<1>10. BlockSize(t, b) = s /\ IsFree(t, b) /\ NextBlock(t, b) = b2
  BY <1>3, <1>5, <1>9 DEF BlockSize, GetSize, IsFree, NextBlock
<1>11. \A c \in B : t[c - 4] = m[c - 4] /\ t[c + BlockSize(m, c) - 8] = m[c + BlockSize(m, c) - 8]
  <2> SUFFICES ASSUME NEW c \in B
               PROVE t[c - 4] = m[c - 4]
                     /\ t[c + BlockSize(m, c) - 8] = m[c + BlockSize(m, c) - 8]
    OBVIOUS
  <2>1. c - 4 # b - 4 /\ c - 4 # b2 - 8 /\ c - 4 # b2 - 4
    BY <1>1, <1>2, <1>3
  <2>2. c + BlockSize(m, c) - 8 # b - 4 /\ c + BlockSize(m, c) - 8 # b2 - 8
        /\ c + BlockSize(m, c) - 8 # b2 - 4
    BY <1>1, <1>2, <1>3
  <2> QED BY <1>1, <1>9, <2>1, <2>2
<1>12. \A c \in B : /\ BlockSize(t, c) = BlockSize(m, c) /\ NextBlock(t, c) = NextBlock(m, c)
                    /\ IsFree(t, c) <=> IsFree(m, c)
  BY <1>11 DEF BlockSize, GetSize, NextBlock, IsFree
<1>13. t[FirstBlock - 12] = 9 /\ t[FirstBlock - 8] = 9
  <2>1. \A q \in {28, 32} : q # b - 4 /\ q # b2 - 8 /\ q # b2 - 4
    BY <1>2, <1>3
  <2>2. m[28] = 9 /\ m[32] = 9 /\ FirstBlock - 12 = 28 /\ FirstBlock - 8 = 32
    BY HeapSizes DEF Tiled
  <2> QED BY <1>2, <1>9, <2>1, <2>2
<1>14. Mult8(b2) /\ b2 \in Nat /\ b < b2 /\ b2 <= Base + MaxHeap /\ FirstBlock <= b2
  <2>1. Mult8(b2)
    BY <1>2, Mult8Sums
  <2>2. FirstBlock \in Nat
    BY HeapSizes
  <2> QED BY <1>2, <1>3, <2>1, <2>2
<1>15. ASSUME NEW c \in B2 PROVE BlockIn(t, b2, B2, c)
  <2>1. CASE c \in B
    <3>1. t[c + BlockSize(t, c) - 8] = t[c - 4] /\ BlockSize(t, c) >= 16
      BY <1>1, <1>11, <1>12, <2>1
    <3>2. NextBlock(t, c) \in B2 \cup {b2} /\ NextBlock(t, c) <= b2 /\ c < b2
      BY <1>1, <1>2, <1>12, <1>14, <2>1
    <3> QED BY <1>1, <2>1, <3>1, <3>2 DEF BlockIn
  <2>2. CASE c = b
    BY <1>2, <1>9, <1>10, <1>14, <2>2 DEF BlockIn
  <2> QED BY <2>1, <2>2
<1>16. ASSUME NEW c \in B2, NEW d \in B2, c < d PROVE NextBlock(t, c) <= d
  <2>1. CASE c \in B /\ d \in B
    BY <1>12, <1>16, <2>1 DEF Tiled
  <2>2. CASE c \in B /\ d = b
    BY <1>1, <1>12, <2>2
  <2>3. CASE c = b
    BY <1>1, <1>2, <1>16, <2>3
  <2> QED BY <2>1, <2>2, <2>3
<1>17. ASSUME NEW c \in (B2 \cup {b2}) \ {FirstBlock} PROVE \E d \in B2 : NextBlock(t, d) = c
  <2>1. CASE c = b2
    BY <1>10, <2>1
  <2>2. CASE c \in B \cup {b}
    <3>1. PICK d \in B : NextBlock(m, d) = c
      BY <1>17, <2>2 DEF Tiled
    <3> QED BY <1>12, <3>1
  <2> QED BY <2>1, <2>2
<1>18. FirstBlock \in B2 \cup {b2}
  BY DEF Tiled
<1>19. Tiled(t, b2, B2)
  <2> HIDE DEF b2, B2
  <2> QED BY <1>8, <1>13, <1>14, <1>15, <1>16, <1>17, <1>18 DEF Tiled
<1>20. Keeps(m, t, B)
  <2>1. ASSUME NEW c \in B, NEW q \in Words, InBody(m, c, q) PROVE t[q] = m[q]
    <3>1. q # b - 4 /\ q < b2 - 8
      BY <1>1, <1>2, <1>3, <2>1 DEF InBody
    <3>2. q \in Nat
      BY <2>1 DEF InBody
    <3>3. q # b2 - 8 /\ q # b2 - 4
      BY <1>2, <1>3, <3>1, <3>2
    <3> QED BY <1>9, <3>1, <3>3
  <2> QED BY <1>11, <1>12, <2>1 DEF Keeps
<1>21. Linked(t, F)
  <2>1. ASSUME NEW q \in LinkWords(F) PROVE t[q] = m[q]
    <3>1. q = 12 \/ q = 16 \/ \E f \in F : InBody(m, f, q)
      BY LinksInBodies
    <3>2. q \in Words
      BY BlockIsNode, NodeIs, EndsAreWords DEF LinkWords
    <3>3. CASE q = 12 \/ q = 16
      <4>1. q # b - 4 /\ q # b2 - 8 /\ q # b2 - 4
        BY <1>2, <1>3, <3>3
      <4> QED BY <1>9, <3>2, <4>1
    <3>4. ASSUME NEW f \in F, InBody(m, f, q) PROVE t[q] = m[q]
      BY <1>20, <3>2, <3>4 DEF Keeps
    <3> QED BY <3>1, <3>3, <3>4
  <2>2. t \in [Words -> Nat]
    BY <1>8
  <2>3. \A q \in LinkWords(F) : t[q] = m[q]
    BY <2>1
  <2> HIDE DEF b2, B2
  <2> QED BY <2>2, <2>3, LinksStay
<1>22. SameBlocks(m, t, B)
  BY <1>12 DEF SameBlocks
<1> QED BY <1>10, <1>19, <1>20, <1>21, <1>22 DEF IsGrown

(***************************************************************************)
(* The heap between two calls: tiled, the free blocks listed and no two of *)
(* them neighbours.                                                        *)
(***************************************************************************)
NoTwoFree(m, B) == \A c \in B : IsFree(m, c) => ~IsFree(m, NextBlock(m, c))

Good(m, b, B) == Tiled(m, b, B) /\ Linked(m, FreeOf(m, B)) /\ NoTwoFree(m, B)

(***************************************************************************)
(* coalesce: a listed block whose neighbours may be free is merged with    *)
(* them, and the allocated blocks keep what they hold.                     *)
(***************************************************************************)
MayCoalesce(m, b, B, bp) ==
    /\ Tiled(m, b, B) /\ Linked(m, FreeOf(m, B))
    /\ bp \in FreeOf(m, B)
    /\ \A c \in B \ {bp} :
          IsFree(m, c) /\ NextBlock(m, c) # bp => ~IsFree(m, NextBlock(m, c))

Coalesced(m, b, B, bp, r, B2) ==
    /\ Good(r.mem, b, B2)
    /\ r.bp \in FreeOf(r.mem, B2) /\ BlockSize(r.mem, r.bp) >= BlockSize(m, bp)
    /\ AllocOf(r.mem, B2) = AllocOf(m, B)
    /\ Keeps(m, r.mem, AllocOf(m, B))

LEMMA CoalesceWorks ==
    ASSUME NEW m, NEW b, NEW B, NEW bp, MayCoalesce(m, b, B, bp)
    PROVE  \E B2 : Coalesced(m, b, B, bp, coalesce(m, bp), B2)
<1> DEFINE prev == PrevBlock(m, bp)
           next == NextBlock(m, bp)
           first == IF IsFree(m, prev) THEN prev ELSE bp
           last == IF IsFree(m, next) THEN next ELSE bp
           m1 == IF first = prev THEN RemoveNode(m, bp) ELSE m
           m2 == IF last = next THEN RemoveNode(m1, next) ELSE m1
           F == FreeOf(m, B)
           F1 == IF IsFree(m, prev) THEN F \ {bp} ELSE F
           F2 == IF IsFree(m, next) THEN F1 \ {next} ELSE F1
           hi == NextBlock(m, last)
           t == Tag(m2, first, last + BlockSize(m, last) - first, 0)
           r == coalesce(m, bp)
<1>1. /\ Tiled(m, b, B) /\ Linked(m, F) /\ bp \in B /\ IsFree(m, bp) /\ bp \in F
      /\ \A c \in B \ {bp} :
            IsFree(m, c) /\ NextBlock(m, c) # bp => ~IsFree(m, NextBlock(m, c))
  BY DEF MayCoalesce, FreeOf
<1>2. \A c \in B : /\ c \in Nat /\ c >= 40 /\ c < b
                   /\ BlockSize(m, c) \in Nat /\ BlockSize(m, c) >= 16
                   /\ NextBlock(m, c) = c + BlockSize(m, c) /\ NextBlock(m, c) <= b
                   /\ NextBlock(m, c) \in B \cup {b} /\ NextBlock(m, c) \in Nat
  BY <1>1, BlockIs, PlacedWords, HeapSizes DEF Placed
<1>3. b \in Nat /\ ~IsFree(m, b) /\ b \notin B
  BY <1>1, BreakIs
<1>4. IsFree(m, prev) => prev \in F /\ prev \in B /\ NextBlock(m, prev) = bp /\ prev < bp
  BY <1>1, PrevIs DEF FreeOf
<1>5. /\ next \in B \cup {b} /\ bp < next /\ next \in Nat
      /\ IsFree(m, next) => next \in F /\ next \in B
  BY <1>1, <1>2, <1>3 DEF FreeOf
<1>6. r = [mem |-> IF first = last THEN m2 ELSE t, bp |-> first]
  BY DEF coalesce
<1>7. first = prev <=> IsFree(m, prev)
  <2>1. PrevBlock(m, bp) # bp
    BY <1>1, PrevIs, <1>2, HeapSizes
  <2> QED BY <2>1
<1>8. last = next <=> IsFree(m, next)
  BY <1>1, <1>2, <1>5
<1> HIDE DEF prev, next, first, last, r
<1>9. first \in F /\ first \in B /\ first <= bp /\ first \in {prev, bp} /\ first \in Nat
  BY <1>1, <1>2, <1>4 DEF first
<1>10. last \in F /\ last \in B /\ bp <= last /\ last \in {bp, next} /\ last \in Nat
  BY <1>1, <1>2, <1>5 DEF last
<1>11. F \in SUBSET B /\ F1 \in SUBSET F
  BY DEF FreeOf
<1>12. /\ Tiled(m1, b, B) /\ Linked(m1, F1) /\ Keeps(m, m1, B \ F)
       /\ SameBlocks(m, m1, B)
  <2>1. CASE IsFree(m, prev)
    <3>1. m1 = RemoveNode(m, bp) /\ F1 = F \ {bp}
      BY <1>7, <2>1
    <3>2. bp \in F /\ F \in SUBSET B
      BY <1>1, <1>11
    <3> HIDE DEF F, m1, F1
    <3>3. Tiled(m1, b, B) /\ Linked(m1, F \ {bp})
      BY <1>1, <3>1, <3>2, TakeOff
    <3>4. SameBlocks(m, m1, B)
      BY <1>1, <3>1, <3>2, TakeOff
    <3>5. Keeps(m, m1, B \ F)
      BY <1>1, <3>1, <3>2, TakeOff
    <3> QED BY <3>1, <3>3, <3>4, <3>5
  <2>2. CASE ~IsFree(m, prev)
    <3>1. m1 = m /\ F1 = F
      BY <1>7, <2>2
    <3> QED BY <1>1, <3>1 DEF Keeps, SameBlocks
  <2> QED BY <2>1, <2>2
<1>13. /\ Tiled(m2, b, B) /\ Linked(m2, F2) /\ Keeps(m, m2, B \ F)
       /\ SameBlocks(m, m2, B)
  <2>1. CASE IsFree(m, next)
    <3>1. m2 = RemoveNode(m1, next) /\ F2 = F1 \ {next}
      BY <1>8, <2>1
    <3>2. next \in F1
      BY <1>2, <1>5, <2>1
    <3> HIDE DEF F, m1, F1, m2, F2
    <3>3. /\ Tiled(m2, b, B) /\ Linked(m2, F2) /\ Keeps(m1, m2, B \ F1)
          /\ SameBlocks(m1, m2, B)
      BY <1>11, <1>12, <3>1, <3>2, TakeOff
    <3>4. Keeps(m1, m2, B \ F)
      BY <1>11, <3>3, KeepsFewer
    <3>5. Keeps(m, m2, B \ F)
      BY <1>12, <3>4, KeepsChain
    <3> QED BY <1>12, <3>3, <3>5 DEF SameBlocks
  <2>2. CASE ~IsFree(m, next)
    <3>1. m2 = m1 /\ F2 = F1
      BY <1>8, <2>2
    <3> HIDE DEF m1, F1, m2, F2
    <3> QED BY <1>12, <3>1
  <2> QED BY <2>1, <2>2
<1> HIDE DEF m1, m2
<1>14. AllocOf(m, B) = B \ F
  BY DEF AllocOf, FreeOf
<1>15. CASE first = last
  <2>1. ~IsFree(m, prev) /\ ~IsFree(m, next) /\ first = bp
    <3>1. prev = first => prev < bp /\ prev \in B
      BY <1>4, <1>7
    <3>2. first = bp /\ last = bp
      BY <1>2, <1>4, <1>5, <1>7, <1>8, <1>9, <1>10, <1>15
    <3>3. ~IsFree(m, prev)
      BY <1>1, <1>2, <1>4, <1>7, <3>1, <3>2
    <3>4. ~IsFree(m, next)
      BY <1>5, <1>8, <3>2
    <3> QED BY <3>2, <3>3, <3>4
  <2>2. m2 = m /\ r = [mem |-> m, bp |-> bp]
    BY <1>6, <1>7, <1>8, <1>15, <2>1 DEF m1, m2
  <2>3. NoTwoFree(m, B)
    <3> SUFFICES ASSUME NEW c \in B, IsFree(m, c) PROVE ~IsFree(m, NextBlock(m, c))
      BY DEF NoTwoFree
    <3>1. CASE c = bp
      BY <2>1, <3>1 DEF next
    <3>2. CASE NextBlock(m, c) = bp
      <4>1. bp # FirstBlock
        BY <1>2, <3>2, HeapSizes
      <4>2. prev \in B /\ NextBlock(m, prev) = bp
        BY <1>1, <4>1, PrevIs DEF prev
      <4>3. c = prev
        <5>1. c # prev => c + BlockSize(m, c) <= prev \/ prev + BlockSize(m, prev) <= c
          BY <1>1, <4>2, Apart
        <5> QED BY <1>2, <3>2, <4>2, <5>1
      <4> QED BY <2>1, <4>3
    <3> QED BY <1>1, <3>1, <3>2
  <2>4. Good(m, b, B)
    BY <1>1, <2>3 DEF Good
  <2>5. Keeps(m, m, AllocOf(m, B)) /\ BlockSize(m, bp) >= BlockSize(m, bp)
    BY <1>1, <1>2 DEF Keeps
  <2>6. Coalesced(m, b, B, bp, r, B)
    BY <1>1, <2>2, <2>4, <2>5 DEF Coalesced
  <2> QED BY <2>6 DEF r
<1>16. CASE first # last
  <2> DEFINE B2 == Merged(B, first, hi)
  <2>1. hi \in B \cup {b} /\ hi \in Nat /\ last < hi /\ hi = last + BlockSize(m, last)
        /\ last + BlockSize(m, last) - first = hi - first /\ BlockSize(m, last) \in Nat
    <3>1. last \in Nat /\ BlockSize(m, last) \in Nat /\ BlockSize(m, last) >= 16
          /\ hi = last + BlockSize(m, last) /\ hi \in B \cup {b}
      BY <1>2, <1>10
    <3> HIDE DEF hi
    <3> QED BY <1>9, <3>1
  <2>2. t = Tag(m2, first, hi - first, 0) /\ hi = NextBlock(m2, last)
    <3>1. BlockSize(m2, last) = BlockSize(m, last) /\ NextBlock(m2, last) = hi
      BY <1>10, <1>13 DEF SameBlocks
    <3>2. t = Tag(m2, first, last + BlockSize(m, last) - first, 0)
      BY <1>13, <1>10 DEF SameBlocks
    <3> HIDE DEF t, hi
    <3> QED BY <2>1, <3>1, <3>2
  <2> HIDE DEF t, F1, F2
  <2>3. r = [mem |-> t, bp |-> first]
    BY <1>6, <1>16
  <2>4. ASSUME NEW c \in B, first < c, c < hi
        PROVE  (c = bp /\ IsFree(m, prev)) \/ (c = next /\ IsFree(m, next))
    <3>1. c \in Nat /\ bp \in Nat
      BY <1>1, <1>2
    <3>2. CASE c < bp
      <4>1. first = prev /\ IsFree(m, prev)
        BY <1>7, <1>9, <2>4, <3>1, <3>2
      <4>2. NextBlock(m, prev) <= c
        BY <1>1, <1>4, <2>4, <4>1 DEF Tiled
      <4> QED BY <1>4, <3>1, <3>2, <4>1, <4>2
    <3>3. CASE c = bp
      BY <1>7, <1>9, <2>4, <3>1, <3>3
    <3>4. CASE bp < c
      <4>1. next <= c
        BY <1>1, <3>4 DEF Tiled, next
      <4>2. last = next
        BY <1>10, <2>4, <3>1, <4>1, <1>5 DEF next
      <4>3. next < c => hi <= c
        BY <1>1, <1>10, <4>2 DEF Tiled
      <4> QED BY <1>5, <1>8, <2>1, <2>4, <3>1, <4>1, <4>2, <4>3
    <3> QED BY <3>1, <3>2, <3>3, <3>4
  <2>5. F2 \in SUBSET B2
    <3> SUFFICES ASSUME NEW f \in F2 PROVE f \in B2
      OBVIOUS
    <3>1. f \in B /\ f \in Nat
      BY <1>2, <1>11 DEF F2, F1
    <3>2. ~(first < f /\ f < hi)
      BY <2>4, <3>1 DEF F2, F1
    <3> QED BY <1>9, <2>1, <3>1, <3>2 DEF Merged
  <2>6. first <= last
    BY <1>1, <1>2, <1>9, <1>10
  <2>7. /\ Tiled(t, b, B2) /\ Linked(t, F2) /\ first \in B2
        /\ BlockSize(t, first) = hi - first /\ NextBlock(t, first) = hi
        /\ IsFree(t, first)
        /\ SameBlocks(m2, t, B2 \ {first})
        /\ Keeps(m2, t, B2 \ {first})
    <3>1. MayMerge(m2, b, B, first, last, F2) /\ 0 \in {0, 1}
      BY <1>9, <1>10, <1>13, <2>2, <2>5, <2>6 DEF MayMerge
    <3> HIDE DEF hi, B2
    <3>2. IsMerged(m2, b, B, first, hi, F2, 0, t)
      BY <2>2, <3>1, MergeTags
    <3> QED BY <3>2 DEF IsMerged, B2
  <2>8. B2 \in SUBSET B
    BY DEF Merged
  <2>9. \A c \in B2 \ {first} : /\ NextBlock(t, c) = NextBlock(m, c) /\ c \in B
                                /\ IsFree(t, c) <=> IsFree(m, c)
    <3> HIDE DEF B2
    <3> QED BY <1>13, <2>7, <2>8 DEF SameBlocks
  <2>10. ASSUME NEW c \in B, c \notin B2 PROVE IsFree(m, c)
    <3>1. first < c /\ c < hi
      BY <1>2, <1>9, <2>1, <2>10 DEF Merged
    <3> QED BY <1>1, <2>4, <3>1
  <2>11. AllocOf(t, B2) = AllocOf(m, B) /\ AllocOf(m, B) \in SUBSET (B2 \ {first})
    <3>1. IsFree(m, first)
      BY <1>9 DEF FreeOf
    <3> HIDE DEF B2
    <3> QED BY <2>7, <2>8, <2>9, <2>10, <3>1 DEF AllocOf
  <2>12. FreeOf(t, B2) = F2
    <3>1. ASSUME NEW c \in B2, IsFree(t, c) PROVE c \in F2
      <4>1. c \in F
        BY <1>9, <2>8, <2>9, <3>1 DEF FreeOf
      <4>2. c <= first \/ hi <= c
        BY DEF Merged
      <4>3. ASSUME IsFree(m, prev) PROVE c # bp
        <5>1. first = prev /\ prev < bp /\ bp <= last /\ bp \in Nat
          BY <1>1, <1>2, <1>4, <1>7, <1>10, <4>3
        <5> QED BY <1>9, <1>10, <2>1, <4>2, <5>1
      <4>4. ASSUME IsFree(m, next) PROVE c # next
        <5>1. last = next /\ first <= bp /\ bp < next /\ bp \in Nat
          BY <1>1, <1>2, <1>5, <1>8, <1>9, <4>4
        <5> QED BY <1>9, <1>10, <2>1, <4>2, <5>1
      <4> QED BY <4>1, <4>3, <4>4 DEF F2, F1
    <3>2. ASSUME NEW c \in F2 PROVE IsFree(t, c)
      <4>1. c \in B2 /\ IsFree(m, c)
        BY <2>5, <1>11 DEF F2, F1, FreeOf
      <4> HIDE DEF B2
      <4> QED BY <2>7, <2>9, <4>1
    <3> QED BY <2>5, <3>1, <3>2 DEF FreeOf
  <2>13. ASSUME NEW c \in B2, IsFree(t, c) PROVE ~IsFree(t, NextBlock(t, c))
    <3>1. b \notin B2 /\ ~IsFree(t, b)
      BY <2>7, BreakIs
    <3>2. CASE c = first
      <4>1. NextBlock(t, c) = hi /\ first < hi
        BY <1>2, <1>9, <1>10, <2>1, <2>6, <2>7, <3>2
      <4>2. hi \in B => hi \in B2 \ {first}
        BY <1>2, <1>9, <2>1, <4>1 DEF Merged
      <4>3. ~IsFree(m, hi)
        <5>1. CASE last = next
          <6>1. NextBlock(m, last) # bp /\ last # bp /\ IsFree(m, last)
            BY <1>2, <1>5, <1>8, <1>10, <2>1, <5>1
          <6> QED BY <1>1, <1>10, <6>1
        <5>2. CASE last = bp /\ last # next
          BY <1>8, <5>2 DEF next
        <5> QED BY <1>10, <5>1, <5>2
      <4> HIDE DEF B2
      <4> QED BY <2>1, <2>9, <3>1, <4>1, <4>2, <4>3
    <3>3. CASE c # first
      <4> DEFINE d == NextBlock(m, c)
      <4>1. NextBlock(t, c) = d /\ IsFree(m, c) /\ c \in B /\ d \in B \cup {b}
        BY <1>2, <2>9, <3>3, <2>13
      <4>2. c # bp /\ d # bp
        <5>1. c # bp
          <6>1. c <= first \/ hi <= c
            BY DEF Merged
          <6>2. bp < hi /\ first <= bp
            BY <1>2, <1>9, <1>10, <2>1, <1>1
          <6> QED BY <1>1, <1>2, <1>9, <2>1, <3>3, <4>1, <6>1, <6>2
        <5>2. ASSUME d = bp PROVE FALSE
          <6>1. bp # FirstBlock
            BY <1>2, <4>1, <5>2, HeapSizes
          <6>2. prev \in B /\ NextBlock(m, prev) = bp
            BY <1>1, <6>1, PrevIs DEF prev
          <6>3. c = prev
            <7>1. c # prev => c + BlockSize(m, c) <= prev \/ prev + BlockSize(m, prev) <= c
              BY <1>1, <4>1, <6>2, Apart
            <7> QED BY <1>2, <4>1, <5>2, <6>2, <7>1
          <6> QED BY <1>7, <3>3, <4>1, <6>3
        <5> QED BY <5>1, <5>2
      <4>3. ~IsFree(m, d)
        BY <1>1, <4>1, <4>2
      <4>4. d \in B => d \in B2
        BY <2>10, <4>3
      <4>5. d # first
        BY <1>9, <4>3 DEF FreeOf
      <4> HIDE DEF B2, d
      <4> QED BY <2>9, <3>1, <4>1, <4>3, <4>4, <4>5
    <3> QED BY <3>2, <3>3
  <2>14. Good(t, b, B2)
    <3> HIDE DEF B2
    <3> QED BY <2>7, <2>12, <2>13 DEF Good, NoTwoFree
  <2>15. Keeps(m, t, AllocOf(m, B))
    <3> HIDE DEF B2
    <3>1. Keeps(m2, t, AllocOf(m, B))
      BY <2>7, <2>11, KeepsFewer
    <3>2. Keeps(m, m2, AllocOf(m, B))
      BY <1>13, <1>14
    <3> QED BY <3>1, <3>2, KeepsChain
  <2>16. BlockSize(t, first) >= BlockSize(m, bp)
    <3>1. bp + BlockSize(m, bp) <= hi
      <4>1. last # bp => next <= last
        BY <1>10, <1>5
      <4> QED BY <1>1, <1>2, <1>5, <1>10, <2>1, <4>1 DEF next
    <3> QED BY <1>1, <1>2, <1>9, <2>1, <2>7, <3>1
  <2>17. Coalesced(m, b, B, bp, r, B2)
    <3>1. first \in FreeOf(t, B2)
      BY <2>7 DEF FreeOf
    <3> HIDE DEF B2
    <3> QED BY <2>3, <2>11, <2>14, <2>15, <2>16, <3>1 DEF Coalesced
  <2> QED BY <2>17 DEF r
<1> QED BY <1>15, <1>16

(***************************************************************************)
(* mm_free: the block is tagged free, listed and coalesced.                *)
(***************************************************************************)
Leaves(m, A, m2, b2, B2) ==
    Good(m2, b2, B2) /\ AllocOf(m2, B2) = A /\ Keeps(m, m2, A)

\* A block alone gives way to one of its size.
LEMMA MergedAlone ==
    ASSUME NEW m, NEW b, NEW B, Tiled(m, b, B), NEW c \in B
    PROVE  Merged(B, c, NextBlock(m, c)) = B /\ NextBlock(m, c) - c = BlockSize(m, c)
<1>1. c \in Nat /\ BlockSize(m, c) \in Nat /\ NextBlock(m, c) = c + BlockSize(m, c)
  BY BlockIs, PlacedWords
<1>2. ASSUME NEW d \in B PROVE d <= c \/ NextBlock(m, c) <= d
  <2>1. d \in Nat
    BY BlockIs, PlacedWords
  <2>2. c < d => NextBlock(m, c) <= d
    BY DEF Tiled
  <2> QED BY <1>1, <2>1, <2>2
<1>3. Merged(B, c, NextBlock(m, c)) = B
  BY <1>2 DEF Merged
<1>4. NextBlock(m, c) - c = BlockSize(m, c)
  BY <1>1
<1> QED BY <1>3, <1>4

LEMMA FreeWorks ==
    ASSUME NEW m, NEW b, NEW B, Good(m, b, B), NEW bp \in AllocOf(m, B)
    PROVE  \E B2 : Leaves(m, AllocOf(m, B) \ {bp}, mm_free(m, bp), b, B2)
<1> DEFINE F == FreeOf(m, B)
           A == AllocOf(m, B) \ {bp}
           hi == NextBlock(m, bp)
           t == Tag(m, bp, BlockSize(m, bp), 0)
           i == InsertNode(t, bp)
           r == coalesce(i, bp)
<1>1. Tiled(m, b, B) /\ Linked(m, F) /\ NoTwoFree(m, B)
  BY DEF Good
<1>2. bp \in B /\ ~IsFree(m, bp) /\ bp \notin F /\ F \subseteq B /\ A \subseteq B
  BY DEF AllocOf, FreeOf
<1>3. Merged(B, bp, hi) = B /\ hi - bp = BlockSize(m, bp)
  BY <1>1, <1>2, MergedAlone
<1>4. bp \in Nat
  BY <1>1, <1>2, BlockIs, PlacedWords
<1>5. MayMerge(m, b, B, bp, bp, F) /\ t = Tag(m, bp, hi - bp, 0)
  BY <1>1, <1>2, <1>3, <1>4 DEF MayMerge
<1> HIDE DEF t, F, A, r
<1>6. IsMerged(m, b, B, bp, hi, F, 0, t)
  BY <1>5, MergeTags
<1>7. /\ Tiled(t, b, B) /\ Linked(t, F) /\ IsFree(t, bp)
      /\ SameBlocks(m, t, B \ {bp}) /\ Keeps(m, t, B \ {bp})
  BY <1>3, <1>6 DEF IsMerged
<1> HIDE DEF hi, i
<1>8. Tiled(i, b, B) /\ Linked(i, F \cup {bp}) /\ SameBlocks(t, i, B)
  BY <1>2, <1>7, PutOn DEF i
<1>9. Keeps(t, i, B \ (F \cup {bp}))
  BY <1>2, <1>7, PutOn DEF i
<1>10. A = B \ (F \cup {bp}) /\ A \subseteq B \ {bp}
  BY DEF A, F, AllocOf, FreeOf
<1>11. Keeps(m, i, A)
  <2>1. Keeps(m, t, A) /\ Keeps(t, i, A)
    BY <1>7, <1>9, <1>10, KeepsFewer
  <2> QED BY <2>1, KeepsChain
<1>12. \A c \in B \ {bp} : NextBlock(i, c) = NextBlock(m, c) /\ (IsFree(i, c) <=> IsFree(m, c))
  BY <1>7, <1>8 DEF SameBlocks
<1>13. IsFree(i, bp)
  BY <1>2, <1>7, <1>8 DEF SameBlocks
<1>14. FreeOf(i, B) = F \cup {bp} /\ AllocOf(i, B) = A
  BY <1>2, <1>12, <1>13 DEF FreeOf, AllocOf, F, A
<1>15. ASSUME NEW c \in B \ {bp}, IsFree(i, c), NextBlock(i, c) # bp
       PROVE  ~IsFree(i, NextBlock(i, c))
  <2>1. NextBlock(i, c) = NextBlock(m, c) /\ ~IsFree(m, NextBlock(m, c))
    BY <1>1, <1>12, <1>15 DEF NoTwoFree
  <2>2. NextBlock(m, c) \in B \cup {b}
    BY <1>1, BlockIs
  <2>3. ~IsFree(i, b)
    BY <1>8, BreakIs
  <2> QED BY <1>12, <1>15, <2>1, <2>2, <2>3
<1>16. MayCoalesce(i, b, B, bp)
  <2>1. bp \in FreeOf(i, B) /\ Linked(i, FreeOf(i, B))
    BY <1>8, <1>14
  <2> QED BY <1>8, <1>15, <2>1 DEF MayCoalesce
<1>17. PICK B2 : Coalesced(i, b, B, bp, r, B2)
  BY <1>16, CoalesceWorks DEF r
<1>18. Good(r.mem, b, B2) /\ AllocOf(r.mem, B2) = A /\ Keeps(i, r.mem, A)
  BY <1>14, <1>17 DEF Coalesced
<1>19. Keeps(m, r.mem, A)
  BY <1>11, <1>18, KeepsChain
<1>20. mm_free(m, bp) = r.mem
  BY DEF mm_free, r, i, t
<1> QED BY <1>18, <1>19, <1>20 DEF Leaves, A

(***************************************************************************)
(* extend_heap: the new block is listed and merged with what is before it. *)
(***************************************************************************)
LEMMA ExtendWorks ==
    ASSUME NEW m, NEW b, NEW B, Good(m, b, B), NEW s, Mult8(s), s >= 16,
           b + s <= Base + MaxHeap
    PROVE  \E B2 : /\ Leaves(m, AllocOf(m, B), Extend(m, b, s).mem, b + s, B2)
                   /\ Extend(m, b, s).bp \in FreeOf(Extend(m, b, s).mem, B2)
                   /\ BlockSize(Extend(m, b, s).mem, Extend(m, b, s).bp) >= s
<1> DEFINE F == FreeOf(m, B)
           A == AllocOf(m, B)
           C == B \cup {b}
           t == Grown(m, b, s)
           i == InsertNode(t, b)
           r == coalesce(i, b)
<1>1. Tiled(m, b, B) /\ Linked(m, F) /\ NoTwoFree(m, B)
  BY DEF Good
<1>2. b \notin B /\ F \subseteq B /\ A \subseteq B
  BY <1>1, BreakIs DEF AllocOf, FreeOf
<1>3. MayGrow(m, b, B, s, F)
  BY <1>1, <1>2 DEF MayGrow
<1>4. Extend(m, b, s) = r
  BY DEF Extend, Grown
<1> HIDE DEF F, A, t, r
<1>5. IsGrown(m, b, B, s, F, t)
  BY <1>3, GrowTags DEF t
<1>6. /\ Tiled(t, b + s, C) /\ Linked(t, F) /\ IsFree(t, b) /\ BlockSize(t, b) = s
      /\ NextBlock(t, b) = b + s
      /\ SameBlocks(m, t, B) /\ Keeps(m, t, B)
  BY <1>5 DEF IsGrown
<1>7. b \in C /\ b \notin F /\ F \subseteq C
  BY <1>2
<1> HIDE DEF i, C
<1>8. Tiled(i, b + s, C) /\ Linked(i, F \cup {b}) /\ SameBlocks(t, i, C)
  BY <1>6, <1>7, PutOn DEF i
<1>9. Keeps(t, i, C \ (F \cup {b}))
  BY <1>6, <1>7, PutOn DEF i
<1>10. A = C \ (F \cup {b})
  BY <1>2 DEF A, F, C, AllocOf, FreeOf
<1>11. Keeps(m, i, A)
  <2>1. Keeps(m, t, A) /\ Keeps(t, i, A)
    BY <1>2, <1>6, <1>9, <1>10, KeepsFewer
  <2> QED BY <2>1, KeepsChain
<1>12. \A c \in B : NextBlock(i, c) = NextBlock(m, c) /\ (IsFree(i, c) <=> IsFree(m, c))
  BY <1>6, <1>8 DEF SameBlocks, C
<1>13. IsFree(i, b) /\ BlockSize(i, b) = s
  BY <1>6, <1>7, <1>8 DEF SameBlocks
<1>14. FreeOf(i, C) = F \cup {b} /\ AllocOf(i, C) = A
  BY <1>2, <1>12, <1>13 DEF FreeOf, AllocOf, F, A, C
<1>15. ASSUME NEW c \in C \ {b}, IsFree(i, c), NextBlock(i, c) # b
       PROVE  ~IsFree(i, NextBlock(i, c))
  <2>1. c \in B
    BY DEF C
  <2>2. NextBlock(i, c) = NextBlock(m, c) /\ ~IsFree(m, NextBlock(m, c))
    BY <1>1, <1>12, <1>15, <2>1 DEF NoTwoFree
  <2>3. NextBlock(m, c) \in B \cup {b}
    BY <1>1, <2>1, BlockIs
  <2> QED BY <1>12, <1>15, <2>2, <2>3
<1>16. MayCoalesce(i, b + s, C, b)
  <2>1. b \in FreeOf(i, C) /\ Linked(i, FreeOf(i, C))
    BY <1>8, <1>14
  <2> QED BY <1>8, <1>15, <2>1 DEF MayCoalesce
<1>17. PICK B2 : Coalesced(i, b + s, C, b, r, B2)
  BY <1>16, CoalesceWorks DEF r
<1>18. /\ Good(r.mem, b + s, B2) /\ AllocOf(r.mem, B2) = A /\ Keeps(i, r.mem, A)
       /\ r.bp \in FreeOf(r.mem, B2) /\ BlockSize(r.mem, r.bp) >= s
  BY <1>13, <1>14, <1>17 DEF Coalesced
<1>19. Keeps(m, r.mem, A)
  BY <1>11, <1>18, KeepsChain
<1>20. Leaves(m, A, r.mem, b + s, B2)
  BY <1>18, <1>19 DEF Leaves
<1> QED BY <1>4, <1>18, <1>20 DEF A

(***************************************************************************)
(* place: a listed block becomes allocated, split if the rest can be one.  *)
(***************************************************************************)
LEMMA PlaceWorks ==
    ASSUME NEW m, NEW b, NEW B, Good(m, b, B), NEW bp \in FreeOf(m, B),
           NEW a, Mult8(a), a >= 16, BlockSize(m, bp) >= a
    PROVE  \E B2 : /\ Good(place(m, bp, a), b, B2)
                   /\ AllocOf(place(m, bp, a), B2) = AllocOf(m, B) \cup {bp}
                   /\ Keeps(m, place(m, bp, a), AllocOf(m, B))
                   /\ BlockSize(place(m, bp, a), bp) >= a
<1> DEFINE F == FreeOf(m, B)
           F1 == F \ {bp}
           A == AllocOf(m, B)
           s == BlockSize(m, bp)
           hi == NextBlock(m, bp)
           m1 == RemoveNode(m, bp)
           p == place(m, bp, a)
<1>1. Tiled(m, b, B) /\ Linked(m, F) /\ NoTwoFree(m, B)
  BY DEF Good
<1>2. bp \in B /\ IsFree(m, bp) /\ bp \in F /\ F \subseteq B /\ A = B \ F /\ A \subseteq B \ {bp}
  BY DEF AllocOf, FreeOf
<1>3. \A c \in B : c \in Nat /\ BlockSize(m, c) \in Nat /\ NextBlock(m, c) \in B \cup {b}
                   /\ NextBlock(m, c) = c + BlockSize(m, c)
  BY <1>1, BlockIs, PlacedWords
<1>4. a \in Nat
  BY DEF Mult8
<1>5. p = IF s - a >= 16
          THEN InsertNode(Tag(Tag(m1, bp, a, 1), bp + a, s - a, 0), bp + a)
          ELSE Tag(m1, bp, s, 1)
  BY DEF place
<1> HIDE DEF F, A, m1, p
<1>6. Tiled(m1, b, B) /\ Linked(m1, F1) /\ SameBlocks(m, m1, B)
  BY <1>1, <1>2, TakeOff DEF m1
<1>7. Keeps(m, m1, A)
  BY <1>1, <1>2, TakeOff DEF m1
<1>8. BlockSize(m1, bp) = s /\ NextBlock(m1, bp) = hi
  BY <1>2, <1>6 DEF SameBlocks
<1>9. \A c \in B \ {bp} : c \in FreeOf(m, B) <=> c \in F1
  BY DEF F
<1>10. s \in Nat /\ s >= a /\ hi \in B \cup {b} /\ ~IsFree(m, hi)
  BY <1>1, <1>2, <1>3 DEF NoTwoFree
<1> HIDE DEF s, hi
<1>11. CASE s - a >= 16
  <2> DEFINE rest == bp + a
             C == B \cup {rest}
             t == Tag(Tag(m1, bp, a, 1), rest, s - a, 0)
  <2>1. MaySplit(m1, b, B, bp, a, F1)
    BY <1>2, <1>6, <1>8, <1>11 DEF MaySplit
  <2>2. t = Tag(Tag(m1, bp, a, 1), bp + a, BlockSize(m1, bp) - a, 0)
    BY <1>8
  <2> HIDE DEF t
  <2>3. IsSplit(m1, b, B, bp, a, F1, t)
    BY <2>1, <2>2, SplitTags
  <2>4. /\ Tiled(t, b, C) /\ Linked(t, F1) /\ rest \notin B
        /\ BlockSize(t, bp) = a /\ NextBlock(t, bp) = rest /\ ~IsFree(t, bp)
        /\ NextBlock(t, rest) = hi /\ IsFree(t, rest)
        /\ SameBlocks(m1, t, B \ {bp}) /\ Keeps(m1, t, B \ {bp})
    BY <1>8, <2>3 DEF IsSplit
  <2>5. p = InsertNode(t, rest)
    BY <1>5, <1>11 DEF t
  <2>6. rest \in C \ F1 /\ F1 \subseteq C
    BY <1>2, <2>4
  <2> HIDE DEF rest, C
  <2>7. Tiled(p, b, C) /\ Linked(p, F1 \cup {rest}) /\ SameBlocks(t, p, C)
    BY <2>4, <2>5, <2>6, PutOn
  <2>8. Keeps(t, p, C \ (F1 \cup {rest}))
    BY <2>4, <2>5, <2>6, PutOn
  <2>9. \A c \in B \ {bp} : /\ c \in C /\ NextBlock(p, c) = NextBlock(m, c)
                            /\ IsFree(p, c) <=> IsFree(m, c)
    BY <1>6, <2>4, <2>7 DEF SameBlocks, C
  <2>10. /\ bp \in C /\ rest \in C /\ rest # bp
         /\ ~IsFree(p, bp) /\ IsFree(p, rest) /\ NextBlock(p, rest) = hi /\ BlockSize(p, bp) = a
         /\ NextBlock(p, bp) = rest
    BY <1>2, <2>4, <2>7 DEF SameBlocks, C
  <2>11. C = (B \ {bp}) \cup {bp, rest}
    BY <1>2 DEF C
  <2>12. FreeOf(p, C) = F1 \cup {rest} /\ AllocOf(p, C) = A \cup {bp}
    BY <1>2, <2>4, <2>9, <2>10, <2>11 DEF FreeOf, AllocOf, F, A
  <2>13. A \subseteq C \ (F1 \cup {rest})
    BY <1>2, <2>4, <2>11
  <2>14. Keeps(m, p, A)
    <3>1. Keeps(m1, t, A) /\ Keeps(t, p, A)
      BY <1>2, <2>4, <2>8, <2>13, KeepsFewer
    <3>2. Keeps(m, t, A)
      BY <1>7, <3>1, KeepsChain
    <3> QED BY <3>1, <3>2, KeepsChain
  <2>15. ASSUME NEW c \in C, IsFree(p, c) PROVE ~IsFree(p, NextBlock(p, c))
    <3>1. ~IsFree(p, b)
      BY <2>7, BreakIs
    <3>2. CASE c = rest
      <4>1. hi # bp => hi \in B \ {bp} \/ hi = b
        BY <1>10
      <4> QED BY <1>10, <2>9, <2>10, <3>1, <3>2, <4>1
    <3>3. CASE c \in B \ {bp}
      <4>1. NextBlock(p, c) = NextBlock(m, c) /\ ~IsFree(m, NextBlock(m, c))
            /\ NextBlock(m, c) \in B \cup {b}
        BY <1>1, <1>3, <2>9, <2>15, <3>3 DEF NoTwoFree
      <4> QED BY <2>9, <2>10, <3>1, <4>1
    <3> QED BY <2>10, <2>11, <2>15, <3>2, <3>3
  <2>16. Good(p, b, C)
    BY <2>7, <2>12, <2>15 DEF Good, NoTwoFree
  <2>17. BlockSize(p, bp) >= a
    BY <1>4, <2>10
  <2> QED BY <2>12, <2>14, <2>16, <2>17 DEF p, A
<1>12. CASE ~(s - a >= 16)
  <2>1. Merged(B, bp, hi) = B /\ hi - bp = s
    BY <1>1, <1>2, MergedAlone DEF hi, s
  <2>2. p = Tag(m1, bp, hi - bp, 1)
    BY <1>5, <1>12, <2>1
  <2>3. MayMerge(m1, b, B, bp, bp, F1)
    <3>1. Merged(B, bp, NextBlock(m1, bp)) = B
      BY <1>8, <2>1
    <3>2. bp <= bp
      BY <1>2, <1>3
    <3> QED BY <1>2, <1>6, <3>1, <3>2 DEF MayMerge
  <2>4. IsMerged(m1, b, B, bp, hi, F1, 1, p)
    BY <1>8, <2>2, <2>3, MergeTags
  <2>5. /\ Tiled(p, b, B) /\ Linked(p, F1) /\ ~IsFree(p, bp) /\ BlockSize(p, bp) = s
        /\ SameBlocks(m1, p, B \ {bp}) /\ Keeps(m1, p, B \ {bp})
    BY <2>1, <2>4 DEF IsMerged
  <2>6. \A c \in B \ {bp} : /\ NextBlock(p, c) = NextBlock(m, c)
                            /\ IsFree(p, c) <=> IsFree(m, c)
    BY <1>6, <2>5 DEF SameBlocks
  <2>7. FreeOf(p, B) = F1 /\ AllocOf(p, B) = A \cup {bp}
    BY <1>2, <2>5, <2>6 DEF FreeOf, AllocOf, F, A
  <2>8. Keeps(m, p, A)
    <3>1. Keeps(m1, p, A)
      BY <1>2, <2>5, KeepsFewer
    <3> QED BY <1>7, <3>1, KeepsChain
  <2>9. ASSUME NEW c \in B, IsFree(p, c) PROVE ~IsFree(p, NextBlock(p, c))
    <3>1. ~IsFree(p, b)
      BY <2>5, BreakIs
    <3>2. NextBlock(p, c) = NextBlock(m, c) /\ ~IsFree(m, NextBlock(m, c))
          /\ NextBlock(m, c) \in B \cup {b}
      BY <1>1, <1>3, <2>5, <2>6, <2>9 DEF NoTwoFree
    <3> QED BY <2>5, <2>6, <3>1, <3>2
  <2>10. Good(p, b, B)
    BY <2>5, <2>7, <2>9 DEF Good, NoTwoFree
  <2>11. BlockSize(p, bp) >= a
    BY <1>10, <2>5
  <2> QED BY <2>7, <2>8, <2>10, <2>11 DEF p, A
<1> QED BY <1>11, <1>12

(***************************************************************************)
(* Walking the free list from its head meets its nodes in order, then the  *)
(* tail.  The walk is long enough: its nodes are multiples of 8 in the     *)
(* heap, each met once.                                                    *)
(***************************************************************************)
LEMMA LeastNatural ==
    ASSUME NEW S \in SUBSET Nat, S # {}
    PROVE  \E x \in S : \A y \in S : x <= y
<1>1. IsWellFoundedOn(OpToRel(<, Nat), Nat)
  BY NatLessThanWellFounded
<1>2. PICK x \in S : \A y \in S : ~ (<<y, x>> \in OpToRel(<, Nat))
  <2> HIDE DEF IsWellFoundedOn, OpToRel
  <2> QED BY <1>1, WFMin
<1>3. \A y \in S : ~ (y < x)
  BY <1>2 DEF OpToRel
<1> QED BY <1>3

\* The step of a walk.
WalkFrom(m, g) ==
    [k \in 0 .. MaxHeap \div 8 |->
        IF k = 0 THEN NextNode(m, head)
        ELSE LET p == g[k - 1] IN IF p = tail THEN tail ELSE NextNode(m, p)]

LEMMA WalkSteps ==
    ASSUME NEW m, NEW f, f = WalkFrom(m, f)
    PROVE  Walk(m) = f
<1>1. Walk(m) = CHOOSE g : g = WalkFrom(m, g)
  BY DEF Walk, WalkFrom
<1>2. Walk(m) = WalkFrom(m, Walk(m))
  BY <1>1, Zenon
<1>3. MaxHeap \div 8 \in Nat
  BY HeapSizes DEF Mult8
<1> DEFINE N == MaxHeap \div 8
           w == Walk(m)
           Bad == {k \in 0 .. N : w[k] # f[k]}
<1>4. /\ w[0] = f[0]
      /\ \A k \in 1 .. N : w[k - 1] = f[k - 1] => w[k] = f[k]
  <2>1. \A g : g = WalkFrom(m, g) =>
           /\ g[0] = NextNode(m, head)
           /\ \A k \in 1 .. N : g[k] = IF g[k - 1] = tail THEN tail ELSE NextNode(m, g[k - 1])
    <3> SUFFICES ASSUME NEW g, g = WalkFrom(m, g)
                 PROVE  /\ g[0] = NextNode(m, head)
                        /\ \A k \in 1 .. N :
                              g[k] = IF g[k - 1] = tail THEN tail ELSE NextNode(m, g[k - 1])
      OBVIOUS
    <3>1. 0 \in 0 .. N /\ \A k \in 1 .. N : k \in 0 .. N /\ k # 0
      BY <1>3
    <3>2. \A k \in 0 .. N : WalkFrom(m, g)[k] =
             IF k = 0 THEN NextNode(m, head)
             ELSE IF g[k - 1] = tail THEN tail ELSE NextNode(m, g[k - 1])
      BY DEF WalkFrom
    <3> QED BY <3>1, <3>2
  <2>2. /\ w[0] = NextNode(m, head)
        /\ \A k \in 1 .. N : w[k] = IF w[k - 1] = tail THEN tail ELSE NextNode(m, w[k - 1])
    BY <1>2, <2>1
  <2>3. /\ f[0] = NextNode(m, head)
        /\ \A k \in 1 .. N : f[k] = IF f[k - 1] = tail THEN tail ELSE NextNode(m, f[k - 1])
    BY <2>1
  <2> HIDE DEF w, N
  <2> QED BY <2>2, <2>3
<1> HIDE DEF N, w
<1>5. ASSUME Bad # {} PROVE FALSE
  <2>1. PICK x \in Bad : \A y \in Bad : x <= y
    <3>1. Bad \in SUBSET Nat
      BY <1>3 DEF N
    <3> HIDE DEF Bad
    <3> QED BY <1>5, <3>1, LeastNatural
  <2>2. x \in 1 .. N /\ x - 1 \in 0 .. N
    BY <1>3, <1>4 DEF N
  <2>3. x - 1 \notin Bad
    BY <2>1, <2>2
  <2> QED BY <1>4, <2>2, <2>3
<1>6. DOMAIN w = 0 .. N /\ w = [k \in 0 .. N |-> w[k]]
  <2>1. DOMAIN WalkFrom(m, Walk(m)) = 0 .. N
    BY DEF WalkFrom, N
  <2>2. WalkFrom(m, Walk(m)) = [k \in 0 .. N |-> WalkFrom(m, Walk(m))[k]]
    BY DEF WalkFrom, N
  <2> QED BY <1>2, <2>1, <2>2 DEF w
<1>7. f = [k \in 0 .. N |-> f[k]]
  <2>1. WalkFrom(m, f) = [k \in 0 .. N |-> WalkFrom(m, f)[k]]
    BY DEF WalkFrom, N
  <2> QED BY <2>1
<1>8. \A k \in 0 .. N : w[k] = f[k]
  BY <1>5
<1>9. w = f
  BY <1>6, <1>7, <1>8
<1> QED BY <1>9 DEF w

LEMMA WalkIs ==
    ASSUME NEW m, NEW F, Linked(m, F)
    PROVE  \E n \in Nat : \E G \in [0 .. n + 1 -> Words] :
              /\ LinkedBy(m, F, n, G) /\ n + 2 <= MaxHeap \div 8
              /\ Walk(m) = [k \in 0 .. MaxHeap \div 8 |-> IF k <= n THEN G[k + 1] ELSE tail]
<1> PICK n \in Nat : \E G \in [0 .. n + 1 -> Words] : LinkedBy(m, F, n, G)
  BY DEF Linked
<1> PICK G \in [0 .. n + 1 -> Words] : LinkedBy(m, F, n, G)
  OBVIOUS
<1> DEFINE N == MaxHeap \div 8
           f == [k \in 0 .. N |-> IF k <= n THEN G[k + 1] ELSE tail]
<1>1. N \in Nat /\ MaxHeap \in Nat /\ MaxHeap % 8 = 0 /\ MaxHeap = 8 * N
  <2>1. MaxHeap \in Nat /\ MaxHeap % 8 = 0
    BY HeapSizes DEF Mult8
  <2> QED BY <2>1, SMTT(20)
<1>2. /\ \A j, k \in 0 .. n + 1 : G[j] = G[k] => j = k
      /\ \A j \in 0 .. n : m[G[j] + 4] = G[j + 1] /\ m[G[j + 1]] = G[j]
      /\ G[0] = head /\ G[n + 1] = tail
  BY DEF LinkedBy
<1>3. n + 2 <= N
  <2> DEFINE h == [k \in 0 .. n + 1 |-> (G[k] - 8) \div 8]
             S == 0 .. n + 1
             T == 0 .. N - 1
  <2>1. \A k \in S : /\ G[k] \in Nat /\ G[k] % 8 = 0 /\ 8 <= G[k] /\ G[k] < 8 + 8 * N
    <3>1. \A k \in S : G[k] \in Nat /\ G[k] % 8 = 0
      BY ListedWords DEF Linked
    <3> QED BY <1>1, <3>1, WordsAre
  <2>2. \A x \in Nat : x % 8 = 0 /\ 8 <= x /\ x < 8 + 8 * N =>
           (x - 8) \div 8 \in T /\ x = 8 + 8 * ((x - 8) \div 8)
    BY <1>1, SMTT(20)
  <2>3. h \in [S -> T]
    BY <2>1, <2>2
  <2>4. IsFiniteSet(S) /\ Cardinality(S) = n + 2
    <3>1. 0 \in Int /\ n + 1 \in Int /\ (n + 1) - 0 + 1 = n + 2 /\ ~(0 > n + 1)
      OBVIOUS
    <3> QED BY <3>1, FS_Interval
  <2>5. IsFiniteSet(T) /\ Cardinality(T) = N
    <3>1. 0 \in Int /\ N - 1 \in Int
      BY <1>1
    <3>2. IF 0 > N - 1 THEN N = 0 ELSE (N - 1) - 0 + 1 = N
      BY <1>1
    <3> HIDE DEF N
    <3> QED BY <3>1, <3>2, FS_Interval
  <2>6. \A x, y \in S : h[x] = h[y] => x = y
    <3> SUFFICES ASSUME NEW x \in S, NEW y \in S, h[x] = h[y] PROVE x = y
      OBVIOUS
    <3>1. (G[x] - 8) \div 8 = (G[y] - 8) \div 8
      OBVIOUS
    <3>2. G[x] = 8 + 8 * ((G[x] - 8) \div 8) /\ G[y] = 8 + 8 * ((G[y] - 8) \div 8)
      BY <2>1, <2>2
    <3>3. G[x] = G[y]
      BY <3>1, <3>2, Zenon
    <3> QED BY <1>2, <3>3
  <2> HIDE DEF h, S, T, N
  <2>7. ~(Cardinality(T) < Cardinality(S))
    BY <2>3, <2>4, <2>5, <2>6, FS_PigeonHole
  <2> QED BY <1>1, <2>4, <2>5, <2>7
<1>4. f = WalkFrom(m, f)
  <2>1. ASSUME NEW k \in 0 .. N
        PROVE  f[k] = IF k = 0 THEN NextNode(m, head)
                      ELSE IF f[k - 1] = tail THEN tail ELSE NextNode(m, f[k - 1])
    <3> DEFINE x == G[k]
    <3>1. CASE k = 0
      <4>1. f[0] = G[1] /\ m[G[0] + 4] = G[1]
        <5>1. 0 \in 0 .. n /\ 0 \in 0 .. N /\ 0 <= n /\ 0 + 1 = 1
          BY <1>1
        <5> HIDE DEF N
        <5> QED BY <1>2, <5>1
      <4> HIDE DEF f
      <4> QED BY <1>2, <3>1, <4>1 DEF NextNode
    <3>2. CASE k \in 1 .. n
      <4>1. k - 1 \in 0 .. N /\ k - 1 <= n /\ (k - 1) + 1 = k /\ k <= n /\ k # 0 /\ k \in 0 .. n
        BY <1>1, <3>2
      <4>2. f[k - 1] = G[k] /\ f[k] = G[k + 1]
        BY <4>1
      <4>3. G[k] # tail
        <5>1. k \in 0 .. n + 1 /\ n + 1 \in 0 .. n + 1 /\ k # n + 1
          BY <3>2
        <5> QED BY <1>2, <5>1
      <4>4. m[G[k] + 4] = G[k + 1]
        BY <1>2, <4>1
      <4> HIDE DEF f
      <4> QED BY <4>1, <4>2, <4>3, <4>4 DEF NextNode
    <3>3. CASE k > n /\ k # 0
      <4>1. k - 1 \in 0 .. N /\ k - 1 >= n /\ ~(k <= n)
        BY <1>1, <3>3
      <4>2. f[k] = tail
        BY <4>1
      <4>3. f[k - 1] = tail
        <5>1. CASE k - 1 = n
          <6>1. f[k - 1] = G[n + 1]
            BY <4>1, <5>1
          <6> QED BY <1>2, <6>1
        <5>2. CASE k - 1 # n
          BY <4>1, <5>2
        <5> QED BY <5>1, <5>2
      <4> HIDE DEF f
      <4> QED BY <3>3, <4>2, <4>3
    <3>4. k \in Nat /\ (k = 0 \/ k \in 1 .. n \/ (k > n /\ k # 0))
      BY <1>1
    <3> QED BY <3>1, <3>2, <3>3, <3>4
  <2>2. f = [k \in 0 .. N |-> f[k]]
    OBVIOUS
  <2> HIDE DEF f
  <2> QED BY <2>1, <2>2 DEF WalkFrom
<1>5. Walk(m) = f
  <2> HIDE DEF f
  <2> QED BY <1>4, WalkSteps
<1> QED BY <1>3, <1>5

(***************************************************************************)
(* The walk lists the nodes, and finds a best fit among them.              *)
(***************************************************************************)
LEMMA FitIs ==
    ASSUME NEW m, NEW b, NEW B, Good(m, b, B), NEW a \in Nat, find_fit(m, a) # Null
    PROVE  find_fit(m, a) \in FreeOf(m, B) /\ BlockSize(m, find_fit(m, a)) >= a
<1> DEFINE F == FreeOf(m, B)
           at == Walk(m)
           fits == {k \in DOMAIN at : at[k] # tail /\ BlockSize(m, at[k]) >= a}
           best == {k \in fits : \A j \in fits : BlockSize(m, at[k]) <= BlockSize(m, at[j])}
<1>1. Linked(m, F) /\ Tiled(m, b, B) /\ F \subseteq B
  BY DEF Good, FreeOf
<1>2. PICK n \in Nat : \E G \in [0 .. n + 1 -> Words] :
              /\ LinkedBy(m, F, n, G) /\ n + 2 <= MaxHeap \div 8
              /\ Walk(m) = [k \in 0 .. MaxHeap \div 8 |-> IF k <= n THEN G[k + 1] ELSE tail]
  <2> HIDE DEF F
  <2> QED BY <1>1, WalkIs
<1>3. PICK G \in [0 .. n + 1 -> Words] :
              /\ LinkedBy(m, F, n, G) /\ n + 2 <= MaxHeap \div 8
              /\ Walk(m) = [k \in 0 .. MaxHeap \div 8 |-> IF k <= n THEN G[k + 1] ELSE tail]
  BY <1>2
<1>4. DOMAIN at = 0 .. MaxHeap \div 8 /\ MaxHeap \div 8 \in Nat
  BY <1>3, HeapSizes DEF Mult8
<1>5. ASSUME NEW k \in DOMAIN at, at[k] # tail PROVE at[k] \in F
  <2>1. k \in 0 .. MaxHeap \div 8 /\ k \in Nat
    BY <1>4
  <2>2. at[k] = IF k <= n THEN G[k + 1] ELSE tail
    BY <1>3, <2>1
  <2>3. k <= n /\ at[k] = G[k + 1] /\ k + 1 # n + 1
    BY <1>3, <1>5, <2>1, <2>2 DEF LinkedBy
  <2>4. k + 1 \in 1 .. n
    BY <2>1, <2>3
  <2> QED BY <1>3, <2>3, <2>4 DEF LinkedBy
<1>6. \A k \in fits : BlockSize(m, at[k]) \in Nat
  <2>1. \A c \in B : BlockSize(m, c) \in Nat
    BY <1>1, BlockIs, PlacedWords
  <2> QED BY <1>1, <1>5, <2>1
<1>7. find_fit(m, a) = IF fits = {} THEN Null ELSE at[Min(best)]
  BY DEF find_fit
<1> HIDE DEF at, F
<1>8. fits # {}
  BY <1>7
<1>9. best # {}
  <2> DEFINE S == {BlockSize(m, at[k]) : k \in fits}
  <2>1. S \in SUBSET Nat /\ S # {}
    BY <1>6, <1>8
  <2>2. PICK x \in S : \A y \in S : x <= y
    <3> HIDE DEF S
    <3> QED BY <2>1, LeastNatural
  <2>3. PICK k \in fits : x = BlockSize(m, at[k])
    BY <2>2
  <2>4. k \in best
    BY <2>2, <2>3
  <2> QED BY <2>4
<1>10. Min(best) \in best
  <2>1. best \in SUBSET Nat
    BY <1>4
  <2> HIDE DEF best
  <2>2. PICK x \in best : \A y \in best : x <= y
    BY <1>9, <2>1, LeastNatural
  <2> QED BY <2>2, Zenon DEF Min
<1>11. Min(best) \in fits
  <2> HIDE DEF fits
  <2> QED BY <1>10
<1>12. find_fit(m, a) = at[Min(best)]
  BY <1>7, <1>8
<1> HIDE DEF best
<1> QED BY <1>5, <1>11, <1>12 DEF F

(***************************************************************************)
(* mm_malloc: nothing changes when it finds no memory; else a new block of *)
(* the size asked for and its tags, apart from all the others.             *)
(***************************************************************************)
LEMMA AsizeHolds ==
    ASSUME NEW n \in Nat
    PROVE  Mult8(asizeOf(n)) /\ asizeOf(n) >= 16 /\ asizeOf(n) >= n + 8
           /\ asizeOf(n) >= ALIGN(n + 8)
<1>1. Mult8(16)
  BY SMTT(20) DEF Mult8
<1>2. Mult8(ALIGN(n + 8)) /\ n + 8 <= ALIGN(n + 8) /\ ALIGN(n + 8) < n + 16
  BY AlignHolds
<1>3. n <= 8 => ALIGN(n + 8) <= 16
  <2>1. ALIGN(n + 8) \in Nat /\ ALIGN(n + 8) % 8 = 0 /\ ALIGN(n + 8) < n + 16
    BY <1>2 DEF Mult8
  <2> QED BY <2>1, SMTT(20)
<1> QED BY <1>1, <1>2, <1>3 DEF asizeOf, Mult8

Serves(m, b, B, n, r, B2) ==
    /\ Good(r.mem, r.brk, B2) /\ b <= r.brk
    /\ r.bp \notin AllocOf(m, B) /\ AllocOf(r.mem, B2) = AllocOf(m, B) \cup {r.bp}
    /\ Keeps(m, r.mem, AllocOf(m, B))
    /\ BlockSize(r.mem, r.bp) >= ALIGN(n + 8)

LEMMA MallocWorks ==
    ASSUME NEW m, NEW b, NEW B, Good(m, b, B), NEW n \in Nat
    PROVE  IF mm_malloc(m, b, n).bp = Null
           THEN mm_malloc(m, b, n) = [mem |-> m, brk |-> b, bp |-> Null]
           ELSE \E B2 : Serves(m, b, B, n, mm_malloc(m, b, n), B2)
<1> DEFINE a == asizeOf(n)
           A == AllocOf(m, B)
           fit == find_fit(m, a)
           more == IF a > CHUNKSIZE THEN a ELSE CHUNKSIZE
           old == mem_sbrk(b, more)
           ext == Extend(m, old, more)
           r == mm_malloc(m, b, n)
<1>1. /\ Mult8(a) /\ a >= 16 /\ a >= n + 8 /\ a \in Nat /\ a >= ALIGN(n + 8)
      /\ ALIGN(n + 8) \in Nat
  <2>1. n + 8 \in Nat
    OBVIOUS
  <2>2. Mult8(ALIGN(n + 8))
    BY <2>1, AlignHolds
  <2> QED BY <2>2, AsizeHolds DEF Mult8
<1>2. r = IF fit # Null THEN [mem |-> place(m, fit, a), brk |-> b, bp |-> fit]
          ELSE IF old = Null THEN [mem |-> m, brk |-> b, bp |-> Null]
          ELSE [mem |-> place(ext.mem, ext.bp, a), brk |-> BrkAfter(b, more), bp |-> ext.bp]
  BY DEF mm_malloc
<1> HIDE DEF a, A, fit, ext, r
<1>3. Tiled(m, b, B) /\ b \in Nat /\ b >= 40
  BY BreakIs, HeapSizes DEF Good
<1>4. ASSUME NEW m2, NEW b2, NEW B2, Good(m2, b2, B2), NEW bp \in FreeOf(m2, B2),
             BlockSize(m2, bp) >= a, AllocOf(m2, B2) = A, Keeps(m, m2, A), b <= b2,
             r = [mem |-> place(m2, bp, a), brk |-> b2, bp |-> bp]
      PROVE  r.bp # Null /\ \E B3 : Serves(m, b, B, n, r, B3)
  <2>1. bp # Null
    <3>1. bp \in B2 /\ Tiled(m2, b2, B2)
      BY <1>4 DEF FreeOf, Good
    <3> QED BY <3>1, BlockIs, PlacedWords, HeapSizes DEF Placed
  <2>2. PICK B3 : /\ Good(place(m2, bp, a), b2, B3)
                  /\ AllocOf(place(m2, bp, a), B3) = AllocOf(m2, B2) \cup {bp}
                  /\ Keeps(m2, place(m2, bp, a), AllocOf(m2, B2))
                  /\ BlockSize(place(m2, bp, a), bp) >= a
    BY <1>1, <1>4, PlaceWorks
  <2> DEFINE p == place(m2, bp, a)
  <2> HIDE DEF p
  <2>3. /\ Good(p, b2, B3) /\ AllocOf(p, B3) = A \cup {bp} /\ Keeps(m2, p, A)
        /\ BlockSize(p, bp) >= a
    BY <1>4, <2>2 DEF p
  <2>4. Keeps(m, p, A)
    BY <1>4, <2>3, KeepsChain
  <2>5. bp \notin A
    BY <1>4 DEF FreeOf, AllocOf
  <2>6. BlockSize(p, bp) >= ALIGN(n + 8)
    <3>1. bp \in B3 /\ Tiled(p, b2, B3)
      BY <2>3 DEF AllocOf, Good
    <3>2. BlockSize(p, bp) \in Nat
      BY <3>1, BlockIs, PlacedWords
    <3> QED BY <1>1, <2>3, <3>2
  <2>7. r.mem = p /\ r.brk = b2 /\ r.bp = bp
    BY <1>4 DEF p
  <2>8. Serves(m, b, B, n, r, B3)
    BY <1>4, <2>3, <2>4, <2>5, <2>6, <2>7 DEF Serves, A
  <2> QED BY <2>1, <2>7, <2>8
<1>5. CASE fit # Null
  <2>1. fit \in FreeOf(m, B) /\ BlockSize(m, fit) >= a
    BY <1>1, <1>5, FitIs DEF fit
  <2>2. Keeps(m, m, A) /\ AllocOf(m, B) = A /\ b <= b
    BY <1>3 DEF Keeps, A
  <2>3. r = [mem |-> place(m, fit, a), brk |-> b, bp |-> fit]
    BY <1>2, <1>5
  <2> QED BY <1>4, <2>1, <2>2, <2>3 DEF r
<1>6. CASE fit = Null /\ old = Null
  <2>1. r = [mem |-> m, brk |-> b, bp |-> Null]
    BY <1>2, <1>6
  <2> QED BY <2>1 DEF r
<1>7. CASE fit = Null /\ old # Null
  <2>1. more \in Nat /\ Mult8(more) /\ more >= a /\ more >= 16
    BY <1>1, HeapSizes DEF Mult8
  <2> HIDE DEF more
  <2>2. old = b /\ b + more <= Base + MaxHeap
    <3>1. Base + MaxHeap \in Nat
      BY HeapSizes DEF Mult8
    <3> QED BY <1>3, <1>7, <2>1, <3>1 DEF mem_sbrk
  <2> HIDE DEF old
  <2>3. PICK B2 : /\ Leaves(m, AllocOf(m, B), Extend(m, b, more).mem, b + more, B2)
                  /\ Extend(m, b, more).bp \in FreeOf(Extend(m, b, more).mem, B2)
                  /\ BlockSize(Extend(m, b, more).mem, Extend(m, b, more).bp) >= more
    BY <2>1, <2>2, ExtendWorks
  <2>4. /\ Good(ext.mem, b + more, B2) /\ AllocOf(ext.mem, B2) = A /\ Keeps(m, ext.mem, A)
        /\ ext.bp \in FreeOf(ext.mem, B2) /\ BlockSize(ext.mem, ext.bp) >= more
    BY <2>2, <2>3 DEF Leaves, A, ext
  <2>5. BlockSize(ext.mem, ext.bp) >= a
    <3>1. ext.bp \in B2 /\ Tiled(ext.mem, b + more, B2)
      BY <2>4 DEF FreeOf, Good
    <3>2. BlockSize(ext.mem, ext.bp) \in Nat
      BY <3>1, BlockIs, PlacedWords
    <3> QED BY <1>1, <2>1, <2>4, <3>2
  <2>6. r = [mem |-> place(ext.mem, ext.bp, a), brk |-> b + more, bp |-> ext.bp]
    BY <1>2, <1>7 DEF BrkAfter
  <2>7. b <= b + more
    BY <1>3, <2>1
  <2>8. r.bp # Null /\ \E B3 : Serves(m, b, B, n, r, B3)
    BY <1>4, <2>4, <2>5, <2>6, <2>7
  <2> QED BY <2>8 DEF r
<1> QED BY <1>5, <1>6, <1>7

(***************************************************************************)
(* What the client writes                                                  *)
(***************************************************************************)

\* A payload and what the client put there.
Holding(m, p, n) ==
    /\ n \in Sizes /\ BlockSize(m, p) >= n + 8
    /\ Fills => \A q \in PayloadWords(p, n) : m[q] = Stamp(q)

Holds(m, b, B, lv) ==
    /\ Good(m, b, B) /\ DOMAIN lv = AllocOf(m, B)
    /\ \A p \in DOMAIN lv : Holding(m, p, lv[p])

LEMMA PayloadIn ==
    ASSUME NEW m, NEW b, NEW B, Tiled(m, b, B), NEW p \in B, NEW n \in Nat,
           n <= BlockSize(m, p) - 8, NEW q \in PayloadWords(p, n)
    PROVE  InBody(m, p, q) /\ q \in Words /\ q \in Nat /\ p <= q /\ q < p + n
<1>1. q \in Words /\ p <= q /\ q < p + n
  BY DEF PayloadWords
<1>2. q \in Nat /\ p \in Nat /\ BlockSize(m, p) \in Nat
  BY <1>1, WordsAre, BlockIs, PlacedWords
<1> QED BY <1>1, <1>2 DEF InBody

LEMMA KeepsHolding ==
    ASSUME NEW m, NEW b, NEW B, Tiled(m, b, B), NEW m2, NEW A, A \subseteq B, Keeps(m, m2, A),
           NEW p \in A, NEW n, Holding(m, p, n)
    PROVE  Holding(m2, p, n)
<1>1. n \in Nat /\ n \in Sizes
  BY SizesAssumption DEF Holding
<1>2. BlockSize(m2, p) = BlockSize(m, p)
  BY DEF Keeps
<1>3. BlockSize(m, p) \in Nat /\ BlockSize(m, p) >= n + 8 /\ p \in B
  BY BlockIs, PlacedWords DEF Holding
<1>4. ASSUME NEW q \in PayloadWords(p, n) PROVE m2[q] = m[q]
  <2>1. InBody(m, p, q) /\ q \in Words
    BY <1>1, <1>3, PayloadIn
  <2> QED BY <2>1 DEF Keeps
<1> QED BY <1>1, <1>2, <1>3, <1>4 DEF Holding

\* A write into the body of an allocated block is seen there only.
LEMMA BodyWrite ==
    ASSUME NEW m, NEW b, NEW B, Good(m, b, B), NEW p \in AllocOf(m, B),
           NEW m2 \in [Words -> Nat],
           \A q \in Words : ~InBody(m, p, q) => m2[q] = m[q]
    PROVE  /\ Good(m2, b, B) /\ AllocOf(m2, B) = AllocOf(m, B) /\ SameBlocks(m, m2, B)
           /\ Keeps(m, m2, AllocOf(m, B) \ {p})
<1> DEFINE F == FreeOf(m, B)
<1>1. Tiled(m, b, B) /\ Linked(m, F) /\ NoTwoFree(m, B) /\ F \subseteq B
      /\ p \in B /\ p \notin F
  BY DEF Good, FreeOf, AllocOf
<1>2. /\ m2[28] = m[28] /\ m2[32] = m[32] /\ m2[b - 4] = m[b - 4]
      /\ \A c \in B : /\ m2[c - 4] = m[c - 4]
                      /\ m2[c + BlockSize(m, c) - 8] = m[c + BlockSize(m, c) - 8]
  <2>1. /\ ~InBody(m, p, 28) /\ ~InBody(m, p, 32) /\ ~InBody(m, p, b - 4)
        /\ \A c \in B : ~InBody(m, p, c - 4) /\ ~InBody(m, p, c + BlockSize(m, c) - 8)
    BY <1>1, BodiesApart
  <2>2. /\ 28 \in Words /\ 32 \in Words /\ b - 4 \in Words
        /\ \A c \in B : c - 4 \in Words /\ c + BlockSize(m, c) - 8 \in Words
    BY <1>1, BreakIs, BlockIs, PlacedWords
  <2> QED BY <2>1, <2>2
<1>3. Tiled(m2, b, B) /\ SameBlocks(m, m2, B)
  BY <1>1, <1>2, TagsTile
<1>4. ASSUME NEW q \in LinkWords(F) PROVE m2[q] = m[q]
  <2>1. q \in Words
    BY <1>1, BlockIsNode, NodeIs, EndsAreWords DEF LinkWords
  <2>2. ASSUME InBody(m, p, q) PROVE FALSE
    <3>1. q # 12 /\ q # 16
      BY <1>1, <2>2, BodiesApart
    <3>2. PICK f \in F : InBody(m, f, q)
      BY <1>1, <3>1, LinksInBodies
    <3>3. f = p
      BY <1>1, <2>2, <3>2, BodiesApart
    <3> QED BY <1>1, <3>3
  <2> QED BY <2>1, <2>2
<1>5. Linked(m2, F)
  <2> HIDE DEF F
  <2> QED BY <1>1, <1>4, LinksStay
<1>6. FreeOf(m2, B) = F /\ AllocOf(m2, B) = AllocOf(m, B)
  BY <1>3 DEF FreeOf, AllocOf, SameBlocks
<1>7. NoTwoFree(m2, B)
  <2> SUFFICES ASSUME NEW c \in B, IsFree(m2, c) PROVE ~IsFree(m2, NextBlock(m2, c))
    BY DEF NoTwoFree
  <2>1. NextBlock(m2, c) = NextBlock(m, c) /\ ~IsFree(m, NextBlock(m, c))
    BY <1>1, <1>3 DEF NoTwoFree, SameBlocks
  <2>2. NextBlock(m, c) \in B \cup {b} /\ ~IsFree(m2, b)
    BY <1>1, <1>3, BlockIs, BreakIs
  <2> QED BY <1>3, <2>1, <2>2 DEF SameBlocks
<1>8. Keeps(m, m2, AllocOf(m, B) \ {p})
  <2>1. ASSUME NEW c \in AllocOf(m, B) \ {p}, NEW q \in Words, InBody(m, c, q)
        PROVE  m2[q] = m[q]
    <3>1. c \in B
      BY DEF AllocOf
    <3>2. ~InBody(m, p, q)
      BY <1>1, <2>1, <3>1, BodiesApart
    <3> QED BY <3>2
  <2> QED BY <1>2, <1>3, <2>1 DEF Keeps, AllocOf, SameBlocks
<1> QED BY <1>3, <1>5, <1>6, <1>7, <1>8 DEF Good

LEMMA FilledIs ==
    ASSUME NEW m \in [Words -> Nat], NEW p, NEW n
    PROVE  Filled(m, p, n) \in [Words -> Nat]
<1>1. \A q \in Words : Stamp(q) \in Nat
  BY WordsAre, HeapSizes DEF Stamp, Mult8
<1> QED BY <1>1 DEF Filled

\* The client fills a payload it was given, and finds the others as they were.
LEMMA FilledHolds ==
    ASSUME NEW m, NEW b, NEW B, Good(m, b, B), NEW p \in AllocOf(m, B),
           NEW n \in Sizes, BlockSize(m, p) >= n + 8,
           NEW lv, DOMAIN lv = AllocOf(m, B), lv[p] = n,
           \A c \in AllocOf(m, B) \ {p} : Holding(m, c, lv[c])
    PROVE  Holds(Filled(m, p, n), b, B, lv)
<1> DEFINE m2 == Filled(m, p, n)
           A == AllocOf(m, B)
<1>1. Tiled(m, b, B) /\ p \in B /\ A \subseteq B /\ m \in [Words -> Nat]
  BY DEF Good, AllocOf, Tiled
<1>2. n \in Nat /\ BlockSize(m, p) \in Nat
  BY <1>1, SizesAssumption, BlockIs, PlacedWords
<1>3. m2 \in [Words -> Nat]
  BY <1>1, FilledIs
<1>4. ASSUME NEW q \in Words, ~InBody(m, p, q) PROVE m2[q] = m[q]
  <2>1. q \notin PayloadWords(p, n)
    BY <1>1, <1>2, <1>4, PayloadIn
  <2> QED BY <2>1 DEF Filled
<1>5. Fills => \A q \in PayloadWords(p, n) : m2[q] = Stamp(q)
  BY DEF Filled, PayloadWords
<1> HIDE DEF m2
<1>6. /\ Good(m2, b, B) /\ AllocOf(m2, B) = A /\ SameBlocks(m, m2, B)
      /\ Keeps(m, m2, A \ {p})
  BY <1>3, <1>4, BodyWrite
<1>7. ASSUME NEW c \in A PROVE Holding(m2, c, lv[c])
  <2>1. CASE c = p
    <3>1. BlockSize(m2, p) = BlockSize(m, p)
      BY <1>1, <1>6 DEF SameBlocks
    <3> QED BY <1>5, <2>1, <3>1 DEF Holding
  <2>2. CASE c # p
    <3>1. A \ {p} \subseteq B /\ c \in A \ {p}
      BY <1>1, <2>2
    <3> HIDE DEF A
    <3>2. Holding(m, c, lv[c])
      BY <3>1 DEF A
    <3> QED BY <1>1, <1>6, <3>1, <3>2, KeepsHolding
  <2> QED BY <2>1, <2>2
<1>8. Holds(m2, b, B, lv)
  BY <1>6, <1>7 DEF Holds
<1> QED BY <1>8 DEF m2

(***************************************************************************)
(* The copy of realloc writes into the block it copies to.                 *)
(***************************************************************************)
LEMMA CopyWords ==
    ASSUME NEW to \in Nat, to % 8 = 0, NEW from \in Nat, from % 8 = 0, from >= 8,
           NEW n \in Nat, from + n <= Base + MaxHeap,
           NEW q \in PayloadWords(to, n)
    PROVE  q - to + from \in Words /\ q \in Words
<1>1. q \in Words /\ to <= q /\ q < to + n
  BY DEF PayloadWords
<1>2. q \in Nat /\ q % 4 = 0 /\ MaxHeap \in Nat /\ Base = 8
  BY <1>1, WordsAre, HeapSizes DEF Mult8
<1>3. q - to + from \in Nat /\ (q - to + from) % 4 = 0
  BY <1>1, <1>2, SMTT(20)
<1>4. 8 <= q - to + from /\ q - to + from < 8 + MaxHeap
  BY <1>1, <1>2
<1> QED BY <1>1, <1>3, <1>4, WordsAre

IsCopied(m, to, from, n) ==
    /\ Copied(m, to, from, n) \in [Words -> Nat]
    /\ \A q \in Words : q \notin PayloadWords(to, n) => Copied(m, to, from, n)[q] = m[q]
    /\ \A q \in PayloadWords(to, n) : Copied(m, to, from, n)[q] = m[q - to + from]

LEMMA CopiedIs ==
    ASSUME NEW m \in [Words -> Nat], NEW to \in Nat, to % 8 = 0,
           NEW from \in Nat, from % 8 = 0, from >= 8,
           NEW n \in Nat, from + n <= Base + MaxHeap
    PROVE  IsCopied(m, to, from, n)
<1>1. \A q \in PayloadWords(to, n) : q - to + from \in Words /\ q \in Words
  BY CopyWords
<1> QED BY <1>1 DEF Copied, IsCopied

(***************************************************************************)
(* The invariant, as long as no realloc has done damage: the heap is good  *)
(* and its allocated blocks hold the client's payloads.                    *)
(***************************************************************************)
Serving(B) == Holds(mem, brk, B, live) /\ FirstBlock + CHUNKSIZE <= brk
Sound == kept \in BOOLEAN /\ (Fills => kept) /\ \E B : Serving(B)
HeapIInv == damage \in Damages /\ (damage = "none" => Sound)

\* What that says of the state.
LEMMA SoundTypes == Sound /\ damage \in Damages => TypeOK
<1> SUFFICES ASSUME Sound, damage \in Damages PROVE TypeOK
  OBVIOUS
<1> PICK B : Serving(B)
  BY DEF Sound
<1>1. /\ Tiled(mem, brk, B) /\ DOMAIN live \subseteq B
      /\ \A p \in DOMAIN live : live[p] \in Sizes
  BY DEF Serving, Holds, Good, AllocOf, Holding
<1>2. mem \in [Words -> Nat] /\ brk \in Nat /\ brk <= Base + MaxHeap
  BY <1>1, BreakIs DEF Tiled
<1>3. brk \in FirstBlock + CHUNKSIZE .. Base + MaxHeap
  <2>1. FirstBlock + CHUNKSIZE \in Nat /\ Base + MaxHeap \in Nat /\ FirstBlock + CHUNKSIZE <= brk
    BY HeapSizes DEF Mult8, Serving
  <2> QED BY <1>2, <2>1
<1>4. \A p \in DOMAIN live : p \in Words
  BY <1>1, BlockIs, PlacedWords
<1> QED BY <1>1, <1>2, <1>3, <1>4 DEF TypeOK, Sound

\* A block is room for a payload that no other payload meets.
LEMMA PayloadsFit ==
    ASSUME NEW m, NEW b, NEW B, Tiled(m, b, B), NEW q \in B, NEW n \in Sizes,
           BlockSize(m, q) >= n + 8,
           NEW lv, DOMAIN lv \subseteq B \ {q},
           \A c \in DOMAIN lv : lv[c] \in Sizes /\ BlockSize(m, c) >= lv[c] + 8
    PROVE  Abstract!Fits(lv, q, n) /\ q \in Base .. Base + MaxHeap - 1
<1>1. \A c \in B : /\ c \in Nat /\ c % 8 = 0 /\ BlockSize(m, c) \in Nat /\ 40 <= c
                   /\ c + BlockSize(m, c) <= b
  BY BlockIs, PlacedWords, HeapSizes
<1>2. b \in Nat /\ b <= 8 + MaxHeap /\ Base = 8 /\ MaxHeap \in Nat
  BY BreakIs, HeapSizes DEF Mult8
<1>3. n \in Nat /\ \A c \in DOMAIN lv : lv[c] \in Nat
  BY SizesAssumption
<1>4. q .. q + n - 1 \subseteq 8 .. 8 + MaxHeap - 1 /\ q \in 8 .. 8 + MaxHeap - 1
  BY <1>1, <1>2, <1>3
<1>5. ASSUME NEW c \in DOMAIN lv PROVE (q .. q + n - 1) \cap (c .. c + lv[c] - 1) = {}
  <2>1. c + BlockSize(m, c) <= q \/ q + BlockSize(m, q) <= c
    BY Apart
  <2>2. c \in Nat /\ q \in Nat /\ lv[c] \in Nat /\ BlockSize(m, c) \in Nat
        /\ BlockSize(m, q) \in Nat /\ BlockSize(m, c) >= lv[c] + 8
    BY <1>1, <1>3
  <2> QED BY <1>3, <2>1, <2>2
<1> QED BY <1>1, <1>2, <1>4, <1>5 DEF Abstract!Fits, Abstract!Payload

\* The client takes over what realloc returns.
LEMMA ReceivedWorks ==
    ASSUME NEW B, Holds(mem, brk, B, live), NEW p \in DOMAIN live, NEW n \in Sizes,
           NEW q, NEW m, NEW b2, NEW B2, Good(m, b2, B2),
           AllocOf(m, B2) = (AllocOf(mem, B) \ {p}) \cup {q}, q \notin AllocOf(mem, B) \ {p},
           Keeps(mem, m, AllocOf(mem, B) \ {p}),
           BlockSize(m, q) >= n + 8,
           \A i \in PayloadWords(p, live[p]) : i < p + n => m[i - p + q] = mem[i],
           Received(m, p, q, n)
    PROVE  /\ Holds(mem', b2, B2, live')
           /\ kept' \in BOOLEAN /\ (Fills => kept')
           /\ Abstract!Realloc(p, n)
<1> DEFINE A == AllocOf(mem, B)
           A2 == AllocOf(m, B2)
<1>1. /\ Tiled(mem, brk, B) /\ A \subseteq B /\ DOMAIN live = A
      /\ \A c \in DOMAIN live : Holding(mem, c, live[c])
  BY DEF Holds, Good, AllocOf
<1>2. Tiled(m, b2, B2) /\ A2 \subseteq B2 /\ q \in A2 /\ A2 \ {q} = A \ {p}
  BY DEF Good, AllocOf
<1>3. /\ mem' = Filled(m, q, n)
      /\ live' = [i \in (DOMAIN live \ {p}) \cup {q} |-> IF i = q THEN n ELSE live[i]]
  BY DEF Received
<1>4. DOMAIN live' = A2 /\ live'[q] = n /\ \A c \in A2 \ {q} : live'[c] = live[c]
  BY <1>1, <1>2, <1>3
<1>5. \A c \in A2 \ {q} : Holding(m, c, live'[c])
  <2> SUFFICES ASSUME NEW c \in A2 \ {q} PROVE Holding(m, c, live'[c])
    OBVIOUS
  <2>1. Holding(mem, c, live[c]) /\ c \in A \ {p}
    BY <1>1, <1>2
  <2>2. A \ {p} \subseteq B
    BY <1>1
  <2>3. Holding(m, c, live[c])
    <3> HIDE DEF A, A2
    <3>1. Keeps(mem, m, A \ {p})
      BY DEF A
    <3> QED BY <1>1, <2>1, <2>2, <3>1, KeepsHolding
  <2> QED BY <1>4, <2>3
<1>6. Holds(mem', b2, B2, live')
  <2> DEFINE lv == live'
  <2>1. DOMAIN lv = AllocOf(m, B2) /\ lv[q] = n
    BY <1>4
  <2>2. \A c \in AllocOf(m, B2) \ {q} : Holding(m, c, lv[c])
    BY <1>5
  <2>3. q \in AllocOf(m, B2)
    BY <1>2
  <2> HIDE DEF lv
  <2>4. Holds(Filled(m, q, n), b2, B2, lv)
    BY <2>1, <2>2, <2>3, FilledHolds
  <2> QED BY <1>3, <2>4 DEF lv
<1>7. kept' \in BOOLEAN /\ (Fills => kept')
  <2> DEFINE k == IF n < live[p] THEN n ELSE live[p]
  <2>1. kept' = \A i \in PayloadWords(p, k) : m[i - p + q] = Stamp(i)
    BY DEF Received
  <2>2. ASSUME Fills, NEW i \in PayloadWords(p, k) PROVE m[i - p + q] = Stamp(i)
    <3>1. n \in Nat /\ live[p] \in Nat /\ p \in Nat
      <4>1. live[p] \in Sizes
        BY <1>1 DEF Holding
      <4>2. p \in B
        BY <1>1
      <4>3. p \in Nat
        BY <1>1, <4>2, BlockIs, PlacedWords
      <4> QED BY <4>1, <4>3, SizesAssumption
    <3>2. i \in Words /\ p <= i /\ i < p + k /\ i \in Nat
      BY WordsAre DEF PayloadWords
    <3>3. i \in PayloadWords(p, live[p]) /\ i < p + n
      BY <3>1, <3>2 DEF PayloadWords
    <3>4. mem[i] = Stamp(i)
      BY <1>1, <2>2, <3>3 DEF Holding
    <3> QED BY <3>3, <3>4
  <2> HIDE DEF k
  <2> QED BY <2>1, <2>2
<1>8. Abstract!Realloc(p, n)
  <2> DEFINE lv == Without(p)
  <2>1. DOMAIN lv = A \ {p} /\ \A c \in A \ {p} : lv[c] = live[c]
    BY <1>1 DEF Without
  <2>2. \A c \in A \ {p} : live[c] \in Sizes /\ BlockSize(m, c) >= live[c] + 8
    BY <1>1, <1>2, <1>4, <1>5 DEF Holding
  <2>3. DOMAIN lv \subseteq B2 \ {q}
    BY <1>2, <2>1
  <2>4. Abstract!Fits(lv, q, n) /\ q \in Base .. Base + MaxHeap - 1
    <3> HIDE DEF lv
    <3>1. q \in B2
      BY <1>2
    <3> QED BY <1>2, <2>1, <2>2, <2>3, <3>1, PayloadsFit
  <2>5. Abstract!Without(live, p) = lv
    BY DEF Abstract!Without, Without
  <2>6. live' = Abstract!With(lv, q, n)
    <3>1. DOMAIN lv = DOMAIN live \ {p}
      BY <1>1, <2>1
    <3>2. \A c \in DOMAIN live \ {p} : lv[c] = live[c]
      BY <1>1, <2>1
    <3> HIDE DEF lv
    <3>3. Abstract!With(lv, q, n)
            = [c \in (DOMAIN live \ {p}) \cup {q} |-> IF c = q THEN n ELSE lv[c]]
      BY <3>1 DEF Abstract!With
    <3>4. \A c \in (DOMAIN live \ {p}) \cup {q} :
             (IF c = q THEN n ELSE lv[c]) = (IF c = q THEN n ELSE live[c])
      BY <3>2
    <3> QED BY <1>3, <3>3, <3>4
  <2> HIDE DEF lv
  <2> QED BY <2>4, <2>5, <2>6 DEF Abstract!Realloc
<1> QED BY <1>6, <1>7, <1>8

(***************************************************************************)
(* Each call, from a sound heap.                                           *)
(***************************************************************************)
Promised == HeapIInv' /\ TypeOK' /\ [Abstract!Next]_live

LEMMA ThenSound ==
    ASSUME NEW B2, Holds(mem', brk', B2, live'), FirstBlock + CHUNKSIZE <= brk',
           kept' \in BOOLEAN, Fills => kept', damage' = "none"
    PROVE  HeapIInv' /\ TypeOK'
<1>1. Sound' /\ damage' \in Damages
  BY DEF Sound, Serving, Damages
<1>2. (Sound /\ damage \in Damages => TypeOK)'
  BY SoundTypes, PTL
<1>3. TypeOK'
  BY <1>1, <1>2
<1> QED BY <1>1, <1>3 DEF HeapIInv

LEMMA MallocStep ==
    ASSUME Sound, damage = "none", NEW n \in Sizes, Malloc(n)
    PROVE  Promised
<1> PICK B : Serving(B)
  BY DEF Sound
<1> DEFINE r == mm_malloc(mem, brk, n)
           A == AllocOf(mem, B)
<1>1. Holds(mem, brk, B, live) /\ Good(mem, brk, B) /\ Tiled(mem, brk, B) /\ A \subseteq B
      /\ DOMAIN live = A /\ FirstBlock + CHUNKSIZE <= brk /\ brk \in Nat
      /\ \A c \in DOMAIN live : Holding(mem, c, live[c])
  BY BreakIs DEF Serving, Holds, Good, AllocOf
<1>2. n \in Nat
  BY SizesAssumption
<1>3. /\ brk' = r.brk /\ kept' = kept /\ damage' = "none"
      /\ IF r.bp = Null THEN mem' = mem /\ live' = live
         ELSE /\ mem' = Filled(r.mem, r.bp, n)
              /\ live' = [q \in DOMAIN live \cup {r.bp} |-> IF q = r.bp THEN n ELSE live[q]]
  BY DEF Malloc
<1>4. kept' \in BOOLEAN /\ (Fills => kept')
  BY <1>3 DEF Sound
<1>5. CASE r.bp = Null
  <2>1. brk' = brk /\ mem' = mem /\ live' = live
    BY <1>1, <1>2, <1>3, <1>5, MallocWorks
  <2>2. HeapIInv' /\ TypeOK'
    BY <1>1, <1>3, <1>4, <2>1, ThenSound
  <2> QED BY <2>1, <2>2 DEF Promised
<1>6. CASE r.bp # Null
  <2>1. PICK B2 : Serves(mem, brk, B, n, r, B2)
    BY <1>1, <1>2, <1>6, MallocWorks
  <2> DEFINE m == r.mem
             q == r.bp
             A2 == AllocOf(m, B2)
  <2>2. /\ Good(m, r.brk, B2) /\ Tiled(m, r.brk, B2) /\ brk <= r.brk
        /\ q \notin A /\ A2 = A \cup {q} /\ A2 \subseteq B2
        /\ Keeps(mem, m, A) /\ BlockSize(m, q) >= ALIGN(n + 8)
    BY <2>1 DEF Serves, Good, AllocOf
  <2>3. mem' = Filled(m, q, n)
        /\ live' = [i \in DOMAIN live \cup {q} |-> IF i = q THEN n ELSE live[i]]
    BY <1>3, <1>6
  <2> HIDE DEF r, m, q
  <2>4. BlockSize(m, q) >= n + 8 /\ r.brk \in Nat
    <3>1. n + 8 \in Nat
      BY <1>2
    <3>2. Mult8(ALIGN(n + 8)) /\ n + 8 <= ALIGN(n + 8)
      BY <3>1, AlignHolds
    <3>3. BlockSize(m, q) \in Nat
      BY <2>2, BlockIs, PlacedWords
    <3> QED BY <1>2, <2>2, <3>2, <3>3, BreakIs DEF Mult8
  <2>5. \A c \in A2 \ {q} : Holding(m, c, live[c])
    <3> HIDE DEF A
    <3> QED BY <1>1, <2>2, KeepsHolding
  <2>6. DOMAIN live' = A2 /\ live'[q] = n /\ \A c \in A2 \ {q} : live'[c] = live[c]
    BY <1>1, <2>2, <2>3
  <2>7. Holds(mem', brk', B2, live')
    <3> DEFINE lv == live'
    <3>1. DOMAIN lv = AllocOf(m, B2) /\ lv[q] = n
      BY <2>6
    <3>2. \A c \in AllocOf(m, B2) \ {q} : Holding(m, c, lv[c])
      BY <2>5, <2>6
    <3>3. q \in AllocOf(m, B2)
      BY <2>2
    <3> HIDE DEF lv
    <3>4. Holds(Filled(m, q, n), r.brk, B2, lv)
      BY <2>2, <2>4, <3>1, <3>2, <3>3, FilledHolds
    <3> QED BY <1>3, <2>3, <3>4 DEF lv, r
  <2>8. FirstBlock + CHUNKSIZE <= brk'
    <3>1. FirstBlock + CHUNKSIZE \in Nat
      BY HeapSizes DEF Mult8
    <3>2. brk' = r.brk
      BY <1>3 DEF r
    <3> QED BY <1>1, <2>2, <2>4, <3>1, <3>2
  <2>9. HeapIInv' /\ TypeOK'
    BY <1>3, <1>4, <2>7, <2>8, ThenSound
  <2>10. Abstract!Malloc(n)
    <3>1. \A c \in DOMAIN live : live[c] \in Sizes /\ BlockSize(m, c) >= live[c] + 8
      BY <1>1, <2>2, <2>5 DEF Holding
    <3>2. DOMAIN live \subseteq B2 \ {q} /\ q \in B2
      BY <1>1, <2>2
    <3>3. Abstract!Fits(live, q, n) /\ q \in Base .. Base + MaxHeap - 1
      BY <2>2, <2>4, <3>1, <3>2, PayloadsFit
    <3> QED BY <2>3, <3>3 DEF Abstract!Malloc, Abstract!With
  <2> QED BY <2>9, <2>10 DEF Promised, Abstract!Next
<1> QED BY <1>5, <1>6

LEMMA FreeStep ==
    ASSUME Sound, damage = "none", NEW p \in DOMAIN live, Free(p)
    PROVE  Promised
<1> PICK B : Serving(B)
  BY DEF Sound
<1> DEFINE A == AllocOf(mem, B)
           m2 == mm_free(mem, p)
<1>1. Holds(mem, brk, B, live) /\ Good(mem, brk, B) /\ Tiled(mem, brk, B) /\ A \subseteq B
      /\ DOMAIN live = A /\ FirstBlock + CHUNKSIZE <= brk
      /\ \A c \in DOMAIN live : Holding(mem, c, live[c])
  BY DEF Serving, Holds, Good, AllocOf
<1>2. mem' = m2 /\ live' = Without(p) /\ brk' = brk /\ kept' = kept /\ damage' = "none"
  BY DEF Free
<1>3. PICK B2 : Leaves(mem, A \ {p}, m2, brk, B2)
  BY <1>1, FreeWorks
<1> HIDE DEF A, m2
<1>4. Good(m2, brk, B2) /\ AllocOf(m2, B2) = A \ {p} /\ Keeps(mem, m2, A \ {p})
  BY <1>3 DEF Leaves
<1>5. DOMAIN live' = A \ {p} /\ \A c \in A \ {p} : live'[c] = live[c]
  BY <1>1, <1>2 DEF Without
<1>6. \A c \in A \ {p} : Holding(m2, c, live[c])
  <2>1. A \ {p} \subseteq B
    BY <1>1
  <2> QED BY <1>1, <1>4, <2>1, KeepsHolding
<1>7. Holds(mem', brk', B2, live')
  BY <1>2, <1>4, <1>5, <1>6 DEF Holds
<1>8. HeapIInv' /\ TypeOK'
  BY <1>1, <1>2, <1>7, ThenSound DEF Sound
<1>9. Abstract!Free(p)
  BY <1>2 DEF Abstract!Free, Abstract!Without, Without
<1> QED BY <1>8, <1>9 DEF Promised, Abstract!Next

LEMMA InPlaceStep ==
    ASSUME Sound, damage = "none", NEW p \in DOMAIN live, NEW n \in Sizes, ReallocInPlace(p, n)
    PROVE  Promised
<1> PICK B : Serving(B)
  BY DEF Sound
<1> DEFINE A == AllocOf(mem, B)
<1>1. Holds(mem, brk, B, live) /\ Good(mem, brk, B) /\ Tiled(mem, brk, B) /\ A \subseteq B
      /\ DOMAIN live = A /\ FirstBlock + CHUNKSIZE <= brk
  BY DEF Serving, Holds, Good, AllocOf
<1>2. FitsIn(Curr(p), n) /\ Received(mem, p, p, n) /\ brk' = brk /\ damage' = "none"
  BY DEF ReallocInPlace
<1>3. BlockSize(mem, p) >= n + 8 /\ p \in Nat
  <2>1. n + 8 \in Nat
    BY SizesAssumption
  <2>2. Mult8(ALIGN(n + 8)) /\ n + 8 <= ALIGN(n + 8)
    BY <2>1, AlignHolds
  <2>3. BlockSize(mem, p) \in Nat /\ p \in Nat
    BY <1>1, BlockIs, PlacedWords
  <2> QED BY <1>2, <2>1, <2>2, <2>3 DEF FitsIn, Curr, Mult8
<1>4. (A \ {p}) \cup {p} = A /\ p \notin A \ {p} /\ Keeps(mem, mem, A \ {p})
  BY <1>1 DEF Keeps
<1>5. \A i \in PayloadWords(p, live[p]) : i < p + n => mem[i - p + p] = mem[i]
  <2>1. \A i \in PayloadWords(p, live[p]) : i \in Nat
    BY WordsAre DEF PayloadWords
  <2>2. \A i \in Nat : i - p + p = i
    BY <1>3
  <2> QED BY <2>1, <2>2
<1>6. /\ Holds(mem', brk, B, live') /\ kept' \in BOOLEAN /\ (Fills => kept')
      /\ Abstract!Realloc(p, n)
  BY <1>1, <1>2, <1>3, <1>4, <1>5, ReceivedWorks
<1>7. HeapIInv' /\ TypeOK'
  BY <1>1, <1>2, <1>6, ThenSound
<1> QED BY <1>6, <1>7 DEF Promised, Abstract!Next

(***************************************************************************)
(* realloc that takes the block before it.                                 *)
(***************************************************************************)
MayTakePrev(m, b, B, p, q, r) ==
    /\ Good(m, b, B) /\ p \in AllocOf(m, B) /\ q = PrevBlock(m, p) /\ IsFree(m, q)
    /\ r = RemoveNode(Tag(m, q, BlockSize(m, q) + BlockSize(m, p), 1), q)

TookPrev(m, b, B, p, q, r, B2) ==
    /\ Good(r, b, B2) /\ AllocOf(r, B2) = (AllocOf(m, B) \ {p}) \cup {q}
    /\ Keeps(m, r, AllocOf(m, B) \ {p})
    /\ BlockSize(r, q) = BlockSize(m, q) + BlockSize(m, p)
    /\ \A i \in Words : InBody(m, p, i) => r[i] = m[i]

LEMMA TakePrevWorks ==
    ASSUME NEW m, NEW b, NEW B, NEW p, NEW q, NEW r, MayTakePrev(m, b, B, p, q, r)
    PROVE  /\ q \in B /\ q \notin AllocOf(m, B) /\ q + BlockSize(m, q) = p
           /\ \E B2 : TookPrev(m, b, B, p, q, r, B2)
<1>0. /\ Good(m, b, B) /\ p \in AllocOf(m, B) /\ q = PrevBlock(m, p) /\ IsFree(m, q)
      /\ r = RemoveNode(Tag(m, q, BlockSize(m, q) + BlockSize(m, p), 1), q)
  BY DEF MayTakePrev
<1> DEFINE F == FreeOf(m, B)
           A == AllocOf(m, B)
           hi == NextBlock(m, p)
           s == BlockSize(m, q) + BlockSize(m, p)
           t == Tag(m, q, s, 1)
           B2 == Merged(B, q, hi)
<1>1. Tiled(m, b, B) /\ Linked(m, F) /\ NoTwoFree(m, B)
  BY <1>0 DEF Good
<1>2. p \in B /\ ~IsFree(m, p) /\ p \notin F /\ A = B \ F /\ F \subseteq B
  BY <1>0 DEF AllocOf, FreeOf
<1>3. \A c \in B : c \in Nat /\ BlockSize(m, c) \in Nat /\ NextBlock(m, c) \in B \cup {b}
                   /\ NextBlock(m, c) = c + BlockSize(m, c) /\ BlockSize(m, c) >= 16
  BY <1>1, BlockIs, PlacedWords DEF Placed
<1>4. q \in B /\ NextBlock(m, q) = p /\ q < p
  BY <1>0, <1>1, <1>2, PrevIs
<1>5. q \in F /\ q \notin A /\ q + BlockSize(m, q) = p
  BY <1>0, <1>3, <1>4 DEF F, A, FreeOf, AllocOf
<1>6. hi - q = s /\ s \in Nat /\ hi \in Nat /\ p \in Nat /\ q \in Nat /\ p < hi
  BY <1>2, <1>3, <1>4, <1>5
<1> HIDE DEF F, A, hi, s
<1>7. ASSUME NEW c \in B \ {p} PROVE c \in B2
  <2>1. c < p \/ p < c
    BY <1>2, <1>3
  <2>2. q < c => p <= c
    BY <1>1, <1>4 DEF Tiled
  <2>3. p < c => hi <= c
    BY <1>1, <1>2 DEF Tiled, hi
  <2> QED BY <1>3, <1>6, <2>1, <2>2, <2>3 DEF Merged
<1>8. p \notin B2
  BY <1>4, <1>6 DEF Merged
<1>9. B2 = B \ {p}
  <2>1. B2 \subseteq B
    BY DEF Merged
  <2> HIDE DEF B2
  <2> QED BY <1>7, <1>8, <2>1
<1>10. MayMerge(m, b, B, q, p, F) /\ t = Tag(m, q, hi - q, 1) /\ hi = NextBlock(m, p)
  <2>1. F \subseteq B2
    BY <1>2, <1>9
  <2>2. q <= p
    BY <1>4, <1>6
  <2> QED BY <1>1, <1>2, <1>4, <1>6, <2>1, <2>2 DEF MayMerge, hi
<1> HIDE DEF t, B2
<1>11. IsMerged(m, b, B, q, hi, F, 1, t)
  BY <1>10, MergeTags
<1>12. /\ Tiled(t, b, B2) /\ Linked(t, F) /\ q \in B2
       /\ BlockSize(t, q) = s /\ NextBlock(t, q) = hi /\ ~IsFree(t, q)
       /\ SameBlocks(m, t, B2 \ {q}) /\ Keeps(m, t, B2 \ {q})
       /\ \A i \in Words : i # q - 4 /\ i # hi - 8 => t[i] = m[i]
  BY <1>6, <1>11 DEF IsMerged, B2
<1>13. F \in SUBSET B2 /\ r = RemoveNode(t, q)
  BY <1>0, <1>2, <1>9 DEF t, s
<1>14. Tiled(r, b, B2) /\ Linked(r, F \ {q}) /\ SameBlocks(t, r, B2)
  BY <1>5, <1>12, <1>13, TakeOff
<1>15. Keeps(t, r, B2 \ F)
  BY <1>5, <1>12, <1>13, TakeOff
<1>16. \A c \in B2 \ {q} : NextBlock(r, c) = NextBlock(m, c) /\ (IsFree(r, c) <=> IsFree(m, c))
  BY <1>12, <1>14 DEF SameBlocks
<1>17. BlockSize(r, q) = s /\ ~IsFree(r, q)
  BY <1>12, <1>14 DEF SameBlocks
<1>18. FreeOf(r, B2) = F \ {q} /\ AllocOf(r, B2) = (A \ {p}) \cup {q}
  BY <1>2, <1>4, <1>5, <1>9, <1>16, <1>17 DEF FreeOf, AllocOf, F, A
<1>19. ASSUME NEW c \in B2, IsFree(r, c) PROVE ~IsFree(r, NextBlock(r, c))
  <2>1. c # q /\ c \in B
    BY <1>9, <1>17, <1>19
  <2>2. NextBlock(r, c) = NextBlock(m, c) /\ ~IsFree(m, NextBlock(m, c))
        /\ NextBlock(m, c) \in B \cup {b}
    BY <1>1, <1>3, <1>16, <1>19, <2>1 DEF NoTwoFree
  <2>3. NextBlock(m, c) # p
    <3>1. c + BlockSize(m, c) <= q \/ q + BlockSize(m, q) <= c
      BY <1>1, <1>4, <2>1, Apart
    <3> QED BY <1>3, <1>4, <1>5, <1>6, <2>1, <3>1
  <2>4. ~IsFree(r, b)
    BY <1>14, BreakIs
  <2> QED BY <1>9, <1>16, <1>17, <2>2, <2>3, <2>4
<1>20. Good(r, b, B2)
  BY <1>14, <1>18, <1>19 DEF Good, NoTwoFree
<1>21. Keeps(m, r, A \ {p})
  <2>1. A \ {p} \subseteq B2 \ {q} /\ A \ {p} \subseteq B2 \ F
    BY <1>2, <1>5, <1>9
  <2>2. Keeps(m, t, A \ {p}) /\ Keeps(t, r, A \ {p})
    BY <1>12, <1>15, <2>1, KeepsFewer
  <2> QED BY <2>2, KeepsChain
<1>22. ASSUME NEW i \in Words, InBody(m, p, i) PROVE r[i] = m[i]
  <2>1. i # q - 4 /\ i # p + BlockSize(m, p) - 8
    BY <1>1, <1>2, <1>4, <1>22, BodiesApart
  <2>2. i # hi - 8
    BY <1>2, <1>3, <2>1 DEF hi
  <2>3. t[i] = m[i]
    BY <1>12, <2>1, <2>2
  <2>4. i \notin LinkWords(F)
    <3>1. i # 12 /\ i # 16
      BY <1>1, <1>2, <1>22, BodiesApart
    <3>2. ASSUME NEW f \in F, InBody(m, f, i) PROVE FALSE
      BY <1>1, <1>2, <1>22, <3>2, BodiesApart
    <3> QED BY <1>1, <1>2, <3>1, <3>2, LinksInBodies
  <2>5. r[i] = t[i]
    <3>1. \A j \in Words : j \notin LinkWords(F) => RemoveNode(t, q)[j] = t[j]
      BY <1>5, <1>12, RemoveLinks
    <3> QED BY <1>13, <2>4, <3>1
  <2> QED BY <2>3, <2>5
<1>23. TookPrev(m, b, B, p, q, r, B2)
  BY <1>17, <1>18, <1>20, <1>21, <1>22 DEF TookPrev, A, s
<1> QED BY <1>4, <1>5, <1>23 DEF A

(***************************************************************************)
(* realloc that takes the block after it.  The tags are written while the  *)
(* taken block is listed still: no link is among them, so they might as    *)
(* well have been written after its removal.                               *)
(***************************************************************************)
LEMMA TagThenRemove ==
    ASSUME NEW m, NEW F, Linked(m, F), NEW x \in F,
           NEW c, NEW s, NEW a, c - 4 \in Words, c + s - 8 \in Words,
           c - 4 \notin LinkWords(F), c + s - 8 \notin LinkWords(F)
    PROVE  RemoveNode(Tag(m, c, s, a), x) = Tag(RemoveNode(m, x), c, s, a)
<1> PICK n \in Nat : \E G \in [0 .. n + 1 -> Words] : LinkedBy(m, F, n, G)
  BY DEF Linked
<1> PICK G \in [0 .. n + 1 -> Words] : LinkedBy(m, F, n, G)
  OBVIOUS
<1>1. /\ \A k \in 0 .. n : G[k] + 4 \in LinkWords(F) /\ G[k] + 4 \in Words
      /\ \A k \in 1 .. n + 1 : G[k] \in LinkWords(F)
      /\ \A j \in 0 .. n : m[G[j] + 4] = G[j + 1] /\ m[G[j + 1]] = G[j]
  <2>1. /\ \A k \in 0 .. n : G[k] + 4 \in LinkWords(F) /\ G[k] + 4 \in Words
        /\ \A k \in 1 .. n + 1 : G[k] \in LinkWords(F)
    BY ListedWords DEF Linked
  <2>2. \A j \in 0 .. n : m[G[j] + 4] = G[j + 1] /\ m[G[j + 1]] = G[j]
    BY DEF LinkedBy
  <2> QED BY <2>1, <2>2
<1>2. PICK i \in 1 .. n : G[i] = x
  BY DEF LinkedBy
<1>3. i - 1 \in 0 .. n /\ i \in 0 .. n /\ i + 1 \in 1 .. n + 1 /\ (i - 1) + 1 = i
      /\ i + 1 \in 0 .. n + 1
  OBVIOUS
<1> DEFINE u == c - 4
           v == c + s - 8
           y == PrevNode(m, x) + 4
           z == NextNode(m, x)
           w == PrevNode(m, x)
           t == Tag(m, c, s, a)
<1>4. y \in LinkWords(F) /\ z \in LinkWords(F) /\ y \in Words /\ z \in Words
  <2>1. m[G[(i - 1) + 1]] = G[i - 1] /\ m[G[i] + 4] = G[i + 1]
    BY <1>1, <1>3
  <2>2. w = G[i - 1] /\ z = G[i + 1]
    BY <1>2, <1>3, <2>1 DEF PrevNode, NextNode
  <2> QED BY <1>1, <1>3, <2>2
<1>5. x \in LinkWords(F) /\ x + 4 \in LinkWords(F)
  BY DEF LinkWords
<1>6. m \in [Words -> Nat] /\ u \in Words /\ v \in Words
  BY DEF Linked
<1>7. u # y /\ u # z /\ v # y /\ v # z /\ u # x /\ u # x + 4 /\ v # x /\ v # x + 4
  BY <1>4, <1>5
<1>8. PrevNode(t, x) = w /\ NextNode(t, x) = z
  <2>1. t[x] = m[x] /\ t[x + 4] = m[x + 4]
    <3>1. t = [m EXCEPT ![u] = s + a, ![v] = s + a]
      BY DEF Tag
    <3> HIDE DEF t, u, v
    <3>2. x \in Words /\ x + 4 \in Words
      BY NodeIs DEF Linked
    <3> QED BY <1>6, <1>7, <3>1, <3>2
  <2> QED BY <2>1 DEF PrevNode, NextNode
<1>9. RemoveNode(t, x) = [t EXCEPT ![y] = z, ![z] = w]
  BY <1>8 DEF RemoveNode
<1>10. Tag(RemoveNode(m, x), c, s, a)
         = [[m EXCEPT ![y] = z, ![z] = w] EXCEPT ![u] = s + a, ![v] = s + a]
  BY DEF RemoveNode, Tag
<1>11. t = [m EXCEPT ![u] = s + a, ![v] = s + a]
  BY DEF Tag
<1> DEFINE e == s + a
<1> HIDE DEF u, v, y, z, w, t, e
<1>12. [[m EXCEPT ![u] = e, ![v] = e] EXCEPT ![y] = z, ![z] = w]
         = [[m EXCEPT ![y] = z, ![z] = w] EXCEPT ![u] = e, ![v] = e]
  BY <1>6, <1>7
<1> QED BY <1>9, <1>10, <1>11, <1>12 DEF t, e

MayTakeNext(m, b, B, p, x, r) ==
    /\ Good(m, b, B) /\ p \in AllocOf(m, B) /\ x = NextBlock(m, p) /\ IsFree(m, x)
    /\ r = RemoveNode(Tag(m, p, BlockSize(m, p) + BlockSize(m, x), 1), x)

TookNext(m, b, B, p, x, r, B2) ==
    /\ Good(r, b, B2) /\ AllocOf(r, B2) = AllocOf(m, B)
    /\ Keeps(m, r, AllocOf(m, B) \ {p})
    /\ BlockSize(r, p) = BlockSize(m, p) + BlockSize(m, x)
    /\ \A i \in Words : InBody(m, p, i) => r[i] = m[i]

LEMMA TakeNextWorks ==
    ASSUME NEW m, NEW b, NEW B, NEW p, NEW x, NEW r, MayTakeNext(m, b, B, p, x, r)
    PROVE  /\ x \in B
           /\ \E B2 : TookNext(m, b, B, p, x, r, B2)
<1>0. /\ Good(m, b, B) /\ p \in AllocOf(m, B) /\ x = NextBlock(m, p) /\ IsFree(m, x)
      /\ r = RemoveNode(Tag(m, p, BlockSize(m, p) + BlockSize(m, x), 1), x)
  BY DEF MayTakeNext
<1> DEFINE F == FreeOf(m, B)
           A == AllocOf(m, B)
           hi == NextBlock(m, x)
           s == BlockSize(m, p) + BlockSize(m, x)
           m1 == RemoveNode(m, x)
           B2 == Merged(B, p, hi)
           F1 == F \ {x}
<1>1. Tiled(m, b, B) /\ Linked(m, F) /\ NoTwoFree(m, B)
  BY <1>0 DEF Good
<1>2. p \in B /\ ~IsFree(m, p) /\ p \notin F /\ A = B \ F /\ F \subseteq B
  BY <1>0 DEF AllocOf, FreeOf
<1>3. \A c \in B : c \in Nat /\ BlockSize(m, c) \in Nat /\ NextBlock(m, c) \in B \cup {b}
                   /\ NextBlock(m, c) = c + BlockSize(m, c) /\ BlockSize(m, c) >= 16
  BY <1>1, BlockIs, PlacedWords DEF Placed
<1>4. x \in B /\ x \in F /\ x \notin A
  <2>1. x \in B
    BY <1>0, <1>1, <1>2, <1>3, BreakIs
  <2> QED BY <1>0, <2>1 DEF F, A, FreeOf, AllocOf
<1>5. /\ hi - p = s /\ s \in Nat /\ hi \in Nat /\ p \in Nat /\ x \in Nat
      /\ x = p + BlockSize(m, p) /\ hi = x + BlockSize(m, x) /\ p < x /\ x < hi
      /\ hi \in B \cup {b}
  BY <1>0, <1>2, <1>3, <1>4
<1>6. p - 4 \notin LinkWords(F) /\ p + s - 8 \notin LinkWords(F)
      /\ p - 4 \in Words /\ p + s - 8 \in Words
  <2>1. /\ p - 4 \notin LinkWords(F) /\ x + BlockSize(m, x) - 8 \notin LinkWords(F)
    BY <1>1, <1>2, <1>4, TagsNoLinks
  <2>2. p - 4 \in Words /\ x + BlockSize(m, x) - 8 \in Words
    BY <1>1, <1>2, <1>4, BlockIs, PlacedWords
  <2>3. p + s - 8 = x + BlockSize(m, x) - 8
    BY <1>2, <1>3, <1>4, <1>5
  <2> QED BY <2>1, <2>2, <2>3
<1>7. \A i \in Words : i \notin LinkWords(F) => m1[i] = m[i]
  BY <1>1, <1>4, RemoveLinks
<1> HIDE DEF F, A, hi, s, m1
<1>8. r = Tag(m1, p, s, 1)
  <2>1. RemoveNode(Tag(m, p, s, 1), x) = Tag(RemoveNode(m, x), p, s, 1)
    BY <1>1, <1>4, <1>6, TagThenRemove
  <2> QED BY <1>0, <2>1 DEF s, m1
<1>9. Tiled(m1, b, B) /\ Linked(m1, F1) /\ SameBlocks(m, m1, B)
  BY <1>1, <1>2, <1>4, TakeOff DEF m1
<1>10. Keeps(m, m1, B \ F)
  BY <1>1, <1>2, <1>4, TakeOff DEF m1
<1>11. NextBlock(m1, x) = hi
  BY <1>4, <1>9 DEF SameBlocks, hi
<1>12. ASSUME NEW c \in B \ {x} PROVE c \in B2
  <2>1. p < c => x <= c
    BY <1>0, <1>1, <1>2 DEF Tiled
  <2>2. x < c => hi <= c
    BY <1>1, <1>4 DEF Tiled, hi
  <2>3. c \in Nat /\ c # x
    BY <1>3
  <2> QED BY <1>5, <2>1, <2>2, <2>3 DEF Merged
<1>13. B2 = B \ {x}
  <2>1. B2 \subseteq B /\ x \notin B2
    BY <1>5 DEF Merged
  <2> HIDE DEF B2
  <2> QED BY <1>12, <2>1
<1>14. MayMerge(m1, b, B, p, x, F1) /\ r = Tag(m1, p, hi - p, 1)
  <2>1. F1 \subseteq Merged(B, p, NextBlock(m1, x))
    BY <1>2, <1>11, <1>13
  <2>2. p <= x
    BY <1>5
  <2> QED BY <1>2, <1>4, <1>5, <1>8, <1>9, <2>1, <2>2 DEF MayMerge
<1> HIDE DEF B2
<1>15. IsMerged(m1, b, B, p, hi, F1, 1, r)
  BY <1>11, <1>14, MergeTags
<1>16. /\ Tiled(r, b, B2) /\ Linked(r, F1) /\ p \in B2
       /\ BlockSize(r, p) = s /\ ~IsFree(r, p)
       /\ SameBlocks(m1, r, B2 \ {p}) /\ Keeps(m1, r, B2 \ {p})
       /\ \A i \in Words : i # p - 4 /\ i # hi - 8 => r[i] = m1[i]
  BY <1>5, <1>15 DEF IsMerged, B2
<1>17. \A c \in B2 \ {p} : NextBlock(r, c) = NextBlock(m, c) /\ (IsFree(r, c) <=> IsFree(m, c))
  BY <1>9, <1>13, <1>16 DEF SameBlocks
<1>18. FreeOf(r, B2) = F1 /\ AllocOf(r, B2) = A
  <2>1. A \subseteq B2 /\ F1 \subseteq B2 /\ B2 = A \cup F1 /\ A \cap F1 = {}
    BY <1>2, <1>4, <1>13
  <2>2. \A c \in B2 : IsFree(m, c) <=> c \in F1
    BY <1>4, <1>13 DEF F, FreeOf
  <2>3. \A c \in B2 : IsFree(r, c) <=> c \in F1
    BY <1>2, <1>16, <1>17, <2>2
  <2> QED BY <2>1, <2>3 DEF FreeOf, AllocOf
<1>19. ASSUME NEW c \in B2, IsFree(r, c) PROVE ~IsFree(r, NextBlock(r, c))
  <2>1. c # p /\ c \in B
    BY <1>13, <1>16, <1>19
  <2>2. NextBlock(r, c) = NextBlock(m, c) /\ ~IsFree(m, NextBlock(m, c))
        /\ NextBlock(m, c) \in B \cup {b}
    BY <1>1, <1>3, <1>17, <1>19, <2>1 DEF NoTwoFree
  <2>3. NextBlock(m, c) # x
    BY <1>0, <2>2
  <2>4. ~IsFree(r, b)
    BY <1>16, BreakIs
  <2> QED BY <1>13, <1>16, <1>17, <2>2, <2>3, <2>4
<1>20. Good(r, b, B2)
  BY <1>16, <1>18, <1>19 DEF Good, NoTwoFree
<1>21. Keeps(m, r, A \ {p})
  <2>1. A \ {p} \subseteq B2 \ {p} /\ A \ {p} \subseteq B \ F
    BY <1>2, <1>4, <1>13
  <2>2. Keeps(m, m1, A \ {p}) /\ Keeps(m1, r, A \ {p})
    BY <1>10, <1>16, <2>1, KeepsFewer
  <2> QED BY <2>2, KeepsChain
<1>22. ASSUME NEW i \in Words, InBody(m, p, i) PROVE r[i] = m[i]
  <2>1. i # p - 4 /\ i # x + BlockSize(m, x) - 8
    BY <1>1, <1>2, <1>4, <1>22, BodiesApart
  <2>2. i # hi - 8
    <3>1. hi - 8 = x + BlockSize(m, x) - 8
      BY <1>3, <1>4, <1>5
    <3> QED BY <2>1, <3>1
  <2>3. i \notin LinkWords(F)
    <3>1. i # 12 /\ i # 16
      BY <1>1, <1>2, <1>22, BodiesApart
    <3>2. ASSUME NEW f \in F, InBody(m, f, i) PROVE FALSE
      BY <1>1, <1>2, <1>22, <3>2, BodiesApart
    <3> QED BY <1>1, <1>2, <3>1, <3>2, LinksInBodies
  <2> QED BY <1>7, <1>16, <2>1, <2>2, <2>3
<1>23. TookNext(m, b, B, p, x, r, B2)
  BY <1>16, <1>18, <1>20, <1>21, <1>22 DEF TookNext, A, s
<1> QED BY <1>4, <1>23

(***************************************************************************)
(* mm_realloc                                                              *)
(***************************************************************************)

\* What is used of a sound heap, and of a payload's block.
LEMMA SoundParts ==
    ASSUME NEW B, Serving(B)
    PROVE  /\ Holds(mem, brk, B, live) /\ Good(mem, brk, B) /\ Tiled(mem, brk, B)
           /\ DOMAIN live = AllocOf(mem, B) /\ FirstBlock + CHUNKSIZE <= brk
           /\ brk \in Nat /\ brk <= Base + MaxHeap
           /\ \A p \in DOMAIN live :
                 /\ p \in B /\ p \in Nat /\ p % 8 = 0 /\ p >= 40 /\ Mult8(BlockSize(mem, p))
                 /\ BlockSize(mem, p) \in Nat /\ BlockSize(mem, p) >= 16
                 /\ p + BlockSize(mem, p) <= brk
                 /\ live[p] \in Sizes /\ live[p] \in Nat /\ BlockSize(mem, p) >= live[p] + 8
<1>1. Holds(mem, brk, B, live) /\ Good(mem, brk, B) /\ Tiled(mem, brk, B)
      /\ DOMAIN live = AllocOf(mem, B) /\ FirstBlock + CHUNKSIZE <= brk
  BY DEF Serving, Holds, Good
<1>2. brk \in Nat /\ brk <= Base + MaxHeap
  BY <1>1, BreakIs
<1>3. ASSUME NEW p \in DOMAIN live
      PROVE  /\ p \in B /\ live[p] \in Sizes /\ live[p] \in Nat
             /\ BlockSize(mem, p) >= live[p] + 8
  BY <1>1, <1>3, SizesAssumption DEF Holds, Holding, AllocOf
<1>4. ASSUME NEW p \in B
      PROVE  /\ p \in Nat /\ p % 8 = 0 /\ p >= 40 /\ Mult8(BlockSize(mem, p))
             /\ BlockSize(mem, p) \in Nat /\ BlockSize(mem, p) >= 16
             /\ p + BlockSize(mem, p) <= brk
  BY <1>1, <1>4, BlockIs, PlacedWords, HeapSizes DEF Placed
<1> QED BY <1>1, <1>2, <1>3, <1>4

LEMMA FitsHolds ==
    ASSUME NEW room \in Nat, NEW n \in Sizes, FitsIn(room, n)
    PROVE  room >= n + 8
<1>1. n \in Nat /\ n + 8 \in Nat
  BY SizesAssumption
<1>2. Mult8(ALIGN(n + 8)) /\ n + 8 <= ALIGN(n + 8)
  BY <1>1, AlignHolds
<1> QED BY <1>1, <1>2 DEF FitsIn, Mult8

LEMMA PrevStep ==
    ASSUME Sound, damage = "none", NEW p \in DOMAIN live, NEW n \in Sizes, ReallocPrev(p, n)
    PROVE  Promised
<1> PICK B : Serving(B)
  BY DEF Sound
<1> DEFINE A == AllocOf(mem, B)
           q == Before(p)
           s == BlockSize(mem, q) + BlockSize(mem, p)
           r == RemoveNode(Tag(mem, q, s, 1), q)
           k == BlockSize(mem, p) - 8
           m == Copied(r, q, p, k)
<1>1. /\ Holds(mem, brk, B, live) /\ Good(mem, brk, B) /\ Tiled(mem, brk, B)
      /\ DOMAIN live = A /\ FirstBlock + CHUNKSIZE <= brk
      /\ brk \in Nat /\ brk <= Base + MaxHeap
      /\ p \in B /\ p \in Nat /\ p % 8 = 0 /\ p >= 40
      /\ BlockSize(mem, p) \in Nat /\ BlockSize(mem, p) >= 16
      /\ p + BlockSize(mem, p) <= brk
      /\ live[p] \in Nat /\ BlockSize(mem, p) >= live[p] + 8
  BY SoundParts
<1>2. /\ IsFree(mem, q) /\ FitsIn(s, n) /\ Received(m, p, q, n) /\ brk' = brk
      /\ damage' = "overlapping copy" \/ damage' = "none"
  BY DEF ReallocPrev, TakesPrev, Curr
<1>3. q = PrevBlock(mem, p) /\ p \in A
  BY <1>1 DEF Before
<1> HIDE DEF q, r, m
<1>4. /\ q \in B /\ q \notin A /\ q + BlockSize(mem, q) = p
      /\ \E B2 : TookPrev(mem, brk, B, p, q, r, B2)
  <2>1. MayTakePrev(mem, brk, B, p, q, r)
    BY <1>1, <1>2, <1>3 DEF MayTakePrev, r
  <2> QED BY <2>1, TakePrevWorks
<1> PICK B2 : TookPrev(mem, brk, B, p, q, r, B2)
  BY <1>4
<1>5. /\ Good(r, brk, B2) /\ AllocOf(r, B2) = (A \ {p}) \cup {q}
      /\ Keeps(mem, r, A \ {p})
      /\ BlockSize(r, q) = s
      /\ \A i \in Words : InBody(mem, p, i) => r[i] = mem[i]
  BY DEF TookPrev
<1> HIDE DEF A
<1>6. q \in Nat /\ q % 8 = 0 /\ BlockSize(mem, q) \in Nat /\ BlockSize(mem, q) >= 16
  BY <1>1, <1>4, BlockIs, PlacedWords DEF Placed
<1>7. k \in Nat /\ p + k <= Base + MaxHeap /\ s \in Nat /\ s >= n + 8 /\ k + 8 <= s
  <2>1. s \in Nat
    BY <1>1, <1>6
  <2>2. Base + MaxHeap \in Nat
    BY HeapSizes DEF Mult8
  <2>3. s >= n + 8
    <3> HIDE DEF s
    <3> QED BY <1>2, <2>1, FitsHolds
  <2>4. k \in Nat /\ k + 8 <= s
    BY <1>1, <1>6
  <2>5. p + k <= brk
    BY <1>1
  <2> QED BY <1>1, <2>1, <2>2, <2>3, <2>4, <2>5
<1> HIDE DEF k, s
<1>8. r \in [Words -> Nat] /\ Tiled(r, brk, B2) /\ q \in AllocOf(r, B2) /\ q \in B2
  BY <1>5 DEF Good, Tiled, AllocOf
<1>9. /\ m \in [Words -> Nat]
      /\ \A i \in Words : i \notin PayloadWords(q, k) => m[i] = r[i]
      /\ \A i \in PayloadWords(q, k) : m[i] = r[i - q + p]
  <2>1. p >= 8
    BY <1>1
  <2>2. IsCopied(r, q, p, k)
    BY <1>1, <1>6, <1>7, <1>8, <2>1, CopiedIs
  <2> QED BY <2>2 DEF IsCopied, m
<1>10. \A i \in Words : ~InBody(r, q, i) => m[i] = r[i]
  <2>1. k <= BlockSize(r, q) - 8
    BY <1>5, <1>7
  <2>2. \A i \in PayloadWords(q, k) : InBody(r, q, i)
    BY <1>7, <1>8, <2>1, PayloadIn
  <2> QED BY <1>9, <2>2
<1>11. /\ Good(m, brk, B2) /\ AllocOf(m, B2) = (A \ {p}) \cup {q} /\ BlockSize(m, q) = s
       /\ Keeps(r, m, AllocOf(r, B2) \ {q})
  <2>1. /\ Good(m, brk, B2) /\ AllocOf(m, B2) = AllocOf(r, B2) /\ SameBlocks(r, m, B2)
        /\ Keeps(r, m, AllocOf(r, B2) \ {q})
    BY <1>5, <1>8, <1>9, <1>10, BodyWrite
  <2> QED BY <1>5, <1>8, <2>1 DEF SameBlocks
<1>12. Keeps(mem, m, A \ {p})
  <2>1. AllocOf(r, B2) \ {q} = A \ {p}
    BY <1>4, <1>5
  <2> QED BY <1>5, <1>11, <2>1, KeepsChain
<1>13. ASSUME NEW i \in PayloadWords(p, live[p]), i < p + n PROVE m[i - p + q] = mem[i]
  <2>1. live[p] <= BlockSize(mem, p) - 8
    BY <1>1
  <2>2. InBody(mem, p, i) /\ i \in Words /\ i \in Nat /\ p <= i /\ i < p + live[p]
    BY <1>1, <1>13, <2>1, PayloadIn
  <2>3. i - p + q \in PayloadWords(q, k)
    <3>1. q + k <= Base + MaxHeap /\ q >= 8
      <4>1. Base + MaxHeap \in Nat
        BY HeapSizes DEF Mult8
      <4>2. q >= 40
        BY <1>1, <1>4, BlockIs, HeapSizes
      <4> QED BY <1>1, <1>4, <1>6, <1>7, <4>1, <4>2
    <3>2. i \in PayloadWords(p, k)
      <4>1. i < p + k
        BY <1>1, <2>2 DEF k
      <4> QED BY <2>2, <4>1 DEF PayloadWords
    <3>3. i - p + q \in Words
      BY <1>1, <1>6, <1>7, <3>1, <3>2, CopyWords
    <3>4. q <= i - p + q /\ i - p + q < q + k
      BY <1>1, <1>6, <2>2, <2>1 DEF k
    <3> QED BY <3>3, <3>4 DEF PayloadWords
  <2>4. (i - p + q) - q + p = i
    BY <1>1, <1>6, <2>2
  <2>5. m[i - p + q] = r[i]
    BY <1>9, <2>3, <2>4
  <2> QED BY <1>5, <2>2, <2>5
<1>14. q \notin A \ {p} /\ BlockSize(m, q) >= n + 8
  BY <1>4, <1>7, <1>11
<1>15. /\ Holds(mem', brk, B2, live') /\ kept' \in BOOLEAN /\ (Fills => kept')
       /\ Abstract!Realloc(p, n)
  BY <1>1, <1>2, <1>11, <1>12, <1>13, <1>14, ReceivedWorks DEF A
<1>16. CASE damage' = "none"
  <2>1. HeapIInv' /\ TypeOK'
    BY <1>1, <1>2, <1>15, <1>16, ThenSound
  <2> QED BY <1>15, <2>1 DEF Promised, Abstract!Next
<1>17. CASE damage' = "overlapping copy"
  <2>1. HeapIInv'
    BY <1>17 DEF HeapIInv, Damages
  <2>2. TypeOK'
    <3>1. damage' \in Damages
      BY <1>17 DEF Damages
    <3>2. /\ mem' \in [Words -> Nat] /\ Tiled(mem', brk, B2) /\ DOMAIN live' \subseteq B2
          /\ \A c \in DOMAIN live' : live'[c] \in Sizes
      BY <1>15 DEF Holds, Good, Tiled, AllocOf, Holding
    <3>3. \A c \in DOMAIN live' : c \in Words
      BY <3>2, BlockIs, PlacedWords
    <3>4. brk' \in FirstBlock + CHUNKSIZE .. Base + MaxHeap
      <4>1. FirstBlock + CHUNKSIZE \in Nat /\ Base + MaxHeap \in Nat
        BY HeapSizes DEF Mult8
      <4>2. brk \in FirstBlock + CHUNKSIZE .. Base + MaxHeap
        BY <1>1, <4>1
      <4> QED BY <1>2, <4>2
    <3> QED BY <1>15, <3>1, <3>2, <3>3, <3>4 DEF TypeOK
  <2> QED BY <1>15, <2>1, <2>2 DEF Promised, Abstract!Next
<1> QED BY <1>2, <1>16, <1>17

LEMMA NextStep ==
    ASSUME Sound, damage = "none", NEW p \in DOMAIN live, NEW n \in Sizes, ReallocNext(p, n)
    PROVE  Promised
<1> PICK B : Serving(B)
  BY DEF Sound
<1> DEFINE A == AllocOf(mem, B)
           x == After(p)
           s == BlockSize(mem, p) + BlockSize(mem, x)
           r == RemoveNode(Tag(mem, p, s, 1), x)
<1>1. /\ Holds(mem, brk, B, live) /\ Good(mem, brk, B) /\ Tiled(mem, brk, B)
      /\ DOMAIN live = A /\ FirstBlock + CHUNKSIZE <= brk
      /\ p \in B /\ p \in Nat /\ BlockSize(mem, p) \in Nat
      /\ live[p] \in Nat /\ BlockSize(mem, p) >= live[p] + 8
  BY SoundParts
<1>2. /\ IsFree(mem, x) /\ FitsIn(s, n) /\ Received(r, p, p, n) /\ brk' = brk
      /\ damage' = "none"
  BY DEF ReallocNext, TakesNext, Curr
<1>3. x = NextBlock(mem, p) /\ p \in A
  BY <1>1 DEF After
<1> HIDE DEF x, r
<1>4. x \in B /\ \E B2 : TookNext(mem, brk, B, p, x, r, B2)
  <2>1. MayTakeNext(mem, brk, B, p, x, r)
    BY <1>1, <1>2, <1>3 DEF MayTakeNext, r
  <2> QED BY <2>1, TakeNextWorks
<1> PICK B2 : TookNext(mem, brk, B, p, x, r, B2)
  BY <1>4
<1>5. /\ Good(r, brk, B2) /\ AllocOf(r, B2) = A /\ Keeps(mem, r, A \ {p})
      /\ BlockSize(r, p) = s
      /\ \A i \in Words : InBody(mem, p, i) => r[i] = mem[i]
  BY DEF TookNext
<1>6. BlockSize(r, p) >= n + 8
  <2>1. s \in Nat
    BY <1>1, <1>4, BlockIs, PlacedWords
  <2> HIDE DEF s
  <2> QED BY <1>2, <1>5, <2>1, FitsHolds
<1>7. ASSUME NEW i \in PayloadWords(p, live[p]), i < p + n PROVE r[i - p + p] = mem[i]
  <2>1. live[p] <= BlockSize(mem, p) - 8
    BY <1>1
  <2>2. InBody(mem, p, i) /\ i \in Words /\ i \in Nat
    BY <1>1, <2>1, PayloadIn
  <2>3. i - p + p = i
    BY <1>1, <2>2
  <2> QED BY <1>5, <2>2, <2>3
<1>8. AllocOf(r, B2) = (AllocOf(mem, B) \ {p}) \cup {p} /\ p \notin AllocOf(mem, B) \ {p}
  BY <1>3, <1>5
<1>9. /\ Holds(mem', brk, B2, live') /\ kept' \in BOOLEAN /\ (Fills => kept')
      /\ Abstract!Realloc(p, n)
  BY <1>1, <1>2, <1>5, <1>6, <1>7, <1>8, ReceivedWorks
<1>10. HeapIInv' /\ TypeOK'
  BY <1>1, <1>2, <1>9, ThenSound
<1> QED BY <1>9, <1>10 DEF Promised, Abstract!Next

\* The case that leaves two blocks on the list does damage, but the block it
\* returns is where the payload may lie.
LEMMA BothStep ==
    ASSUME Sound, damage = "none", NEW p \in DOMAIN live, NEW n \in Sizes, ReallocBoth(p, n)
    PROVE  Promised
<1> PICK B : Serving(B)
  BY DEF Sound
<1> DEFINE q == Before(p)
           x == After(p)
           s == BlockSize(mem, q) + BlockSize(mem, p) + BlockSize(mem, x)
           t == Tag(mem, q, s, 1)
           k == BlockSize(mem, p) - 8
           m == Copied(t, q, p, k)
<1>1. /\ Tiled(mem, brk, B) /\ DOMAIN live = AllocOf(mem, B) /\ FirstBlock + CHUNKSIZE <= brk
      /\ brk \in Nat /\ brk <= Base + MaxHeap /\ Mult8(BlockSize(mem, p))
      /\ p \in B /\ p \in Nat /\ p % 8 = 0 /\ p >= 40
      /\ BlockSize(mem, p) \in Nat /\ BlockSize(mem, p) >= 16
      /\ p + BlockSize(mem, p) <= brk
      /\ n \in Nat
  BY SoundParts, SizesAssumption
<1>2. /\ IsFree(mem, q) /\ IsFree(mem, x) /\ FitsIn(s, n) /\ Received(m, p, q, n)
      /\ brk' = brk /\ damage' = "stale node"
  BY DEF ReallocBoth, TakesBoth, Curr
<1>3. q = PrevBlock(mem, p) /\ x = NextBlock(mem, p) /\ ~IsFree(mem, p)
  BY <1>1 DEF Before, After, AllocOf
<1> HIDE DEF q, x, m
<1>4. q \in B /\ NextBlock(mem, q) = p /\ x \in B
  <2>1. q \in B /\ NextBlock(mem, q) = p
    BY <1>1, <1>2, <1>3, PrevIs
  <2>2. x \in B \cup {brk} /\ ~IsFree(mem, brk)
    BY <1>1, <1>3, BlockIs, BreakIs
  <2> QED BY <1>2, <2>1, <2>2
<1>5. /\ q \in Nat /\ q % 8 = 0 /\ q >= 40 /\ BlockSize(mem, q) \in Nat
      /\ Mult8(BlockSize(mem, q)) /\ Mult8(q)
      /\ q + BlockSize(mem, q) = p
  BY <1>1, <1>4, BlockIs, PlacedWords, HeapSizes DEF Placed
<1>6. /\ x \in Nat /\ BlockSize(mem, x) \in Nat /\ Mult8(BlockSize(mem, x))
      /\ x = p + BlockSize(mem, p) /\ x + BlockSize(mem, x) <= brk
  <2>1. x + BlockSize(mem, x) <= brk /\ Placed(x, BlockSize(mem, x))
    BY <1>1, <1>4, BlockIs
  <2>2. x = p + BlockSize(mem, p)
    BY <1>1, <1>3, BlockIs
  <2> QED BY <2>1, <2>2, PlacedWords DEF Placed
<1>7. Placed(q, s) /\ s \in Nat /\ q + s <= brk
  <2>1. Mult8(BlockSize(mem, q) + BlockSize(mem, p))
    BY <1>1, <1>5, Mult8Sums
  <2>2. Mult8(s)
    BY <1>6, <2>1, Mult8Sums
  <2>3. s \in Nat /\ s >= 16 /\ q + s <= brk
    BY <1>1, <1>5, <1>6
  <2>4. Base + MaxHeap \in Nat
    BY HeapSizes DEF Mult8
  <2> HIDE DEF s
  <2>5. q + s <= Base + MaxHeap
    BY <1>1, <1>5, <2>3, <2>4
  <2> QED BY <1>5, <2>2, <2>3, <2>5 DEF Placed
<1>8. s >= n + 8
  <2> HIDE DEF s
  <2> QED BY <1>2, <1>7, FitsHolds
<1>9. mem' \in [Words -> Nat]
  <2>1. t \in [Words -> Nat]
    <3>1. mem \in [Words -> Nat]
      BY <1>1 DEF Tiled
    <3> HIDE DEF s
    <3> QED BY <1>7, <3>1, TagIs
  <2>2. k \in Nat /\ p + k <= Base + MaxHeap /\ p >= 8
    <3>1. Base + MaxHeap \in Nat
      BY HeapSizes DEF Mult8
    <3> QED BY <1>1, <3>1
  <2> HIDE DEF t, k
  <2>3. IsCopied(t, q, p, k)
    BY <1>1, <1>5, <2>1, <2>2, CopiedIs
  <2>4. m \in [Words -> Nat]
    BY <2>3 DEF IsCopied, m
  <2> QED BY <1>2, <2>4, FilledIs DEF Received
<1>10. ASSUME NEW c \in DOMAIN live \ {p}
       PROVE  /\ c \in B /\ c \in Nat /\ live[c] \in Sizes /\ live[c] \in Nat
              /\ c + live[c] <= q \/ q + s <= c
  <2>1. /\ c \in B /\ c \in Nat /\ BlockSize(mem, c) \in Nat
        /\ live[c] \in Sizes /\ live[c] \in Nat /\ BlockSize(mem, c) >= live[c] + 8
    BY SoundParts
  <2>2. c # q /\ c # x /\ c # p
    BY <1>1, <1>2 DEF AllocOf
  <2>3. c + BlockSize(mem, c) <= q \/ q + BlockSize(mem, q) <= c
    BY <1>1, <1>4, <2>1, <2>2, Apart
  <2>4. c + BlockSize(mem, c) <= p \/ p + BlockSize(mem, p) <= c
    BY <1>1, <2>1, <2>2, Apart
  <2>5. c + BlockSize(mem, c) <= x \/ x + BlockSize(mem, x) <= c
    BY <1>1, <1>4, <2>1, <2>2, Apart
  <2>6. BlockSize(mem, c) >= 16
    BY <1>1, <2>1, BlockIs DEF Placed
  <2>7. c + live[c] <= q \/ q + s <= c
    BY <1>1, <1>5, <1>6, <2>1, <2>3, <2>4, <2>5, <2>6
  <2> QED BY <2>1, <2>7
<1> HIDE DEF s
<1>11. live' = [i \in (DOMAIN live \ {p}) \cup {q} |-> IF i = q THEN n ELSE live[i]]
  BY <1>2 DEF Received
<1>12. TypeOK'
  <2>1. brk' \in FirstBlock + CHUNKSIZE .. Base + MaxHeap
    <3>1. FirstBlock + CHUNKSIZE \in Nat /\ Base + MaxHeap \in Nat
      BY HeapSizes DEF Mult8
    <3>2. brk \in FirstBlock + CHUNKSIZE .. Base + MaxHeap
      BY <1>1, <3>1
    <3> QED BY <1>2, <3>2
  <2>2. \A c \in DOMAIN live' : c \in Words /\ live'[c] \in Sizes
    <3>1. \A c \in (DOMAIN live \ {p}) \cup {q} : c \in Words
      <4>1. \A c \in B : c \in Words
        BY <1>1, BlockIs, PlacedWords
      <4>2. \A c \in DOMAIN live \ {p} : c \in B
        BY <1>10
      <4> QED BY <1>4, <4>1, <4>2
    <3> QED BY <1>10, <1>11, <3>1
  <2>3. kept' \in BOOLEAN
    BY <1>2 DEF Received
  <2> QED BY <1>2, <1>9, <2>1, <2>2, <2>3 DEF TypeOK, Damages
<1>13. Abstract!Realloc(p, n)
  <2> DEFINE lv == Without(p)
  <2>1. DOMAIN lv = DOMAIN live \ {p} /\ \A c \in DOMAIN lv : lv[c] = live[c]
    BY DEF Without
  <2>2. /\ q .. q + n - 1 \subseteq Base .. Base + MaxHeap - 1
        /\ q \in Base .. Base + MaxHeap - 1
    <3>1. Base = 8 /\ MaxHeap \in Nat
      BY HeapSizes DEF Mult8
    <3> QED BY <1>1, <1>5, <1>7, <1>8, <3>1
  <2>3. ASSUME NEW c \in DOMAIN lv PROVE (q .. q + n - 1) \cap (c .. c + lv[c] - 1) = {}
    <3>1. c \in Nat /\ lv[c] \in Nat /\ (c + lv[c] <= q \/ q + s <= c)
      BY <1>10, <2>1
    <3> HIDE DEF lv
    <3> QED BY <1>1, <1>5, <1>7, <1>8, <3>1
  <2>4. Abstract!Without(live, p) = lv
    BY DEF Abstract!Without, Without
  <2>5. Abstract!Fits(lv, q, n)
    <3> HIDE DEF lv
    <3> QED BY <1>5, <2>2, <2>3 DEF Abstract!Fits, Abstract!Payload
  <2>6. live' = Abstract!With(lv, q, n)
    <3> HIDE DEF lv
    <3>1. Abstract!With(lv, q, n)
            = [c \in (DOMAIN live \ {p}) \cup {q} |-> IF c = q THEN n ELSE lv[c]]
      BY <2>1 DEF Abstract!With
    <3>2. \A c \in (DOMAIN live \ {p}) \cup {q} :
             (IF c = q THEN n ELSE lv[c]) = (IF c = q THEN n ELSE live[c])
      BY <2>1
    <3> QED BY <1>11, <3>1, <3>2
  <2> HIDE DEF lv
  <2> QED BY <2>2, <2>4, <2>5, <2>6 DEF Abstract!Realloc
<1>14. HeapIInv'
  BY <1>2 DEF HeapIInv, Damages
<1> QED BY <1>12, <1>13, <1>14 DEF Promised, Abstract!Next

LEMMA MoveStep ==
    ASSUME Sound, damage = "none", NEW p \in DOMAIN live, NEW n \in Sizes, ReallocMove(p, n)
    PROVE  Promised
<1> PICK B : Serving(B)
  BY DEF Sound
<1> DEFINE A == AllocOf(mem, B)
           r == mm_malloc(mem, brk, n)
           h == r.mem
           q == r.bp
           k == BlockSize(mem, p)
           m == Copied(h, q, p, k)
           f == mm_free(m, p)
<1>1. /\ Holds(mem, brk, B, live) /\ Good(mem, brk, B) /\ Tiled(mem, brk, B)
      /\ DOMAIN live = A /\ FirstBlock + CHUNKSIZE <= brk
      /\ brk \in Nat /\ brk <= Base + MaxHeap
      /\ p \in B /\ p \in A /\ p \in Nat /\ p % 8 = 0 /\ p >= 40
      /\ Mult8(k) /\ k \in Nat /\ k >= 16 /\ p + k <= brk
      /\ live[p] \in Nat /\ k >= live[p] + 8
      /\ n \in Nat
  BY SoundParts, SizesAssumption
<1>2. /\ ~FitsIn(k, n)
      /\ IF q = Null
         THEN damage' = "null copy" /\ UNCHANGED <<mem, brk, live, kept>>
         ELSE brk' = r.brk /\ Received(f, p, q, n) /\ damage' = "none"
  BY DEF ReallocMove, Curr
<1>3. CASE q = Null
  <2>1. damage' = "null copy" /\ UNCHANGED <<mem, brk, live, kept>>
    BY <1>2, <1>3
  <2>2. HeapIInv'
    BY <2>1 DEF HeapIInv, Damages
  <2>3. TypeOK
    BY SoundTypes DEF Damages
  <2>4. TypeOK'
    BY <2>1, <2>3 DEF TypeOK, Damages
  <2> QED BY <2>1, <2>2, <2>4 DEF Promised
<1>4. CASE q # Null
  <2>1. PICK B1 : Serves(mem, brk, B, n, r, B1)
    BY <1>1, <1>4, MallocWorks
  <2>2. /\ Good(h, r.brk, B1) /\ Tiled(h, r.brk, B1) /\ brk <= r.brk /\ q \notin A
        /\ AllocOf(h, B1) = A \cup {q} /\ Keeps(mem, h, A)
        /\ BlockSize(h, q) >= ALIGN(n + 8)
        /\ h \in [Words -> Nat]
    BY <2>1 DEF Serves, Good, Tiled
  <2>3. brk' = r.brk /\ Received(f, p, q, n) /\ damage' = "none"
    BY <1>2, <1>4
  <2> HIDE DEF r, h, q, A, k, f, m
  <2>4. q \in B1 /\ p \in B1 /\ q # p
    BY <1>1, <2>2 DEF AllocOf
  <2>5. /\ q \in Nat /\ q % 8 = 0 /\ BlockSize(h, q) \in Nat /\ Mult8(BlockSize(h, q))
        /\ BlockSize(h, p) = k
    <3>1. Placed(q, BlockSize(h, q))
      BY <2>2, <2>4, BlockIs
    <3>2. BlockSize(h, p) = k
      BY <1>1, <2>2 DEF Keeps, k
    <3> QED BY <3>1, <3>2, PlacedWords DEF Placed
  <2>6. r.brk \in Nat /\ FirstBlock + CHUNKSIZE <= r.brk
    <3>1. r.brk \in Nat
      BY <2>2, BreakIs
    <3>2. FirstBlock + CHUNKSIZE \in Nat
      BY HeapSizes DEF Mult8
    <3> QED BY <1>1, <2>2, <3>1, <3>2
  <2>7. /\ Mult8(ALIGN(n + 8)) /\ ALIGN(n + 8) >= n + 8 /\ k < ALIGN(n + 8)
    <3>1. n + 8 \in Nat
      BY <1>1
    <3>2. Mult8(ALIGN(n + 8)) /\ ALIGN(n + 8) >= n + 8
      BY <3>1, AlignHolds
    <3>3. ~(k >= ALIGN(n + 8))
      BY <1>2 DEF FitsIn
    <3>4. ALIGN(n + 8) \in Nat
      BY <3>2 DEF Mult8
    <3> QED BY <1>1, <3>2, <3>3, <3>4
  <2>8. BlockSize(h, q) >= n + 8 /\ k <= BlockSize(h, q) - 8
    <3>1. k + 8 <= ALIGN(n + 8)
      BY <1>1, <2>7, Mult8Sums
    <3> QED BY <1>1, <2>2, <2>5, <2>7, <3>1 DEF Mult8
  <2>9. p + k <= Base + MaxHeap /\ p >= 8
    <3>1. Base + MaxHeap \in Nat
      BY HeapSizes DEF Mult8
    <3> QED BY <1>1, <3>1
  <2>10. IsCopied(h, q, p, k)
    BY <1>1, <2>2, <2>5, <2>9, CopiedIs
  <2>11. /\ m \in [Words -> Nat]
         /\ \A i \in Words : i \notin PayloadWords(q, k) => m[i] = h[i]
         /\ \A i \in PayloadWords(q, k) : m[i] = h[i - q + p]
    BY <2>10 DEF IsCopied, m
  <2>12. \A i \in Words : ~InBody(h, q, i) => m[i] = h[i]
    <3>1. \A i \in PayloadWords(q, k) : InBody(h, q, i)
      BY <1>1, <2>2, <2>4, <2>8, PayloadIn
    <3> QED BY <2>11, <3>1
  <2>13. /\ Good(m, r.brk, B1) /\ AllocOf(m, B1) = A \cup {q} /\ SameBlocks(h, m, B1)
         /\ Keeps(h, m, A)
    <3>1. q \in AllocOf(h, B1)
      BY <2>2
    <3>2. /\ Good(m, r.brk, B1) /\ AllocOf(m, B1) = AllocOf(h, B1) /\ SameBlocks(h, m, B1)
          /\ Keeps(h, m, AllocOf(h, B1) \ {q})
      BY <2>2, <2>11, <2>12, <3>1, BodyWrite
    <3>3. AllocOf(h, B1) \ {q} = A
      BY <2>2
    <3> QED BY <2>2, <3>2, <3>3
  <2>14. p \in AllocOf(m, B1)
    BY <1>1, <2>13
  <2>15. PICK B2 : Leaves(m, AllocOf(m, B1) \ {p}, f, r.brk, B2)
    BY <2>13, <2>14, FreeWorks DEF f
  <2>16. /\ Good(f, r.brk, B2) /\ AllocOf(f, B2) = (A \cup {q}) \ {p}
         /\ Keeps(m, f, (A \cup {q}) \ {p})
    BY <2>13, <2>15 DEF Leaves
  <2>17. /\ AllocOf(f, B2) = (A \ {p}) \cup {q} /\ q \notin A \ {p}
    BY <2>2, <2>4, <2>16
  <2>18. Keeps(mem, f, A \ {p})
    <3>1. A \ {p} \in SUBSET A /\ A \ {p} \in SUBSET ((A \cup {q}) \ {p})
      OBVIOUS
    <3>2. Keeps(mem, m, A)
      BY <2>2, <2>13, KeepsChain
    <3>3. Keeps(mem, m, A \ {p})
      BY <3>1, <3>2, KeepsFewer
    <3>4. Keeps(m, f, A \ {p})
      BY <2>16, <3>1, KeepsFewer
    <3> QED BY <3>3, <3>4, KeepsChain
  <2>19. BlockSize(m, q) = BlockSize(h, q)
    BY <2>4, <2>13 DEF SameBlocks
  <2>20. BlockSize(f, q) >= n + 8
    <3>1. q \in (A \cup {q}) \ {p}
      BY <2>4
    <3>2. BlockSize(f, q) = BlockSize(m, q)
      BY <2>16, <3>1 DEF Keeps
    <3> QED BY <2>8, <2>19, <3>2
  <2>21. ASSUME NEW i \in PayloadWords(p, live[p]) PROVE f[i - p + q] = mem[i]
    <3>1. live[p] <= BlockSize(mem, p) - 8
      BY <1>1 DEF k
    <3>2. InBody(mem, p, i) /\ i \in Words /\ i \in Nat /\ p <= i /\ i < p + live[p]
      BY <1>1, <3>1, PayloadIn
    <3> DEFINE j == i - p + q
    <3>3. j \in Words
      <4>1. q + live[p] <= Base + MaxHeap /\ q >= 8
        <5>1. q + BlockSize(h, q) <= Base + MaxHeap /\ q >= 16
          BY <2>2, <2>4, BlockIs DEF Placed
        <5>2. Base + MaxHeap \in Nat
          BY HeapSizes DEF Mult8
        <5> QED BY <1>1, <2>5, <2>8, <5>1, <5>2
      <4> QED BY <1>1, <2>5, <4>1, CopyWords
    <3>4. j \in Nat /\ q <= j /\ j < q + k /\ j - q + p = i
      BY <1>1, <2>5, <3>2
    <3> HIDE DEF j
    <3>5. j \in PayloadWords(q, k)
      BY <3>3, <3>4 DEF PayloadWords
    <3>6. m[j] = h[i]
      BY <2>11, <3>4, <3>5
    <3>7. h[i] = mem[i]
      BY <1>1, <2>2, <3>2 DEF Keeps
    <3>8. InBody(m, q, j)
      BY <1>1, <2>5, <2>8, <2>19, <3>4 DEF InBody
    <3>9. f[j] = m[j]
      <4>1. q \in (A \cup {q}) \ {p}
        BY <2>4
      <4> QED BY <2>16, <3>3, <3>8, <4>1 DEF Keeps
    <3> QED BY <3>6, <3>7, <3>9 DEF j
  <2>22. /\ Holds(mem', r.brk, B2, live') /\ kept' \in BOOLEAN /\ (Fills => kept')
         /\ Abstract!Realloc(p, n)
    BY <1>1, <2>3, <2>16, <2>17, <2>18, <2>20, <2>21, ReceivedWorks DEF A
  <2>23. HeapIInv' /\ TypeOK'
    BY <2>3, <2>6, <2>22, ThenSound
  <2> QED BY <2>22, <2>23 DEF Promised, Abstract!Next
<1> QED BY <1>3, <1>4

(***************************************************************************)
(* mm_init                                                                 *)
(***************************************************************************)
LEMMA InitSound == Init => Sound /\ damage = "none" /\ live = <<>>
<1> SUFFICES ASSUME Init PROVE Sound /\ damage = "none" /\ live = <<>>
  OBVIOUS
<1> DEFINE m0 == [q \in Words |-> 0]
           m1 == [m0 EXCEPT ![head + 4] = tail, ![tail] = head,
                            ![Base + 20] = 9, ![Base + 24] = 9, ![Base + 28] = 1]
           r == Extend(m1, FirstBlock, CHUNKSIZE).mem
<1>1. /\ mem = r /\ brk = FirstBlock + CHUNKSIZE /\ live = <<>> /\ kept = TRUE
      /\ damage = "none"
  BY DEF Init
<1>2. head + 4 = 12 /\ tail = 16 /\ head = 8 /\ Base + 20 = 28 /\ Base + 24 = 32
      /\ Base + 28 = 36 /\ FirstBlock = 40 /\ Base = 8
  BY HeapSizes
<1>3. 12 \in Words /\ 16 \in Words /\ 28 \in Words /\ 32 \in Words /\ 36 \in Words
  <2>1. MaxHeap \in Nat /\ MaxHeap >= 48
    BY HeapSizes DEF Mult8
  <2>2. 12 % 4 = 0 /\ 16 % 4 = 0 /\ 28 % 4 = 0 /\ 32 % 4 = 0 /\ 36 % 4 = 0
    BY SMTT(20)
  <2> QED BY <2>1, <2>2, WordsAre
<1>4. m1 = [m0 EXCEPT ![12] = 16, ![16] = 8, ![28] = 9, ![32] = 9, ![36] = 1]
  BY <1>2
<1>5. /\ m1 \in [Words -> Nat]
      /\ m1[12] = 16 /\ m1[16] = 8 /\ m1[28] = 9 /\ m1[32] = 9 /\ m1[36] = 1
  BY <1>3, <1>4
<1> HIDE DEF m1, r
<1>6. Good(m1, FirstBlock, {})
  <2>1. Linked(m1, {})
    BY <1>2, <1>5, NoLinks
  <2>2. Tiled(m1, FirstBlock, {})
    <3>1. Mult8(FirstBlock) /\ FirstBlock <= FirstBlock /\ FirstBlock <= Base + MaxHeap
      <4>1. 40 % 8 = 0
        BY SMTT(20)
      <4> QED BY <1>2, <4>1, HeapSizes DEF Mult8
    <3>2. m1[FirstBlock - 12] = 9 /\ m1[FirstBlock - 8] = 9 /\ m1[FirstBlock - 4] = 1
      BY <1>2, <1>5
    <3> QED BY <1>5, <3>1, <3>2 DEF Tiled
  <2>3. FreeOf(m1, {}) = {} /\ NoTwoFree(m1, {})
    BY DEF FreeOf, NoTwoFree
  <2> QED BY <2>1, <2>2, <2>3 DEF Good
<1>7. FirstBlock + CHUNKSIZE <= Base + MaxHeap
  BY HeapSizes DEF Mult8
<1>8. PICK B2 : Leaves(m1, AllocOf(m1, {}), r, FirstBlock + CHUNKSIZE, B2)
  BY <1>6, <1>7, HeapSizes, ExtendWorks DEF r
<1>9. Good(mem, brk, B2) /\ AllocOf(mem, B2) = {}
  BY <1>1, <1>8 DEF Leaves, AllocOf
<1>10. DOMAIN live = {}
  BY <1>1
<1>11. Serving(B2)
  <2>1. FirstBlock + CHUNKSIZE <= brk
    BY <1>1, HeapSizes DEF Mult8
  <2> QED BY <1>9, <1>10, <2>1 DEF Serving, Holds
<1> QED BY <1>1, <1>11 DEF Sound

(***************************************************************************)
(* The headers chain the tiling: what Chain visits is B.  Every step of it *)
(* is 16 bytes at least, so it gets to the last block.                     *)
(***************************************************************************)
Onward(c) == IF NextBlock(mem, c) >= brk THEN c ELSE NextBlock(mem, c)
Steps(f, n) == f[0] = FirstBlock /\ \A k \in 1 .. n : f[k] = Onward(f[k - 1])

LEMMA NextOnes ==
    ASSUME NEW B, Tiled(mem, brk, B)
    PROVE  /\ \A c \in B : Onward(c) \in B
           /\ CHUNKSIZE + FirstBlock <= brk => FirstBlock \in B
<1>1. \A c \in B : NextBlock(mem, c) \in B \cup {brk} /\ brk \in Nat
  BY BlockIs, BreakIs
<1>2. \A c \in B : Onward(c) \in B
  BY <1>1 DEF Onward
<1>3. ASSUME CHUNKSIZE + FirstBlock <= brk PROVE FirstBlock \in B
  <2>1. FirstBlock \in B \cup {brk} /\ CHUNKSIZE \in Nat /\ CHUNKSIZE >= 16 /\ FirstBlock = 40
    BY HeapSizes DEF Tiled, Mult8
  <2> QED BY <1>3, <2>1
<1> QED BY <1>2, <1>3

LEMMA StepsExist ==
    ASSUME NEW B, Tiled(mem, brk, B), FirstBlock \in B, NEW n \in Nat
    PROVE  \E f \in [0 .. n -> B] : Steps(f, n)
<1> DEFINE Bad == {i \in Nat : ~ \E f \in [0 .. i -> B] : Steps(f, i)}
<1>1. ASSUME Bad # {} PROVE FALSE
  <2>1. PICK i \in Bad : \A j \in Bad : i <= j
    <3>1. Bad \in SUBSET Nat
      OBVIOUS
    <3> HIDE DEF Bad
    <3> QED BY <1>1, <3>1, LeastNatural
  <2>2. i # 0
    <3> DEFINE f == [k \in 0 .. 0 |-> FirstBlock]
    <3>1. f \in [0 .. 0 -> B] /\ Steps(f, 0)
      BY DEF Steps
    <3> HIDE DEF f
    <3>2. 0 \notin Bad
      BY <3>1
    <3> QED BY <2>1, <3>2
  <2>3. i \in Nat /\ i - 1 \in Nat /\ i - 1 \notin Bad
    BY <2>1, <2>2
  <2>4. PICK f \in [0 .. i - 1 -> B] : Steps(f, i - 1)
    BY <2>3
  <2> DEFINE g == [k \in 0 .. i |-> IF k = i THEN Onward(f[i - 1]) ELSE f[k]]
  <2>5. Onward(f[i - 1]) \in B
    <3>1. f[i - 1] \in B
      BY <2>3
    <3> QED BY <3>1, NextOnes
  <2>6. g \in [0 .. i -> B]
    BY <2>3, <2>5
  <2>7. Steps(g, i)
    <3>1. g[0] = FirstBlock
      BY <2>2, <2>3, <2>4 DEF Steps
    <3>2. ASSUME NEW k \in 1 .. i PROVE g[k] = Onward(g[k - 1])
      <4>1. g[k - 1] = f[k - 1]
        BY <2>3
      <4>2. CASE k = i
        BY <2>3, <4>1, <4>2
      <4>3. CASE k # i
        <5>1. k \in 1 .. i - 1 /\ g[k] = f[k]
          BY <2>3, <4>3
        <5>2. f[k] = Onward(f[k - 1])
          BY <2>4, <5>1 DEF Steps
        <5> QED BY <4>1, <5>1, <5>2
      <4> QED BY <4>2, <4>3
    <3> HIDE DEF g
    <3> QED BY <3>1, <3>2 DEF Steps
  <2> HIDE DEF g
  <2> QED BY <2>1, <2>3, <2>6, <2>7
<1> QED BY <1>1

\* The walk of the headers, as Chain defines it.
ChainFrom(g) ==
    [k \in 0 .. MaxHeap \div 16 |->
        IF k = 0 THEN FirstBlock
        ELSE LET p == g[k - 1]
             IN  IF NextBlock(mem, p) >= brk THEN p ELSE NextBlock(mem, p)]

LEMMA ChainSteps ==
    ASSUME NEW B, Tiled(mem, brk, B), FirstBlock \in B
    PROVE  Chain \in [0 .. MaxHeap \div 16 -> B] /\ Steps(Chain, MaxHeap \div 16)
<1> DEFINE N == MaxHeap \div 16
           c == Chain
<1>1. N \in Nat
  BY HeapSizes, SMTT(20) DEF Mult8
<1>2. PICK f \in [0 .. N -> B] : Steps(f, N)
  BY <1>1, StepsExist
<1>3. f = ChainFrom(f)
  <2>1. ASSUME NEW k \in 0 .. N PROVE f[k] = ChainFrom(f)[k]
    <3>1. CASE k = 0
      BY <1>2, <3>1 DEF Steps, ChainFrom
    <3>2. CASE k # 0
      <4>1. k \in 1 .. N
        BY <1>1, <3>2
      <4> QED BY <1>2, <3>2, <4>1 DEF Steps, ChainFrom, Onward
    <3> QED BY <3>1, <3>2
  <2>2. f = [k \in 0 .. N |-> f[k]] /\ ChainFrom(f) = [k \in 0 .. N |-> ChainFrom(f)[k]]
    BY DEF ChainFrom
  <2> QED BY <2>1, <2>2
<1>4. c = ChainFrom(c)
  <2>1. Chain = CHOOSE g : g = ChainFrom(g)
    BY DEF Chain, ChainFrom
  <2> QED BY <1>3, <2>1, Zenon
<1> HIDE DEF c
<1>5. DOMAIN c = 0 .. N /\ c = [k \in 0 .. N |-> c[k]]
  <2>1. DOMAIN ChainFrom(c) = 0 .. N /\ ChainFrom(c) = [k \in 0 .. N |-> ChainFrom(c)[k]]
    BY DEF ChainFrom
  <2> QED BY <1>4, <2>1
<1>6. Steps(c, N)
  <2>1. 0 \in 0 .. N /\ \A k \in 1 .. N : k \in 0 .. N /\ k # 0
    BY <1>1
  <2>2. \A k \in 0 .. N : ChainFrom(c)[k] = IF k = 0 THEN FirstBlock ELSE Onward(c[k - 1])
    BY DEF ChainFrom, Onward
  <2> HIDE DEF N
  <2> QED BY <1>4, <2>1, <2>2 DEF Steps
<1> DEFINE Bad == {k \in 0 .. N : c[k] \notin B}
<1>7. ASSUME Bad # {} PROVE FALSE
  <2>1. PICK k \in Bad : \A j \in Bad : k <= j
    <3>1. Bad \in SUBSET Nat
      BY <1>1
    <3> HIDE DEF Bad
    <3> QED BY <1>7, <3>1, LeastNatural
  <2>2. k \in 1 .. N /\ k - 1 \in 0 .. N
    <3>1. k # 0
      BY <1>6, <2>1 DEF Steps
    <3>2. k \in 0 .. N
      BY <2>1
    <3> QED BY <1>1, <3>1, <3>2
  <2>3. c[k - 1] \in B
    <3>1. k - 1 \notin Bad
      BY <2>1, <2>2
    <3> QED BY <2>2, <3>1
  <2>4. c[k] = Onward(c[k - 1])
    BY <1>6, <2>2 DEF Steps
  <2> QED BY <2>1, <2>3, <2>4, NextOnes
<1>8. \A k \in 0 .. N : c[k] \in B
  BY <1>7
<1>9. c \in [0 .. N -> B]
  BY <1>5, <1>8
<1> QED BY <1>6, <1>9 DEF c

LEMMA BlocksAre ==
    ASSUME NEW B, Tiled(mem, brk, B), FirstBlock \in B
    PROVE  Blocks = B
<1> DEFINE N == MaxHeap \div 16
           Far(k) == \/ Chain[k] >= 40 + 16 * k
                     \/ NextBlock(mem, Chain[k]) = brk
<1>1. N \in Nat /\ MaxHeap \in Nat /\ 16 * N + 8 >= MaxHeap
  <2>1. MaxHeap \in Nat /\ MaxHeap % 8 = 0
    BY HeapSizes DEF Mult8
  <2> QED BY <2>1, SMTT(20)
<1>2. Chain \in [0 .. N -> B] /\ Steps(Chain, N)
  BY ChainSteps
<1>3. \A c \in B : /\ c \in Nat /\ c < brk /\ BlockSize(mem, c) \in Nat
                   /\ BlockSize(mem, c) >= 16
                   /\ NextBlock(mem, c) = c + BlockSize(mem, c) /\ NextBlock(mem, c) <= brk
  BY BlockIs, PlacedWords DEF Placed
<1>4. brk \in Nat /\ brk <= 8 + MaxHeap /\ FirstBlock = 40
  BY BreakIs, HeapSizes
<1> HIDE DEF N
<1> DEFINE Near == {k \in 0 .. N : ~Far(k)}
<1>5. ASSUME Near # {} PROVE FALSE
  <2>1. PICK k \in Near : \A j \in Near : k <= j
    <3>1. Near \in SUBSET Nat
      BY <1>1
    <3> HIDE DEF Near
    <3> QED BY <1>5, <3>1, LeastNatural
  <2>2. k \in 1 .. N /\ k - 1 \in 0 .. N
    <3>1. Chain[0] = 40
      BY <1>2, <1>4 DEF Steps
    <3>2. k # 0
      BY <2>1, <3>1
    <3>3. k \in 0 .. N
      BY <2>1
    <3> QED BY <1>1, <3>2, <3>3
  <2>3. Far(k - 1)
    <3>1. k - 1 \notin Near
      <4> HIDE DEF Near
      <4> QED BY <1>1, <2>1, <2>2
    <3> QED BY <2>2, <3>1
  <2>4. Chain[k] = Onward(Chain[k - 1]) /\ Chain[k - 1] \in B
    BY <1>2, <2>2 DEF Steps
  <2>5. Far(k)
    <3> DEFINE c == Chain[k - 1]
    <3>1. c \in B /\ Chain[k] = Onward(c) /\ (c >= 40 + 16 * (k - 1) \/ NextBlock(mem, c) = brk)
      BY <2>3, <2>4
    <3> HIDE DEF c
    <3>2. CASE NextBlock(mem, c) >= brk
      <4>1. Chain[k] = c /\ NextBlock(mem, c) = brk
        BY <1>3, <1>4, <3>1, <3>2 DEF Onward
      <4> QED BY <4>1
    <3>3. CASE ~(NextBlock(mem, c) >= brk)
      <4>1. Chain[k] = c + BlockSize(mem, c) /\ c >= 40 + 16 * (k - 1)
        BY <1>3, <1>4, <3>1, <3>3 DEF Onward
      <4>2. Chain[k] >= 40 + 16 * k
        BY <1>3, <2>2, <3>1, <4>1
      <4> QED BY <4>2
    <3> QED BY <3>2, <3>3
  <2> QED BY <2>1, <2>5
<1>6. NextBlock(mem, Chain[N]) = brk
  <2>1. Far(N) /\ Chain[N] \in B
    BY <1>1, <1>2, <1>5
  <2> DEFINE c == Chain[N]
  <2>2. c \in B /\ (c >= 40 + 16 * N \/ NextBlock(mem, c) = brk)
    BY <2>1
  <2> HIDE DEF c
  <2>3. c \in Nat /\ c < 8 + MaxHeap
    BY <1>1, <1>3, <1>4, <2>2
  <2>4. ~(c >= 40 + 16 * N)
    BY <1>1, <2>3
  <2> QED BY <2>2, <2>4 DEF c
<1> DEFINE Lost == {c \in B : \A k \in 0 .. N : Chain[k] # c}
<1>7. ASSUME Lost # {} PROVE FALSE
  <2>1. PICK c \in Lost : \A d \in Lost : c <= d
    <3>1. Lost \in SUBSET Nat
      BY <1>3
    <3> HIDE DEF Lost
    <3> QED BY <1>7, <3>1, LeastNatural
  <2>2. c \in B /\ c # FirstBlock /\ \A k \in 0 .. N : Chain[k] # c
    <3>1. Chain[0] = FirstBlock /\ 0 \in 0 .. N
      BY <1>1, <1>2 DEF Steps
    <3> QED BY <2>1, <3>1
  <2>3. PICK d \in B : NextBlock(mem, d) = c
    BY <2>2 DEF Tiled
  <2>4. d < c
    BY <1>3, <2>2, <2>3
  <2>5. d \notin Lost
    <3> HIDE DEF Lost
    <3> QED BY <1>3, <2>1, <2>2, <2>4
  <2>6. PICK k \in 0 .. N : Chain[k] = d
    BY <2>5
  <2>7. CASE k = N
    BY <1>3, <1>4, <1>6, <2>2, <2>3, <2>6, <2>7
  <2>8. CASE k # N
    <3>1. k + 1 \in 1 .. N /\ (k + 1) - 1 = k /\ k + 1 \in 0 .. N
      BY <1>1, <2>8
    <3>2. Chain[k + 1] = Onward(Chain[(k + 1) - 1])
      BY <1>2, <3>1 DEF Steps
    <3>3. Chain[k + 1] = Onward(d)
      BY <2>6, <3>1, <3>2
    <3>4. Onward(d) = c
      BY <1>3, <1>4, <2>2, <2>3 DEF Onward
    <3> QED BY <2>2, <3>1, <3>3, <3>4
  <2> QED BY <2>7, <2>8
<1>8. Blocks = {Chain[k] : k \in 0 .. N}
  BY DEF Blocks, N
<1>9. \A k \in 0 .. N : Chain[k] \in B
  BY <1>2
<1> QED BY <1>7, <1>8, <1>9

(***************************************************************************)
(* The theorems                                                            *)
(***************************************************************************)

\* What a sound heap is, said of the blocks and of the list that walking it
\* finds.
LEMMA SoundHeap ==
    ASSUME NEW B, Serving(B)
    PROVE  /\ Blocks = B /\ Tiled(mem, brk, B) /\ Good(mem, brk, B)
           /\ DOMAIN live = {c \in Blocks : ~IsFree(mem, c)}
           /\ \A p \in DOMAIN live : Holding(mem, p, live[p])
<1>1. /\ Tiled(mem, brk, B) /\ Good(mem, brk, B) /\ DOMAIN live = AllocOf(mem, B)
      /\ FirstBlock + CHUNKSIZE <= brk
      /\ \A p \in DOMAIN live : Holding(mem, p, live[p])
  BY DEF Serving, Holds, Good
<1>2. FirstBlock \in B
  <2>1. CHUNKSIZE + FirstBlock <= brk
    BY <1>1, HeapSizes DEF Mult8
  <2> QED BY <1>1, <2>1, NextOnes
<1>3. Blocks = B
  BY <1>1, <1>2, BlocksAre
<1> QED BY <1>1, <1>3 DEF AllocOf

LEMMA TiledSays ==
    ASSUME HeapIInv, TypeOK
    PROVE  HeapTiled
<1> SUFFICES ASSUME damage = "none"
             PROVE  /\ mem[brk - 4] = 1
                    /\ \E bp \in Blocks : NextBlock(mem, bp) = brk
                    /\ \A bp \in Blocks :
                          LET size == BlockSize(mem, bp)
                          IN  size >= 16 /\ mem[bp + size - 8] = mem[bp - 4]
                    /\ DOMAIN live = {bp \in Blocks : ~IsFree(mem, bp)}
                    /\ \A p \in DOMAIN live : BlockSize(mem, p) >= live[p] + 8
  BY DEF HeapTiled
<1> PICK B : Serving(B)
  BY DEF HeapIInv, Sound
<1>1. /\ Blocks = B /\ Tiled(mem, brk, B)
      /\ DOMAIN live = {c \in Blocks : ~IsFree(mem, c)}
      /\ \A p \in DOMAIN live : Holding(mem, p, live[p])
  BY SoundHeap
<1>2. \E bp \in B : NextBlock(mem, bp) = brk
  <2>1. brk # FirstBlock
    BY HeapSizes DEF Serving, Mult8
  <2> QED BY <1>1, <2>1 DEF Tiled
<1>3. \A bp \in B : BlockSize(mem, bp) >= 16 /\ mem[bp + BlockSize(mem, bp) - 8] = mem[bp - 4]
  BY <1>1 DEF Tiled, BlockIn
<1>4. \A p \in DOMAIN live : BlockSize(mem, p) >= live[p] + 8
  BY <1>1 DEF Holding
<1> QED BY <1>1, <1>2, <1>3, <1>4 DEF Tiled

LEMMA ListSays ==
    ASSUME HeapIInv
    PROVE  FreeListExact
<1> SUFFICES ASSUME damage = "none" PROVE FreeListExact
  BY DEF FreeListExact
<1> PICK B : Serving(B)
  BY DEF HeapIInv, Sound
<1> DEFINE N == MaxHeap \div 8
           F == {bp \in Blocks : IsFree(mem, bp)}
           at == Walk(mem)
<1>1. Linked(mem, F)
  BY SoundHeap DEF Good, FreeOf
<1> HIDE DEF F
<1>2. PICK n \in Nat : \E G \in [0 .. n + 1 -> Words] :
         /\ LinkedBy(mem, F, n, G) /\ n + 2 <= N
         /\ at = [k \in 0 .. N |-> IF k <= n THEN G[k + 1] ELSE tail]
  BY <1>1, WalkIs
<1>3. PICK G \in [0 .. n + 1 -> Words] :
         /\ LinkedBy(mem, F, n, G) /\ n + 2 <= N
         /\ at = [k \in 0 .. N |-> IF k <= n THEN G[k + 1] ELSE tail]
  BY <1>2
<1>4. N \in Nat
  BY HeapSizes, SMTT(20) DEF Mult8
<1> HIDE DEF N, at
<1>5. /\ \A k \in 0 .. n : at[k] = G[k + 1]
      /\ at[n] = tail /\ at[N] = tail /\ 0 \in 0 .. N
      /\ \A k \in 0 .. N : k >= n => at[k] = tail
  <2>1. \A k \in 0 .. n : k \in 0 .. N
    BY <1>3, <1>4
  <2>2. G[n + 1] = tail
    BY <1>3 DEF LinkedBy
  <2> QED BY <1>3, <1>4, <2>1, <2>2
<1>6. /\ G[0] = head /\ \A k \in 1 .. n : G[k] \in F
      /\ \A f \in F : \E k \in 1 .. n : G[k] = f
      /\ \A k \in 1 .. n : G[k] # tail
      /\ \A k \in 0 .. n : PrevNode(mem, G[k + 1]) = G[k]
  <2>1. ASSUME NEW k \in 1 .. n PROVE G[k] # tail
    <3>1. G[n + 1] = tail /\ k \in 0 .. n + 1 /\ n + 1 \in 0 .. n + 1 /\ k # n + 1
      BY <1>3 DEF LinkedBy
    <3> QED BY <1>3, <3>1 DEF LinkedBy
  <2> QED BY <1>3, <2>1 DEF LinkedBy, PrevNode
<1>7. {at[k] : k \in 0 .. N} \ {tail} = F
  <2>1. ASSUME NEW k \in 0 .. N, at[k] # tail PROVE at[k] \in F
    <3>1. k \in 0 .. n /\ k + 1 \in 1 .. n
      BY <1>4, <1>5, <2>1
    <3> QED BY <1>5, <1>6, <3>1
  <2>2. ASSUME NEW f \in F PROVE f # tail /\ \E k \in 0 .. N : at[k] = f
    <3>1. PICK k \in 1 .. n : G[k] = f
      BY <1>6
    <3>2. k - 1 \in 0 .. n /\ k - 1 \in 0 .. N /\ (k - 1) + 1 = k
      BY <1>3, <1>4
    <3>3. at[k - 1] = f
      <4>1. at[k - 1] = G[(k - 1) + 1]
        BY <1>5, <3>2
      <4> QED BY <3>1, <3>2, <4>1
    <3> QED BY <1>6, <3>1, <3>2, <3>3
  <2> QED BY <2>1, <2>2
<1>8. PrevNode(mem, at[0]) = head
  <2>1. 0 \in 0 .. n
    OBVIOUS
  <2>2. at[0] = G[0 + 1] /\ PrevNode(mem, G[0 + 1]) = G[0]
    BY <1>5, <1>6, <2>1
  <2> QED BY <1>6, <2>2
<1>9. ASSUME NEW k \in 1 .. N, at[k - 1] # tail PROVE PrevNode(mem, at[k]) = at[k - 1]
  <2>1. k - 1 \in 0 .. N /\ ~(k - 1 >= n)
    BY <1>4, <1>5, <1>9
  <2>2. k \in 0 .. n /\ k - 1 \in 0 .. n /\ (k - 1) + 1 = k
    BY <1>4, <2>1
  <2>3. at[k] = G[k + 1] /\ at[k - 1] = G[(k - 1) + 1]
    BY <1>5, <2>2
  <2>4. PrevNode(mem, G[k + 1]) = G[k]
    BY <1>6, <2>2
  <2> QED BY <2>2, <2>3, <2>4
<1>10. OnList(mem) = F
  BY <1>7 DEF OnList, at, N
<1> QED BY <1>5, <1>8, <1>9, <1>10 DEF FreeListExact, F, at, N

LEMMA NeighboursSay ==
    ASSUME HeapIInv
    PROVE  NoAdjacentFree
<1> SUFFICES ASSUME damage = "none", NEW bp \in Blocks, IsFree(mem, bp)
             PROVE  ~IsFree(mem, NextBlock(mem, bp))
  BY DEF NoAdjacentFree
<1> PICK B : Serving(B)
  BY DEF HeapIInv, Sound
<1> QED BY SoundHeap DEF Good, NoTwoFree

LEMMA PayloadsSay ==
    ASSUME HeapIInv
    PROVE  PayloadsIntact
<1> SUFFICES ASSUME Fills, damage = "none"
             PROVE  /\ kept
                    /\ \A p \in DOMAIN live : \A q \in PayloadWords(p, live[p]) : mem[q] = Stamp(q)
  BY DEF PayloadsIntact
<1> PICK B : Serving(B)
  BY DEF HeapIInv, Sound
<1>1. kept
  BY DEF HeapIInv, Sound
<1>2. \A p \in DOMAIN live : Holding(mem, p, live[p])
  BY SoundHeap
<1> QED BY <1>1, <1>2 DEF Holding

LEMMA EachStep ==
    ASSUME Sound, damage = "none", Next
    PROVE  Promised
<1>1. CASE \E n \in Sizes : Malloc(n)
  BY <1>1, MallocStep
<1>2. ASSUME NEW p \in DOMAIN live, Free(p) PROVE Promised
  BY <1>2, FreeStep
<1>3. ASSUME NEW p \in DOMAIN live, NEW n \in Sizes, ReallocInPlace(p, n) PROVE Promised
  BY <1>3, InPlaceStep
<1>4. ASSUME NEW p \in DOMAIN live, NEW n \in Sizes, ReallocPrev(p, n) PROVE Promised
  BY <1>4, PrevStep
<1>5. ASSUME NEW p \in DOMAIN live, NEW n \in Sizes, ReallocNext(p, n) PROVE Promised
  BY <1>5, NextStep
<1>6. ASSUME NEW p \in DOMAIN live, NEW n \in Sizes, ReallocBoth(p, n) PROVE Promised
  BY <1>6, BothStep
<1>7. ASSUME NEW p \in DOMAIN live, NEW n \in Sizes, ReallocMove(p, n) PROVE Promised
  BY <1>7, MoveStep
<1> QED BY <1>1, <1>2, <1>3, <1>4, <1>5, <1>6, <1>7 DEF Next

\* Damage stays.
LEMMA DamagedStep ==
    ASSUME HeapIInv, damage # "none", Next
    PROVE  HeapIInv' /\ FollowDamage
<1> SUFFICES damage' \in Damages /\ damage' # "none" /\ FollowDamage
  BY DEF HeapIInv
<1>1. damage \in Damages
  BY DEF HeapIInv
<1>2. CASE \E n \in Sizes : Malloc(n)
  BY <1>1, <1>2 DEF Malloc, Running
<1>3. ASSUME NEW p \in DOMAIN live, Free(p)
      PROVE  damage' \in Damages /\ damage' # "none" /\ FollowDamage
  BY <1>1, <1>3 DEF Free, Running
<1>4. ASSUME NEW p \in DOMAIN live, NEW n \in Sizes,
             ReallocInPlace(p, n) \/ ReallocNext(p, n)
      PROVE  damage' \in Damages /\ damage' # "none" /\ FollowDamage
  BY <1>1, <1>4 DEF ReallocInPlace, ReallocNext, Running
<1>5. ASSUME NEW p \in DOMAIN live, NEW n \in Sizes, ReallocPrev(p, n)
      PROVE  damage' \in Damages /\ damage' # "none" /\ FollowDamage
  <2>1. damage' = "overlapping copy" \/ damage' = damage
    BY <1>5 DEF ReallocPrev
  <2> QED BY <1>1, <1>5, <2>1 DEF ReallocPrev, Running, Damages
<1>6. ASSUME NEW p \in DOMAIN live, NEW n \in Sizes, ReallocBoth(p, n)
      PROVE  damage' \in Damages /\ damage' # "none" /\ FollowDamage
  BY <1>6 DEF ReallocBoth, Running, Damages
<1>7. ASSUME NEW p \in DOMAIN live, NEW n \in Sizes, ReallocMove(p, n)
      PROVE  damage' \in Damages /\ damage' # "none" /\ FollowDamage
  <2>1. damage' = "null copy" \/ damage' = damage
    BY <1>7 DEF ReallocMove
  <2> QED BY <1>1, <1>7, <2>1 DEF ReallocMove, Running, Damages
<1> QED BY <1>2, <1>3, <1>4, <1>5, <1>6, <1>7 DEF Next

LEMMA SameIInv ==
    ASSUME HeapIInv, UNCHANGED vars
    PROVE  HeapIInv'
BY DEF vars, HeapIInv, Sound, Serving

\* Until a realloc does damage, the heap is a tiling of blocks without two
\* free neighbours, its free ones are listed, once each and in both
\* directions, and its allocated ones hold the client's payloads: what every
\* operation of mm.c takes for granted when it follows a tag or a link.
THEOREM HeapInvariance == Spec => []HeapIInv
<1>1. Init => HeapIInv
  BY InitSound DEF HeapIInv, Damages
<1>2. HeapIInv /\ [Next]_vars => HeapIInv'
  <2> SUFFICES ASSUME HeapIInv, [Next]_vars PROVE HeapIInv'
    OBVIOUS
  <2>1. CASE UNCHANGED vars
    BY <2>1, SameIInv
  <2>2. CASE Next /\ damage = "none"
    BY <2>2, EachStep DEF HeapIInv, Promised
  <2>3. CASE Next /\ damage # "none"
    BY <2>3, DamagedStep
  <2> QED BY <2>1, <2>2, <2>3
<1> QED BY <1>1, <1>2, PTL DEF Spec

\* find_fit, coalesce and realloc meet the free blocks on the list, each of
\* them and nothing else (insert_node, remove_node).
THEOREM FreeListIsExact == Spec => []FreeListExact
<1>1. HeapIInv => FreeListExact
  BY ListSays
<1> QED BY <1>1, HeapInvariance, PTL

\* coalesce is enough: no call leaves two free blocks side by side, although
\* it looks one block to each side only.
THEOREM NoNeighboursFree == Spec => []NoAdjacentFree
<1>1. HeapIInv => NoAdjacentFree
  BY NeighboursSay
<1> QED BY <1>1, HeapInvariance, PTL

\* What the client wrote stays as it was until it frees it: no tag and no
\* link is written into a payload, and the data realloc moves arrive
\* (mm_malloc, mm_free, mm_realloc).
THEOREM PayloadsAreIntact == Spec => []PayloadsIntact
<1>1. HeapIInv => PayloadsIntact
  BY PayloadsSay
<1> QED BY <1>1, HeapInvariance, PTL

\* Behaviours that stop at the damage.
LEMMA StopsAtDamage ==
    ASSUME ~FollowDamage, HeapIInv, TypeOK, [Next]_vars
    PROVE  TypeOK' /\ [Abstract!Next]_live
<1>1. CASE UNCHANGED vars
  BY <1>1 DEF vars, TypeOK
<1>2. CASE Next /\ damage = "none"
  BY <1>2, EachStep DEF HeapIInv, Promised
<1>3. CASE Next /\ damage # "none"
  BY <1>3, DamagedStep
<1> QED BY <1>1, <1>2, <1>3

LEMMA TypesAreKept == ~FollowDamage => (Spec => []TypeOK)
<1> SUFFICES ASSUME ~FollowDamage PROVE Spec => []TypeOK
  OBVIOUS
<1>1. Init => TypeOK
  BY InitSound, SoundTypes DEF Damages
<1>2. HeapIInv /\ TypeOK /\ [Next]_vars => TypeOK'
  BY StopsAtDamage
<1> QED BY <1>1, <1>2, HeapInvariance, PTL DEF Spec

\* Where a behaviour ends with the realloc that does damage, the headers
\* chain the heap from prologue to epilogue, the footers agree with them and
\* the allocated blocks are the client's, none too small for its payload.
\* (Where it goes on, the words of the heap may be anything.)
THEOREM HeapIsTiled == ~FollowDamage => (Spec => []HeapTiled)
<1> SUFFICES ASSUME ~FollowDamage PROVE Spec => []HeapTiled
  OBVIOUS
<1>1. Spec => []TypeOK
  BY TypesAreKept
<1>2. HeapIInv /\ TypeOK => HeapTiled
  BY TiledSays
<1> QED BY <1>1, <1>2, HeapInvariance, PTL

\* There mm_malloc, mm_free and mm_realloc, the damaging calls included, do
\* what Allocator says: every payload is aligned, in the heap and apart from
\* the others.
THEOREM MallocIsAllocator == ~FollowDamage => (Spec => IsAllocator)
<1> SUFFICES ASSUME ~FollowDamage PROVE Spec => IsAllocator
  OBVIOUS
<1>1. Init => Abstract!Init
  BY InitSound DEF Abstract!Init
<1>2. HeapIInv /\ TypeOK /\ [Next]_vars => [Abstract!Next]_live
  BY StopsAtDamage
<1>3. Spec => []TypeOK
  BY TypesAreKept
<1> QED BY <1>1, <1>2, <1>3, HeapInvariance, PTL DEF Spec, IsAllocator, Abstract!Spec
=============================================================================
