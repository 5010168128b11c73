------------------------------- MODULE Malloc -------------------------------
(***************************************************************************)
(* The allocator lab06_malloc/mm.c on memlib.c's heap, best fit with an    *)
(* explicit free list and boundary tags, and its client as mdriver.c is    *)
(* one: it fills every payload it gets and checks what realloc kept.       *)
(*                                                                         *)
(* The heap is a function from the addresses of its 4-byte words to what   *)
(* they hold: a tag (size + 1 if allocated), a link of the free list, or   *)
(* the client's data, so that a block that is listed by mistake or too     *)
(* small overwrites what it would overwrite.                               *)
(***************************************************************************)
EXTENDS Integers, FiniteSetsExt

CONSTANTS
    CHUNKSIZE,    \* CHUNSIZE: what the heap grows by at least
    MaxHeap,      \* MAX_HEAP
    Sizes,        \* what the client asks for
    Fills,        \* whether the client writes the payloads it gets
    FollowDamage  \* whether behaviours go on after a damaging realloc

ASSUME ChunkAssumption == CHUNKSIZE \in Nat /\ CHUNKSIZE % 8 = 0 /\ CHUNKSIZE >= 16
ASSUME HeapAssumption == MaxHeap \in Nat /\ MaxHeap % 8 = 0 /\ MaxHeap >= 32 + CHUNKSIZE
ASSUME SizesAssumption == Sizes \subseteq Nat \ {0}
ASSUME ClientAssumption == Fills \in BOOLEAN /\ FollowDamage \in BOOLEAN

VARIABLES
    mem,      \* the words of the heap
    brk,      \* mem_brk
    live,     \* the client's payloads: their sizes, by their addresses
    kept,     \* whether the last realloc kept the data
    damage    \* what realloc did that no later call survives, or "none"

vars == <<mem, brk, live, kept, damage>>

Null == 0
Base == 8
head == Base
tail == head + 8
FirstBlock == Base + 32
Words == {Base + 4 * k : k \in 0 .. MaxHeap \div 4 - 1}

Damages == {"none", "stale node", "overlapping copy", "null copy"}

(***************************************************************************)
(* Tags and links                                                          *)
(***************************************************************************)

ALIGN(n) == ((n + 7) \div 8) * 8
GetSize(m, p) == (m[p] \div 8) * 8
IsFree(m, bp) == m[bp - 4] % 2 = 0
BlockSize(m, bp) == GetSize(m, bp - 4)
NextBlock(m, bp) == bp + BlockSize(m, bp)
PrevBlock(m, bp) == bp - GetSize(m, bp - 8)

\* Writes the header and the footer of a block.
Tag(m, bp, size, alloc) ==
    [m EXCEPT ![bp - 4] = size + alloc, ![bp + size - 8] = size + alloc]

PrevNode(m, bp) == m[bp]
NextNode(m, bp) == m[bp + 4]

InsertNode(m, bp) ==
    [m EXCEPT ![bp] = head, ![bp + 4] = NextNode(m, head),
              ![head + 4] = bp, ![NextNode(m, head)] = bp]

RemoveNode(m, bp) ==
    [m EXCEPT ![PrevNode(m, bp) + 4] = NextNode(m, bp),
              ![NextNode(m, bp)] = PrevNode(m, bp)]

(***************************************************************************)
(* The allocator                                                           *)
(***************************************************************************)

\* Mutated: the block after the freed one stays on the list.
CoalesceKeepsNext(m, bp) ==
    LET prev == PrevBlock(m, bp)
        next == NextBlock(m, bp)
        first == IF IsFree(m, prev) THEN prev ELSE bp
        last == IF IsFree(m, next) THEN next ELSE bp
        m1 == IF first = prev THEN RemoveNode(m, bp) ELSE m
    IN  [mem |-> IF first = last THEN m
                 ELSE Tag(m1, first, last + BlockSize(m, last) - first, 0),
         bp |-> first]

\* Mutated: between two free blocks, only the one before it is merged.
CoalesceOneSide(m, bp) ==
    LET prev == PrevBlock(m, bp)
        next == NextBlock(m, bp)
    IN  IF IsFree(m, prev)
        THEN [mem |-> Tag(RemoveNode(m, bp), prev, next - prev, 0), bp |-> prev]
        ELSE IF IsFree(m, next)
        THEN [mem |-> Tag(RemoveNode(m, next), bp, NextBlock(m, next) - bp, 0), bp |-> bp]
        ELSE [mem |-> m, bp |-> bp]

\* bp is on the list; merged with the block before it, it leaves the list,
\* and a free block after it leaves it too.
coalesce(m, bp) ==
    LET prev == PrevBlock(m, bp)
        next == NextBlock(m, bp)
        first == IF IsFree(m, prev) THEN prev ELSE bp
        last == IF IsFree(m, next) THEN next ELSE bp
        m1 == IF first = prev THEN RemoveNode(m, bp) ELSE m
        m2 == IF last = next THEN RemoveNode(m1, next) ELSE m1
    IN  [mem |-> IF first = last THEN m2
                 ELSE Tag(m2, first, last + BlockSize(m, last) - first, 0),
         bp |-> first]

\* mem_sbrk: the old break, NULL (Null) for (void *)-1.
mem_sbrk(b, incr) == IF b + incr > Base + MaxHeap THEN Null ELSE b

\* Mutated: the increment counted in words twice.
BrkAfterWords(b, incr) == b + 4 * incr

BrkAfter(b, incr) == b + incr

\* extend_heap once mem_sbrk has returned b: the epilogue becomes the header
\* of the new block, which is listed and merged with what is before it.
Extend(m, b, size) ==
    LET m1 == Tag(m, b, size, 0)
        m2 == InsertNode([m1 EXCEPT ![b + size - 4] = 1], b)
    IN  coalesce(m2, b)

\* The free list: its nodes from the first on, and the tail from there on.
Walk(m) ==
    LET at[k \in 0 .. MaxHeap \div 8] ==
            IF k = 0 THEN NextNode(m, head)
            ELSE LET p == at[k - 1] IN IF p = tail THEN tail ELSE NextNode(m, p)
    IN  at
OnList(m) == {Walk(m)[k] : k \in 0 .. MaxHeap \div 8} \ {tail}

\* Best fit: the first listed block of the least size that is large enough.
find_fit(m, asize) ==
    LET at == Walk(m)
        fits == {k \in DOMAIN at : at[k] # tail /\ BlockSize(m, at[k]) >= asize}
        best == {k \in fits : \A j \in fits : BlockSize(m, at[k]) <= BlockSize(m, at[j])}
    IN  IF fits = {} THEN Null ELSE at[Min(best)]

\* Mutated: a remainder of 8 bytes, too small for tags and links, is split off.
PlaceSplitsEight(m, bp, asize) ==
    LET size == BlockSize(m, bp)
        m1 == RemoveNode(m, bp)
        m2 == Tag(m1, bp, asize, 1)
    IN  IF size - asize >= 8
        THEN InsertNode(Tag(m2, bp + asize, size - asize, 0), bp + asize)
        ELSE Tag(m1, bp, size, 1)

\* Takes a block off the list, and lists the rest of it if it can be a block.
place(m, bp, asize) ==
    LET size == BlockSize(m, bp)
        m1 == RemoveNode(m, bp)
        m2 == Tag(m1, bp, asize, 1)
    IN  IF size - asize >= 16
        THEN InsertNode(Tag(m2, bp + asize, size - asize, 0), bp + asize)
        ELSE Tag(m1, bp, size, 1)

\* The block for a request: its payload, and header and footer.
asizeOf(n) == IF n <= 8 THEN 16 ELSE ALIGN(n + 8)

\* mm_malloc: the heap after it, and the payload or NULL.
mm_malloc(m, b, n) ==
    LET asize == asizeOf(n)
        fit == find_fit(m, asize)
        more == IF asize > CHUNKSIZE THEN asize ELSE CHUNKSIZE
        old == mem_sbrk(b, more)
        ext == Extend(m, old, more)
    IN  IF fit # Null THEN [mem |-> place(m, fit, asize), brk |-> b, bp |-> fit]
        ELSE IF old = Null THEN [mem |-> m, brk |-> b, bp |-> Null]
        ELSE [mem |-> place(ext.mem, ext.bp, asize), brk |-> BrkAfter(b, more), bp |-> ext.bp]

mm_free(m, bp) ==
    coalesce(InsertNode(Tag(m, bp, BlockSize(m, bp), 0), bp), bp).mem

(***************************************************************************)
(* The client (mdriver.c)                                                  *)
(***************************************************************************)

\* The words of a payload, and the data the client puts in them.
PayloadWords(p, n) == {q \in Words : p <= q /\ q < p + n}
Stamp(q) == 10 * MaxHeap + q
Filled(m, p, n) ==
    [q \in Words |-> IF Fills /\ q \in PayloadWords(p, n) THEN Stamp(q) ELSE m[q]]

\* Mutated: the last word is not copied.
CopiedShort(m, to, from, n) ==
    [q \in Words |-> IF q \in PayloadWords(to, n - 4) THEN m[q - to + from] ELSE m[q]]

\* memcpy of whole words, as mm_realloc calls it.
Copied(m, to, from, n) ==
    [q \in Words |-> IF q \in PayloadWords(to, n) THEN m[q - to + from] ELSE m[q]]

Without(p) == [q \in DOMAIN live \ {p} |-> live[q]]

\* mm_init, on a heap whose bytes happen to be 0.
Init ==
    /\ LET m0 == [q \in Words |-> 0]
           m1 == [m0 EXCEPT ![head + 4] = tail, ![tail] = head,
                            ![Base + 20] = 9, ![Base + 24] = 9, ![Base + 28] = 1]
       IN  mem = Extend(m1, FirstBlock, CHUNKSIZE).mem
    /\ brk = FirstBlock + CHUNKSIZE
    /\ live = <<>> /\ kept = TRUE /\ damage = "none"

Running == damage = "none" \/ (FollowDamage /\ damage # "null copy")

\* mm_malloc of 0 bytes, like one that finds no memory, changes nothing.
Malloc(n) ==
    /\ Running
    /\ LET r == mm_malloc(mem, brk, n)
       IN  /\ brk' = r.brk
           /\ IF r.bp = Null
              THEN UNCHANGED <<mem, live>>
              ELSE /\ mem' = Filled(r.mem, r.bp, n)
                   /\ live' = [q \in DOMAIN live \cup {r.bp} |->
                                  IF q = r.bp THEN n ELSE live[q]]
    /\ UNCHANGED <<kept, damage>>

\* mm_free, and mm_realloc to 0 bytes.
Free(p) ==
    /\ Running
    /\ mem' = mm_free(mem, p)
    /\ live' = Without(p)
    /\ UNCHANGED <<brk, kept, damage>>

(***************************************************************************)
(* mm_realloc of a payload to more than 0 bytes.  (From NULL it is Malloc.) *)
(***************************************************************************)

\* The client checks m, where realloc left its data at q, and fills anew.
Received(m, p, q, n) ==
    /\ kept' = \A i \in PayloadWords(p, IF n < live[p] THEN n ELSE live[p]) :
                  m[i - p + q] = Stamp(i)
    /\ mem' = Filled(m, q, n)
    /\ live' = [i \in (DOMAIN live \ {p}) \cup {q} |->
                   IF i = q THEN n ELSE live[i]]

FitsIn(room, n) == room >= ALIGN(n + 8)
Curr(p) == BlockSize(mem, p)
Before(p) == PrevBlock(mem, p)
After(p) == NextBlock(mem, p)

ReallocInPlace(p, n) ==
    /\ Running
    /\ FitsIn(Curr(p), n)
    /\ Received(mem, p, p, n)
    /\ UNCHANGED <<brk, damage>>

\* Mutated: whether the next block is free is not looked at.
TakesNextAny(p, n) == FitsIn(Curr(p) + BlockSize(mem, After(p)), n)

TakesPrev(p, n) ==
    IsFree(mem, Before(p)) /\ FitsIn(BlockSize(mem, Before(p)) + Curr(p), n)
TakesNext(p, n) ==
    IsFree(mem, After(p)) /\ FitsIn(Curr(p) + BlockSize(mem, After(p)), n)
TakesBoth(p, n) ==
    /\ IsFree(mem, Before(p)) /\ IsFree(mem, After(p))
    /\ FitsIn(BlockSize(mem, Before(p)) + Curr(p) + BlockSize(mem, After(p)), n)

\* memcpy(to, from, n) with to below from: what it leaves is defined, and is
\* what Copied says, when the regions are apart.
Overlaps(to, from, n) == to + n > from

\* The whole of the block before it is taken, its node removed.
ReallocPrev(p, n) ==
    /\ Running
    /\ ~FitsIn(Curr(p), n) /\ TakesPrev(p, n)
    /\ LET q == Before(p)
           m == RemoveNode(Tag(mem, q, BlockSize(mem, q) + Curr(p), 1), q)
       IN  /\ Received(Copied(m, q, p, Curr(p) - 8), p, q, n)
           /\ damage' = IF Overlaps(q, p, Curr(p) - 8) THEN "overlapping copy" ELSE damage
    /\ UNCHANGED brk

ReallocNext(p, n) ==
    /\ Running
    /\ ~FitsIn(Curr(p), n) /\ ~TakesPrev(p, n) /\ TakesNext(p, n)
    /\ LET m == Tag(mem, p, Curr(p) + BlockSize(mem, After(p)), 1)
       IN  Received(RemoveNode(m, After(p)), p, p, n)
    /\ UNCHANGED <<brk, damage>>

\* "remove", where the other cases call remove_node, is the C library's
\* function that deletes a file: the two blocks stay on the free list.
ReallocBoth(p, n) ==
    /\ Running
    /\ ~FitsIn(Curr(p), n) /\ ~TakesPrev(p, n) /\ ~TakesNext(p, n) /\ TakesBoth(p, n)
    /\ LET q == Before(p)
           room == BlockSize(mem, q) + Curr(p) + BlockSize(mem, After(p))
       IN  Received(Copied(Tag(mem, q, room, 1), q, p, Curr(p) - 8), p, q, n)
    /\ damage' = "stale node"
    /\ UNCHANGED brk

\* The data are copied to a new block, even when there was none to be had.
ReallocMove(p, n) ==
    /\ Running
    /\ ~FitsIn(Curr(p), n) /\ ~TakesPrev(p, n) /\ ~TakesNext(p, n) /\ ~TakesBoth(p, n)
    /\ LET r == mm_malloc(mem, brk, n)
       IN  IF r.bp = Null
           THEN damage' = "null copy" /\ UNCHANGED <<mem, brk, live, kept>>
           ELSE /\ brk' = r.brk
                /\ Received(mm_free(Copied(r.mem, r.bp, p, Curr(p)), p), p, r.bp, n)
                /\ UNCHANGED damage

Next ==
    \/ \E n \in Sizes : Malloc(n)
    \/ \E p \in DOMAIN live :
          \/ Free(p)
          \/ \E n \in Sizes :
                \/ ReallocInPlace(p, n) \/ ReallocPrev(p, n) \/ ReallocNext(p, n)
                \/ ReallocBoth(p, n) \/ ReallocMove(p, n)

Spec == Init /\ [][Next]_vars

(***************************************************************************)
(* Properties                                                              *)
(***************************************************************************)

TypeOK ==
    /\ mem \in [Words -> Nat]
    /\ brk \in FirstBlock + CHUNKSIZE .. Base + MaxHeap
    /\ \A p \in DOMAIN live : p \in Words /\ live[p] \in Sizes
    /\ kept \in BOOLEAN
    /\ damage \in Damages

\* The blocks in the order of the heap, as their headers chain them.
Chain ==
    LET at[k \in 0 .. MaxHeap \div 16] ==
            IF k = 0 THEN FirstBlock
            ELSE LET p == at[k - 1]
                 IN  IF NextBlock(mem, p) >= brk THEN p ELSE NextBlock(mem, p)
    IN  at
Blocks == {Chain[k] : k \in 0 .. MaxHeap \div 16}

\* The headers chain blocks of at least 16 bytes from the prologue to the
\* epilogue, each with a footer equal to its header; the allocated ones are
\* the client's, and none is smaller than its payload and its tags.
HeapTiled ==
    /\ TypeOK
    /\ damage = "none" =>
           /\ mem[brk - 4] = 1
           /\ \E bp \in Blocks : NextBlock(mem, bp) = brk
           /\ \A bp \in Blocks :
                 LET size == BlockSize(mem, bp)
                 IN  size >= 16 /\ mem[bp + size - 8] = mem[bp - 4]
           /\ DOMAIN live = {bp \in Blocks : ~IsFree(mem, bp)}
           /\ \A p \in DOMAIN live : BlockSize(mem, p) >= live[p] + 8

\* The free list links the free blocks and nothing else, in both directions,
\* so each of them once.
FreeListExact == damage = "none" =>
    LET at == Walk(mem)
        n == MaxHeap \div 8
    IN  /\ OnList(mem) = {bp \in Blocks : IsFree(mem, bp)}
        /\ at[n] = tail
        /\ PrevNode(mem, at[0]) = head
        /\ \A k \in 1 .. n : at[k - 1] # tail => PrevNode(mem, at[k]) = at[k - 1]

\* Two neighbours are never both free: every free, split and growth of the
\* heap leaves the blocks coalesced.
NoAdjacentFree == damage = "none" =>
    \A bp \in Blocks :
        IsFree(mem, bp) => NextBlock(mem, bp) = brk \/ ~IsFree(mem, NextBlock(mem, bp))

\* No call writes into a payload the client holds, and realloc keeps the
\* data, "mm_realloc did not preserve the data from old block" of
\* mdriver.c:657.
PayloadsIntact == Fills /\ damage = "none" =>
    /\ kept
    /\ \A p \in DOMAIN live : \A q \in PayloadWords(p, live[p]) : mem[q] = Stamp(q)

\* mdriver.c:407, "The payload must not overlap any other payloads".
PayloadsDisjoint ==
    \A p, q \in DOMAIN live : p < q => p + live[p] <= q

\* The calls do what an allocator promises.
Abstract == INSTANCE Allocator WITH
    Addresses <- Base .. Base + MaxHeap - 1, Alignment <- 8

IsAllocator == Abstract!Spec
=============================================================================
