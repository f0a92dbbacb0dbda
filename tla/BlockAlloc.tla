----------------------------- MODULE BlockAlloc -----------------------------
(***************************************************************************)
(* malloc, realloc and free over the wmem block allocator                  *)
(* (library/wmem/wmem_allocator_block.c), the allocator every program of   *)
(* this C library uses unless it asks for another one.                     *)
(*                                                                         *)
(* Memory comes from the system in blocks.  A block is a row of chunks,    *)
(* each with a header: `len' and `prev' map the address of a chunk to its  *)
(* own length and to that of the chunk before it, `last' and `used' are    *)
(* the chunks with these flags set.  The free chunks are found through two *)
(* lists: `recycler', circular, the head first, and the master list.  A    *)
(* block is requested only when the master list is empty, so that list     *)
(* never holds more than one chunk: `master', or NULL.                     *)
(*                                                                         *)
(* Every call runs from __memory_lock to __memory_unlock, so it is one     *)
(* step.  What the program holds is kept in `live': the size it asked for, *)
(* by pointer.                                                             *)
(***************************************************************************)
EXTENDS Integers, Sequences, Functions

CONSTANTS
    BLOCK_SIZE,     \* WMEM_BLOCK_SIZE
    ALIGN_AMOUNT,   \* WMEM_ALIGN_AMOUNT
    CHUNK_HEADER,   \* WMEM_CHUNK_HEADER_SIZE
    BLOCK_HEADER,   \* WMEM_BLOCK_HEADER_SIZE
    FREE_SIZE,      \* sizeof(wmem_block_free_t)
    Sizes,          \* the sizes the program asks for
    Bases,          \* the addresses AllocVecTags can return
    MovesJumbo      \* may AllocVecTags return memory other than that just freed

VARIABLES allocator, jumbo, torn, live

vars == <<allocator, jumbo, torn, live>>

NULL == 0

\* The system's blocks do not overlap and are not at address 0.  A jumbo block
\* is as large as the size asked for and both headers.
ASSUME BlockAssumption ==
    /\ BLOCK_SIZE \in Nat /\ ALIGN_AMOUNT \in Nat \ {0}
    /\ {CHUNK_HEADER, BLOCK_HEADER, FREE_SIZE} \subseteq Nat \ {0}
    /\ BLOCK_SIZE >= BLOCK_HEADER + CHUNK_HEADER + FREE_SIZE
    /\ Sizes \subseteq Nat \ {0} /\ Bases \subseteq Nat \ {0}
    /\ MovesJumbo \in BOOLEAN
    /\ \A a, b \in Bases : a < b =>
         /\ a + BLOCK_SIZE <= b
         /\ \A n \in Sizes : a + BLOCK_HEADER + CHUNK_HEADER + n <= b

ALIGN_SIZE(n) == n + ((-n) % ALIGN_AMOUNT)

MAX_ALLOC_SIZE == BLOCK_SIZE - (BLOCK_HEADER + CHUNK_HEADER)

----------------------------------------------------------------------------
(* Chunks. *)

With(f, x, v) == [y \in DOMAIN f \union {x} |-> IF y = x THEN v ELSE f[y]]
Without(f, x) == [y \in DOMAIN f \ {x} |-> f[y]]

\* The flag of x goes to y.
Passed(S, x, y) == IF x \in S THEN (S \ {x}) \union {y} ELSE S

Chunks(a) == DOMAIN a.len
ChunkNext(a, c) == c + a.len[c]
ChunkPrev(a, c) == c - a.prev[c]
DataLen(a, c) == a.len[c] - CHUNK_HEADER

\* Is there room for the links of a free list?
Listable(a, c) == DataLen(a, c) >= FREE_SIZE

Relinked_Not(a, c) == a

\* The chunk after c is told the length of c.
Relinked(a, c) ==
    IF c \in a.last THEN a ELSE [a EXCEPT !.prev = With(@, ChunkNext(a, c), a.len[c])]

\* c takes in d, the chunk after it.
Absorb(a, c, d) ==
    [a EXCEPT !.len = Without(With(@, c, @[c] + @[d]), d),
              !.prev = Without(@, d), !.last = Passed(@, d, c)]

\* c keeps n bytes, header included; the rest becomes a free chunk.
Carve(a, c, n) ==
    Relinked([a EXCEPT !.len = With(With(@, c, n), c + n, @[c] - n),
                       !.prev = With(@, c + n, n), !.last = Passed(@, c, c + n)], c + n)

----------------------------------------------------------------------------
(* The lists of free chunks. *)

IndexOf(s, c) == CHOOSE i \in DOMAIN s : s[i] = c
Unlinked(s, i) == SubSeq(s, 1, i - 1) \o SubSeq(s, i + 1, Len(s))

\* The head is compared with the chunk after it, and the smaller one of the two
\* goes to the end of the round.
CycledHead(a) == IF a.len[a.recycler[2]] < a.len[a.recycler[1]] THEN 1 ELSE 2

cycle_recycler(a) ==
    IF Len(a.recycler) < 2 THEN a
    ELSE LET k == CycledHead(a) IN
         [a EXCEPT !.recycler = [i \in 1..Len(@) |->
             IF i = 1 THEN @[k] ELSE IF i = Len(@) THEN @[3 - k] ELSE @[i + 1]]]

add_to_recycler(a, c) ==
    IF ~Listable(a, c) THEN a
    ELSE [a EXCEPT !.recycler =
             IF @ = <<>> \/ a.len[c] <= a.len[@[1]] THEN Append(@, c) ELSE <<c>> \o @]

remove_from_recycler(a, c) == [a EXCEPT !.recycler = Unlinked(@, IndexOf(@, c))]

pop_master(a) == [a EXCEPT !.master = NULL]

----------------------------------------------------------------------------
(* Merging and splitting. *)

LeftFree_Never(a, c) == FALSE

RightFree(a, c) == c \notin a.last /\ ChunkNext(a, c) \notin a.used
LeftFree(a, c) == a.prev[c] # 0 /\ ChunkPrev(a, c) \notin a.used

\* The chunk that c ends up in, and the headers once it has.
Merged(a, c) == IF LeftFree(a, c) THEN ChunkPrev(a, c) ELSE c

MergedRow(a, c) ==
    LET right == IF RightFree(a, c) THEN Absorb(a, c, ChunkNext(a, c)) ELSE a
        both  == IF LeftFree(a, c) THEN Absorb(right, ChunkPrev(a, c), c) ELSE right
    IN Relinked(both, Merged(a, c))

merge_free(a, c) ==
    LET r     == ChunkNext(a, c)
        l     == ChunkPrev(a, c)
        right == RightFree(a, c) /\ Listable(a, r)
        left  == LeftFree(a, c) /\ Listable(a, l)
        m     == MergedRow(a, c)
    IN IF right /\ r = a.master
       THEN LET n == IF left THEN remove_from_recycler(m, l) ELSE m IN
            [n EXCEPT !.master = Merged(a, c)]
       ELSE LET n == IF right THEN remove_from_recycler(m, r) ELSE m IN
            IF left THEN n ELSE add_to_recycler(n, Merged(a, c))

Unlist(a, c) ==
    IF c = a.master THEN pop_master(a)
    ELSE IF Listable(a, c) THEN remove_from_recycler(a, c) ELSE a

\* c gives its place on its list to d.
Relist(a, c, d) ==
    IF c = a.master THEN [a EXCEPT !.master = d]
    ELSE [a EXCEPT !.recycler = [@ EXCEPT ![IndexOf(@, c)] = d]]

split_free_chunk(a, c, size) ==
    LET n == ALIGN_SIZE(size) + CHUNK_HEADER IN
    IF DataLen(a, c) < n + FREE_SIZE THEN Unlist(a, c)
    ELSE Carve(Relist(a, c, c + n), c, n)

split_used_chunk(a, c, size) ==
    LET n == ALIGN_SIZE(size) + CHUNK_HEADER IN
    IF n > DataLen(a, c) THEN a ELSE merge_free(Carve(a, c, n), c + n)

----------------------------------------------------------------------------
(* Allocating from blocks. *)

new_block(a, b) ==
    LET c == b + BLOCK_HEADER IN
    [a EXCEPT !.len = With(@, c, BLOCK_SIZE - BLOCK_HEADER), !.prev = With(@, c, 0),
              !.last = @ \union {c}, !.master = c]

ServedByRecycler(a, size) == a.recycler # <<>> /\ DataLen(a, a.recycler[1]) >= size

Refilled_Lost(a, size) ==
    IF a.master # NULL /\ DataLen(a, a.master) < size THEN pop_master(a) ELSE a

\* A master chunk that is too small goes to the recycler.
Refilled(a, size) ==
    IF a.master # NULL /\ DataLen(a, a.master) < size
    THEN add_to_recycler(pop_master(a), a.master) ELSE a

\* The allocator with a chunk for `size' bytes at hand, b a block for it if the
\* recycler and the master list have none, and that chunk.
Supplied(a, size, b) ==
    IF ServedByRecycler(a, size) THEN a
    ELSE LET r == Refilled(a, size) IN IF r.master = NULL THEN new_block(r, b) ELSE r

Chosen(a, size, b) ==
    IF ServedByRecycler(a, size) THEN a.recycler[1] ELSE Supplied(a, size, b).master

Used(a, c) == [a EXCEPT !.used = @ \union {c}]
Unused(a, c) == [a EXCEPT !.used = @ \ {c}]

block_alloc(a, size, b) ==
    LET c == Chosen(a, size, b) IN
    Used(cycle_recycler(split_free_chunk(Supplied(a, size, b), c, size)), c)

block_free(a, c) == cycle_recycler(merge_free(Unused(a, c), c))

\* realloc of c in place is possible when the next chunk is free and has the room.
CanGrow(a, c, size) ==
    RightFree(a, c) /\ size < DataLen(a, c) + a.len[ChunkNext(a, c)]

SplitSize_Short(a, c, size) ==
    LET more == size - DataLen(a, c) IN
    IF more <= 2 * CHUNK_HEADER THEN 0 ELSE more - 2 * CHUNK_HEADER

\* How much of the next chunk to split off: its header comes in too.
SplitSize(a, c, size) ==
    LET more == size - DataLen(a, c) IN
    IF more < CHUNK_HEADER THEN 0 ELSE more - CHUNK_HEADER

grow(a, c, size) ==
    LET d == ChunkNext(a, c) IN
    cycle_recycler(Relinked(Absorb(split_free_chunk(a, d, SplitSize(a, c, size)), c, d), c))

shrink(a, c, size) == cycle_recycler(split_used_chunk(a, c, size))

----------------------------------------------------------------------------
(* The calls of the program.  A call that needs memory of the system when   *)
(* there is none is left out: the code uses the NULL it is given.           *)

DataOf(c) == c + CHUNK_HEADER
ChunkOf(p) == p - CHUNK_HEADER
JumboOf(b) == DataOf(b + BLOCK_HEADER)

Spare == {b \in Bases : b \notin DOMAIN jumbo /\ b + BLOCK_HEADER \notin Chunks(allocator)}

\* The blocks a call for `size' bytes may get: none if the lists serve it.
BlocksFor(size) ==
    IF ServedByRecycler(allocator, size) \/ Refilled(allocator, size).master # NULL
    THEN {NULL} ELSE Spare

malloc(size) ==
    /\ size <= MAX_ALLOC_SIZE
    /\ \E b \in BlocksFor(size) :
         /\ allocator' = block_alloc(allocator, size, b)
         /\ live' = With(live, DataOf(Chosen(allocator, size, b)), size)
    /\ UNCHANGED <<jumbo, torn>>

alloc_jumbo(size) ==
    /\ size > MAX_ALLOC_SIZE
    /\ \E b \in Spare :
         /\ jumbo' = With(jumbo, b, size)
         /\ live' = With(live, JumboOf(b), size)
    /\ UNCHANGED <<allocator, torn>>

free(p) ==
    /\ ChunkOf(p) \in Chunks(allocator)
    /\ allocator' = block_free(allocator, ChunkOf(p))
    /\ live' = Without(live, p)
    /\ UNCHANGED <<jumbo, torn>>

free_jumbo(b) ==
    /\ jumbo' = Without(jumbo, b)
    /\ live' = Without(live, JumboOf(b))
    /\ UNCHANGED <<allocator, torn>>

\* realloc that leaves the allocation where it is.
Resize(p, size) ==
    LET c == ChunkOf(p) IN
    /\ c \in Chunks(allocator)
    /\ \/ /\ size > DataLen(allocator, c)
          /\ CanGrow(allocator, c, size)
          /\ allocator' = grow(allocator, c, size)
       \/ /\ size < DataLen(allocator, c)
          /\ allocator' = shrink(allocator, c, size)
       \/ /\ size = DataLen(allocator, c)
          /\ UNCHANGED allocator
    /\ live' = [live EXCEPT ![p] = size]
    /\ UNCHANGED <<jumbo, torn>>

\* realloc that has no room to grow: alloc, copy, free.
Move(p, size) ==
    LET c == ChunkOf(p) IN
    /\ c \in Chunks(allocator)
    /\ size > DataLen(allocator, c)
    /\ ~CanGrow(allocator, c, size)
    /\ IF size > MAX_ALLOC_SIZE
       THEN \E b \in Spare :
              /\ jumbo' = With(jumbo, b, size)
              /\ allocator' = block_free(allocator, c)
              /\ live' = With(Without(live, p), JumboOf(b), size)
       ELSE \E b \in BlocksFor(size) :
              /\ allocator' = block_free(block_alloc(allocator, size, b), c)
              /\ live' = With(Without(live, p), DataOf(Chosen(allocator, size, b)), size)
              /\ UNCHANGED jumbo
    /\ UNCHANGED torn

\* wmem_realloc on memory of the system frees it and asks for other memory, so
\* what the block held, the headers included, is gone unless it is the same.
realloc_jumbo(b, size) ==
    \E new \in IF MovesJumbo THEN Spare \union {b} ELSE {b} :
        /\ jumbo' = With(Without(jumbo, b), new, size)
        /\ live' = With(Without(live, JumboOf(b)), JumboOf(new), size)
        /\ torn' = IF new # b THEN torn \union {new} ELSE torn
        /\ UNCHANGED allocator

Init ==
    /\ allocator = [len |-> <<>>, prev |-> <<>>, last |-> {}, used |-> {},
                    master |-> NULL, recycler |-> <<>>]
    /\ jumbo = <<>> /\ torn = {} /\ live = <<>>

Next ==
    /\ torn = {}
    /\ \/ \E size \in Sizes : malloc(size) \/ alloc_jumbo(size)
       \/ \E p \in DOMAIN live : free(p)
       \/ \E b \in DOMAIN jumbo : free_jumbo(b)
       \/ \E p \in DOMAIN live, size \in Sizes : Resize(p, size) \/ Move(p, size)
       \/ \E b \in DOMAIN jumbo, size \in Sizes : realloc_jumbo(b, size)

Spec == Init /\ [][Next]_vars

----------------------------------------------------------------------------
(* Properties. *)

FreeChunks(a) == Chunks(a) \ a.used

\* The headers describe a row of chunks that fills each block: no two chunks
\* overlap, a chunk that is not the last is followed by a chunk that knows its
\* length, a chunk that is not the first is preceded by one of the length it
\* holds.
TiledBy(a) ==
    \A c \in Chunks(a) :
        /\ a.len[c] >= CHUNK_HEADER
        /\ \A d \in Chunks(a) : c < d => c + a.len[c] <= d
        /\ \E b \in Bases :
             /\ b + BLOCK_HEADER <= c /\ c + a.len[c] <= b + BLOCK_SIZE
             /\ c \in a.last <=> c + a.len[c] = b + BLOCK_SIZE
             /\ a.prev[c] = 0 <=> c = b + BLOCK_HEADER
        /\ c \notin a.last => /\ c + a.len[c] \in Chunks(a)
                              /\ a.prev[c + a.len[c]] = a.len[c]
        /\ a.prev[c] # 0 => /\ c - a.prev[c] \in Chunks(a)
                            /\ a.len[c - a.prev[c]] = a.prev[c]

\* The chunks tile the blocks after every call: what wmem_block_verify_block
\* asserts, and that no two chunks share a byte.
Tiled == TiledBy(allocator)

\* Free space is never in two pieces: no free chunk is followed by a free chunk
\* (wmem_allocator_block.c:84, "prevents us ever having consecutive free chunks").
NoAdjacentFree == \A c \in FreeChunks(allocator) : ~RightFree(allocator, c)

\* Each free chunk with room for the links is on one list, once, and nothing else
\* is: no free space is lost and none is handed out twice (wmem_block_verify).
ListsExact ==
    LET r == allocator.recycler IN
    /\ \A i, j \in DOMAIN r : r[i] = r[j] => i = j
    /\ allocator.master \notin Range(r)
    /\ Range(r) \union ({allocator.master} \ {NULL})
         = {c \in FreeChunks(allocator) : Listable(allocator, c)}

\* The used chunks are those the program holds a pointer to, each as large as the
\* program asked: no call loses, shortens or shares an allocation.
LiveExact ==
    /\ DOMAIN live = {DataOf(c) : c \in allocator.used} \union {JumboOf(b) : b \in DOMAIN jumbo}
    /\ \A c \in allocator.used : c \in Chunks(allocator) /\ live[DataOf(c)] <= DataLen(allocator, c)
    /\ \A b \in DOMAIN jumbo : live[JumboOf(b)] = jumbo[b] /\ b + BLOCK_HEADER \notin Chunks(allocator)

\* realloc of a block too large for the lists keeps what the block holds.
JumboIntact == torn = {}
=============================================================================
