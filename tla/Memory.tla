------------------------------- MODULE Memory -------------------------------
(***************************************************************************)
(* The arithmetic of memory.c and string.c: the pool of a statement, and   *)
(* one String that lives in that pool or on the heap.  A statement keeps   *)
(* its parse tree, its lists and the text it returns this way, and every   *)
(* one of the many callers relies on the sizes computed here.              *)
(*                                                                         *)
(* Bytes are not modelled, only where they lie: a block is a number of     *)
(* bytes from some byte of a chunk.  Whenever the library asks for memory  *)
(* the system may refuse.                                                  *)
(***************************************************************************)
EXTENDS Integers, Sequences, FiniteSets

CONSTANTS
    ChunkSize,  \* POOL_CHUNK_SIZE, 3000 in the code
    Slack,      \* what a string that grows asks for beyond its need, 100
    Requests,   \* the sizes of the allocations made, in bytes
    Texts,      \* the lengths of the texts appended, in bytes
    MaxChunks,  \* bound: the chunks the system gives to one pool
    MaxBlocks,  \* bound: the blocks a pool gives out before it is cleared
    MaxUsed     \* bound: the length of a string

ASSUME ChunkSizeAssumption == ChunkSize \in Nat /\ ChunkSize > 0 /\ ChunkSize % 8 = 0
ASSUME SlackAssumption == Slack \in Nat \ {0}
ASSUME RequestsAssumption == Requests \subseteq Nat \ {0}
ASSUME TextsAssumption == Texts \subseteq Nat
ASSUME BoundsAssumption == MaxChunks \in Nat /\ MaxBlocks \in Nat /\ MaxUsed \in Nat

VARIABLES
    pool,     \* struct Pool: its chunks and its free space, with the blocks
              \* it has given out, which the code does not record
    str,      \* struct String, with the buffer that zBuf points to and the
              \* place nul at which that buffer holds the last zero written
    longest,  \* the length of the longest text str held in this buffer
    refused   \* whether an allocation failed inside renderString

vars == <<pool, str, longest, refused>>

Header == 8    \* the pointer that a chunk begins with, rounded up
Nowhere == -1  \* a place at which there is no terminator

Blocks == [chunk: Nat, from: Nat, size: Nat]
NoBlock == [chunk |-> 0, from |-> 0, size |-> 0]
HeapBlock(n) == [NoBlock EXCEPT !.size = n]

\* The size n rounded up to a multiple of eight.
Round8(n) == ((n + 7) \div 8) * 8

\* Whether a block may begin at this place: blocks begin at multiples of eight.
Aligned(at) == at % 8 = 0

\* The first byte behind a block: xjd1PoolMallocZero clears the block up to there.
EndOf(b) == b.from + Round8(b.size)

EmptyPool == [chunks |-> <<>>, blocks |-> {}, inChunk |-> 0, pSpace |-> 0, nSpace |-> 0]
EmptyString(inPool) ==
    [pPool |-> inPool, zBuf |-> NoBlock, nUsed |-> 0, nAlloc |-> 0, nul |-> Nowhere]

-----------------------------------------------------------------------------
(* xjd1PoolMalloc: the block it returns and the pool it leaves.            *)

IsLarge(n) == Round8(n) > ChunkSize \div 4
NeedsChunk(p, n) == IsLarge(n) \/ p.nSpace < Round8(n)

BlockOf(p, n) ==
    IF NeedsChunk(p, n)
    THEN [chunk |-> Len(p.chunks) + 1, from |-> Header, size |-> n]
    ELSE [chunk |-> p.inChunk, from |-> p.pSpace, size |-> n]

\* Mutant of PoolMalloc: a large block becomes the free space of the pool.
PoolMallocMovesSpace(p, n) ==
    LET b == BlockOf(p, n)
        given == [p EXCEPT !.blocks = @ \union {b}]
    IN  IF NeedsChunk(p, n)
        THEN [given EXCEPT !.chunks = Append(@, (IF IsLarge(n) THEN Round8(n) ELSE ChunkSize) + Header),
                           !.inChunk = b.chunk,
                           !.pSpace = Header + Round8(n),
                           !.nSpace = ChunkSize - Round8(n)]
        ELSE [given EXCEPT !.pSpace = @ + Round8(n), !.nSpace = @ - Round8(n)]

\* A large block has a chunk of its own, and the free space stays where it is.
PoolMalloc(p, n) ==
    LET b == BlockOf(p, n)
        given == [p EXCEPT !.blocks = @ \union {b}]
    IN  CASE IsLarge(n) -> [given EXCEPT !.chunks = Append(@, Round8(n) + Header)]
          [] NeedsChunk(p, n) /\ ~IsLarge(n) ->
                [given EXCEPT !.chunks = Append(@, ChunkSize + Header),
                              !.inChunk = b.chunk,
                              !.pSpace = Header + Round8(n),
                              !.nSpace = ChunkSize - Round8(n)]
          [] ~NeedsChunk(p, n) -> [given EXCEPT !.pSpace = @ + Round8(n), !.nSpace = @ - Round8(n)]

\* Whether the system has the memory for a block of n bytes of the pool.
Granted(p, n) ==
    /\ Cardinality(p.blocks) < MaxBlocks
    /\ NeedsChunk(p, n) => Len(p.chunks) < MaxChunks

-----------------------------------------------------------------------------
(* resizeString, and the test of xjd1StringAppend that calls for it.       *)

MustGrow(s, n) == s.nUsed + n + 1 >= s.nAlloc

\* Mutant of Grown: the buffer doubles, however long the text.
GrownTwice(s, n) == s.nAlloc * 2 + Slack

Grown(s, n) == s.nAlloc * 2 + n + Slack

\* The buffer of s once it has n bytes: memcpy leaves the terminator behind,
\* realloc takes it along.
resizeString(s, n) ==
    [s EXCEPT !.zBuf = IF s.pPool THEN BlockOf(pool, n) ELSE HeapBlock(n),
              !.nAlloc = n,
              !.nul = IF s.pPool THEN Nowhere ELSE @]

\* Room for n more bytes in s, if the system grants it.
Reserve(n) ==
    IF ~MustGrow(str, n) THEN str ELSE resizeString(str, Grown(str, n))

PoolAfterReserve(n) ==
    IF MustGrow(str, n) /\ str.pPool THEN PoolMalloc(pool, Grown(str, n)) ELSE pool

CanReserve(n) == MustGrow(str, n) /\ str.pPool => Granted(pool, Grown(str, n))

\* n bytes and a terminator written behind the text of s.
Written(s, n) == [s EXCEPT !.nUsed = @ + n, !.nul = s.nUsed + n]

Higher(m, n) == IF m > n THEN m ELSE n

-----------------------------------------------------------------------------
\* xjd1_stmt_new gives its strings the pool, the others begin with none.
Init ==
    /\ pool = EmptyPool
    /\ \E inPool \in BOOLEAN : str = EmptyString(inPool)
    /\ longest = 0
    /\ refused = FALSE

\* xjd1PoolMalloc and what is built on it.  When the system refuses, nothing changes.
Malloc ==
    /\ \E n \in Requests :
          /\ Granted(pool, n)
          /\ pool' = PoolMalloc(pool, n)
    /\ UNCHANGED <<str, longest, refused>>

\* xjd1StringAppend of a text; when the system refuses, the text is dropped.
StringAppend ==
    \E n \in Texts :
        /\ str.nUsed + n <= MaxUsed
        /\ CanReserve(n)
        /\ pool' = PoolAfterReserve(n)
        /\ str' = Written(Reserve(n), n)
        /\ longest' = Higher(longest, str.nUsed + n)
        /\ UNCHANGED refused

\* renderString: room for the text, two quotes and the terminator; n counts
\* the escapes as well.
RenderString ==
    \E n \in Texts :
        /\ str.nUsed + n + 2 <= MaxUsed
        /\ CanReserve(n + 3)
        /\ pool' = PoolAfterReserve(n + 3)
        /\ str' = Written(Reserve(n + 3), n + 2)
        /\ longest' = Higher(longest, str.nUsed + n + 2)
        /\ UNCHANGED refused

\* renderString does not look at what xjd1StringAppend returned: when it could
\* not grow a buffer that it has, it writes all the same.
RenderStringRefused ==
    /\ str.nAlloc > 0
    /\ \E n \in Texts :
          /\ str.nUsed + n + 2 <= MaxUsed
          /\ MustGrow(str, n + 3)
          /\ str' = Written(str, n + 2)
          /\ longest' = Higher(longest, str.nUsed + n + 2)
    /\ refused' = TRUE
    /\ UNCHANGED pool

Truncated(s) ==
    [s EXCEPT !.nUsed = 0, !.nul = IF s.zBuf = NoBlock THEN Nowhere ELSE 0]

StringTruncate ==
    /\ str' = Truncated(str)
    /\ UNCHANGED <<pool, longest, refused>>

\* Mutant of WithoutPrefix: the terminator is not moved.
WithoutPrefixUnended(s, n) == [s EXCEPT !.nUsed = @ - n]

\* The text without its first n bytes, moved to the front with its terminator.
WithoutPrefix(s, n) == [s EXCEPT !.nUsed = @ - n, !.nul = @ - n]

StringRemovePrefix ==
    /\ \E n \in Texts :
          str' = IF str.nUsed <= n THEN Truncated(str) ELSE WithoutPrefix(str, n)
    /\ UNCHANGED <<pool, longest, refused>>

\* xjd1StringGet and xjd1StringClear: the buffer is the caller's or free, and
\* the string belongs to no pool from now on.
StringClear ==
    /\ str' = EmptyString(FALSE)
    /\ longest' = 0
    /\ UNCHANGED <<pool, refused>>

\* xjd1_stmt_delete, with the next statement to use the memory.
PoolClear ==
    /\ pool' = EmptyPool
    /\ \E inPool \in BOOLEAN : str' = EmptyString(inPool)
    /\ longest' = 0
    /\ UNCHANGED refused

\* Once a write went past the end of a buffer nothing more can be said.
Next ==
    /\ ~refused
    /\ \/ Malloc
       \/ StringAppend
       \/ RenderString
       \/ RenderStringRefused
       \/ StringTruncate
       \/ StringRemovePrefix
       \/ StringClear
       \/ PoolClear

Spec == Init /\ [][Next]_vars

-----------------------------------------------------------------------------
\* The types of the variables.
TypeOK ==
    /\ pool \in [chunks: Seq(Nat), blocks: SUBSET Blocks,
                 inChunk: Nat, pSpace: Nat, nSpace: Nat]
    /\ str \in [pPool: BOOLEAN, zBuf: Blocks, nUsed: Nat, nAlloc: Nat,
                nul: Nat \union {Nowhere}]
    /\ longest \in Nat
    /\ refused \in BOOLEAN

LiesIn(b, chunks) ==
    /\ b.chunk \in 1..Len(chunks)
    /\ b.from >= Header /\ Aligned(b.from)
    /\ EndOf(b) <= chunks[b.chunk]
Apart(b, c) == b.chunk # c.chunk \/ EndOf(b) <= c.from \/ EndOf(c) <= b.from

\* The blocks that a pool has given out since it was cleared lie in its chunks,
\* behind the header, at multiples of eight, and no two of them overlap, each
\* taken with the bytes that xjd1PoolMallocZero clears.
BlocksAreApart ==
    /\ \A b \in pool.blocks : LiesIn(b, pool.chunks)
    /\ \A b, c \in pool.blocks : b = c \/ Apart(b, c)

\* The free space lies behind every block of its chunk.  The inductive part of
\* BlocksAreApart.
SpaceIsFree ==
    pool.nSpace > 0 =>
        /\ pool.inChunk \in 1..Len(pool.chunks)
        /\ pool.pSpace >= Header /\ Aligned(pool.pSpace)
        /\ pool.pSpace + pool.nSpace <= pool.chunks[pool.inChunk]
        /\ \A b \in pool.blocks : b.chunk = pool.inChunk => EndOf(b) <= pool.pSpace

\* A string ends with a zero inside the buffer that it has, whatever was
\* appended, rendered or taken from its front; its buffer is a block of that
\* size; and the buffer is less than four times its longest text (a constant
\* aside), so that the sizes stay in an int while texts are below 2^29 bytes.
\* The one exception is a renderString that could not grow its buffer.
StringIsWhole ==
    ~refused =>
        /\ str.zBuf.size = str.nAlloc
        /\ str.pPool /\ str.nAlloc > 0 => str.zBuf \in pool.blocks
        /\ IF str.nAlloc = 0 THEN str.nUsed = 0
                             ELSE str.nul = str.nUsed /\ str.nul < str.nAlloc
        /\ str.nUsed <= longest
        /\ str.nAlloc <= 3 * longest + Slack + 5
=============================================================================
