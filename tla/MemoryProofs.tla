---------------------------- MODULE MemoryProofs ----------------------------
(***************************************************************************)
(* Theorems about Memory for every chunk size, every set of requests and   *)
(* of texts, and strings of any length: the blocks of a pool never         *)
(* overlap, and a string keeps its terminator inside a buffer that is in   *)
(* proportion to its text.                                                 *)
(*                                                                         *)
(* SpaceIsFree is what makes the first inductive: the space that the pool  *)
(* will give out next lies behind every block of its chunk.  The second    *)
(* does not rest on the first.                                             *)
(***************************************************************************)
EXTENDS Memory, TLAPS

PoolInv == BlocksAreApart /\ SpaceIsFree

Inv == TypeOK /\ PoolInv /\ StringIsWhole

Pools == [chunks: Seq(Nat), blocks: SUBSET Blocks, inChunk: Nat, pSpace: Nat, nSpace: Nat]
Strings == [pPool: BOOLEAN, zBuf: Blocks, nUsed: Nat, nAlloc: Nat, nul: Nat \union {Nowhere}]

-----------------------------------------------------------------------------
(* The pool *)

LEMMA Rounding ==
    ASSUME NEW n \in Nat
    PROVE  Round8(n) \in Nat /\ n <= Round8(n)
BY DEF Round8

LEMMA Alignment ==
    ASSUME NEW n \in Nat
    PROVE  /\ Aligned(Header)
           /\ \A at \in Nat : Aligned(at) => Aligned(at + Round8(n))
<1>1. \A at \in Nat, k \in Nat : at % 8 = 0 => (at + k * 8) % 8 = 0
  OBVIOUS
<1>2. (n + 7) \div 8 \in Nat
  OBVIOUS
<1> QED BY <1>1, <1>2 DEF Aligned, Header, Round8

LEMMA ChunkIsNat == ChunkSize \in Nat
BY ChunkSizeAssumption

\* Where the block of xjd1PoolMalloc lies: in a chunk that the pool did not
\* have, or at the beginning of its free space.
InNewChunk(p, n, b, q) ==
    /\ b.chunk = Len(p.chunks) + 1 /\ b.from = Header
    /\ \E size \in Nat :
          /\ q.chunks = Append(p.chunks, size)
          /\ Header + Round8(n) <= size
          /\ \/ q.inChunk = p.inChunk /\ q.pSpace = p.pSpace /\ q.nSpace = p.nSpace
             \/ /\ q.inChunk = b.chunk /\ q.pSpace = Header + Round8(n)
                /\ q.pSpace + q.nSpace = size

InFreeSpace(p, n, b, q) ==
    /\ b.chunk = p.inChunk /\ b.from = p.pSpace
    /\ Round8(n) <= p.nSpace
    /\ q.chunks = p.chunks /\ q.inChunk = p.inChunk
    /\ q.pSpace = p.pSpace + Round8(n) /\ q.nSpace = p.nSpace - Round8(n)

LEMMA MallocIs ==
    ASSUME NEW p \in Pools, NEW n \in Nat
    PROVE  LET b == BlockOf(p, n)
               q == PoolMalloc(p, n)
           IN  /\ b \in Blocks /\ b.size = n
               /\ q \in Pools /\ q.blocks = p.blocks \union {b}
               /\ InNewChunk(p, n, b, q) \/ InFreeSpace(p, n, b, q)
<1> DEFINE b == BlockOf(p, n)
           q == PoolMalloc(p, n)
           r == Round8(n)
<1>0. p.chunks \in Seq(Nat)
  BY DEF Pools
<1>1. r \in Nat /\ ChunkSize \in Nat /\ Len(p.chunks) \in Nat
  BY <1>0, Rounding, ChunkIsNat
<1>2. b \in Blocks /\ b.size = n
  BY <1>1 DEF BlockOf, Blocks, Pools, Header
<1>3. CASE IsLarge(n)
  <2>1. q = [chunks |-> Append(p.chunks, r + Header), blocks |-> p.blocks \union {b},
             inChunk |-> p.inChunk, pSpace |-> p.pSpace, nSpace |-> p.nSpace]
    BY <1>3 DEF PoolMalloc, NeedsChunk, Pools
  <2>2. q \in Pools
    <3>1. /\ Append(p.chunks, r + Header) \in Seq(Nat)
          /\ p.nSpace \in Nat /\ p.pSpace \in Nat /\ p.inChunk \in Nat
      BY <1>0, <1>1 DEF Pools, Header
    <3>2. p.blocks \union {b} \in SUBSET Blocks
      BY <1>2 DEF Pools
    <3> QED BY <2>1, <3>1, <3>2 DEF Pools
  <2>3. InNewChunk(p, n, b, q)
    BY <1>1, <1>3, <2>1 DEF InNewChunk, BlockOf, NeedsChunk, Header
  <2> QED BY <1>2, <2>1, <2>2, <2>3
<1>4. CASE NeedsChunk(p, n) /\ ~IsLarge(n)
  <2>1. q = [chunks |-> Append(p.chunks, ChunkSize + Header), blocks |-> p.blocks \union {b},
             inChunk |-> b.chunk, pSpace |-> Header + r, nSpace |-> ChunkSize - r]
    BY <1>4 DEF PoolMalloc, Pools
  <2>2. r <= ChunkSize
    BY <1>1, <1>4 DEF IsLarge
  <2>3. q \in Pools
    <3>1. ChunkSize - r \in Nat /\ Header + r \in Nat /\ ChunkSize + Header \in Nat
      BY <1>1, <2>2 DEF Header
    <3>2. Append(p.chunks, ChunkSize + Header) \in Seq(Nat)
      BY <1>0, <3>1
    <3>3. p.blocks \union {b} \in SUBSET Blocks /\ b.chunk \in Nat
      BY <1>2 DEF Pools, Blocks
    <3> QED BY <2>1, <3>1, <3>2, <3>3 DEF Pools
  <2>4. InNewChunk(p, n, b, q)
    BY <1>1, <1>4, <2>1, <2>2 DEF InNewChunk, BlockOf, Header
  <2> QED BY <1>2, <2>1, <2>3, <2>4
<1>5. CASE ~NeedsChunk(p, n)
  <2>1. q = [chunks |-> p.chunks, blocks |-> p.blocks \union {b},
             inChunk |-> p.inChunk, pSpace |-> p.pSpace + r, nSpace |-> p.nSpace - r]
    BY <1>5 DEF PoolMalloc, NeedsChunk, Pools
  <2>2. r <= p.nSpace
    BY <1>1, <1>5 DEF NeedsChunk, Pools
  <2>3. q \in Pools
    <3>1. /\ p.nSpace - r \in Nat /\ p.pSpace + r \in Nat
          /\ p.chunks \in Seq(Nat) /\ p.inChunk \in Nat
      BY <1>1, <2>2 DEF Pools
    <3>2. p.blocks \union {b} \in SUBSET Blocks
      BY <1>2 DEF Pools
    <3> QED BY <2>1, <3>1, <3>2 DEF Pools
  <2>4. InFreeSpace(p, n, b, q)
    BY <1>5, <2>1, <2>2 DEF InFreeSpace, BlockOf
  <2> QED BY <1>2, <2>1, <2>3, <2>4
<1> QED BY <1>3, <1>4, <1>5

\* The places of blocks are numbers.
LEMMA BlockIsTyped ==
    ASSUME NEW b \in Blocks
    PROVE  b.chunk \in Nat /\ b.from \in Nat /\ b.size \in Nat /\ EndOf(b) \in Nat
BY Rounding DEF Blocks, EndOf

\* A block stays in its chunk when the pool gets another one.
LEMMA LiesInMore ==
    ASSUME NEW chunks \in Seq(Nat), NEW size \in Nat, NEW b \in Blocks, LiesIn(b, chunks)
    PROVE  LiesIn(b, Append(chunks, size))
BY BlockIsTyped DEF LiesIn

\* It is enough that the new block is apart from the others.
LEMMA OneMoreBlock ==
    ASSUME BlocksAreApart, pool \in Pools, NEW b \in Blocks,
           pool'.blocks = pool.blocks \union {b},
           \A c \in pool.blocks \union {b} : LiesIn(c, pool'.chunks),
           \A c \in pool.blocks : Apart(b, c)
    PROVE  BlocksAreApart'
<1>1. \A c \in pool.blocks : Apart(c, b)
  BY DEF Apart
<1>2. \A c, d \in pool.blocks : c = d \/ Apart(c, d)
  BY DEF BlocksAreApart
<1>3. BlocksAreApart' <=> /\ \A c \in pool'.blocks : LiesIn(c, pool'.chunks)
                          /\ \A c, d \in pool'.blocks : c = d \/ Apart(c, d)
  BY DEF BlocksAreApart, LiesIn, Apart, EndOf
<1> QED BY <1>1, <1>2, <1>3

\* An allocation keeps the blocks of the pool apart.
LEMMA MallocKeepsApart ==
    ASSUME pool \in Pools, PoolInv, NEW n \in Nat \ {0}, pool' = PoolMalloc(pool, n)
    PROVE  PoolInv'
<1> DEFINE b == BlockOf(pool, n)
<1>1. /\ pool' \in Pools /\ b \in Blocks /\ b.size = n
      /\ pool'.blocks = pool.blocks \union {b}
      /\ InNewChunk(pool, n, b, pool') \/ InFreeSpace(pool, n, b, pool')
  BY MallocIs
<1> HIDE DEF b
<1>2. /\ pool.chunks \in Seq(Nat) /\ pool.blocks \subseteq Blocks
      /\ pool.inChunk \in Nat /\ pool.pSpace \in Nat /\ pool.nSpace \in Nat
  BY DEF Pools
<1>3. /\ Round8(n) \in Nat /\ Round8(n) > 0 /\ Header \in Nat
      /\ EndOf(b) = b.from + Round8(n)
  BY <1>1, Rounding DEF Header, EndOf
<1>4. Aligned(Header) /\ \A at \in Nat : Aligned(at) => Aligned(at + Round8(n))
  BY Alignment
<1>5. \A c \in pool.blocks : c \in Blocks /\ LiesIn(c, pool.chunks)
  BY <1>2 DEF PoolInv, BlocksAreApart
<1>6. CASE InNewChunk(pool, n, b, pool')
  <2>1. PICK size \in Nat :
          /\ pool'.chunks = Append(pool.chunks, size)
          /\ Header + Round8(n) <= size
          /\ \/ /\ pool'.inChunk = pool.inChunk /\ pool'.pSpace = pool.pSpace
                /\ pool'.nSpace = pool.nSpace
             \/ /\ pool'.inChunk = b.chunk /\ pool'.pSpace = Header + Round8(n)
                /\ pool'.pSpace + pool'.nSpace = size
    BY <1>6 DEF InNewChunk
  <2>2. b.chunk = Len(pool.chunks) + 1 /\ b.from = Header
    BY <1>6 DEF InNewChunk
  <2>3. /\ Len(pool'.chunks) = Len(pool.chunks) + 1
        /\ pool'.chunks[b.chunk] = size
        /\ \A k \in 1..Len(pool.chunks) : pool'.chunks[k] = pool.chunks[k]
    BY <1>2, <2>1, <2>2
  <2>4. LiesIn(b, pool'.chunks)
    BY <1>2, <1>3, <1>4, <2>1, <2>2, <2>3 DEF LiesIn
  <2>5. \A c \in pool.blocks : LiesIn(c, pool'.chunks)
    BY <1>2, <1>5, <2>1, LiesInMore
  <2>6. \A c \in pool.blocks : b.chunk # c.chunk
    BY <1>2, <1>5, <2>2 DEF LiesIn
  <2>7. BlocksAreApart'
    BY <1>1, <2>4, <2>5, <2>6, OneMoreBlock DEF PoolInv, Apart
  <2>8. SpaceIsFree'
    <3>1. SUFFICES ASSUME pool'.nSpace > 0
                   PROVE  /\ pool'.inChunk \in 1..Len(pool'.chunks)
                          /\ pool'.pSpace >= Header /\ Aligned(pool'.pSpace)
                          /\ pool'.pSpace + pool'.nSpace <= pool'.chunks[pool'.inChunk]
                          /\ \A c \in pool'.blocks :
                                c.chunk = pool'.inChunk => EndOf(c) <= pool'.pSpace
      BY DEF SpaceIsFree, EndOf
    <3>2. CASE pool'.inChunk = b.chunk /\ pool'.pSpace = Header + Round8(n)
                                      /\ pool'.pSpace + pool'.nSpace = size
      BY <1>1, <1>2, <1>3, <1>4, <2>2, <2>3, <2>6, <3>2
    <3>3. CASE /\ pool'.inChunk = pool.inChunk /\ pool'.pSpace = pool.pSpace
               /\ pool'.nSpace = pool.nSpace
      <4>1. /\ pool.inChunk \in 1..Len(pool.chunks)
            /\ pool.pSpace >= Header /\ Aligned(pool.pSpace)
            /\ pool.pSpace + pool.nSpace <= pool.chunks[pool.inChunk]
            /\ \A c \in pool.blocks : c.chunk = pool.inChunk => EndOf(c) <= pool.pSpace
        BY <3>1, <3>3 DEF PoolInv, SpaceIsFree
      <4>2. b.chunk # pool.inChunk
        BY <1>2, <2>2, <4>1
      <4>3. pool'.chunks[pool'.inChunk] = pool.chunks[pool.inChunk]
        BY <2>3, <3>3, <4>1
      <4>4. pool'.inChunk \in 1..Len(pool'.chunks)
        BY <1>2, <2>3, <3>3, <4>1
      <4>5. \A c \in pool'.blocks : c.chunk = pool.inChunk => EndOf(c) <= pool.pSpace
        BY <1>1, <4>1, <4>2
      <4> QED BY <3>3, <4>1, <4>3, <4>4, <4>5
    <3> QED BY <2>1, <3>2, <3>3
  <2> QED BY <2>7, <2>8 DEF PoolInv
<1>7. CASE InFreeSpace(pool, n, b, pool')
  <2>1. /\ b.chunk = pool.inChunk /\ b.from = pool.pSpace
        /\ Round8(n) <= pool.nSpace
        /\ pool'.chunks = pool.chunks /\ pool'.inChunk = pool.inChunk
        /\ pool'.pSpace = pool.pSpace + Round8(n) /\ pool'.nSpace = pool.nSpace - Round8(n)
    BY <1>7 DEF InFreeSpace
  <2>2. /\ pool.inChunk \in 1..Len(pool.chunks)
        /\ pool.pSpace >= Header /\ Aligned(pool.pSpace)
        /\ pool.pSpace + pool.nSpace <= pool.chunks[pool.inChunk]
    <3>1. pool.nSpace > 0
      BY <1>2, <1>3, <2>1
    <3> QED BY <3>1 DEF PoolInv, SpaceIsFree
  <2>3. \A c \in pool.blocks : c.chunk = pool.inChunk => EndOf(c) <= pool.pSpace
    <3>1. pool.nSpace > 0
      BY <1>2, <1>3, <2>1
    <3> QED BY <3>1 DEF PoolInv, SpaceIsFree
  <2>4. LiesIn(b, pool'.chunks)
    <3>1. pool.chunks[pool.inChunk] \in Nat
      BY <1>2, <2>2
    <3>2. EndOf(b) <= pool.chunks[pool.inChunk]
      <4>1. EndOf(b) = pool.pSpace + Round8(n)
        BY <1>3, <2>1 DEF EndOf
      <4>2. pool.pSpace \in Nat /\ pool.nSpace \in Nat /\ Round8(n) \in Nat
        BY <1>2, <2>1, Rounding
      <4>3. \A x, y, z, e \in Nat : z <= y /\ x + y <= e => x + z <= e
        OBVIOUS
      <4> QED BY <2>1, <2>2, <3>1, <4>1, <4>2, <4>3
    <3> QED BY <2>1, <2>2, <3>2 DEF LiesIn
  <2>5. \A c \in pool.blocks : Apart(b, c)
    BY <1>2, <1>3, <1>5, <2>1, <2>3, BlockIsTyped DEF Apart
  <2>6. BlocksAreApart'
    BY <1>1, <1>5, <2>1, <2>4, <2>5, OneMoreBlock DEF PoolInv
  <2>7. SpaceIsFree'
    <3>1. SUFFICES ASSUME pool'.nSpace > 0
                   PROVE  /\ pool'.pSpace >= Header /\ Aligned(pool'.pSpace)
                          /\ pool'.pSpace + pool'.nSpace <= pool.chunks[pool.inChunk]
                          /\ \A c \in pool'.blocks :
                                c.chunk = pool.inChunk => EndOf(c) <= pool'.pSpace
      BY <2>1, <2>2 DEF SpaceIsFree, EndOf
    <3>2. \A c \in pool.blocks : c.chunk = pool.inChunk => EndOf(c) <= pool'.pSpace
      BY <1>2, <1>3, <1>5, <2>1, <2>3, BlockIsTyped
    <3>3. EndOf(b) <= pool'.pSpace
      BY <1>2, <1>3, <2>1
    <3>4. pool'.pSpace >= Header /\ Aligned(pool'.pSpace)
      BY <1>2, <1>3, <1>4, <2>1, <2>2
    <3>5. pool.chunks[pool.inChunk] \in Nat
      BY <1>2, <2>2
    <3>6. pool'.pSpace + pool'.nSpace = pool.pSpace + pool.nSpace
      BY <1>2, <1>3, <2>1
    <3> QED BY <1>1, <2>2, <3>2, <3>3, <3>4, <3>6
  <2> QED BY <2>6, <2>7 DEF PoolInv
<1> QED BY <1>1, <1>6, <1>7

-----------------------------------------------------------------------------
(* The string *)

StringInv(s, blocks, most) ==
    /\ s \in Strings /\ most \in Nat
    /\ s.zBuf.size = s.nAlloc
    /\ s.pPool /\ s.nAlloc > 0 => s.zBuf \in blocks
    /\ IF s.nAlloc = 0 THEN s.nUsed = 0
                       ELSE s.nul = s.nUsed /\ s.nul < s.nAlloc
    /\ s.nUsed <= most
    /\ s.nAlloc <= 3 * most + Slack + 5

LEMMA SlackIsPositive == Slack \in Nat /\ Slack > 0
BY SlackAssumption

LEMMA StringIsRecord ==
    ASSUME NEW s \in Strings
    PROVE  /\ s.pPool \in BOOLEAN /\ s.zBuf \in Blocks /\ s.nUsed \in Nat /\ s.nAlloc \in Nat
           /\ s.nul \in Nat \union {Nowhere}
           /\ s = [pPool |-> s.pPool, zBuf |-> s.zBuf, nUsed |-> s.nUsed, nAlloc |-> s.nAlloc,
                  nul |-> s.nul]
BY DEF Strings

\* What resizeString makes of a string.
LEMMA Resized ==
    ASSUME NEW s \in Strings, NEW n \in Nat, pool \in Pools
    PROVE  /\ resizeString(s, n) \in Strings
           /\ resizeString(s, n).pPool = s.pPool
           /\ resizeString(s, n).nUsed = s.nUsed
           /\ resizeString(s, n).nAlloc = n
           /\ resizeString(s, n).zBuf.size = n
           /\ s.pPool => resizeString(s, n).zBuf = BlockOf(pool, n)
<1> DEFINE b == IF s.pPool THEN BlockOf(pool, n) ELSE HeapBlock(n)
<1>1. BlockOf(pool, n) \in Blocks /\ BlockOf(pool, n).size = n
  BY MallocIs
<1>2. HeapBlock(n) \in Blocks /\ HeapBlock(n).size = n
  BY DEF HeapBlock, NoBlock, Blocks
<1>3. b \in Blocks /\ b.size = n
  BY <1>1, <1>2
<1>4. /\ s.pPool \in BOOLEAN /\ s.nUsed \in Nat /\ s.nul \in Nat \union {Nowhere}
      /\ s = [pPool |-> s.pPool, zBuf |-> s.zBuf, nUsed |-> s.nUsed, nAlloc |-> s.nAlloc,
              nul |-> s.nul]
  BY StringIsRecord
<1>5. resizeString(s, n) = [s EXCEPT !.zBuf = b, !.nAlloc = n,
                                     !.nul = IF s.pPool THEN Nowhere ELSE @]
  BY DEF resizeString
<1> HIDE DEF b
<1>6. resizeString(s, n) \in Strings
  BY <1>3, <1>4, <1>5 DEF Strings
<1>7. /\ resizeString(s, n).pPool = s.pPool /\ resizeString(s, n).nUsed = s.nUsed
      /\ resizeString(s, n).nAlloc = n /\ resizeString(s, n).zBuf = b
  BY <1>4, <1>5
<1> QED BY <1>3, <1>6, <1>7 DEF b

\* Room for n bytes and a terminator behind the text of the string: what Reserve
\* leaves, and the block that it takes from the pool.
LEMMA Reserved ==
    ASSUME NEW n \in Nat, pool \in Pools, NEW L \in Nat,
           StringInv(str, pool.blocks, longest), str.nUsed + n <= L + 1
    PROVE  /\ Reserve(n) \in Strings
           /\ Reserve(n).pPool = str.pPool /\ Reserve(n).nUsed = str.nUsed
           /\ Reserve(n).nAlloc > str.nUsed + n
           /\ Reserve(n).zBuf.size = Reserve(n).nAlloc
           /\ Reserve(n).nAlloc <= 3 * Higher(longest, L) + Slack + 5
           /\ str.pPool => Reserve(n).zBuf \in PoolAfterReserve(n).blocks
           /\ pool.blocks \subseteq PoolAfterReserve(n).blocks
<1>1. /\ str \in Strings /\ longest \in Nat /\ str.nUsed \in Nat /\ str.nAlloc \in Nat
      /\ str.zBuf.size = str.nAlloc
      /\ str.pPool /\ str.nAlloc > 0 => str.zBuf \in pool.blocks
      /\ str.nAlloc <= 3 * longest + Slack + 5
      /\ str.nAlloc > 0 => str.nUsed < str.nAlloc
      /\ str.nAlloc = 0 => str.nUsed = 0
  BY DEF StringInv, Strings
<1>2. /\ Higher(longest, L) \in Nat /\ Higher(longest, L) >= longest
      /\ Higher(longest, L) >= L
  BY <1>1 DEF Higher
<1>3. CASE ~MustGrow(str, n)
  <2>1. Reserve(n) = str /\ PoolAfterReserve(n) = pool
    BY <1>3 DEF Reserve, PoolAfterReserve
  <2>2. str.nAlloc > str.nUsed + n
    BY <1>1, <1>3 DEF MustGrow
  <2> QED BY <1>1, <1>2, <2>1, <2>2, SlackIsPositive
<1>4. CASE MustGrow(str, n)
  <2> DEFINE g == Grown(str, n)
  <2>1. /\ g \in Nat \ {0} /\ g > str.nUsed + n
        /\ g <= 3 * L + Slack + 5
    BY <1>1, <1>4, SlackIsPositive DEF MustGrow, Grown
  <2>2. g <= 3 * Higher(longest, L) + Slack + 5
    BY <1>2, <2>1, SlackIsPositive
  <2> HIDE DEF g
  <2>3. /\ Reserve(n) = resizeString(str, g)
        /\ PoolAfterReserve(n) = IF str.pPool THEN PoolMalloc(pool, g) ELSE pool
    BY <1>4 DEF Reserve, PoolAfterReserve, g
  <2>4. PoolMalloc(pool, g).blocks = pool.blocks \union {BlockOf(pool, g)}
    BY <2>1, MallocIs
  <2>5. /\ resizeString(str, g) \in Strings
        /\ resizeString(str, g).pPool = str.pPool /\ resizeString(str, g).nUsed = str.nUsed
        /\ resizeString(str, g).nAlloc = g
        /\ resizeString(str, g).zBuf.size = g
        /\ str.pPool => resizeString(str, g).zBuf = BlockOf(pool, g)
    BY <1>1, <2>1, Resized
  <2> QED BY <2>1, <2>2, <2>3, <2>4, <2>5
<1> QED BY <1>3, <1>4

\* Text written behind that of a string that has room for it.
LEMMA WrittenIsWhole ==
    ASSUME NEW s \in Strings, NEW n \in Nat, NEW blocks, NEW most \in Nat,
           s.zBuf.size = s.nAlloc, s.pPool => s.zBuf \in blocks,
           s.nUsed + n < s.nAlloc, s.nUsed + n <= most, s.nAlloc <= 3 * most + Slack + 5
    PROVE  StringInv(Written(s, n), blocks, most)
<1> DEFINE t == Written(s, n)
<1>1. /\ s.pPool \in BOOLEAN /\ s.zBuf \in Blocks /\ s.nUsed \in Nat /\ s.nAlloc \in Nat
      /\ s = [pPool |-> s.pPool, zBuf |-> s.zBuf, nUsed |-> s.nUsed, nAlloc |-> s.nAlloc,
              nul |-> s.nul]
  BY StringIsRecord
<1>2. t = [s EXCEPT !.nUsed = s.nUsed + n, !.nul = s.nUsed + n]
  BY <1>1 DEF Written
<1> HIDE DEF t
<1>3. /\ t.pPool = s.pPool /\ t.zBuf = s.zBuf /\ t.nAlloc = s.nAlloc
      /\ t.nUsed = s.nUsed + n /\ t.nul = s.nUsed + n
  BY <1>1, <1>2
<1>4. t \in Strings
  <2>1. s.nUsed + n \in Nat
    BY <1>1
  <2> QED BY <1>1, <1>2, <2>1 DEF Strings
<1>5. StringInv(t, blocks, most)
  BY <1>1, <1>3, <1>4 DEF StringInv
<1> QED BY <1>5 DEF t

\* The string without a buffer.
LEMMA EmptyIsWhole ==
    ASSUME NEW inPool \in BOOLEAN, NEW blocks, NEW most \in Nat
    PROVE  StringInv(EmptyString(inPool), blocks, most)
<1>1. EmptyString(inPool) \in Strings
  BY DEF EmptyString, Strings, NoBlock, Blocks, Nowhere
<1> QED BY <1>1, SlackIsPositive DEF StringInv, EmptyString, NoBlock

\* A string that is cut short keeps its buffer.
LEMMA TruncatedIsWhole ==
    ASSUME NEW s, NEW blocks, NEW most, StringInv(s, blocks, most)
    PROVE  StringInv(Truncated(s), blocks, most)
<1> DEFINE t == Truncated(s)
           z == IF s.zBuf = NoBlock THEN Nowhere ELSE 0
<1>1. s \in Strings /\ most \in Nat /\ s.zBuf.size = s.nAlloc
  BY DEF StringInv
<1>2. /\ s.pPool \in BOOLEAN /\ s.zBuf \in Blocks /\ s.nUsed \in Nat /\ s.nAlloc \in Nat
      /\ s = [pPool |-> s.pPool, zBuf |-> s.zBuf, nUsed |-> s.nUsed, nAlloc |-> s.nAlloc,
              nul |-> s.nul]
  BY <1>1, StringIsRecord
<1>3. t = [s EXCEPT !.nUsed = 0, !.nul = z]
  BY DEF Truncated
<1>4. z \in Nat \union {Nowhere} /\ (s.nAlloc > 0 => z = 0)
  BY <1>1 DEF NoBlock
<1> HIDE DEF t, z
<1>5. /\ t.pPool = s.pPool /\ t.zBuf = s.zBuf /\ t.nAlloc = s.nAlloc /\ t.nUsed = 0 /\ t.nul = z
  BY <1>2, <1>3
<1>6. t \in Strings
  BY <1>2, <1>3, <1>4 DEF Strings
<1>7. StringInv(t, blocks, most)
  BY <1>1, <1>2, <1>4, <1>5, <1>6 DEF StringInv
<1> QED BY <1>7 DEF t

LEMMA WithoutPrefixIsWhole ==
    ASSUME NEW s, NEW blocks, NEW most, NEW n \in Nat, StringInv(s, blocks, most), s.nUsed > n
    PROVE  StringInv(WithoutPrefix(s, n), blocks, most)
<1> DEFINE t == WithoutPrefix(s, n)
<1>1. s \in Strings /\ most \in Nat
  BY DEF StringInv
<1>2. /\ s.pPool \in BOOLEAN /\ s.zBuf \in Blocks /\ s.nUsed \in Nat /\ s.nAlloc \in Nat
      /\ s = [pPool |-> s.pPool, zBuf |-> s.zBuf, nUsed |-> s.nUsed, nAlloc |-> s.nAlloc,
              nul |-> s.nul]
  BY <1>1, StringIsRecord
<1>3. s.nAlloc > 0 /\ s.nul = s.nUsed
  BY <1>2 DEF StringInv
<1>4. t = [s EXCEPT !.nUsed = s.nUsed - n, !.nul = s.nul - n]
  BY DEF WithoutPrefix
<1> HIDE DEF t
<1>5. /\ t.pPool = s.pPool /\ t.zBuf = s.zBuf /\ t.nAlloc = s.nAlloc
      /\ t.nUsed = s.nUsed - n /\ t.nul = s.nUsed - n
  BY <1>2, <1>3, <1>4
<1>6. t \in Strings
  <2>1. s.nUsed - n \in Nat
    BY <1>2
  <2> QED BY <1>2, <1>3, <1>4, <2>1 DEF Strings
<1>7. StringInv(t, blocks, most)
  BY <1>1, <1>2, <1>3, <1>5, <1>6 DEF StringInv
<1> QED BY <1>7 DEF t

-----------------------------------------------------------------------------
(* The steps *)

\* The invariant, in terms of what the lemmas are about.
LEMMA InvIs ==
    Inv <=> /\ pool \in Pools /\ str \in Strings /\ longest \in Nat /\ refused \in BOOLEAN
            /\ PoolInv
            /\ ~refused => StringInv(str, pool.blocks, longest)
BY DEF Inv, TypeOK, StringIsWhole, StringInv, Pools, Strings

LEMMA InvIsNext ==
    Inv' <=> /\ pool' \in Pools /\ str' \in Strings /\ longest' \in Nat /\ refused' \in BOOLEAN
             /\ PoolInv'
             /\ ~refused' => StringInv(str', pool'.blocks, longest')
BY DEF Inv, TypeOK, StringIsWhole, StringInv, Pools, Strings

LEMMA PoolStays == PoolInv /\ pool' = pool => PoolInv'
BY DEF PoolInv, BlocksAreApart, SpaceIsFree, LiesIn, Apart, EndOf

\* A pool without blocks.
LEMMA EmptyPoolInv ==
    /\ EmptyPool \in Pools
    /\ pool = EmptyPool => PoolInv
    /\ pool' = EmptyPool => PoolInv'
<1>1. EmptyPool \in Pools
  BY DEF EmptyPool, Pools
<1>2. EmptyPool.blocks = {} /\ EmptyPool.nSpace = 0
  BY DEF EmptyPool
<1>3. pool = EmptyPool => PoolInv
  BY <1>2 DEF PoolInv, BlocksAreApart, SpaceIsFree
<1>4. pool' = EmptyPool => PoolInv'
  BY <1>2 DEF PoolInv, BlocksAreApart, SpaceIsFree
<1> QED BY <1>1, <1>3, <1>4

\* More blocks, or a longer text before, take nothing away.
LEMMA WholeStays ==
    ASSUME NEW s, NEW blocks, NEW more, NEW most, StringInv(s, blocks, most), blocks \subseteq more
    PROVE  StringInv(s, more, most)
BY DEF StringInv

LEMMA InitInv == Init => Inv
<1> SUFFICES ASSUME Init PROVE Inv
  OBVIOUS
<1>1. PICK inPool \in BOOLEAN : str = EmptyString(inPool)
  BY DEF Init
<1>2. StringInv(str, pool.blocks, 0)
  BY <1>1, EmptyIsWhole
<1> QED BY <1>2, EmptyPoolInv, InvIs DEF Init, StringInv

\* xjd1StringAppend and renderString: m bytes reserved for a text of n.
LEMMA AppendInv ==
    ASSUME Inv, ~refused, NEW n \in Nat, NEW m \in Nat, n <= m, m <= n + 1,
           pool' = PoolAfterReserve(m), str' = Written(Reserve(m), n),
           longest' = Higher(longest, str.nUsed + n), UNCHANGED refused
    PROVE  Inv'
<1> DEFINE L == str.nUsed + n
<1>1. /\ pool \in Pools /\ PoolInv /\ StringInv(str, pool.blocks, longest)
      /\ str.nUsed \in Nat /\ longest \in Nat
  BY InvIs DEF Strings
<1>2. /\ Reserve(m) \in Strings
      /\ Reserve(m).pPool = str.pPool /\ Reserve(m).nUsed = str.nUsed
      /\ Reserve(m).nAlloc > str.nUsed + m
      /\ Reserve(m).zBuf.size = Reserve(m).nAlloc
      /\ Reserve(m).nAlloc <= 3 * Higher(longest, L) + Slack + 5
      /\ str.pPool => Reserve(m).zBuf \in PoolAfterReserve(m).blocks
  <2>1. L \in Nat /\ str.nUsed + m <= L + 1
    BY <1>1
  <2> HIDE DEF L
  <2> QED BY <1>1, <2>1, Reserved
<1>3. longest' \in Nat /\ L <= longest'
  BY <1>1 DEF Higher
<1>4. Reserve(m).nAlloc \in Nat
  BY <1>2, StringIsRecord
<1>5. StringInv(str', pool'.blocks, longest')
  BY <1>1, <1>2, <1>3, <1>4, WrittenIsWhole
<1>6. pool' \in Pools /\ PoolInv'
  <2>1. CASE pool' = pool
    BY <1>1, <2>1, PoolStays
  <2>2. CASE pool' = PoolMalloc(pool, Grown(str, m))
    <3>1. Grown(str, m) \in Nat \ {0}
      <4>1. str.nAlloc \in Nat
        BY <1>1 DEF StringInv, Strings
      <4> QED BY <4>1, SlackIsPositive DEF Grown
    <3> QED BY <1>1, <2>2, <3>1, MallocIs, MallocKeepsApart
  <2> QED BY <2>1, <2>2 DEF PoolAfterReserve
<1> QED BY <1>5, <1>6, InvIs, InvIsNext DEF StringInv

LEMMA MallocInv == Inv /\ ~refused /\ Malloc => Inv'
<1> SUFFICES ASSUME Inv, ~refused, Malloc PROVE Inv'
  OBVIOUS
<1>1. PICK n \in Requests : pool' = PoolMalloc(pool, n)
  BY DEF Malloc
<1>2. n \in Nat \ {0}
  BY RequestsAssumption
<1>3. pool' \in Pools /\ PoolInv' /\ pool.blocks \subseteq pool'.blocks
  BY <1>1, <1>2, InvIs, MallocIs, MallocKeepsApart
<1> QED BY <1>3, InvIs, InvIsNext, WholeStays DEF Malloc

LEMMA RefusedInv == Inv /\ ~refused /\ RenderStringRefused => Inv'
<1> SUFFICES ASSUME Inv, ~refused, RenderStringRefused PROVE Inv'
  OBVIOUS
<1>1. PICK n \in Texts : /\ str' = Written(str, n + 2)
                         /\ longest' = Higher(longest, str.nUsed + n + 2)
  BY DEF RenderStringRefused
<1>2. n \in Nat /\ str \in Strings /\ str.nUsed \in Nat
  BY InvIs, StringIsRecord, TextsAssumption
<1>3. /\ str = [pPool |-> str.pPool, zBuf |-> str.zBuf, nUsed |-> str.nUsed,
                nAlloc |-> str.nAlloc, nul |-> str.nul]
      /\ str.pPool \in BOOLEAN /\ str.zBuf \in Blocks /\ str.nAlloc \in Nat
  BY <1>2, StringIsRecord
<1>4. str' \in Strings
  <2>1. str.nUsed + (n + 2) \in Nat
    BY <1>2
  <2>2. str' = [str EXCEPT !.nUsed = str.nUsed + (n + 2), !.nul = str.nUsed + (n + 2)]
    BY <1>1 DEF Written
  <2> QED BY <1>3, <2>1, <2>2 DEF Strings
<1>5. longest' \in Nat
  BY <1>1, <1>2, InvIs DEF Higher
<1> QED BY <1>4, <1>5, InvIs, InvIsNext, PoolStays DEF RenderStringRefused

LEMMA TruncateInv == Inv /\ ~refused /\ (StringTruncate \/ StringRemovePrefix) => Inv'
<1> SUFFICES ASSUME Inv, ~refused, StringTruncate \/ StringRemovePrefix PROVE Inv'
  OBVIOUS
<1>1. pool' = pool /\ longest' = longest /\ refused' = refused
  BY DEF StringTruncate, StringRemovePrefix
<1>2. StringInv(str, pool.blocks, longest)
  BY InvIs
<1>3. \/ str' = Truncated(str)
      \/ \E n \in Nat : str.nUsed > n /\ str' = WithoutPrefix(str, n)
  BY InvIs, StringIsRecord, TextsAssumption DEF StringTruncate, StringRemovePrefix
<1>4. StringInv(str', pool.blocks, longest)
  BY <1>2, <1>3, TruncatedIsWhole, WithoutPrefixIsWhole
<1> QED BY <1>1, <1>4, InvIs, InvIsNext, PoolStays DEF StringInv

LEMMA ClearInv == Inv /\ ~refused /\ (StringClear \/ PoolClear) => Inv'
<1> SUFFICES ASSUME Inv, ~refused, StringClear \/ PoolClear PROVE Inv'
  OBVIOUS
<1>1. PICK inPool \in BOOLEAN : str' = EmptyString(inPool)
  BY DEF StringClear, PoolClear
<1>2. longest' = 0 /\ refused' = refused /\ pool' \in {pool, EmptyPool}
  BY DEF StringClear, PoolClear
<1>3. StringInv(str', pool'.blocks, longest')
  BY <1>1, <1>2, EmptyIsWhole
<1>4. pool' \in Pools /\ PoolInv'
  BY <1>2, InvIs, PoolStays, EmptyPoolInv
<1> QED BY <1>2, <1>3, <1>4, InvIs, InvIsNext DEF StringInv

LEMMA StepInv == Inv /\ [Next]_vars => Inv'
<1> SUFFICES ASSUME Inv, [Next]_vars PROVE Inv'
  OBVIOUS
<1>1. CASE UNCHANGED vars
  BY <1>1, InvIs, InvIsNext, PoolStays DEF vars
<1>2. CASE ~refused /\ StringAppend
  <2>1. PICK n \in Texts :
            /\ pool' = PoolAfterReserve(n) /\ str' = Written(Reserve(n), n)
            /\ longest' = Higher(longest, str.nUsed + n) /\ UNCHANGED refused
    BY <1>2 DEF StringAppend
  <2>2. n \in Nat
    BY TextsAssumption
  <2> QED BY <1>2, <2>1, <2>2, AppendInv
<1>3. CASE ~refused /\ RenderString
  <2>1. PICK n \in Texts :
            /\ pool' = PoolAfterReserve(n + 3) /\ str' = Written(Reserve(n + 3), n + 2)
            /\ longest' = Higher(longest, str.nUsed + n + 2) /\ UNCHANGED refused
    BY <1>3 DEF RenderString
  <2>2. n \in Nat /\ str.nUsed \in Nat
    BY TextsAssumption, InvIs, StringIsRecord
  <2>3. str.nUsed + n + 2 = str.nUsed + (n + 2)
    BY <2>2
  <2>4. n + 2 \in Nat /\ n + 3 \in Nat /\ n + 2 <= n + 3 /\ n + 3 <= (n + 2) + 1
    BY <2>2
  <2> QED BY <1>3, <2>1, <2>3, <2>4, AppendInv
<1> QED
  BY <1>1, <1>2, <1>3, MallocInv, RefusedInv, TruncateInv, ClearInv DEF Next

-----------------------------------------------------------------------------
LEMMA Invariant == Spec => []Inv
BY InitInv, StepInv, PTL DEF Spec

\* The types of Memory.
THEOREM TypeCorrect == Spec => []TypeOK
<1>1. Inv => TypeOK
  BY DEF Inv
<1> QED BY <1>1, Invariant, PTL

\* Whatever is allocated from a pool, in any order and size, no two blocks
\* overlap and each lies in its chunk (memory.c:98-130).
THEOREM BlocksNeverOverlap == Spec => []BlocksAreApart
<1>1. Inv => BlocksAreApart
  BY DEF Inv, PoolInv
<1> QED BY <1>1, Invariant, PTL

\* Whatever is appended, rendered or removed, the terminator of a string lies
\* in its buffer, and the buffer is in proportion to the longest text, unless
\* a renderString could not grow it (string.c:40-110, json.c).
THEOREM StringsAreWhole == Spec => []StringIsWhole
<1>1. Inv => StringIsWhole
  BY DEF Inv
<1> QED BY <1>1, Invariant, PTL
=============================================================================
