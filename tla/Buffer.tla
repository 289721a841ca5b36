-------------------------------- MODULE Buffer --------------------------------
(***************************************************************************)
(* Buffer (src/common/base): one array with a reader and a writer index,   *)
(* in which a connection collects what it reads and what it has to write.  *)
(* A buffer is used by one thread, so every method is one action.          *)
(***************************************************************************)
EXTENDS Naturals, Sequences

CONSTANTS
    Byte,          \* the values of a byte, among them 0
    CheapPrepend,  \* kCheapPrepend
    InitialSize,   \* kInitialSize
    ExtraSize,     \* size of extrabuf in readFd()
    MaxChunk,      \* bound on the bytes of one append(), prepend() or retrieve()
    MaxCapacity    \* bound on the size of the array

ASSUME SizeAssumption ==
    /\ CheapPrepend \in Nat /\ InitialSize \in Nat /\ ExtraSize \in Nat
    /\ MaxChunk \in Nat /\ MaxCapacity \in Nat
ASSUME ByteAssumption == 0 \in Byte

VARIABLES
    mem,          \* buffer_, indexed from 0
    capacity,     \* buffer_.size()
    readerIndex,  \* readerIndex_
    writerIndex   \* writerIndex_

vars == <<mem, capacity, readerIndex, writerIndex>>

Zeros(size) == [i \in 0..(size - 1) |-> 0]

Init ==
    /\ capacity = CheapPrepend + InitialSize
    /\ mem = Zeros(CheapPrepend + InitialSize)
    /\ readerIndex = CheapPrepend
    /\ writerIndex = CheapPrepend

readableBytes == writerIndex - readerIndex
writableBytes == capacity - writerIndex
prependableBytes == readerIndex

\* The cells of the array from the first index up to the second.
Window(array, from, to) == [i \in 1..(to - from) |-> array[from + i - 1]]

\* The bytes between the indexes, as peek() and retrieveAsString() see them.
Readable == Window(mem, readerIndex, writerIndex)

\* std::copy() of data to the position `at` of the array.
Copied(array, at, data) ==
    [i \in DOMAIN array |->
        IF at <= i /\ i < at + Len(data) THEN data[i - at + 1] ELSE array[i]]

\* buffer_.resize(): the new cells are 0.
Resized(array, size) ==
    [i \in 0..(size - 1) |-> IF i < capacity THEN array[i] ELSE 0]

\* Whether makeSpace() has to make the array larger for len more bytes.
MustGrow(len) == writableBytes + prependableBytes < len + CheapPrepend

-----------------------------------------------------------------------------
\* append() where the bytes fit behind the writer index.
AppendFits(data) ==
    /\ Len(data) <= writableBytes
    /\ mem' = Copied(mem, writerIndex, data)
    /\ writerIndex' = writerIndex + Len(data)
    /\ UNCHANGED <<capacity, readerIndex>>

\* append() after makeSpace() has resized the array.
AppendGrows(data) ==
    /\ Len(data) > writableBytes
    /\ MustGrow(Len(data))
    /\ writerIndex + Len(data) <= MaxCapacity
    /\ capacity' = writerIndex + Len(data)
    /\ mem' = Copied(Resized(mem, writerIndex + Len(data)), writerIndex, data)
    /\ writerIndex' = writerIndex + Len(data)
    /\ UNCHANGED readerIndex

\* Mutation of AppendMoves: the indexes are moved and the bytes are not.
AppendMovesIndexes(data) ==
    /\ Len(data) > writableBytes
    /\ ~MustGrow(Len(data))
    /\ mem' = Copied(mem, CheapPrepend + readableBytes, data)
    /\ readerIndex' = CheapPrepend
    /\ writerIndex' = CheapPrepend + readableBytes + Len(data)
    /\ UNCHANGED capacity

\* append() after makeSpace() has moved the readable bytes to the front.
AppendMoves(data) ==
    /\ Len(data) > writableBytes
    /\ ~MustGrow(Len(data))
    /\ mem' = Copied(Copied(mem, CheapPrepend, Readable), CheapPrepend + readableBytes, data)
    /\ readerIndex' = CheapPrepend
    /\ writerIndex' = CheapPrepend + readableBytes + Len(data)
    /\ UNCHANGED capacity

append(data) == AppendFits(data) \/ AppendGrows(data) \/ AppendMoves(data)

\* retrieve(), which ends in retrieveAll() when everything is consumed.
retrieve(len) ==
    /\ IF len < readableBytes
       THEN /\ readerIndex' = readerIndex + len
            /\ UNCHANGED writerIndex
       ELSE /\ readerIndex' = CheapPrepend
            /\ writerIndex' = CheapPrepend
    /\ UNCHANGED <<mem, capacity>>

\* prepend(), whose caller has to leave it the room.
prepend(data) ==
    /\ Len(data) <= prependableBytes
    /\ mem' = Copied(mem, readerIndex - Len(data), data)
    /\ readerIndex' = readerIndex - Len(data)
    /\ UNCHANGED <<capacity, writerIndex>>

\* readFd() where readv() filled extrabuf as well: the array is full, and the
\* rest is appended, which grows it or moves its bytes.
ReadFdSpills(data) ==
    LET rest == SubSeq(data, writableBytes + 1, Len(data))
        full == Copied(mem, writerIndex, SubSeq(data, 1, writableBytes))
        all == Window(full, readerIndex, capacity)
    IN  /\ Len(data) > writableBytes
        /\ Len(rest) <= ExtraSize
        /\ IF prependableBytes < Len(rest) + CheapPrepend
           THEN /\ capacity + Len(rest) <= MaxCapacity
                /\ capacity' = capacity + Len(rest)
                /\ mem' = Copied(Resized(full, capacity + Len(rest)), capacity, rest)
                /\ writerIndex' = capacity + Len(rest)
                /\ UNCHANGED readerIndex
           ELSE /\ mem' = Copied(Copied(full, CheapPrepend, all), CheapPrepend + Len(all), rest)
                /\ readerIndex' = CheapPrepend
                /\ writerIndex' = CheapPrepend + Len(all) + Len(rest)
                /\ UNCHANGED capacity

\* readFd(): readv() has put `data` behind the writer index, and what did
\* not fit into extrabuf.
readFd(data) == AppendFits(data) \/ ReadFdSpills(data)

\* shrink(): the readable bytes move to a fresh buffer with room for more.
shrink(reserve) ==
    LET size == CheapPrepend + IF InitialSize < readableBytes + reserve
                               THEN readableBytes + reserve ELSE InitialSize
    IN  /\ size <= MaxCapacity
        /\ capacity' = size
        /\ mem' = Copied(Zeros(size), CheapPrepend, Readable)
        /\ readerIndex' = CheapPrepend
        /\ writerIndex' = CheapPrepend + readableBytes

Chunk == UNION {[1..n -> Byte] : n \in 0..MaxChunk}

Next ==
    \/ \E data \in Chunk : append(data) \/ prepend(data) \/ readFd(data)
    \/ \E n \in 0..MaxChunk : retrieve(n) \/ shrink(n)

Spec == Init /\ [][Next]_vars

-----------------------------------------------------------------------------
\* The indexes stay in order and inside the array, through every series of
\* appends, reads, moves and resizes.
TypeOK ==
    /\ capacity \in Nat /\ readerIndex \in Nat /\ writerIndex \in Nat
    /\ readerIndex <= writerIndex /\ writerIndex <= capacity
    /\ CheapPrepend <= capacity
    /\ mem \in [0..(capacity - 1) -> Byte]

Queue == INSTANCE ByteQueue WITH queue <- Readable, Amount <- 0..MaxChunk

\* The buffer is a queue of bytes: whether it moves its bytes, resizes its
\* array or spills over from extrabuf, no byte is lost, doubled or reordered.
ImplementsQueue == Queue!Spec

\* An array that was made larger for new bytes is at least half full of
\* readable ones, but for the headroom: a connection that is written and
\* read for ever does not grow its buffer for ever.
GrowsProportionally ==
    [][capacity' > capacity /\ Readable' # Readable
          => capacity' < 2 * (writerIndex' - readerIndex') + CheapPrepend]_vars
===============================================================================
