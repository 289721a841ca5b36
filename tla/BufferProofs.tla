----------------------------- MODULE BufferProofs -----------------------------
(***************************************************************************)
(* Buffer is a queue of bytes, for arrays and chunks of any size.  The     *)
(* order of the indexes, TypeOK, is inductive by itself; the refinement    *)
(* rests on a few facts about windows of an array: what is copied behind,  *)
(* before or into a window is what the window then shows.                  *)
(***************************************************************************)
EXTENDS Buffer, SequenceTheorems, TLAPS

-----------------------------------------------------------------------------
(* Strings of bytes, windows and copies.                                   *)

\* A chunk is a string of at most MaxChunk bytes.
LEMMA ChunkType ==
    ASSUME NEW data \in Chunk
    PROVE  data \in Seq(Byte) /\ Len(data) \in Nat
  <1>1. PICK n \in 0..MaxChunk : data \in [1..n -> Byte]
    BY SizeAssumption DEF Chunk
  <1>2. n \in Nat
    BY <1>1, SizeAssumption
  <1> QED
    BY <1>1, <1>2

\* Two strings of bytes of the same length with the same bytes are equal.
LEMMA SameBytes ==
    ASSUME NEW s \in Seq(Byte), NEW t \in Seq(Byte), Len(s) = Len(t),
           \A i \in 1..Len(s) : s[i] = t[i]
    PROVE  s = t
  <1> QED
    OBVIOUS

\* A copy keeps the size of the array and the type of its cells.
LEMMA CopiedType ==
    ASSUME NEW size \in Nat, NEW array \in [0..(size - 1) -> Byte],
           NEW at \in Nat, NEW data \in Seq(Byte)
    PROVE  /\ Copied(array, at, data) \in [0..(size - 1) -> Byte]
           /\ \A i \in 0..(size - 1) :
                 Copied(array, at, data)[i] =
                     IF at <= i /\ i < at + Len(data) THEN data[i - at + 1] ELSE array[i]
  <1> QED
    BY DEF Copied

\* A window inside the array is a string of bytes.
LEMMA WindowType ==
    ASSUME NEW array, NEW from \in Nat, NEW to \in Nat, from <= to,
           \A i \in from..(to - 1) : array[i] \in Byte
    PROVE  /\ Window(array, from, to) \in Seq(Byte)
           /\ Len(Window(array, from, to)) = to - from
           /\ \A i \in 1..(to - from) : Window(array, from, to)[i] = array[from + i - 1]
  <1>1. to - from \in Nat
    OBVIOUS
  <1>2. \A i \in 1..(to - from) : array[from + i - 1] \in Byte
    OBVIOUS
  <1>3. Window(array, from, to) \in [1..(to - from) -> Byte]
    BY <1>2 DEF Window
  <1> QED
    BY <1>1, <1>3 DEF Window

\* The bytes of a concatenation.
LEMMA ConcatBytes ==
    ASSUME NEW s \in Seq(Byte), NEW t \in Seq(Byte)
    PROVE  /\ s \o t \in Seq(Byte)
           /\ Len(s) \in Nat /\ Len(t) \in Nat
           /\ Len(s \o t) = Len(s) + Len(t)
           /\ \A i \in 1..(Len(s) + Len(t)) :
                 (s \o t)[i] = IF i <= Len(s) THEN s[i] ELSE t[i - Len(s)]
  <1> QED
    BY ConcatProperties, LenProperties

\* What is copied behind a window extends it at its end.
LEMMA CopyBehind ==
    ASSUME NEW size \in Nat, NEW array \in [0..(size - 1) -> Byte],
           NEW from \in Nat, NEW to \in Nat, from <= to,
           NEW data \in Seq(Byte), to + Len(data) <= size
    PROVE  Window(Copied(array, to, data), from, to + Len(data))
               = Window(array, from, to) \o data
  <1> DEFINE len == Len(data)
             new == Copied(array, to, data)
             w == Window(array, from, to)
             end == to + len
             v == Window(new, from, end)
             c == w \o data
  <1>1. len \in Nat
    BY LenProperties
  <1>2. /\ new \in [0..(size - 1) -> Byte]
        /\ \A i \in 0..(size - 1) :
              new[i] = IF to <= i /\ i < to + len THEN data[i - to + 1] ELSE array[i]
    BY CopiedType
  <1> HIDE DEF len, new
  <1>3. to + len <= size /\ to <= size /\ from <= to + len /\ to + len \in Nat
    <2>1. to + len <= size
      BY DEF len
    <2> QED
      BY <2>1, <1>1
  <1>end. end \in Nat /\ end = to + len
    BY <1>3
  <1> HIDE DEF end
  <1>4. /\ w \in Seq(Byte) /\ Len(w) = to - from
        /\ \A i \in 1..(to - from) : w[i] = array[from + i - 1]
    <2>1. \A i \in from..(to - 1) : array[i] \in Byte
      BY <1>3
    <2> QED
      BY <2>1, WindowType
  <1>5. /\ v \in Seq(Byte) /\ Len(v) = end - from
        /\ \A i \in 1..(end - from) : v[i] = new[from + i - 1]
    <2>1. \A i \in from..(end - 1) : new[i] \in Byte
      BY <1>end, <1>1, <1>2, <1>3
    <2>2. end \in Nat /\ from <= end
      BY <1>end, <1>1, <1>3
    <2> QED
      BY <2>1, <2>2, WindowType
  <1> HIDE DEF w, v
  <1>6. /\ c \in Seq(Byte) /\ Len(c) = Len(w) + len
        /\ \A i \in 1..(Len(w) + len) :
              c[i] = IF i <= Len(w) THEN w[i] ELSE data[i - Len(w)]
    BY <1>4, ConcatBytes DEF len
  <1> HIDE DEF c
  <1>7. ASSUME NEW i \in 1..(end - from)
        PROVE  v[i] = c[i]
    <2>1. v[i] = new[from + i - 1] /\ from + i - 1 \in 0..(size - 1)
      BY <1>end, <1>1, <1>3, <1>5
    <2>2. CASE i <= to - from
      <3>1. c[i] = w[i] /\ w[i] = array[from + i - 1]
        BY <2>2, <1>end, <1>1, <1>4, <1>6
      <3>2. new[from + i - 1] = array[from + i - 1]
        BY <2>1, <2>2, <1>1, <1>2
      <3> QED
        BY <3>1, <3>2, <2>1
    <2>3. CASE ~(i <= to - from)
      <3>1. c[i] = data[i - (to - from)]
        BY <2>3, <1>end, <1>1, <1>4, <1>6
      <3>2. new[from + i - 1] = data[from + i - 1 - to + 1]
        BY <1>end, <2>1, <2>3, <1>1, <1>2
      <3>3. i - (to - from) = from + i - 1 - to + 1
        BY <1>end
      <3> QED
        BY <3>1, <3>2, <3>3, <2>1
    <2> QED
      BY <2>2, <2>3
  <1>8. Len(v) = Len(c)
    <2>1. Len(c) = (to - from) + len
      BY <1>4, <1>6
    <2> QED
      BY <2>1, <1>end, <1>1, <1>5
  <1>9. v = c
    BY <1>5, <1>6, <1>7, <1>8, SameBytes
  <1> QED
    BY <1>9 DEF v, c, w, new, end, len

\* What is copied right before a window extends it at its front.
LEMMA CopyBefore ==
    ASSUME NEW size \in Nat, NEW array \in [0..(size - 1) -> Byte],
           NEW start \in Nat, NEW to \in Nat,
           NEW data \in Seq(Byte), start + Len(data) <= to, to <= size
    PROVE  Window(Copied(array, start, data), start, to)
               = data \o Window(array, start + Len(data), to)
  <1> DEFINE len == Len(data)
             from == start + len
             new == Copied(array, start, data)
             w == Window(array, from, to)
             v == Window(new, start, to)
             c == data \o w
  <1>1. len \in Nat /\ from \in Nat /\ start + len = from /\ from <= to
    BY LenProperties
  <1> HIDE DEF from
  <1>2. /\ new \in [0..(size - 1) -> Byte]
        /\ \A i \in 0..(size - 1) :
              new[i] = IF start <= i /\ i < start + len THEN data[i - start + 1] ELSE array[i]
    <2>1. /\ Copied(array, start, data) \in [0..(size - 1) -> Byte]
          /\ \A i \in 0..(size - 1) :
                Copied(array, start, data)[i] =
                    IF start <= i /\ i < start + Len(data) THEN data[i - start + 1] ELSE array[i]
      BY CopiedType
    <2> QED
      BY <2>1
  <1> HIDE DEF len, new
  <1>4. /\ w \in Seq(Byte) /\ Len(w) = to - from
        /\ \A i \in 1..(to - from) : w[i] = array[from + i - 1]
    <2>1. /\ \A i \in from..(to - 1) : array[i] \in Byte
          /\ from \in Nat /\ from <= to
      BY <1>1
    <2> QED
      BY <2>1, WindowType
  <1>5. /\ v \in Seq(Byte) /\ Len(v) = to - start
        /\ \A i \in 1..(to - start) : v[i] = new[start + i - 1]
    <2>1. start <= to /\ start \in Nat
      BY <1>1
    <2>2. \A i \in start..(to - 1) : new[i] \in Byte
      BY <1>1, <1>2
    <2> QED
      BY <2>1, <2>2, WindowType
  <1> HIDE DEF w, v
  <1>6. /\ c \in Seq(Byte) /\ Len(c) = len + Len(w)
        /\ \A i \in 1..(len + Len(w)) :
              c[i] = IF i <= len THEN data[i] ELSE w[i - len]
    BY <1>4, ConcatBytes DEF len
  <1> HIDE DEF c
  <1>7. ASSUME NEW i \in 1..(to - start)
        PROVE  v[i] = c[i]
    <2>1. v[i] = new[start + i - 1] /\ start + i - 1 \in 0..(size - 1)
      BY <1>1, <1>5
    <2>2. CASE i <= len
      <3>1. c[i] = data[i]
        BY <2>2, <1>1, <1>4, <1>6
      <3>2. new[start + i - 1] = data[start + i - 1 - start + 1]
        BY <2>1, <2>2, <1>1, <1>2
      <3>3. start + i - 1 - start + 1 = i
        BY <1>1
      <3> QED
        BY <3>1, <3>2, <3>3, <2>1
    <2>3. CASE ~(i <= len)
      <3>1. c[i] = w[i - len] /\ i - len \in 1..(to - from)
        BY <2>3, <1>1, <1>4, <1>6
      <3>2. w[i - len] = array[from + (i - len) - 1]
        BY <3>1, <1>4
      <3>3. new[start + i - 1] = array[start + i - 1]
        BY <2>1, <2>3, <1>1, <1>2
      <3>4. start + i - 1 = from + (i - len) - 1
        BY <1>1
      <3> QED
        BY <3>1, <3>2, <3>3, <3>4, <2>1
    <2> QED
      BY <2>2, <2>3
  <1>8. Len(v) = Len(c)
    <2>1. Len(c) = len + (to - from)
      BY <1>4, <1>6
    <2> QED
      BY <2>1, <1>1, <1>5
  <1>9. v = c
    BY <1>5, <1>6, <1>7, <1>8, SameBytes
  <1> QED
    BY <1>9 DEF v, c, w, new, from, len

\* A window over a copy shows what was copied.
LEMMA CopyInto ==
    ASSUME NEW size \in Nat, NEW array \in [0..(size - 1) -> Byte],
           NEW at \in Nat, NEW data \in Seq(Byte), at + Len(data) <= size
    PROVE  Window(Copied(array, at, data), at, at + Len(data)) = data
  <1> DEFINE len == Len(data)
             new == Copied(array, at, data)
             end == at + len
             v == Window(new, at, end)
  <1>1. len \in Nat
    BY LenProperties
  <1>2. /\ new \in [0..(size - 1) -> Byte]
        /\ \A i \in 0..(size - 1) :
              new[i] = IF at <= i /\ i < at + len THEN data[i - at + 1] ELSE array[i]
    BY CopiedType
  <1> HIDE DEF len, new
  <1>3. at + len <= size /\ at <= at + len /\ at + len \in Nat
    <2>1. at + len <= size
      BY DEF len
    <2> QED
      BY <2>1, <1>1
  <1>end. end \in Nat /\ end = at + len
    BY <1>3
  <1> HIDE DEF end
  <1>4. /\ v \in Seq(Byte) /\ Len(v) = end - at
        /\ \A i \in 1..(end - at) : v[i] = new[at + i - 1]
    <2>1. \A i \in at..(end - 1) : new[i] \in Byte
      BY <1>end, <1>1, <1>2, <1>3
    <2>2. end \in Nat /\ at <= end
      BY <1>end, <1>1, <1>3
    <2> QED
      BY <2>1, <2>2, WindowType
  <1> HIDE DEF v
  <1>5. ASSUME NEW i \in 1..len
        PROVE  v[i] = data[i]
    <2>1. v[i] = new[at + i - 1] /\ at + i - 1 \in 0..(size - 1)
      BY <1>end, <1>1, <1>3, <1>4
    <2>2. new[at + i - 1] = data[at + i - 1 - at + 1]
      BY <1>end, <2>1, <1>1, <1>2
    <2>3. at + i - 1 - at + 1 = i
      BY <1>end, <1>1
    <2> QED
      BY <2>1, <2>2, <2>3
  <1>6. Len(v) = len
    BY <1>end, <1>1, <1>4
  <1>7. v = data
    BY <1>4, <1>5, <1>6, SameBytes DEF len
  <1> QED
    BY <1>7 DEF v, new, end, len

\* A window that starts n cells later shows the same bytes without the first n.
LEMMA WindowSuffix ==
    ASSUME NEW size \in Nat, NEW array \in [0..(size - 1) -> Byte],
           NEW from \in Nat, NEW to \in Nat, to <= size,
           NEW n \in Nat, n < to - from
    PROVE  Window(array, from + n, to) = SubSeq(Window(array, from, to), n + 1, to - from)
  <1> DEFINE w == Window(array, from, to)
             v == Window(array, from + n, to)
             u == SubSeq(w, n + 1, to - from)
  <1>1. from + n \in Nat /\ from + n <= to /\ from <= to
    OBVIOUS
  <1>2. /\ w \in Seq(Byte) /\ Len(w) = to - from
        /\ \A i \in 1..(to - from) : w[i] = array[from + i - 1]
    <2>1. \A i \in from..(to - 1) : array[i] \in Byte
      OBVIOUS
    <2> QED
      BY <2>1, <1>1, WindowType
  <1>3. /\ v \in Seq(Byte) /\ Len(v) = to - (from + n)
        /\ \A i \in 1..(to - (from + n)) : v[i] = array[from + n + i - 1]
    <2>1. \A i \in (from + n)..(to - 1) : array[i] \in Byte
      BY <1>1
    <2> QED
      BY <2>1, <1>1, WindowType
  <1> HIDE DEF w, v
  <1>4. \A i \in (n + 1)..(to - from) : w[i] \in Byte
    BY <1>2
  <1>5. /\ u \in Seq(Byte)
        /\ Len(u) = IF n + 1 <= to - from THEN (to - from) - (n + 1) + 1 ELSE 0
        /\ \A i \in 1..((to - from) - (n + 1) + 1) : u[i] = w[n + 1 + i - 1]
    BY <1>1, <1>4, SubSeqProperties
  <1> HIDE DEF u
  <1>6. Len(u) = Len(v)
    BY <1>1, <1>3, <1>5
  <1>7. ASSUME NEW i \in 1..Len(v)
        PROVE  v[i] = u[i]
    <2>1. v[i] = array[from + n + i - 1]
      BY <1>3
    <2>2. u[i] = w[n + i] /\ n + i \in 1..(to - from)
      <3>1. i \in 1..((to - from) - (n + 1) + 1) /\ n + i \in 1..(to - from)
        BY <1>1, <1>3
      <3>2. n + 1 + i - 1 = n + i
        BY <3>1
      <3>3. u[i] = w[n + 1 + i - 1]
        BY <1>5, <3>1
      <3> QED
        BY <3>1, <3>2, <3>3
    <2>3. w[n + i] = array[from + (n + i) - 1]
      BY <2>2, <1>2
    <2>4. from + (n + i) - 1 = from + n + i - 1
      BY <1>3
    <2> QED
      BY <2>1, <2>2, <2>3, <2>4
  <1>8. v = u
    BY <1>3, <1>5, <1>6, <1>7, SameBytes
  <1> QED
    BY <1>8 DEF v, u, w

\* A window depends on its own cells only.
LEMMA WindowSame ==
    ASSUME NEW a, NEW b, NEW from \in Nat, NEW to \in Nat,
           \A i \in from..(to - 1) : a[i] = b[i]
    PROVE  Window(a, from, to) = Window(b, from, to)
  <1>1. \A i \in 1..(to - from) : a[from + i - 1] = b[from + i - 1]
    OBVIOUS
  <1> QED
    BY <1>1 DEF Window

\* resize() keeps the cells of the array.
LEMMA ResizedType ==
    ASSUME capacity \in Nat, NEW array \in [0..(capacity - 1) -> Byte],
           NEW size \in Nat, capacity <= size
    PROVE  /\ Resized(array, size) \in [0..(size - 1) -> Byte]
           /\ \A i \in 0..(capacity - 1) : Resized(array, size)[i] = array[i]
  <1> QED
    BY ByteAssumption DEF Resized

-----------------------------------------------------------------------------
(* What each operation does to the bytes between the indexes.              *)

\* The readable bytes are a string of bytes of the length readableBytes().
LEMMA ReadableType ==
    ASSUME TypeOK
    PROVE  /\ Readable \in Seq(Byte)
           /\ Len(Readable) = writerIndex - readerIndex
           /\ writerIndex - readerIndex \in Nat
  <1>1. \A i \in readerIndex..(writerIndex - 1) : mem[i] \in Byte
    BY DEF TypeOK
  <1>2. readerIndex \in Nat /\ writerIndex \in Nat /\ readerIndex <= writerIndex
    BY DEF TypeOK
  <1> QED
    BY <1>1, <1>2, WindowType DEF Readable

\* append() without makeSpace() adds its bytes at the end.
LEMMA AppendFitsStep ==
    ASSUME TypeOK, NEW data \in Seq(Byte), AppendFits(data)
    PROVE  TypeOK' /\ Readable' = Readable \o data
  <1>1. Len(data) \in Nat /\ Len(data) <= capacity - writerIndex
    BY LenProperties DEF AppendFits, writableBytes
  <1>2. /\ mem \in [0..(capacity - 1) -> Byte]
        /\ capacity \in Nat /\ readerIndex \in Nat /\ writerIndex \in Nat
        /\ readerIndex <= writerIndex /\ writerIndex + Len(data) <= capacity
    BY <1>1 DEF TypeOK
  <1>3. Copied(mem, writerIndex, data) \in [0..(capacity - 1) -> Byte]
    BY <1>2, CopiedType
  <1>4. TypeOK'
    BY <1>1, <1>2, <1>3 DEF TypeOK, AppendFits
  <1>5. Window(Copied(mem, writerIndex, data), readerIndex, writerIndex + Len(data))
            = Window(mem, readerIndex, writerIndex) \o data
    BY <1>2, CopyBehind
  <1> QED
    BY <1>4, <1>5 DEF AppendFits, Readable

\* append() with a larger array adds its bytes at the end.
LEMMA AppendGrowsStep ==
    ASSUME TypeOK, NEW data \in Seq(Byte), AppendGrows(data)
    PROVE  TypeOK' /\ Readable' = Readable \o data
  <1> DEFINE size == writerIndex + Len(data)
             array == Resized(mem, size)
  <1>1. Len(data) \in Nat /\ Len(data) > capacity - writerIndex
    BY LenProperties DEF AppendGrows, writableBytes
  <1>2. /\ mem \in [0..(capacity - 1) -> Byte]
        /\ capacity \in Nat /\ readerIndex \in Nat /\ writerIndex \in Nat
        /\ readerIndex <= writerIndex /\ writerIndex <= capacity
        /\ size \in Nat /\ capacity <= size
    BY <1>1 DEF TypeOK
  <1>3. writerIndex + Len(data) <= size
    BY <1>2
  <1>4. /\ capacity' = size /\ mem' = Copied(array, writerIndex, data)
        /\ writerIndex' = writerIndex + Len(data) /\ readerIndex' = readerIndex
    BY DEF AppendGrows
  <1> HIDE DEF size
  <1>5. /\ array \in [0..(size - 1) -> Byte]
        /\ \A i \in 0..(capacity - 1) : array[i] = mem[i]
    BY <1>2, ResizedType
  <1> HIDE DEF array
  <1>6. Copied(array, writerIndex, data) \in [0..(size - 1) -> Byte]
    BY <1>2, <1>5, CopiedType
  <1>7. TypeOK'
    BY <1>1, <1>2, <1>3, <1>4, <1>6, SizeAssumption DEF TypeOK, size
  <1>8. Window(Copied(array, writerIndex, data), readerIndex, writerIndex + Len(data))
            = Window(array, readerIndex, writerIndex) \o data
    BY <1>2, <1>3, <1>5, CopyBehind
  <1>9. Window(array, readerIndex, writerIndex) = Window(mem, readerIndex, writerIndex)
    <2>1. \A i \in readerIndex..(writerIndex - 1) : array[i] = mem[i]
      BY <1>2, <1>5
    <2> QED
      BY <2>1, <1>2, WindowSame
  <1> QED
    BY <1>4, <1>7, <1>8, <1>9 DEF Readable

\* Moving a string of bytes to the front of the array and putting another one
\* behind it leaves the two in order.
LEMMA MovedBytes ==
    ASSUME NEW size \in Nat, NEW array \in [0..(size - 1) -> Byte],
           NEW s \in Seq(Byte), NEW t \in Seq(Byte), NEW at \in Nat,
           at + Len(s) + Len(t) <= size
    PROVE  /\ Copied(Copied(array, at, s), at + Len(s), t) \in [0..(size - 1) -> Byte]
           /\ Window(Copied(Copied(array, at, s), at + Len(s), t), at, at + Len(s) + Len(t))
                  = s \o t
  <1> DEFINE front == Copied(array, at, s)
             end == at + Len(s)
  <1>1. Len(s) \in Nat /\ Len(t) \in Nat
    BY LenProperties
  <1>2. /\ end \in Nat /\ at <= end /\ end + Len(t) <= size
        /\ at + Len(s) <= size
    BY <1>1
  <1>3. front \in [0..(size - 1) -> Byte]
    BY CopiedType
  <1>4. Window(front, at, end) = s
    BY <1>2, CopyInto
  <1> HIDE DEF front, end
  <1>5. Copied(front, end, t) \in [0..(size - 1) -> Byte]
    BY <1>2, <1>3, CopiedType
  <1>6. Window(Copied(front, end, t), at, end + Len(t)) = Window(front, at, end) \o t
    BY <1>2, <1>3, CopyBehind
  <1> QED
    BY <1>4, <1>5, <1>6 DEF front, end

\* append() with the readable bytes moved to the front adds its bytes at the end.
LEMMA AppendMovesStep ==
    ASSUME TypeOK, NEW data \in Seq(Byte), AppendMoves(data)
    PROVE  TypeOK' /\ Readable' = Readable \o data
  <1> DEFINE r == Readable
             end == CheapPrepend + Len(r)
             moved == Copied(Copied(mem, CheapPrepend, r), end, data)
  <1>1. Len(data) \in Nat /\ CheapPrepend \in Nat
    BY LenProperties, SizeAssumption
  <1>2. /\ mem \in [0..(capacity - 1) -> Byte]
        /\ capacity \in Nat /\ readerIndex \in Nat /\ writerIndex \in Nat
        /\ CheapPrepend <= capacity
    BY DEF TypeOK
  <1>3. r \in Seq(Byte) /\ Len(r) = writerIndex - readerIndex /\ Len(r) \in Nat
    BY ReadableType
  <1>4. /\ mem' = moved /\ readerIndex' = CheapPrepend /\ capacity' = capacity
        /\ writerIndex' = end + Len(data)
    BY <1>3 DEF AppendMoves, readableBytes
  <1>5. end + Len(data) <= capacity
    BY <1>1, <1>2, <1>3
       DEF AppendMoves, MustGrow, writableBytes, prependableBytes
  <1> HIDE DEF r
  <1>6. r \in Seq(Byte)
    BY <1>3
  <1>7. /\ moved \in [0..(capacity - 1) -> Byte]
        /\ Window(moved, CheapPrepend, end + Len(data)) = r \o data
    <2>1. CheapPrepend + Len(r) + Len(data) <= capacity
      BY <1>5
    <2>2. /\ mem \in [0..(capacity - 1) -> Byte]
          /\ capacity \in Nat /\ CheapPrepend \in Nat
      BY <1>1, <1>2
    <2> QED
      BY <2>1, <2>2, <1>6, MovedBytes
  <1>8. end \in Nat /\ CheapPrepend <= end
    BY <1>1, <1>3
  <1> HIDE DEF moved, end
  <1>9. TypeOK'
    BY <1>1, <1>2, <1>4, <1>5, <1>7, <1>8 DEF TypeOK
  <1>10. Readable' = Window(mem', readerIndex', writerIndex')
    BY DEF Readable
  <1> QED
    BY <1>4, <1>7, <1>9, <1>10 DEF r

\* prepend() adds its bytes at the front.
LEMMA PrependStep ==
    ASSUME TypeOK, NEW data \in Seq(Byte), prepend(data)
    PROVE  TypeOK' /\ Readable' = data \o Readable
  <1>1. Len(data) \in Nat /\ Len(data) <= readerIndex
    BY LenProperties DEF prepend, prependableBytes
  <1>2. /\ mem \in [0..(capacity - 1) -> Byte]
        /\ capacity \in Nat /\ readerIndex \in Nat /\ writerIndex \in Nat
        /\ readerIndex <= writerIndex /\ writerIndex <= capacity
        /\ readerIndex - Len(data) \in Nat
    BY <1>1 DEF TypeOK
  <1> DEFINE start == readerIndex - Len(data)
  <1>3. start \in Nat /\ readerIndex = start + Len(data)
    BY <1>1, <1>2
  <1>7. /\ mem' = Copied(mem, start, data)
        /\ readerIndex' = start /\ writerIndex' = writerIndex /\ capacity' = capacity
    BY DEF prepend
  <1> HIDE DEF start
  <1>8. Copied(mem, start, data) \in [0..(capacity - 1) -> Byte]
    BY <1>2, <1>3, CopiedType
  <1>4. TypeOK'
    BY <1>1, <1>2, <1>3, <1>7, <1>8 DEF TypeOK
  <1>5. Window(Copied(mem, start, data), start, writerIndex)
            = data \o Window(mem, start + Len(data), writerIndex)
    <2>1. start + Len(data) <= writerIndex /\ writerIndex <= capacity
      BY <1>2, <1>3
    <2>2. /\ mem \in [0..(capacity - 1) -> Byte]
          /\ capacity \in Nat /\ start \in Nat /\ writerIndex \in Nat
      BY <1>2, <1>3
    <2> QED
      BY <2>1, <2>2, CopyBefore
  <1>6. Readable' = Window(mem', readerIndex', writerIndex')
    BY DEF Readable
  <1> QED
    BY <1>3, <1>4, <1>5, <1>6, <1>7 DEF Readable

\* retrieve() drops bytes at the front.
LEMMA RetrieveStep ==
    ASSUME TypeOK, NEW n \in Nat, retrieve(n)
    PROVE  /\ TypeOK'
           /\ Readable' = IF n < Len(Readable)
                          THEN SubSeq(Readable, n + 1, Len(Readable)) ELSE <<>>
  <1>1. /\ mem \in [0..(capacity - 1) -> Byte]
        /\ capacity \in Nat /\ readerIndex \in Nat /\ writerIndex \in Nat
        /\ readerIndex <= writerIndex /\ writerIndex <= capacity
    BY DEF TypeOK
  <1>2. Len(Readable) = writerIndex - readerIndex
    BY ReadableType
  <1>3. CASE n < writerIndex - readerIndex
    <2>1. TypeOK'
      BY <1>1, <1>3 DEF TypeOK, retrieve, readableBytes
    <2>2. Window(mem, readerIndex + n, writerIndex)
              = SubSeq(Window(mem, readerIndex, writerIndex), n + 1, writerIndex - readerIndex)
      BY <1>1, <1>3, WindowSuffix
    <2>3. Readable' = Window(mem, readerIndex + n, writerIndex)
      BY <1>3 DEF Readable, retrieve, readableBytes
    <2> QED
      BY <2>1, <2>2, <2>3, <1>2, <1>3 DEF Readable
  <1>4. CASE ~(n < writerIndex - readerIndex)
    <2>1. /\ readerIndex' = CheapPrepend /\ writerIndex' = CheapPrepend
          /\ mem' = mem /\ capacity' = capacity
      BY <1>4 DEF retrieve, readableBytes
    <2>2. TypeOK'
      BY <2>1, <1>1, SizeAssumption DEF TypeOK
    <2>3. Readable' = Window(mem', CheapPrepend, CheapPrepend)
      BY <2>1 DEF Readable
    <2>4. Window(mem', CheapPrepend, CheapPrepend) = <<>>
      <3>1. 1..(CheapPrepend - CheapPrepend) = {}
        BY SizeAssumption
      <3> QED
        BY <3>1 DEF Window
    <2> QED
      BY <2>2, <2>3, <2>4, <1>2, <1>4
  <1> QED
    BY <1>3, <1>4

\* shrink() keeps the bytes.
LEMMA ShrinkStep ==
    ASSUME TypeOK, NEW n \in Nat, shrink(n)
    PROVE  TypeOK' /\ Readable' = Readable
  <1> DEFINE r == Readable
             size == CheapPrepend + IF InitialSize < readableBytes + n
                                    THEN readableBytes + n ELSE InitialSize
             new == Copied(Zeros(size), CheapPrepend, r)
  <1>1. r \in Seq(Byte) /\ Len(r) = writerIndex - readerIndex /\ Len(r) \in Nat
    BY ReadableType
  <1>2. /\ size \in Nat /\ CheapPrepend \in Nat
        /\ CheapPrepend + Len(r) <= size /\ CheapPrepend <= CheapPrepend + Len(r)
    BY <1>1, SizeAssumption DEF readableBytes
  <1>3. /\ capacity' = size /\ mem' = new /\ readerIndex' = CheapPrepend
        /\ writerIndex' = CheapPrepend + Len(r)
    BY <1>1 DEF shrink, readableBytes
  <1> HIDE DEF size, r
  <1>4. Zeros(size) \in [0..(size - 1) -> Byte]
    BY <1>2, ByteAssumption DEF Zeros
  <1>5. r \in Seq(Byte)
    BY <1>1
  <1>6. new \in [0..(size - 1) -> Byte]
    BY <1>2, <1>4, <1>5, CopiedType
  <1>7. Window(new, CheapPrepend, CheapPrepend + Len(r)) = r
    BY <1>2, <1>4, <1>5, CopyInto
  <1> HIDE DEF new
  <1>8. TypeOK'
    BY <1>1, <1>2, <1>3, <1>6 DEF TypeOK
  <1>9. Readable' = Window(mem', readerIndex', writerIndex')
    BY DEF Readable
  <1> QED
    BY <1>3, <1>7, <1>8, <1>9 DEF r

\* Resizing a full array and putting a string of bytes behind its old end.
LEMMA GrownBytes ==
    ASSUME capacity \in Nat, NEW array \in [0..(capacity - 1) -> Byte],
           NEW from \in Nat, from <= capacity, NEW rest \in Seq(Byte)
    PROVE  /\ Copied(Resized(array, capacity + Len(rest)), capacity, rest)
                  \in [0..(capacity + Len(rest) - 1) -> Byte]
           /\ Window(Copied(Resized(array, capacity + Len(rest)), capacity, rest),
                     from, capacity + Len(rest))
                  = Window(array, from, capacity) \o rest
  <1> DEFINE size == capacity + Len(rest)
             larger == Resized(array, size)
  <1>1. Len(rest) \in Nat
    BY LenProperties
  <1>2. size \in Nat /\ capacity <= size /\ capacity + Len(rest) <= size
    BY <1>1
  <1> HIDE DEF size
  <1>3. /\ larger \in [0..(size - 1) -> Byte]
        /\ \A i \in 0..(capacity - 1) : larger[i] = array[i]
    BY <1>2, ResizedType
  <1> HIDE DEF larger
  <1>4. Copied(larger, capacity, rest) \in [0..(size - 1) -> Byte]
    BY <1>2, <1>3, CopiedType
  <1>5. Window(Copied(larger, capacity, rest), from, capacity + Len(rest))
            = Window(larger, from, capacity) \o rest
    BY <1>2, <1>3, CopyBehind
  <1>6. Window(larger, from, capacity) = Window(array, from, capacity)
    <2>1. \A i \in from..(capacity - 1) : larger[i] = array[i]
      BY <1>3
    <2> QED
      BY <2>1, WindowSame
  <1> QED
    BY <1>4, <1>5, <1>6 DEF larger, size

\* readFd() adds what was read at the end, also where it spilled over.
LEMMA ReadFdSpillsStep ==
    ASSUME TypeOK, NEW data \in Seq(Byte), ReadFdSpills(data)
    PROVE  TypeOK' /\ Readable' = Readable \o data
  <1> DEFINE fits == SubSeq(data, 1, writableBytes)
             rest == SubSeq(data, writableBytes + 1, Len(data))
             full == Copied(mem, writerIndex, fits)
             all == Window(full, readerIndex, capacity)
  <1>1. /\ mem \in [0..(capacity - 1) -> Byte]
        /\ capacity \in Nat /\ readerIndex \in Nat /\ writerIndex \in Nat
        /\ readerIndex <= writerIndex /\ writerIndex <= capacity
        /\ readerIndex <= capacity /\ CheapPrepend <= capacity
    BY DEF TypeOK
  <1>2. /\ writableBytes \in Nat /\ writerIndex + writableBytes = capacity
        /\ Len(data) \in Nat /\ CheapPrepend \in Nat
    BY <1>1, LenProperties, SizeAssumption DEF writableBytes
  <1>3. Len(data) > writableBytes
    BY DEF ReadFdSpills
  <1>4. \A i \in 1..Len(data) : data[i] \in Byte
    BY LenProperties
  <1>5. fits \in Seq(Byte) /\ Len(fits) = writableBytes
    <2>1. \A i \in 1..writableBytes : data[i] \in Byte
      BY <1>2, <1>3, <1>4
    <2> QED
      BY <2>1, <1>2, SubSeqProperties
  <1>6. rest \in Seq(Byte) /\ Len(rest) = Len(data) - writableBytes
    <2>1. \A i \in (writableBytes + 1)..Len(data) : data[i] \in Byte
      BY <1>2, <1>4
    <2>2. writableBytes + 1 \in Int /\ Len(data) \in Int /\ writableBytes + 1 <= Len(data)
      BY <1>2, <1>3
    <2>3. rest \in Seq(Byte) /\ Len(rest) = Len(data) - (writableBytes + 1) + 1
      BY <2>1, <2>2, SubSeqProperties
    <2> QED
      BY <2>3, <1>2
  <1>7. fits \o rest = data
    <2>1. /\ 1 \in 1..(Len(data) + 1) /\ writableBytes \in (1 - 1)..Len(data)
          /\ Len(data) \in writableBytes..Len(data)
      BY <1>2, <1>3
    <2>2. fits \o rest = SubSeq(data, 1, Len(data))
      BY <2>1, ConcatAdjacentSubSeq
    <2>3. SubSeq(data, 1, Len(data)) = data
      BY SubSeqFull
    <2> QED
      BY <2>2, <2>3
  <1> HIDE DEF fits, rest
  <1>8. full \in [0..(capacity - 1) -> Byte]
    BY <1>1, <1>5, CopiedType
  <1>9. Window(full, readerIndex, writerIndex + Len(fits)) = Readable \o fits
    <2>1. writerIndex + Len(fits) <= capacity
      BY <1>2, <1>5, <1>1
    <2>2. fits \in Seq(Byte)
      BY <1>5
    <2> QED
      BY <2>1, <2>2, <1>1, CopyBehind DEF Readable
  <1>10. all = Readable \o fits
    BY <1>2, <1>5, <1>9
  <1> HIDE DEF full
  <1>11. all \in Seq(Byte) /\ Len(all) = capacity - readerIndex
    <2>1. \A i \in readerIndex..(capacity - 1) : full[i] \in Byte
      BY <1>1, <1>8
    <2> QED
      BY <2>1, <1>1, WindowType
  <1>12. Readable \o data = all \o rest
    <2>1. Readable \in Seq(Byte)
      BY ReadableType
    <2>2. (Readable \o fits) \o rest = Readable \o (fits \o rest)
      <3>1. fits \in Seq(Byte) /\ rest \in Seq(Byte)
        BY <1>5, <1>6
      <3> QED
        BY <3>1, <2>1, ConcatAssociative
    <2> QED
      BY <2>2, <1>7, <1>10
  <1>13. Readable' = Window(mem', readerIndex', writerIndex')
    BY DEF Readable
  <1>14. CASE prependableBytes < Len(rest) + CheapPrepend
    <2>1. /\ capacity' = capacity + Len(rest) /\ readerIndex' = readerIndex
          /\ mem' = Copied(Resized(full, capacity + Len(rest)), capacity, rest)
          /\ writerIndex' = capacity + Len(rest)
      BY <1>14 DEF ReadFdSpills, rest, full, fits
    <2>2. /\ mem' \in [0..(capacity + Len(rest) - 1) -> Byte]
          /\ Window(mem', readerIndex, capacity + Len(rest)) = all \o rest
      <3>1. /\ rest \in Seq(Byte) /\ capacity \in Nat /\ readerIndex \in Nat
            /\ readerIndex <= capacity
        BY <1>1, <1>6
      <3>2. /\ Copied(Resized(full, capacity + Len(rest)), capacity, rest)
                   \in [0..(capacity + Len(rest) - 1) -> Byte]
            /\ Window(Copied(Resized(full, capacity + Len(rest)), capacity, rest),
                      readerIndex, capacity + Len(rest))
                   = Window(full, readerIndex, capacity) \o rest
        BY <3>1, <1>8, GrownBytes
      <3> QED
        BY <3>2, <2>1
    <2>3. Len(rest) \in Nat
      BY <1>6, LenProperties
    <2>4. TypeOK'
      BY <2>1, <2>2, <2>3, <1>1, <1>2 DEF TypeOK
    <2> QED
      BY <2>1, <2>2, <2>4, <1>12, <1>13
  <1>15. CASE ~(prependableBytes < Len(rest) + CheapPrepend)
    <2>1. /\ capacity' = capacity /\ readerIndex' = CheapPrepend
          /\ mem' = Copied(Copied(full, CheapPrepend, all), CheapPrepend + Len(all), rest)
          /\ writerIndex' = CheapPrepend + Len(all) + Len(rest)
      BY <1>15 DEF ReadFdSpills, rest, full, fits
    <2>2. Len(rest) \in Nat /\ Len(all) \in Nat
      BY <1>6, <1>11, LenProperties
    <2>3. CheapPrepend + Len(all) + Len(rest) <= capacity
      BY <2>2, <1>1, <1>2, <1>11, <1>15 DEF prependableBytes
    <2> HIDE DEF all
    <2>4. /\ mem' \in [0..(capacity - 1) -> Byte]
          /\ Window(mem', CheapPrepend, CheapPrepend + Len(all) + Len(rest)) = all \o rest
      <3>1. rest \in Seq(Byte) /\ all \in Seq(Byte) /\ CheapPrepend \in Nat /\ capacity \in Nat
        BY <1>1, <1>2, <1>6, <1>11
      <3> QED
        BY <3>1, <2>1, <2>3, <1>8, MovedBytes
    <2>5. TypeOK'
      BY <2>1, <2>2, <2>3, <2>4, <1>1, <1>2 DEF TypeOK
    <2> QED
      BY <2>1, <2>4, <2>5, <1>12, <1>13
  <1> QED
    BY <1>14, <1>15

-----------------------------------------------------------------------------
(* The theorems.                                                           *)

\* A fresh buffer is empty.
LEMMA InitStep ==
    ASSUME Init
    PROVE  TypeOK /\ Readable = <<>>
  <1>1. TypeOK
    BY SizeAssumption, ByteAssumption DEF Init, TypeOK, Zeros
  <1>2. 1..(writerIndex - readerIndex) = {}
    BY SizeAssumption DEF Init
  <1> QED
    BY <1>1, <1>2 DEF Readable, Window

\* Every step keeps TypeOK and is a step of the queue.
LEMMA QueueStep ==
    ASSUME TypeOK, [Next]_vars
    PROVE  TypeOK' /\ [Queue!Next]_Readable
  <1>1. ASSUME NEW data \in Chunk,
               append(data) \/ prepend(data) \/ readFd(data)
        PROVE  TypeOK' /\ Queue!Next
    <2>1. data \in Seq(Byte)
      BY ChunkType
    <2>2. CASE AppendFits(data)
      BY <2>1, <2>2, AppendFitsStep DEF Queue!Next, Queue!Put
    <2>3. CASE AppendGrows(data)
      BY <2>1, <2>3, AppendGrowsStep DEF Queue!Next, Queue!Put
    <2>4. CASE AppendMoves(data)
      BY <2>1, <2>4, AppendMovesStep DEF Queue!Next, Queue!Put
    <2>5. CASE prepend(data)
      BY <2>1, <2>5, PrependStep DEF Queue!Next, Queue!PutFront
    <2>6. CASE ReadFdSpills(data)
      BY <2>1, <2>6, ReadFdSpillsStep DEF Queue!Next, Queue!Put
    <2> QED
      BY <1>1, <2>2, <2>3, <2>4, <2>5, <2>6 DEF append, readFd
  <1>2. ASSUME NEW n \in 0..MaxChunk, retrieve(n)
        PROVE  TypeOK' /\ Queue!Next
    <2>1. n \in Nat
      BY SizeAssumption
    <2> QED
      BY <2>1, <1>2, RetrieveStep DEF Queue!Next, Queue!Drop
  <1>3. ASSUME NEW n \in 0..MaxChunk, shrink(n)
        PROVE  TypeOK' /\ Readable' = Readable
    <2>1. n \in Nat
      BY SizeAssumption
    <2> QED
      BY <2>1, <1>3, ShrinkStep
  <1>4. CASE UNCHANGED vars
    BY <1>4 DEF vars, TypeOK, Readable
  <1> QED
    BY <1>1, <1>2, <1>3, <1>4 DEF Next

\* The indexes of buffer_ stay in order and inside the array, whatever is
\* appended, read, consumed, prepended or shrunk.
THEOREM TypeCorrect == Spec => []TypeOK
  <1>1. Init => TypeOK
    BY InitStep
  <1>2. TypeOK /\ [Next]_vars => TypeOK'
    BY QueueStep
  <1> QED
    BY <1>1, <1>2, PTL DEF Spec

\* The readable bytes of a Buffer behave as a queue of bytes.
THEOREM Refinement == Spec => ImplementsQueue
  <1>1. Init => Queue!Init
    BY InitStep DEF Queue!Init
  <1>2. TypeOK /\ [Next]_vars => [Queue!Next]_Readable
    BY QueueStep
  <1> QED
    BY <1>1, <1>2, TypeCorrect, PTL DEF Spec, ImplementsQueue, Queue!Spec

\* makeSpace() resizes only an array that then is at least half full.
THEOREM ProportionalGrowth == Spec => GrowsProportionally
  <1> DEFINE Grows == capacity' > capacity /\ Readable' # Readable
                => capacity' < 2 * (writerIndex' - readerIndex') + CheapPrepend
  <1>1. ASSUME TypeOK, Next
        PROVE  Grows
    <2>1. /\ capacity \in Nat /\ readerIndex \in Nat /\ writerIndex \in Nat
          /\ readerIndex <= writerIndex /\ writerIndex <= capacity
          /\ CheapPrepend \in Nat
      BY <1>1, SizeAssumption DEF TypeOK
    <2>2. ASSUME NEW data \in Chunk,
                 append(data) \/ prepend(data) \/ readFd(data)
          PROVE  Grows
      <3>1. data \in Seq(Byte) /\ Len(data) \in Nat
        BY ChunkType
      <3>2. CASE AppendGrows(data)
        BY <3>1, <3>2, <2>1
           DEF AppendGrows, MustGrow, writableBytes, prependableBytes
      <3>3. CASE ReadFdSpills(data)
        <4> DEFINE rest == SubSeq(data, writableBytes + 1, Len(data))
        <4>1. Len(rest) \in Nat
          <5>1. writableBytes + 1 \in Int /\ Len(data) \in Int
            BY <2>1, <3>1 DEF writableBytes
          <5>2. \A i \in (writableBytes + 1)..Len(data) : data[i] \in Byte
            BY <2>1, <3>1, LenProperties DEF writableBytes
          <5>3. rest \in Seq(Byte)
            BY <5>1, <5>2, SubSeqProperties
          <5> QED
            BY <5>3, LenProperties
        <4>2. capacity' = capacity
                  \/ /\ readerIndex < Len(rest) + CheapPrepend
                     /\ capacity' = capacity + Len(rest)
                     /\ writerIndex' = capacity + Len(rest)
                     /\ readerIndex' = readerIndex
          BY <3>3 DEF ReadFdSpills, prependableBytes
        <4> HIDE DEF rest
        <4> QED
          BY <4>1, <4>2, <2>1
      <3>4. CASE AppendFits(data) \/ AppendMoves(data) \/ prepend(data)
        BY <3>4, <2>1 DEF AppendFits, AppendMoves, prepend
      <3> QED
        BY <2>2, <3>2, <3>3, <3>4 DEF append, readFd
    <2>3. ASSUME NEW n \in 0..MaxChunk, retrieve(n)
          PROVE  Grows
      BY <2>3, <2>1 DEF retrieve
    <2>4. ASSUME NEW n \in 0..MaxChunk, shrink(n)
          PROVE  Grows
      <3>1. n \in Nat
        BY SizeAssumption
      <3> QED
        BY <3>1, <2>4, <1>1, ShrinkStep
    <2> QED
      BY <1>1, <2>2, <2>3, <2>4 DEF Next
  <1>2. TypeOK /\ [Next]_vars => [Grows]_vars
    BY <1>1
  <1> QED
    BY <1>2, TypeCorrect, PTL DEF Spec, GrowsProportionally
===============================================================================
