---------------------------- MODULE BufferStream ----------------------------
(***************************************************************************)
(* common/network/buffer_stream.h: typed writes into a Buffer and typed    *)
(* reads from one.  A value is the sequence of its bytes in memory, lowest *)
(* first; byte k of item n is named <<n, k>>.  The reader knows the types  *)
(* the writer used and reads an item when it is complete.  A float is      *)
(* written as the uint32 it is stored as, and a double as the uint64.      *)
(***************************************************************************)
EXTENDS Naturals, SequencesExt

CONSTANTS MaxItems,   \* items written
          LengthBase  \* what the length of a string is cut to: 2^16 in the code

VARIABLES sent,     \* the items written: [type, size]
          buffer_,  \* the readable bytes
          got       \* the values the reader has got

vars == <<sent, buffer_, got>>

Width == [int8 |-> 1, uint8 |-> 1, int16 |-> 2, int32 |-> 4, int64 |-> 8]
Number == DOMAIN Width
Item == [type : Number, size : {0}] \union [type : {"string"}, size : 0..LengthBase]
Stale == <<0, 0>>

Value(n, w) == [k \in 1..w |-> <<n, k>>]

\* The two bytes of a length field: named after no item, they tell the length.
Length(l) == << <<0, l + 1>>, <<0, l + 1>> >>

-----------------------------------------------------------------------------
(* BufferOutputStream. *)

\* Mutation of hton: the order of the bytes is not changed.
htonNot(v) == v

\* hton16(), hton32(), hton64(): the highest byte goes first.
hton(v) == Reverse(v)

writeNumber(type) ==
  /\ sent' = Append(sent, [type |-> type, size |-> 0])
  /\ buffer_' = buffer_ \o hton(Value(Len(sent) + 1, Width[type]))
  /\ UNCHANGED got

\* The length is cut to 16 bits, the characters are all written.
writeString(size) ==
  /\ sent' = Append(sent, [type |-> "string", size |-> size])
  /\ buffer_' = buffer_ \o hton(Length(size % LengthBase)) \o Value(Len(sent) + 1, size)
  /\ UNCHANGED got

-----------------------------------------------------------------------------
(* BufferInputStream. *)

\* memcpy() from peek(): past the readable bytes it copies what is left there.
peek(b, n) == [k \in 1..n |-> IF k <= Len(b) THEN b[k] ELSE Stale]

\* Buffer::retrieve().
retrieve(b, n) == IF n < Len(b) THEN SubSeq(b, n + 1, Len(b)) ELSE <<>>

\* ntoh16(), ntoh32(), ntoh64(): the same swap back.
ntoh(v) == Reverse(v)

\* readInt8() skips a byte before it copies one.
readInt8 ==
  /\ got' = Append(got, peek(retrieve(buffer_, 1), 1))
  /\ buffer_' = retrieve(retrieve(buffer_, 1), 1)
  /\ UNCHANGED sent

readNumber(type) ==
  /\ got' = Append(got, ntoh(peek(buffer_, Width[type])))
  /\ buffer_' = retrieve(buffer_, Width[type])
  /\ UNCHANGED sent

\* The length that two bytes make: any, if they are not a length field.
LengthRead(v) ==
  IF v[1] = v[2] /\ v[1][1] = 0 /\ v[1] # Stale THEN {v[1][2] - 1} ELSE 0 .. LengthBase - 1

readString ==
  LET rest == retrieve(buffer_, 2) IN
  /\ \E l \in LengthRead(ntoh(peek(buffer_, 2))) :
       /\ got' = Append(got, peek(rest, l))
       /\ buffer_' = retrieve(rest, l)
  /\ UNCHANGED sent

Init == sent = <<>> /\ buffer_ = <<>> /\ got = <<>>

Write ==
  /\ Len(sent) < MaxItems
  /\ \/ \E type \in Number : writeNumber(type)
     \/ \E size \in 0..LengthBase : writeString(size)

Read ==
  /\ Len(got) < Len(sent)
  /\ LET type == sent[Len(got) + 1].type IN
       \/ type = "int8" /\ readInt8
       \/ type = "string" /\ readString
       \/ type \in Number \ {"int8"} /\ readNumber(type)

Next == Write \/ Read

Spec == Init /\ [][Next]_vars

-----------------------------------------------------------------------------
(* Properties. *)

Original(n) == IF sent[n].type = "string" THEN Value(n, sent[n].size)
               ELSE Value(n, Width[sent[n].type])

\* The reader gets what was written, byte order and all, up to the first int8
\* or the first string that is too long for its length field: readInt8() takes
\* two bytes where writeInt8() puts one.
ReadsBack ==
  \A n \in DOMAIN got :
    \/ got[n] = Original(n)
    \/ \E m \in 1..n : sent[m].type = "int8" \/ sent[m].size >= LengthBase
=============================================================================
