------------------------------- MODULE Codec -------------------------------
(***************************************************************************)
(* core/message: DefaultCodec and LengthFieldCodec over the Buffer of a    *)
(* connection.  The stream is counted in tokens: a header has HeaderSize   *)
(* of them (magic, length, id; 13 bytes in the code), the prefix of        *)
(* LengthFieldCodec has PrefixSize (length, id; 8 bytes), and a body any   *)
(* number.  The buffer is the part of the stream from `consumed' to        *)
(* `arrived'.  A body is arbitrary bytes, so the magic number and the      *)
(* version may be read also where no message begins.  What a class of      *)
(* messages reads from the buffer is up to its own deserialize(), of which *)
(* the repository has none.                                                *)
(***************************************************************************)
EXTENDS Integers, Sequences

CONSTANTS MaxMessages,  \* messages of the stream
          MaxBody       \* tokens of a body

HeaderSize == 3
PrefixSize == 2

VARIABLES codec,    \* which of the two codecs both sides use
          body,     \* message -> the tokens of its body
          known,    \* the messages whose id MessageFactory knows
          magics,   \* the places inside messages that read as magic number and version
          arrived,  \* tokens received
          consumed, \* tokens read from the buffer
          decoded,  \* the messages decode() returned; 0 is one nobody sent
          torn,     \* history: a call met a message that had not arrived whole, has an
                    \* unknown id or was not read back, or getMessageLength() ate a header
          lost      \* history: the whole messages decode() took for incomplete ones

vars == <<codec, body, known, magics, arrived, consumed, decoded, torn, lost>>
stream == <<codec, body, known, magics>>

Message == 1..MaxMessages
Lesser(a, b) == IF a <= b THEN a ELSE b

-----------------------------------------------------------------------------
(* encode(). *)

\* The tokens in front of a body.
Front == IF codec = "default" THEN HeaderSize ELSE PrefixSize

\* The length field: both codecs count the header of DefaultCodec.
length(m) == HeaderSize + body[m]

\* End[m] is where message m ends in the stream.
End[m \in 0..MaxMessages] == IF m = 0 THEN 0 ELSE End[m - 1] + Front + body[m]

Aligned(m) == consumed = End[m - 1]

-----------------------------------------------------------------------------
(* decode(). *)

readable == arrived - consumed

Whole(m) == End[m] <= arrived

\* Mutation of Incomplete: the length is taken for that of the body alone.
IncompleteByHeader(m) == readable - Front < length(m)

\* Fewer tokens follow the front than the length field asks for.  The length of
\* LengthFieldCodec counts a header it does not write, so that a message may be
\* incomplete and have arrived whole.
Incomplete(m) == readable - Front < length(m) - Front

\* Mutation of deserialize: the magic number is not compared.
deserializeAny == TRUE

\* MessageHeader::deserialize(): magic number and version stand at the read
\* position; LengthFieldCodec has neither.
deserialize == codec = "default" => consumed \in magics \/ \E m \in Message : Aligned(m)

\* A message that is there completely, has a known id and reads its body back.
DecodeMessage(m) ==
  /\ Aligned(m) /\ ~Incomplete(m) /\ m \in known
  /\ consumed' = End[m]
  /\ decoded' = Append(decoded, m)
  /\ UNCHANGED <<torn, lost>>

\* The deserialize() of its class fails, or reads more or less than the body.
DecodeMisread(m) ==
  /\ Aligned(m) /\ ~Incomplete(m) /\ m \in known
  /\ consumed' \in consumed + Front .. arrived
  /\ \/ UNCHANGED decoded
     \/ consumed' # End[m] /\ decoded' = Append(decoded, m)
  /\ torn' = TRUE
  /\ UNCHANGED lost

\* A message whose id is not known: its body stays in the buffer.
DecodeUnknown(m) ==
  /\ Aligned(m) /\ ~Incomplete(m) /\ m \notin known
  /\ consumed' = consumed + Front
  /\ torn' = TRUE
  /\ UNCHANGED <<decoded, lost>>

\* A message taken for incomplete: its front has been read; DefaultCodec means
\* to put the read position back and retrieves as much once more.
DecodePart(m) ==
  /\ Aligned(m) /\ Incomplete(m)
  /\ consumed' = IF codec = "default" THEN Lesser(arrived, consumed + 2 * Front)
                 ELSE consumed + Front
  /\ torn' = (torn \/ ~Whole(m))
  /\ lost' = lost \union {n \in {m} : Whole(n)}
  /\ UNCHANGED decoded

\* No message begins here, but other tokens are taken for a front: any length,
\* any id, and whatever the class of that id reads.
DecodeGarbage ==
  /\ \A m \in Message : ~Aligned(m)
  /\ consumed' \in consumed + Front .. arrived
  /\ decoded' \in {decoded, Append(decoded, 0)}
  /\ UNCHANGED <<torn, lost>>

decode ==
  /\ readable >= Front
  /\ \/ deserialize /\ DecodeGarbage
     \/ /\ deserialize
        /\ \E m \in Message : \/ DecodeMessage(m) \/ DecodeMisread(m)
                              \/ DecodeUnknown(m) \/ DecodePart(m)
     \/ ~deserialize /\ consumed' = consumed + Front /\ UNCHANGED <<decoded, torn, lost>>
  /\ UNCHANGED <<stream, arrived>>

\* DefaultCodec::getMessageLength() reads the header it looks at; that of
\* LengthFieldCodec peeks.
getMessageLength ==
  /\ codec = "default" /\ readable >= Front
  /\ consumed' = consumed + Front
  /\ torn' = TRUE
  /\ UNCHANGED <<stream, arrived, decoded, lost>>

Receive ==
  /\ \E n \in arrived + 1 .. End[MaxMessages] : arrived' = n
  /\ UNCHANGED <<stream, consumed, decoded, torn, lost>>

\* Where five bytes of a body, or of an id and its body, may read as a magic
\* number and a version.
Inside == {p \in 0..End[MaxMessages] :
            \E m \in Message : body[m] > 0 /\ End[m - 1] + Front - 1 <= p /\ p < End[m]}

Init ==
  /\ codec \in {"default", "length"}
  /\ body \in [Message -> 0..MaxBody]
  /\ known \in SUBSET Message
  /\ magics \in SUBSET Inside
  /\ arrived = 0 /\ consumed = 0 /\ decoded = <<>> /\ torn = FALSE /\ lost = {}

Next == decode \/ getMessageLength \/ Receive

Spec == Init /\ [][Next]_vars

-----------------------------------------------------------------------------
(* Properties. *)

\* As long as every message decode() looked at had arrived whole, has a known
\* id and was read back exactly, DefaultCodec loses nothing: what it read from
\* the buffer is exactly the messages it returned, in the order they were sent.
\* LengthFieldCodec loses whole messages: it asks for HeaderSize - PrefixSize
\* more tokens than it wrote.  Until it has lost one, it is as exact.
IntactWhileWhole ==
  /\ codec = "default" => lost = {}
  /\ ~torn /\ lost = {} => /\ consumed = End[Len(decoded)]
                           /\ decoded = [i \in 1..Len(decoded) |-> i]

\* However the stream was cut, and also after a codec has lost its place, it
\* returns a message that was sent at most once, in the order of sending, and
\* only one with a known id.  DefaultCodec returns something that was not sent
\* (0) only if it had lost its place and a message has the bytes of a magic
\* number inside; LengthFieldCodec compares nothing and may return anything.
DecodedWereSent ==
  /\ \A i, j \in {k \in DOMAIN decoded : decoded[k] # 0} :
       decoded[i] \in known /\ (i < j => decoded[i] < decoded[j])
  /\ codec = "default" /\ (\E i \in DOMAIN decoded : decoded[i] = 0) => torn /\ magics # {}
=============================================================================
