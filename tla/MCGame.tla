------------------------------- MODULE MCGame -------------------------------
(***************************************************************************)
(* The small components of the game server and of its messages in one run: *)
(* the scenes, the codecs, the message queue, the timer wheel, the typed   *)
(* streams and the server's sockets.  They share no state, so a behaviour  *)
(* follows the one that `focus' names and leaves the others where they     *)
(* start; the states of the components add up and do not multiply.         *)
(***************************************************************************)
EXTENDS Scene, FiniteSets, TLC

CONSTANTS MaxMessages, MaxBody,
          Popper, MaxPushed,
          WheelSize, TickMs, Timeouts, MaxTimer, MaxTicks,
          MaxItems, LengthBase,
          Fd, MaxStarts

VARIABLES focus,
          codec, body, known, magics, arrived, consumed, decoded, torn, lost,
          queue_, stopped_, waiting, woken,
          currentSlot_, wheel_, timerMap_, nextTimerId_, wheelStuck, ticks, added, ran,
          sent, buffer_, got,
          running_, gatewayFd_, gameFd_, threadPool_, open, starts, robbed

codecs == <<codec, body, known, magics, arrived, consumed, decoded, torn, lost>>
queues == <<queue_, stopped_, waiting, woken>>
wheels == <<currentSlot_, wheel_, timerMap_, nextTimerId_, wheelStuck, ticks, added, ran>>
streams == <<sent, buffer_, got>>
servers == <<running_, gatewayFd_, gameFd_, threadPool_, open, starts, robbed>>

Codecs == INSTANCE Codec
Queues == INSTANCE MessageQueue
Wheels == INSTANCE TimerWheel WITH stuck <- wheelStuck
Streams == INSTANCE BufferStream
Servers == INSTANCE Server

ASSUME CodecAssumption == MaxMessages \in Nat /\ MaxBody \in Nat
ASSUME PopperAssumption == IsFiniteSet(Popper)
ASSUME WheelAssumption ==
  /\ WheelSize \in Nat \ {0} /\ TickMs \in Nat \ {0} /\ Timeouts \subseteq Nat
  /\ MaxTimer \in Nat /\ MaxTicks \in Nat
ASSUME StreamAssumption == LengthBase \in Nat \ {0}
ASSUME FdAssumption == Servers!None \notin Fd

MCSizes == { <<5, 3>> }
MCPositions == { <<1, 1>>, <<3, 2>>, <<9, 0>> }
MCSymmetry == Permutations(Role) \union Permutations(Popper)

\* Of the codecs' initial states only one is kept when they are not in focus; a
\* stream reads as a header in at most one wrong place.
MCInit ==
  /\ Init /\ Codecs!Init /\ Queues!Init /\ Wheels!Init /\ Streams!Init /\ Servers!Init
  /\ focus \in {"scene", "codec", "queue", "wheel", "stream", "server"}
  /\ focus # "codec" => codec = "default" /\ known = {} /\ \A m \in DOMAIN body : body[m] = 0
  /\ Cardinality(magics) <= IF codec = "default" THEN 1 ELSE 0

MCNext ==
  /\ UNCHANGED focus
  /\ \/ focus = "scene" /\ Next /\ UNCHANGED <<codecs, queues, wheels, streams, servers>>
     \/ focus = "codec" /\ Codecs!Next /\ UNCHANGED <<vars, queues, wheels, streams, servers>>
     \/ focus = "queue" /\ Queues!Next /\ UNCHANGED <<vars, codecs, wheels, streams, servers>>
     \/ focus = "wheel" /\ Wheels!Next /\ UNCHANGED <<vars, codecs, queues, streams, servers>>
     \/ focus = "stream" /\ Streams!Next /\ UNCHANGED <<vars, codecs, queues, wheels, servers>>
     \/ focus = "server" /\ Servers!Next /\ UNCHANGED <<vars, codecs, queues, wheels, streams>>

MCSpec == MCInit /\ [][MCNext]_<<focus, vars, codecs, queues, wheels, streams, servers>>

-----------------------------------------------------------------------------
\* While every message was whole, known and read back, DefaultCodec returned
\* what it consumed; so does LengthFieldCodec until it loses a whole message.
IntactWhileWhole == Codecs!IntactWhileWhole

\* A message is returned once and in order, wherever the stream is cut, and one
\* that nobody sent by DefaultCodec only where a body reads as a header.
DecodedWereSent == Codecs!DecodedWereSent

\* No popper sleeps on a message of the queue or on stop().
WakeupsSuffice == Queues!WakeupsSuffice

\* A timer of the wheel runs in the tick its timeout says.
RunsOnTime == Wheels!RunsOnTime

\* Typed reads give back what typed writes wrote, two named cases apart.
ReadsBack == Streams!ReadsBack

\* The server has its two sockets open exactly while it runs and closes no
\* descriptor of others.
DescriptorsOwned == Servers!DescriptorsOwned
=============================================================================
