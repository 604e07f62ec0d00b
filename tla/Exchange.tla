------------------------------- MODULE Exchange --------------------------------
(***************************************************************************)
(* One request from the Generator into a packet, and one response out of   *)
(* the bytes of its header: the sizes both sides agree on, or do not.      *)
(*                                                                         *)
(* A key, a value or extras are their sizes.  What the headers carry are   *)
(* bytes, big-endian; the code reads a byte through a signed char.         *)
(***************************************************************************)
EXTENDS Integers, Sequences

CONSTANTS
  KeySizes,     \* lengths of the keys in the size/key file
  EntrySizes,   \* the sizes in the file, as atoi returns them
  MaxString,    \* MAX_KEY_SIZE and MAX_VALUE_SIZE
  ExtrasSizes, ReplyKeySizes, ValueSizes,  \* of the responses there may be
  MaxSample     \* the size at which a sample is out of range

\* No packet is too large for the code's int.
ASSUME ExchangeAssumption ==
  /\ \A k \in KeySizes : k \in Nat /\ k <= 1000000000
  /\ \A n \in EntrySizes : n \in Int /\ -1000000000 <= n /\ n <= 1000000000
  /\ MaxString \in Nat /\ 2 <= MaxString /\ MaxString <= 1000000000
  /\ MaxSample \in Nat
  /\ ExtrasSizes \subseteq 0..255
  /\ \A k \in ReplyKeySizes : k \in Nat /\ k <= 65535
  /\ \A e \in ExtrasSizes, k \in ReplyKeySizes, v \in ValueSizes :
       v \in Nat /\ e + k + v <= 2147483647

VARIABLES
  phase,    \* how far the exchange is, or what ended the process
  size,     \* the size of the entry the value was generated for
  request,  \* the request
  packet,   \* its header's fields and the length of the whole packet
  reply,    \* the sizes of the response's parts as the server sent them
  blocks    \* the sizes ReceiveResponse reads

exchangeVars == <<phase, size, request, packet, reply, blocks>>

HeaderBytes == 24

NoParts   == [extras |-> 0, key |-> 0, value |-> 0]
NoRequest == [kind |-> "get", key |-> 0, value |-> 0]
NoPacket  == [key_size |-> <<0, 0>>, total_body_size |-> <<0, 0, 0, 0>>,
              length |-> 0]

ExchangeInit ==
  /\ phase = "idle" /\ size = 0
  /\ request = NoRequest /\ packet = NoPacket
  /\ reply = NoParts /\ blocks = NoParts

------------------------------------------------------------------------------
(* Bytes. *)

Bytes2(n) == <<(n \div 256) % 256, n % 256>>
Bytes4(n) == <<(n \div 16777216) % 256, (n \div 65536) % 256,
               (n \div 256) % 256, n % 256>>

BigEndian2(b) == b[1] * 256 + b[2]
BigEndian4(b) == b[1] * 16777216 + b[2] * 65536 + b[3] * 256 + b[4]

\* A byte read through a char.
Signed(b) == IF b < 128 THEN b ELSE b - 256

------------------------------------------------------------------------------
(* The Generator. *)

\* rand() % (max - 1) + 1: none for 1, where the division traps; the sign of
\* the divisor does not matter in C.
Lengths(max) == 1..(IF max < 1 THEN 1 - max ELSE max - 1)

\* A key of size k with a value generated for size n; either kind may be drawn.
Generate(k, n) ==
  \E kind \in {"get", "set"}, v \in Lengths(n) :
    request' = [kind |-> kind, key |-> k, value |-> IF kind = "set" THEN v ELSE 0]

\* With -f from an entry of the file, without it from random lengths; what one
\* exchange does is nothing to the next, so the choice is made for each.
GenerateNextRequest ==
  /\ phase = "idle"
  /\ \/ \E k \in KeySizes, n \in EntrySizes : size' = n /\ Generate(k, n)
     \/ /\ size' = MaxString
        /\ \E k \in Lengths(MaxString) : Generate(k, MaxString)
  /\ phase' = "generated"
  /\ UNCHANGED <<packet, reply, blocks>>

\* An entry of size 1, whatever the kind of the request would have been.
DivideByZero ==
  /\ phase = "idle" /\ 1 \in EntrySizes
  /\ phase' = "dead_division"
  /\ UNCHANGED <<size, request, packet, reply, blocks>>

------------------------------------------------------------------------------
(* Request. *)

Extras(r) == IF r.kind = "set" THEN 8 ELSE 0

\* Mutant of RequestBody: the extras are not counted.
RequestBodyNoExtras(r) == r.key + r.value

RequestBody(r) == Extras(r) + r.key + r.value

CalculateRequestSize(r) == HeaderBytes + Extras(r) + r.key + r.value

ConstructRequestPacket ==
  /\ phase = "generated"
  /\ packet' = [key_size |-> Bytes2(request.key),
                total_body_size |-> Bytes4(RequestBody(request)),
                length |-> HeaderBytes + Extras(request)
                             + request.key + request.value]
  /\ phase' = "sent"
  /\ UNCHANGED <<size, request, reply, blocks>>

\* What the server takes for key and value: the body is as long as the header
\* says, and the key the first of it.
ServerKey   == BigEndian2(packet.key_size)
ServerValue == BigEndian4(packet.total_body_size) - Extras(request) - ServerKey

\* The server's response, of any sizes.
ServerReplies ==
  /\ phase = "sent"
  /\ reply' \in [extras : ExtrasSizes, key : ReplyKeySizes, value : ValueSizes]
  /\ phase' = "answered"
  /\ UNCHANGED <<size, request, packet, blocks>>

------------------------------------------------------------------------------
(* Connection::ReceiveResponse. *)

\* The sign of the lower byte fills all the bits above it.
KeySize(b) == IF b[2] < 128 THEN Signed(b[1]) * 256 + b[2] ELSE Signed(b[2])

BodySize(b) == Signed(b[1]) * 16777216 + b[2] * 65536 + b[3] * 256 + b[4]

\* Mutant of ValueSize: the extras are read twice.
ValueSizeWithExtras(body, key, extras) == body - key

ValueSize(body, key, extras) == body - key - extras

\* The sizes of the three blocks, from the header of reply r.
Decoded(r) ==
  LET extras == Signed(r.extras)
      key    == KeySize(Bytes2(r.key))
      body   == BodySize(Bytes4(r.extras + r.key + r.value))
  IN  [extras |-> extras, key |-> key, value |-> ValueSize(body, key, extras)]

Negative(parts) == parts.extras < 0 \/ parts.key < 0 \/ parts.value < 0

\* Mutant of ReceiveResponse: no allocation stops a negative size.
ReceiveResponseUnchecked ==
  /\ phase = "answered"
  /\ blocks' = Decoded(reply)
  /\ phase' = "received"
  /\ UNCHANGED <<size, request, packet, reply>>

\* The header has been read; new char[n] throws for a negative n before any of
\* the three blocks is read, and nothing catches it.
ReceiveResponse ==
  /\ phase = "answered"
  /\ IF Negative(Decoded(reply))
     THEN phase' = "dead_new" /\ UNCHANGED blocks
     ELSE phase' = "received" /\ blocks' = Decoded(reply)
  /\ UNCHANGED <<size, request, packet, reply>>

\* The size sample of the request; response and request are deleted.
UpdateStatistics ==
  /\ phase = "received"
  /\ IF CalculateRequestSize(request) >= MaxSample
     THEN phase' = "dead_sample" /\ UNCHANGED <<size, request, packet, reply, blocks>>
     ELSE /\ phase' = "idle" /\ size' = 0
          /\ request' = NoRequest /\ packet' = NoPacket
          /\ reply' = NoParts /\ blocks' = NoParts

------------------------------------------------------------------------------

Dead == {"dead_division", "dead_new", "dead_sample"}

ExchangeEnded == phase \in Dead /\ UNCHANGED exchangeVars

ExchangeNext ==
  \/ GenerateNextRequest \/ DivideByZero
  \/ ConstructRequestPacket \/ ServerReplies
  \/ ReceiveResponse \/ UpdateStatistics
  \/ ExchangeEnded

ExchangeSpec == ExchangeInit /\ [][ExchangeNext]_exchangeVars
------------------------------------------------------------------------------
(* Properties. *)

\* The types of both packets; a size that is read is no negative number.
ExchangeTypeOK ==
  /\ phase \in {"idle", "generated", "sent", "answered", "received"} \cup Dead
  /\ size \in Int
  /\ request \in [kind : {"get", "set"}, key : Nat, value : Nat]
  /\ packet.key_size \in [1..2 -> 0..255]
  /\ packet.total_body_size \in [1..4 -> 0..255]
  /\ reply \in [extras : Nat, key : Nat, value : Nat]
  /\ blocks \in [extras : Nat, key : Nat, value : Nat]

\* The server's next header begins where the packet ends, the packet is as long
\* as the statistics say, and a key that fits its two bytes arrives as it is.
RequestInStep ==
  phase \in {"sent", "answered", "received"} =>
    /\ HeaderBytes + BigEndian4(packet.total_body_size) = packet.length
    /\ packet.length = CalculateRequestSize(request)
    /\ request.key < 65536 =>
         ServerKey = request.key /\ ServerValue = request.value

\* The signs ReceiveResponse reads into a header never put it out of step: either
\* it reads exactly the response, or it ends before it reads any of it; and it
\* does not end on extras and keys of less than 128 bytes, such as memcached's.
ResponseInStep ==
  /\ phase = "received" => blocks = reply
  /\ phase = "dead_new" => reply.extras >= 128 \/ reply.key >= 128
===============================================================================
