--------------------------------- MODULE Codec ---------------------------------
(* database.rs: choices as bytes, and the in-memory database.                *)
(*                                                                           *)
(* A choice is [type, value]. A byte is a tag over SizeBits bits of size; 5  *)
(* in the code, so that a byte has 3 + 5 bits and a ULEB128 group 7 of them. *)
(* A float is its FloatBytes bytes, big end first. Utf8 gives the bytes of a *)
(* character (Python's codec, lone surrogates included).                     *)
EXTENDS Numbers, Sequences, SequencesExt

CONSTANTS SizeBits, FloatBytes, Utf8

ByteBits  == 3 + SizeBits
ByteSize  == Power(2, ByteBits)
SizeMask  == Power(2, SizeBits) - 1
GroupSize == Power(2, ByteBits - 1)

ASSUME CodecAssumption ==
    /\ SizeBits \in Nat \ {0} /\ FloatBytes \in 1 .. SizeMask - 1
    /\ \A c \in DOMAIN Utf8 : Utf8[c] \in Seq(0 .. ByteSize - 1) /\ Utf8[c] # <<>>
    /\ \A c, d \in DOMAIN Utf8 : IsPrefix(Utf8[c], Utf8[d]) => c = d   \* UTF-8 is prefix free

Bytes == Seq(0 .. ByteSize - 1)

Tags == [float |-> 1, integer |-> 2, bytes |-> 3, string |-> 4]

Rejected == [ok |-> FALSE]

--------------------------------------------------------------------------------
(* Numbers as bytes. *)

\* Low groups first, the high bit of all but the last set.
PackUleb128[n \in Nat] ==
    IF n < GroupSize THEN <<n>>
    ELSE <<GroupSize + (n % GroupSize)>> \o PackUleb128[n \div GroupSize]

UnpackUleb128(buffer) ==
    LET ends == {i \in DOMAIN buffer : buffer[i] < GroupSize}
        last == IF ends = {} THEN Len(buffer) ELSE CHOOSE i \in ends : \A j \in ends : i <= j
        group(i) == buffer[i] % GroupSize
    IN  [used |-> IF buffer = <<>> THEN 1 ELSE last,
         value |-> FoldLeft(LAMBDA acc, i : acc * GroupSize + group(i), 0,
                            Reverse([i \in 1 .. last |-> i]))]

Uleb128Len(n) ==
    LET more[v \in Nat] == IF v = 0 THEN 0 ELSE 1 + more[v \div GroupSize]
    IN  1 + more[n \div GroupSize]

\* Bits of the magnitude.
BitLength[n \in Nat] == IF n = 0 THEN 0 ELSE 1 + BitLength[n \div 2]

\* Mutant: no room for the sign.
IntBytesUnsigned(v) == (BitLength[IF v < 0 THEN -v ELSE v] + ByteBits - 1) \div ByteBits

IntBytes(v) == 1 + BitLength[IF v < 0 THEN -v ELSE v] \div ByteBits

\* Two's complement, big end first.
ToBytes(v, n) ==
    LET u == IF v < 0 THEN v + Power(ByteSize, n) ELSE v
    IN  [i \in 1 .. n |-> (u \div Power(ByteSize, n - i)) % ByteSize]

FromBytes(bytes) ==
    LET u == FoldLeft(LAMBDA acc, b : acc * ByteSize + b, 0, bytes)
    IN  IF bytes # <<>> /\ bytes[1] >= ByteSize \div 2 THEN u - Power(ByteSize, Len(bytes)) ELSE u

--------------------------------------------------------------------------------
(* Choices as bytes. *)

Payload(choice) ==
    CASE choice.type = "integer" -> ToBytes(choice.value, IntBytes(choice.value))
      [] choice.type = "string"  -> FlattenSeq([i \in DOMAIN choice.value |-> Utf8[choice.value[i]]])
      [] OTHER                   -> choice.value

EncodeChoice(choice) ==
    IF choice.type = "boolean" THEN <<IF choice.value THEN 1 ELSE 0>>
    ELSE LET payload == Payload(choice)
             tag     == Tags[choice.type] * Power(2, SizeBits)
             size    == Len(payload)
         IN  (IF size < SizeMask THEN <<tag + size>> ELSE <<tag + SizeMask>> \o PackUleb128[size])
             \o payload

\* The size without the encoding, for the accounting of a draw.
OneChoiceSize(choice) ==
    LET payload == CASE choice.type = "float"   -> FloatBytes
                     [] choice.type = "integer" -> IntBytes(choice.value)
                     [] OTHER                   -> Len(Payload(choice))
    IN  IF choice.type = "boolean" THEN 1
        ELSE 1 + (IF payload < SizeMask THEN 0 ELSE Uleb128Len(payload)) + payload

EncodeChoices(choices) == FlattenSeq([i \in DOMAIN choices |-> EncodeChoice(choices[i])])

\* The string whose characters encode to bytes, if any.
DecodeUtf8[bytes \in Bytes] ==
    LET starts == {c \in DOMAIN Utf8 : IsPrefix(Utf8[c], bytes)}
        first  == CHOOSE c \in starts : TRUE
    IN  IF bytes = <<>> THEN {<<>>}
        ELSE IF starts = {} THEN {}
        ELSE {<<first>> \o rest :
                rest \in DecodeUtf8[SubSeq(bytes, Len(Utf8[first]) + 1, Len(bytes))]}

\* What a payload of this tag stands for: a set of at most one choice.
DecodePayload(tag, bytes) ==
    CASE tag = 1 -> {[type |-> "float", value |-> b] : b \in {bytes} \cap [1 .. FloatBytes -> 0 .. ByteSize - 1]}
      [] tag = 2 -> {[type |-> "integer", value |-> FromBytes(bytes)]}
      [] tag = 3 -> {[type |-> "bytes", value |-> bytes]}
      [] tag = 4 -> {[type |-> "string", value |-> s] : s \in DecodeUtf8[bytes]}
      [] OTHER   -> {}

\* The choice a buffer starts with, none if it is cut short or malformed, and its last byte.
DecodeFirst(buffer) ==
    LET tag   == buffer[1] \div Power(2, SizeBits)
        small == buffer[1] % Power(2, SizeBits)
        long  == UnpackUleb128(Tail(buffer))
        start == IF tag # 0 /\ small = SizeMask THEN 1 + long.used ELSE 1
        size  == IF tag = 0 THEN 0 ELSE IF small = SizeMask THEN long.value ELSE small
    IN  [end |-> start + size,
         choice |-> IF tag = 0 THEN {[type |-> "boolean", value |-> small # 0]}
                    ELSE IF start + size > Len(buffer) THEN {}
                    ELSE DecodePayload(tag, SubSeq(buffer, start + 1, start + size))]

Decode[buffer \in Bytes] ==
    IF buffer = <<>> THEN [ok |-> TRUE, choices |-> <<>>]
    ELSE LET first == DecodeFirst(buffer)
             rest  == Decode[SubSeq(buffer, first.end + 1, Len(buffer))]
         IN  IF first.choice = {} \/ ~rest.ok THEN Rejected
             ELSE [ok |-> TRUE, choices |-> <<CHOOSE c \in first.choice : TRUE>> \o rest.choices]

--------------------------------------------------------------------------------
(* InMemoryExampleDatabase: key -> set of values. *)

Fetch(db, key) == IF key \in DOMAIN db THEN db[key] ELSE {}

Save(db, key, value) ==
    [k \in DOMAIN db \cup {key} |-> Fetch(db, k) \cup (IF k = key THEN {value} ELSE {})]

Delete(db, key, value) == [k \in DOMAIN db |-> db[k] \ (IF k = key THEN {value} ELSE {})]

\* Mutant: save first, then delete, whatever the keys.
MoveBySaving(db, src, dest, value) == Delete(Save(db, dest, value), src, value)

MoveValue(db, src, dest, value) ==
    IF src = dest THEN Save(db, dest, value) ELSE Save(Delete(db, src, value), dest, value)

================================================================================
