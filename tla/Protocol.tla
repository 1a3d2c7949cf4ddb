------------------------------ MODULE Protocol ------------------------------
(***************************************************************************)
(* The pure half of the wire protocol (src/net/protocol.cpp): packing and  *)
(* unpacking of the fixed headers, validation of a request header, what    *)
(* the connection does after each status, and the narrowing of the         *)
(* dimensions on their way to the backend.                                 *)
(*                                                                         *)
(* A byte has `Byte` values, 256 in the code and fewer in a model; the     *)
(* wider integers are made of as many bytes as in the code, so they wrap   *)
(* in the same places.                                                     *)
(***************************************************************************)
EXTENDS Integers, Sequences

CONSTANTS
    Byte,               \* number of values of a byte
    kMagic,
    kVersion,
    kMaxPayloadBytes,   \* what a client accepts in a response
    max_payload_bytes,  \* Limits::max_payload_bytes, which is also the slot size
    max_chain_len       \* Limits::max_chain_len

U16 == Byte * Byte
U32 == U16 * U16
U64 == U32 * U32

(* Every status fits a byte, and half of a word is a whole number. *)
ASSUME ProtocolAssumption ==
    /\ Byte \in Nat /\ Byte > 6 /\ \E half \in 1 .. Byte : Byte = 2 * half
    /\ kMagic \in 0 .. U32 - 1
    /\ kVersion \in 0 .. Byte - 1
    /\ kMaxPayloadBytes \in 0 .. U32 - 1
    /\ max_payload_bytes \in 0 .. U32 - 1
    /\ max_chain_len \in 0 .. U16 - 1

(* enum class Status *)
kOk == 0
kBadMagic == 1
kUnsupportedVersion == 2
kPayloadTooLarge == 3
kBadChain == 4
kLengthMismatch == 5
kInternalError == 6

RequestHeader ==
    [magic : 0 .. U32 - 1, version : 0 .. Byte - 1, flags : 0 .. Byte - 1, seq_num : 0 .. U32 - 1,
     width : 0 .. U32 - 1, height : 0 .. U32 - 1, channels : 0 .. Byte - 1,
     payload_len : 0 .. U32 - 1, chain_len : 0 .. U16 - 1]

kRequestHeaderBytes == 25
kResponseHeaderBytes == 23

----------------------------------------------------------------------------
(* Little-endian packing, field by field.  `at` is the offset in the frame *)

put_u8(value) == <<value>>
put_u16(value) == <<value % Byte, (value \div Byte) % Byte>>
put_u32(value) == put_u16(value % U16) \o put_u16(value \div U16)

get_u8(bytes, at) == bytes[at + 1]
get_u16(bytes, at) == get_u8(bytes, at) + Byte * get_u8(bytes, at + 1)
get_u32(bytes, at) == get_u16(bytes, at) + U16 * get_u16(bytes, at + 2)

encode_request_header(header) ==
    put_u32(header.magic) \o put_u8(header.version) \o put_u8(header.flags) \o put_u32(header.seq_num)
    \o put_u32(header.width) \o put_u32(header.height) \o put_u8(header.channels)
    \o put_u32(header.payload_len) \o put_u16(header.chain_len)

decode_request_header(bytes) ==
    [magic |-> get_u32(bytes, 0), version |-> get_u8(bytes, 4), flags |-> get_u8(bytes, 5),
     seq_num |-> get_u32(bytes, 6), width |-> get_u32(bytes, 10), height |-> get_u32(bytes, 14),
     channels |-> get_u8(bytes, 18), payload_len |-> get_u32(bytes, 19), chain_len |-> get_u16(bytes, 23)]

encode_response_header(header) ==
    put_u32(header.magic) \o put_u8(header.version) \o put_u8(header.status) \o put_u32(header.seq_num)
    \o put_u32(header.width) \o put_u32(header.height) \o put_u8(header.channels)
    \o put_u32(header.payload_len)

decode_response_header(bytes) ==
    [magic |-> get_u32(bytes, 0), version |-> get_u8(bytes, 4), status |-> get_u8(bytes, 5),
     seq_num |-> get_u32(bytes, 6), width |-> get_u32(bytes, 10), height |-> get_u32(bytes, 14),
     channels |-> get_u8(bytes, 18), payload_len |-> get_u32(bytes, 19)]

----------------------------------------------------------------------------
(* Validation                                                              *)

is_supported_channel_count(channels) == channels \in {1, 3, 4}

(* The dimension product, in uint64_t and in the uint32_t it must not use *)
DimensionProduct_u32(header) == (header.width * header.height * header.channels) % U32

DimensionProduct(header) == (header.width * header.height * header.channels) % U64

(* The checks in the order the fields are read *)
validate_request_header_dims_first(header) ==
    IF header.magic # kMagic THEN kBadMagic
    ELSE IF header.version # kVersion THEN kUnsupportedVersion
    ELSE IF DimensionProduct(header) # header.payload_len THEN kLengthMismatch
    ELSE IF header.payload_len > max_payload_bytes THEN kPayloadTooLarge
    ELSE IF header.chain_len > max_chain_len THEN kBadChain
    ELSE kOk

validate_request_header(header) ==
    IF header.magic # kMagic THEN kBadMagic
    ELSE IF header.version # kVersion THEN kUnsupportedVersion
    ELSE IF header.payload_len > max_payload_bytes THEN kPayloadTooLarge
    ELSE IF header.chain_len > max_chain_len THEN kBadChain
    ELSE IF \/ ~is_supported_channel_count(header.channels)
            \/ header.width = 0 \/ header.height = 0
            \/ DimensionProduct(header) # header.payload_len
         THEN kLengthMismatch
    ELSE kOk

disposition_for(status) ==
    CASE status \in {kOk, kInternalError} -> "continue"
      [] status \in {kBadChain, kLengthMismatch} -> "drain"
      [] OTHER -> "close"

----------------------------------------------------------------------------
(* From the header to the backend                                          *)

(* static_cast<int> of a uint32_t *)
narrow(value) == IF value < U32 \div 2 THEN value ELSE value - U32

(* What a backend reads out of the slot: nothing when it refuses the       *)
(* dimensions, as both backends do when one of them is not positive.       *)
Usable(header) ==
    narrow(header.width) > 0 /\ narrow(header.height) > 0 /\ is_supported_channel_count(header.channels)

BytesRead(header) == IF Usable(header) THEN header.width * header.height * header.channels ELSE 0
=============================================================================
