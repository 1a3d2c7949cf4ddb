---------------------------- MODULE FramingProofs ---------------------------
(***************************************************************************)
(* The byte streams of a connection, for every word size, every limit and  *)
(* every mix of sound and malformed requests.                              *)
(*                                                                         *)
(* First, what the checks let through: a frame that reaches the backend    *)
(* fits its slot.  The invariant follows a header from the wire to the     *)
(* job.  Second, what is encoded is decoded: the bytes of a header give    *)
(* back its fields.  Third, the reader keeps its place: the stream is the  *)
(* frames that were sent, one after the other, and the reader stands       *)
(* between two of them or at the right point of one.  Fourth, what the     *)
(* client is told: a ledger of the answers, in the order in which they     *)
(* were sent, relates the requests, the jobs, the answering stream and     *)
(* what the client received.                                               *)
(***************************************************************************)
EXTENDS Framing, SequenceTheorems, TLAPS

----------------------------------------------------------------------------
(* Why a frame that validate_request_header accepts is safe to hand to a   *)
(* backend, for every word size and every limit                            *)

(* Half a word is a whole number. *)
LEMMA WordIsEven == U32 \in Nat /\ U32 > 0 /\ 2 * (U32 \div 2) = U32
<1>1. PICK half \in 1 .. Byte : Byte = 2 * half
  BY ProtocolAssumption
<1>2. Byte \in Nat /\ Byte > 4
  BY ProtocolAssumption
<1>3. U16 \in Nat /\ U16 > 0
  BY <1>2 DEF U16
<1>4. U32 \in Nat /\ U32 > 0
  BY <1>3 DEF U32
<1>5. PICK m \in Nat : U32 = 2 * m
  <2>1. Byte * U16 = 2 * (half * U16)
    BY <1>1, <1>3
  <2>2. half * U16 \in Nat
    BY <1>1, <1>3
  <2>3. U32 = 2 * (Byte * (half * U16))
    BY <1>1, <1>2, <1>3 DEF U32, U16
  <2>4. Byte * (half * U16) \in Nat
    BY <2>2, <1>2
  <2> QED
    BY <2>3, <2>4
<1>6. U32 \div 2 = m
  BY <1>5
<1> QED
  BY <1>4, <1>5, <1>6

(* Dimensions that survive the narrowing to int are less than half a word  *)
(* each, and four times their product is less than a double word: it is    *)
(* the narrowing, not the 64-bit product, that rules out a wrapped one.    *)
LEMMA UsableProductsDoNotWrap ==
    ASSUME NEW head \in RequestHeader, Usable(head)
    PROVE  /\ head.width * head.height * head.channels \in Nat
           /\ DimensionProduct(head) = head.width * head.height * head.channels
<1> DEFINE w == head.width
           h == head.height
           c == head.channels
<1>1. w \in 0 .. U32 - 1 /\ h \in 0 .. U32 - 1
  BY DEF RequestHeader
<1>2. c \in {1, 3, 4}
  BY DEF Usable, is_supported_channel_count
<1>3. w \in Nat /\ h \in Nat /\ w < U32 \div 2 /\ h < U32 \div 2
  BY <1>1, WordIsEven DEF Usable, narrow
<1>4. 2 * w < U32 /\ 2 * h < U32
  BY <1>3, WordIsEven
<1>5. w * h \in Nat
  BY <1>3
<1>6. 4 * (w * h) < U32 * U32
  <2>1. ASSUME NEW a \in Nat, NEW b \in Nat, NEW u \in Nat, a < u, b < u
        PROVE  a * b < u * u
    <3>1. a * b <= a * u
      BY <2>1
    <3>2. a * u < u * u
      BY <2>1
    <3> QED
      BY <3>1, <3>2, <2>1
  <2>2. (2 * w) * (2 * h) < U32 * U32
    BY <2>1, <1>3, <1>4, WordIsEven
  <2>3. (2 * w) * (2 * h) = 4 * (w * h)
    BY <1>3
  <2> QED
    BY <2>2, <2>3
<1>7. w * h * c <= 4 * (w * h) /\ w * h * c \in Nat
  BY <1>2, <1>5
<1>8. U64 \in Nat /\ U64 = U32 * U32
  BY WordIsEven DEF U64
<1>9. w * h * c < U64
  BY <1>5, <1>6, <1>7, <1>8
<1>10. (w * h * c) % U64 = w * h * c
  <2>1. ASSUME NEW a \in Nat, NEW u \in Nat, a < u
        PROVE  a % u = a
    BY <2>1
  <2> QED
    BY <2>1, <1>7, <1>8, <1>9
<1> QED
  BY <1>7, <1>10 DEF DimensionProduct

(* An accepted frame fits the slot it is read into, and whatever its       *)
(* dimensions are, a backend either refuses them or reads exactly the      *)
(* payload_len bytes the reader put there.                                 *)
THEOREM AcceptedFramesAreSafe ==
    ASSUME NEW head \in RequestHeader, validate_request_header(head) = kOk
    PROVE  /\ head.payload_len <= max_payload_bytes
           /\ BytesRead(head) \in {0, head.payload_len}
           /\ BytesRead(head) <= max_payload_bytes
<1>1. head.payload_len \in Nat /\ max_payload_bytes \in Nat
  BY ProtocolAssumption DEF RequestHeader
<1>2. /\ ~(head.payload_len > max_payload_bytes)
      /\ DimensionProduct(head) = head.payload_len
  BY DEF validate_request_header, kOk, kBadMagic, kUnsupportedVersion, kPayloadTooLarge, kBadChain, kLengthMismatch
<1>3. CASE Usable(head)
  <2>1. BytesRead(head) = head.payload_len
    BY <1>2, <1>3, UsableProductsDoNotWrap DEF BytesRead
  <2> QED
    BY <2>1, <1>1, <1>2
<1>4. CASE ~Usable(head)
  <2>1. BytesRead(head) = 0
    BY <1>4 DEF BytesRead
  <2> QED
    BY <2>1, <1>1, <1>2
<1> QED
  BY <1>3, <1>4

(* What the reader drains after a rejected header is bounded work: the     *)
(* payload by the limit, and a chain, which may be over its limit, by the  *)
(* 16 bits of chain_len.                                                   *)
THEOREM DrainIsBounded ==
    ASSUME NEW head \in RequestHeader,
           disposition_for(validate_request_header(head)) = "drain"
    PROVE  head.chain_len + head.payload_len < U16 + max_payload_bytes
<1>1. head.payload_len \in Nat /\ max_payload_bytes \in Nat
  BY ProtocolAssumption DEF RequestHeader
<1>2. head.chain_len \in 0 .. U16 - 1 /\ U16 \in Nat
  BY ProtocolAssumption DEF RequestHeader, U16
<1>3. validate_request_header(head) \in {kBadChain, kLengthMismatch}
  BY DEF disposition_for, validate_request_header, kOk, kBadMagic, kUnsupportedVersion, kPayloadTooLarge,
         kBadChain, kLengthMismatch, kInternalError
<1>4. ~(head.payload_len > max_payload_bytes)
  BY <1>3 DEF validate_request_header, kOk, kBadMagic, kUnsupportedVersion, kPayloadTooLarge, kBadChain,
              kLengthMismatch
<1> QED
  BY <1>1, <1>2, <1>4

----------------------------------------------------------------------------
(* From the wire to the job                                                *)

(* A header that went through the checks *)
Validated(h) == h \in RequestHeader /\ validate_request_header(h) = kOk

(* What the reader and the jobs hold, whatever the client sends *)
ReaderInv ==
    /\ requests \in Seq([header : RequestHeader, chain : Bytes, payload : Bytes])
    /\ next_seq_num \in 0 .. U32 - 1
    /\ upstream \in Bytes
    /\ header \in RequestHeader
    /\ unread \in Nat
    /\ rpc = "chain" => unread = header.chain_len + header.payload_len
    /\ rpc \in {"chain", "payload"} => Validated(header)
    /\ \A job \in jobs : Validated(job.header) /\ job.payload \in Bytes /\ Len(job.payload) = job.header.payload_len

(* The sizes of the integer types *)
LEMMA Words ==
    /\ Byte \in Nat /\ Byte > 4
    /\ U16 \in Nat /\ U16 > 0 /\ U16 = Byte * Byte
    /\ U32 \in Nat /\ U32 > 0 /\ U32 = U16 * U16
<1>1. Byte \in Nat /\ Byte > 4
  BY ProtocolAssumption
<1>2. U16 \in Nat /\ U16 > 0
  BY <1>1 DEF U16
<1>3. U32 \in Nat /\ U32 > 0
  BY <1>2 DEF U32
<1> QED
  BY <1>1, <1>2, <1>3 DEF U16, U32

(* The elements of a byte string are bytes. *)
LEMMA ElementsAreBytes == ASSUME NEW s \in Bytes, NEW i \in 1 .. Len(s) PROVE s[i] \in 0 .. Byte - 1
  BY ElementOfSeq DEF Bytes

(* Cutting a stream in two *)
LEMMA Cut ==
    ASSUME NEW s \in Bytes, NEW n \in 0 .. Len(s)
    PROVE  First(s, n) \in Bytes /\ Len(First(s, n)) = n /\ Rest(s, n) \in Bytes
<1>1. First(s, n) \in Bytes /\ Len(First(s, n)) = n
  <2>1. \A i \in 1 .. n : s[i] \in 0 .. Byte - 1
    <3> TAKE i \in 1 .. n
    <3>1. i \in 1 .. Len(s)
      BY DEF Bytes
    <3> QED
      BY <3>1, ElementsAreBytes
  <2>2. SubSeq(s, 1, n) \in Seq(0 .. Byte - 1) /\ Len(SubSeq(s, 1, n)) = IF 1 <= n THEN n - 1 + 1 ELSE 0
    BY <2>1, SubSeqProperties DEF Bytes
  <2> QED
    BY <2>2 DEF First, Bytes
<1>2. Rest(s, n) \in Bytes
  <2>1. \A i \in n + 1 .. Len(s) : s[i] \in 0 .. Byte - 1
    <3> TAKE i \in n + 1 .. Len(s)
    <3>1. i \in 1 .. Len(s)
      BY DEF Bytes
    <3> QED
      BY <3>1, ElementsAreBytes
  <2>2. n + 1 \in Int /\ Len(s) \in Int
    BY DEF Bytes
  <2>3. SubSeq(s, n + 1, Len(s)) \in Seq(0 .. Byte - 1)
    BY <2>1, <2>2, SubSeqProperties
  <2> QED
    BY <2>3 DEF Rest, Bytes
<1> QED
  BY <1>1, <1>2

(* Two byte strings, one after the other *)
LEMMA Concat == ASSUME NEW s \in Bytes, NEW t \in Bytes PROVE s \o t \in Bytes
  BY ConcatProperties DEF Bytes

(* Packing makes bytes. *)
LEMMA PutMakesBytes ==
    /\ \A v \in 0 .. Byte - 1 : put_u8(v) \in Bytes
    /\ \A v \in Nat : put_u16(v) \in Bytes /\ put_u32(v) \in Bytes
<1>1. \A v \in 0 .. Byte - 1 : put_u8(v) \in Bytes
  BY DEF put_u8, Bytes
<1>2. ASSUME NEW v \in Nat PROVE put_u16(v) \in Bytes
  <2>1. v % Byte \in 0 .. Byte - 1
    BY Words
  <2>2. v \div Byte \in Nat
    BY Words
  <2>3. (v \div Byte) % Byte \in 0 .. Byte - 1
    BY <2>2, Words
  <2> QED
    BY <2>1, <2>3 DEF put_u16, Bytes
<1>3. ASSUME NEW v \in Nat PROVE put_u32(v) \in Bytes
  <2>1. v % U16 \in Nat /\ v \div U16 \in Nat
    BY Words
  <2>2. put_u16(v % U16) \in Bytes /\ put_u16(v \div U16) \in Bytes
    BY <1>2, <2>1
  <2> QED
    BY <2>2, Concat DEF put_u32
<1> QED
  BY <1>1, <1>2, <1>3

(* An encoded header is a byte string. *)
LEMMA EncodeMakesBytes == ASSUME NEW h \in RequestHeader PROVE encode_request_header(h) \in Bytes
<1>1. /\ h.magic \in Nat /\ h.seq_num \in Nat /\ h.width \in Nat /\ h.height \in Nat
      /\ h.payload_len \in Nat /\ h.chain_len \in Nat
      /\ h.version \in 0 .. Byte - 1 /\ h.flags \in 0 .. Byte - 1 /\ h.channels \in 0 .. Byte - 1
  BY Words DEF RequestHeader
<1> DEFINE b1 == put_u32(h.magic)
           b2 == put_u8(h.version)
           b3 == put_u8(h.flags)
           b4 == put_u32(h.seq_num)
           b5 == put_u32(h.width)
           b6 == put_u32(h.height)
           b7 == put_u8(h.channels)
           b8 == put_u32(h.payload_len)
           b9 == put_u16(h.chain_len)
<1>2. /\ b1 \in Bytes /\ b2 \in Bytes /\ b3 \in Bytes /\ b4 \in Bytes /\ b5 \in Bytes
      /\ b6 \in Bytes /\ b7 \in Bytes /\ b8 \in Bytes /\ b9 \in Bytes
  BY <1>1, PutMakesBytes
<1>3. encode_request_header(h) = b1 \o b2 \o b3 \o b4 \o b5 \o b6 \o b7 \o b8 \o b9
  BY DEF encode_request_header
<1> HIDE DEF b1, b2, b3, b4, b5, b6, b7, b8, b9
<1>4. b1 \o b2 \o b3 \in Bytes
  BY <1>2, Concat
<1>5. b1 \o b2 \o b3 \o b4 \o b5 \in Bytes
  BY <1>2, <1>4, Concat
<1>6. b1 \o b2 \o b3 \o b4 \o b5 \o b6 \o b7 \in Bytes
  BY <1>2, <1>5, Concat
<1> QED
  BY <1>2, <1>3, <1>6, Concat

(* Unpacking any 25 bytes makes a header, if not a sensible one. *)
LEMMA DecodeMakesHeader ==
    ASSUME NEW b \in Bytes, Len(b) = kRequestHeaderBytes
    PROVE  decode_request_header(b) \in RequestHeader
<1>1. \A at \in 0 .. 24 : get_u8(b, at) \in 0 .. Byte - 1
  <2> TAKE at \in 0 .. 24
  <2>1. at + 1 \in 1 .. Len(b)
    BY DEF kRequestHeaderBytes
  <2> QED
    BY <2>1, ElementsAreBytes DEF get_u8
<1>2. ASSUME NEW n \in Nat, n > 0, NEW lo \in 0 .. n - 1, NEW hi \in 0 .. n - 1
      PROVE  lo + n * hi \in 0 .. n * n - 1
  <2>1. n * hi <= n * (n - 1)
    BY <1>2
  <2>2. n * (n - 1) = n * n - n
    BY <1>2
  <2>3. n * hi \in Nat
    BY <1>2
  <2>4. n * n \in Nat
    BY <1>2
  <2> QED
    BY <1>2, <2>1, <2>2, <2>3, <2>4
<1>3. \A at \in 0 .. 23 : get_u16(b, at) \in 0 .. U16 - 1
  <2> TAKE at \in 0 .. 23
  <2> at \in 0 .. 24 /\ at + 1 \in 0 .. 24
    OBVIOUS
  <2>1. get_u8(b, at) \in 0 .. Byte - 1 /\ get_u8(b, at + 1) \in 0 .. Byte - 1
    BY <1>1, Zenon
  <2>2. get_u8(b, at) + Byte * get_u8(b, at + 1) \in 0 .. Byte * Byte - 1
    BY <1>2, <2>1, Words
  <2> QED
    BY <2>2, Words DEF get_u16
<1>4. \A at \in 0 .. 21 : get_u32(b, at) \in 0 .. U32 - 1
  <2> TAKE at \in 0 .. 21
  <2> at \in 0 .. 23 /\ at + 2 \in 0 .. 23
    OBVIOUS
  <2>1. get_u16(b, at) \in 0 .. U16 - 1 /\ get_u16(b, at + 2) \in 0 .. U16 - 1
    BY <1>3, Zenon
  <2>2. get_u16(b, at) + U16 * get_u16(b, at + 2) \in 0 .. U16 * U16 - 1
    BY <1>2, <2>1, Words
  <2> QED
    BY <2>2, Words DEF get_u32
<1>5. /\ get_u32(b, 0) \in 0 .. U32 - 1 /\ get_u32(b, 6) \in 0 .. U32 - 1
      /\ get_u32(b, 10) \in 0 .. U32 - 1 /\ get_u32(b, 14) \in 0 .. U32 - 1
      /\ get_u32(b, 19) \in 0 .. U32 - 1
  BY <1>4
<1>6. /\ get_u8(b, 4) \in 0 .. Byte - 1 /\ get_u8(b, 5) \in 0 .. Byte - 1
      /\ get_u8(b, 18) \in 0 .. Byte - 1 /\ get_u16(b, 23) \in 0 .. U16 - 1
  BY <1>1, <1>3
<1> QED
  BY <1>5, <1>6 DEF decode_request_header, RequestHeader

(* A frame on the wire is bytes. *)
LEMMA WriteKeepsInv ==
    ASSUME ReaderInv,
           NEW request \in [header : RequestHeader, chain : Bytes, payload : Bytes],
           WriteFrame(request), next_seq_num' \in 0 .. U32 - 1
    PROVE  ReaderInv'
<1>1. encode_request_header(request.header) \in Bytes /\ request.chain \in Bytes /\ request.payload \in Bytes
  BY EncodeMakesBytes
<1>2. upstream \o encode_request_header(request.header) \in Bytes
  BY <1>1, Concat DEF ReaderInv
<1>3. upstream \o encode_request_header(request.header) \o request.chain \in Bytes
  BY <1>1, <1>2, Concat
<1>4. upstream' \in Bytes
  BY <1>1, <1>3, Concat DEF WriteFrame
<1>5. requests' \in Seq([header : RequestHeader, chain : Bytes, payload : Bytes])
  BY DEF ReaderInv, WriteFrame
<1>6. UNCHANGED <<rpc, header, unread, jobs>>
  BY DEF WriteFrame, server
<1> QED
  BY <1>4, <1>5, <1>6 DEF ReaderInv, Validated

(* Client::send builds a well-formed header, whatever the chain's length. *)
LEMMA SendWrites ==
    ASSUME ReaderInv, NEW image \in Images, NEW chain \in Chains, NEW flags \in Flags, send(image, chain, flags)
    PROVE  \E request \in [header : RequestHeader, chain : Bytes, payload : Bytes] :
               /\ WriteFrame(request) /\ request.header.seq_num = next_seq_num
               /\ request.chain = chain /\ request.header.chain_len = Len(chain) % U16
               /\ Len(request.payload) = ByteCount(image) /\ request.header.payload_len = ByteCount(image) % U32
               /\ ByteCount(request.header) = ByteCount(image) /\ ByteCount(image) \in Nat
               /\ next_seq_num' = (next_seq_num + 1) % U32 /\ next_seq_num' \in 0 .. U32 - 1
<1> DEFINE h == [magic |-> kMagic, version |-> kVersion, flags |-> flags,
                 seq_num |-> next_seq_num, width |-> image.width, height |-> image.height,
                 channels |-> image.channels, payload_len |-> ByteCount(image) % U32,
                 chain_len |-> Len(chain) % U16]
           p == Pixels(Len(requests) + 1, ByteCount(image))
           request == [header |-> h, chain |-> chain, payload |-> p]
<1>1. WriteFrame(request) /\ next_seq_num' = (next_seq_num + 1) % U32
  BY DEF send
<1>2. chain \in Bytes /\ Len(chain) \in Nat
  BY FramingAssumption DEF Bytes
<1>3. /\ image.width \in 1 .. U32 - 1 /\ image.height \in 1 .. U32 - 1 /\ image.channels \in {1, 3, 4}
  BY FramingAssumption DEF is_supported_channel_count
<1>4. ByteCount(image) \in Nat
  <2>1. image.width \in Nat /\ image.height \in Nat /\ image.channels \in Nat
    BY <1>3, Words
  <2>2. image.width * image.height \in Nat
    BY <2>1
  <2> QED
    BY <2>1, <2>2 DEF ByteCount
<1>5. h \in RequestHeader
  <2>1. ByteCount(image) % U32 \in 0 .. U32 - 1 /\ Len(chain) % U16 \in 0 .. U16 - 1
    BY <1>2, <1>4, Words
  <2>2. image.channels \in 0 .. Byte - 1
    BY <1>3, Words
  <2>3. image.width \in 0 .. U32 - 1 /\ image.height \in 0 .. U32 - 1
    BY <1>3, Words
  <2>4. flags \in 0 .. Byte - 1
    BY FramingAssumption
  <2>5. kMagic \in 0 .. U32 - 1 /\ kVersion \in 0 .. Byte - 1
    BY ProtocolAssumption
  <2> QED
    BY <2>1, <2>2, <2>3, <2>4, <2>5 DEF RequestHeader, ReaderInv
<1>6. p \in Bytes /\ Len(p) = ByteCount(image)
  <2>1. Len(requests) + 1 \in 0 .. Byte - 1
    BY <1>1, FramingAssumption, Words DEF WriteFrame, ReaderInv
  <2>2. p \in [1 .. ByteCount(image) -> 0 .. Byte - 1]
    BY <2>1 DEF Pixels
  <2> HIDE DEF p
  <2>3. p \in Bytes
    BY <1>4, <2>2, SeqDef DEF Bytes
  <2>4. p \in Seq(0 .. Byte - 1) /\ DOMAIN p = 1 .. ByteCount(image)
    BY <2>2, <2>3 DEF Bytes
  <2> QED
    BY <1>4, <2>3, <2>4, LenProperties
<1>7. request \in [header : RequestHeader, chain : Bytes, payload : Bytes]
  BY <1>2, <1>5, <1>6
<1>8. next_seq_num' \in 0 .. U32 - 1
  BY <1>1, Words DEF ReaderInv
<1>9. /\ request.header.seq_num = next_seq_num /\ request.chain = chain
      /\ request.header.chain_len = Len(chain) % U16 /\ request.header.payload_len = ByteCount(image) % U32
      /\ Len(request.payload) = ByteCount(image)
  BY <1>6
<1>10. ByteCount(request.header) = ByteCount(image)
  BY DEF ByteCount
<1> HIDE DEF request
<1> QED
  BY <1>1, <1>4, <1>7, <1>8, <1>9, <1>10

(* Bytes that send adds to the wire leave the invariant alone. *)
LEMMA SendKeepsInv ==
    ASSUME ReaderInv, NEW image \in Images, NEW chain \in Chains, NEW flags \in Flags, send(image, chain, flags)
    PROVE  ReaderInv'
<1>1. PICK request \in [header : RequestHeader, chain : Bytes, payload : Bytes] :
          WriteFrame(request) /\ next_seq_num' \in 0 .. U32 - 1
  BY SendWrites
<1> QED
  BY <1>1, WriteKeepsInv

(* So do those of send_raw. *)
LEMMA SendRawKeepsInv ==
    ASSUME ReaderInv, NEW raw \in RawRequests, NEW seq \in {next_seq_num, (next_seq_num + 1) % U32},
           send_raw(raw, seq)
    PROVE  ReaderInv'
<1>1. seq \in 0 .. U32 - 1
  BY Words DEF ReaderInv
<1>2. raw \in [header : RequestHeader, chain : Bytes, payload : Bytes]
  BY FramingAssumption
<1>3. [raw EXCEPT !.header.seq_num = seq] \in [header : RequestHeader, chain : Bytes, payload : Bytes]
  BY <1>1, <1>2 DEF RequestHeader
<1>4. (seq + 1) % U32 \in 0 .. U32 - 1
  BY <1>1, Words
<1>5. next_seq_num' \in 0 .. U32 - 1
  BY <1>4 DEF send_raw, ReaderInv
<1> QED
  BY <1>3, <1>5, WriteKeepsInv DEF send_raw

(* Wherever the reader waits for a number of bytes, it is a number. *)
LEMMA WantedIsNat ==
    ASSUME ReaderInv, rpc \in {"header", "chain", "payload", "drain"}
    PROVE  Wanted \in Nat
<1>1. header.chain_len \in Nat /\ header.payload_len \in Nat /\ unread \in Nat
  BY Words DEF ReaderInv, RequestHeader
<1> QED
  BY <1>1 DEF Wanted, kRequestHeaderBytes

(* What Consume takes and what it leaves *)
LEMMA ConsumeCuts ==
    ASSUME ReaderInv, rpc \in {"header", "chain", "payload", "drain"}, Consume
    PROVE  upstream' \in Bytes /\ First(upstream, Wanted) \in Bytes /\ Len(First(upstream, Wanted)) = Wanted
<1>1. Len(upstream) \in Nat /\ upstream \in Bytes
  BY DEF ReaderInv, Bytes
<1>2. Wanted \in 0 .. Len(upstream)
  BY <1>1, WantedIsNat DEF Consume
<1> QED
  BY <1>1, <1>2, Cut DEF Consume

(* The invariant rests on these variables only. *)
LEMMA InvUnchanged ==
    ASSUME ReaderInv, UNCHANGED <<requests, next_seq_num, upstream, header, unread, rpc, jobs>>
    PROVE  ReaderInv'
  BY DEF ReaderInv, Validated

(* The initial state *)
LEMMA InvInit == Init => ReaderInv
<1> SUFFICES ASSUME Init PROVE ReaderInv
  OBVIOUS
<1>1. requests = <<>> /\ upstream = <<>> /\ jobs = {} /\ rpc = "header" /\ header = NoHeader
      /\ next_seq_num = 1 /\ unread = 0
  BY DEF Init
<1>2. <<>> \in Bytes
  BY DEF Bytes
<1>3. NoHeader \in RequestHeader
  BY Words DEF NoHeader, RequestHeader
<1>4. 1 \in 0 .. U32 - 1
  <2>1. U16 > 1
    BY Words
  <2>2. U32 > 1
    BY <2>1, Words
  <2> QED
    BY <2>2, Words
<1> QED
  BY <1>1, <1>2, <1>3, <1>4 DEF ReaderInv

(* Reading a header *)
LEMMA InvReadHeader == ASSUME ReaderInv, ReadHeader PROVE ReaderInv'
<1>1. rpc = "header" /\ Consume
  BY DEF ReadHeader
<1>2. Wanted = kRequestHeaderBytes
  BY <1>1 DEF Wanted
<1>3. upstream' \in Bytes /\ First(upstream, kRequestHeaderBytes) \in Bytes
      /\ Len(First(upstream, kRequestHeaderBytes)) = kRequestHeaderBytes
  BY <1>1, <1>2, ConsumeCuts
<1>4. header' \in RequestHeader
  BY <1>3, DecodeMakesHeader DEF ReadHeader
<1>5. header'.chain_len \in Nat /\ header'.payload_len \in Nat
  BY <1>4, Words DEF RequestHeader
<1>6. unread' \in Nat /\ unread' = header'.chain_len + header'.payload_len
  BY <1>5 DEF ReadHeader
<1>7. rpc' \in {"chain", "payload"} => validate_request_header(header') = kOk
  BY DEF ReadHeader, Reject
<1>8. UNCHANGED <<requests, next_seq_num, jobs>>
  BY DEF ReadHeader, client
<1> QED
  BY <1>3, <1>4, <1>6, <1>7, <1>8 DEF ReaderInv, Validated

(* Reading the op chain *)
LEMMA InvReadChain == ASSUME ReaderInv, ReadChain PROVE ReaderInv'
<1>1. rpc = "chain" /\ Consume
  BY DEF ReadChain
<1>2. upstream' \in Bytes
  BY <1>1, ConsumeCuts
<1>3. header.chain_len \in Nat /\ header.payload_len \in Nat
  BY Words DEF ReaderInv, RequestHeader
<1>4. unread' \in Nat
  BY <1>1, <1>3 DEF ReadChain, AfterChain, ReaderInv
<1>5. rpc' # "chain"
  BY DEF ReadChain, Reject
<1>6. UNCHANGED <<requests, next_seq_num, jobs, header>>
  BY DEF ReadChain, client
<1> QED
  BY <1>1, <1>2, <1>4, <1>5, <1>6 DEF ReaderInv, Validated

(* Draining a payload that is refused *)
LEMMA InvDrain == ASSUME ReaderInv, drain_exactly PROVE ReaderInv'
<1>1. upstream' \in Bytes
  BY ConsumeCuts DEF drain_exactly
<1>2. rpc' = "header" /\ UNCHANGED <<requests, next_seq_num, jobs, header, unread>>
  BY DEF drain_exactly, client
<1> QED
  BY <1>1, <1>2 DEF ReaderInv, Validated

(* Reading the payload *)
LEMMA InvReadPayload == ASSUME ReaderInv, ReadPayload PROVE ReaderInv'
<1> DEFINE job == [header |-> header, payload |-> First(upstream, Wanted)]
<1>1. rpc = "payload" /\ Consume /\ Wanted = header.payload_len
  BY DEF ReadPayload, Wanted
<1>2. upstream' \in Bytes /\ job.payload \in Bytes /\ Len(job.payload) = header.payload_len
  BY <1>1, ConsumeCuts
<1>3. Validated(job.header) /\ job.header = header
  BY <1>1 DEF ReaderInv
<1>4. jobs' = jobs \cup {job} /\ rpc' = "header" /\ UNCHANGED <<requests, next_seq_num, header, unread>>
  BY DEF ReadPayload, client
<1> HIDE DEF job
<1> QED
  BY <1>2, <1>3, <1>4 DEF ReaderInv, Validated

(* Every step keeps the invariant. *)
LEMMA InvNext == ReaderInv /\ [Next]_vars => ReaderInv'
<1> SUFFICES ASSUME ReaderInv, [Next]_vars PROVE ReaderInv'
  OBVIOUS
<1>1. ASSUME NEW image \in Images, NEW chain \in Chains, NEW flags \in Flags, send(image, chain, flags)
      PROVE  ReaderInv'
  BY <1>1, SendKeepsInv
<1>2. ASSUME NEW raw \in RawRequests, NEW seq \in {next_seq_num, (next_seq_num + 1) % U32}, send_raw(raw, seq)
      PROVE  ReaderInv'
  BY <1>2, SendRawKeepsInv
<1>3. CASE receive
  BY <1>3, InvUnchanged DEF receive, server
<1>4. CASE HangUp
  <2>1. upstream' \in Bytes
    BY <1>4, Cut DEF HangUp, ReaderInv
  <2>2. UNCHANGED <<requests, next_seq_num, header, unread, rpc, jobs>>
    BY <1>4 DEF HangUp, server
  <2> QED
    BY <2>1, <2>2 DEF ReaderInv, Validated
<1>5. CASE Reader
  <2>1. CASE ReadFails
    BY <2>1 DEF ReadFails, ReaderInv, Validated, client
  <2> QED
    BY <1>5, <2>1, InvReadHeader, InvReadChain, InvDrain, InvReadPayload DEF Reader
<1>6. CASE Worker
  <2>1. PICK job \in jobs : Complete(job)
    BY <1>6 DEF Worker
  <2>2. jobs' \subseteq jobs /\ UNCHANGED <<requests, next_seq_num, upstream, header, unread, rpc>>
    BY <2>1 DEF Complete, client
  <2> QED
    BY <2>2 DEF ReaderInv, Validated
<1>7. CASE UNCHANGED vars
  BY <1>7, InvUnchanged DEF vars, client, server
<1> QED
  BY <1>1, <1>2, <1>3, <1>4, <1>5, <1>6, <1>7 DEF Next

(* Every frame the backend is given fits its slot, and the backend reads   *)
(* no byte of the slot that the reader did not write.                      *)
THEOREM FramesFitTheirSlots == Spec => []AcceptedFramesFit
<1>1. ReaderInv => AcceptedFramesFit
  <2> SUFFICES ASSUME ReaderInv, NEW job \in jobs
               PROVE  Len(job.payload) <= max_payload_bytes /\ BytesRead(job.header) <= Len(job.payload)
    BY DEF AcceptedFramesFit
  <2>1. Validated(job.header) /\ Len(job.payload) = job.header.payload_len
    BY DEF ReaderInv
  <2>2. /\ job.header.payload_len <= max_payload_bytes
        /\ BytesRead(job.header) \in {0, job.header.payload_len}
    BY <2>1, AcceptedFramesAreSafe DEF Validated
  <2>3. job.header.payload_len \in Nat
    BY <2>1, Words DEF Validated, RequestHeader
  <2> QED
    BY <2>1, <2>2, <2>3
<1> QED
  BY <1>1, InvInit, InvNext, PTL DEF Spec

----------------------------------------------------------------------------
(* Packing and unpacking are inverse                                       *)

(* A number of two digits *)
LEMMA TwoDigits ==
    ASSUME NEW n \in Nat, n > 0, NEW v \in 0 .. n * n - 1
    PROVE  /\ v % n \in 0 .. n - 1 /\ v \div n \in 0 .. n - 1
           /\ (v \div n) % n = v \div n
           /\ (v % n) + n * (v \div n) = v
<1> DEFINE q == v \div n
           r == v % n
<1>0. n * n \in Nat /\ v \in Nat /\ v < n * n
  <2>1. n * n \in Nat
    OBVIOUS
  <2> HIDE DEF q, r
  <2> QED
    BY <2>1
<1>1. q \in Nat /\ r \in 0 .. n - 1 /\ v = n * q + r
  BY <1>0
<1> HIDE DEF q, r
<1>2. q < n
  <2> SUFFICES ASSUME q >= n PROVE FALSE
    BY <1>1
  <2>1. n * q >= n * n
    BY <1>1
  <2>2. n * q \in Nat
    BY <1>1
  <2> QED
    BY <1>0, <1>1, <2>1, <2>2
<1>3. q % n = q
  BY <1>1, <1>2
<1>4. n * q \in Nat
  BY <1>1
<1>5. r + n * q = v
  BY <1>0, <1>1, <1>4
<1> QED
  BY <1>1, <1>2, <1>3, <1>5 DEF q, r

(* The bytes of field are those of stream from offset at on. *)
Field(stream, at, field) ==
    /\ field \in Bytes
    /\ at \in Nat /\ at + Len(field) <= Len(stream)
    /\ \A j \in 1 .. Len(field) : stream[at + j] = field[j]

(* Fields come back as they were put. *)
LEMMA GetPut8 ==
    ASSUME NEW stream, NEW at, NEW v, Field(stream, at, put_u8(v))
    PROVE  get_u8(stream, at) = v
  BY DEF Field, put_u8, get_u8

(* Two bytes, the low one first, make up a 16-bit field. *)
LEMMA Put16 ==
    ASSUME NEW v \in 0 .. U16 - 1
    PROVE  LET b == put_u16(v)
           IN  Len(b) = 2 /\ b \in Bytes /\ b[1] \in Nat /\ b[2] \in Nat /\ b[1] + Byte * b[2] = v
<1>1. v \in 0 .. Byte * Byte - 1
  BY Words
<1>2. /\ v % Byte \in 0 .. Byte - 1 /\ v \div Byte \in 0 .. Byte - 1
      /\ (v \div Byte) % Byte = v \div Byte /\ (v % Byte) + Byte * (v \div Byte) = v
  BY <1>1, Words, TwoDigits
<1>3. put_u16(v) = <<v % Byte, v \div Byte>>
  BY <1>2 DEF put_u16
<1>4. <<v % Byte, v \div Byte>> \in Bytes
  BY <1>2 DEF Bytes
<1>5. v % Byte \in Nat /\ v \div Byte \in Nat
  BY <1>2, Words
<1> QED
  BY <1>2, <1>3, <1>4, <1>5

(* get_u16 reads what put_u16 wrote. *)
LEMMA GetPut16 ==
    ASSUME NEW stream, NEW at, NEW v \in 0 .. U16 - 1, Field(stream, at, put_u16(v))
    PROVE  get_u16(stream, at) = v
<1> DEFINE b == put_u16(v)
<1>1. Len(b) = 2 /\ b[1] + Byte * b[2] = v
  BY Put16
<1> HIDE DEF b
<1>2. at \in Nat /\ \A j \in 1 .. 2 : stream[at + j] = b[j]
  BY <1>1 DEF Field, b
<1>3. stream[at + 1] = b[1] /\ stream[at + 2] = b[2] /\ at + 1 + 1 = at + 2
  BY <1>2
<1> QED
  BY <1>1, <1>3 DEF get_u16, get_u8

(* Four bytes, the low one first, make up a 32-bit field. *)
LEMMA Put32 ==
    ASSUME NEW v \in 0 .. U32 - 1
    PROVE  LET b == put_u32(v)
           IN  /\ Len(b) = 4 /\ b \in Bytes
               /\ b[1] + Byte * b[2] + U16 * (b[3] + Byte * b[4]) = v
<1> DEFINE lo == v % U16
           hi == v \div U16
           l == put_u16(lo)
           h == put_u16(hi)
<1>1. v \in 0 .. U16 * U16 - 1
  BY Words
<1>2. lo \in 0 .. U16 - 1 /\ hi \in 0 .. U16 - 1 /\ lo + U16 * hi = v
  BY <1>1, Words, TwoDigits
<1> HIDE DEF lo, hi
<1>3. Len(l) = 2 /\ l \in Bytes /\ l[1] + Byte * l[2] = lo
  BY <1>2, Put16
<1>4. Len(h) = 2 /\ h \in Bytes /\ h[1] + Byte * h[2] = hi
  BY <1>2, Put16
<1> HIDE DEF l, h
<1>5. put_u32(v) = l \o h
  BY DEF put_u32, l, h, lo, hi
<1>6. /\ Len(l \o h) = 4 /\ l \o h \in Bytes
      /\ (l \o h)[1] = l[1] /\ (l \o h)[2] = l[2] /\ (l \o h)[3] = h[1] /\ (l \o h)[4] = h[2]
  <2>1. /\ Len(l \o h) = Len(l) + Len(h) /\ l \o h \in Bytes
        /\ \A i \in 1 .. Len(l) + Len(h) : (l \o h)[i] = IF i <= Len(l) THEN l[i] ELSE h[i - Len(l)]
    BY <1>3, <1>4, ConcatProperties DEF Bytes
  <2>2. \A i \in 1 .. 4 : (l \o h)[i] = IF i <= 2 THEN l[i] ELSE h[i - 2]
    BY <1>3, <1>4, <2>1
  <2> QED
    BY <1>3, <1>4, <2>1, <2>2
<1> QED
  BY <1>2, <1>3, <1>4, <1>5, <1>6

(* get_u32 reads what put_u32 wrote. *)
LEMMA GetPut32 ==
    ASSUME NEW stream, NEW at, NEW v \in 0 .. U32 - 1, Field(stream, at, put_u32(v))
    PROVE  get_u32(stream, at) = v
<1> DEFINE b == put_u32(v)
<1>1. Len(b) = 4 /\ b[1] + Byte * b[2] + U16 * (b[3] + Byte * b[4]) = v
  BY Put32
<1> HIDE DEF b
<1>2. at \in Nat /\ \A j \in 1 .. 4 : stream[at + j] = b[j]
  BY <1>1 DEF Field, b
<1>3. /\ stream[at + 1] = b[1] /\ stream[at + 2] = b[2] /\ stream[at + 3] = b[3] /\ stream[at + 4] = b[4]
      /\ at + 1 + 1 = at + 2 /\ at + 2 + 1 = at + 3 /\ at + 2 + 1 + 1 = at + 4
  BY <1>2
<1> QED
  BY <1>1, <1>3 DEF get_u32, get_u16, get_u8

(* A header under construction: the fields put so far, each at its offset *)
Holds(stream, fields) == stream \in Bytes /\ \A f \in fields : Field(stream, f[1], f[2])

(* Putting one more field leaves the others where they are. *)
LEMMA PutField ==
    ASSUME NEW stream, NEW fields, Holds(stream, fields), NEW b \in Bytes, NEW n \in Nat, Len(stream) = n
    PROVE  /\ Holds(stream \o b, fields \cup {<<n, b>>})
           /\ Len(stream \o b) = n + Len(b)
<1> DEFINE u == stream \o b
<1>1. stream \in Bytes /\ Len(b) \in Nat
  BY DEF Holds, Bytes
<1>2. /\ u \in Bytes /\ Len(u) = n + Len(b)
      /\ \A i \in 1 .. n + Len(b) : u[i] = IF i <= n THEN stream[i] ELSE b[i - n]
  BY <1>1, ConcatProperties DEF Bytes
<1> HIDE DEF u
<1>3. Field(u, n, b)
  <2>1. ASSUME NEW j \in 1 .. Len(b) PROVE u[n + j] = b[j]
    <3>1. n + j \in 1 .. n + Len(b) /\ ~(n + j <= n) /\ n + j - n = j
      BY <1>1
    <3> QED
      BY <1>2, <3>1
  <2> QED
    BY <1>1, <1>2, <2>1 DEF Field
<1>4. ASSUME NEW at, NEW c, Field(stream, at, c) PROVE Field(u, at, c)
  <2>0. c \in Bytes /\ Len(c) \in Nat
    BY <1>4 DEF Field, Bytes
  <2>1. at \in Nat /\ at + Len(c) <= n /\ \A j \in 1 .. Len(c) : stream[at + j] = c[j]
    BY <1>4 DEF Field
  <2>2. ASSUME NEW j \in 1 .. Len(c) PROVE u[at + j] = c[j]
    <3>1. at + j \in 1 .. n + Len(b) /\ at + j <= n
      BY <1>1, <2>0, <2>1
    <3> QED
      BY <1>2, <2>1, <3>1
  <2> QED
    BY <1>1, <1>2, <2>0, <2>1, <2>2 DEF Field
<1>5. ASSUME NEW f \in fields PROVE Field(u, f[1], f[2])
  <2>1. Field(stream, f[1], f[2])
    BY DEF Holds
  <2> QED
    BY <1>4, <2>1
<1> QED
  BY <1>2, <1>3, <1>5 DEF Holds, u

(* The same, with the header so far named *)
LEMMA NextField ==
    ASSUME NEW stream, NEW fields, Holds(stream, fields), NEW n \in Nat, Len(stream) = n,
           NEW b \in Bytes, NEW t, t = stream \o b, NEW T, T = fields \cup {<<n, b>>}
    PROVE  Holds(t, T)
  BY PutField

(* A field lengthens the bytes before it by its own length. *)
LEMMA NextLength ==
    ASSUME NEW stream \in Bytes, NEW b \in Bytes
    PROVE  Len(stream \o b) = Len(stream) + Len(b)
  BY ConcatProperties DEF Bytes

(* The first field *)
LEMMA FirstField == ASSUME NEW b \in Bytes PROVE Holds(b, {<<0, b>>})
<1>1. Len(b) \in Nat /\ \A j \in 1 .. Len(b) : 0 + j = j
  BY DEF Bytes
<1>2. Field(b, 0, b)
  BY <1>1 DEF Field
<1>3. \A f \in {<<0, b>>} : f[1] = 0 /\ f[2] = b
  OBVIOUS
<1> QED
  BY <1>2, <1>3 DEF Holds

(* The eight fields that both headers begin with *)
Common(h, x) ==
    {<<0, put_u32(h.magic)>>, <<4, put_u8(h.version)>>, <<5, put_u8(x)>>, <<6, put_u32(h.seq_num)>>,
     <<10, put_u32(h.width)>>, <<14, put_u32(h.height)>>, <<18, put_u8(h.channels)>>, <<19, put_u32(h.payload_len)>>}

(* The bytes of those fields *)
CommonBytes(h, x) ==
    put_u32(h.magic) \o put_u8(h.version) \o put_u8(x) \o put_u32(h.seq_num)
    \o put_u32(h.width) \o put_u32(h.height) \o put_u8(h.channels) \o put_u32(h.payload_len)

(* Every field fits its integer type. *)
CommonType(h, x) ==
    /\ h.magic \in 0 .. U32 - 1 /\ h.version \in 0 .. Byte - 1 /\ x \in 0 .. Byte - 1
    /\ h.seq_num \in 0 .. U32 - 1 /\ h.width \in 0 .. U32 - 1 /\ h.height \in 0 .. U32 - 1
    /\ h.channels \in 0 .. Byte - 1 /\ h.payload_len \in 0 .. U32 - 1

(* Their bytes hold every one of the eight at its offset. *)
LEMMA CommonFields ==
    ASSUME NEW h, NEW x, CommonType(h, x)
    PROVE  Holds(CommonBytes(h, x), Common(h, x)) /\ Len(CommonBytes(h, x)) = 23
<1> DEFINE b1 == put_u32(h.magic)
           b2 == put_u8(h.version)
           b3 == put_u8(x)
           b4 == put_u32(h.seq_num)
           b5 == put_u32(h.width)
           b6 == put_u32(h.height)
           b7 == put_u8(h.channels)
           b8 == put_u32(h.payload_len)
           s2 == b1 \o b2
           s3 == s2 \o b3
           s4 == s3 \o b4
           s5 == s4 \o b5
           s6 == s5 \o b6
           s7 == s6 \o b7
           s8 == s7 \o b8
           T1 == {<<0, b1>>}
           T2 == T1 \cup {<<4, b2>>}
           T3 == T2 \cup {<<5, b3>>}
           T4 == T3 \cup {<<6, b4>>}
           T5 == T4 \cup {<<10, b5>>}
           T6 == T5 \cup {<<14, b6>>}
           T7 == T6 \cup {<<18, b7>>}
           T8 == T7 \cup {<<19, b8>>}
<1>1. /\ b1 \in Bytes /\ Len(b1) = 4 /\ b4 \in Bytes /\ Len(b4) = 4 /\ b5 \in Bytes /\ Len(b5) = 4
      /\ b6 \in Bytes /\ Len(b6) = 4 /\ b8 \in Bytes /\ Len(b8) = 4
  BY Put32 DEF CommonType
<1>2. /\ b2 \in Bytes /\ Len(b2) = 1 /\ b3 \in Bytes /\ Len(b3) = 1 /\ b7 \in Bytes /\ Len(b7) = 1
  BY DEF put_u8, Bytes, CommonType
<1>3. s8 = CommonBytes(h, x)
  BY DEF CommonBytes
<1>4. T8 = Common(h, x)
  BY DEF Common
<1> HIDE DEF b1, b2, b3, b4, b5, b6, b7, b8, s2, s3, s4, s5, s6, s7, s8
<1>5. Holds(b1, T1) /\ Len(b1) = 4
  BY <1>1, FirstField
<1> HIDE DEF T1, T2, T3, T4, T5, T6, T7, T8
<1>6. Holds(s2, T2) /\ Len(s2) = 5
  <2>1. s2 = b1 \o b2 /\ T2 = T1 \cup {<<4, b2>>} /\ 4 \in Nat
    BY DEF s2, T2
  <2>2. Holds(s2, T2)
    BY <1>2, <1>5, <2>1, NextField, Zenon
  <2>3. Len(s2) = 4 + 1
    BY <1>2, <1>5, <2>1, NextLength DEF Holds
  <2> QED
    BY <2>2, <2>3
<1>7. Holds(s3, T3) /\ Len(s3) = 6
  <2>1. s3 = s2 \o b3 /\ T3 = T2 \cup {<<5, b3>>} /\ 5 \in Nat
    BY DEF s3, T3
  <2>2. Holds(s3, T3)
    BY <1>2, <1>6, <2>1, NextField, Zenon
  <2>3. Len(s3) = 5 + 1
    BY <1>2, <1>6, <2>1, NextLength DEF Holds
  <2> QED
    BY <2>2, <2>3
<1>8. Holds(s4, T4) /\ Len(s4) = 10
  <2>1. s4 = s3 \o b4 /\ T4 = T3 \cup {<<6, b4>>} /\ 6 \in Nat
    BY DEF s4, T4
  <2>2. Holds(s4, T4)
    BY <1>1, <1>7, <2>1, NextField, Zenon
  <2>3. Len(s4) = 6 + 4
    BY <1>1, <1>7, <2>1, NextLength DEF Holds
  <2> QED
    BY <2>2, <2>3
<1>9. Holds(s5, T5) /\ Len(s5) = 14
  <2>1. s5 = s4 \o b5 /\ T5 = T4 \cup {<<10, b5>>} /\ 10 \in Nat
    BY DEF s5, T5
  <2>2. Holds(s5, T5)
    BY <1>1, <1>8, <2>1, NextField, Zenon
  <2>3. Len(s5) = 10 + 4
    BY <1>1, <1>8, <2>1, NextLength DEF Holds
  <2> QED
    BY <2>2, <2>3
<1>10. Holds(s6, T6) /\ Len(s6) = 18
  <2>1. s6 = s5 \o b6 /\ T6 = T5 \cup {<<14, b6>>} /\ 14 \in Nat
    BY DEF s6, T6
  <2>2. Holds(s6, T6)
    BY <1>1, <1>9, <2>1, NextField, Zenon
  <2>3. Len(s6) = 14 + 4
    BY <1>1, <1>9, <2>1, NextLength DEF Holds
  <2> QED
    BY <2>2, <2>3
<1>11. Holds(s7, T7) /\ Len(s7) = 19
  <2>1. s7 = s6 \o b7 /\ T7 = T6 \cup {<<18, b7>>} /\ 18 \in Nat
    BY DEF s7, T7
  <2>2. Holds(s7, T7)
    BY <1>2, <1>10, <2>1, NextField, Zenon
  <2>3. Len(s7) = 18 + 1
    BY <1>2, <1>10, <2>1, NextLength DEF Holds
  <2> QED
    BY <2>2, <2>3
<1>12. Holds(s8, T8) /\ Len(s8) = 23
  <2>1. s8 = s7 \o b8 /\ T8 = T7 \cup {<<19, b8>>} /\ 19 \in Nat
    BY DEF s8, T8
  <2>2. Holds(s8, T8)
    BY <1>1, <1>11, <2>1, NextField, Zenon
  <2>3. Len(s8) = 19 + 4
    BY <1>1, <1>11, <2>1, NextLength DEF Holds
  <2> QED
    BY <2>2, <2>3
<1> QED
  BY <1>3, <1>4, <1>12

(* A field of a header is where it was put. *)
LEMMA HeldField ==
    ASSUME NEW stream, NEW fields, Holds(stream, fields), NEW at, NEW b, <<at, b>> \in fields
    PROVE  Field(stream, at, b)
<1>1. PICK f : f = <<at, b>>
  OBVIOUS
<1>2. Field(stream, f[1], f[2])
  BY <1>1 DEF Holds
<1> QED
  BY <1>1, <1>2

(* And is got back from there. *)
LEMMA CommonFieldsBack ==
    ASSUME NEW h, NEW x, CommonType(h, x), NEW s, NEW fields, Holds(s, fields), Common(h, x) \subseteq fields
    PROVE  /\ get_u32(s, 0) = h.magic /\ get_u8(s, 4) = h.version /\ get_u8(s, 5) = x
           /\ get_u32(s, 6) = h.seq_num /\ get_u32(s, 10) = h.width /\ get_u32(s, 14) = h.height
           /\ get_u8(s, 18) = h.channels /\ get_u32(s, 19) = h.payload_len
<1>1. get_u32(s, 0) = h.magic
  <2>1. <<0, put_u32(h.magic)>> \in fields
    BY DEF Common
  <2>2. Field(s, 0, put_u32(h.magic))
    BY <2>1, HeldField
  <2> QED
    BY <2>2, GetPut32 DEF CommonType
<1>2. get_u8(s, 4) = h.version
  <2>1. <<4, put_u8(h.version)>> \in fields
    BY DEF Common
  <2>2. Field(s, 4, put_u8(h.version))
    BY <2>1, HeldField
  <2> QED
    BY <2>2, GetPut8
<1>3. get_u8(s, 5) = x
  <2>1. <<5, put_u8(x)>> \in fields
    BY DEF Common
  <2>2. Field(s, 5, put_u8(x))
    BY <2>1, HeldField
  <2> QED
    BY <2>2, GetPut8
<1>4. get_u32(s, 6) = h.seq_num
  <2>1. <<6, put_u32(h.seq_num)>> \in fields
    BY DEF Common
  <2>2. Field(s, 6, put_u32(h.seq_num))
    BY <2>1, HeldField
  <2> QED
    BY <2>2, GetPut32 DEF CommonType
<1>5. get_u32(s, 10) = h.width
  <2>1. <<10, put_u32(h.width)>> \in fields
    BY DEF Common
  <2>2. Field(s, 10, put_u32(h.width))
    BY <2>1, HeldField
  <2> QED
    BY <2>2, GetPut32 DEF CommonType
<1>6. get_u32(s, 14) = h.height
  <2>1. <<14, put_u32(h.height)>> \in fields
    BY DEF Common
  <2>2. Field(s, 14, put_u32(h.height))
    BY <2>1, HeldField
  <2> QED
    BY <2>2, GetPut32 DEF CommonType
<1>7. get_u8(s, 18) = h.channels
  <2>1. <<18, put_u8(h.channels)>> \in fields
    BY DEF Common
  <2>2. Field(s, 18, put_u8(h.channels))
    BY <2>1, HeldField
  <2> QED
    BY <2>2, GetPut8
<1>8. get_u32(s, 19) = h.payload_len
  <2>1. <<19, put_u32(h.payload_len)>> \in fields
    BY DEF Common
  <2>2. Field(s, 19, put_u32(h.payload_len))
    BY <2>1, HeldField
  <2> QED
    BY <2>2, GetPut32 DEF CommonType
<1> QED
  BY <1>1, <1>2, <1>3, <1>4, <1>5, <1>6, <1>7, <1>8

(* The server decodes the header that the client encoded. *)
LEMMA RequestRoundTrip ==
    ASSUME NEW h \in RequestHeader
    PROVE  /\ encode_request_header(h) \in Bytes
           /\ Len(encode_request_header(h)) = kRequestHeaderBytes
           /\ decode_request_header(encode_request_header(h)) = h
<1> DEFINE s8 == CommonBytes(h, h.flags)
           b9 == put_u16(h.chain_len)
           s9 == s8 \o b9
           T8 == Common(h, h.flags)
           T9 == T8 \cup {<<23, b9>>}
<1>1. /\ CommonType(h, h.flags) /\ h.chain_len \in 0 .. U16 - 1
      /\ h = [magic |-> h.magic, version |-> h.version, flags |-> h.flags, seq_num |-> h.seq_num,
              width |-> h.width, height |-> h.height, channels |-> h.channels,
              payload_len |-> h.payload_len, chain_len |-> h.chain_len]
  BY DEF RequestHeader, CommonType
<1>2. Holds(s8, T8) /\ Len(s8) = 23
  BY <1>1, CommonFields
<1>3. b9 \in Bytes /\ Len(b9) = 2
  BY <1>1, Put16
<1>4. encode_request_header(h) = s9
  BY DEF encode_request_header, CommonBytes
<1> HIDE DEF s8, b9
<1>5. Holds(s9, T9)
  <2>1. 23 \in Nat /\ s9 = s8 \o b9 /\ T9 = T8 \cup {<<23, b9>>}
    OBVIOUS
  <2> HIDE DEF s9, T8, T9
  <2> QED
    BY <1>2, <1>3, <2>1, NextField, Zenon
<1>6. Len(s9) = 25
  <2>1. s8 \in Bytes /\ s9 = s8 \o b9
    BY <1>2 DEF Holds
  <2> HIDE DEF s9
  <2>2. Len(s9) = Len(s8) + Len(b9)
    BY <1>3, <2>1, NextLength
  <2> QED
    BY <1>2, <1>3, <2>2
<1> HIDE DEF s9
<1>7. /\ get_u32(s9, 0) = h.magic /\ get_u8(s9, 4) = h.version /\ get_u8(s9, 5) = h.flags
      /\ get_u32(s9, 6) = h.seq_num /\ get_u32(s9, 10) = h.width /\ get_u32(s9, 14) = h.height
      /\ get_u8(s9, 18) = h.channels /\ get_u32(s9, 19) = h.payload_len
  <2>1. T8 \subseteq T9
    OBVIOUS
  <2> HIDE DEF T9
  <2> QED
    BY <1>1, <1>5, <2>1, CommonFieldsBack
<1>8. get_u16(s9, 23) = h.chain_len
  <2>1. <<23, b9>> \in T9
    OBVIOUS
  <2>2. Field(s9, 23, b9)
    BY <1>5, <2>1, HeldField
  <2> QED
    BY <1>1, <2>2, GetPut16 DEF b9
<1>9. decode_request_header(s9) = h
  BY <1>1, <1>7, <1>8 DEF decode_request_header
<1> QED
  BY <1>4, <1>5, <1>6, <1>9 DEF Holds, kRequestHeaderBytes

ResponseHeader ==
    [magic : 0 .. U32 - 1, version : 0 .. Byte - 1, status : 0 .. Byte - 1, seq_num : 0 .. U32 - 1,
     width : 0 .. U32 - 1, height : 0 .. U32 - 1, channels : 0 .. Byte - 1, payload_len : 0 .. U32 - 1]

(* The client decodes the header that the server encoded. *)
LEMMA ResponseRoundTrip ==
    ASSUME NEW h \in ResponseHeader
    PROVE  /\ encode_response_header(h) \in Bytes
           /\ Len(encode_response_header(h)) = kResponseHeaderBytes
           /\ decode_response_header(encode_response_header(h)) = h
<1> DEFINE s == CommonBytes(h, h.status)
           T == Common(h, h.status)
<1>1. /\ CommonType(h, h.status)
      /\ h = [magic |-> h.magic, version |-> h.version, status |-> h.status, seq_num |-> h.seq_num,
              width |-> h.width, height |-> h.height, channels |-> h.channels, payload_len |-> h.payload_len]
  BY DEF ResponseHeader, CommonType
<1>2. Holds(s, T) /\ Len(s) = 23
  BY <1>1, CommonFields
<1>3. encode_response_header(h) = s
  BY DEF encode_response_header, CommonBytes
<1> HIDE DEF s
<1>4. /\ get_u32(s, 0) = h.magic /\ get_u8(s, 4) = h.version /\ get_u8(s, 5) = h.status
      /\ get_u32(s, 6) = h.seq_num /\ get_u32(s, 10) = h.width /\ get_u32(s, 14) = h.height
      /\ get_u8(s, 18) = h.channels /\ get_u32(s, 19) = h.payload_len
  <2>1. T \subseteq T
    OBVIOUS
  <2> QED
    BY <1>1, <1>2, <2>1, CommonFieldsBack
<1>5. decode_response_header(s) = h
  BY <1>1, <1>4 DEF decode_response_header
<1> QED
  BY <1>2, <1>3, <1>5 DEF Holds, kResponseHeaderBytes

----------------------------------------------------------------------------
(* Streams of frames                                                       *)

(* What is left of a stream to which frames were written one after the     *)
(* other.  Frame n began, or begins, after at[n] bytes; a negative offset  *)
(* says how much of it was read.  A stream that was cut may end early.     *)
Positions(at, frames, stream, cut) ==
    /\ frames \in Seq(Bytes) /\ stream \in Bytes
    /\ at \in [1 .. Len(frames) + 1 -> Int]
    /\ \A n \in 1 .. Len(frames) : at[n + 1] = at[n] + Len(frames[n])
    /\ \A n \in 1 .. Len(frames) : \A k \in 1 .. Len(frames[n]) :
          at[n] + k \in 1 .. Len(stream) => stream[at[n] + k] = frames[n][k]
    /\ \A n \in 1 .. Len(frames) + 1 : at[n] <= at[Len(frames) + 1]
    /\ Len(stream) <= at[Len(frames) + 1]
    /\ ~cut => Len(stream) = at[Len(frames) + 1]

(* The bytes before and after a cut *)
LEMMA CutBytes ==
    ASSUME NEW s \in Bytes, NEW w \in 0 .. Len(s)
    PROVE  /\ First(s, w) \in Bytes /\ Len(First(s, w)) = w /\ \A i \in 1 .. w : First(s, w)[i] = s[i]
           /\ Rest(s, w) \in Bytes /\ Len(Rest(s, w)) = Len(s) - w
           /\ \A i \in 1 .. Len(s) - w : Rest(s, w)[i] = s[w + i]
<1>1. Len(s) \in Nat /\ w \in Nat /\ w <= Len(s)
  BY DEF Bytes
<1>2. First(s, w) \in Bytes /\ Len(First(s, w)) = w /\ Rest(s, w) \in Bytes
  BY Cut
<1>3. \A i \in 1 .. w : SubSeq(s, 1, w)[i] = s[i]
  BY <1>1 DEF Bytes
<1>4. Len(SubSeq(s, w + 1, Len(s))) = Len(s) - w /\ \A i \in 1 .. Len(s) - w : SubSeq(s, w + 1, Len(s))[i] = s[w + i]
  BY <1>1 DEF Bytes
<1> QED
  BY <1>2, <1>3, <1>4 DEF First, Rest

(* Reading moves every frame towards the reader. *)
LEMMA PositionsRead ==
    ASSUME NEW at, NEW frames, NEW stream, NEW cut, Positions(at, frames, stream, cut), NEW w \in 0 .. Len(stream)
    PROVE  Positions([n \in 1 .. Len(frames) + 1 |-> at[n] - w], frames, Rest(stream, w), cut)
<1> DEFINE m == Len(frames)
           to == [n \in 1 .. m + 1 |-> at[n] - w]
           rest == Rest(stream, w)
<1>1. /\ frames \in Seq(Bytes) /\ stream \in Bytes /\ m \in Nat /\ Len(stream) \in Nat /\ w \in Nat
      /\ at \in [1 .. m + 1 -> Int]
      /\ \A n \in 1 .. m : at[n + 1] = at[n] + Len(frames[n])
      /\ \A n \in 1 .. m : \A k \in 1 .. Len(frames[n]) :
            at[n] + k \in 1 .. Len(stream) => stream[at[n] + k] = frames[n][k]
      /\ \A n \in 1 .. m + 1 : at[n] <= at[m + 1]
      /\ Len(stream) <= at[m + 1] /\ (~cut => Len(stream) = at[m + 1])
  BY DEF Positions, Bytes
<1>2. /\ rest \in Bytes /\ Len(rest) = Len(stream) - w /\ \A i \in 1 .. Len(stream) - w : rest[i] = stream[w + i]
  BY <1>1, CutBytes
<1>3. \A n \in 1 .. m : Len(frames[n]) \in Nat
  BY <1>1 DEF Bytes
<1> HIDE DEF rest, m
<1>4. \A n \in 1 .. m + 1 : at[n] \in Int /\ at[n] - w \in Int
  BY <1>1
<1>5. to \in [1 .. m + 1 -> Int] /\ \A n \in 1 .. m + 1 : to[n] = at[n] - w
  BY <1>4
<1> HIDE DEF to
<1>6. \A n \in 1 .. m : to[n + 1] = to[n] + Len(frames[n])
  <2> TAKE n \in 1 .. m
  <2>1. n \in 1 .. m + 1 /\ n + 1 \in 1 .. m + 1
    BY <1>1
  <2>2. at[n] \in Int /\ at[n + 1] \in Int /\ to[n] = at[n] - w /\ to[n + 1] = at[n + 1] - w
    BY <1>4, <1>5, <2>1
  <2>3. at[n + 1] = at[n] + Len(frames[n]) /\ Len(frames[n]) \in Nat /\ w \in Nat
    BY <1>1, <1>3
  <2> QED
    BY <2>2, <2>3
<1>7. ASSUME NEW n \in 1 .. m, NEW k \in 1 .. Len(frames[n]), to[n] + k \in 1 .. Len(rest)
      PROVE  rest[to[n] + k] = frames[n][k]
  <2>1. n \in 1 .. m + 1 /\ k \in Nat
    BY <1>1, <1>3
  <2>2. at[n] \in Int /\ to[n] = at[n] - w /\ Len(stream) \in Nat /\ w \in Nat
    BY <1>1, <1>4, <1>5, <2>1
  <2>3. at[n] - w + k \in 1 .. Len(stream) - w
    BY <1>2, <1>7, <2>2
  <2>4. at[n] + k \in 1 .. Len(stream) /\ w + (at[n] - w + k) = at[n] + k
    BY <2>1, <2>2, <2>3
  <2>5. stream[at[n] + k] = frames[n][k]
    BY <1>1, <2>4
  <2>6. rest[at[n] - w + k] = stream[w + (at[n] - w + k)]
    BY <1>2, <2>3
  <2> QED
    BY <2>2, <2>4, <2>5, <2>6
<1>8. m + 1 \in 1 .. m + 1
  BY <1>1
<1>9. /\ \A n \in 1 .. m + 1 : to[n] <= to[m + 1]
      /\ Len(rest) <= to[m + 1] /\ (~cut => Len(rest) = to[m + 1])
  <2>1. at[m + 1] \in Int /\ to[m + 1] = at[m + 1] - w
    BY <1>4, <1>5, <1>8
  <2> QED
    BY <1>1, <1>2, <1>4, <1>5, <2>1
<1>10. Positions(to, frames, rest, cut)
  BY <1>1, <1>2, <1>5, <1>6, <1>7, <1>9 DEF Positions, m
<1> QED
  BY <1>10 DEF to, rest, m

(* A stream that is cut keeps what is left of it. *)
LEMMA PositionsCut ==
    ASSUME NEW at, NEW frames, NEW stream, NEW cut, Positions(at, frames, stream, cut), NEW w \in 0 .. Len(stream)
    PROVE  Positions(at, frames, First(stream, w), TRUE)
<1> DEFINE kept == First(stream, w)
<1>1. stream \in Bytes /\ Len(stream) \in Nat /\ w \in Nat /\ Len(frames) \in Nat
  BY DEF Positions, Bytes
<1>2. kept \in Bytes /\ Len(kept) = w /\ \A i \in 1 .. w : kept[i] = stream[i]
  BY <1>1, CutBytes
<1> HIDE DEF kept
<1>3. ASSUME NEW n \in 1 .. Len(frames), NEW k \in 1 .. Len(frames[n]), at[n] + k \in 1 .. w
      PROVE  kept[at[n] + k] = frames[n][k]
  <2>1. at[n] + k \in 1 .. Len(stream)
    BY <1>1, <1>3
  <2>2. stream[at[n] + k] = frames[n][k]
    BY <2>1 DEF Positions
  <2> QED
    BY <1>2, <1>3, <2>2
<1>4. w <= at[Len(frames) + 1]
  <2>1. at[Len(frames) + 1] \in Int /\ Len(stream) <= at[Len(frames) + 1]
    BY <1>1 DEF Positions
  <2> QED
    BY <1>1, <2>1
<1> QED
  BY <1>2, <1>3, <1>4 DEF Positions, kept

(* Writing appends. *)
LEMMA PositionsWrite ==
    ASSUME NEW at, NEW frames, NEW stream, Positions(at, frames, stream, FALSE), NEW f \in Bytes
    PROVE  LET m == Len(frames)
               to == [n \in 1 .. m + 2 |-> IF n = m + 2 THEN at[m + 1] + Len(f) ELSE at[n]]
           IN  Positions(to, Append(frames, f), stream \o f, FALSE)
<1> DEFINE m == Len(frames)
           to == [n \in 1 .. m + 2 |-> IF n = m + 2 THEN at[m + 1] + Len(f) ELSE at[n]]
           more == Append(frames, f)
           s == stream \o f
<1>1. /\ frames \in Seq(Bytes) /\ stream \in Bytes /\ m \in Nat /\ Len(stream) \in Nat /\ Len(f) \in Nat
      /\ at \in [1 .. m + 1 -> Int]
      /\ \A n \in 1 .. m : at[n + 1] = at[n] + Len(frames[n])
      /\ \A n \in 1 .. m : \A k \in 1 .. Len(frames[n]) :
            at[n] + k \in 1 .. Len(stream) => stream[at[n] + k] = frames[n][k]
      /\ \A n \in 1 .. m + 1 : at[n] <= at[m + 1]
      /\ Len(stream) = at[m + 1]
  BY DEF Positions, Bytes
<1>2. /\ more \in Seq(Bytes) /\ Len(more) = m + 1 /\ more[m + 1] = f /\ \A n \in 1 .. m : more[n] = frames[n]
  BY <1>1, AppendProperties
<1> HIDE DEF more
<1>3. /\ s \in Bytes /\ Len(s) = Len(stream) + Len(f)
      /\ \A i \in 1 .. Len(stream) + Len(f) : s[i] = IF i <= Len(stream) THEN stream[i] ELSE f[i - Len(stream)]
  BY <1>1, ConcatProperties DEF Bytes
<1> HIDE DEF s
<1>4. m + 1 \in 1 .. m + 1 /\ m + 2 \in 1 .. m + 2 /\ m + 1 + 1 = m + 2
  BY <1>1
<1>5. \A n \in 1 .. m + 1 : at[n] \in Int /\ at[n] <= Len(stream)
  BY <1>1, <1>4
<1>6. /\ to \in [1 .. m + 2 -> Int] /\ to[m + 2] = Len(stream) + Len(f)
      /\ \A n \in 1 .. m + 1 : to[n] = at[n]
  <2>1. \A n \in 1 .. m + 1 : n \in 1 .. m + 2 /\ n # m + 2
    BY <1>1
  <2>2. \A n \in 1 .. m + 2 : n = m + 2 \/ n \in 1 .. m + 1
    BY <1>1
  <2>3. \A n \in 1 .. m + 2 : (IF n = m + 2 THEN at[m + 1] + Len(f) ELSE at[n]) \in Int
    BY <1>1, <1>4, <1>5, <2>2
  <2> QED
    BY <1>1, <1>4, <2>1, <2>3
<1> HIDE DEF to
<1>7. \A n \in 1 .. m : Len(frames[n]) \in Nat
  BY <1>1 DEF Bytes
<1>8. \A n \in 1 .. m + 1 : to[n + 1] = to[n] + Len(more[n])
  <2> TAKE n \in 1 .. m + 1
  <2>1. CASE n = m + 1
    BY <2>1, <1>1, <1>2, <1>4, <1>6
  <2>2. CASE n # m + 1
    <3>1. n \in 1 .. m /\ n + 1 \in 1 .. m + 1
      BY <1>1, <2>2
    <3> QED
      BY <1>1, <1>2, <1>6, <3>1
  <2> QED
    BY <2>1, <2>2
<1>9. ASSUME NEW n \in 1 .. m + 1, NEW k \in 1 .. Len(more[n]), to[n] + k \in 1 .. Len(s)
      PROVE  s[to[n] + k] = more[n][k]
  <2>1. CASE n = m + 1
    <3>1. more[n] = f /\ to[n] = Len(stream)
      BY <2>1, <1>1, <1>2, <1>4, <1>6
    <3>2. k \in 1 .. Len(f)
      BY <3>1
    <3>3. Len(stream) + k \in 1 .. Len(stream) + Len(f) /\ ~(Len(stream) + k <= Len(stream))
          /\ Len(stream) + k - Len(stream) = k
      BY <1>1, <3>2
    <3> QED
      BY <1>3, <3>1, <3>3
  <2>2. CASE n # m + 1
    <3>1. n \in 1 .. m /\ n + 1 \in 1 .. m + 1
      BY <1>1, <2>2
    <3>2. more[n] = frames[n] /\ to[n] = at[n] /\ at[n] \in Int /\ Len(frames[n]) \in Nat
      BY <1>2, <1>5, <1>6, <1>7, <3>1
    <3>3. at[n] + Len(frames[n]) <= Len(stream)
      BY <1>1, <1>5, <3>1
    <3>4. k \in 1 .. Len(frames[n])
      BY <3>2
    <3>5. at[n] + k \in 1 .. Len(stream) /\ at[n] + k \in 1 .. Len(stream) + Len(f) /\ at[n] + k <= Len(stream)
      BY <1>1, <1>3, <1>9, <3>2, <3>3, <3>4
    <3>6. stream[at[n] + k] = frames[n][k]
      BY <1>1, <3>1, <3>4, <3>5
    <3> QED
      BY <1>3, <3>2, <3>5, <3>6
  <2> QED
    BY <2>1, <2>2
<1>10. \A n \in 1 .. m + 2 : to[n] <= to[m + 2]
  <2> TAKE n \in 1 .. m + 2
  <2>1. n = m + 2 \/ n \in 1 .. m + 1
    BY <1>1
  <2> QED
    BY <1>1, <1>5, <1>6, <2>1
<1>11. Positions(to, more, s, FALSE)
  BY <1>2, <1>3, <1>4, <1>6, <1>8, <1>9, <1>10 DEF Positions
<1> QED
  BY <1>11 DEF to, more, s

(* Byte strings that agree byte by byte *)
LEMMA SameBytes ==
    ASSUME NEW s \in Bytes, NEW t \in Bytes, Len(s) = Len(t), \A j \in 1 .. Len(t) : s[j] = t[j]
    PROVE  s = t
  BY SeqEqual DEF Bytes

(* The w bytes of a frame behind its first d *)
Piece(frame, d, w, piece) ==
    /\ piece \in Bytes /\ Len(piece) = w /\ d + w <= Len(frame)
    /\ \A j \in 1 .. w : frame[d + j] = piece[j]

(* All but d bytes of the frame before the n-th are gone. *)
AtHead(at, frames, stream, cut, n, d) ==
    Positions(at, frames, stream, cut) /\ n \in 1 .. Len(frames) /\ d \in Nat /\ at[n] + d = 0

StartsWith(stream, w, piece) == First(stream, w) = piece

(* What is read is a piece of the frame that is at the head of the stream. *)
LEMMA PieceRead ==
    ASSUME NEW at, NEW frames, NEW stream, NEW cut, NEW n, NEW d, AtHead(at, frames, stream, cut, n, d),
           NEW w, w \in 0 .. Len(stream), NEW piece, Piece(frames[n], d, w, piece)
    PROVE  StartsWith(stream, w, piece)
<1>1. /\ stream \in Bytes /\ Len(stream) \in Nat /\ w \in Nat /\ w <= Len(stream) /\ Len(frames[n]) \in Nat
      /\ n \in 1 .. Len(frames) /\ d \in Nat /\ at[n] + d = 0 /\ at[n] \in Int
  <2>1. Positions(at, frames, stream, cut) /\ n \in 1 .. Len(frames) /\ d \in Nat /\ at[n] + d = 0
    BY DEF AtHead
  <2>2. stream \in Bytes /\ frames \in Seq(Bytes) /\ Len(frames) \in Nat
    BY <2>1 DEF Positions
  <2>3. at[n] \in Int
    BY <2>1, <2>2 DEF Positions
  <2>4. frames[n] \in Bytes
    BY <2>1, <2>2
  <2>5. Len(stream) \in Nat /\ Len(frames[n]) \in Nat
    BY <2>2, <2>4 DEF Bytes
  <2> QED
    BY <2>1, <2>2, <2>3, <2>5
<1>2. First(stream, w) \in Bytes /\ Len(First(stream, w)) = w /\ \A i \in 1 .. w : First(stream, w)[i] = stream[i]
  BY <1>1, CutBytes
<1>3. piece \in Bytes /\ Len(piece) = w /\ d + w <= Len(frames[n]) /\ \A j \in 1 .. w : frames[n][d + j] = piece[j]
  BY DEF Piece
<1>4. ASSUME NEW j \in 1 .. w PROVE stream[j] = frames[n][d + j]
  <2> DEFINE p == at[n]
             size == Len(frames[n])
             all == Len(stream)
  <2>1. p \in Int /\ d \in Nat /\ size \in Nat /\ all \in Nat /\ w \in Nat /\ p + d = 0 /\ d + w <= size /\ w <= all
    BY <1>1, <1>3
  <2> HIDE DEF p, size, all
  <2>2. d + j \in 1 .. size /\ p + (d + j) = j /\ j \in 1 .. all
    BY <2>1
  <2>3. d + j \in 1 .. Len(frames[n]) /\ at[n] + (d + j) = j /\ j \in 1 .. Len(stream)
    BY <2>2 DEF p, size, all
  <2> QED
    BY <1>1, <2>3 DEF AtHead, Positions
<1>5. First(stream, w) = piece
  BY <1>2, <1>3, <1>4, SameBytes
<1> QED
  BY <1>5 DEF StartsWith

----------------------------------------------------------------------------
(* The server finds every header                                           *)

Request == [header : RequestHeader, chain : Bytes, payload : Bytes]

(* A request whose header tells its two lengths *)
Honest(r) == r \in Request /\ r.header.chain_len = Len(r.chain) /\ r.header.payload_len = Len(r.payload)

FrameBytes(r) == encode_request_header(r.header) \o r.chain \o r.payload

Frames(rs) == [n \in 1 .. Len(rs) |-> FrameBytes(rs[n])]

(* What send() is called with can be told by the length fields: the chain  *)
(* by 16 bits and the pixels by 32.                                        *)
LengthsFit ==
    /\ \A chain \in Chains : Len(chain) < U16
    /\ \A image \in Images : ByteCount(image) < U32

(* Three byte strings, one after the other *)
LEMMA ThreePieces ==
    ASSUME NEW a \in Bytes, NEW b \in Bytes, NEW c \in Bytes
    PROVE  /\ a \o b \o c \in Bytes /\ Len(a \o b \o c) = Len(a) + Len(b) + Len(c)
           /\ \A j \in 1 .. Len(a) : (a \o b \o c)[j] = a[j]
           /\ \A j \in 1 .. Len(b) : (a \o b \o c)[Len(a) + j] = b[j]
           /\ \A j \in 1 .. Len(c) : (a \o b \o c)[Len(a) + Len(b) + j] = c[j]
<1> DEFINE ab == a \o b
           abc == ab \o c
<1>1. Len(a) \in Nat /\ Len(b) \in Nat /\ Len(c) \in Nat
  BY DEF Bytes
<1>2. /\ ab \in Bytes /\ Len(ab) = Len(a) + Len(b)
      /\ \A i \in 1 .. Len(a) + Len(b) : ab[i] = IF i <= Len(a) THEN a[i] ELSE b[i - Len(a)]
  BY ConcatProperties DEF Bytes
<1> HIDE DEF ab
<1>3. /\ abc \in Bytes /\ Len(abc) = Len(ab) + Len(c)
      /\ \A i \in 1 .. Len(ab) + Len(c) : abc[i] = IF i <= Len(ab) THEN ab[i] ELSE c[i - Len(ab)]
  <2>1. ab \in Seq(0 .. Byte - 1) /\ c \in Seq(0 .. Byte - 1)
    BY <1>2 DEF Bytes
  <2> QED
    BY <2>1, ConcatProperties DEF Bytes
<1> HIDE DEF abc
<1>4. \A j \in 1 .. Len(a) : abc[j] = a[j]
  <2> TAKE j \in 1 .. Len(a)
  <2>1. j \in 1 .. Len(ab) + Len(c) /\ j <= Len(ab) /\ j \in 1 .. Len(a) + Len(b) /\ j <= Len(a)
    BY <1>1, <1>2
  <2> QED
    BY <1>2, <1>3, <2>1
<1>5. \A j \in 1 .. Len(b) : abc[Len(a) + j] = b[j]
  <2> TAKE j \in 1 .. Len(b)
  <2>1. /\ Len(a) + j \in 1 .. Len(ab) + Len(c) /\ Len(a) + j <= Len(ab) /\ Len(a) + j \in 1 .. Len(a) + Len(b)
        /\ ~(Len(a) + j <= Len(a)) /\ Len(a) + j - Len(a) = j
    BY <1>1, <1>2
  <2> QED
    BY <1>2, <1>3, <2>1
<1>6. \A j \in 1 .. Len(c) : abc[Len(a) + Len(b) + j] = c[j]
  <2> TAKE j \in 1 .. Len(c)
  <2>1. /\ Len(a) + Len(b) + j \in 1 .. Len(ab) + Len(c) /\ ~(Len(a) + Len(b) + j <= Len(ab))
        /\ Len(a) + Len(b) + j - Len(ab) = j
    BY <1>1, <1>2
  <2> QED
    BY <1>3, <2>1
<1>7. abc \in Bytes /\ Len(abc) = Len(a) + Len(b) + Len(c)
  BY <1>1, <1>2, <1>3
<1> QED
  BY <1>4, <1>5, <1>6, <1>7 DEF abc, ab

(* Where the header, the chain and the payload are in a frame *)
LEMMA FramePieces ==
    ASSUME NEW r, Honest(r)
    PROVE  /\ FrameBytes(r) \in Bytes /\ Len(FrameBytes(r)) = 25 + r.header.chain_len + r.header.payload_len
           /\ Piece(FrameBytes(r), 0, 25, encode_request_header(r.header))
           /\ Piece(FrameBytes(r), 25, r.header.chain_len, r.chain)
           /\ Piece(FrameBytes(r), 25 + r.header.chain_len, r.header.payload_len, r.payload)
<1> DEFINE a == encode_request_header(r.header)
<1>1. /\ r.header \in RequestHeader /\ r.chain \in Bytes /\ r.payload \in Bytes
      /\ r.header.chain_len = Len(r.chain) /\ r.header.payload_len = Len(r.payload)
  BY DEF Honest, Request
<1>2. a \in Bytes /\ Len(a) = 25
  BY <1>1, RequestRoundTrip DEF kRequestHeaderBytes
<1> HIDE DEF a
<1>3. FrameBytes(r) = a \o r.chain \o r.payload
  BY DEF FrameBytes, a
<1> DEFINE f == a \o r.chain \o r.payload
<1>4. /\ f \in Bytes /\ Len(f) = Len(a) + Len(r.chain) + Len(r.payload)
      /\ \A j \in 1 .. Len(a) : f[j] = a[j]
      /\ \A j \in 1 .. Len(r.chain) : f[Len(a) + j] = r.chain[j]
      /\ \A j \in 1 .. Len(r.payload) : f[Len(a) + Len(r.chain) + j] = r.payload[j]
  BY <1>1, <1>2, ThreePieces
<1>5. FrameBytes(r) = f
  BY <1>3
<1> HIDE DEF f
<1> DEFINE x == Len(r.chain)
           y == Len(r.payload)
           z == Len(f)
<1>6. x \in Nat /\ y \in Nat
  BY <1>1 DEF Bytes
<1>7. z = 25 + x + y
  BY <1>2, <1>4
<1>8. 0 + 25 <= z /\ 25 + x <= z /\ 25 + x + y <= z
  <2> HIDE DEF x, y, z
  <2> QED
    BY <1>6, <1>7
<1>9. Piece(f, 0, 25, a)
  <2>1. \A j \in 1 .. 25 : 0 + j = j
    OBVIOUS
  <2>2. \A j \in 1 .. 25 : f[0 + j] = a[j]
    BY <1>2, <1>4, <2>1
  <2> QED
    BY <1>2, <1>8, <2>2 DEF Piece
<1>10. Piece(f, 25, Len(r.chain), r.chain)
  <2>1. \A j \in 1 .. Len(r.chain) : f[25 + j] = r.chain[j]
    BY <1>2, <1>4
  <2> QED
    BY <1>1, <1>8, <2>1 DEF Piece
<1>11. Piece(f, 25 + Len(r.chain), Len(r.payload), r.payload)
  <2>1. \A j \in 1 .. Len(r.payload) : f[25 + Len(r.chain) + j] = r.payload[j]
    BY <1>2, <1>4
  <2> QED
    BY <1>1, <1>8, <2>1 DEF Piece
<1> QED
  BY <1>1, <1>4, <1>5, <1>7, <1>9, <1>10, <1>11 DEF a

(* Where the reader is in the stream of frames *)
ReaderPlace(at) ==
    /\ rpc = "header" => at[taken + 1] = 0
    /\ rpc = "chain" => at[taken] + 25 = 0
    /\ rpc = "payload" => at[taken] + (25 + header.chain_len) = 0
    /\ rpc = "drain" => at[taken + 1] = unread

(* Frame n starts at[n] bytes after the reader's position. *)
Upstream(at) == Positions(at, Frames(requests), upstream, hung_up) /\ ReaderPlace(at)

(* The invariant of the requests' way: what the client sent, as it sent    *)
(* it, lies on the stream, and the reader stands where its state says      *)
StreamInv ==
    /\ ReaderInv
    /\ \A n \in 1 .. Len(requests) : Honest(requests[n])
    /\ taken \in 0 .. Len(requests)
    /\ taken > 0 => header = requests[taken].header
    /\ rpc \in {"chain", "payload"} => taken > 0
    /\ \E at : Upstream(at)

(* The frames of a sequence of honest requests *)
LEMMA FramesAre ==
    ASSUME NEW rs \in Seq(Request), \A n \in 1 .. Len(rs) : Honest(rs[n])
    PROVE  /\ Frames(rs) \in Seq(Bytes) /\ Len(Frames(rs)) = Len(rs) /\ Len(rs) \in Nat
           /\ \A n \in 1 .. Len(rs) : Frames(rs)[n] = FrameBytes(rs[n])
<1>1. \A n \in 1 .. Len(rs) : FrameBytes(rs[n]) \in Bytes
  BY FramePieces
<1>2. Len(rs) \in Nat
  OBVIOUS
<1>3. Frames(rs) \in [1 .. Len(rs) -> Bytes]
  BY <1>1 DEF Frames
<1>4. Frames(rs) \in Seq(Bytes) /\ Len(Frames(rs)) = Len(rs)
  BY <1>2, <1>3, SeqDef, LenProperties
<1> QED
  BY <1>2, <1>4 DEF Frames

(* The frames upstream, one by one *)
LEMMA UpstreamFacts ==
    ASSUME StreamInv, NEW at, Upstream(at)
    PROVE  /\ Len(requests) \in Nat /\ taken \in Nat /\ taken <= Len(requests) /\ Len(upstream) \in Nat
           /\ Len(Frames(requests)) = Len(requests)
           /\ \A n \in 1 .. Len(requests) : Frames(requests)[n] = FrameBytes(requests[n])
           /\ \A n \in 1 .. Len(requests) + 1 : at[n] \in Int
           /\ \A n \in 1 .. Len(requests) :
                 at[n + 1] = at[n] + (25 + requests[n].header.chain_len + requests[n].header.payload_len)
           /\ \A n \in 1 .. Len(requests) :
                 requests[n].header.chain_len \in Nat /\ requests[n].header.payload_len \in Nat
           /\ Len(upstream) <= at[Len(requests) + 1]
           /\ ~hung_up => Len(upstream) = at[Len(requests) + 1]
<1> DEFINE F == Frames(requests)
<1>1. requests \in Seq(Request) /\ upstream \in Bytes
  BY DEF StreamInv, ReaderInv, Request
<1>2. /\ F \in Seq(Bytes) /\ Len(F) = Len(requests) /\ Len(requests) \in Nat
      /\ \A n \in 1 .. Len(requests) : F[n] = FrameBytes(requests[n])
  BY <1>1, FramesAre DEF StreamInv
<1> HIDE DEF F
<1>3. Positions(at, F, upstream, hung_up)
  BY DEF Upstream, F
<1>4. ASSUME NEW n \in 1 .. Len(requests)
      PROVE  /\ requests[n].header.chain_len \in Nat /\ requests[n].header.payload_len \in Nat
             /\ Len(F[n]) = 25 + requests[n].header.chain_len + requests[n].header.payload_len
  <2>1. Honest(requests[n])
    BY DEF StreamInv
  <2>2. requests[n].header \in RequestHeader
    BY <2>1 DEF Honest, Request
  <2>3. requests[n].header.chain_len \in Nat /\ requests[n].header.payload_len \in Nat
    BY <2>2, Words DEF RequestHeader
  <2> QED
    BY <1>2, <2>1, <2>3, FramePieces
<1>5. \A n \in 1 .. Len(requests) + 1 : at[n] \in Int
  BY <1>2, <1>3 DEF Positions
<1>6. ASSUME NEW n \in 1 .. Len(requests)
      PROVE  at[n + 1] = at[n] + (25 + requests[n].header.chain_len + requests[n].header.payload_len)
  <2>1. at[n + 1] = at[n] + Len(F[n])
    BY <1>2, <1>3 DEF Positions
  <2>2. at[n] \in Int
    BY <1>2, <1>5
  <2>3. /\ requests[n].header.chain_len \in Nat /\ requests[n].header.payload_len \in Nat
        /\ Len(F[n]) = 25 + requests[n].header.chain_len + requests[n].header.payload_len
    BY <1>4
  <2> QED
    BY <2>1, <2>2, <2>3
<1>7. Len(upstream) <= at[Len(requests) + 1] /\ (~hung_up => Len(upstream) = at[Len(requests) + 1])
  BY <1>2, <1>3 DEF Positions
<1>8. Len(upstream) \in Nat /\ taken \in Nat /\ taken <= Len(requests)
  BY <1>1, <1>2 DEF Bytes, StreamInv
<1> QED
  BY <1>2, <1>4, <1>5, <1>6, <1>7, <1>8 DEF F

(* A piece of the frame at the head of the stream *)
LEMMA UpstreamPiece ==
    ASSUME StreamInv, NEW at, Upstream(at), NEW n, n \in 1 .. Len(requests), NEW d, d \in Nat, at[n] + d = 0,
           NEW w, w \in 0 .. Len(upstream), NEW piece, Piece(FrameBytes(requests[n]), d, w, piece)
    PROVE  StartsWith(upstream, w, piece)
<1> DEFINE F == Frames(requests)
<1>1. n \in 1 .. Len(F) /\ F[n] = FrameBytes(requests[n])
  BY UpstreamFacts
<1>2. Piece(F[n], d, w, piece)
  BY <1>1
<1>3. AtHead(at, F, upstream, hung_up, n, d)
  BY <1>1 DEF Upstream, AtHead
<1> HIDE DEF F
<1> QED
  BY <1>2, <1>3, PieceRead

(* ReadHeader finds the next header. *)
LEMMA HeaderRead ==
    ASSUME StreamInv, ReadHeader, NEW at, Upstream(at)
    PROVE  /\ taken' = taken + 1 /\ taken + 1 \in 1 .. Len(requests) /\ header' = requests[taken + 1].header
           /\ at[taken + 1] = 0 /\ 25 \in 0 .. Len(upstream) /\ upstream' = Rest(upstream, 25)
<1>1. /\ rpc = "header" /\ Consume /\ taken' = taken + 1
      /\ header' = decode_request_header(First(upstream, kRequestHeaderBytes))
  BY DEF ReadHeader
<1>2. Wanted = 25
  BY <1>1 DEF Wanted, kRequestHeaderBytes
<1>3. Len(upstream) >= 25 /\ upstream' = Rest(upstream, 25)
  BY <1>1, <1>2 DEF Consume
<1>4. at[taken + 1] = 0
  BY <1>1 DEF Upstream, ReaderPlace
<1>5. taken + 1 \in 1 .. Len(requests)
  <2>1. taken # Len(requests)
    BY <1>3, <1>4, UpstreamFacts
  <2> QED
    BY <2>1, UpstreamFacts
<1> DEFINE r == requests[taken + 1]
<1>6. Honest(r) /\ r.header \in RequestHeader
  BY <1>5 DEF StreamInv, Honest, Request
<1>7. 25 \in 0 .. Len(upstream)
  BY <1>3, UpstreamFacts
<1>8. First(upstream, 25) = encode_request_header(r.header)
  <2> DEFINE piece == encode_request_header(r.header)
             n == taken + 1
             d == 0
             w == 25
  <2>1. Piece(FrameBytes(requests[n]), d, w, piece)
    BY <1>6, FramePieces
  <2>2. at[n] + d = 0 /\ d \in Nat
    BY <1>4
  <2>3. n \in 1 .. Len(requests) /\ w \in 0 .. Len(upstream)
    BY <1>5, <1>7
  <2> HIDE DEF piece, n, w, d
  <2>4. StartsWith(upstream, w, piece)
    BY <2>1, <2>2, <2>3, UpstreamPiece
  <2> QED
    BY <2>4 DEF piece, w, StartsWith
<1>9. header' = r.header
  BY <1>1, <1>6, <1>8, RequestRoundTrip DEF kRequestHeaderBytes
<1> QED
  BY <1>1, <1>3, <1>4, <1>5, <1>7, <1>9

(* ReadChain finds the chain of the frame whose header was read. *)
LEMMA ChainRead ==
    ASSUME StreamInv, ReadChain, NEW at, Upstream(at)
    PROVE  /\ taken \in 1 .. Len(requests) /\ header = requests[taken].header /\ Wanted = header.chain_len
           /\ First(upstream, Wanted) = requests[taken].chain
           /\ at[taken] + 25 = 0 /\ Wanted \in 0 .. Len(upstream) /\ upstream' = Rest(upstream, Wanted)
<1>1. rpc = "chain" /\ Consume
  BY DEF ReadChain
<1>2. Wanted = header.chain_len
  BY <1>1 DEF Wanted
<1>3. at[taken] + 25 = 0
  BY <1>1 DEF Upstream, ReaderPlace
<1>4. taken \in 1 .. Len(requests) /\ header = requests[taken].header
  BY <1>1, UpstreamFacts DEF StreamInv
<1> DEFINE r == requests[taken]
           w == header.chain_len
           d == 25
<1>5. Honest(r)
  BY <1>4 DEF StreamInv
<1>6. w \in Nat /\ w \in 0 .. Len(upstream) /\ upstream' = Rest(upstream, Wanted)
  BY <1>1, <1>2, <1>4, UpstreamFacts DEF Consume
<1>7. Piece(FrameBytes(r), d, w, r.chain)
  BY <1>4, <1>5, FramePieces
<1>8. at[taken] + d = 0 /\ d \in Nat
  BY <1>3
<1>9. StartsWith(upstream, w, r.chain)
  <2> HIDE DEF w, d
  <2> QED
    BY <1>4, <1>6, <1>7, <1>8, UpstreamPiece
<1> QED
  BY <1>2, <1>3, <1>4, <1>6, <1>9 DEF StartsWith

(* ReadPayload finds its payload. *)
LEMMA PayloadRead ==
    ASSUME StreamInv, ReadPayload, NEW at, Upstream(at)
    PROVE  /\ taken \in 1 .. Len(requests) /\ header = requests[taken].header /\ Wanted = header.payload_len
           /\ First(upstream, Wanted) = requests[taken].payload
           /\ at[taken] + (25 + header.chain_len) = 0
           /\ Wanted \in 0 .. Len(upstream) /\ upstream' = Rest(upstream, Wanted)
<1>1. rpc = "payload" /\ Consume
  BY DEF ReadPayload
<1>2. Wanted = header.payload_len
  BY <1>1 DEF Wanted
<1>3. at[taken] + (25 + header.chain_len) = 0
  BY <1>1 DEF Upstream, ReaderPlace
<1>4. taken \in 1 .. Len(requests) /\ header = requests[taken].header
  BY <1>1, UpstreamFacts DEF StreamInv
<1> DEFINE r == requests[taken]
           w == header.payload_len
           d == 25 + header.chain_len
<1>5. Honest(r)
  BY <1>4 DEF StreamInv
<1>6. w \in Nat /\ w \in 0 .. Len(upstream) /\ upstream' = Rest(upstream, Wanted) /\ d \in Nat
  BY <1>1, <1>2, <1>4, UpstreamFacts DEF Consume
<1>7. Piece(FrameBytes(r), d, w, r.payload)
  BY <1>4, <1>5, FramePieces
<1>8. at[taken] + d = 0
  BY <1>3
<1>9. StartsWith(upstream, w, r.payload)
  <2> HIDE DEF w, d
  <2> QED
    BY <1>4, <1>6, <1>7, <1>8, UpstreamPiece
<1> QED
  BY <1>2, <1>3, <1>4, <1>6, <1>9 DEF StartsWith

(* The initial state *)
LEMMA StreamInit == Init => StreamInv
<1> SUFFICES ASSUME Init PROVE StreamInv
  OBVIOUS
<1> DEFINE at == [n \in 1 .. 1 |-> 0]
<1>1. ReaderInv
  BY InvInit
<1>2. requests = <<>> /\ upstream = <<>> /\ hung_up = FALSE /\ rpc = "header" /\ taken = 0
  BY DEF Init
<1>3. Len(requests) = 0 /\ Len(upstream) = 0
  BY <1>2
<1>4. Frames(requests) \in Seq(Bytes) /\ Len(Frames(requests)) = 0
  <2>1. requests \in Seq(Request) /\ \A n \in 1 .. Len(requests) : Honest(requests[n])
    BY <1>1, <1>3 DEF ReaderInv, Request
  <2> QED
    BY <1>3, <2>1, FramesAre
<1>5. at \in [1 .. 1 -> Int] /\ at[1] = 0
  OBVIOUS
<1> HIDE DEF at
<1>6. Positions(at, Frames(requests), upstream, hung_up)
  BY <1>1, <1>3, <1>4, <1>5 DEF Positions, ReaderInv
<1>7. ReaderPlace(at)
  BY <1>2, <1>5 DEF ReaderPlace
<1> QED
  BY <1>1, <1>2, <1>3, <1>6, <1>7 DEF StreamInv, Upstream

(* The reader takes w bytes. *)
LEMMA UpstreamRead ==
    ASSUME StreamInv, NEW at, Upstream(at), NEW w, w \in 0 .. Len(upstream), upstream' = Rest(upstream, w),
           UNCHANGED <<requests, hung_up>>
    PROVE  \E to : /\ Positions(to, Frames(requests'), upstream', hung_up')
                   /\ \A n \in 1 .. Len(requests) + 1 : to[n] = at[n] - w
<1> DEFINE F == Frames(requests)
           to == [n \in 1 .. Len(F) + 1 |-> at[n] - w]
<1>1. Len(F) = Len(requests)
  BY UpstreamFacts
<1>2. Positions(at, F, upstream, hung_up)
  BY DEF Upstream
<1>3. Positions(to, F, Rest(upstream, w), hung_up)
  <2> HIDE DEF F
  <2> QED
    BY <1>2, PositionsRead
<1>4. Positions(to, Frames(requests'), upstream', hung_up')
  BY <1>3
<1>5. \A n \in 1 .. Len(requests) + 1 : to[n] = at[n] - w
  <2> HIDE DEF F
  <2> QED
    BY <1>1
<1> HIDE DEF to
<1> QED
  BY <1>4, <1>5

(* A reader's step, once it is known where it leaves the reader *)
LEMMA StreamRead ==
    ASSUME StreamInv, ReaderInv', UNCHANGED <<requests, hung_up>>,
           taken' \in 0 .. Len(requests), taken' > 0 => header' = requests[taken'].header,
           rpc' \in {"chain", "payload"} => taken' > 0,
           NEW to, Positions(to, Frames(requests'), upstream', hung_up'),
           rpc' = "header" => to[taken' + 1] = 0,
           rpc' = "chain" => to[taken'] + 25 = 0,
           rpc' = "payload" => to[taken'] + (25 + header'.chain_len) = 0,
           rpc' = "drain" => to[taken' + 1] = unread'
    PROVE  StreamInv'
<1>1. Upstream(to)'
  BY DEF Upstream, ReaderPlace
<1>2. (\E at : Upstream(at))'
  BY <1>1
<1>3. (\A n \in 1 .. Len(requests) : Honest(requests[n]))'
  BY DEF StreamInv, Honest
<1> QED
  BY <1>2, <1>3 DEF StreamInv

(* Reading a header *)
LEMMA StreamReadHeader == ASSUME StreamInv, ReadHeader PROVE StreamInv'
<1>1. PICK at : Upstream(at)
  BY DEF StreamInv
<1>2. ReaderInv'
  BY InvReadHeader DEF StreamInv
<1>3. /\ taken' = taken + 1 /\ taken + 1 \in 1 .. Len(requests) /\ header' = requests[taken + 1].header
      /\ at[taken + 1] = 0 /\ 25 \in 0 .. Len(upstream) /\ upstream' = Rest(upstream, 25)
  BY <1>1, HeaderRead
<1>4. UNCHANGED <<requests, hung_up>> /\ rpc' \in {"chain", "drain", "done"}
      /\ unread' = header'.chain_len + header'.payload_len
  BY DEF ReadHeader, Reject, client
<1>5. PICK to : /\ Positions(to, Frames(requests'), upstream', hung_up')
                /\ \A n \in 1 .. Len(requests) + 1 : to[n] = at[n] - 25
  BY <1>1, <1>3, <1>4, UpstreamRead
<1> DEFINE n == taken + 1
           c == header'.chain_len
           p == header'.payload_len
<1>6. /\ n \in 1 .. Len(requests) + 1 /\ n + 1 \in 1 .. Len(requests) + 1 /\ n \in Nat
      /\ n \in 0 .. Len(requests) /\ n > 0
  BY <1>1, <1>3, UpstreamFacts
<1>7. at[n + 1] = at[n] + (25 + c + p) /\ c \in Nat /\ p \in Nat
  BY <1>1, <1>3, UpstreamFacts
<1>8. to[n] = at[n] - 25 /\ to[n + 1] = at[n + 1] - 25 /\ at[n] = 0 /\ unread' = c + p /\ taken' = n
  BY <1>3, <1>4, <1>5, <1>6
<1>9. header' = requests[n].header
  BY <1>3
<1> HIDE DEF n, c, p
<1>10. to[n] + 25 = 0 /\ to[n + 1] = c + p
  BY <1>7, <1>8
<1>11. taken' \in 0 .. Len(requests) /\ taken' > 0 /\ header' = requests[taken'].header
  BY <1>6, <1>8, <1>9
<1>12. to[taken'] + 25 = 0 /\ to[taken' + 1] = unread'
  BY <1>8, <1>10
<1> QED
  BY <1>2, <1>4, <1>5, <1>11, <1>12, StreamRead

(* Reading the op chain *)
LEMMA StreamReadChain == ASSUME StreamInv, ReadChain PROVE StreamInv'
<1>1. PICK at : Upstream(at)
  BY DEF StreamInv
<1>2. ReaderInv'
  BY InvReadChain DEF StreamInv
<1>3. /\ taken \in 1 .. Len(requests) /\ header = requests[taken].header /\ Wanted = header.chain_len
      /\ at[taken] + 25 = 0 /\ Wanted \in 0 .. Len(upstream) /\ upstream' = Rest(upstream, Wanted)
  BY <1>1, ChainRead
<1>4. /\ UNCHANGED <<requests, hung_up, taken, header>> /\ rpc' \in {"payload", "drain", "done"}
      /\ unread' = unread - header.chain_len /\ rpc = "chain"
  BY DEF ReadChain, Reject, client, AfterChain
<1>5. PICK to : /\ Positions(to, Frames(requests'), upstream', hung_up')
                /\ \A n \in 1 .. Len(requests) + 1 : to[n] = at[n] - Wanted
  BY <1>1, <1>3, <1>4, UpstreamRead
<1> DEFINE c == header.chain_len
           p == header.payload_len
<1>6. /\ taken \in 1 .. Len(requests) + 1 /\ taken + 1 \in 1 .. Len(requests) + 1
      /\ taken \in 0 .. Len(requests) /\ taken > 0
  BY <1>1, <1>3, UpstreamFacts
<1>7. at[taken + 1] = at[taken] + (25 + c + p) /\ c \in Nat /\ p \in Nat /\ at[taken] \in Int
  BY <1>1, <1>3, <1>6, UpstreamFacts
<1>8. to[taken] = at[taken] - c /\ to[taken + 1] = at[taken + 1] - c
  BY <1>3, <1>5, <1>6
<1>9. unread' = (c + p) - c
  BY <1>4 DEF StreamInv, ReaderInv
<1> HIDE DEF c, p
<1>10. to[taken] + (25 + c) = 0 /\ to[taken + 1] = p /\ unread' = p
  BY <1>3, <1>7, <1>8, <1>9
<1>11. to[taken'] + (25 + header'.chain_len) = 0 /\ to[taken' + 1] = unread'
  BY <1>4, <1>10 DEF c
<1>12. taken' \in 0 .. Len(requests) /\ taken' > 0 /\ header' = requests[taken'].header
  BY <1>3, <1>4, <1>6
<1> QED
  BY <1>2, <1>4, <1>5, <1>11, <1>12, StreamRead

(* Reading the payload *)
LEMMA StreamReadPayload == ASSUME StreamInv, ReadPayload PROVE StreamInv'
<1>1. PICK at : Upstream(at)
  BY DEF StreamInv
<1>2. ReaderInv'
  BY InvReadPayload DEF StreamInv
<1>3. /\ taken \in 1 .. Len(requests) /\ header = requests[taken].header /\ Wanted = header.payload_len
      /\ at[taken] + (25 + header.chain_len) = 0
      /\ Wanted \in 0 .. Len(upstream) /\ upstream' = Rest(upstream, Wanted)
  BY <1>1, PayloadRead
<1>4. UNCHANGED <<requests, hung_up, taken, header>> /\ rpc' = "header"
  BY DEF ReadPayload, client
<1>5. PICK to : /\ Positions(to, Frames(requests'), upstream', hung_up')
                /\ \A n \in 1 .. Len(requests) + 1 : to[n] = at[n] - Wanted
  BY <1>1, <1>3, <1>4, UpstreamRead
<1> DEFINE c == header.chain_len
           p == header.payload_len
<1>6. /\ taken \in 1 .. Len(requests) + 1 /\ taken + 1 \in 1 .. Len(requests) + 1
      /\ taken \in 0 .. Len(requests) /\ taken > 0
  BY <1>1, <1>3, UpstreamFacts
<1>7. at[taken + 1] = at[taken] + (25 + c + p) /\ c \in Nat /\ p \in Nat /\ at[taken] \in Int
  BY <1>1, <1>3, <1>6, UpstreamFacts
<1>8. to[taken + 1] = at[taken + 1] - p /\ at[taken] + (25 + c) = 0
  BY <1>3, <1>5, <1>6
<1> HIDE DEF c, p
<1>9. to[taken + 1] = 0
  BY <1>7, <1>8
<1>10. to[taken' + 1] = 0
  BY <1>4, <1>9
<1>11. taken' \in 0 .. Len(requests) /\ taken' > 0 /\ header' = requests[taken'].header
  BY <1>3, <1>4, <1>6
<1> QED
  BY <1>2, <1>4, <1>5, <1>10, <1>11, StreamRead

(* Draining ends at the next frame. *)
LEMMA StreamDrain == ASSUME StreamInv, drain_exactly PROVE StreamInv'
<1>1. PICK at : Upstream(at)
  BY DEF StreamInv
<1>2. ReaderInv'
  BY InvDrain DEF StreamInv
<1>3. /\ rpc = "drain" /\ rpc' = "header" /\ UNCHANGED <<requests, hung_up, taken, header>> /\ Wanted = unread
      /\ Len(upstream) >= Wanted /\ upstream' = Rest(upstream, Wanted)
  BY DEF drain_exactly, client, Consume, Wanted
<1>4. Wanted \in 0 .. Len(upstream) /\ Wanted \in Nat
  BY <1>1, <1>3, UpstreamFacts DEF StreamInv, ReaderInv
<1>5. PICK to : /\ Positions(to, Frames(requests'), upstream', hung_up')
                /\ \A n \in 1 .. Len(requests) + 1 : to[n] = at[n] - Wanted
  BY <1>1, <1>3, <1>4, UpstreamRead
<1>6. taken + 1 \in 1 .. Len(requests) + 1 /\ taken \in 0 .. Len(requests)
  BY <1>1, UpstreamFacts
<1>7. at[taken + 1] = Wanted
  BY <1>1, <1>3 DEF Upstream, ReaderPlace
<1>8. to[taken' + 1] = 0
  BY <1>3, <1>4, <1>5, <1>6, <1>7
<1>9. taken' \in 0 .. Len(requests) /\ (taken' > 0 => header' = requests[taken'].header)
  BY <1>3, <1>6 DEF StreamInv
<1> QED
  BY <1>2, <1>3, <1>5, <1>8, <1>9, StreamRead

(* What send writes tells its lengths, as long as they fit. *)
LEMMA SendIsHonest ==
    ASSUME ReaderInv, LengthsFit, NEW image \in Images, NEW chain \in Chains, NEW flags \in Flags,
           send(image, chain, flags)
    PROVE  \E request : /\ Honest(request) /\ WriteFrame(request) /\ ByteCount(request.header) \in Nat
                        /\ ByteCount(request.header) < U32 /\ request.header.seq_num = next_seq_num
                        /\ next_seq_num' = (next_seq_num + 1) % U32
<1>1. PICK request \in Request :
               /\ WriteFrame(request) /\ request.header.seq_num = next_seq_num
               /\ request.chain = chain /\ request.header.chain_len = Len(chain) % U16
               /\ Len(request.payload) = ByteCount(image) /\ request.header.payload_len = ByteCount(image) % U32
               /\ ByteCount(request.header) = ByteCount(image) /\ ByteCount(image) \in Nat
               /\ next_seq_num' = (next_seq_num + 1) % U32
  BY SendWrites DEF Request
<1>2. Len(chain) < U16 /\ ByteCount(image) < U32
  BY DEF LengthsFit
<1>3. Len(chain) \in Nat
  BY FramingAssumption DEF Bytes
<1>4. ASSUME NEW a \in Nat, NEW m \in Nat, a < m PROVE a % m = a
  BY <1>4
<1>5. Len(chain) % U16 = Len(chain) /\ ByteCount(image) % U32 = ByteCount(image)
  BY <1>1, <1>2, <1>3, <1>4, Words
<1>6. Honest(request)
  BY <1>1, <1>5 DEF Honest
<1> QED
  BY <1>1, <1>2, <1>6

(* A raw frame keeps its lengths when it is numbered. *)
LEMMA SendRawIsHonest ==
    ASSUME ReaderInv, NEW raw \in RawRequests, NEW seq \in {next_seq_num, (next_seq_num + 1) % U32},
           send_raw(raw, seq)
    PROVE  \E request : /\ Honest(request) /\ WriteFrame(request)
                        /\ ByteCount(request.header) = ByteCount(raw.header) /\ request.header.seq_num = seq
<1> DEFINE request == [raw EXCEPT !.header.seq_num = seq]
<1>1. seq \in 0 .. U32 - 1
  BY Words DEF ReaderInv
<1>2. raw \in Request /\ raw.header.chain_len = Len(raw.chain) /\ raw.header.payload_len = Len(raw.payload)
  BY FramingAssumption DEF Request
<1>3. request \in Request
  BY <1>1, <1>2 DEF RequestHeader, Request
<1>4. /\ request.chain = raw.chain /\ request.payload = raw.payload
      /\ request.header.chain_len = raw.header.chain_len /\ request.header.payload_len = raw.header.payload_len
      /\ request.header.seq_num = seq
      /\ request.header.width = raw.header.width /\ request.header.height = raw.header.height
      /\ request.header.channels = raw.header.channels
  BY <1>2 DEF Request, RequestHeader
<1>5. WriteFrame(request)
  BY DEF send_raw
<1> HIDE DEF request
<1>6. Honest(request)
  BY <1>2, <1>3, <1>4 DEF Honest
<1>7. ByteCount(request.header) = ByteCount(raw.header)
  BY <1>4 DEF ByteCount
<1> QED
  BY <1>4, <1>5, <1>6, <1>7

(* Byte strings may be put together in any grouping. *)
LEMMA Regroup == \A a, b, c \in Bytes : (a \o b) \o c = a \o (b \o c)
  BY ConcatAssociative DEF Bytes

(* A frame is written behind the others. *)
LEMMA StreamWrite ==
    ASSUME StreamInv, ReaderInv', NEW request, Honest(request), WriteFrame(request)
    PROVE  StreamInv'
<1> DEFINE F == Frames(requests)
           f == FrameBytes(request)
           m == Len(requests)
<1>1. PICK at : Upstream(at)
  BY DEF StreamInv
<1>2. /\ requests' = Append(requests, request) /\ ~hung_up /\ UNCHANGED <<hung_up, rpc, header, unread, taken>>
      /\ upstream' = upstream \o encode_request_header(request.header) \o request.chain \o request.payload
  BY DEF WriteFrame, server
<1>3. requests \in Seq(Request) /\ request \in Request /\ upstream \in Bytes /\ m \in Nat
  BY DEF StreamInv, ReaderInv, Request, Honest
<1>4. f \in Bytes
  BY FramePieces
<1>5. upstream' = upstream \o f
  <2> DEFINE a == encode_request_header(request.header)
  <2>1. a \in Bytes /\ request.chain \in Bytes /\ request.payload \in Bytes
    BY <1>3, RequestRoundTrip DEF Request
  <2>2. upstream' = upstream \o a \o request.chain \o request.payload /\ f = a \o request.chain \o request.payload
    BY <1>2 DEF FrameBytes
  <2> HIDE DEF a, f
  <2>3. a \o request.chain \in Bytes
    BY <2>1, Concat
  <2>4. upstream \o a \o request.chain = upstream \o (a \o request.chain)
    BY <1>3, <2>1, Regroup
  <2>5. upstream \o (a \o request.chain) \o request.payload = upstream \o (a \o request.chain \o request.payload)
    BY <1>3, <2>1, <2>3, Regroup
  <2> QED
    BY <2>2, <2>4, <2>5
<1>6. /\ requests' \in Seq(Request) /\ Len(requests') = m + 1 /\ requests'[m + 1] = request
      /\ \A n \in 1 .. m : requests'[n] = requests[n]
  BY <1>2, <1>3, AppendProperties
<1>7. \A n \in 1 .. Len(requests') : Honest(requests'[n])
  <2> TAKE n \in 1 .. Len(requests')
  <2>1. n \in 1 .. m \/ n = m + 1
    BY <1>3, <1>6
  <2> QED
    BY <1>6, <2>1 DEF StreamInv
<1>8. F \in Seq(Bytes) /\ Len(F) = m /\ \A n \in 1 .. m : F[n] = FrameBytes(requests[n])
  BY <1>3, FramesAre DEF StreamInv
<1>9. Frames(requests') = Append(F, f)
  <2>1. /\ Frames(requests') \in Seq(Bytes) /\ Len(Frames(requests')) = m + 1
        /\ \A n \in 1 .. m + 1 : Frames(requests')[n] = FrameBytes(requests'[n])
    BY <1>6, <1>7, FramesAre
  <2> HIDE DEF F, f
  <2>2. /\ Append(F, f) \in Seq(Bytes) /\ Len(Append(F, f)) = m + 1 /\ Append(F, f)[m + 1] = f
        /\ \A n \in 1 .. m : Append(F, f)[n] = F[n]
    BY <1>4, <1>8, AppendProperties
  <2>3. \A n \in 1 .. m + 1 : Frames(requests')[n] = Append(F, f)[n]
    <3> TAKE n \in 1 .. m + 1
    <3>1. n \in 1 .. m \/ n = m + 1
      BY <1>3
    <3> QED
      BY <1>6, <1>8, <2>1, <2>2, <3>1 DEF f
  <2> QED
    BY <2>1, <2>2, <2>3, SeqEqual
<1>10. Positions(at, F, upstream, FALSE)
  BY <1>1, <1>2 DEF Upstream, Positions
<1> HIDE DEF F, f
<1>11. PICK to : Positions(to, Append(F, f), upstream \o f, FALSE) /\ \A n \in 1 .. m + 1 : to[n] = at[n]
  <2> DEFINE to == [n \in 1 .. Len(F) + 2 |-> IF n = Len(F) + 2 THEN at[Len(F) + 1] + Len(f) ELSE at[n]]
  <2>1. Positions(to, Append(F, f), upstream \o f, FALSE)
    BY <1>4, <1>10, PositionsWrite
  <2>2. \A n \in 1 .. m + 1 : n \in 1 .. Len(F) + 2 /\ n # Len(F) + 2
    BY <1>3, <1>8
  <2>3. \A n \in 1 .. m + 1 : to[n] = at[n]
    BY <2>2
  <2> HIDE DEF to
  <2> QED
    BY <2>1, <2>3
<1>12. \A n \in 1 .. m + 1 : to[n] = at[n]
  BY <1>11
<1>13. Positions(to, Frames(requests'), upstream', hung_up')
  BY <1>2, <1>5, <1>9, <1>11 DEF Positions
<1>14. taken \in 0 .. m /\ taken + 1 \in 1 .. m + 1 /\ (taken > 0 => taken \in 1 .. m /\ taken \in 1 .. m + 1)
  BY <1>3 DEF StreamInv
<1>15. ReaderPlace(to)'
  BY <1>1, <1>2, <1>12, <1>14 DEF ReaderPlace, Upstream, StreamInv
<1>16. taken' \in 0 .. Len(requests') /\ (taken' > 0 => header' = requests'[taken'].header)
  <2>1. taken \in 0 .. m + 1
    BY <1>3, <1>14
  <2> QED
    BY <1>2, <1>6, <1>14, <2>1 DEF StreamInv
<1>17. (\E x : Upstream(x))'
  BY <1>13, <1>15 DEF Upstream
<1>18. rpc' \in {"chain", "payload"} => taken' > 0
  BY <1>2 DEF StreamInv
<1> QED
  BY <1>7, <1>16, <1>17, <1>18 DEF StreamInv

(* The invariant rests on these variables only. *)
LEMMA StreamUnchanged ==
    ASSUME StreamInv, ReaderInv', UNCHANGED <<requests, upstream, hung_up, rpc, header, unread, taken>>
    PROVE  StreamInv'
<1>1. PICK at : Upstream(at)
  BY DEF StreamInv
<1>2. Upstream(at)'
  BY <1>1 DEF Upstream, ReaderPlace
<1>3. (\E x : Upstream(x))'
  BY <1>2
<1> QED
  BY <1>3 DEF StreamInv, Honest

(* Every step keeps the invariant. *)
LEMMA StreamNext == LengthsFit /\ StreamInv /\ [Next]_vars => StreamInv'
<1> SUFFICES ASSUME LengthsFit, StreamInv, [Next]_vars PROVE StreamInv'
  OBVIOUS
<1>1. ReaderInv /\ ReaderInv'
  BY InvNext DEF StreamInv
<1>2. ASSUME NEW image \in Images, NEW chain \in Chains, NEW flags \in Flags, send(image, chain, flags)
      PROVE  StreamInv'
  BY <1>1, <1>2, SendIsHonest, StreamWrite
<1>3. ASSUME NEW raw \in RawRequests, NEW seq \in {next_seq_num, (next_seq_num + 1) % U32}, send_raw(raw, seq)
      PROVE  StreamInv'
  BY <1>1, <1>3, SendRawIsHonest, StreamWrite
<1>4. CASE receive
  BY <1>1, <1>4, StreamUnchanged DEF receive, server
<1>5. CASE HangUp
  <2>1. PICK at : Upstream(at)
    BY DEF StreamInv
  <2>2. PICK w \in 0 .. Len(upstream) : upstream' = First(upstream, w)
    BY <1>5 DEF HangUp
  <2>3. hung_up' = TRUE /\ UNCHANGED <<requests, rpc, header, unread, taken>>
    BY <1>5 DEF HangUp, server
  <2>4. Positions(at, Frames(requests), First(upstream, w), TRUE)
    BY <2>1, PositionsCut DEF Upstream
  <2>5. Upstream(at)'
    BY <2>1, <2>2, <2>3, <2>4 DEF Upstream, ReaderPlace
  <2>6. (\E x : Upstream(x))'
    BY <2>5
  <2> QED
    BY <1>1, <2>3, <2>6 DEF StreamInv, Honest
<1>6. CASE Reader
  <2>1. CASE ReadFails
    <3>1. PICK at : Upstream(at)
      BY DEF StreamInv
    <3>2. rpc' = "done" /\ UNCHANGED <<requests, upstream, hung_up, header, unread, taken>>
      BY <2>1 DEF ReadFails, client
    <3>3. Upstream(at)'
      BY <3>1, <3>2 DEF Upstream, ReaderPlace
    <3>4. (\E x : Upstream(x))'
      BY <3>3
    <3> QED
      BY <1>1, <3>2, <3>4 DEF StreamInv, Honest
  <2> QED
    BY <1>6, <2>1, StreamReadHeader, StreamReadChain, StreamReadPayload, StreamDrain DEF Reader
<1>7. CASE Worker
  BY <1>1, <1>7, StreamUnchanged DEF Worker, Complete, client
<1>8. CASE UNCHANGED vars
  BY <1>1, <1>8, StreamUnchanged DEF vars, client, server
<1> QED
  BY <1>2, <1>3, <1>4, <1>5, <1>6, <1>7, <1>8 DEF Next

(* The reader of a connection never loses its place: the n-th header that  *)
(* it decodes is the n-th that the client sent, whichever of the frames    *)
(* before were refused, drained or handed on, and wherever the client hung *)
(* up.  Chains longer than chain_len can tell are left out: with them the  *)
(* run of framing_long_chain shows the place lost.                         *)
THEOREM ReaderKeepsItsPlace ==
    ASSUME LengthsFit
    PROVE  Spec => []HeadersIntact
<1>1. StreamInv => HeadersIntact
  BY DEF StreamInv, HeadersIntact
<1>2. StreamInv /\ [Next]_vars => StreamInv'
  BY StreamNext
<1> QED
  BY <1>1, <1>2, StreamInit, PTL DEF Spec

----------------------------------------------------------------------------
(* What the server answers                                                 *)

(* The members of Status *)
Statuses == 0 .. 6

(* The answers that the checks, the parser and the backend leave open for  *)
(* a request                                                               *)
Judged(r, status) ==
    LET checked == validate_request_header(r.header)
    IN  \/ checked # kOk /\ status = checked
        \/ checked = kOk /\ r.chain \notin Parses /\ status = kBadChain
        \/ checked = kOk /\ r.chain \in Parses /\ status = kInternalError
        \/ checked = kOk /\ r.chain \in Parses /\ Usable(r.header) /\ status = kOk

(* What the server sends back for a request, given the status *)
Body(r, status) == IF status = kOk /\ Echo(r.header) THEN r.payload ELSE <<>>

ResponseOf(r, status) ==
    [magic |-> kMagic, version |-> kVersion, status |-> status, seq_num |-> r.header.seq_num,
     width |-> IF status = kOk THEN r.header.width ELSE 0,
     height |-> IF status = kOk THEN r.header.height ELSE 0,
     channels |-> IF status = kOk THEN r.header.channels ELSE 0,
     payload_len |-> Len(Body(r, status))]

AnswerBytes(r, status) == encode_response_header(ResponseOf(r, status)) \o Body(r, status)

(* A client takes whatever the server's limit lets through. *)
LimitsAgree == max_payload_bytes <= kMaxPayloadBytes

(* The body of an answer *)
LEMMA BodyBytes ==
    ASSUME NEW r, Honest(r), NEW status
    PROVE  /\ Body(r, status) \in Bytes /\ Len(Body(r, status)) \in 0 .. U32 - 1
           /\ Len(Body(r, status)) > 0 => status = kOk /\ Len(Body(r, status)) = r.header.payload_len
<1>1. r.payload \in Bytes /\ Len(r.payload) = r.header.payload_len /\ r.header.payload_len \in 0 .. U32 - 1
  BY DEF Honest, Request, RequestHeader
<1>2. <<>> \in Bytes /\ Len(<<>>) = 0 /\ 0 \in 0 .. U32 - 1
  BY Words DEF Bytes
<1>3. CASE status = kOk /\ Echo(r.header)
  <2>1. Body(r, status) = r.payload
    BY <1>3 DEF Body
  <2> QED
    BY <1>1, <1>3, <2>1
<1>4. CASE ~(status = kOk /\ Echo(r.header))
  <2>1. Body(r, status) = <<>>
    BY <1>4 DEF Body
  <2> QED
    BY <1>2, <2>1
<1> QED
  BY <1>3, <1>4

(* The header of an answer is a header. *)
LEMMA ResponseOfType ==
    ASSUME NEW r, Honest(r), NEW status \in Statuses
    PROVE  ResponseOf(r, status) \in ResponseHeader
<1>1. r.header \in RequestHeader
  BY DEF Honest, Request
<1>2. 0 \in 0 .. U32 - 1 /\ 0 \in 0 .. Byte - 1
  BY Words
<1>3. status \in 0 .. Byte - 1
  BY ProtocolAssumption DEF Statuses
<1>4. kMagic \in 0 .. U32 - 1 /\ kVersion \in 0 .. Byte - 1
  BY ProtocolAssumption
<1>5. Len(Body(r, status)) \in 0 .. U32 - 1
  BY BodyBytes
<1>6. /\ r.header.seq_num \in 0 .. U32 - 1 /\ r.header.width \in 0 .. U32 - 1
      /\ r.header.height \in 0 .. U32 - 1 /\ r.header.channels \in 0 .. Byte - 1
  BY <1>1 DEF RequestHeader
<1> QED
  BY <1>2, <1>3, <1>4, <1>5, <1>6 DEF ResponseOf, ResponseHeader

(* Where the header and the payload are in an answer *)
LEMMA AnswerPieces ==
    ASSUME NEW r, Honest(r), NEW status \in Statuses
    PROVE  /\ AnswerBytes(r, status) \in Bytes
           /\ Len(AnswerBytes(r, status)) = 23 + Len(Body(r, status))
           /\ Piece(AnswerBytes(r, status), 0, 23, encode_response_header(ResponseOf(r, status)))
           /\ Piece(AnswerBytes(r, status), 23, Len(Body(r, status)), Body(r, status))
<1> DEFINE a == encode_response_header(ResponseOf(r, status))
           b == Body(r, status)
           f == a \o b
<1>1. a \in Bytes /\ Len(a) = 23
  BY ResponseOfType, ResponseRoundTrip DEF kResponseHeaderBytes
<1>2. b \in Bytes /\ Len(b) \in Nat
  BY BodyBytes DEF Bytes
<1>3. AnswerBytes(r, status) = f
  BY DEF AnswerBytes
<1> HIDE DEF a, b
<1>4. /\ f \in Bytes /\ Len(f) = Len(a) + Len(b)
      /\ \A i \in 1 .. Len(a) + Len(b) : f[i] = IF i <= Len(a) THEN a[i] ELSE b[i - Len(a)]
  BY <1>1, <1>2, ConcatProperties DEF Bytes
<1> HIDE DEF f
<1>5. Len(f) = 23 + Len(b)
  BY <1>1, <1>4
<1> DEFINE y == Len(b)
           z == Len(f)
<1>6. 0 + 23 <= z /\ 23 + y <= z
  <2>1. y \in Nat /\ z = 23 + y
    BY <1>2, <1>5
  <2> HIDE DEF y, z
  <2> QED
    BY <2>1
<1>7. Piece(f, 0, 23, a)
  <2>1. ASSUME NEW j \in 1 .. 23 PROVE f[0 + j] = a[j]
    <3>1. 0 + j = j /\ j \in 1 .. 23 + y /\ j <= 23
      <4>1. y \in Nat
        BY <1>2
      <4> HIDE DEF y
      <4> QED
        BY <4>1
    <3> QED
      BY <1>1, <1>4, <3>1
  <2> QED
    BY <1>1, <1>6, <2>1 DEF Piece
<1>8. Piece(f, 23, Len(b), b)
  <2>1. ASSUME NEW j \in 1 .. Len(b) PROVE f[23 + j] = b[j]
    <3>1. 23 + j \in 1 .. 23 + Len(b) /\ ~(23 + j <= 23) /\ 23 + j - 23 = j
      BY <1>2
    <3> QED
      BY <1>1, <1>4, <3>1
  <2> QED
    BY <1>2, <1>6, <2>1 DEF Piece
<1> QED
  BY <1>3, <1>4, <1>5, <1>7, <1>8 DEF a, b

(* An answer to a request that was judged is never malformed. *)
LEMMA AnswersAreWellFormed ==
    ASSUME LimitsAgree, NEW r, Honest(r), NEW status, Judged(r, status)
    PROVE  ~Malformed(ResponseOf(r, status))
<1> DEFINE h == ResponseOf(r, status)
<1>1. h.magic = kMagic /\ h.payload_len = Len(Body(r, status))
  BY DEF ResponseOf
<1>2. SUFFICES ASSUME h.payload_len > 0
               PROVE  ~(\/ DimensionProduct(h) # h.payload_len
                        \/ h.payload_len > kMaxPayloadBytes
                        \/ ~Usable(h))
  BY <1>1 DEF Malformed
<1>3. status = kOk /\ h.payload_len = r.header.payload_len
  BY <1>1, <1>2, BodyBytes
<1>4. h.width = r.header.width /\ h.height = r.header.height /\ h.channels = r.header.channels
  BY <1>3 DEF ResponseOf
<1>5. validate_request_header(r.header) = kOk /\ Usable(r.header)
  BY <1>3 DEF Judged, kOk, kBadChain, kInternalError
<1>6. DimensionProduct(r.header) = r.header.payload_len /\ ~(r.header.payload_len > max_payload_bytes)
  BY <1>5 DEF validate_request_header, kOk, kBadMagic, kUnsupportedVersion, kPayloadTooLarge, kBadChain, kLengthMismatch
<1>7. DimensionProduct(h) = DimensionProduct(r.header)
  BY <1>4 DEF DimensionProduct
<1>8. Usable(h)
  BY <1>4, <1>5 DEF Usable
<1>9. ~(h.payload_len > kMaxPayloadBytes)
  <2>1. r.header.payload_len \in Nat
    BY Words DEF Honest, Request, RequestHeader
  <2>2. max_payload_bytes \in Nat /\ kMaxPayloadBytes \in Nat
    BY ProtocolAssumption
  <2> QED
    BY <1>3, <1>6, <2>1, <2>2 DEF LimitsAgree
<1> HIDE DEF h
<1> QED
  BY <1>3, <1>6, <1>7, <1>8, <1>9

----------------------------------------------------------------------------
(* The ledger of answers: out says in which order the server answered      *)
(* which requests and with which status.                                   *)

(* One answer: to which request, and the status it carries *)
Entry == [request : Nat, status : Statuses]

(* Frames that were taken are answered at most once, and as they were      *)
(* judged.                                                                 *)
Sound(out, rs, tk) ==
    /\ rs \in Seq(Request) /\ tk \in 0 .. Len(rs) /\ out \in Seq(Entry)
    /\ \A n \in 1 .. Len(rs) : Honest(rs[n])
    /\ \A n \in 1 .. Len(out) : out[n].request \in 1 .. tk /\ Judged(rs[out[n].request], out[n].status)
    /\ \A m, n \in 1 .. Len(out) : out[m].request = out[n].request => m = n

(* Frame i was taken and has no answer yet. *)
Open(out, tk, i) == i \in 1 .. tk /\ \A n \in 1 .. Len(out) : out[n].request # i

(* The job the reader makes of a request, and when it makes one *)
JobOf(r) == [header |-> r.header, payload |-> r.payload]

Accepted(r) == validate_request_header(r.header) = kOk /\ r.chain \in Parses

(* The reader is in the middle of a frame it may accept. *)
Reading(pc) == pc \in {"chain", "payload"}

(* The frame being read and the jobs are open requests, all different. *)
InHand(out, rs, tk, pc, js) ==
    /\ Reading(pc) => Open(out, tk, tk)
    /\ \A job \in js : \E i : /\ Open(out, tk, i) /\ job = JobOf(rs[i]) /\ Accepted(rs[i])
                              /\ Reading(pc) => i # tk

(* The ledger as bytes *)
Answers(rs, out) == [n \in 1 .. Len(out) |-> AnswerBytes(rs[out[n].request], out[n].status)]

(* The client has read k of the answers. *)
Sent(out, at, rs, stream, k) ==
    Positions(at, Answers(rs, out), stream, FALSE) /\ k \in 0 .. Len(out) /\ at[k + 1] = 0

(* An entry as the client records it *)
Reply(r, entry) ==
    [request |-> entry.request, status |-> entry.status,
     width |-> ResponseOf(r, entry.status).width, height |-> ResponseOf(r, entry.status).height,
     channels |-> ResponseOf(r, entry.status).channels, image |-> Body(r, entry.status)]

Replies ==
    [request : Nat, status : Statuses, width : 0 .. U32 - 1, height : 0 .. U32 - 1, channels : 0 .. Byte - 1,
     image : Bytes]

(* What the client has, and what it waits for *)
Waiting(out, rs, k, p) ==
    \E i \in 1 .. Len(rs) : p = <<rs[i].header.seq_num, i>> /\ \A n \in 1 .. k : out[n].request # i

(* The client received the first entries of the ledger, and waits for the  *)
(* requests that they do not answer.                                       *)
Heard(out, rs, rc, pd) ==
    /\ rc \in Seq(Replies)
    /\ \A n \in 1 .. Len(rc) : rc[n] = Reply(rs[out[n].request], out[n])
    /\ \A p : p \in pd <=> Waiting(out, rs, Len(rc), p)

(* An entry of the ledger *)
LEMMA EntryFacts ==
    ASSUME NEW out, NEW rs, NEW tk, Sound(out, rs, tk), NEW n \in 1 .. Len(out)
    PROVE  /\ out[n].request \in 1 .. Len(rs) /\ out[n].status \in Statuses /\ out[n] \in Entry
           /\ Honest(rs[out[n].request]) /\ Judged(rs[out[n].request], out[n].status)
<1>1. out[n] \in Entry
  BY DEF Sound
<1>2. out[n].request \in 1 .. tk /\ tk \in 0 .. Len(rs) /\ Len(rs) \in Nat
  BY DEF Sound
<1>3. out[n].request \in 1 .. Len(rs)
  BY <1>2
<1> QED
  BY <1>1, <1>3 DEF Sound, Entry

(* The answers are byte strings. *)
LEMMA AnswersAre ==
    ASSUME NEW out, NEW rs, NEW tk, Sound(out, rs, tk)
    PROVE  /\ Answers(rs, out) \in Seq(Bytes) /\ Len(Answers(rs, out)) = Len(out) /\ Len(out) \in Nat
           /\ \A n \in 1 .. Len(out) : Answers(rs, out)[n] = AnswerBytes(rs[out[n].request], out[n].status)
<1>1. \A n \in 1 .. Len(out) : AnswerBytes(rs[out[n].request], out[n].status) \in Bytes
  <2> TAKE n \in 1 .. Len(out)
  <2>1. Honest(rs[out[n].request]) /\ out[n].status \in Statuses
    BY EntryFacts
  <2> QED
    BY <2>1, AnswerPieces
<1>2. Len(out) \in Nat
  BY DEF Sound
<1>3. Answers(rs, out) \in [1 .. Len(out) -> Bytes]
  BY <1>1 DEF Answers
<1>4. Answers(rs, out) \in Seq(Bytes) /\ Len(Answers(rs, out)) = Len(out)
  BY <1>2, <1>3, SeqDef, LenProperties
<1> QED
  BY <1>2, <1>4 DEF Answers

(* The ledger grows by an answer to an open frame. *)
LEMMA SoundAnswer ==
    ASSUME NEW out, NEW rs, NEW tk, Sound(out, rs, tk), NEW i, Open(out, tk, i),
           NEW status \in Statuses, Judged(rs[i], status)
    PROVE  Sound(Append(out, [request |-> i, status |-> status]), rs, tk)
<1> DEFINE entry == [request |-> i, status |-> status]
           more == Append(out, entry)
           m == Len(out)
<1>1. tk \in Nat /\ out \in Seq(Entry) /\ m \in Nat
  BY DEF Sound
<1>2. entry \in Entry /\ entry.request = i /\ entry.status = status
  BY <1>1 DEF Entry, Open
<1> HIDE DEF entry
<1>3. more \in Seq(Entry) /\ Len(more) = m + 1 /\ more[m + 1] = entry /\ \A n \in 1 .. m : more[n] = out[n]
  BY <1>1, <1>2, AppendProperties
<1> HIDE DEF more
<1>4. \A n \in 1 .. m + 1 : n \in 1 .. m \/ n = m + 1
  BY <1>1
<1>5. \A n \in 1 .. Len(more) : more[n].request \in 1 .. tk /\ Judged(rs[more[n].request], more[n].status)
  BY <1>2, <1>3, <1>4 DEF Sound, Open
<1>6. ASSUME NEW n \in 1 .. Len(more), NEW k \in 1 .. Len(more), more[n].request = more[k].request
      PROVE  n = k
  <2>1. CASE n \in 1 .. m /\ k \in 1 .. m
    BY <1>3, <1>6, <2>1 DEF Sound
  <2>2. CASE n = m + 1 /\ k \in 1 .. m
    BY <1>2, <1>3, <1>6, <2>2 DEF Open
  <2>3. CASE n \in 1 .. m /\ k = m + 1
    BY <1>2, <1>3, <1>6, <2>3 DEF Open
  <2> QED
    BY <1>3, <1>4, <2>1, <2>2, <2>3
<1>7. Sound(more, rs, tk)
  BY <1>3, <1>5, <1>6 DEF Sound
<1> QED
  BY <1>7 DEF more, entry

(* The other open frames stay open, ... *)
LEMMA OpenAnswer ==
    ASSUME NEW out, NEW rs, NEW tk, Sound(out, rs, tk), NEW i, NEW status \in Statuses, i \in Nat,
           NEW j, Open(out, tk, j), j # i
    PROVE  Open(Append(out, [request |-> i, status |-> status]), tk, j)
<1> DEFINE entry == [request |-> i, status |-> status]
           more == Append(out, entry)
           m == Len(out)
<1>1. out \in Seq(Entry) /\ m \in Nat
  BY DEF Sound
<1>2. entry \in Entry /\ entry.request = i
  BY DEF Entry
<1> HIDE DEF entry
<1>3. more \in Seq(Entry) /\ Len(more) = m + 1 /\ more[m + 1] = entry /\ \A n \in 1 .. m : more[n] = out[n]
  BY <1>1, <1>2, AppendProperties
<1> HIDE DEF more
<1>4. \A n \in 1 .. m + 1 : n \in 1 .. m \/ n = m + 1
  BY <1>1
<1>5. Open(more, tk, j)
  BY <1>2, <1>3, <1>4 DEF Open
<1> QED
  BY <1>5 DEF more, entry

(* ... its bytes are behind those of the other answers, ... *)
LEMMA SentAnswer ==
    ASSUME NEW out, NEW rs, NEW tk, Sound(out, rs, tk), NEW i, Open(out, tk, i),
           NEW status \in Statuses, Judged(rs[i], status),
           NEW at, NEW stream, NEW k, Sent(out, at, rs, stream, k)
    PROVE  \E to : Sent(Append(out, [request |-> i, status |-> status]), to, rs,
                        stream \o AnswerBytes(rs[i], status), k)
<1> DEFINE entry == [request |-> i, status |-> status]
           more == Append(out, entry)
           m == Len(out)
           A == Answers(rs, out)
           f == AnswerBytes(rs[i], status)
<1>1. out \in Seq(Entry) /\ m \in Nat /\ tk \in Nat
  BY DEF Sound
<1>2. entry \in Entry /\ entry.request = i /\ entry.status = status
  BY <1>1 DEF Entry, Open
<1>3. Sound(more, rs, tk)
  BY SoundAnswer
<1>4. more \in Seq(Entry) /\ Len(more) = m + 1 /\ more[m + 1] = entry /\ \A n \in 1 .. m : more[n] = out[n]
  BY <1>1, <1>2, AppendProperties
<1> HIDE DEF entry, more
<1>5. A \in Seq(Bytes) /\ Len(A) = m /\ \A n \in 1 .. m : A[n] = AnswerBytes(rs[out[n].request], out[n].status)
  BY AnswersAre
<1>6. /\ Answers(rs, more) \in Seq(Bytes) /\ Len(Answers(rs, more)) = m + 1
      /\ \A n \in 1 .. m + 1 : Answers(rs, more)[n] = AnswerBytes(rs[more[n].request], more[n].status)
  BY <1>3, <1>4, AnswersAre
<1>7. m + 1 \in 1 .. m + 1
  BY <1>1
<1>8. f \in Bytes
  <2>1. Answers(rs, more)[m + 1] = f
    BY <1>2, <1>4, <1>6, <1>7
  <2> QED
    BY <1>6, <1>7, <2>1
<1>9. Answers(rs, more) = Append(A, f)
  <2> HIDE DEF A, f
  <2>1. /\ Append(A, f) \in Seq(Bytes) /\ Len(Append(A, f)) = m + 1 /\ Append(A, f)[m + 1] = f
        /\ \A n \in 1 .. m : Append(A, f)[n] = A[n]
    BY <1>5, <1>8, AppendProperties
  <2>2. \A n \in 1 .. m + 1 : Answers(rs, more)[n] = Append(A, f)[n]
    <3> TAKE n \in 1 .. m + 1
    <3>1. n \in 1 .. m \/ n = m + 1
      BY <1>1
    <3> QED
      BY <1>2, <1>4, <1>5, <1>6, <2>1, <3>1 DEF f
  <2> QED
    BY <1>6, <2>1, <2>2, SeqEqual
<1>10. Positions(at, A, stream, FALSE) /\ k \in 0 .. m /\ at[k + 1] = 0
  BY DEF Sent
<1> DEFINE to == [n \in 1 .. Len(A) + 2 |-> IF n = Len(A) + 2 THEN at[Len(A) + 1] + Len(f) ELSE at[n]]
<1> HIDE DEF A, f
<1>11. Positions(to, Append(A, f), stream \o f, FALSE)
  BY <1>8, <1>10, PositionsWrite
<1>12. to[k + 1] = 0
  <2>1. k + 1 \in 1 .. Len(A) + 2 /\ k + 1 # Len(A) + 2
    BY <1>1, <1>5, <1>10
  <2> QED
    BY <1>10, <2>1
<1> HIDE DEF to
<1>13. k \in 0 .. Len(more)
  BY <1>1, <1>4, <1>10
<1>14. Sent(more, to, rs, stream \o f, k)
  BY <1>9, <1>11, <1>12, <1>13 DEF Sent
<1> QED
  BY <1>14 DEF more, entry, f

(* ... and the client knows nothing of it yet. *)
LEMMA HeardAnswer ==
    ASSUME NEW out, NEW rs, NEW tk, Sound(out, rs, tk), NEW entry \in Entry,
           NEW rc, NEW pd, Heard(out, rs, rc, pd), Len(rc) \in 0 .. Len(out)
    PROVE  Heard(Append(out, entry), rs, rc, pd)
<1> DEFINE more == Append(out, entry)
<1>1. out \in Seq(Entry) /\ Len(out) \in Nat
  BY DEF Sound
<1>2. \A n \in 1 .. Len(out) : more[n] = out[n]
  BY <1>1, AppendProperties
<1> HIDE DEF more
<1>3. \A n \in 1 .. Len(rc) : n \in 1 .. Len(out)
  BY <1>1
<1>4. \A n \in 1 .. Len(rc) : more[n] = out[n]
  BY <1>2, <1>3
<1>5. \A p : Waiting(out, rs, Len(rc), p) <=> Waiting(more, rs, Len(rc), p)
  BY <1>4 DEF Waiting
<1>6. Heard(more, rs, rc, pd)
  BY <1>4, <1>5 DEF Heard
<1> QED
  BY <1>6 DEF more

(* A frame that is taken is open. *)
LEMMA SoundTake ==
    ASSUME NEW out, NEW rs, NEW tk, Sound(out, rs, tk), tk + 1 <= Len(rs)
    PROVE  /\ Sound(out, rs, tk + 1) /\ Open(out, tk + 1, tk + 1)
           /\ \A i : Open(out, tk, i) => Open(out, tk + 1, i) /\ i # tk + 1
<1>1. tk \in Nat /\ Len(rs) \in Nat /\ tk + 1 \in 0 .. Len(rs)
  BY DEF Sound
<1>2. \A i : i \in 1 .. tk => i \in 1 .. tk + 1 /\ i # tk + 1
  BY <1>1
<1>3. Sound(out, rs, tk + 1)
  BY <1>1, <1>2 DEF Sound
<1>4. Open(out, tk + 1, tk + 1)
  BY <1>1, <1>2 DEF Sound, Open
<1>5. \A i : Open(out, tk, i) => Open(out, tk + 1, i) /\ i # tk + 1
  BY <1>2 DEF Open
<1> QED
  BY <1>3, <1>4, <1>5

(* A request that is added changes nothing for the others. *)
LEMMA SoundWrite ==
    ASSUME NEW out, NEW rs, NEW tk, Sound(out, rs, tk), NEW r, Honest(r)
    PROVE  /\ Sound(out, Append(rs, r), tk) /\ Answers(Append(rs, r), out) = Answers(rs, out)
           /\ Append(rs, r) \in Seq(Request) /\ Len(Append(rs, r)) = Len(rs) + 1
           /\ Append(rs, r)[Len(rs) + 1] = r /\ \A i \in 1 .. Len(rs) : Append(rs, r)[i] = rs[i]
<1> DEFINE more == Append(rs, r)
           m == Len(rs)
<1>1. rs \in Seq(Request) /\ m \in Nat /\ r \in Request
  BY DEF Sound, Honest
<1>2. more \in Seq(Request) /\ Len(more) = m + 1 /\ more[m + 1] = r /\ \A n \in 1 .. m : more[n] = rs[n]
  BY <1>1, AppendProperties
<1> HIDE DEF more
<1>3. \A n \in 1 .. m + 1 : n \in 1 .. m \/ n = m + 1
  BY <1>1
<1>4. \A n \in 1 .. Len(out) : more[out[n].request] = rs[out[n].request]
  BY <1>2, EntryFacts
<1>5. tk \in 0 .. Len(more)
  BY <1>1, <1>2 DEF Sound
<1>6. \A n \in 1 .. Len(more) : Honest(more[n])
  BY <1>2, <1>3 DEF Sound
<1>7. Sound(out, more, tk)
  BY <1>2, <1>4, <1>5, <1>6 DEF Sound
<1>8. Answers(more, out) = Answers(rs, out)
  BY <1>4 DEF Answers
<1> QED
  BY <1>2, <1>7, <1>8 DEF more

(* The frames in hand *)
LEMMA InHandWrite ==
    ASSUME NEW out, NEW rs, NEW tk, Sound(out, rs, tk), NEW r, Honest(r), NEW pc, NEW js, InHand(out, rs, tk, pc, js)
    PROVE  InHand(out, Append(rs, r), tk, pc, js)
<1>1. \A i : Open(out, tk, i) => Append(rs, r)[i] = rs[i]
  <2>1. \A i : Open(out, tk, i) => i \in 1 .. Len(rs)
    BY DEF Sound, Open
  <2> QED
    BY <2>1, SoundWrite
<1>2. ASSUME NEW job \in js
      PROVE  \E i : /\ Open(out, tk, i) /\ job = JobOf(Append(rs, r)[i]) /\ Accepted(Append(rs, r)[i])
                    /\ Reading(pc) => i # tk
  <2>1. PICK i : Open(out, tk, i) /\ job = JobOf(rs[i]) /\ Accepted(rs[i]) /\ (Reading(pc) => i # tk)
    BY DEF InHand
  <2>2. Append(rs, r)[i] = rs[i]
    BY <1>1, <2>1
  <2> QED
    BY <2>1, <2>2
<1> QED
  BY <1>2 DEF InHand

(* The client waits for one answer more. *)
LEMMA HeardWrite ==
    ASSUME NEW out, NEW rs, NEW tk, Sound(out, rs, tk), NEW r, Honest(r),
           NEW rc, NEW pd, Heard(out, rs, rc, pd), Len(rc) \in 0 .. Len(out)
    PROVE  Heard(out, Append(rs, r), rc, pd \cup {<<r.header.seq_num, Len(rs) + 1>>})
<1> DEFINE more == Append(rs, r)
           m == Len(rs)
           k == Len(rc)
<1>1. m \in Nat /\ Len(out) \in Nat /\ tk \in 0 .. m
  BY DEF Sound
<1>2. Len(more) = m + 1 /\ more[m + 1] = r /\ \A n \in 1 .. m : more[n] = rs[n]
  BY SoundWrite
<1> HIDE DEF more
<1>3. \A n \in 1 .. k : n \in 1 .. Len(out)
  BY <1>1
<1>4. \A n \in 1 .. k : out[n].request \in 1 .. m
  BY <1>3, EntryFacts
<1>5. /\ m + 1 \in 1 .. m + 1 /\ m + 1 \notin 1 .. m
      /\ \A n \in 1 .. m + 1 : n \in 1 .. m \/ n = m + 1
      /\ \A n \in 1 .. m : n \in 1 .. m + 1
  BY <1>1
<1>6. \A n \in 1 .. k : rc[n] = Reply(more[out[n].request], out[n])
  BY <1>2, <1>4 DEF Heard
<1> DEFINE new == <<r.header.seq_num, m + 1>>
<1>7. ASSUME NEW p PROVE p \in pd \cup {new} <=> Waiting(out, more, k, p)
  <2>1. p \in pd => Waiting(out, more, k, p)
    <3> SUFFICES ASSUME p \in pd PROVE Waiting(out, more, k, p)
      OBVIOUS
    <3>1. PICK i \in 1 .. m : p = <<rs[i].header.seq_num, i>> /\ \A n \in 1 .. k : out[n].request # i
      BY DEF Heard, Waiting
    <3>2. i \in 1 .. Len(more) /\ more[i] = rs[i]
      BY <1>2, <1>5, <3>1
    <3> QED
      BY <3>1, <3>2 DEF Waiting
  <2>2. Waiting(out, more, k, new)
    <3>1. m + 1 \in 1 .. Len(more) /\ new = <<more[m + 1].header.seq_num, m + 1>>
      BY <1>2, <1>5
    <3>2. \A n \in 1 .. k : out[n].request # m + 1
      BY <1>4, <1>5
    <3> HIDE DEF new
    <3> QED
      BY <3>1, <3>2 DEF Waiting
  <2>3. Waiting(out, more, k, p) => p \in pd \/ p = new
    <3> SUFFICES ASSUME Waiting(out, more, k, p) PROVE p \in pd \/ p = new
      OBVIOUS
    <3>1. PICK i \in 1 .. Len(more) : p = <<more[i].header.seq_num, i>> /\ \A n \in 1 .. k : out[n].request # i
      BY DEF Waiting
    <3>2. CASE i = m + 1
      BY <1>2, <3>1, <3>2
    <3>3. CASE i \in 1 .. m
      <4>1. p = <<rs[i].header.seq_num, i>>
        BY <1>2, <3>1, <3>3
      <4>2. Waiting(out, rs, k, p)
        BY <3>1, <3>3, <4>1 DEF Waiting
      <4> QED
        BY <4>2 DEF Heard
    <3> QED
      BY <1>2, <1>5, <3>2, <3>3
  <2> HIDE DEF new
  <2> QED
    BY <2>1, <2>2, <2>3
<1>8. Heard(out, more, rc, pd \cup {new})
  <2> HIDE DEF new
  <2> QED
    BY <1>6, <1>7 DEF Heard
<1> QED
  BY <1>8 DEF more

(* The client decodes the header of the next answer, ... *)
LEMMA AnswerHeaderRead ==
    ASSUME NEW out, NEW rs, NEW tk, Sound(out, rs, tk), NEW at, NEW stream, NEW k, Sent(out, at, rs, stream, k),
           Len(stream) >= 23
    PROVE  /\ k + 1 \in 1 .. Len(out)
           /\ decode_response_header(First(stream, 23)) = ResponseOf(rs[out[k + 1].request], out[k + 1].status)
<1> DEFINE A == Answers(rs, out)
           m == Len(out)
           n == k + 1
           h == ResponseOf(rs[out[n].request], out[n].status)
<1>1. /\ A \in Seq(Bytes) /\ Len(A) = m /\ m \in Nat
      /\ \A x \in 1 .. m : A[x] = AnswerBytes(rs[out[x].request], out[x].status)
  BY AnswersAre
<1>2. Positions(at, A, stream, FALSE) /\ k \in 0 .. m /\ at[n] = 0
  BY DEF Sent
<1>3. Len(stream) = at[m + 1] /\ Len(stream) \in Nat
  BY <1>1, <1>2 DEF Positions, Bytes
<1>4. n \in 1 .. m
  <2>1. k # m
    BY <1>2, <1>3
  <2> QED
    BY <1>1, <1>2, <2>1
<1>5. Honest(rs[out[n].request]) /\ out[n].status \in Statuses
  BY <1>4, EntryFacts
<1> DEFINE w == 23
           d == 0
           piece == encode_response_header(h)
<1>6. Piece(A[n], d, w, piece)
  BY <1>1, <1>4, <1>5, AnswerPieces
<1>7. AtHead(at, A, stream, FALSE, n, d) /\ w \in 0 .. Len(stream)
  <2>1. at[n] + d = 0 /\ d \in Nat
    BY <1>2
  <2>2. w \in 0 .. Len(stream)
    BY <1>3
  <2>3. n \in 1 .. Len(A)
    BY <1>1, <1>4
  <2> HIDE DEF A, n, w, d
  <2> QED
    BY <1>2, <2>1, <2>2, <2>3 DEF AtHead
<1>8. StartsWith(stream, w, piece)
  <2> HIDE DEF A, n, w, d, piece
  <2> QED
    BY <1>6, <1>7, PieceRead
<1>9. First(stream, 23) = encode_response_header(h)
  BY <1>8 DEF StartsWith
<1>10. h \in ResponseHeader
  BY <1>5, ResponseOfType
<1>11. decode_response_header(encode_response_header(h)) = h
  <2> HIDE DEF h
  <2> QED
    BY <1>10, ResponseRoundTrip
<1> QED
  BY <1>4, <1>9, <1>11

(* ... and then its payload, which ends where the answer after it begins. *)
LEMMA AnswerBodyRead ==
    ASSUME NEW out, NEW rs, NEW tk, Sound(out, rs, tk), NEW at, NEW stream, NEW k, Sent(out, at, rs, stream, k),
           Len(stream) >= 23, NEW b, b = Body(rs[out[k + 1].request], out[k + 1].status),
           Len(Rest(stream, 23)) >= Len(b)
    PROVE  /\ b = First(Rest(stream, 23), Len(b))
           /\ \E to : Sent(out, to, rs, Rest(Rest(stream, 23), Len(b)), k + 1)
<1> DEFINE A == Answers(rs, out)
           m == Len(out)
           n == k + 1
           rest == Rest(stream, 23)
           d == 23
           w == Len(b)
<1>1. /\ A \in Seq(Bytes) /\ Len(A) = m /\ m \in Nat
      /\ \A x \in 1 .. m : A[x] = AnswerBytes(rs[out[x].request], out[x].status)
  BY AnswersAre
<1>2. Positions(at, A, stream, FALSE) /\ k \in 0 .. m /\ at[n] = 0
  BY DEF Sent
<1>3. n \in 1 .. m
  BY AnswerHeaderRead
<1>4. Honest(rs[out[n].request]) /\ out[n].status \in Statuses
  BY <1>3, EntryFacts
<1>5. Piece(A[n], d, w, b) /\ Len(A[n]) = 23 + Len(b)
  BY <1>1, <1>3, <1>4, AnswerPieces
<1>6. b \in Bytes /\ w \in Nat
  BY <1>4, BodyBytes DEF Bytes
<1>7. stream \in Bytes /\ 23 \in 0 .. Len(stream)
  BY <1>2 DEF Positions, Bytes
<1>8. rest \in Bytes
  BY <1>7, CutBytes
<1> HIDE DEF A, rest
<1>9. PICK mid : Positions(mid, A, rest, FALSE) /\ \A x \in 1 .. m + 1 : mid[x] = at[x] - 23
  <2> DEFINE to == [x \in 1 .. Len(A) + 1 |-> at[x] - 23]
  <2>1. Positions(to, A, Rest(stream, 23), FALSE)
    BY <1>2, <1>7, PositionsRead
  <2>2. \A x \in 1 .. m + 1 : to[x] = at[x] - 23
    BY <1>1
  <2> HIDE DEF to
  <2> QED
    BY <2>1, <2>2 DEF rest
<1>10. n \in 1 .. m + 1 /\ n + 1 \in 1 .. m + 1 /\ n \in Nat
  BY <1>1, <1>3
<1>11. mid[n] + d = 0
  BY <1>2, <1>9, <1>10
<1>12. AtHead(mid, A, rest, FALSE, n, d) /\ w \in 0 .. Len(rest)
  <2>1. Len(rest) \in Nat /\ Len(rest) >= w
    BY <1>8 DEF Bytes, rest
  <2>2. w \in 0 .. Len(rest)
    <3> HIDE DEF w
    <3> QED
      BY <1>6, <2>1
  <2> QED
    BY <1>1, <1>3, <1>9, <1>11, <2>2 DEF AtHead
<1>13. StartsWith(rest, w, b)
  <2> HIDE DEF n, w, d
  <2> QED
    BY <1>5, <1>12, PieceRead
<1>14. PICK to : Positions(to, A, Rest(rest, w), FALSE) /\ \A x \in 1 .. m + 1 : to[x] = mid[x] - w
  <2> DEFINE to == [x \in 1 .. Len(A) + 1 |-> mid[x] - w]
  <2>1. Positions(to, A, Rest(rest, w), FALSE)
    BY <1>9, <1>12, PositionsRead
  <2>2. \A x \in 1 .. m + 1 : to[x] = mid[x] - w
    BY <1>1
  <2> HIDE DEF to
  <2> QED
    BY <2>1, <2>2
<1>15. to[n + 1] = 0
  <2>1. mid[n + 1] = mid[n] + Len(A[n]) /\ mid[n] \in Int
    BY <1>1, <1>3, <1>9, <1>10 DEF Positions
  <2>2. to[n + 1] = mid[n + 1] - w /\ Len(A[n]) = 23 + w /\ mid[n] + 23 = 0
    BY <1>5, <1>10, <1>11, <1>14
  <2> DEFINE p == mid[n]
             q == mid[n + 1]
             s == Len(A[n])
  <2>3. q = p + s /\ p \in Int /\ to[n + 1] = q - w /\ s = 23 + w /\ p + 23 = 0
    BY <2>1, <2>2
  <2> HIDE DEF p, q, s, w
  <2> QED
    BY <1>6, <2>3
<1>16. Sent(out, to, rs, Rest(rest, w), n)
  <2>1. n \in 0 .. Len(out)
    BY <1>1, <1>3
  <2>2. Positions(to, Answers(rs, out), Rest(rest, w), FALSE)
    BY <1>14 DEF A
  <2> HIDE DEF n, w
  <2> QED
    BY <1>15, <2>1, <2>2 DEF Sent
<1> QED
  BY <1>13, <1>16 DEF StartsWith, rest

(* Sequence numbers are never used twice, and are too few to wrap. *)
Numbers(rs, next) ==
    /\ next \in Nat /\ Len(rs) <= MaxRequests /\ next <= 2 * Len(rs) + 1
    /\ \A i \in 1 .. Len(rs) : rs[i].header.seq_num < next
    /\ \A i, j \in 1 .. Len(rs) : rs[i].header.seq_num = rs[j].header.seq_num => i = j

Numbered(pd, s) == {p \in pd : p[1] = s}

(* Answer n is the one behind those that the client has, ... *)
NextAnswer(out, rc, n) == n = Len(rc) + 1 /\ n \in 1 .. Len(out)

(* ... and the client knows it for what it is. *)
Recognised(out, rs, rc, pd, n) ==
    LET i == out[n].request
        M == Numbered(pd, rs[i].header.seq_num)
    IN  M = {<<rs[i].header.seq_num, i>>} /\ Heard(out, rs, Append(rc, Reply(rs[i], out[n])), pd \ M)

(* The next answer is matched to its request and to no other. *)
LEMMA HeardReply ==
    ASSUME NEW out, NEW rs, NEW tk, Sound(out, rs, tk), NEW rc, NEW pd, Heard(out, rs, rc, pd),
           NEW next, Numbers(rs, next), NEW n, NextAnswer(out, rc, n)
    PROVE  Recognised(out, rs, rc, pd, n)
<1> DEFINE i == out[n].request
           s == rs[i].header.seq_num
           M == Numbered(pd, s)
           x == Reply(rs[i], out[n])
           more == Append(rc, x)
           k == Len(rc)
<1> n = Len(rc) + 1 /\ n \in 1 .. Len(out)
  BY DEF NextAnswer
<1>1. i \in 1 .. Len(rs) /\ out[n].status \in Statuses /\ Honest(rs[i]) /\ out[n] \in Entry
  BY EntryFacts
<1>2. rc \in Seq(Replies) /\ k \in Nat /\ \A p : p \in pd <=> Waiting(out, rs, k, p)
  BY DEF Heard
<1>3. \A j \in 1 .. k : j \in 1 .. Len(out) /\ j # n
  <2>1. Len(out) \in Nat
    BY DEF Sound
  <2> QED
    BY <1>2, <2>1
<1>4. \A j \in 1 .. k : out[j].request # i
  BY <1>3 DEF Sound
<1>5. <<s, i>> \in pd
  BY <1>1, <1>2, <1>4 DEF Waiting
<1>6. ASSUME NEW p \in pd, p[1] = s PROVE p = <<s, i>>
  <2>1. PICK j \in 1 .. Len(rs) : p = <<rs[j].header.seq_num, j>>
    BY <1>2 DEF Waiting
  <2>2. rs[j].header.seq_num = s
    BY <1>6, <2>1
  <2>3. j = i
    BY <1>1, <2>1, <2>2 DEF Numbers
  <2> QED
    BY <2>1, <2>3
<1>7. M = {<<s, i>>}
  <2> HIDE DEF s, i
  <2>1. <<s, i>>[1] = s
    OBVIOUS
  <2> QED
    BY <1>5, <1>6, <2>1 DEF Numbered
<1>8. x \in Replies
  <2> DEFINE h == ResponseOf(rs[i], out[n].status)
  <2>1. h \in ResponseHeader
    BY <1>1, ResponseOfType
  <2>2. Body(rs[i], out[n].status) \in Bytes
    BY <1>1, BodyBytes
  <2>3. x = [request |-> i, status |-> out[n].status, width |-> h.width, height |-> h.height,
             channels |-> h.channels, image |-> Body(rs[i], out[n].status)]
    BY DEF Reply
  <2>4. i \in Nat
    BY <1>1 DEF Entry
  <2> HIDE DEF h, i, x
  <2> QED
    BY <1>1, <2>1, <2>2, <2>3, <2>4 DEF ResponseHeader, Replies
<1> HIDE DEF x
<1>9. more \in Seq(Replies) /\ Len(more) = k + 1 /\ more[k + 1] = x /\ \A j \in 1 .. k : more[j] = rc[j]
  BY <1>2, <1>8, AppendProperties
<1> HIDE DEF more
<1>10. \A j \in 1 .. k + 1 : j \in 1 .. k \/ j = n
  BY <1>2
<1>11. \A j \in 1 .. Len(more) : more[j] = Reply(rs[out[j].request], out[j])
  <2> TAKE j \in 1 .. Len(more)
  <2>1. CASE j \in 1 .. k
    BY <1>9, <2>1 DEF Heard
  <2>2. CASE j = n
    BY <1>9, <2>2 DEF x
  <2> QED
    BY <1>9, <1>10, <2>1, <2>2
<1>12. ASSUME NEW p PROVE p \in pd \ M <=> Waiting(out, rs, k + 1, p)
  <2>1. p \in pd \ M => Waiting(out, rs, k + 1, p)
    <3> SUFFICES ASSUME p \in pd, p \notin M PROVE Waiting(out, rs, k + 1, p)
      OBVIOUS
    <3>1. PICK j \in 1 .. Len(rs) : p = <<rs[j].header.seq_num, j>> /\ \A y \in 1 .. k : out[y].request # j
      BY <1>2 DEF Waiting
    <3>2. p # <<s, i>>
      BY <1>7
    <3>3. j # i
      BY <3>1, <3>2
    <3>4. \A y \in 1 .. k + 1 : out[y].request # j
      BY <1>10, <3>1, <3>3
    <3> QED
      BY <3>1, <3>4 DEF Waiting
  <2>2. Waiting(out, rs, k + 1, p) => p \in pd \ M
    <3> SUFFICES ASSUME Waiting(out, rs, k + 1, p) PROVE p \in pd /\ p \notin M
      OBVIOUS
    <3>1. PICK j \in 1 .. Len(rs) : p = <<rs[j].header.seq_num, j>> /\ \A y \in 1 .. k + 1 : out[y].request # j
      BY DEF Waiting
    <3>2. n \in 1 .. k + 1 /\ \A y \in 1 .. k : y \in 1 .. k + 1
      BY <1>2
    <3>3. j # i
      BY <3>1, <3>2
    <3>4. p \in pd
      BY <1>2, <3>1, <3>2 DEF Waiting
    <3>5. p # <<s, i>>
      BY <3>1, <3>3
    <3> QED
      BY <1>7, <3>4, <3>5
  <2> QED
    BY <2>1, <2>2
<1>13. Heard(out, rs, more, pd \ M)
  BY <1>9, <1>11, <1>12 DEF Heard
<1> QED
  BY <1>7, <1>13 DEF more, x, Recognised

(* Numbers as large as these do not wrap. *)
LEMMA SmallNumbers ==
    ASSUME NEW next \in Nat, NEW m \in Nat, m < MaxRequests, next <= 2 * m + 1
    PROVE  (next + 1) % U32 = next + 1 /\ (next + 1 + 1) % U32 = next + 1 + 1
<1>1. MaxRequests \in Nat /\ MaxRequests < Byte
  BY FramingAssumption, Words
<1>2. 2 * Byte < U16
  <2>1. 4 * Byte < Byte * Byte
    BY Words
  <2> QED
    BY <2>1, Words
<1>3. U16 <= U32
  BY Words
<1>4. next + 1 + 1 < U32
  BY <1>1, <1>2, <1>3, Words
<1>5. ASSUME NEW a \in Nat, NEW b \in Nat, a < b PROVE a % b = a
  BY <1>5
<1> QED
  BY <1>4, <1>5, Words

(* A new request has a new number. *)
LEMMA NumbersWrite ==
    ASSUME NEW rs \in Seq(Request), NEW next, Numbers(rs, next), Len(rs) < MaxRequests, NEW r \in Request,
           r.header.seq_num \in {next, next + 1}
    PROVE  Numbers(Append(rs, r), r.header.seq_num + 1)
<1> DEFINE more == Append(rs, r)
           m == Len(rs)
           s == r.header.seq_num
<1>1. m \in Nat /\ MaxRequests \in Nat /\ next \in Nat /\ next <= 2 * m + 1 /\ m < MaxRequests
  BY FramingAssumption DEF Numbers
<1>2. Len(more) = m + 1 /\ more[m + 1] = r /\ \A n \in 1 .. m : more[n] = rs[n]
  BY AppendProperties
<1> HIDE DEF more
<1>3. s \in Nat /\ next <= s /\ s + 1 <= 2 * (m + 1) + 1
  BY <1>1
<1>4. \A n \in 1 .. m + 1 : n \in 1 .. m \/ n = m + 1
  BY <1>1
<1>5. \A n \in 1 .. m : rs[n].header.seq_num \in Nat
  <2> TAKE n \in 1 .. m
  <2>1. rs[n] \in Request
    OBVIOUS
  <2>2. rs[n].header \in RequestHeader
    BY <2>1 DEF Request
  <2>3. rs[n].header.seq_num \in 0 .. U32 - 1
    BY <2>2 DEF RequestHeader
  <2> QED
    BY <2>3, Words
<1>6. \A n \in 1 .. m : rs[n].header.seq_num < next
  BY DEF Numbers
<1>7. \A n \in 1 .. m : rs[n].header.seq_num < s
  BY <1>1, <1>3, <1>5, <1>6
<1>8. \A n \in 1 .. m + 1 : more[n].header.seq_num < s + 1
  <2> TAKE n \in 1 .. m + 1
  <2>1. CASE n \in 1 .. m
    BY <1>2, <1>3, <1>5, <1>7, <2>1
  <2>2. CASE n = m + 1
    BY <1>2, <1>3, <2>2
  <2> QED
    BY <1>4, <2>1, <2>2
<1>9. ASSUME NEW a \in 1 .. m + 1, NEW b \in 1 .. m + 1, more[a].header.seq_num = more[b].header.seq_num
      PROVE  a = b
  <2>1. CASE a \in 1 .. m /\ b \in 1 .. m
    BY <1>2, <1>9, <2>1 DEF Numbers
  <2>2. CASE a = m + 1 /\ b \in 1 .. m
    BY <1>2, <1>3, <1>5, <1>7, <1>9, <2>2
  <2>3. CASE a \in 1 .. m /\ b = m + 1
    BY <1>2, <1>3, <1>5, <1>7, <1>9, <2>3
  <2> QED
    BY <1>4, <2>1, <2>2, <2>3
<1>10. Len(more) <= MaxRequests /\ s + 1 \in Nat /\ s + 1 <= 2 * Len(more) + 1
  BY <1>1, <1>2, <1>3
<1>11. Numbers(more, s + 1)
  BY <1>2, <1>8, <1>9, <1>10 DEF Numbers
<1> QED
  BY <1>11 DEF more

(* A ledger that agrees with every part of the state *)
Ledger(out, at) ==
    /\ Sound(out, requests, taken)
    /\ InHand(out, requests, taken, rpc, jobs)
    /\ Sent(out, at, requests, downstream, Len(received))
    /\ Heard(out, requests, received, pending)

(* The invariant of the answers' way *)
AnswerInv ==
    /\ StreamInv
    /\ ~broken
    /\ Numbers(requests, next_seq_num)
    /\ rpc = "payload" => requests[taken].chain \in Parses
    /\ \E out, at : Ledger(out, at)

(* The initial state *)
LEMMA AnswerInit == Init => AnswerInv
<1> SUFFICES ASSUME Init PROVE AnswerInv
  OBVIOUS
<1> DEFINE out == <<>>
           at == [n \in 1 .. 1 |-> 0]
<1>1. StreamInv
  BY StreamInit
<1>2. /\ requests = <<>> /\ next_seq_num = 1 /\ pending = {} /\ received = <<>> /\ broken = FALSE /\ downstream = <<>>
      /\ rpc = "header" /\ taken = 0 /\ jobs = {}
  BY DEF Init
<1>3. Len(requests) = 0 /\ Len(received) = 0 /\ Len(downstream) = 0 /\ requests \in Seq(Request)
  BY <1>1, <1>2 DEF StreamInv, ReaderInv, Request
<1>4. out \in Seq(Entry) /\ Len(out) = 0
  OBVIOUS
<1>5. at \in [1 .. 1 -> Int] /\ at[1] = 0
  OBVIOUS
<1> HIDE DEF out, at
<1>6. Sound(out, requests, taken)
  BY <1>2, <1>3, <1>4 DEF Sound
<1>7. InHand(out, requests, taken, rpc, jobs)
  BY <1>2 DEF InHand, Reading
<1>8. Sent(out, at, requests, downstream, Len(received))
  <2>1. Answers(requests, out) \in Seq(Bytes) /\ Len(Answers(requests, out)) = 0
    BY <1>4, <1>6, AnswersAre
  <2>2. downstream \in Bytes
    BY <1>2 DEF Bytes
  <2>3. Positions(at, Answers(requests, out), downstream, FALSE)
    BY <1>3, <1>5, <2>1, <2>2 DEF Positions
  <2>4. Len(received) + 1 = 1 /\ Len(received) \in 0 .. Len(out)
    BY <1>3, <1>4
  <2>5. at[Len(received) + 1] = 0
    BY <1>5, <2>4
  <2> QED
    BY <2>3, <2>4, <2>5 DEF Sent
<1>9. Heard(out, requests, received, pending)
  <2>1. received \in Seq(Replies)
    BY <1>2
  <2>2. \A p : ~Waiting(out, requests, Len(received), p)
    BY <1>3 DEF Waiting
  <2> QED
    BY <1>2, <1>3, <2>1, <2>2 DEF Heard
<1>10. Numbers(requests, next_seq_num)
  BY <1>2, <1>3, FramingAssumption DEF Numbers
<1>11. Ledger(out, at)
  BY <1>6, <1>7, <1>8, <1>9 DEF Ledger
<1> QED
  BY <1>1, <1>2, <1>10, <1>11 DEF AnswerInv

(* How many answers the client has read *)
LEMMA ReceivedFacts ==
    ASSUME NEW out, NEW at, Ledger(out, at)
    PROVE  Len(received) \in 0 .. Len(out) /\ Len(out) \in Nat
  BY DEF Ledger, Sent, Sound

(* A frame is written: its number is new, so the client waits for it too. *)
LEMMA AnswerWrite ==
    ASSUME AnswerInv, StreamInv', NEW request, Honest(request), WriteFrame(request),
           request.header.seq_num \in {next_seq_num, next_seq_num + 1},
           next_seq_num' = request.header.seq_num + 1
    PROVE  AnswerInv'
<1>1. PICK out, at : Ledger(out, at)
  BY DEF AnswerInv
<1>2. /\ Len(requests) < MaxRequests /\ requests' = Append(requests, request) /\ ~broken
      /\ pending' = (IF \E p \in pending : p[1] = request.header.seq_num THEN pending
                     ELSE pending \cup {<<request.header.seq_num, Len(requests')>>})
      /\ UNCHANGED <<received, broken, downstream, rpc, taken, jobs>>
  BY DEF WriteFrame, server
<1>3. Sound(out, requests, taken) /\ Len(received) \in 0 .. Len(out)
  BY <1>1, ReceivedFacts DEF Ledger
<1>4. requests \in Seq(Request) /\ request \in Request
  BY <1>3 DEF Sound, Honest
<1>5. /\ Sound(out, requests', taken) /\ Answers(requests', out) = Answers(requests, out)
      /\ Len(requests') = Len(requests) + 1 /\ \A i \in 1 .. Len(requests) : requests'[i] = requests[i]
  BY <1>2, <1>3, SoundWrite
<1>6. \A p \in pending : p[1] # request.header.seq_num
  <2> TAKE p \in pending
  <2>1. PICK i \in 1 .. Len(requests) : p = <<requests[i].header.seq_num, i>>
    BY <1>1 DEF Ledger, Heard, Waiting
  <2>2. requests[i].header.seq_num < next_seq_num /\ next_seq_num \in Nat
    BY DEF AnswerInv, Numbers
  <2>3. requests[i] \in Request
    BY <1>4
  <2>4. requests[i].header.seq_num \in Nat
    BY <2>3, Words DEF Request, RequestHeader
  <2>5. requests[i].header.seq_num # request.header.seq_num
    BY <2>2, <2>4
  <2> QED
    BY <2>1, <2>5
<1>7. pending' = pending \cup {<<request.header.seq_num, Len(requests) + 1>>}
  BY <1>2, <1>5, <1>6
<1>8. Heard(out, requests', received, pending')
  BY <1>1, <1>2, <1>3, <1>7, HeardWrite DEF Ledger
<1>9. InHand(out, requests', taken, rpc, jobs)
  BY <1>1, <1>2, <1>3, InHandWrite DEF Ledger
<1>10. Sent(out, at, requests', downstream, Len(received))
  BY <1>1, <1>5 DEF Ledger, Sent
<1>11. Ledger(out, at)'
  BY <1>2, <1>5, <1>8, <1>9, <1>10 DEF Ledger
<1>12. Numbers(requests', next_seq_num')
  BY <1>2, <1>4, NumbersWrite DEF AnswerInv
<1>13. rpc' = "payload" => requests'[taken'].chain \in Parses
  <2>1. rpc = "payload" => taken \in 1 .. Len(requests)
    BY DEF AnswerInv, StreamInv
  <2> QED
    BY <1>2, <1>5, <2>1 DEF AnswerInv
<1>14. (\E o, t : Ledger(o, t))'
  BY <1>11
<1> QED
  BY <1>2, <1>12, <1>13, <1>14 DEF AnswerInv

(* send *)
LEMMA AnswerSend ==
    ASSUME AnswerInv, StreamInv', LengthsFit, NEW image \in Images, NEW chain \in Chains, NEW flags \in Flags,
           send(image, chain, flags)
    PROVE  AnswerInv'
<1>1. PICK request : /\ Honest(request) /\ WriteFrame(request) /\ request.header.seq_num = next_seq_num
                     /\ next_seq_num' = (next_seq_num + 1) % U32
  BY SendIsHonest DEF AnswerInv, StreamInv
<1>2. /\ next_seq_num \in Nat /\ next_seq_num <= 2 * Len(requests) + 1 /\ Len(requests) < MaxRequests
      /\ Len(requests) \in Nat
  BY <1>1 DEF AnswerInv, Numbers, WriteFrame, StreamInv, ReaderInv
<1>3. next_seq_num' = request.header.seq_num + 1
  BY <1>1, <1>2, SmallNumbers
<1> QED
  BY <1>1, <1>3, AnswerWrite

(* send_raw *)
LEMMA AnswerSendRaw ==
    ASSUME AnswerInv, StreamInv', NEW raw \in RawRequests,
           NEW seq \in {next_seq_num, (next_seq_num + 1) % U32}, send_raw(raw, seq)
    PROVE  AnswerInv'
<1>1. PICK request : Honest(request) /\ WriteFrame(request) /\ request.header.seq_num = seq
  BY SendRawIsHonest DEF AnswerInv, StreamInv
<1>2. /\ next_seq_num \in Nat /\ next_seq_num <= 2 * Len(requests) + 1 /\ Len(requests) < MaxRequests
      /\ Len(requests) \in Nat
  BY <1>1 DEF AnswerInv, Numbers, WriteFrame, StreamInv, ReaderInv
<1>3. (next_seq_num + 1) % U32 = next_seq_num + 1 /\ (next_seq_num + 1 + 1) % U32 = next_seq_num + 1 + 1
  BY <1>2, SmallNumbers
<1>4. seq \in {next_seq_num, next_seq_num + 1}
  BY <1>3
<1>5. (seq + 1) % U32 = seq + 1
  BY <1>3, <1>4
<1>6. next_seq_num' = seq + 1
  <2>1. next_seq_num' = IF next_seq_num > seq + 1 THEN next_seq_num ELSE seq + 1
    BY <1>5 DEF send_raw
  <2>2. ~(next_seq_num > seq + 1)
    BY <1>2, <1>4
  <2> QED
    BY <2>1, <2>2
<1> QED
  BY <1>1, <1>4, <1>6, AnswerWrite

(* The writer's responses are the answers of the ledger. *)
LEMMA ErrorIsAnswer ==
    ASSUME NEW r, Honest(r), NEW status \in Statuses, status # kOk
    PROVE  ErrorResponse(r.header.seq_num, status) = AnswerBytes(r, status)
<1> DEFINE h == ResponseOf(r, status)
           a == encode_response_header(h)
<1>1. Body(r, status) = <<>>
  BY DEF Body
<1>2. Len(Body(r, status)) = 0
  BY <1>1
<1>3. h = [magic |-> kMagic, version |-> kVersion, status |-> status, seq_num |-> r.header.seq_num,
           width |-> 0, height |-> 0, channels |-> 0, payload_len |-> 0]
  BY <1>2 DEF ResponseOf
<1>4. ErrorResponse(r.header.seq_num, status) = a
  BY <1>3 DEF ErrorResponse
<1>5. a \in Bytes
  BY ResponseOfType, ResponseRoundTrip
<1>6. AnswerBytes(r, status) = a \o <<>>
  BY <1>1 DEF AnswerBytes
<1> HIDE DEF a
<1>7. a \o <<>> = a
  BY <1>5, ConcatSimplifications DEF Bytes
<1> QED
  BY <1>4, <1>6, <1>7

(* An ok response *)
LEMMA OkIsAnswer ==
    ASSUME NEW r, Honest(r)
    PROVE  OkResponse(JobOf(r)) = AnswerBytes(r, kOk)
<1> DEFINE job == JobOf(r)
           payload == IF Echo(job.header) THEN job.payload ELSE <<>>
<1>1. job.header = r.header /\ job.payload = r.payload
  BY DEF JobOf
<1>2. payload = Body(r, kOk)
  BY <1>1 DEF Body
<1>3. ResponseOf(r, kOk) =
          [magic |-> kMagic, version |-> kVersion, status |-> kOk,
           seq_num |-> job.header.seq_num, width |-> job.header.width,
           height |-> job.header.height, channels |-> job.header.channels, payload_len |-> Len(payload)]
  BY <1>1, <1>2 DEF ResponseOf
<1> QED
  BY <1>1, <1>2, <1>3 DEF OkResponse, AnswerBytes

(* What a status can be *)
LEMMA JudgedStatus == ASSUME NEW r, NEW status, Judged(r, status) PROVE status \in Statuses
  BY DEF Judged, Statuses, validate_request_header, kOk, kBadMagic, kUnsupportedVersion, kPayloadTooLarge, kBadChain,
         kLengthMismatch, kInternalError

(* A ledger with one answer more *)
LEMMA LedgerAnswer ==
    ASSUME NEW out, NEW at, Ledger(out, at), Sound(out, requests, taken'), UNCHANGED <<requests, received, pending>>,
           NEW i, Open(out, taken', i), NEW status, Judged(requests[i], status),
           downstream' = downstream \o AnswerBytes(requests[i], status),
           ~Reading(rpc'),
           \A job \in jobs' : \E j : /\ Open(out, taken', j) /\ j # i
                                     /\ job = JobOf(requests[j]) /\ Accepted(requests[j])
    PROVE  (\E o, t : Ledger(o, t))'
<1> DEFINE entry == [request |-> i, status |-> status]
<1>1. PICK more : more = Append(out, entry)
  OBVIOUS
<1>2. status \in Statuses /\ i \in Nat /\ Len(received) \in 0 .. Len(out)
  BY JudgedStatus, ReceivedFacts DEF Open, Sound
<1>3. Sound(more, requests, taken')
  BY <1>1, <1>2, SoundAnswer
<1>4. PICK to : Sent(more, to, requests, downstream', Len(received))
  BY <1>1, <1>2, SentAnswer DEF Ledger
<1>5. Heard(more, requests, received, pending)
  <2>1. entry \in Entry
    BY <1>2 DEF Entry
  <2> HIDE DEF entry
  <2> QED
    BY <1>1, <1>2, <2>1, HeardAnswer DEF Ledger
<1>6. InHand(more, requests, taken', rpc', jobs')
  <2>1. ASSUME NEW job \in jobs'
        PROVE  \E j : /\ Open(more, taken', j) /\ job = JobOf(requests[j]) /\ Accepted(requests[j])
                      /\ Reading(rpc') => j # taken'
    <3>1. PICK j : Open(out, taken', j) /\ j # i /\ job = JobOf(requests[j]) /\ Accepted(requests[j])
      OBVIOUS
    <3>2. Open(more, taken', j)
      BY <1>1, <1>2, <3>1, OpenAnswer
    <3> QED
      BY <3>1, <3>2
  <2> QED
    BY <2>1 DEF InHand
<1>7. Ledger(more, to)'
  BY <1>3, <1>4, <1>5, <1>6 DEF Ledger
<1> QED
  BY <1>7

(* Reading a header: the frame is answered, or it is open. *)
LEMMA AnswerReadHeader == ASSUME AnswerInv, StreamInv', ReadHeader PROVE AnswerInv'
<1>1. PICK out, at : Ledger(out, at)
  BY DEF AnswerInv
<1>2. PICK up : Upstream(up)
  BY DEF AnswerInv, StreamInv
<1>3. taken' = taken + 1 /\ taken + 1 \in 1 .. Len(requests) /\ header' = requests[taken + 1].header
  BY <1>2, HeaderRead DEF AnswerInv
<1>4. UNCHANGED <<requests, next_seq_num, pending, received, broken, jobs>> /\ rpc = "header"
  BY DEF ReadHeader, client
<1>5. Sound(out, requests, taken) /\ taken + 1 <= Len(requests)
  BY <1>1, <1>3 DEF Ledger, Sound
<1>6. /\ Sound(out, requests, taken') /\ Open(out, taken', taken')
      /\ \A i : Open(out, taken, i) => Open(out, taken', i) /\ i # taken'
  BY <1>3, <1>5, SoundTake
<1>7. \A job \in jobs : \E j : /\ Open(out, taken', j) /\ j # taken' /\ job = JobOf(requests[j])
                               /\ Accepted(requests[j])
  <2> TAKE job \in jobs
  <2>1. PICK i : Open(out, taken, i) /\ job = JobOf(requests[i]) /\ Accepted(requests[i])
    BY <1>1 DEF Ledger, InHand
  <2> QED
    BY <1>6, <2>1
<1> DEFINE r == requests[taken']
           status == validate_request_header(header')
<1>8. r.header = header' /\ Honest(r)
  BY <1>3 DEF AnswerInv, StreamInv
<1>9. rpc' # "payload"
  BY DEF ReadHeader, Reject
<1>10. CASE status = kOk
  <2>1. rpc' = "chain" /\ UNCHANGED downstream
    BY <1>10 DEF ReadHeader
  <2>2. InHand(out, requests, taken', rpc', jobs')
    BY <1>4, <1>6, <1>7 DEF InHand
  <2>3. Ledger(out, at)'
    BY <1>1, <1>4, <1>6, <2>1, <2>2 DEF Ledger
  <2>4. (\E o, t : Ledger(o, t))'
    BY <2>3
  <2> QED
    BY <1>4, <1>9, <2>4 DEF AnswerInv
<1>11. CASE status # kOk
  <2>1. Reject(header'.seq_num, status)
    BY <1>11 DEF ReadHeader
  <2>2. ~Reading(rpc')
    BY <2>1 DEF Reject, Reading
  <2>3. Judged(r, status)
    BY <1>8, <1>11 DEF Judged
  <2>4. downstream' = downstream \o AnswerBytes(r, status)
    BY <1>8, <1>11, <2>1, <2>3, ErrorIsAnswer, JudgedStatus DEF Reject
  <2> HIDE DEF status
  <2>5. (\E o, t : Ledger(o, t))'
    BY <1>1, <1>4, <1>6, <1>7, <2>2, <2>3, <2>4, LedgerAnswer
  <2> QED
    BY <1>4, <1>9, <2>5 DEF AnswerInv
<1> QED
  BY <1>10, <1>11

(* Reading the op chain: it parses, or the frame is answered. *)
LEMMA AnswerReadChain == ASSUME AnswerInv, StreamInv', ReadChain PROVE AnswerInv'
<1>1. PICK out, at : Ledger(out, at)
  BY DEF AnswerInv
<1>2. PICK up : Upstream(up)
  BY DEF AnswerInv, StreamInv
<1>3. /\ taken \in 1 .. Len(requests) /\ header = requests[taken].header
      /\ First(upstream, Wanted) = requests[taken].chain
  BY <1>2, ChainRead DEF AnswerInv
<1>4. UNCHANGED <<requests, next_seq_num, pending, received, broken, jobs, taken>> /\ rpc = "chain"
  BY DEF ReadChain, client
<1>5. Sound(out, requests, taken) /\ Open(out, taken, taken)
  BY <1>1, <1>4 DEF Ledger, InHand, Reading
<1>6. \A job \in jobs : \E j : /\ Open(out, taken, j) /\ j # taken /\ job = JobOf(requests[j])
                               /\ Accepted(requests[j])
  BY <1>1, <1>4 DEF Ledger, InHand, Reading
<1> DEFINE r == requests[taken]
<1>7. r.header = header /\ Honest(r) /\ validate_request_header(r.header) = kOk
  BY <1>3, <1>4 DEF AnswerInv, StreamInv, ReaderInv, Validated
<1>8. CASE r.chain \in Parses
  <2>1. rpc' = "payload" /\ UNCHANGED downstream
    BY <1>3, <1>8 DEF ReadChain
  <2>2. InHand(out, requests, taken', rpc', jobs')
    BY <1>4, <1>5, <1>6 DEF InHand
  <2>3. Ledger(out, at)'
    BY <1>1, <1>4, <2>1, <2>2 DEF Ledger
  <2>4. (\E o, t : Ledger(o, t))'
    BY <2>3
  <2> QED
    BY <1>4, <1>8, <2>4 DEF AnswerInv
<1>9. CASE r.chain \notin Parses
  <2>1. Reject(header.seq_num, kBadChain)
    BY <1>3, <1>9 DEF ReadChain
  <2>2. ~Reading(rpc') /\ rpc' # "payload"
    BY <2>1 DEF Reject, Reading
  <2>3. Judged(r, kBadChain) /\ kBadChain # kOk
    BY <1>7, <1>9 DEF Judged, kBadChain, kOk
  <2>4. downstream' = downstream \o AnswerBytes(r, kBadChain)
    BY <1>7, <2>1, <2>3, ErrorIsAnswer, JudgedStatus DEF Reject
  <2>5. (\E o, t : Ledger(o, t))'
    BY <1>1, <1>4, <1>5, <1>6, <2>2, <2>3, <2>4, LedgerAnswer
  <2> QED
    BY <1>4, <2>2, <2>5 DEF AnswerInv
<1> QED
  BY <1>8, <1>9

(* Reading the payload: the frame is handed on. *)
LEMMA AnswerReadPayload == ASSUME AnswerInv, StreamInv', ReadPayload PROVE AnswerInv'
<1>1. PICK out, at : Ledger(out, at)
  BY DEF AnswerInv
<1>2. PICK up : Upstream(up)
  BY DEF AnswerInv, StreamInv
<1>3. /\ taken \in 1 .. Len(requests) /\ header = requests[taken].header
      /\ First(upstream, Wanted) = requests[taken].payload
  BY <1>2, PayloadRead DEF AnswerInv
<1>4. /\ UNCHANGED <<requests, next_seq_num, pending, received, broken, downstream, taken>>
      /\ rpc = "payload" /\ rpc' = "header"
      /\ jobs' = jobs \cup {[header |-> header, payload |-> First(upstream, Wanted)]}
  BY DEF ReadPayload, client
<1>5. Open(out, taken, taken)
  BY <1>1, <1>4 DEF Ledger, InHand, Reading
<1>6. Accepted(requests[taken])
  BY <1>3, <1>4 DEF Accepted, AnswerInv, StreamInv, ReaderInv, Validated
<1>7. jobs' = jobs \cup {JobOf(requests[taken])}
  BY <1>3, <1>4 DEF JobOf
<1>8. InHand(out, requests, taken', rpc', jobs')
  <2>1. ASSUME NEW job \in jobs'
        PROVE  \E i : Open(out, taken, i) /\ job = JobOf(requests[i]) /\ Accepted(requests[i])
    <3>1. CASE job \in jobs
      BY <1>1, <3>1 DEF Ledger, InHand
    <3>2. CASE job = JobOf(requests[taken])
      BY <1>5, <1>6, <3>2
    <3> QED
      BY <1>7, <3>1, <3>2
  <2> QED
    BY <1>4, <2>1 DEF InHand, Reading
<1>9. Ledger(out, at)'
  BY <1>1, <1>4, <1>8 DEF Ledger
<1>10. (\E o, t : Ledger(o, t))'
  BY <1>9
<1> QED
  BY <1>4, <1>10 DEF AnswerInv

(* The worker finishes a job: its frame is answered, and no other. *)
LEMMA AnswerComplete == ASSUME AnswerInv, StreamInv', NEW job \in jobs, Complete(job) PROVE AnswerInv'
<1>1. PICK out, at : Ledger(out, at)
  BY DEF AnswerInv
<1>2. PICK i : /\ Open(out, taken, i) /\ job = JobOf(requests[i]) /\ Accepted(requests[i])
               /\ Reading(rpc) => i # taken
  BY <1>1 DEF Ledger, InHand
<1>3. /\ UNCHANGED <<requests, next_seq_num, pending, received, broken, rpc, taken>> /\ jobs' = jobs \ {job}
      /\ \/ downstream' = downstream \o ErrorResponse(job.header.seq_num, kInternalError)
         \/ Usable(job.header) /\ downstream' = downstream \o OkResponse(job)
  BY DEF Complete, client
<1>4. Sound(out, requests, taken)
  BY <1>1 DEF Ledger
<1> DEFINE r == requests[i]
<1>5. Honest(r) /\ i \in Nat
  BY <1>2, <1>4 DEF Open, Sound
<1>6. job.header = r.header
  BY <1>2 DEF JobOf
<1>7. PICK status : Judged(r, status) /\ downstream' = downstream \o AnswerBytes(r, status)
  <2>1. CASE downstream' = downstream \o ErrorResponse(job.header.seq_num, kInternalError)
    <3>1. Judged(r, kInternalError) /\ kInternalError # kOk
      BY <1>2 DEF Judged, Accepted, kInternalError, kOk
    <3>2. ErrorResponse(job.header.seq_num, kInternalError) = AnswerBytes(r, kInternalError)
      BY <1>5, <1>6, <3>1, ErrorIsAnswer, JudgedStatus
    <3> QED
      BY <2>1, <3>1, <3>2
  <2>2. CASE Usable(job.header) /\ downstream' = downstream \o OkResponse(job)
    <3>1. Judged(r, kOk)
      BY <1>2, <1>6, <2>2 DEF Judged, Accepted
    <3>2. OkResponse(job) = AnswerBytes(r, kOk)
      BY <1>2, <1>5, OkIsAnswer
    <3> QED
      BY <2>2, <3>1, <3>2
  <2> QED
    BY <1>3, <2>1, <2>2
<1>8. \A j \in jobs' : \E k : /\ Open(out, taken, k) /\ k # i /\ j = JobOf(requests[k]) /\ Accepted(requests[k])
                              /\ Reading(rpc) => k # taken
  <2> TAKE j \in jobs'
  <2>1. j \in jobs /\ j # job
    BY <1>3
  <2>2. PICK k : /\ Open(out, taken, k) /\ j = JobOf(requests[k]) /\ Accepted(requests[k])
                 /\ Reading(rpc) => k # taken
    BY <1>1, <2>1 DEF Ledger, InHand
  <2>3. k # i
    BY <1>2, <2>1, <2>2
  <2> QED
    BY <2>2, <2>3
<1>9. (\E o, t : Ledger(o, t))'
  <2> DEFINE entry == [request |-> i, status |-> status]
  <2>1. PICK more : more = Append(out, entry)
    OBVIOUS
  <2>2. status \in Statuses /\ Len(received) \in 0 .. Len(out)
    BY <1>1, <1>7, JudgedStatus, ReceivedFacts
  <2>3. Sound(more, requests, taken)
    BY <1>2, <1>4, <1>7, <2>1, <2>2, SoundAnswer
  <2>4. PICK to : Sent(more, to, requests, downstream', Len(received))
    BY <1>1, <1>2, <1>4, <1>7, <2>1, <2>2, SentAnswer DEF Ledger
  <2>5. Heard(more, requests, received, pending)
    <3>1. entry \in Entry
      BY <1>5, <2>2 DEF Entry
    <3> HIDE DEF entry
    <3> QED
      BY <1>1, <1>4, <2>1, <2>2, <3>1, HeardAnswer DEF Ledger
  <2>6. \A k : Open(out, taken, k) /\ k # i => Open(more, taken, k)
    BY <1>4, <1>5, <2>1, <2>2, OpenAnswer
  <2>7. Reading(rpc) => Open(more, taken, taken)
    BY <1>1, <1>2, <2>6 DEF Ledger, InHand
  <2>8. ASSUME NEW j \in jobs'
        PROVE  \E k : /\ Open(more, taken, k) /\ j = JobOf(requests[k]) /\ Accepted(requests[k])
                      /\ Reading(rpc) => k # taken
    BY <1>8, <2>6
  <2>9. InHand(more, requests, taken, rpc, jobs')
    BY <2>7, <2>8 DEF InHand
  <2>10. Ledger(more, to)'
    BY <1>3, <2>3, <2>4, <2>5, <2>9 DEF Ledger
  <2> QED
    BY <2>10
<1> QED
  BY <1>3, <1>9 DEF AnswerInv

(* The client takes the next answer and knows whose it is. *)
LEMMA AnswerReceive == ASSUME LimitsAgree, AnswerInv, StreamInv', receive PROVE AnswerInv'
<1>1. PICK out, at : Ledger(out, at)
  BY DEF AnswerInv
<1> DEFINE n == Len(received) + 1
           i == out[n].request
           r == requests[i]
           status == out[n].status
           response == ResponseOf(r, status)
           body == Rest(downstream, 23)
           b == Body(r, status)
           matched == Match(response)
<1>2. /\ Len(downstream) >= 23 /\ ~broken
      /\ UNCHANGED <<requests, next_seq_num, rpc, taken, jobs>>
  BY DEF receive, kResponseHeaderBytes, server
<1>3. Sound(out, requests, taken) /\ Sent(out, at, requests, downstream, Len(received))
      /\ Heard(out, requests, received, pending)
  BY <1>1 DEF Ledger
<1>4. n \in 1 .. Len(out) /\ decode_response_header(First(downstream, 23)) = response
  BY <1>2, <1>3, AnswerHeaderRead
<1>5. Honest(r) /\ Judged(r, status)
  BY <1>3, <1>4, EntryFacts
<1>6. ~Malformed(response)
  BY <1>5, AnswersAreWellFormed
<1>7. response.payload_len = Len(b) /\ response.seq_num = r.header.seq_num /\ response.status = status
  BY DEF ResponseOf
<1>8. /\ Len(body) >= Len(b) /\ downstream' = Rest(body, Len(b)) /\ pending' = pending \ matched /\ UNCHANGED broken
      /\ received' = Append(received, [request |-> IF matched = {} THEN 0 ELSE (CHOOSE p \in matched : TRUE)[2],
                                       status |-> status, width |-> response.width,
                                       height |-> response.height, channels |-> response.channels,
                                       image |-> First(body, Len(b))])
  <2> HIDE DEF response, b, status
  <2> QED
    BY <1>4, <1>6, <1>7 DEF receive, kResponseHeaderBytes
<1>9. First(body, Len(b)) = b /\ \E to : Sent(out, to, requests, Rest(body, Len(b)), n)
  BY <1>2, <1>3, <1>8, AnswerBodyRead
<1>10. matched = {<<r.header.seq_num, i>>} /\ Heard(out, requests, Append(received, Reply(r, out[n])), pending \ matched)
  <2>1. matched = Numbered(pending, r.header.seq_num)
    BY <1>7 DEF Match, Numbered
  <2>2. NextAnswer(out, received, n) /\ Numbers(requests, next_seq_num)
    BY <1>4 DEF AnswerInv, NextAnswer
  <2> HIDE DEF matched, n
  <2>3. Recognised(out, requests, received, pending, n)
    BY <1>3, <2>2, HeardReply
  <2> QED
    BY <2>1, <2>3 DEF Recognised
<1>11. (IF matched = {} THEN 0 ELSE (CHOOSE p \in matched : TRUE)[2]) = i
  <2> HIDE DEF matched
  <2>1. matched # {} /\ (CHOOSE p \in matched : TRUE) \in matched
    BY <1>10
  <2>2. PICK p : p = CHOOSE q \in matched : TRUE
    OBVIOUS
  <2>3. p = <<r.header.seq_num, i>>
    BY <1>10, <2>1, <2>2
  <2>4. p[2] = i
    <3> HIDE DEF i, r
    <3> QED
      BY <2>3
  <2> QED
    BY <2>1, <2>2, <2>4
<1>12. received' = Append(received, Reply(r, out[n]))
  <2> HIDE DEF matched, body
  <2> QED
    BY <1>8, <1>9, <1>11 DEF Reply
<1>13. Len(received') = n
  BY <1>3, <1>12 DEF Heard
<1>14. PICK to : Sent(out, to, requests, downstream', Len(received'))
  BY <1>8, <1>9, <1>13
<1>15. Heard(out, requests, received', pending')
  BY <1>8, <1>10, <1>12
<1>16. Ledger(out, to)'
  BY <1>1, <1>2, <1>14, <1>15 DEF Ledger
<1>17. (\E o, t : Ledger(o, t))'
  BY <1>16
<1> QED
  BY <1>2, <1>8, <1>17 DEF AnswerInv

(* Steps that do not touch the answers *)
LEMMA AnswerUnchanged ==
    ASSUME AnswerInv, StreamInv', rpc' = rpc \/ ~Reading(rpc'),
           UNCHANGED <<requests, next_seq_num, pending, received, broken, downstream, taken, jobs>>
    PROVE  AnswerInv'
<1>1. PICK out, at : Ledger(out, at)
  BY DEF AnswerInv
<1>2. InHand(out, requests, taken, rpc', jobs)
  BY <1>1 DEF Ledger, InHand
<1>3. Ledger(out, at)'
  BY <1>1, <1>2 DEF Ledger
<1>4. (\E o, t : Ledger(o, t))'
  BY <1>3
<1>5. rpc' = "payload" => requests'[taken'].chain \in Parses
  BY DEF AnswerInv, Reading
<1> QED
  BY <1>4, <1>5 DEF AnswerInv

(* Every step keeps the invariant. *)
LEMMA AnswerNext == LengthsFit /\ LimitsAgree /\ AnswerInv /\ [Next]_vars => AnswerInv'
<1> SUFFICES ASSUME LengthsFit, LimitsAgree, AnswerInv, [Next]_vars PROVE AnswerInv'
  OBVIOUS
<1>1. StreamInv'
  BY StreamNext DEF AnswerInv
<1>2. ASSUME NEW image \in Images, NEW chain \in Chains, NEW flags \in Flags, send(image, chain, flags)
      PROVE  AnswerInv'
  BY <1>1, <1>2, AnswerSend
<1>3. ASSUME NEW raw \in RawRequests, NEW seq \in {next_seq_num, (next_seq_num + 1) % U32}, send_raw(raw, seq)
      PROVE  AnswerInv'
  BY <1>1, <1>3, AnswerSendRaw
<1>4. CASE receive
  BY <1>1, <1>4, AnswerReceive
<1>5. CASE HangUp
  BY <1>1, <1>5, AnswerUnchanged DEF HangUp, server
<1>6. CASE Reader
  <2>1. CASE ReadFails
    BY <1>1, <2>1, AnswerUnchanged DEF ReadFails, client, Reading
  <2>2. CASE drain_exactly
    BY <1>1, <2>2, AnswerUnchanged DEF drain_exactly, client, Reading
  <2> QED
    BY <1>1, <1>6, <2>1, <2>2, AnswerReadHeader, AnswerReadChain, AnswerReadPayload DEF Reader
<1>7. CASE Worker
  BY <1>1, <1>7, AnswerComplete DEF Worker
<1>8. CASE UNCHANGED vars
  BY <1>1, <1>8, AnswerUnchanged DEF vars, client, server
<1> QED
  BY <1>2, <1>3, <1>4, <1>5, <1>6, <1>7, <1>8 DEF Next

(* What the client has received so far, entry by entry of the ledger *)
LEMMA ReceivedIsJudged ==
    ASSUME AnswerInv, NEW n \in 1 .. Len(received)
    PROVE  \E entry : /\ entry.request \in 1 .. Len(requests) /\ received[n] = Reply(requests[entry.request], entry)
                      /\ Judged(requests[entry.request], entry.status)
<1>1. PICK out, at : Ledger(out, at)
  BY DEF AnswerInv
<1>2. Len(received) \in 0 .. Len(out) /\ Len(out) \in Nat
  BY <1>1, ReceivedFacts
<1>3. n \in 1 .. Len(out)
  BY <1>2
<1>4. Sound(out, requests, taken)
  BY <1>1 DEF Ledger
<1>5. out[n].request \in 1 .. Len(requests) /\ Judged(requests[out[n].request], out[n].status)
  BY <1>3, <1>4, EntryFacts
<1>6. received[n] = Reply(requests[out[n].request], out[n])
  BY <1>1 DEF Ledger, Heard
<1> QED
  BY <1>5, <1>6

(* Every answer finds its request, in whatever order the jobs finished and *)
(* whatever was refused in between; an ok echo brings that request's own   *)
(* pixels, and the client never meets a response it must call malformed.   *)
(* Assumed are lengths that their fields can tell, and a client that takes *)
(* frames as large as the server's limit.                                  *)
THEOREM AnswersFindTheirRequests ==
    ASSUME LengthsFit, LimitsAgree
    PROVE  Spec => []ResponsesMatchRequests
<1>1. AnswerInv => ResponsesMatchRequests
  <2> SUFFICES ASSUME AnswerInv PROVE ResponsesMatchRequests
    OBVIOUS
  <2>1. ~broken
    BY DEF AnswerInv
  <2>2. ASSUME NEW n \in 1 .. Len(received)
        PROVE  /\ received[n].request # 0
               /\ LET request == requests[received[n].request]
                  IN  received[n].status = kOk =>
                         /\ received[n].image = IF Echo(request.header) THEN request.payload ELSE <<>>
                         /\ received[n].width = request.header.width
                         /\ received[n].height = request.header.height
    <3>1. PICK entry : /\ entry.request \in 1 .. Len(requests)
                       /\ received[n] = Reply(requests[entry.request], entry)
      BY ReceivedIsJudged
    <3> DEFINE r == requests[entry.request]
    <3>2. /\ received[n].request = entry.request /\ received[n].status = entry.status
          /\ received[n].width = ResponseOf(r, entry.status).width
          /\ received[n].height = ResponseOf(r, entry.status).height
          /\ received[n].image = Body(r, entry.status)
      BY <3>1 DEF Reply
    <3>3. ResponseOf(r, kOk).width = r.header.width /\ ResponseOf(r, kOk).height = r.header.height
      BY DEF ResponseOf
    <3>4. Body(r, kOk) = IF Echo(r.header) THEN r.payload ELSE <<>>
      BY DEF Body
    <3>5. received[n].request # 0
      BY <3>1, <3>2
    <3> QED
      BY <3>2, <3>3, <3>4, <3>5
  <2> QED
    BY <2>1, <2>2 DEF ResponsesMatchRequests
<1>2. AnswerInv /\ [Next]_vars => AnswerInv'
  BY AnswerNext
<1> QED
  BY <1>1, <1>2, AnswerInit, PTL DEF Spec

----------------------------------------------------------------------------
(* The documented status                                                   *)

(* The check of the dimensions over the integers and in the code: they     *)
(* differ in the frames whose product wraps and in no other, and of those  *)
(* a backend takes none.                                                   *)
LEMMA DimensionChecksDiffer ==
    ASSUME NEW h \in RequestHeader
    PROVE  LET mismatch == \/ ~is_supported_channel_count(h.channels)
                           \/ h.width = 0 \/ h.height = 0
                           \/ DimensionProduct(h) # h.payload_len
           IN  /\ (ByteCount(h) # h.payload_len \/ ByteCount(h) = 0 \/ ~is_supported_channel_count(h.channels))
                  <=> mismatch \/ Wrapped(h)
               /\ Wrapped(h) => ~mismatch /\ ~Usable(h)
<1> DEFINE w == h.width
           t == h.height
           c == h.channels
           p == w * t
<1>1. w \in Nat /\ t \in Nat /\ c \in Nat /\ h.payload_len \in 0 .. U32 - 1
  BY Words DEF RequestHeader
<1>2. p \in Nat
  BY <1>1
<1>3. ByteCount(h) = p * c /\ p * c \in Nat
  BY <1>1, <1>2 DEF ByteCount
<1>4. DimensionProduct(h) = ByteCount(h) % U64
  BY DEF DimensionProduct, ByteCount
<1>5. p = 0 <=> w = 0 \/ t = 0
  <2>1. ASSUME w # 0, t # 0 PROVE p > 0
    BY <1>1, <2>1
  <2>2. ASSUME w = 0 PROVE p = 0
    BY <1>1, <2>2
  <2>3. ASSUME t = 0 PROVE p = 0
    BY <1>1, <2>3
  <2> QED
    BY <2>1, <2>2, <2>3
<1>6. ASSUME is_supported_channel_count(c) PROVE p * c = 0 <=> p = 0
  <2>1. c \in {1, 3, 4}
    BY <1>6 DEF is_supported_channel_count
  <2> HIDE DEF p
  <2> QED
    BY <1>2, <2>1
<1>7. ASSUME ByteCount(h) = h.payload_len PROVE DimensionProduct(h) = h.payload_len
  <2>1. ASSUME NEW a \in Nat, NEW b \in Nat, a < b PROVE a % b = a
    BY <2>1
  <2>2. U32 \in Nat /\ U64 \in Nat /\ U32 <= U64
    BY Words DEF U64
  <2>3. ByteCount(h) \in Nat /\ ByteCount(h) < U64
    BY <1>1, <1>7, <2>2
  <2> QED
    BY <1>4, <1>7, <2>1, <2>2, <2>3
<1>8. ASSUME Usable(h) PROVE ~Wrapped(h)
  <2>1. DimensionProduct(h) = ByteCount(h)
    BY <1>8, UsableProductsDoNotWrap DEF ByteCount
  <2> QED
    BY <1>4, <2>1 DEF Wrapped
<1> HIDE DEF p
<1> QED
  BY <1>3, <1>4, <1>5, <1>6, <1>7, <1>8 DEF Wrapped

(* The status of the first check that fails *)
LEMMA FirstFailure ==
    ASSUME NEW r
    PROVE  LET h == r.header
           IN  Documented(r) =
                   IF h.magic # kMagic THEN kBadMagic
                   ELSE IF h.version # kVersion THEN kUnsupportedVersion
                   ELSE IF h.payload_len > max_payload_bytes THEN kPayloadTooLarge
                   ELSE IF h.chain_len > max_chain_len THEN kBadChain
                   ELSE IF ByteCount(h) # h.payload_len \/ ByteCount(h) = 0 \/ ~is_supported_channel_count(h.channels)
                        THEN kLengthMismatch
                   ELSE IF r.chain \notin Parses THEN kBadChain
                   ELSE kOk
<1> DEFINE h == r.header
           fails == <<h.magic # kMagic, h.version # kVersion, h.payload_len > max_payload_bytes,
                      h.chain_len > max_chain_len,
                      ByteCount(h) # h.payload_len \/ ByteCount(h) = 0 \/ ~is_supported_channel_count(h.channels),
                      r.chain \notin Parses>>
           code == <<kBadMagic, kUnsupportedVersion, kPayloadTooLarge, kBadChain, kLengthMismatch, kBadChain>>
           failing == {i \in DOMAIN fails : fails[i]}
           first == CHOOSE i \in failing : \A j \in failing : i <= j
<1>1. Documented(r) = IF failing = {} THEN kOk ELSE code[first]
  BY DEF Documented
<1>2. \A i : i \in failing <=> \/ i = 1 /\ h.magic # kMagic
                               \/ i = 2 /\ h.version # kVersion
                               \/ i = 3 /\ h.payload_len > max_payload_bytes
                               \/ i = 4 /\ h.chain_len > max_chain_len
                               \/ i = 5 /\ (\/ ByteCount(h) # h.payload_len \/ ByteCount(h) = 0
                                            \/ ~is_supported_channel_count(h.channels))
                               \/ i = 6 /\ r.chain \notin Parses
  <2>1. DOMAIN fails = 1 .. 6
    OBVIOUS
  <2>2. fails[1] <=> h.magic # kMagic
    BY Zenon
  <2>3. fails[2] <=> h.version # kVersion
    BY Zenon
  <2>4. fails[3] <=> h.payload_len > max_payload_bytes
    BY Zenon
  <2>5. fails[4] <=> h.chain_len > max_chain_len
    BY Zenon
  <2>6. fails[5] <=> (\/ ByteCount(h) # h.payload_len \/ ByteCount(h) = 0
                      \/ ~is_supported_channel_count(h.channels))
    BY Zenon
  <2>7. fails[6] <=> r.chain \notin Parses
    BY Zenon
  <2> HIDE DEF fails
  <2>8. \A i : i \in failing <=> i \in 1 .. 6 /\ fails[i]
    BY <2>1
  <2>9. \A i : i \in 1 .. 6 <=> i = 1 \/ i = 2 \/ i = 3 \/ i = 4 \/ i = 5 \/ i = 6
    OBVIOUS
  <2> HIDE DEF failing
  <2> QED
    BY <2>2, <2>3, <2>4, <2>5, <2>6, <2>7, <2>8, <2>9, Zenon
<1>3. /\ code[1] = kBadMagic /\ code[2] = kUnsupportedVersion /\ code[3] = kPayloadTooLarge /\ code[4] = kBadChain
      /\ code[5] = kLengthMismatch /\ code[6] = kBadChain
  OBVIOUS
<1> HIDE DEF fails, code, failing
<1>4. ASSUME NEW k \in 1 .. 6, k \in failing, \A j \in failing : k <= j PROVE Documented(r) = code[k]
  <2>1. first \in failing /\ \A j \in failing : first <= j
    BY <1>4
  <2>2. first \in 1 .. 6
    BY <1>2, <2>1
  <2>3. first = k
    BY <1>4, <2>1, <2>2
  <2> QED
    BY <1>1, <1>4, <2>3
<1>5. failing \subseteq 1 .. 6
  BY <1>2
<1>6. CASE 1 \in failing
  BY <1>2, <1>3, <1>4, <1>5, <1>6
<1>7. CASE 1 \notin failing /\ 2 \in failing
  <2>1. \A j \in failing : 2 <= j
    BY <1>5, <1>7
  <2> QED
    BY <1>2, <1>3, <1>4, <1>7, <2>1
<1>8. CASE 1 \notin failing /\ 2 \notin failing /\ 3 \in failing
  <2>1. \A j \in failing : 3 <= j
    BY <1>5, <1>8
  <2> QED
    BY <1>2, <1>3, <1>4, <1>8, <2>1
<1>9. CASE 1 \notin failing /\ 2 \notin failing /\ 3 \notin failing /\ 4 \in failing
  <2>1. \A j \in failing : 4 <= j
    BY <1>5, <1>9
  <2> QED
    BY <1>2, <1>3, <1>4, <1>9, <2>1
<1>10. CASE 1 \notin failing /\ 2 \notin failing /\ 3 \notin failing /\ 4 \notin failing /\ 5 \in failing
  <2>1. \A j \in failing : 5 <= j
    BY <1>5, <1>10
  <2> QED
    BY <1>2, <1>3, <1>4, <1>10, <2>1
<1>11. CASE /\ 1 \notin failing /\ 2 \notin failing /\ 3 \notin failing /\ 4 \notin failing /\ 5 \notin failing
            /\ 6 \in failing
  <2>1. \A j \in failing : 6 <= j
    BY <1>5, <1>11
  <2> QED
    BY <1>2, <1>3, <1>4, <1>11, <2>1
<1>12. CASE /\ 1 \notin failing /\ 2 \notin failing /\ 3 \notin failing /\ 4 \notin failing /\ 5 \notin failing
            /\ 6 \notin failing
  <2>1. failing = {}
    BY <1>5, <1>12
  <2> QED
    BY <1>1, <1>2, <1>12, <2>1
<1> QED
  BY <1>6, <1>7, <1>8, <1>9, <1>10, <1>11, <1>12

(* A frame is judged as documented, or its product wraps. *)
LEMMA JudgedAsDocumented ==
    ASSUME NEW r, Honest(r), NEW status, Judged(r, status)
    PROVE  IF Documented(r) = kLengthMismatch /\ Wrapped(r.header)
           THEN status = IF r.chain \in Parses THEN kInternalError ELSE kBadChain
           ELSE status = Documented(r) \/ (Documented(r) = kOk /\ status = kInternalError)
<1> DEFINE h == r.header
           mismatch == \/ ~is_supported_channel_count(h.channels)
                       \/ h.width = 0 \/ h.height = 0
                       \/ DimensionProduct(h) # h.payload_len
           early == \/ h.magic # kMagic \/ h.version # kVersion
                    \/ h.payload_len > max_payload_bytes \/ h.chain_len > max_chain_len
<1>1. h \in RequestHeader
  BY DEF Honest, Request
<1>2. /\ (ByteCount(h) # h.payload_len \/ ByteCount(h) = 0 \/ ~is_supported_channel_count(h.channels))
         <=> mismatch \/ Wrapped(h)
      /\ Wrapped(h) => ~mismatch /\ ~Usable(h)
  BY <1>1, DimensionChecksDiffer
<1>3. Documented(r) =
          IF h.magic # kMagic THEN kBadMagic
          ELSE IF h.version # kVersion THEN kUnsupportedVersion
          ELSE IF h.payload_len > max_payload_bytes THEN kPayloadTooLarge
          ELSE IF h.chain_len > max_chain_len THEN kBadChain
          ELSE IF mismatch \/ Wrapped(h) THEN kLengthMismatch
          ELSE IF r.chain \notin Parses THEN kBadChain
          ELSE kOk
  BY <1>2, FirstFailure
<1>4. validate_request_header(h) =
          IF h.magic # kMagic THEN kBadMagic
          ELSE IF h.version # kVersion THEN kUnsupportedVersion
          ELSE IF h.payload_len > max_payload_bytes THEN kPayloadTooLarge
          ELSE IF h.chain_len > max_chain_len THEN kBadChain
          ELSE IF mismatch THEN kLengthMismatch
          ELSE kOk
  BY DEF validate_request_header
<1>5. Judged(r, status) <=>
          \/ validate_request_header(h) # kOk /\ status = validate_request_header(h)
          \/ validate_request_header(h) = kOk /\ r.chain \notin Parses /\ status = kBadChain
          \/ validate_request_header(h) = kOk /\ r.chain \in Parses /\ status = kInternalError
          \/ validate_request_header(h) = kOk /\ r.chain \in Parses /\ Usable(h) /\ status = kOk
  BY DEF Judged
<1> HIDE DEF h, mismatch
<1>6. CASE early
  <2>1. Documented(r) = validate_request_header(h) /\ Documented(r) # kOk /\ Documented(r) # kLengthMismatch
    BY <1>3, <1>4, <1>6 DEF kOk, kBadMagic, kUnsupportedVersion, kPayloadTooLarge, kBadChain, kLengthMismatch
  <2> QED
    BY <1>5, <2>1
<1>7. CASE ~early /\ Wrapped(h)
  <2>1. Documented(r) = kLengthMismatch /\ validate_request_header(h) = kOk
    BY <1>2, <1>3, <1>4, <1>7
  <2> QED
    BY <1>2, <1>5, <1>7, <2>1 DEF h
<1>8. CASE ~early /\ ~Wrapped(h)
  <2>1. /\ mismatch => Documented(r) = kLengthMismatch /\ validate_request_header(h) = kLengthMismatch
        /\ ~mismatch => /\ Documented(r) = IF r.chain \notin Parses THEN kBadChain ELSE kOk
                        /\ validate_request_header(h) = kOk
    BY <1>3, <1>4, <1>8
  <2> QED
    BY <1>5, <1>8, <2>1 DEF h, kOk, kLengthMismatch, kBadChain, kInternalError
<1> QED
  BY <1>6, <1>7, <1>8

(* The status that a client reads is the one that docs/PROTOCOL.md gives   *)
(* its frame, by the first check that fails, or an internal error where    *)
(* nothing is wrong - with the one exception of a frame whose dimension    *)
(* product wraps to its payload_len: the document's status is 5, and the   *)
(* client reads 6, or 4 when its chain does not parse, whatever the limits *)
(* are, and never 0.  Raw requests have any dimensions at all.             *)
THEOREM StatusIsDocumentedOrWrapped ==
    ASSUME LengthsFit, LimitsAgree
    PROVE  Spec => []StatusDocumentedUnlessWrapped
<1>1. AnswerInv => StatusDocumentedUnlessWrapped
  <2> SUFFICES ASSUME AnswerInv, NEW n \in 1 .. Len(received)
               PROVE  LET request == requests[received[n].request]
                          status == Documented(request)
                      IN  IF status = kLengthMismatch /\ Wrapped(request.header)
                          THEN received[n].status = IF request.chain \in Parses THEN kInternalError ELSE kBadChain
                          ELSE received[n].status = status \/ (status = kOk /\ received[n].status = kInternalError)
    BY DEF StatusDocumentedUnlessWrapped
  <2>1. PICK entry : /\ entry.request \in 1 .. Len(requests) /\ received[n] = Reply(requests[entry.request], entry)
                     /\ Judged(requests[entry.request], entry.status)
    BY ReceivedIsJudged
  <2>2. received[n].request = entry.request /\ received[n].status = entry.status
    BY <2>1 DEF Reply
  <2>3. Honest(requests[entry.request])
    BY <2>1 DEF AnswerInv, StreamInv
  <2> QED
    BY <2>1, <2>2, <2>3, JudgedAsDocumented
<1>2. AnswerInv /\ [Next]_vars => AnswerInv'
  BY AnswerNext
<1> QED
  BY <1>1, <1>2, AnswerInit, PTL DEF Spec
=============================================================================
