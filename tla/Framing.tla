------------------------------ MODULE Framing -------------------------------
(***************************************************************************)
(* One connection as a pair of byte streams: Client (src/net/client.cpp)   *)
(* at one end, reader_loop and writer_loop (src/net/server.cpp) at the     *)
(* other.  Frames have no delimiters, so each end finds the next header    *)
(* only by consuming exactly the bytes of the frame before it.             *)
(*                                                                         *)
(* read_exact and write_exact (src/net/socket.cpp) are one step each: one  *)
(* thread reads and one thread writes a stream, so only the bytes matter   *)
(* and not the pieces they come in.  Slots, the queue and the outbox are   *)
(* the business of module Server: here an accepted frame is a job, jobs    *)
(* complete in any order, and an image is given back unchanged.            *)
(***************************************************************************)
EXTENDS Protocol, FiniteSets

CONSTANTS
    Images,         \* what send() is called with: [width, height, channels]
    Chains,         \* chain texts, as sequences of bytes
    Parses,         \* the chain texts that parse_op_chain accepts
    Flags,          \* values of the flags byte
    RawRequests,    \* what send_raw() is called with: [header, chain, payload]
    MaxRequests,    \* bound: frames the client sends
    MayHangUp       \* whether the client may go away

Bytes == Seq(0 .. Byte - 1)

(* Raw headers tell the truth about the two lengths, whatever else is      *)
(* wrong with them: no server can resynchronise on a length that lies.     *)
ASSUME FramingAssumption ==
    /\ MaxRequests \in 1 .. Byte - 1
    /\ Flags \subseteq 0 .. Byte - 1
    /\ MayHangUp \in BOOLEAN
    /\ Chains \subseteq Bytes
    /\ \A image \in Images : /\ image.width \in 1 .. U32 - 1 /\ image.height \in 1 .. U32 - 1
                             /\ is_supported_channel_count(image.channels)
    /\ \A raw \in RawRequests : /\ raw \in [header : RequestHeader, chain : Bytes, payload : Bytes]
                                /\ raw.header.chain_len = Len(raw.chain)
                                /\ raw.header.payload_len = Len(raw.payload)

VARIABLES
    \* the client
    requests,       \* history: the frames sent
    next_seq_num,
    pending,        \* pending_: set of <<seq_num, index in requests>>
    hung_up,        \* the client closed its socket
    received,       \* history: what receive() returned
    broken,         \* receive() threw on a malformed frame
    \* the bytes in between
    upstream, downstream,
    \* the server's reader and the frames being processed
    rpc, header, unread,
    taken,          \* history: headers read
    jobs            \* set of [header, payload]

client == <<requests, next_seq_num, pending, hung_up, received, broken>>
server == <<rpc, header, unread, taken, jobs>>
vars == <<client, upstream, downstream, server>>

NoHeader ==
    [magic |-> 0, version |-> 0, flags |-> 0, seq_num |-> 0, width |-> 0, height |-> 0, channels |-> 0,
     payload_len |-> 0, chain_len |-> 0]

Init ==
    /\ requests = <<>>
    /\ next_seq_num = 1
    /\ pending = {}
    /\ hung_up = FALSE
    /\ received = <<>>
    /\ broken = FALSE
    /\ upstream = <<>>
    /\ downstream = <<>>
    /\ rpc = "header"
    /\ header = NoHeader
    /\ unread = 0
    /\ taken = 0
    /\ jobs = {}

(* Bytes 1 .. n of a stream, and what is left behind them *)
First(stream, n) == SubSeq(stream, 1, n)
Rest(stream, n) == SubSeq(stream, n + 1, Len(stream))

ByteCount(image) == image.width * image.height * image.channels

----------------------------------------------------------------------------
(* class Client                                                            *)

(* Three write_exact() calls, then pending_.emplace, which keeps an entry  *)
(* that is already there.  A write fails, and throws, only when the        *)
(* connection is gone: a prefix of the frame is then on its way and no     *)
(* answer will be heard, which is the state HangUp leaves.                 *)
WriteFrame(request) ==
    LET seq == request.header.seq_num
    IN  /\ ~hung_up /\ ~broken /\ Len(requests) < MaxRequests
        /\ upstream' = upstream \o encode_request_header(request.header) \o request.chain \o request.payload
        /\ requests' = Append(requests, request)
        /\ pending' = IF \E p \in pending : p[1] = seq THEN pending ELSE pending \cup {<<seq, Len(requests')>>}
        /\ UNCHANGED <<hung_up, received, broken, downstream, server>>

(* The pixels of the n-th frame are all n, which tells frames apart. *)
Pixels(n, bytes) == [k \in 1 .. bytes |-> n]

send(image, chain, flags) ==
    /\ WriteFrame([header |-> [magic |-> kMagic, version |-> kVersion, flags |-> flags,
                               seq_num |-> next_seq_num, width |-> image.width, height |-> image.height,
                               channels |-> image.channels, payload_len |-> ByteCount(image) % U32,
                               chain_len |-> Len(chain) % U16],
                   chain |-> chain,
                   payload |-> Pixels(Len(requests) + 1, ByteCount(image))])
    /\ next_seq_num' = (next_seq_num + 1) % U32

(* The caller numbers a raw frame itself; here with a number that is new. *)
send_raw(raw, seq) ==
    /\ WriteFrame([raw EXCEPT !.header.seq_num = seq])
    /\ next_seq_num' = IF next_seq_num > (seq + 1) % U32 THEN next_seq_num ELSE (seq + 1) % U32

(* receive() up to the pending map: the header, and then the payload that  *)
(* the header is checked against before anything is allocated for it.      *)
Malformed(response) ==
    \/ response.magic # kMagic
    \/ /\ response.payload_len > 0
       /\ \/ DimensionProduct(response) # response.payload_len
          \/ response.payload_len > kMaxPayloadBytes
          \/ ~Usable(response)

Match_oldest(response) ==
    {p \in pending : \A q \in pending : p[2] <= q[2]}

Match(response) == {p \in pending : p[1] = response.seq_num}

receive ==
    /\ ~hung_up /\ ~broken /\ Len(downstream) >= kResponseHeaderBytes
    /\ LET response == decode_response_header(First(downstream, kResponseHeaderBytes))
           body == Rest(downstream, kResponseHeaderBytes)
           matched == Match(response)
       IN  \/ /\ Malformed(response)
              /\ broken' = TRUE
              /\ UNCHANGED <<downstream, received, pending>>
           \/ /\ ~Malformed(response) /\ Len(body) >= response.payload_len
              /\ downstream' = Rest(body, response.payload_len)
              /\ received' = Append(received, [request |-> IF matched = {} THEN 0 ELSE (CHOOSE p \in matched : TRUE)[2],
                                               status |-> response.status, width |-> response.width,
                                               height |-> response.height, channels |-> response.channels,
                                               image |-> First(body, response.payload_len)])
              /\ pending' = pending \ matched
              /\ UNCHANGED broken
    /\ UNCHANGED <<requests, next_seq_num, hung_up, upstream, server>>

(* The client goes away, in the middle of a frame as likely as not: what   *)
(* the server will still read is any prefix of what was sent.              *)
HangUp ==
    /\ MayHangUp /\ ~hung_up
    /\ hung_up' = TRUE
    /\ \E n \in 0 .. Len(upstream) : upstream' = First(upstream, n)
    /\ UNCHANGED <<requests, next_seq_num, pending, received, broken, downstream, server>>

----------------------------------------------------------------------------
(* writer_loop: an error carries no dimensions, and only an ok response to *)
(* an echo request carries the image.                                      *)

Echo(request_header) == request_header.flags % 2 = 1

ErrorResponse(seq, status) ==
    encode_response_header([magic |-> kMagic, version |-> kVersion, status |-> status, seq_num |-> seq,
                            width |-> 0, height |-> 0, channels |-> 0, payload_len |-> 0])

OkResponse(job) ==
    LET payload == IF Echo(job.header) THEN job.payload ELSE <<>>
    IN  encode_response_header([magic |-> kMagic, version |-> kVersion, status |-> kOk,
                                seq_num |-> job.header.seq_num, width |-> job.header.width,
                                height |-> job.header.height, channels |-> job.header.channels,
                                payload_len |-> Len(payload)])
        \o payload

----------------------------------------------------------------------------
(* reader_loop                                                             *)

(* The bytes the reader is waiting for *)
Wanted ==
    CASE rpc = "header" -> kRequestHeaderBytes
      [] rpc = "chain" -> header.chain_len
      [] rpc = "payload" -> header.payload_len
      [] rpc = "drain" -> unread
      [] rpc = "done" -> 0

Consume == Len(upstream) >= Wanted /\ upstream' = Rest(upstream, Wanted)

(* Closing at once, before the error response is out *)
Reject_closing_first(seq, status) ==
    LET close == disposition_for(status) = "close"
    IN  /\ downstream' = IF close THEN downstream ELSE downstream \o ErrorResponse(seq, status)
        /\ rpc' = IF close THEN "done" ELSE "drain"

(* The error response, then the disposition of its status *)
Reject(seq, status) ==
    /\ downstream' = downstream \o ErrorResponse(seq, status)
    /\ rpc' = IF disposition_for(status) = "close" THEN "done" ELSE "drain"

ReadHeader ==
    /\ rpc = "header"
    /\ Consume
    /\ header' = decode_request_header(First(upstream, kRequestHeaderBytes))
    /\ unread' = header'.chain_len + header'.payload_len
    /\ taken' = taken + 1
    /\ LET status == validate_request_header(header')
       IN  \/ status = kOk /\ rpc' = "chain" /\ UNCHANGED downstream
           \/ status # kOk /\ Reject(header'.seq_num, status)
    /\ UNCHANGED <<client, jobs>>

AfterChain_unchanged == unread

AfterChain == unread - header.chain_len

ReadChain ==
    /\ rpc = "chain"
    /\ Consume
    /\ unread' = AfterChain
    /\ \/ First(upstream, Wanted) \in Parses /\ rpc' = "payload" /\ UNCHANGED downstream
       \/ First(upstream, Wanted) \notin Parses /\ Reject(header.seq_num, kBadChain)
    /\ UNCHANGED <<client, header, taken, jobs>>

drain_exactly ==
    /\ rpc = "drain"
    /\ Consume
    /\ rpc' = "header"
    /\ UNCHANGED <<client, downstream, header, unread, taken, jobs>>

ReadPayload ==
    /\ rpc = "payload"
    /\ Consume
    /\ jobs' = jobs \cup {[header |-> header, payload |-> First(upstream, Wanted)]}
    /\ rpc' = "header"
    /\ UNCHANGED <<client, downstream, header, unread, taken>>

ReadFails ==
    /\ rpc # "done" /\ hung_up /\ Len(upstream) < Wanted
    /\ rpc' = "done"
    /\ UNCHANGED <<client, upstream, downstream, header, unread, taken, jobs>>

(* The worker finishes a job: with an error when the backend refuses the   *)
(* dimensions or fails for a reason of its own.                            *)
Complete(job) ==
    /\ jobs' = jobs \ {job}
    /\ \/ downstream' = downstream \o ErrorResponse(job.header.seq_num, kInternalError)
       \/ Usable(job.header) /\ downstream' = downstream \o OkResponse(job)
    /\ UNCHANGED <<client, upstream, rpc, header, unread, taken>>

Reader == ReadHeader \/ ReadChain \/ drain_exactly \/ ReadPayload \/ ReadFails
Worker == \E job \in jobs : Complete(job)

Next ==
    \/ \E image \in Images, chain \in Chains, flags \in Flags : send(image, chain, flags)
    \/ \E raw \in RawRequests : \E seq \in {next_seq_num, (next_seq_num + 1) % U32} : send_raw(raw, seq)
    \/ receive
    \/ HangUp
    \/ Reader
    \/ Worker

(* The reader thread, the worker and a client that is waiting for answers  *)
(* keep running.                                                           *)
Spec == Init /\ [][Next]_vars /\ WF_vars(Reader) /\ WF_vars(Worker) /\ WF_vars(receive)

----------------------------------------------------------------------------

(* Resynchronisation: the n-th header the server decodes is the n-th       *)
(* header that was sent, whatever became of the frames before it.  A       *)
(* reader that drains a byte too many or too few loses this at the next    *)
(* frame.                                                                  *)
HeadersIntact == taken > 0 => taken <= Len(requests) /\ header = requests[taken].header

(* A frame that reaches the backend was read whole into a slot it fits,    *)
(* and the backend reads no more of the slot than was written, even where  *)
(* the dimension product wraps.                                            *)
AcceptedFramesFit ==
    \A job \in jobs : Len(job.payload) <= max_payload_bytes /\ BytesRead(job.header) <= Len(job.payload)

(* Each response is matched to the request it answers, however the jobs    *)
(* finished, and an ok echo brings that request's own pixels back.         *)
ResponsesMatchRequests ==
    /\ ~broken
    /\ \A n \in 1 .. Len(received) :
          /\ received[n].request # 0
          /\ LET request == requests[received[n].request]
             IN  received[n].status = kOk =>
                    /\ received[n].image = IF Echo(request.header) THEN request.payload ELSE <<>>
                    /\ received[n].width = request.header.width
                    /\ received[n].height = request.header.height

(* docs/PROTOCOL.md, "Validation order": the first check that fails gives  *)
(* the status, with the dimension product taken over the integers.         *)
Documented(request) ==
    LET h == request.header
        fails == <<h.magic # kMagic, h.version # kVersion, h.payload_len > max_payload_bytes,
                   h.chain_len > max_chain_len,
                   ByteCount(h) # h.payload_len \/ ByteCount(h) = 0 \/ ~is_supported_channel_count(h.channels),
                   request.chain \notin Parses>>
        code == <<kBadMagic, kUnsupportedVersion, kPayloadTooLarge, kBadChain, kLengthMismatch, kBadChain>>
        failing == {i \in DOMAIN fails : fails[i]}
    IN  IF failing = {} THEN kOk ELSE code[CHOOSE i \in failing : \A j \in failing : i <= j]

(* The frame of which docs/PROTOCOL.md:71 does not hold: its dimension     *)
(* product, at least 2^64, equals payload_len modulo 2^64.                 *)
Wrapped(h) ==
    /\ is_supported_channel_count(h.channels) /\ h.width # 0 /\ h.height # 0
    /\ ByteCount(h) # h.payload_len /\ ByteCount(h) % U64 = h.payload_len

(* What the client is told of each of its frames.  It is the documented    *)
(* status, or status 6 for a frame in which nothing is wrong - but not for *)
(* a wrapped product, where the code departs from PROTOCOL.md: status 5    *)
(* is what the document gives, and the code, which compares modulo 2^64,   *)
(* takes the frame, so that the client reads status 6 from a backend that  *)
(* refuses the dimensions, or status 4 for the chain.  Never status 0.     *)
StatusDocumentedUnlessWrapped ==
    \A n \in 1 .. Len(received) :
        received[n].request # 0 =>
            LET request == requests[received[n].request]
                status == Documented(request)
            IN  IF status = kLengthMismatch /\ Wrapped(request.header)
                THEN received[n].status = IF request.chain \in Parses THEN kInternalError ELSE kBadChain
                ELSE received[n].status = status \/ (status = kOk /\ received[n].status = kInternalError)

(* Every frame the client sends is answered, if the client waits: one that *)
(* is not is behind a frame that closed the connection, so that the reader *)
(* ended without taking it.  The closing frame itself and those before it, *)
(* which the worker may still have in hand when the reader ends, get their *)
(* answers.                                                                *)
FramesAnswered ==
    \A n \in 1 .. MaxRequests :
        Len(requests) >= n ~> \/ hung_up \/ (rpc = "done" /\ taken < n)
                              \/ \E m \in 1 .. Len(received) : received[m].request = n
=============================================================================
