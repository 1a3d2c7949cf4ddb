------------------------------ MODULE MCFraming -----------------------------
(* Bytes of eight values: a word is 8^4, its double 8^8.  Frames are a     *)
(* few pixels; the raw requests fail each check of the server once, at the *)
(* boundary where there is one, or pass it by wrapping around.             *)
EXTENDS Framing

MCPixel == {[width |-> 1, height |-> 1, channels |-> 1]}
MCImages == {[width |-> 1, height |-> 2, channels |-> 3], [width |-> 1, height |-> 1, channels |-> 1]}
MCGood == <<5>>
MCChains == {<<>>, MCGood}
MCParses == {<<>>, MCGood}

Sound ==
    [magic |-> kMagic, version |-> kVersion, flags |-> 1, seq_num |-> 0, width |-> 2, height |-> 1,
     channels |-> 1, payload_len |-> 2, chain_len |-> 1]

Raw(h, chain) ==
    [header |-> [h EXCEPT !.chain_len = Len(chain)], chain |-> chain, payload |-> Pixels(7, h.payload_len)]

(* Status 1, 2, 3 at the limit, 4 twice, and 5 for three reasons *)
MCRejected ==
    {Raw([Sound EXCEPT !.magic = kMagic + 1], MCGood),
     Raw([Sound EXCEPT !.version = 2], MCGood),
     Raw([Sound EXCEPT !.payload_len = max_payload_bytes + 1, !.width = max_payload_bytes + 1], MCGood),
     Raw(Sound, [k \in 1 .. max_chain_len + 1 |-> 5]),
     Raw(Sound, <<6, 6>>),
     Raw([Sound EXCEPT !.payload_len = 3], <<6, 6>>),
     Raw([Sound EXCEPT !.channels = 2, !.width = 1], MCGood),
     Raw([Sound EXCEPT !.width = 0, !.payload_len = 0], MCGood)}

(* A product that is 0 modulo a word, but not modulo a double word *)
MCWrapsWord == {Raw([Sound EXCEPT !.width = 32, !.height = 32, !.channels = 4, !.payload_len = 0], MCGood)}

(* One that is 0 modulo a double word too, in dimensions that are negative *)
(* as an int, with a chain that parses and with one that does not          *)
MCWrapsDouble ==
    {Raw([Sound EXCEPT !.width = 2048, !.height = 2048, !.channels = 4, !.payload_len = 0], chain) :
        chain \in {MCGood, <<6, 6>>}}

MCRaw == MCRejected \cup MCWrapsWord \cup MCWrapsDouble
MCNoRaw == {}

(* One byte more than chain_len can say *)
MCLongChain == {[k \in 1 .. U16 + 1 |-> 5]}
=============================================================================
