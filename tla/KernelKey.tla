------------------------------ MODULE KernelKey ------------------------------
(***************************************************************************)
(* What a kernel is compiled from and what it may need: struct KernelKey   *)
(* with its equality and its hash (src/core/kernel_key.cpp), the limits    *)
(* that codegen checks (src/backend/cuda/codegen.cpp), and the options     *)
(* that tools/imgjit-server.cpp lets through.  Pure operators.             *)
(***************************************************************************)
EXTENDS OpChain

CONSTANT kNaiveBlockDim     \* 16 in the code

kMaxTileSize == 32
kMaxGaussianTaps == 25
kMaxStaticSharedBytes == 48 * 1024
kMaxBlockThreads == 1024    \* of the hardware: codegen.h

is_supported_channel_count(channels) == channels \in {1, 3, 4}
color_channels(channels) == IF channels = 4 THEN 3 ELSE channels

is_supported_tile(tile, tile_size) ==
    IF tile = "naive" THEN tile_size = 0 ELSE tile = "tiled" /\ tile_size \in 1 .. kMaxTileSize

is_supported_constants(constants, tile) ==
    constants = "baked" \/ (constants = "parameterized" /\ tile = "naive")

(* The checks of main(), which CudaBackend's constructor repeats *)
main_accepts(options) ==
    /\ is_supported_tile(options.tile, options.tile_size)
    /\ is_supported_constants(options.constants, options.tile)

(* CudaBackend::key_for *)
key_for(frame, options) ==
    [chain |-> frame.ops, channels |-> frame.channels,
     tile |-> options.tile, tile_size |-> options.tile_size, constants |-> options.constants]

----------------------------------------------------------------------------
(* operator== and hash_kernel_key                                          *)

keyed_by_params(key) == key.constants = "baked"

Equal(lhs, rhs) ==
    /\ lhs.channels = rhs.channels
    /\ lhs.tile = rhs.tile
    /\ lhs.tile_size = rhs.tile_size
    /\ lhs.constants = rhs.constants
    /\ Len(lhs.chain) = Len(rhs.chain)
    /\ \A i \in 1 .. Len(lhs.chain) :
          /\ lhs.chain[i].kind = rhs.chain[i].kind
          /\ keyed_by_params(lhs) => lhs.chain[i].param = rhs.chain[i].param

(* The enumerators' values *)
KindByte == [grayscale |-> 0, invert |-> 1, brightness |-> 2, threshold |-> 3, gaussian |-> 4, sobel |-> 5]
TileByte == [naive |-> 0, tiled |-> 1]
ConstantsByte == [baked |-> 0, parameterized |-> 1]

(* Two's complement, least significant byte first *)
hash_i32(value) == [k \in 1 .. 4 |-> (value \div 256 ^ (k - 1)) % 256]

OpBytes_with_params(op, with_params) == <<KindByte[op.kind]>> \o hash_i32(op.param)

OpBytes(op, with_params) == <<KindByte[op.kind]>> \o (IF with_params THEN hash_i32(op.param) ELSE <<>>)

Concatenation(pieces) ==
    LET Joined[n \in 0 .. Len(pieces)] == IF n = 0 THEN <<>> ELSE Joined[n - 1] \o pieces[n]
    IN  Joined[Len(pieces)]

(* The bytes that FNV-1a runs over.  Equal bytes have equal hashes; that   *)
(* different bytes may collide is harmless, since the map compares keys.   *)
hash_kernel_key(key) ==
    hash_i32(Len(key.chain))
    \o Concatenation([n \in 1 .. Len(key.chain) |-> OpBytes(key.chain[n], keyed_by_params(key))])
    \o hash_i32(key.channels) \o <<TileByte[key.tile]>>
    \o hash_i32(key.tile_size) \o <<ConstantsByte[key.constants]>>

----------------------------------------------------------------------------
(* What a stencil stage needs                                              *)

(* ceil(3 sigma), at least 1; sigma in hundredths *)
gaussian_radius_plus_one(sigma) == (3 * sigma) \div 100 + 1

gaussian_radius(sigma) ==
    LET radius == (3 * sigma + 99) \div 100
    IN  IF radius < 1 THEN 1 ELSE radius

gaussian_taps(sigma) == 2 * gaussian_radius(sigma) + 1

stencil_radius(op) == IF op.kind = "sobel" THEN 1 ELSE gaussian_radius(op.param)

(* emit_tile_load: one float per colour and cell of the tile with its apron *)
shared_bytes(colors, radius, tile_size) == colors * (tile_size + 2 * radius) * (tile_size + 2 * radius) * 4

(* GeneratedStage::block_dim *)
block_dim(has_stencil, tile_size) == IF has_stencil /\ tile_size > 0 THEN tile_size ELSE kNaiveBlockDim
=============================================================================
