----------------------------- MODULE TiledKernel -----------------------------
(***************************************************************************)
(* One launch of one generated stage: the CUDA text that emit_stage,       *)
(* emit_tile_load, emit_tap_function, emit_fetch and emit_stencil_body     *)
(* (src/backend/cuda/codegen.cpp) produce, run by the threads of the grid  *)
(* that CudaBackend::launch asks for, against the CPU's definition of the  *)
(* same op (src/backend/cpu/ops.cpp).                                      *)
(*                                                                         *)
(* The threads of a block interleave freely between barriers.  Blocks      *)
(* share nothing but the source, which they only read, and so run one      *)
(* after the other, in any order.                                          *)
(*                                                                         *)
(* A sample is the index of the source byte it was read from, the stage's  *)
(* prologue applied to its pixel; a stencil's result is the sequence of    *)
(* its samples in the order in which they are weighted and added.  The     *)
(* weights are the same numbers on both sides, by position.                *)
(***************************************************************************)
EXTENDS KernelKey

CONSTANTS
    Launches,   \* [width, height, channels, has_stencil, radius, tile_size]; tile_size 0 is naive
    None,       \* no block is running
    Junk        \* what shared and device memory hold before they are written

ASSUME LaunchAssumption ==
    /\ kNaiveBlockDim \in Nat \ {0}
    /\ \A l \in Launches :
          /\ l.width \in Nat \ {0} /\ l.height \in Nat \ {0}
          /\ is_supported_channel_count(l.channels)
          /\ l.tile_size \in 0 .. kMaxTileSize
          /\ l.has_stencil \in BOOLEAN /\ l.radius \in Nat
    /\ Junk \notin Nat

VARIABLES
    launch,     \* the launch's arguments and what is baked into its kernel
    todo,       \* blocks of the grid that have not finished
    block,      \* blockIdx of the one that runs
    pc,         \* per thread: "load", "barrier", "body" or "done"
    k,          \* per thread: the load loop's next cell
    tile,       \* the block's __shared__ tile, row by row
    dst         \* the destination buffer

vars == <<launch, todo, block, pc, k, tile, dst>>

width == launch.width
height == launch.height
channels == launch.channels
colors == color_channels(channels)
radius == launch.radius
tile_size == launch.tile_size
tiled == launch.has_stencil /\ tile_size > 0
edge == tile_size + 2 * radius

(* The launch configuration: square blocks, enough of them to cover the    *)
(* image                                                                   *)
blockDim == block_dim(launch.has_stencil, tile_size)

grid_dim(extent) == (extent + blockDim - 1) \div blockDim

Grid == (0 .. grid_dim(width) - 1) \X (0 .. grid_dim(height) - 1)

Threads == (0 .. blockDim - 1) \X (0 .. blockDim - 1)

Init ==
    /\ launch \in Launches
    /\ todo = Grid
    /\ block = None
    /\ pc = [t \in Threads |-> "done"]
    /\ k = [t \in Threads |-> 0]
    /\ tile = [cell \in 0 .. edge * edge - 1 |-> Junk]
    /\ dst = [i \in 0 .. width * height * channels - 1 |-> Junk]

----------------------------------------------------------------------------
(* The device functions                                                    *)

imgjit_clamp_coord(v, limit) == IF v < 0 THEN 0 ELSE IF v > limit - 1 THEN limit - 1 ELSE v

(* <stage>_tap: the first of the neighbour's bytes; colour c is c further *)
tap(x, y) == (imgjit_clamp_coord(y, height) * width + imgjit_clamp_coord(x, width)) * channels

(* The pixel of a thread *)
X(t) == block[1] * blockDim + t[1]
Y(t) == block[2] * blockDim + t[2]

(* emit_fetch: tile[c][ly + dy][lx + dx], or a clamped load *)
Cell(ty, tx) == IF {ty, tx} \subseteq 0 .. edge - 1 THEN tile[ty * edge + tx] ELSE Junk

fetch(t, dx, dy) ==
    IF tiled THEN Cell(t[2] + radius + dy, t[1] + radius + dx) ELSE tap(X(t) + dx, Y(t) + dy)

Sample(pixel, c) == IF pixel = Junk THEN Junk ELSE pixel + c

(* emit_stencil_body: dy outer, dx inner; and the pointwise stage's load *)
Span == 2 * radius + 1

Value(t, c) ==
    IF launch.has_stencil
    THEN [n \in 1 .. Span * Span |->
              Sample(fetch(t, ((n - 1) % Span) - radius, ((n - 1) \div Span) - radius), c)]
    ELSE <<(Y(t) * width + X(t)) * channels + c>>

----------------------------------------------------------------------------
(* A block                                                                 *)

StartBlock_bounds_first(b) ==
    /\ block = None /\ b \in todo
    /\ block' = b
    /\ pc' = [t \in Threads |-> IF b[1] * blockDim + t[1] >= width \/ b[2] * blockDim + t[2] >= height
                               THEN "done" ELSE IF tiled THEN "load" ELSE "body"]
    /\ k' = [t \in Threads |-> t[2] * tile_size + t[1]]
    /\ tile' = [cell \in DOMAIN tile |-> Junk]
    /\ UNCHANGED <<launch, todo, dst>>

StartBlock(b) ==
    /\ block = None /\ b \in todo
    /\ block' = b
    /\ pc' = [t \in Threads |-> IF tiled THEN "load" ELSE "body"]
    /\ k' = [t \in Threads |-> t[2] * tile_size + t[1]]
    /\ tile' = [cell \in DOMAIN tile |-> Junk]
    /\ UNCHANGED <<launch, todo, dst>>

(* emit_tile_load: one turn of the loop *)
Load(t) ==
    LET ty == k[t] \div edge
        tx == k[t] - ty * edge
        tile_x0 == block[1] * tile_size - radius
        tile_y0 == block[2] * tile_size - radius
    IN  /\ block # None /\ pc[t] = "load"
        /\ tile' = [tile EXCEPT ![k[t]] = tap(tile_x0 + tx, tile_y0 + ty)]
        /\ k' = [k EXCEPT ![t] = @ + tile_size * tile_size]
        /\ pc' = [pc EXCEPT ![t] = IF k'[t] < edge * edge THEN "load" ELSE "barrier"]
        /\ UNCHANGED <<launch, todo, block, dst>>

(* __syncthreads(): all or none *)
SyncThreads_missing ==
    /\ block # None /\ \E t \in Threads : pc[t] = "barrier"
    /\ pc' = [t \in Threads |-> IF pc[t] = "barrier" THEN "body" ELSE pc[t]]
    /\ UNCHANGED <<launch, todo, block, k, tile, dst>>

SyncThreads ==
    /\ block # None /\ \A t \in Threads : pc[t] = "barrier"
    /\ pc' = [t \in Threads |-> "body"]
    /\ UNCHANGED <<launch, todo, block, k, tile, dst>>

Outside(t) == X(t) >= width \/ Y(t) >= height

(* The bounds check, the stencil or the pointwise ops, the stores, alpha *)
RunBody(t) ==
    LET i == (Y(t) * width + X(t)) * channels
    IN  /\ block # None /\ pc[t] = "body"
        /\ pc' = [pc EXCEPT ![t] = "done"]
        /\ dst' = IF Outside(t) THEN dst
                  ELSE [j \in DOMAIN dst |-> IF j \in i .. i + colors - 1 THEN Value(t, j - i)
                                             ELSE IF channels = 4 /\ j = i + 3 THEN <<j>>
                                             ELSE dst[j]]
        /\ UNCHANGED <<launch, todo, block, k, tile>>

EndBlock ==
    /\ block # None /\ \A t \in Threads : pc[t] = "done"
    /\ todo' = todo \ {block}
    /\ block' = None
    /\ UNCHANGED <<launch, pc, k, tile, dst>>

Next ==
    \/ \E b \in todo : StartBlock(b)
    \/ \E t \in Threads : Load(t) \/ RunBody(t)
    \/ SyncThreads
    \/ EndBlock

(* The hardware schedules every thread of a running block, and every block. *)
Spec == Init /\ [][Next]_vars /\ WF_vars(Next)

----------------------------------------------------------------------------
(* cpu::apply_op                                                           *)

clamp_coordinate(value, limit) == First({Final({value, 0}), limit - 1})

(* Image::at *)
at(x, y, c) == y * (width * channels) + x * channels + c

(* The samples of row y + dy, from left to right *)
OracleRow(x, y, c, dy) ==
    [n \in 1 .. Span |-> at(clamp_coordinate(x + n - 1 - radius, width), clamp_coordinate(y + dy, height), c)]

Oracle(x, y, c) ==
    IF c >= colors \/ ~launch.has_stencil
    THEN <<at(x, y, c)>>
    ELSE Concatenation([m \in 1 .. Span |-> OracleRow(x, y, c, m - 1 - radius)])

(* When the grid is done every byte of the destination holds what the CPU  *)
(* backend computes for it: no pixel is skipped or written by a thread     *)
(* past the edge, no tap reads a cell that nobody has loaded or that holds *)
(* another pixel, and alpha is the centre pixel's own.                     *)
ImageMatchesOracle ==
    todo = {} => \A x \in 0 .. width - 1, y \in 0 .. height - 1, c \in 0 .. channels - 1 :
                     dst[at(x, y, c)] = Oracle(x, y, c)

(* The kernel finishes: no thread waits at the barrier for one that has    *)
(* returned, although blocks hang over the edge of the image.              *)
KernelFinishes == <>(todo = {})
=============================================================================
