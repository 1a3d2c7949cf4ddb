--------------------------- MODULE MCTiledKernel ---------------------------
(* Images that no block size divides, radii below and above the tile edge  *)
(* and the image, an alpha channel, tiled, naive and pointwise stages.     *)
EXTENDS TiledKernel

Launch(w, h, ch, has_stencil, r, edge_of_tile) ==
    [width |-> w, height |-> h, channels |-> ch, has_stencil |-> has_stencil, radius |-> r, tile_size |-> edge_of_tile]

MCLaunches ==
    {Launch(3, 3, 1, TRUE, 1, 2),
     Launch(3, 1, 4, TRUE, 1, 2),
     Launch(2, 2, 3, TRUE, 2, 2),
     Launch(3, 2, 4, TRUE, 2, 1),
     Launch(1, 1, 1, TRUE, 1, 2),
     Launch(3, 3, 4, TRUE, 2, 0),
     Launch(3, 3, 4, FALSE, 0, 0),
     Launch(3, 2, 3, FALSE, 0, 2)}
=============================================================================
