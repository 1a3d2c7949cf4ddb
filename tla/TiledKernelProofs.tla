------------------------- MODULE TiledKernelProofs --------------------------
(***************************************************************************)
(* The image that the grid leaves behind is the CPU's, for every size of   *)
(* image, tile, block and radius and every interleaving of the threads.    *)
(*                                                                         *)
(* The argument: thread t of a block loads the cells of the tile that are  *)
(* congruent to its own number modulo the number of threads, so when all   *)
(* have reached the barrier every cell is loaded, and it holds the pixel   *)
(* at its place around the block, clamped to the image.  A pixel of the    *)
(* image belongs to one thread of one block of the grid; two pixels share  *)
(* no byte.                                                                *)
(***************************************************************************)
EXTENDS TiledKernel, SequenceTheorems, WellFoundedInduction, TLAPS

----------------------------------------------------------------------------
(* Arithmetic                                                              *)

(* Quotient and remainder *)
LEMMA Division ==
    ASSUME NEW n \in Nat, NEW b \in Nat \ {0}
    PROVE  n \div b \in Nat /\ n % b \in 0 .. b - 1 /\ n = b * (n \div b) + (n % b)
  OBVIOUS

(* A smaller factor makes a product that is smaller by a whole b. *)
LEMMA Below ==
    ASSUME NEW p \in Nat, NEW q \in Nat, p < q, NEW b \in Nat \ {0}
    PROVE  b * p \in Nat /\ b * q \in Nat /\ b * p + b <= b * q
<1>1. PICK d \in Nat : q = p + 1 + d
  <2>1. q - p - 1 \in Nat /\ q = p + 1 + (q - p - 1)
    OBVIOUS
  <2> QED
    BY <2>1
<1>2. b * q = b * p + b + b * d
  BY <1>1
<1>3. b * d \in Nat /\ b * p \in Nat /\ b * q \in Nat
  BY <1>1
<1> QED
  BY <1>2, <1>3

(* A number has one quotient and one remainder. *)
LEMMA OneDivision ==
    ASSUME NEW p \in Nat, NEW q \in Nat, NEW b \in Nat \ {0}, NEW r \in 0 .. b - 1, NEW s \in 0 .. b - 1,
           b * p + r = b * q + s
    PROVE  p = q /\ r = s
<1>1. b * p \in Nat /\ b * q \in Nat
  OBVIOUS
<1>2. ~(p < q)
  <2> SUFFICES ASSUME p < q PROVE FALSE
    OBVIOUS
  <2>1. b * p + b <= b * q
    BY Below
  <2> QED
    BY <2>1, <1>1
<1>3. ~(q < p)
  <2> SUFFICES ASSUME q < p PROVE FALSE
    OBVIOUS
  <2>1. b * q + b <= b * p
    BY Below
  <2> QED
    BY <2>1, <1>1
<1>4. p = q
  BY <1>2, <1>3
<1> QED
  BY <1>1, <1>4

(* So dividing undoes multiplying. *)
LEMMA DivideBack ==
    ASSUME NEW q \in Nat, NEW b \in Nat \ {0}, NEW r \in 0 .. b - 1
    PROVE  b * q + r \in Nat /\ (b * q + r) \div b = q /\ (b * q + r) % b = r
<1> DEFINE n == b * q + r
<1>1. n \in Nat
  <2>1. b * q \in Nat
    OBVIOUS
  <2> QED
    BY <2>1
<1> HIDE DEF n
<1>2. n \div b \in Nat /\ n % b \in 0 .. b - 1 /\ n = b * (n \div b) + (n % b)
  BY <1>1, Division
<1>3. n = b * q + r
  BY DEF n
<1>4. n \div b = q /\ n % b = r
  BY <1>2, <1>3, OneDivision
<1> QED
  BY <1>1, <1>4 DEF n

(* A product of natural numbers *)
LEMMA Product == ASSUME NEW m \in Nat, NEW n \in Nat PROVE m * n \in Nat
  OBVIOUS

(* n rows of b numbers each *)
LEMMA WithinRows ==
    ASSUME NEW q \in Nat, NEW n \in Nat, q < n, NEW b \in Nat \ {0}, NEW r \in 0 .. b - 1
    PROVE  b * q + r \in 0 .. b * n - 1
<1>1. b * q \in Nat /\ b * n \in Nat /\ b * q + b <= b * n
  BY Below
<1> QED
  BY <1>1

(* The row of a number below b * n *)
LEMMA RowOf ==
    ASSUME NEW n \in Nat, NEW b \in Nat \ {0}, NEW m \in 0 .. b * n - 1
    PROVE  m \div b \in 0 .. n - 1 /\ m % b \in 0 .. b - 1 /\ m = b * (m \div b) + (m % b)
<1> DEFINE q == m \div b
           r == m % b
<1>1. b * n \in Nat
  BY Product
<1>2. m \in Nat /\ m < b * n
  BY <1>1
<1>3. q \in Nat /\ r \in 0 .. b - 1 /\ m = b * q + r
  BY <1>2, Division
<1> HIDE DEF q, r
<1>4. q < n
  <2> SUFFICES ASSUME n <= q PROVE FALSE
    BY <1>3
  <2>1. b * n <= b * q
    <3>1. CASE n = q
      BY <3>1, <1>1
    <3>2. CASE n < q
      <4>1. b * n + b <= b * q /\ b * q \in Nat
        BY <3>2, <1>3, Below
      <4> QED
        BY <4>1, <1>1
    <3> QED
      BY <3>1, <3>2, <1>3
  <2>2. b * q \in Nat
    BY <1>3, Product
  <2> QED
    BY <2>1, <2>2, <1>1, <1>2, <1>3
<1>5. q \in 0 .. n - 1
  BY <1>3, <1>4
<1> QED
  BY <1>3, <1>5 DEF q, r

(* Distribution, for addresses *)
LEMMA Distribute ==
    ASSUME NEW y \in Nat, NEW x \in Nat, NEW w \in Nat, NEW ch \in Nat
    PROVE  (y * w + x) * ch = y * (w * ch) + x * ch /\ (y * w + x) * ch \in Nat
<1>1. y * w \in Nat /\ w * ch \in Nat
  BY Product
<1>2. (y * w + x) * ch = (y * w) * ch + x * ch
  BY <1>1
<1>3. (y * w) * ch = y * (w * ch)
  OBVIOUS
<1>4. (y * w + x) * ch \in Nat
  BY <1>1
<1> QED
  BY <1>2, <1>3, <1>4

----------------------------------------------------------------------------
(* Rows joined                                                             *)

(* A nonempty set of natural numbers has a least element. *)
LEMMA LeastElement ==
    ASSUME NEW T, T \subseteq Nat, T # {}
    PROVE  \E x \in T : \A y \in T : x <= y
<1>1. PICK x \in T : \A y \in T : ~(<<y, x>> \in OpToRel(<, Nat))
  BY NatLessThanWellFounded, WFMin
<1>2. \A y \in T : ~(y < x)
  BY <1>1 DEF OpToRel
<1> QED
  BY <1>2

(* One turn of Concatenation *)
Join(pieces, f, n) == IF n = 0 THEN <<>> ELSE f[n - 1] \o pieces[n]

(* Its turns exist. *)
LEMMA JoinExists ==
    ASSUME NEW pieces, Len(pieces) \in Nat
    PROVE  \E f : f = [n \in 0 .. Len(pieces) |-> Join(pieces, f, n)]
<1> DEFINE end == Len(pieces)
           UpTo(f, m) == /\ f = [n \in 0 .. end |-> f[n]]
                         /\ \A n \in 0 .. m : f[n] = Join(pieces, f, n)
           Bad == {m \in 0 .. end : ~ \E f : UpTo(f, m)}
<1>1. end \in Nat
  OBVIOUS
<1>2. Bad = {}
  <2> SUFFICES ASSUME Bad # {} PROVE FALSE
    OBVIOUS
  <2>1. Bad \subseteq Nat
    BY <1>1
  <2>2. PICK m \in Bad : \A l \in Bad : m <= l
    BY <2>1, LeastElement
  <2>3. m \in 0 .. end /\ m \in Nat
    BY <2>2, <1>1
  <2>4. CASE m = 0
    <3> DEFINE g == [n \in 0 .. end |-> <<>>]
    <3>1. g = [n \in 0 .. end |-> g[n]]
      OBVIOUS
    <3>2. g[0] = <<>>
      BY <1>1
    <3> HIDE DEF g
    <3>3. \A n \in 0 .. m : g[n] = Join(pieces, g, n)
      BY <2>4, <3>2 DEF Join
    <3>4. UpTo(g, m)
      BY <3>1, <3>3
    <3> QED
      BY <3>4, <2>2
  <2>5. CASE m # 0
    <3>1. m - 1 \in 0 .. end /\ ~(m <= m - 1)
      BY <2>3, <2>5, <1>1
    <3>2. m - 1 \notin Bad
      BY <3>1, <2>2
    <3>3. PICK f : UpTo(f, m - 1)
      BY <3>1, <3>2
    <3> DEFINE g == [n \in 0 .. end |-> IF n = m THEN Join(pieces, f, m) ELSE f[n]]
    <3>4. g = [n \in 0 .. end |-> g[n]]
      OBVIOUS
    <3>5. g[m] = Join(pieces, f, m)
      BY <2>3
    <3>6. \A n \in 0 .. m - 1 : g[n] = f[n]
      BY <2>3, <1>1
    <3> HIDE DEF g
    <3>7. \A n \in 0 .. m : Join(pieces, f, n) = Join(pieces, g, n)
      <4> TAKE n \in 0 .. m
      <4>1. n = 0 \/ n - 1 \in 0 .. m - 1
        BY <2>3
      <4> QED
        BY <4>1, <3>6 DEF Join
    <3>8. \A n \in 0 .. m : g[n] = Join(pieces, g, n)
      <4> TAKE n \in 0 .. m
      <4>1. n = m \/ n \in 0 .. m - 1
        BY <2>3
      <4>2. n \in 0 .. m - 1 => f[n] = Join(pieces, f, n)
        BY <3>3
      <4> QED
        BY <4>1, <4>2, <3>5, <3>6, <3>7
    <3>9. UpTo(g, m)
      BY <3>4, <3>8
    <3> QED
      BY <3>9, <2>2
  <2> QED
    BY <2>4, <2>5
<1>3. PICK f : UpTo(f, end)
  <2>1. end \in 0 .. end
    BY <1>1
  <2> QED
    BY <1>2, <2>1
<1>4. f = [n \in 0 .. end |-> Join(pieces, f, n)]
  <2>1. f = [n \in 0 .. end |-> f[n]] /\ \A n \in 0 .. end : f[n] = Join(pieces, f, n)
    BY <1>3
  <2> QED
    BY <2>1
<1> QED
  BY <1>4

(* s is the first n pieces, of b elements each, one after the other. *)
Rows(pieces, b, n, s) ==
    /\ s \in Seq(Int)
    /\ Len(s) = b * n
    /\ \A i \in 0 .. b * n - 1 : s[i + 1] = pieces[(i \div b) + 1][(i % b) + 1]

(* One piece more *)
LEMMA RowsGrow ==
    ASSUME NEW pieces, NEW b \in Nat \ {0}, NEW n \in Nat, NEW s, Rows(pieces, b, n, s),
           pieces[n + 1] \in Seq(Int), Len(pieces[n + 1]) = b
    PROVE  Rows(pieces, b, n + 1, s \o pieces[n + 1])
<1> DEFINE p == pieces[n + 1]
           t == s \o p
           rows == b * n
<1>1. rows \in Nat /\ s \in Seq(Int) /\ Len(s) = rows
  BY Product DEF Rows
<1>2. b * (n + 1) = rows + b
  OBVIOUS
<1>3. p \in Seq(Int) /\ Len(p) = b
  OBVIOUS
<1> HIDE DEF p
<1>4. /\ t \in Seq(Int) /\ Len(t) = rows + b
      /\ \A i \in 1 .. rows : t[i] = s[i]
      /\ \A i \in 1 .. b : t[rows + i] = p[i]
  <2> HIDE DEF rows
  <2>1. t \in Seq(Int) /\ Len(t) = Len(s) + Len(p)
    BY <1>1, <1>3, ConcatProperties
  <2>2. \A i \in 1 .. Len(s) + Len(p) : t[i] = IF i <= Len(s) THEN s[i] ELSE p[i - Len(s)]
    BY <1>1, <1>3, ConcatProperties
  <2> HIDE DEF t
  <2>3. ASSUME NEW i \in 1 .. rows PROVE t[i] = s[i]
    <3>1. i \in 1 .. Len(s) + Len(p) /\ i <= Len(s)
      BY <1>1, <1>3
    <3> QED
      BY <3>1, <2>2
  <2>4. ASSUME NEW i \in 1 .. b PROVE t[rows + i] = p[i]
    <3> DEFINE j == rows + i
    <3>1. j \in 1 .. Len(s) + Len(p) /\ ~(j <= Len(s)) /\ j - Len(s) = i
      BY <1>1, <1>3
    <3> HIDE DEF j
    <3>2. t[j] = p[i]
      BY <3>1, <2>2
    <3> QED
      BY <3>2 DEF j
  <2> QED
    BY <1>1, <1>3, <2>1, <2>3, <2>4
<1>5. ASSUME NEW i \in 0 .. b * (n + 1) - 1 PROVE t[i + 1] = pieces[(i \div b) + 1][(i % b) + 1]
  <2>1. i \in 0 .. rows + b - 1
    BY <1>2
  <2>2. CASE i < rows
    <3>1. i \in 0 .. rows - 1
      <4> HIDE DEF rows
      <4> QED
        BY <1>1, <2>1, <2>2
    <3>2. i + 1 \in 1 .. rows
      <4> HIDE DEF rows
      <4> QED
        BY <1>1, <3>1
    <3>3. s[i + 1] = pieces[(i \div b) + 1][(i % b) + 1]
      BY <3>1 DEF Rows
    <3> QED
      BY <1>4, <3>2, <3>3
  <2>3. CASE i >= rows
    <3> DEFINE r == i - rows
    <3>1. r \in 0 .. b - 1 /\ i = rows + r /\ i + 1 = rows + (r + 1) /\ r + 1 \in 1 .. b
      <4> HIDE DEF rows
      <4> QED
        BY <1>1, <2>1, <2>3
    <3> HIDE DEF r
    <3>2. i = b * n + r
      BY <3>1
    <3>3. i \div b = n /\ i % b = r
      <4>1. (b * n + r) \div b = n /\ (b * n + r) % b = r
        BY <3>1, DivideBack
      <4> QED
        BY <3>2, <4>1
    <3>4. t[i + 1] = p[r + 1]
      BY <1>4, <3>1
    <3> QED
      BY <3>3, <3>4 DEF p
  <2>4. i < rows \/ i >= rows
    <3> HIDE DEF rows
    <3> QED
      BY <1>1, <2>1
  <2> QED
    BY <2>2, <2>3, <2>4
<1> HIDE DEF t
<1>6. Rows(pieces, b, n + 1, t)
  BY <1>2, <1>4, <1>5 DEF Rows
<1> QED
  BY <1>6 DEF t, p

(* Pieces of equal length, joined *)
LEMMA JoinedRows ==
    ASSUME NEW pieces, Len(pieces) \in Nat, NEW b \in Nat \ {0},
           \A n \in 1 .. Len(pieces) : pieces[n] \in Seq(Int) /\ Len(pieces[n]) = b
    PROVE  Rows(pieces, b, Len(pieces), Concatenation(pieces))
<1> DEFINE end == Len(pieces)
           Joined == CHOOSE f : f = [n \in 0 .. end |-> Join(pieces, f, n)]
<1>1. Concatenation(pieces) = Joined[end]
  BY DEF Concatenation, Join
<1>2. Joined = [n \in 0 .. end |-> Join(pieces, Joined, n)]
  BY JoinExists
<1> HIDE DEF Joined
<1>3. \A n \in 0 .. end : Joined[n] = Join(pieces, Joined, n)
  BY <1>2
<1> DEFINE Bad == {n \in 0 .. end : ~Rows(pieces, b, n, Joined[n])}
<1>4. Bad = {}
  <2> SUFFICES ASSUME Bad # {} PROVE FALSE
    OBVIOUS
  <2>1. Bad \subseteq Nat
    OBVIOUS
  <2>2. PICK n \in Bad : \A m \in Bad : n <= m
    BY <2>1, LeastElement
  <2>3. n \in 0 .. end /\ ~Rows(pieces, b, n, Joined[n])
    BY <2>2
  <2>4. CASE n = 0
    <3>1. Joined[n] = <<>> /\ b * 0 = 0
      BY <1>3, <2>3, <2>4 DEF Join
    <3>2. Rows(pieces, b, 0, <<>>)
      BY <3>1 DEF Rows
    <3> QED
      BY <3>1, <3>2, <2>3, <2>4
  <2>5. CASE n # 0
    <3>1. n - 1 \in 0 .. end /\ n - 1 \in Nat /\ n \in 1 .. end /\ ~(n <= n - 1) /\ n = n - 1 + 1
      BY <2>3, <2>5
    <3>2. Rows(pieces, b, n - 1, Joined[n - 1])
      BY <3>1, <2>2
    <3>3. pieces[n - 1 + 1] \in Seq(Int) /\ Len(pieces[n - 1 + 1]) = b
      BY <3>1
    <3>4. Rows(pieces, b, n - 1 + 1, Joined[n - 1] \o pieces[n - 1 + 1])
      BY <3>1, <3>2, <3>3, RowsGrow
    <3>5. Joined[n] = Joined[n - 1] \o pieces[n]
      BY <1>3, <2>3, <2>5 DEF Join
    <3>6. Rows(pieces, b, n, Joined[n])
      BY <3>1, <3>4, <3>5
    <3> QED
      BY <3>6, <2>3
  <2> QED
    BY <2>4, <2>5
<1>5. end \in 0 .. end
  OBVIOUS
<1> QED
  BY <1>1, <1>4, <1>5

----------------------------------------------------------------------------
(* What the CPU computes, byte by byte                                     *)

(* The edge of a block *)
Dim(l) == block_dim(l.has_stencil, l.tile_size)

(* What a launch may be *)
LEMMA LaunchFacts ==
    ASSUME NEW l \in Launches
    PROVE  /\ l.width \in Nat \ {0} /\ l.height \in Nat \ {0} /\ l.channels \in {1, 3, 4}
           /\ l.tile_size \in Nat /\ l.radius \in Nat /\ l.has_stencil \in BOOLEAN
           /\ Dim(l) \in Nat \ {0}
           /\ l.has_stencil /\ l.tile_size > 0 => Dim(l) = l.tile_size
  BY LaunchAssumption DEF is_supported_channel_count, kMaxTileSize, Dim, block_dim

(* A clamped coordinate lies in the image, and one that lies there stays. *)
LEMMA Clamped ==
    ASSUME NEW v \in Int, NEW limit \in Nat \ {0}
    PROVE  /\ imgjit_clamp_coord(v, limit) \in 0 .. limit - 1
           /\ clamp_coordinate(v, limit) = imgjit_clamp_coord(v, limit)
<1> DEFINE top == IF v < 0 THEN 0 ELSE v
<1>1. Final({v, 0}) = top
  <2>1. \A i \in {v, 0} : (\A j \in {v, 0} : i >= j) <=> i = top
    OBVIOUS
  <2>2. top \in {v, 0}
    OBVIOUS
  <2> QED
    BY <2>1, <2>2 DEF Final
<1>2. top \in Nat
  OBVIOUS
<1> DEFINE low == IF top > limit - 1 THEN limit - 1 ELSE top
<1> HIDE DEF top
<1>3. First({top, limit - 1}) = low
  <2>1. \A i \in {top, limit - 1} : (\A j \in {top, limit - 1} : i <= j) <=> i = low
    BY <1>2
  <2>2. low \in {top, limit - 1}
    OBVIOUS
  <2> QED
    BY <2>1, <2>2 DEF First
<1>4. low = imgjit_clamp_coord(v, limit) /\ low \in 0 .. limit - 1
  BY <1>2 DEF imgjit_clamp_coord, top
<1> QED
  BY <1>1, <1>3, <1>4 DEF clamp_coordinate

(* Byte c of a pixel, and of the pixel that stands for (x, y) *)
Address(l, x, y, c) == y * (l.width * l.channels) + x * l.channels + c

Neighbour(l, x, y, c) == Address(l, imgjit_clamp_coord(x, l.width), imgjit_clamp_coord(y, l.height), c)

(* What a stage makes of byte c of a pixel: a square of samples, row by    *)
(* row; the byte itself, if there is no stencil or it is alpha             *)
Samples(l, x, y, c) ==
    LET span == 2 * l.radius + 1
    IN  IF c >= color_channels(l.channels) \/ ~l.has_stencil
        THEN <<Address(l, x, y, c)>>
        ELSE [n \in 1 .. span * span |->
                  Neighbour(l, x + ((n - 1) % span) - l.radius, y + ((n - 1) \div span) - l.radius, c)]

(* Addresses are natural numbers. *)
LEMMA AddressType ==
    ASSUME NEW l \in Launches, NEW x \in Nat, NEW y \in Nat, NEW c \in Nat
    PROVE  Address(l, x, y, c) \in Nat
<1>1. l.width \in Nat /\ l.channels \in Nat
  BY LaunchFacts
<1>2. y * (l.width * l.channels) \in Nat /\ x * l.channels \in Nat
  BY <1>1, Product
<1> QED
  BY <1>2 DEF Address

(* So are those of neighbours. *)
LEMMA NeighbourType ==
    ASSUME NEW l \in Launches, NEW x \in Int, NEW y \in Int, NEW c \in Nat
    PROVE  Neighbour(l, x, y, c) \in Nat
<1>1. imgjit_clamp_coord(x, l.width) \in Nat /\ imgjit_clamp_coord(y, l.height) \in Nat
  BY LaunchFacts, Clamped
<1> QED
  BY <1>1, AddressType DEF Neighbour

(* cpu::apply_op computes Samples. *)
LEMMA OracleIs ==
    ASSUME launch \in Launches, NEW x \in 0 .. width - 1, NEW y \in 0 .. height - 1, NEW c \in 0 .. channels - 1
    PROVE  Oracle(x, y, c) = Samples(launch, x, y, c) /\ at(x, y, c) = Address(launch, x, y, c)
<1>1. at(x, y, c) = Address(launch, x, y, c)
  BY DEF at, Address, width, channels
<1>2. CASE c >= colors \/ ~launch.has_stencil
  BY <1>1, <1>2 DEF Oracle, Samples, colors, channels
<1>3. CASE ~(c >= colors \/ ~launch.has_stencil)
  <2> DEFINE b == Span
             r == radius
             pieces == [m \in 1 .. b |-> OracleRow(x, y, c, m - 1 - r)]
             s == Concatenation(pieces)
             Sampled(n) == Neighbour(launch, x + ((n - 1) % b) - r, y + ((n - 1) \div b) - r, c)
  <2>1. r \in Nat /\ b \in Nat \ {0} /\ width \in Nat \ {0} /\ height \in Nat \ {0} /\ channels \in Nat
    BY LaunchFacts DEF Span, radius, width, height, channels
  <2>2. x \in Int /\ y \in Int /\ c \in Nat
    BY <2>1
  <2>3. Oracle(x, y, c) = s
    BY <1>3 DEF Oracle
  <2>4. Samples(launch, x, y, c) = [n \in 1 .. b * b |-> Sampled(n)]
    BY <1>3 DEF Samples, Span, radius, colors, channels
  <2> HIDE DEF b, r
  <2>5. ASSUME NEW m \in 0 .. b - 1
        PROVE  /\ pieces[m + 1] \in Seq(Int) /\ Len(pieces[m + 1]) = b
               /\ \A i \in 0 .. b - 1 : pieces[m + 1][i + 1] = Neighbour(launch, x + i - r, y + m - r, c)
    <3> DEFINE row == OracleRow(x, y, c, m - r)
    <3>1. m + 1 \in 1 .. b /\ m + 1 - 1 - r = m - r
      BY <2>1
    <3>2. pieces[m + 1] = row
      BY <3>1
    <3>3. row = [n \in 1 .. b |-> at(clamp_coordinate(x + n - 1 - r, width), clamp_coordinate(y + (m - r), height), c)]
      BY DEF OracleRow, b, r
    <3> HIDE DEF row
    <3>4. ASSUME NEW n \in 1 .. b
          PROVE  row[n] = Neighbour(launch, x + (n - 1) - r, y + m - r, c) /\ row[n] \in Int
      <4> DEFINE u == x + (n - 1) - r
                 v == y + m - r
      <4>1. /\ u \in Int /\ v \in Int
            /\ x + n - 1 - r = u /\ y + (m - r) = v
        BY <2>1, <2>2
      <4> HIDE DEF u, v
      <4>2. row[n] = at(clamp_coordinate(u, width), clamp_coordinate(v, height), c)
        BY <3>3, <4>1
      <4>3. row[n] = Neighbour(launch, u, v, c)
        BY <4>1, <4>2, <2>1, Clamped DEF Neighbour, at, Address, width, height, channels
      <4>4. Neighbour(launch, u, v, c) \in Nat
        BY <4>1, <2>2, NeighbourType
      <4> QED
        BY <4>3, <4>4 DEF u, v
    <3>5. row \in [1 .. b -> Int]
      BY <3>3, <3>4
    <3>6. row \in Seq(Int) /\ Len(row) = b
      BY <3>5, <2>1
    <3>7. ASSUME NEW i \in 0 .. b - 1 PROVE row[i + 1] = Neighbour(launch, x + i - r, y + m - r, c)
      <4>1. i + 1 \in 1 .. b /\ i + 1 - 1 = i
        BY <2>1
      <4> QED
        BY <3>4, <4>1
    <3> QED
      BY <3>2, <3>6, <3>7
  <2>6. Len(pieces) = b
    BY <2>1
  <2> HIDE DEF pieces, s
  <2>7. \A m \in 1 .. b : pieces[m] \in Seq(Int) /\ Len(pieces[m]) = b
    <3> TAKE m \in 1 .. b
    <3>1. m - 1 \in 0 .. b - 1 /\ m - 1 + 1 = m
      BY <2>1
    <3> QED
      BY <2>5, <3>1
  <2>8. Rows(pieces, b, b, s)
    BY <2>1, <2>6, <2>7, JoinedRows DEF s
  <2>9. b * b \in Nat
    BY <2>1, Product
  <2>10. ASSUME NEW n \in 1 .. b * b PROVE s[n] = Sampled(n)
    <3> DEFINE i == n - 1
               p == i \div b
               q == i % b
    <3>1. i \in 0 .. b * b - 1 /\ n = i + 1
      <4> DEFINE bb == b * b
      <4> HIDE DEF bb
      <4>1. i \in 0 .. bb - 1 /\ n = i + 1
        BY <2>9 DEF bb
      <4> QED
        BY <4>1 DEF bb
    <3>2. p \in 0 .. b - 1 /\ q \in 0 .. b - 1
      BY <2>1, <3>1, RowOf
    <3>3. s[i + 1] = pieces[p + 1][q + 1]
      BY <2>8, <3>1 DEF Rows
    <3> HIDE DEF p, q
    <3>4. pieces[p + 1][q + 1] = Neighbour(launch, x + q - r, y + p - r, c)
      BY <3>2, <2>5
    <3> QED
      BY <3>1, <3>3, <3>4 DEF p, q
  <2>11. s \in Seq(Int) /\ Len(s) = b * b
    BY <2>8 DEF Rows
  <2>12. s = [n \in 1 .. b * b |-> Sampled(n)]
    <3>1. s = [n \in 1 .. b * b |-> s[n]]
      BY <2>9, <2>11
    <3> QED
      BY <3>1, <2>10
  <2> QED
    BY <1>1, <2>3, <2>4, <2>12
<1> QED
  BY <1>2, <1>3

----------------------------------------------------------------------------
(* Bytes, pixels, threads and cells                                        *)

(* An address in factors that can be divided out again *)
LEMMA AddressForm ==
    ASSUME NEW l \in Launches, NEW x \in 0 .. l.width - 1, NEW y \in Nat, NEW c \in 0 .. l.channels - 1
    PROVE  LET row == l.channels * l.width
               in == l.channels * x + c
           IN  row \in Nat \ {0} /\ in \in 0 .. row - 1 /\ Address(l, x, y, c) = row * y + in
<1> DEFINE w == l.width
           ch == l.channels
           row == ch * w
           in == ch * x + c
<1>1. w \in Nat \ {0} /\ ch \in Nat \ {0}
  BY LaunchFacts
<1> HIDE DEF w, ch
<1>2. x \in Nat /\ x < w /\ c \in 0 .. ch - 1
  BY <1>1 DEF w, ch
<1>3. in \in 0 .. row - 1
  BY <1>1, <1>2, WithinRows
<1>4. row \in Nat \ {0}
  <2>1. row \in Nat
    BY <1>1, Product
  <2> HIDE DEF row, in
  <2> QED
    BY <1>3, <2>1
<1>5. y * (w * ch) + x * ch + c = row * y + in
  BY <1>1, <1>2
<1> QED
  BY <1>3, <1>4, <1>5 DEF Address, w, ch

(* A byte of the image is one of the buffer's. *)
LEMMA AddressInside ==
    ASSUME NEW l \in Launches, NEW x \in 0 .. l.width - 1, NEW y \in 0 .. l.height - 1, NEW c \in 0 .. l.channels - 1
    PROVE  Address(l, x, y, c) \in 0 .. l.width * l.height * l.channels - 1
<1> DEFINE w == l.width
           h == l.height
           ch == l.channels
           row == ch * w
           in == ch * x + c
<1>1. w \in Nat /\ h \in Nat /\ ch \in Nat /\ y \in Nat /\ y < h
  BY LaunchFacts
<1>2. row \in Nat \ {0} /\ in \in 0 .. row - 1 /\ Address(l, x, y, c) = row * y + in
  BY <1>1, AddressForm
<1>3. row * y + in \in 0 .. row * h - 1
  <2> HIDE DEF row, in
  <2> QED
    BY <1>1, <1>2, WithinRows
<1> HIDE DEF w, h, ch
<1>4. row * h = w * h * ch
  BY <1>1
<1>5. row * y + in \in 0 .. w * h * ch - 1
  BY <1>3, <1>4
<1> QED
  BY <1>2, <1>5 DEF w, h, ch

(* No byte belongs to two pixels, or to two colours of one. *)
LEMMA AddressUnique ==
    ASSUME NEW l \in Launches,
           NEW x \in 0 .. l.width - 1, NEW y \in Nat, NEW c \in 0 .. l.channels - 1,
           NEW u \in 0 .. l.width - 1, NEW v \in Nat, NEW d \in 0 .. l.channels - 1,
           Address(l, x, y, c) = Address(l, u, v, d)
    PROVE  x = u /\ y = v /\ c = d
<1> DEFINE row == l.channels * l.width
           in == l.channels * x + c
           out == l.channels * u + d
<1>1. row \in Nat \ {0} /\ in \in 0 .. row - 1 /\ Address(l, x, y, c) = row * y + in
  BY AddressForm
<1>2. out \in 0 .. row - 1 /\ Address(l, u, v, d) = row * v + out
  BY AddressForm
<1>3. y = v /\ in = out
  <2> HIDE DEF row, in, out
  <2>1. row * y + in = row * v + out
    BY <1>1, <1>2
  <2>2. row \in Nat \ {0} /\ in \in 0 .. row - 1 /\ out \in 0 .. row - 1
    BY <1>1, <1>2
  <2> QED
    BY <2>1, <2>2, OneDivision
<1>4. l.channels \in Nat \ {0} /\ x \in Nat /\ u \in Nat
  BY LaunchFacts
<1>5. x = u /\ c = d
  BY <1>3, <1>4, OneDivision
<1> QED
  BY <1>3, <1>5

(* The threads of a block, and the blocks of a launch *)
ThreadsOf(l) == (0 .. Dim(l) - 1) \X (0 .. Dim(l) - 1)

BlockOf(l, x, y) == <<x \div Dim(l), y \div Dim(l)>>
ThreadOf(l, x, y) == <<x % Dim(l), y % Dim(l)>>

(* The pixel of thread t of block b *)
Place(l, b, t, axis) == b[axis] * Dim(l) + t[axis]

(* A pixel has one thread of one block, and they have only that pixel. *)
LEMMA PixelThread ==
    ASSUME NEW l \in Launches, NEW x \in Nat, NEW y \in Nat
    PROVE  /\ ThreadOf(l, x, y) \in ThreadsOf(l)
           /\ x = Place(l, BlockOf(l, x, y), ThreadOf(l, x, y), 1)
           /\ y = Place(l, BlockOf(l, x, y), ThreadOf(l, x, y), 2)
<1> DEFINE n == Dim(l)
<1>1. n \in Nat \ {0}
  BY LaunchFacts
<1> HIDE DEF n
<1>2. x \div n \in Nat /\ x % n \in 0 .. n - 1 /\ x = n * (x \div n) + (x % n)
  BY <1>1, Division
<1>3. y \div n \in Nat /\ y % n \in 0 .. n - 1 /\ y = n * (y \div n) + (y % n)
  BY <1>1, Division
<1>4. n * (x \div n) = (x \div n) * n /\ n * (y \div n) = (y \div n) * n
  BY <1>1, <1>2, <1>3
<1> QED
  BY <1>2, <1>3, <1>4 DEF ThreadOf, ThreadsOf, BlockOf, Place, n

(* The block and the thread of a thread's pixel *)
LEMMA ThreadPixel ==
    ASSUME NEW l \in Launches, NEW b \in Nat \X Nat, NEW t \in ThreadsOf(l)
    PROVE  /\ Place(l, b, t, 1) \in Nat /\ Place(l, b, t, 2) \in Nat
           /\ BlockOf(l, Place(l, b, t, 1), Place(l, b, t, 2)) = b
           /\ ThreadOf(l, Place(l, b, t, 1), Place(l, b, t, 2)) = t
<1> DEFINE n == Dim(l)
<1>1. n \in Nat \ {0}
  BY LaunchFacts
<1> HIDE DEF n
<1>2. b[1] \in Nat /\ b[2] \in Nat /\ b = <<b[1], b[2]>>
  OBVIOUS
<1>3. t[1] \in 0 .. n - 1 /\ t[2] \in 0 .. n - 1 /\ t = <<t[1], t[2]>>
  BY DEF ThreadsOf, n
<1>4. ASSUME NEW q \in Nat, NEW r \in 0 .. n - 1
      PROVE  q * n + r \in Nat /\ (q * n + r) \div n = q /\ (q * n + r) % n = r
  <2>1. q * n = n * q
    BY <1>1
  <2>2. n * q + r \in Nat /\ (n * q + r) \div n = q /\ (n * q + r) % n = r
    BY <1>1, DivideBack
  <2> QED
    BY <2>1, <2>2
<1>5. /\ b[1] * n + t[1] \in Nat /\ (b[1] * n + t[1]) \div n = b[1] /\ (b[1] * n + t[1]) % n = t[1]
      /\ b[2] * n + t[2] \in Nat /\ (b[2] * n + t[2]) \div n = b[2] /\ (b[2] * n + t[2]) % n = t[2]
  BY <1>2, <1>3, <1>4
<1> QED
  BY <1>2, <1>3, <1>5 DEF Place, BlockOf, ThreadOf, n

(* The grid covers the image. *)
LEMMA GridCovers ==
    ASSUME NEW n \in Nat \ {0}, NEW extent \in Nat \ {0}, NEW x \in 0 .. extent - 1
    PROVE  x \div n \in 0 .. ((extent + n - 1) \div n) - 1
<1> DEFINE q == x \div n
           g == (extent + n - 1) \div n
           m == extent + n - 1
<1>1. x \in Nat /\ m \in Nat
  OBVIOUS
<1>2. q \in Nat /\ x % n \in 0 .. n - 1 /\ x = n * q + (x % n)
  BY <1>1, Division
<1>3. g \in Nat /\ m % n \in 0 .. n - 1 /\ m = n * g + (m % n)
  <2> HIDE DEF m
  <2>1. m \div n \in Nat /\ m % n \in 0 .. n - 1 /\ m = n * (m \div n) + (m % n)
    BY <1>1, Division
  <2> QED
    BY <2>1 DEF m
<1>4. q < g
  <2> SUFFICES ASSUME g <= q PROVE FALSE
    BY <1>2, <1>3
  <2> DEFINE r == x % n
             s == m % n
  <2>1. n * g <= n * q
    <3>1. CASE g = q
      <4>1. n * g \in Nat
        BY <1>3, Product
      <4> QED
        BY <3>1, <4>1
    <3>2. CASE g < q
      <4>1. n * g \in Nat /\ n * q \in Nat /\ n * g + n <= n * q
        BY <3>2, <1>2, <1>3, Below
      <4> QED
        BY <4>1
    <3> QED
      BY <3>1, <3>2, <1>2, <1>3
  <2>2. n * g \in Nat /\ n * q \in Nat
    BY <1>2, <1>3, Product
  <2> HIDE DEF q, g, r, s
  <2>3. x >= n * q /\ x <= extent - 1
    BY <1>2, <2>2 DEF r
  <2>4. extent + n - 1 <= n * g + n - 1
    BY <1>3, <2>2
  <2> QED
    BY <2>1, <2>2, <2>3, <2>4
<1> QED
  <2> HIDE DEF q, g
  <2>1. q \in 0 .. g - 1
    BY <1>2, <1>3, <1>4
  <2> QED
    BY <2>1 DEF q, g

(* The tile: its edge, the threads that load it, and the number of one *)
EdgeOf(l) == l.tile_size + 2 * l.radius
Lanes(l) == l.tile_size * l.tile_size
Lane(l, t) == t[2] * l.tile_size + t[1]

(* The pixel that belongs in a cell of the tile of block b *)
Home(l, b, cell) ==
    LET ty == cell \div EdgeOf(l)
        tx == cell - ty * EdgeOf(l)
    IN  Neighbour(l, b[1] * l.tile_size - l.radius + tx, b[2] * l.tile_size - l.radius + ty, 0)

(* Every number below the number of lanes is the lane of a thread. *)
LEMMA LaneOfThread ==
    ASSUME NEW l \in Launches, l.has_stencil, l.tile_size > 0
    PROVE  /\ Lanes(l) \in Nat \ {0}
           /\ \A t \in ThreadsOf(l) : Lane(l, t) \in 0 .. Lanes(l) - 1
           /\ \A n \in 0 .. Lanes(l) - 1 : \E t \in ThreadsOf(l) : Lane(l, t) = n
<1> DEFINE ts == l.tile_size
<1>1. ts \in Nat \ {0} /\ Dim(l) = ts
  BY LaunchFacts
<1> HIDE DEF ts
<1>2. Lanes(l) = ts * ts
  BY DEF Lanes, ts
<1>3. ASSUME NEW t \in ThreadsOf(l) PROVE Lane(l, t) \in 0 .. Lanes(l) - 1
  <2>1. t[1] \in 0 .. ts - 1 /\ t[2] \in Nat /\ t[2] < ts
    BY <1>1 DEF ThreadsOf
  <2>2. ts * t[2] + t[1] \in 0 .. ts * ts - 1
    BY <1>1, <2>1, WithinRows
  <2>3. ts * t[2] = t[2] * ts
    BY <1>1, <2>1
  <2> QED
    BY <1>2, <2>2, <2>3 DEF Lane, ts
<1>4. ASSUME NEW n \in 0 .. Lanes(l) - 1 PROVE \E t \in ThreadsOf(l) : Lane(l, t) = n
  <2>1. n \in 0 .. ts * ts - 1
    BY <1>2
  <2>2. n \div ts \in 0 .. ts - 1 /\ n % ts \in 0 .. ts - 1 /\ n = ts * (n \div ts) + (n % ts)
    BY <1>1, <2>1, RowOf
  <2>3. ts * (n \div ts) = (n \div ts) * ts
    BY <1>1, <2>2
  <2> DEFINE t == <<n % ts, n \div ts>>
  <2>4. t \in ThreadsOf(l)
    BY <1>1, <2>2 DEF ThreadsOf
  <2>5. Lane(l, t) = n
    BY <2>2, <2>3 DEF Lane, ts
  <2> QED
    BY <2>4, <2>5
<1>5. Lanes(l) \in Nat \ {0}
  <2>1. ts * ts \in Nat
    BY <1>1, Product
  <2>2. ts * 0 + 0 \in 0 .. ts * ts - 1
    BY <1>1, WithinRows
  <2> QED
    BY <1>2, <2>1, <2>2
<1> QED
  BY <1>3, <1>4, <1>5

(* The tap function reads the neighbour. *)
LEMMA TapIs ==
    ASSUME launch \in Launches, NEW x \in Int, NEW y \in Int, NEW c \in Nat
    PROVE  tap(x, y) \in Nat /\ tap(x, y) + c = Neighbour(launch, x, y, c) /\ tap(x, y) = Neighbour(launch, x, y, 0)
<1> DEFINE u == imgjit_clamp_coord(x, width)
           v == imgjit_clamp_coord(y, height)
<1>1. width \in Nat \ {0} /\ height \in Nat \ {0} /\ channels \in Nat
  BY LaunchFacts DEF width, height, channels
<1>2. u \in Nat /\ v \in Nat
  BY <1>1, Clamped
<1>3. tap(x, y) = (v * width + u) * channels
  BY DEF tap
<1>4. Neighbour(launch, x, y, c) = v * (width * channels) + u * channels + c
  BY DEF Neighbour, Address, width, height, channels
<1>5. Neighbour(launch, x, y, 0) = v * (width * channels) + u * channels + 0
  BY DEF Neighbour, Address, width, height, channels
<1> HIDE DEF u, v
<1>6. (v * width + u) * channels = v * (width * channels) + u * channels /\ (v * width + u) * channels \in Nat
  BY <1>1, <1>2, Distribute
<1> DEFINE a == v * (width * channels) + u * channels
<1>7. tap(x, y) = a /\ a \in Nat
  BY <1>3, <1>6
<1> HIDE DEF a
<1>8. a + 0 = a
  BY <1>7
<1> QED
  BY <1>4, <1>5, <1>7, <1>8 DEF a

(* Where the taps of thread t of a tiled block lie: cell (lx, ly) holds    *)
(* the neighbour of the thread's pixel that it is named for.               *)
LEMMA HomeOfTap ==
    ASSUME NEW l \in Launches, l.has_stencil, l.tile_size > 0, NEW b \in Nat \X Nat, NEW t \in ThreadsOf(l),
           NEW dx \in -l.radius .. l.radius, NEW dy \in -l.radius .. l.radius
    PROVE  LET ty == t[2] + l.radius + dy
               tx == t[1] + l.radius + dx
               cell == ty * EdgeOf(l) + tx
           IN  /\ ty \in 0 .. EdgeOf(l) - 1 /\ tx \in 0 .. EdgeOf(l) - 1
               /\ cell \in 0 .. EdgeOf(l) * EdgeOf(l) - 1
               /\ Home(l, b, cell) = Neighbour(l, Place(l, b, t, 1) + dx, Place(l, b, t, 2) + dy, 0)
<1> DEFINE ts == l.tile_size
           r == l.radius
           e == EdgeOf(l)
           ty == t[2] + r + dy
           tx == t[1] + r + dx
           cell == ty * e + tx
<1>1. ts \in Nat \ {0} /\ Dim(l) = ts /\ r \in Nat /\ e = ts + 2 * r
  BY LaunchFacts DEF EdgeOf
<1>2. /\ t[1] \in 0 .. ts - 1 /\ t[2] \in 0 .. ts - 1 /\ b[1] \in Nat /\ b[2] \in Nat
      /\ dx \in -r .. r /\ dy \in -r .. r
  BY <1>1 DEF ThreadsOf
<1> HIDE DEF ts, r, e
<1>3. e \in Nat \ {0} /\ ty \in 0 .. e - 1 /\ tx \in 0 .. e - 1
  BY <1>1, <1>2
<1>4. cell \div e = ty /\ cell - ty * e = tx /\ cell \in 0 .. e * e - 1
  <2> HIDE DEF tx, ty
  <2>1. ty \in Nat /\ ty < e
    BY <1>3
  <2>2. ty * e = e * ty /\ e * ty \in Nat
    BY <1>3, <2>1
  <2>3. (e * ty + tx) \div e = ty /\ e * ty + tx \in 0 .. e * e - 1
    BY <1>3, <2>1, DivideBack, WithinRows
  <2> DEFINE p == ty * e
  <2>4. p \in Nat /\ cell = p + tx
    BY <2>2
  <2>5. cell = e * ty + tx
    BY <2>2
  <2> HIDE DEF cell, p
  <2>6. cell - p = tx
    BY <1>3, <2>4
  <2>7. cell \div e = ty /\ cell \in 0 .. e * e - 1
    BY <2>3, <2>5
  <2> QED
    BY <2>6, <2>7 DEF p
<1>5. /\ b[1] * ts \in Nat /\ b[2] * ts \in Nat
  BY <1>1, <1>2, Product
<1>6. /\ b[1] * ts - r + tx = b[1] * ts + t[1] + dx
      /\ b[2] * ts - r + ty = b[2] * ts + t[2] + dy
  <2> DEFINE p == b[1] * ts
             q == b[2] * ts
  <2> HIDE DEF p, q
  <2>1. p - r + tx = p + t[1] + dx /\ q - r + ty = q + t[2] + dy
    BY <1>1, <1>2, <1>5 DEF p, q
  <2> QED
    BY <2>1 DEF p, q
<1>7. Home(l, b, cell) = Neighbour(l, b[1] * ts - r + tx, b[2] * ts - r + ty, 0)
  <2> HIDE DEF cell, tx, ty
  <2> QED
    BY <1>4 DEF Home, e, ts, r
<1>8. Place(l, b, t, 1) + dx = b[1] * ts + t[1] + dx /\ Place(l, b, t, 2) + dy = b[2] * ts + t[2] + dy
  BY <1>1 DEF Place
<1>9. Home(l, b, cell) = Neighbour(l, Place(l, b, t, 1) + dx, Place(l, b, t, 2) + dy, 0)
  BY <1>6, <1>7, <1>8
<1> HIDE DEF Home, Neighbour, Place
<1> QED
  BY <1>3, <1>4, <1>9 DEF e, r

----------------------------------------------------------------------------
(* The inductive invariant                                                 *)

CellsOf(l) == EdgeOf(l) * EdgeOf(l)

(* Thread t has loaded the cells of its lane below q[t] of block b's tile  *)
(* m; nobody is past the barrier before everybody has loaded all.          *)
Loading(l, b, p, q, m) ==
    \A t \in ThreadsOf(l) :
        /\ q[t] % Lanes(l) = Lane(l, t)
        /\ p[t] = "load" <=> q[t] < CellsOf(l)
        /\ \A cell \in 0 .. CellsOf(l) - 1 :
              cell % Lanes(l) = Lane(l, t) /\ cell < q[t] => m[cell] = Home(l, b, cell)
        /\ p[t] \in {"body", "done"} => \A u \in ThreadsOf(l) : p[u] # "load"

(* The thread of pixel (x, y) has finished, in this block or an earlier one. *)
Finished(l, left, b, p, x, y) ==
    BlockOf(l, x, y) \notin left \/ (b # None /\ b = BlockOf(l, x, y) /\ p[ThreadOf(l, x, y)] = "done")

(* Pixel (x, y) of buffer d is the CPU's. *)
Painted(l, d, x, y) == \A c \in 0 .. l.channels - 1 : d[Address(l, x, y, c)] = Samples(l, x, y, c)

Types ==
    /\ launch \in Launches
    /\ todo \subseteq Grid
    /\ block # None => block \in todo
    /\ pc \in [ThreadsOf(launch) -> {"load", "barrier", "body", "done"}]
    /\ k \in [ThreadsOf(launch) -> Nat]
    /\ tile \in [0 .. CellsOf(launch) - 1 -> Nat \cup {Junk}]
    /\ DOMAIN dst = 0 .. launch.width * launch.height * launch.channels - 1

IInv ==
    /\ Types
    /\ (tiled /\ block # None) => Loading(launch, block, pc, k, tile)
    /\ ~tiled => \A t \in ThreadsOf(launch) : pc[t] \in {"body", "done"}
    /\ \A x \in 0 .. launch.width - 1, y \in 0 .. launch.height - 1 :
          Finished(launch, todo, block, pc, x, y) => Painted(launch, dst, x, y)

(* The state functions of a launch *)
LEMMA OfLaunch ==
    ASSUME launch \in Launches
    PROVE  /\ width = launch.width /\ height = launch.height /\ channels = launch.channels
           /\ radius = launch.radius /\ tile_size = launch.tile_size
           /\ edge = EdgeOf(launch) /\ blockDim = Dim(launch) /\ Threads = ThreadsOf(launch)
           /\ tiled <=> launch.has_stencil /\ launch.tile_size > 0
  BY DEF width, height, channels, radius, tile_size, edge, EdgeOf, blockDim, Dim, Threads, ThreadsOf, tiled

(* Blocks of the grid, and the pixels' blocks *)
LEMMA GridFacts ==
    ASSUME launch \in Launches
    PROVE  /\ Grid \subseteq Nat \X Nat
           /\ \A x \in 0 .. launch.width - 1, y \in 0 .. launch.height - 1 : BlockOf(launch, x, y) \in Grid
<1> DEFINE n == Dim(launch)
           gx == (launch.width + n - 1) \div n
           gy == (launch.height + n - 1) \div n
<1>1. n \in Nat \ {0} /\ launch.width \in Nat \ {0} /\ launch.height \in Nat \ {0}
  BY LaunchFacts
<1>2. Grid = (0 .. gx - 1) \X (0 .. gy - 1)
  BY DEF Grid, grid_dim, blockDim, Dim, width, height, tile_size
<1>3. ASSUME NEW x \in 0 .. launch.width - 1, NEW y \in 0 .. launch.height - 1 PROVE BlockOf(launch, x, y) \in Grid
  <2>1. x \div n \in 0 .. gx - 1 /\ y \div n \in 0 .. gy - 1
    <3> HIDE DEF n
    <3> QED
      BY <1>1, GridCovers
  <2> HIDE DEF gx, gy
  <2> QED
    BY <1>2, <2>1 DEF BlockOf
<1>4. Grid \subseteq Nat \X Nat
  <2> HIDE DEF gx, gy
  <2>1. \A i : i \in 0 .. gx - 1 => i \in Nat
    OBVIOUS
  <2>2. \A i : i \in 0 .. gy - 1 => i \in Nat
    OBVIOUS
  <2> QED
    BY <1>2, <2>1, <2>2
<1> QED
  BY <1>3, <1>4

(* The initial state *)
LEMMA InvInit == Init => IInv
<1> SUFFICES ASSUME Init PROVE IInv
  OBVIOUS
<1>1. launch \in Launches
  BY DEF Init
<1>2. Types
  <2>1. pc \in [ThreadsOf(launch) -> {"load", "barrier", "body", "done"}] /\ k \in [ThreadsOf(launch) -> Nat]
    BY <1>1, OfLaunch DEF Init
  <2>2. tile \in [0 .. CellsOf(launch) - 1 -> Nat \cup {Junk}]
    BY <1>1, OfLaunch DEF Init, CellsOf
  <2>3. DOMAIN dst = 0 .. launch.width * launch.height * launch.channels - 1
    BY <1>1, OfLaunch DEF Init
  <2>4. todo = Grid /\ block = None
    BY DEF Init
  <2> QED
    BY <1>1, <2>1, <2>2, <2>3, <2>4 DEF Types
<1>3. todo = Grid /\ block = None
  BY DEF Init
<1>4. \A x \in 0 .. launch.width - 1, y \in 0 .. launch.height - 1 : ~Finished(launch, todo, block, pc, x, y)
  BY <1>1, <1>3, GridFacts DEF Finished
<1>5. \A t \in ThreadsOf(launch) : pc[t] = "done"
  BY <1>1, OfLaunch DEF Init
<1> QED
  BY <1>2, <1>3, <1>4, <1>5 DEF IInv

(* A block starts: no thread has loaded or finished anything. *)
LEMMA InvStart == ASSUME IInv, NEW b \in todo, StartBlock(b) PROVE IInv'
<1> DEFINE l == launch
<1>1. /\ l \in Launches /\ launch' = launch /\ todo' = todo /\ dst' = dst /\ block = None /\ block' = b
  BY DEF IInv, Types, StartBlock
<1>2. /\ Threads = ThreadsOf(l) /\ tile_size = l.tile_size /\ (tiled <=> l.has_stencil /\ l.tile_size > 0)
      /\ tiled' = tiled /\ Grid' = Grid
  BY <1>1, OfLaunch DEF tiled, tile_size, Grid, grid_dim, blockDim, width, height
<1>3. pc' = [t \in ThreadsOf(l) |-> IF tiled THEN "load" ELSE "body"]
  BY <1>2 DEF StartBlock
<1>4. k' = [t \in ThreadsOf(l) |-> Lane(l, t)]
  BY <1>2 DEF StartBlock, Lane
<1>5. tile' = [cell \in 0 .. CellsOf(l) - 1 |-> Junk]
  <2>1. DOMAIN tile = 0 .. CellsOf(l) - 1
    BY DEF IInv, Types
  <2> QED
    BY <2>1 DEF StartBlock
<1>6. \A t \in ThreadsOf(l) : Lane(l, t) \in Nat
  <2> SUFFICES ASSUME NEW t \in ThreadsOf(l) PROVE Lane(l, t) \in Nat
    OBVIOUS
  <2>1. t[1] \in Nat /\ t[2] \in Nat /\ l.tile_size \in Nat
    BY <1>1, LaunchFacts DEF ThreadsOf
  <2>2. t[2] * l.tile_size \in Nat
    BY <2>1, Product
  <2> QED
    BY <2>1, <2>2 DEF Lane
<1>7. Types'
  <2>1. pc' \in [ThreadsOf(l) -> {"load", "barrier", "body", "done"}]
    BY <1>3
  <2>2. k' \in [ThreadsOf(l) -> Nat]
    BY <1>4, <1>6
  <2>3. tile' \in [0 .. CellsOf(l) - 1 -> Nat \cup {Junk}]
    BY <1>5
  <2>4. todo \subseteq Grid /\ DOMAIN dst = 0 .. l.width * l.height * l.channels - 1
    BY DEF IInv, Types
  <2> QED
    BY <1>1, <1>2, <2>1, <2>2, <2>3, <2>4 DEF Types
<1>8. ASSUME tiled PROVE Loading(l, b, pc', k', tile')
  <2> SUFFICES ASSUME NEW t \in ThreadsOf(l)
               PROVE  /\ k'[t] % Lanes(l) = Lane(l, t)
                      /\ pc'[t] = "load" <=> k'[t] < CellsOf(l)
                      /\ \A cell \in 0 .. CellsOf(l) - 1 :
                            cell % Lanes(l) = Lane(l, t) /\ cell < k'[t] => tile'[cell] = Home(l, b, cell)
                      /\ pc'[t] \in {"body", "done"} => \A u \in ThreadsOf(l) : pc'[u] # "load"
    BY DEF Loading
  <2>1. Lanes(l) \in Nat \ {0} /\ Lane(l, t) \in 0 .. Lanes(l) - 1
    BY <1>1, <1>2, <1>8, LaneOfThread
  <2>2. k'[t] = Lane(l, t) /\ pc'[t] = "load"
    BY <1>3, <1>4, <1>8
  <2>3. ASSUME NEW n \in 0 .. Lanes(l) - 1 PROVE n % Lanes(l) = n
    <3> DEFINE s == Lanes(l)
    <3> HIDE DEF s
    <3>1. s \in Nat \ {0} /\ n \in 0 .. s - 1
      BY <2>1 DEF s
    <3>2. n % s = n
      BY <3>1
    <3> QED
      BY <3>2 DEF s
  <2>4. Lanes(l) <= CellsOf(l)
    <3> DEFINE ts == l.tile_size
               r == l.radius
    <3>1. ts \in Nat /\ r \in Nat
      BY <1>1, LaunchFacts
    <3> HIDE DEF ts, r
    <3>2. (ts + 2 * r) * (ts + 2 * r) = ts * ts + (4 * (ts * r) + 4 * (r * r))
      BY <3>1
    <3>3. ts * ts \in Nat /\ ts * r \in Nat /\ r * r \in Nat
      BY <3>1, Product
    <3>4. ts * ts <= ts * ts + (4 * (ts * r) + 4 * (r * r))
      BY <3>3
    <3> QED
      BY <3>2, <3>4 DEF Lanes, CellsOf, EdgeOf, ts, r
  <2>5. CellsOf(l) \in Nat
    <3>1. EdgeOf(l) \in Nat
      BY <1>1, LaunchFacts DEF EdgeOf
    <3> QED
      BY <3>1, Product DEF CellsOf
  <2>6. k'[t] < CellsOf(l)
    BY <2>1, <2>2, <2>4, <2>5
  <2>7. ASSUME NEW cell \in 0 .. CellsOf(l) - 1, cell % Lanes(l) = Lane(l, t), cell < k'[t] PROVE FALSE
    <3>1. cell \in 0 .. Lanes(l) - 1
      BY <2>1, <2>2, <2>5, <2>7
    <3>2. cell % Lanes(l) = cell
      BY <3>1, <2>3
    <3> QED
      BY <2>2, <2>7, <3>1, <3>2, <2>1
  <2>8. Lane(l, t) % Lanes(l) = Lane(l, t)
    BY <2>1, <2>3
  <2> QED
    BY <2>2, <2>6, <2>7, <2>8
<1>9. ASSUME NEW x \in 0 .. l.width - 1, NEW y \in 0 .. l.height - 1, Finished(l, todo, b, pc', x, y)
      PROVE  Painted(l, dst, x, y)
  <2>1. ThreadOf(l, x, y) \in ThreadsOf(l)
    <3>1. x \in Nat /\ y \in Nat
      BY <1>1, LaunchFacts
    <3> QED
      BY <1>1, <3>1, PixelThread
  <2>2. pc'[ThreadOf(l, x, y)] # "done"
    BY <1>3, <2>1
  <2>3. Finished(l, todo, block, pc, x, y)
    BY <2>2, <1>9 DEF Finished
  <2> QED
    BY <2>3 DEF IInv
<1>10. ~tiled => \A t \in ThreadsOf(l) : pc'[t] = "body"
  BY <1>3
<1> QED
  BY <1>1, <1>2, <1>7, <1>8, <1>9, <1>10 DEF IInv

(* The cells of a lane lie a whole number of turns apart. *)
LEMMA NextOfLane ==
    ASSUME NEW s \in Nat \ {0}, NEW n \in Nat
    PROVE  /\ (n + s) % s = n % s
           /\ \A m \in Nat : m % s = n % s /\ n <= m /\ m < n + s => m = n
<1> DEFINE q == n \div s
           r == n % s
<1>1. q \in Nat /\ r \in 0 .. s - 1 /\ n = s * q + r
  BY Division
<1> HIDE DEF q, r
<1>2. (n + s) % s = r
  <2>1. s * (q + 1) = s * q + s /\ s * q \in Nat
    BY <1>1
  <2>2. n + s = s * (q + 1) + r
    BY <1>1, <2>1
  <2>3. (s * (q + 1) + r) % s = r
    BY <1>1, DivideBack
  <2> QED
    BY <2>2, <2>3
<1>3. ASSUME NEW m \in Nat, m % s = r, n <= m, m < n + s PROVE m = n
  <2> DEFINE p == m \div s
  <2>1. p \in Nat /\ m = s * p + r
    BY <1>3, Division
  <2> HIDE DEF p
  <2>2. s * p \in Nat /\ s * q \in Nat
    BY <1>1, <2>1, Product
  <2>3. ~(p < q)
    <3> SUFFICES ASSUME p < q PROVE FALSE
      OBVIOUS
    <3>1. s * p + s <= s * q
      BY <1>1, <2>1, Below
    <3> QED
      BY <3>1, <2>1, <2>2, <1>1, <1>3
  <2>4. ~(q < p)
    <3> SUFFICES ASSUME q < p PROVE FALSE
      OBVIOUS
    <3>1. s * q + s <= s * p
      BY <1>1, <2>1, Below
    <3> QED
      BY <3>1, <2>1, <2>2, <1>1, <1>3
  <2>5. p = q
    BY <1>1, <2>1, <2>3, <2>4
  <2> QED
    BY <1>1, <2>1, <2>5
<1> QED
  BY <1>2, <1>3 DEF r

(* One turn of the load loop fills its cell with the pixel that belongs in *)
(* it.                                                                     *)
LEMMA LoadFills ==
    ASSUME IInv, NEW t \in ThreadsOf(launch), Load(t)
    PROVE  /\ tile' = [tile EXCEPT ![k[t]] = Home(launch, block, k[t])]
           /\ Home(launch, block, k[t]) \in Nat
           /\ k' = [k EXCEPT ![t] = k[t] + Lanes(launch)]
           /\ pc' = [pc EXCEPT ![t] = IF k[t] + Lanes(launch) < CellsOf(launch) THEN "load" ELSE "barrier"]
<1> DEFINE n == k[t]
           e == EdgeOf(launch)
           ty == n \div e
           tx == n - ty * e
           x == block[1] * launch.tile_size - launch.radius + tx
           y == block[2] * launch.tile_size - launch.radius + ty
<1>1. /\ launch \in Launches /\ n \in Nat /\ block \in Nat \X Nat /\ t \in DOMAIN k
  BY GridFacts DEF IInv, Types, Load
<1>2. /\ edge = e /\ tile_size = launch.tile_size /\ radius = launch.radius
      /\ launch.tile_size > 0
  <2>1. tiled
    BY DEF IInv, Load
  <2> QED
    BY <2>1, <1>1, OfLaunch
<1>3. tile' = [tile EXCEPT ![n] = tap(x, y)]
  BY <1>2 DEF Load
<1>4. x \in Int /\ y \in Int
  <2>1. launch.tile_size \in Nat /\ launch.radius \in Nat /\ e \in Nat
    BY <1>1, LaunchFacts DEF EdgeOf
  <2>2. block[1] * launch.tile_size \in Nat /\ block[2] * launch.tile_size \in Nat
    BY <1>1, <2>1, Product
  <2>3. ty \in Int
    <3>1. e \in Nat \ {0}
      BY <1>1, <1>2, LaunchFacts DEF EdgeOf
    <3> HIDE DEF e, n
    <3> QED
      BY <3>1, <1>1, Division
  <2> HIDE DEF ty, n, e
  <2>4. ty * e \in Int
    BY <2>1, <2>3
  <2>5. tx \in Int
    BY <2>4, <1>1
  <2> HIDE DEF tx
  <2> QED
    BY <2>1, <2>2, <2>3, <2>5
<1>5. Home(launch, block, n) = Neighbour(launch, x, y, 0)
  BY DEF Home
<1> HIDE DEF x, y
<1>6. tap(x, y) = Home(launch, block, n) /\ tap(x, y) \in Nat
  BY <1>1, <1>4, <1>5, TapIs
<1>7. k' = [k EXCEPT ![t] = n + Lanes(launch)]
  BY <1>2 DEF Load, Lanes
<1>8. k'[t] = n + Lanes(launch)
  BY <1>1, <1>7
<1>9. pc' = [pc EXCEPT ![t] = IF k[t] + Lanes(launch) < CellsOf(launch) THEN "load" ELSE "barrier"]
  BY <1>2, <1>8 DEF Load, CellsOf
<1> QED
  BY <1>3, <1>6, <1>7, <1>9

(* What the numbers of a launch are *)
LEMMA CellFacts ==
    ASSUME NEW l \in Launches
    PROVE  CellsOf(l) \in Nat
<1>1. EdgeOf(l) \in Nat
  BY LaunchFacts DEF EdgeOf
<1> QED
  BY <1>1, Product DEF CellsOf

(* A turn of the load loop *)
LEMMA InvLoad == ASSUME IInv, NEW t \in ThreadsOf(launch), Load(t) PROVE IInv'
<1> DEFINE l == launch
           n == k[t]
           s == Lanes(l)
           cells == CellsOf(l)
           home == Home(l, block, n)
<1>1. /\ l \in Launches /\ launch' = launch /\ todo' = todo /\ dst' = dst /\ block' = block /\ block # None
      /\ pc[t] = "load"
  BY DEF IInv, Types, Load
<1>2. tiled /\ tiled' = tiled /\ Grid' = Grid
  BY <1>1 DEF IInv, tiled, tile_size, Grid, grid_dim, blockDim, width, height
<1>3. /\ tile' = [tile EXCEPT ![n] = home] /\ home \in Nat
      /\ k' = [k EXCEPT ![t] = n + s]
      /\ pc' = [pc EXCEPT ![t] = IF n + s < cells THEN "load" ELSE "barrier"]
  BY LoadFills
<1>4. /\ l.has_stencil /\ l.tile_size > 0
      /\ s \in Nat \ {0} /\ cells \in Nat
  BY <1>1, <1>2, OfLaunch, LaneOfThread, CellFacts
<1>5. /\ pc \in [ThreadsOf(l) -> {"load", "barrier", "body", "done"}] /\ k \in [ThreadsOf(l) -> Nat]
      /\ tile \in [0 .. cells - 1 -> Nat \cup {Junk}] /\ n \in Nat
  BY DEF IInv, Types
<1>6. Loading(l, block, pc, k, tile)
  BY <1>1, <1>2 DEF IInv
<1>7. n \in 0 .. cells - 1 /\ n % s = Lane(l, t)
  <2>1. n % s = Lane(l, t) /\ n < cells
    BY <1>1, <1>6 DEF Loading
  <2> HIDE DEF n, cells, s
  <2> QED
    BY <2>1, <1>4, <1>5
<1> HIDE DEF n, s, cells, home
<1>8. /\ tile'[n] = home /\ \A cell \in 0 .. cells - 1 : cell # n => tile'[cell] = tile[cell]
      /\ tile' \in [0 .. cells - 1 -> Nat \cup {Junk}]
  BY <1>3, <1>5, <1>7
<1>9. /\ k'[t] = n + s /\ \A u \in ThreadsOf(l) : u # t => k'[u] = k[u]
      /\ k' \in [ThreadsOf(l) -> Nat]
  BY <1>3, <1>4, <1>5
<1>10. /\ pc'[t] = (IF n + s < cells THEN "load" ELSE "barrier") /\ \A u \in ThreadsOf(l) : u # t => pc'[u] = pc[u]
       /\ pc' \in [ThreadsOf(l) -> {"load", "barrier", "body", "done"}]
  BY <1>3, <1>5
<1>11. Types'
  BY <1>1, <1>2, <1>8, <1>9, <1>10 DEF IInv, Types, cells
<1>12. \A u \in ThreadsOf(l) : pc[u] \notin {"body", "done"}
  BY <1>1, <1>6 DEF Loading
<1>13. \A u \in ThreadsOf(l) : pc'[u] \notin {"body", "done"}
  <2> SUFFICES ASSUME NEW u \in ThreadsOf(l) PROVE pc'[u] \notin {"body", "done"}
    OBVIOUS
  <2>1. CASE u = t
    BY <2>1, <1>10
  <2>2. CASE u # t
    BY <2>2, <1>10, <1>12
  <2> QED
    BY <2>1, <2>2
<1>14. Loading(l, block, pc', k', tile')
  <2> SUFFICES ASSUME NEW u \in ThreadsOf(l)
               PROVE  /\ k'[u] % s = Lane(l, u)
                      /\ pc'[u] = "load" <=> k'[u] < cells
                      /\ \A cell \in 0 .. cells - 1 :
                            cell % s = Lane(l, u) /\ cell < k'[u] => tile'[cell] = Home(l, block, cell)
    BY <1>13 DEF Loading, s, cells
  <2>1. /\ k[u] % s = Lane(l, u) /\ (pc[u] = "load" <=> k[u] < cells)
        /\ \A cell \in 0 .. cells - 1 :
              cell % s = Lane(l, u) /\ cell < k[u] => tile[cell] = Home(l, block, cell)
    BY <1>6 DEF Loading, s, cells
  <2>2. tile'[n] = Home(l, block, n)
    BY <1>8 DEF home
  <2>3. ASSUME NEW cell \in 0 .. cells - 1, cell # n, cell % s = Lane(l, u), cell < k[u]
        PROVE  tile'[cell] = Home(l, block, cell)
    BY <2>1, <2>3, <1>8
  <2>4. CASE u # t
    <3>1. k'[u] = k[u] /\ pc'[u] = pc[u]
      BY <2>4, <1>9, <1>10
    <3>2. \A cell \in 0 .. cells - 1 :
              cell % s = Lane(l, u) /\ cell < k[u] => tile'[cell] = Home(l, block, cell)
      BY <2>2, <2>3
    <3> QED
      BY <2>1, <3>1, <3>2
  <2>5. CASE u = t
    <3>1. k[u] = n
      BY <2>5 DEF n
    <3>2. k'[u] = n + s
      BY <2>5, <1>9
    <3>3. (n + s) % s = n % s /\ \A m \in Nat : m % s = n % s /\ n <= m /\ m < n + s => m = n
      BY <1>4, <1>5, NextOfLane
    <3>4. pc'[u] = "load" <=> n + s < cells
      BY <2>5, <1>10
    <3>5. ASSUME NEW cell \in 0 .. cells - 1, cell % s = Lane(l, u), cell < n + s
          PROVE  tile'[cell] = Home(l, block, cell)
      <4>0. cell \in Nat
        BY <1>4
      <4>1. CASE cell < n
        BY <4>1, <3>1, <3>5, <2>3, <4>0, <1>5
      <4>2. CASE n <= cell
        <5>1. cell % s = n % s
          BY <3>5, <1>7, <2>5
        <5>2. cell = n
          BY <5>1, <4>0, <4>2, <3>3, <3>5
        <5> QED
          BY <5>2, <2>2
      <4> QED
        BY <4>0, <4>1, <4>2, <1>5
    <3>6. (n + s) % s = Lane(l, u)
      BY <3>3, <1>7, <2>5
    <3> QED
      BY <3>2, <3>4, <3>5, <3>6
  <2> QED
    BY <2>4, <2>5
<1>15. ASSUME NEW x \in 0 .. l.width - 1, NEW y \in 0 .. l.height - 1, Finished(l, todo, block, pc', x, y)
       PROVE  Painted(l, dst, x, y)
  <2>1. ThreadOf(l, x, y) \in ThreadsOf(l)
    <3>1. x \in Nat /\ y \in Nat
      BY <1>1, LaunchFacts
    <3> QED
      BY <1>1, <3>1, PixelThread
  <2>2. Finished(l, todo, block, pc, x, y)
    BY <2>1, <1>13, <1>15 DEF Finished
  <2> QED
    BY <2>2 DEF IInv
<1> QED
  BY <1>1, <1>2, <1>11, <1>14, <1>15 DEF IInv

(* The barrier *)
LEMMA InvSync == ASSUME IInv, SyncThreads PROVE IInv'
<1> DEFINE l == launch
<1>1. /\ l \in Launches /\ launch' = launch /\ todo' = todo /\ dst' = dst /\ block' = block /\ block # None
      /\ k' = k /\ tile' = tile
  BY DEF IInv, Types, SyncThreads
<1>2. Threads = ThreadsOf(l) /\ tiled' = tiled /\ Grid' = Grid
  BY <1>1, OfLaunch DEF tiled, tile_size, Grid, grid_dim, blockDim, width, height
<1>3. pc' = [t \in ThreadsOf(l) |-> "body"] /\ \A t \in ThreadsOf(l) : pc[t] = "barrier"
  BY <1>2 DEF SyncThreads
<1>4. Types'
  <2>1. pc' \in [ThreadsOf(l) -> {"load", "barrier", "body", "done"}]
    BY <1>3
  <2> QED
    BY <1>1, <1>2, <2>1 DEF IInv, Types
<1>5. tiled => Loading(l, block, pc', k', tile')
  BY <1>1, <1>3 DEF IInv, Loading
<1>6. ASSUME NEW x \in 0 .. l.width - 1, NEW y \in 0 .. l.height - 1, Finished(l, todo, block, pc', x, y)
      PROVE  Painted(l, dst, x, y)
  <2>1. ThreadOf(l, x, y) \in ThreadsOf(l)
    <3>1. x \in Nat /\ y \in Nat
      BY <1>1, LaunchFacts
    <3> QED
      BY <1>1, <3>1, PixelThread
  <2>2. Finished(l, todo, block, pc, x, y)
    BY <2>1, <1>3, <1>6 DEF Finished
  <2> QED
    BY <2>2 DEF IInv
<1>7. \A t \in ThreadsOf(l) : pc'[t] = "body"
  BY <1>3
<1> QED
  BY <1>1, <1>2, <1>4, <1>5, <1>6, <1>7 DEF IInv

(* A block is over: all its pixels are painted. *)
LEMMA InvEnd == ASSUME IInv, EndBlock PROVE IInv'
<1> DEFINE l == launch
<1>1. /\ l \in Launches /\ launch' = launch /\ todo' = todo \ {block} /\ dst' = dst /\ block' = None /\ block # None
      /\ k' = k /\ tile' = tile /\ pc' = pc
  BY DEF IInv, Types, EndBlock
<1>2. Threads = ThreadsOf(l) /\ tiled' = tiled /\ Grid' = Grid
  BY <1>1, OfLaunch DEF tiled, tile_size, Grid, grid_dim, blockDim, width, height
<1>3. \A t \in ThreadsOf(l) : pc[t] = "done"
  BY <1>2 DEF EndBlock
<1>4. Types'
  BY <1>1, <1>2 DEF IInv, Types
<1>5. ASSUME NEW x \in 0 .. l.width - 1, NEW y \in 0 .. l.height - 1, Finished(l, todo', block', pc', x, y)
      PROVE  Painted(l, dst, x, y)
  <2>1. ThreadOf(l, x, y) \in ThreadsOf(l)
    <3>1. x \in Nat /\ y \in Nat
      BY <1>1, LaunchFacts
    <3> QED
      BY <1>1, <3>1, PixelThread
  <2>2. Finished(l, todo, block, pc, x, y)
    BY <2>1, <1>1, <1>3, <1>5 DEF Finished
  <2> QED
    BY <2>2 DEF IInv
<1> QED
  BY <1>1, <1>2, <1>4, <1>5 DEF IInv

(* Past the barrier every cell is loaded: some thread has its lane. *)
LEMMA AllLoaded ==
    ASSUME IInv, tiled, block # None, NEW t \in ThreadsOf(launch), pc[t] = "body"
    PROVE  \A cell \in 0 .. CellsOf(launch) - 1 : tile[cell] = Home(launch, block, cell)
<1> DEFINE l == launch
<1>1. l \in Launches /\ k \in [ThreadsOf(l) -> Nat] /\ l.has_stencil /\ l.tile_size > 0 /\ Loading(l, block, pc, k, tile)
  BY OfLaunch DEF IInv, Types
<1>2. Lanes(l) \in Nat \ {0} /\ CellsOf(l) \in Nat
  BY <1>1, LaneOfThread, CellFacts
<1> SUFFICES ASSUME NEW cell \in 0 .. CellsOf(l) - 1 PROVE tile[cell] = Home(l, block, cell)
  OBVIOUS
<1>3. cell \in Nat /\ cell < CellsOf(l)
  BY <1>2
<1>4. cell % Lanes(l) \in 0 .. Lanes(l) - 1
  BY <1>2, <1>3, Division
<1>5. PICK u \in ThreadsOf(l) : Lane(l, u) = cell % Lanes(l)
  BY <1>1, <1>4, LaneOfThread
<1>6. pc[u] # "load"
  BY <1>1 DEF Loading
<1>7. ~(k[u] < CellsOf(l)) /\ k[u] \in Nat
  BY <1>1, <1>6 DEF Loading
<1>8. cell < k[u]
  BY <1>2, <1>3, <1>7
<1> QED
  BY <1>1, <1>5, <1>8 DEF Loading

(* A tap of a thread in its body reads the neighbour it names, from the    *)
(* tile or from the image.                                                 *)
LEMMA FetchIs ==
    ASSUME IInv, block # None, NEW t \in ThreadsOf(launch), pc[t] = "body",
           NEW dx \in -launch.radius .. launch.radius, NEW dy \in -launch.radius .. launch.radius, NEW c \in Nat
    PROVE  Sample(fetch(t, dx, dy), c) =
              Neighbour(launch, Place(launch, block, t, 1) + dx, Place(launch, block, t, 2) + dy, c)
<1> DEFINE l == launch
           x == Place(l, block, t, 1)
           y == Place(l, block, t, 2)
<1>1. l \in Launches /\ block \in Nat \X Nat
  BY GridFacts DEF IInv, Types
<1>2. x \in Nat /\ y \in Nat
  BY <1>1, ThreadPixel
<1>3. X(t) = x /\ Y(t) = y
  BY <1>1, OfLaunch DEF X, Y, Place
<1>4. l.radius \in Nat
  BY <1>1, LaunchFacts
<1> HIDE DEF x, y
<1>5. x + dx \in Int /\ y + dy \in Int
  BY <1>2, <1>4
<1>6. /\ tap(x + dx, y + dy) \in Nat
      /\ tap(x + dx, y + dy) + c = Neighbour(l, x + dx, y + dy, c)
      /\ tap(x + dx, y + dy) = Neighbour(l, x + dx, y + dy, 0)
  BY <1>1, <1>5, TapIs
<1>7. fetch(t, dx, dy) = tap(x + dx, y + dy)
  <2>1. CASE ~tiled
    BY <2>1, <1>3 DEF fetch
  <2>2. CASE tiled
    <3> DEFINE ty == t[2] + l.radius + dy
               tx == t[1] + l.radius + dx
               cell == ty * EdgeOf(l) + tx
    <3>1. l.has_stencil /\ l.tile_size > 0 /\ edge = EdgeOf(l) /\ radius = l.radius
      BY <2>2, <1>1, OfLaunch
    <3>2. /\ ty \in 0 .. EdgeOf(l) - 1 /\ tx \in 0 .. EdgeOf(l) - 1
          /\ cell \in 0 .. EdgeOf(l) * EdgeOf(l) - 1
          /\ Home(l, block, cell) = Neighbour(l, x + dx, y + dy, 0)
      BY <1>1, <3>1, HomeOfTap DEF x, y
    <3>3. fetch(t, dx, dy) = Cell(ty, tx)
      BY <2>2, <3>1 DEF fetch
    <3> HIDE DEF ty, tx
    <3>4. Cell(ty, tx) = tile[cell]
      BY <3>1, <3>2 DEF Cell
    <3> HIDE DEF cell
    <3>5. tile[cell] = Home(l, block, cell)
      BY <2>2, <3>2, AllLoaded DEF CellsOf
    <3> QED
      BY <3>2, <3>3, <3>4, <3>5, <1>6
  <2> QED
    BY <2>1, <2>2
<1>8. fetch(t, dx, dy) # Junk
  BY <1>6, <1>7, LaunchAssumption
<1> QED
  BY <1>6, <1>7, <1>8 DEF Sample, x, y

(* What the body of a thread computes is what the CPU computes. *)
LEMMA BodyValue ==
    ASSUME IInv, block # None, NEW t \in ThreadsOf(launch), pc[t] = "body", NEW c \in Nat,
           c < color_channels(launch.channels)
    PROVE  Value(t, c) = Samples(launch, Place(launch, block, t, 1), Place(launch, block, t, 2), c)
<1> DEFINE l == launch
           x == Place(l, block, t, 1)
           y == Place(l, block, t, 2)
           b == 2 * l.radius + 1
           r == l.radius
<1>1. l \in Launches /\ block \in Nat \X Nat
  BY GridFacts DEF IInv, Types
<1>2. x \in Nat /\ y \in Nat
  BY <1>1, ThreadPixel
<1>3. X(t) = x /\ Y(t) = y
  BY <1>1, OfLaunch DEF X, Y, Place
<1>4. /\ l.width \in Nat /\ l.channels \in Nat /\ r \in Nat /\ l.has_stencil \in BOOLEAN
      /\ color_channels(l.channels) \in Nat
  BY <1>1, LaunchFacts DEF color_channels
<1>5. ~(c >= color_channels(l.channels))
  BY <1>4
<1>6. CASE ~l.has_stencil
  <2>1. Value(t, c) = <<(y * l.width + x) * l.channels + c>>
    BY <1>3, <1>6 DEF Value, width, channels
  <2>2. (y * l.width + x) * l.channels = y * (l.width * l.channels) + x * l.channels
    BY <1>2, <1>4, Distribute
  <2>3. Samples(l, x, y, c) = <<Address(l, x, y, c)>>
    BY <1>6 DEF Samples
  <2> HIDE DEF x, y
  <2>4. Value(t, c) = <<Address(l, x, y, c)>>
    BY <2>1, <2>2 DEF Address
  <2> QED
    BY <2>3, <2>4 DEF x, y
<1>7. CASE l.has_stencil
  <2>1. Value(t, c) = [n \in 1 .. b * b |-> Sample(fetch(t, ((n - 1) % b) - r, ((n - 1) \div b) - r), c)]
    BY <1>7 DEF Value, Span, radius
  <2>2. Samples(l, x, y, c) = [n \in 1 .. b * b |-> Neighbour(l, x + ((n - 1) % b) - r, y + ((n - 1) \div b) - r, c)]
    BY <1>5, <1>7 DEF Samples
  <2>3. b \in Nat \ {0} /\ b = 2 * r + 1
    BY <1>4
  <2>4. b * b \in Nat
    BY <2>3, Product
  <2> HIDE DEF b, r, x, y
  <2>5. ASSUME NEW n \in 1 .. b * b
        PROVE  Sample(fetch(t, ((n - 1) % b) - r, ((n - 1) \div b) - r), c) =
                  Neighbour(l, x + ((n - 1) % b) - r, y + ((n - 1) \div b) - r, c)
    <3> DEFINE i == n - 1
               p == i \div b
               q == i % b
    <3>1. i \in 0 .. b * b - 1
      <4> DEFINE bb == b * b
      <4> HIDE DEF bb
      <4>1. i \in 0 .. bb - 1
        BY <2>4 DEF bb
      <4> QED
        BY <4>1 DEF bb
    <3>2. p \in 0 .. b - 1 /\ q \in 0 .. b - 1
      BY <2>3, <3>1, RowOf
    <3> HIDE DEF p, q
    <3> DEFINE dx == q - r
               dy == p - r
    <3>3. dx \in -r .. r /\ dy \in -r .. r /\ x + dx = x + q - r /\ y + dy = y + p - r
      BY <3>2, <2>3, <1>2, <1>4
    <3> HIDE DEF dx, dy
    <3>4. Sample(fetch(t, dx, dy), c) = Neighbour(l, x + dx, y + dy, c)
      BY <3>3, FetchIs DEF r, x, y
    <3>5. Sample(fetch(t, q - r, p - r), c) = Neighbour(l, x + q - r, y + p - r, c)
      BY <3>3, <3>4 DEF dx, dy
    <3> QED
      BY <3>5 DEF p, q
  <2> QED
    BY <2>1, <2>2, <2>5 DEF x, y
<1> QED
  BY <1>4, <1>6, <1>7

(* What one thread's body does to the buffer: it paints its own pixel, if  *)
(* that lies in the image, and touches no other.                           *)
LEMMA BodyPaints ==
    ASSUME IInv, NEW t \in ThreadsOf(launch), RunBody(t),
           NEW x \in 0 .. launch.width - 1, NEW y \in 0 .. launch.height - 1
    PROVE  IF x = Place(launch, block, t, 1) /\ y = Place(launch, block, t, 2)
           THEN Painted(launch, dst', x, y)
           ELSE \A c \in 0 .. launch.channels - 1 : dst'[Address(launch, x, y, c)] = dst[Address(launch, x, y, c)]
<1> DEFINE l == launch
           u == Place(l, block, t, 1)
           v == Place(l, block, t, 2)
           i == (v * l.width + u) * l.channels
           cc == color_channels(l.channels)
<1>1. l \in Launches /\ block \in Nat \X Nat /\ block # None /\ pc[t] = "body"
  BY GridFacts DEF IInv, Types, RunBody
<1>2. u \in Nat /\ v \in Nat
  BY <1>1, ThreadPixel
<1>3. X(t) = u /\ Y(t) = v /\ width = l.width /\ height = l.height /\ channels = l.channels /\ colors = cc
  BY <1>1, OfLaunch DEF X, Y, Place, colors
<1>4. /\ l.width \in Nat \ {0} /\ l.height \in Nat \ {0} /\ l.channels \in {1, 3, 4}
      /\ l.channels = 4 => cc = 3
      /\ l.channels # 4 => cc = l.channels
      /\ x \in Nat /\ y \in Nat
  BY <1>1, LaunchFacts DEF color_channels
<1>5. DOMAIN dst = 0 .. l.width * l.height * l.channels - 1
  BY DEF IInv, Types
<1>6. \A c \in 0 .. l.channels - 1 : Address(l, x, y, c) \in DOMAIN dst
  BY <1>1, <1>5, AddressInside
<1> HIDE DEF u, v, i, cc
<1>7. CASE u >= l.width \/ v >= l.height
  <2>1. dst' = dst
    BY <1>3, <1>7 DEF RunBody, Outside
  <2>2. ~(x = u /\ y = v)
    BY <1>2, <1>4, <1>7
  <2> QED
    BY <2>1, <2>2 DEF u, v
<1>8. CASE ~(u >= l.width \/ v >= l.height)
  <2>0. u \in 0 .. l.width - 1
    BY <1>2, <1>4, <1>8
  <2>1. dst' = [j \in DOMAIN dst |-> IF j \in i .. i + cc - 1 THEN Value(t, j - i)
                                     ELSE IF l.channels = 4 /\ j = i + 3 THEN <<j>>
                                     ELSE dst[j]]
    BY <1>3, <1>8 DEF RunBody, Outside, i
  <2>2. i \in Nat /\ \A c \in Nat : Address(l, u, v, c) = i + c
    <3>1. i = v * (l.width * l.channels) + u * l.channels /\ i \in Nat
      BY <1>2, <1>4, Distribute DEF i
    <3> QED
      BY <3>1 DEF Address
  <2>3. CASE x = u /\ y = v
    <3> SUFFICES ASSUME NEW c \in 0 .. l.channels - 1 PROVE dst'[Address(l, u, v, c)] = Samples(l, u, v, c)
      BY <2>3 DEF Painted, u, v
    <3> DEFINE j == i + c
    <3>0. c \in Nat
      BY <1>4
    <3>1. Address(l, u, v, c) = j /\ j \in DOMAIN dst /\ j - i = c /\ j \in Nat
      BY <2>2, <2>3, <1>6, <3>0
    <3>2. CASE c < cc
      <4>1. j \in i .. i + cc - 1
        BY <3>0, <3>2, <2>2, <1>4
      <4>2. dst'[j] = Value(t, c)
        BY <2>1, <3>1, <4>1
      <4>3. Value(t, c) = Samples(l, u, v, c)
        BY <1>1, <3>0, <3>2, BodyValue DEF cc, u, v
      <4> QED
        BY <3>1, <4>2, <4>3
    <3>3. CASE ~(c < cc)
      <4>1. l.channels = 4 /\ c = 3 /\ cc = 3
        BY <3>0, <3>3, <1>4
      <4>2. ~(j \in i .. i + cc - 1) /\ j = i + 3
        BY <4>1, <2>2
      <4>3. dst'[j] = <<j>>
        BY <2>1, <3>1, <4>1, <4>2
      <4>4. c >= color_channels(l.channels)
        BY <4>1 DEF cc
      <4>5. Samples(l, u, v, c) = <<Address(l, u, v, c)>>
        BY <4>4 DEF Samples
      <4> QED
        BY <3>1, <4>3, <4>5
    <3> QED
      BY <3>2, <3>3
  <2>4. CASE ~(x = u /\ y = v)
    <3> SUFFICES ASSUME NEW c \in 0 .. l.channels - 1 PROVE dst'[Address(l, x, y, c)] = dst[Address(l, x, y, c)]
      BY <2>4 DEF u, v
    <3> DEFINE j == Address(l, x, y, c)
    <3>1. j \in DOMAIN dst /\ j \in Nat
      <4>1. c \in Nat
        BY <1>4
      <4> QED
        BY <1>6, <1>1, <1>4, <4>1, AddressType
    <3>2. ASSUME NEW d \in 0 .. l.channels - 1 PROVE j # i + d
      <4>1. d \in Nat
        BY <1>4
      <4>2. Address(l, u, v, d) = i + d
        BY <2>2, <4>1
      <4> HIDE DEF j
      <4>3. j = Address(l, u, v, d) => x = u /\ y = v
        BY <1>1, <1>2, <1>4, <2>0, AddressUnique DEF j
      <4> QED
        BY <2>4, <4>2, <4>3
    <3> HIDE DEF j
    <3>3. ~(j \in i .. i + cc - 1)
      <4> SUFFICES ASSUME j \in i .. i + cc - 1 PROVE FALSE
        OBVIOUS
      <4>1. j - i \in 0 .. l.channels - 1 /\ j = i + (j - i)
        BY <2>2, <3>1, <1>4
      <4> QED
        BY <3>2, <4>1
    <3>4. ~(l.channels = 4 /\ j = i + 3)
      <4> SUFFICES ASSUME l.channels = 4, j = i + 3 PROVE FALSE
        OBVIOUS
      <4>1. 3 \in 0 .. l.channels - 1
        OBVIOUS
      <4> QED
        BY <3>2, <4>1
    <3>5. dst'[j] = dst[j]
      BY <2>1, <3>1, <3>3, <3>4
    <3> QED
      BY <3>5 DEF j
  <2> QED
    BY <2>3, <2>4
<1> QED
  BY <1>7, <1>8

(* The body of a thread *)
LEMMA InvBody == ASSUME IInv, NEW t \in ThreadsOf(launch), RunBody(t) PROVE IInv'
<1> DEFINE l == launch
<1>1. /\ l \in Launches /\ launch' = launch /\ todo' = todo /\ block' = block /\ block # None /\ block \in todo
      /\ k' = k /\ tile' = tile /\ pc[t] = "body" /\ pc' = [pc EXCEPT ![t] = "done"]
      /\ pc \in [ThreadsOf(l) -> {"load", "barrier", "body", "done"}]
  BY DEF IInv, Types, RunBody
<1>2. tiled' = tiled /\ Grid' = Grid
  BY <1>1 DEF tiled, tile_size, Grid, grid_dim, blockDim, width, height
<1>3. /\ pc'[t] = "done" /\ \A s \in ThreadsOf(l) : s # t => pc'[s] = pc[s]
      /\ pc' \in [ThreadsOf(l) -> {"load", "barrier", "body", "done"}]
  BY <1>1
<1>4. DOMAIN dst' = DOMAIN dst
  BY DEF RunBody
<1>5. Types'
  BY <1>1, <1>2, <1>3, <1>4 DEF IInv, Types
<1>6. \A s \in ThreadsOf(l) : /\ pc'[s] = "load" <=> pc[s] = "load"
                              /\ pc'[s] \in {"body", "done"} => pc[s] \in {"body", "done"}
  <2> SUFFICES ASSUME NEW s \in ThreadsOf(l)
               PROVE  /\ pc'[s] = "load" <=> pc[s] = "load"
                      /\ pc'[s] \in {"body", "done"} => pc[s] \in {"body", "done"}
    OBVIOUS
  <2>1. CASE s = t
    BY <2>1, <1>1, <1>3
  <2>2. CASE s # t
    BY <2>2, <1>3
  <2> QED
    BY <2>1, <2>2
<1>7. tiled => Loading(l, block, pc', k', tile')
  BY <1>1, <1>6 DEF IInv, Loading
<1>8. ~tiled => \A s \in ThreadsOf(l) : pc'[s] \in {"body", "done"}
  <2> SUFFICES ASSUME ~tiled, NEW s \in ThreadsOf(l) PROVE pc'[s] \in {"body", "done"}
    OBVIOUS
  <2>1. CASE s = t
    BY <2>1, <1>3
  <2>2. CASE s # t
    BY <2>2, <1>3 DEF IInv
  <2> QED
    BY <2>1, <2>2
<1>9. ASSUME NEW x \in 0 .. l.width - 1, NEW y \in 0 .. l.height - 1, Finished(l, todo, block, pc', x, y)
      PROVE  Painted(l, dst', x, y)
  <2> DEFINE u == Place(l, block, t, 1)
             v == Place(l, block, t, 2)
  <2>1. x \in Nat /\ y \in Nat /\ block \in Nat \X Nat
    BY <1>1, LaunchFacts, GridFacts DEF IInv, Types
  <2>2. CASE x = u /\ y = v
    BY <2>2, BodyPaints
  <2>3. CASE ~(x = u /\ y = v)
    <3>1. ThreadOf(l, x, y) \in ThreadsOf(l)
      BY <1>1, <2>1, PixelThread
    <3>2. ~(block = BlockOf(l, x, y) /\ t = ThreadOf(l, x, y))
      BY <2>3, <1>1, <2>1, PixelThread
    <3>3. Finished(l, todo, block, pc, x, y)
      BY <3>1, <3>2, <1>3, <1>9 DEF Finished
    <3>4. Painted(l, dst, x, y)
      BY <3>3 DEF IInv
    <3>5. \A c \in 0 .. l.channels - 1 : dst'[Address(l, x, y, c)] = dst[Address(l, x, y, c)]
      BY <2>3, BodyPaints
    <3> QED
      BY <3>4, <3>5 DEF Painted
  <2> QED
    BY <2>2, <2>3
<1> QED
  BY <1>1, <1>2, <1>5, <1>7, <1>8, <1>9 DEF IInv

(* Every step keeps the invariant. *)
LEMMA InvNext == IInv /\ [Next]_vars => IInv'
<1> SUFFICES ASSUME IInv, [Next]_vars PROVE IInv'
  OBVIOUS
<1>1. Threads = ThreadsOf(launch)
  BY OfLaunch DEF IInv, Types
<1>2. ASSUME NEW b \in todo, StartBlock(b) PROVE IInv'
  BY <1>2, InvStart
<1>3. ASSUME NEW t \in Threads, Load(t) PROVE IInv'
  BY <1>1, <1>3, InvLoad
<1>4. ASSUME NEW t \in Threads, RunBody(t) PROVE IInv'
  BY <1>1, <1>4, InvBody
<1>5. CASE SyncThreads
  BY <1>5, InvSync
<1>6. CASE EndBlock
  BY <1>6, InvEnd
<1>7. CASE UNCHANGED vars
  <2>1. /\ launch' = launch /\ todo' = todo /\ block' = block /\ pc' = pc /\ k' = k /\ tile' = tile /\ dst' = dst
    BY <1>7 DEF vars
  <2>2. tiled' = tiled /\ Grid' = Grid
    BY <2>1 DEF tiled, tile_size, Grid, grid_dim, blockDim, width, height
  <2> QED
    BY <2>1, <2>2 DEF IInv, Types
<1> QED
  BY <1>2, <1>3, <1>4, <1>5, <1>6, <1>7 DEF Next

(* When the grid is done, every byte of the destination is what the CPU    *)
(* backend computes for it: for every image, radius, tile and block size,  *)
(* tiled or not, whatever the order of the blocks and the interleaving of  *)
(* their threads.                                                          *)
THEOREM KernelMatchesCpu == Spec => []ImageMatchesOracle
<1>1. IInv => ImageMatchesOracle
  <2> SUFFICES ASSUME IInv, todo = {},
                      NEW x \in 0 .. width - 1, NEW y \in 0 .. height - 1, NEW c \in 0 .. channels - 1
               PROVE  dst[at(x, y, c)] = Oracle(x, y, c)
    BY DEF ImageMatchesOracle
  <2>1. launch \in Launches
    BY DEF IInv, Types
  <2>2. x \in 0 .. launch.width - 1 /\ y \in 0 .. launch.height - 1 /\ c \in 0 .. launch.channels - 1
    BY DEF width, height, channels
  <2>3. Finished(launch, todo, block, pc, x, y)
    BY DEF Finished
  <2>4. Painted(launch, dst, x, y)
    BY <2>2, <2>3 DEF IInv
  <2> QED
    BY <2>1, <2>2, <2>4, OracleIs DEF Painted
<1> QED
  BY <1>1, InvInit, InvNext, PTL DEF Spec
=============================================================================
