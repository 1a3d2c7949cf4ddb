---------------------------- MODULE MCFusionPlan ----------------------------
(* Chains over one op of each shape (pointwise and stencil, with and       *)
(* without a parameter), two frames of each; and texts, most of them       *)
(* malformed: every short one, and every text one edit away from a long    *)
(* one.  The numbers straddle the bounds of gaussian on both sides of the  *)
(* rounding: 95 is a half whose float is below it, so that it rounds down, *)
(* 4005 one whose float is above it, -125 one that is a float and rounds   *)
(* away from zero.                                                         *)
EXTENDS FusionPlan

CONSTANTS
    MaxLexemes,     \* bound: lexemes of the texts that are enumerated
    MaxLength,      \* bound: ops of the chains that are sent in canonical form
    Kinds           \* the kinds of those ops

MCAlphabet ==
    {Space, Comma, Colon, Word("sobel"), Word("gaussian"), Word("blur"), Number(95), Number(4004), Number(4005)}

MCLongText ==
    <<Space, Word("gaussian"), Space, Colon, Space, Number(96), Comma, Space,
      Word("brightness"), Colon, Number(-125), Space>>

(* A prologue and two stencils with an epilogue each *)
MCLongChain ==
    canonical_string(<<[kind |-> "threshold", param |-> 37], [kind |-> "gaussian", param |-> 140],
                       [kind |-> "brightness", param |-> 25], [kind |-> "gaussian", param |-> 400],
                       [kind |-> "threshold", param |-> 100]>>)

Cut(seq, i) == SubSeq(seq, 1, i - 1) \o SubSeq(seq, i + 1, Len(seq))
Insert(seq, i, lexeme) == SubSeq(seq, 1, i - 1) \o <<lexeme>> \o SubSeq(seq, i, Len(seq))

(* Chains in canonical form *)
MCOps == UNION {[kind : {kind}, param : ParamsOf(kind)] : kind \in Kinds}
MCCanonical == {canonical_string(c) : c \in UNION {[1 .. n -> MCOps] : n \in 1 .. MaxLength}}

MCTexts ==
    LET n == Len(MCLongText)
    IN  MCCanonical \cup
        {t \in UNION {[1 .. k -> MCAlphabet] : k \in 0 .. MaxLexemes}
                  \cup {MCLongText, MCLongChain}
                  \cup {Cut(MCLongText, i) : i \in 1 .. n}
                  \cup {Insert(MCLongText, i, lexeme) : i \in 1 .. n + 1, lexeme \in MCAlphabet}
                  \cup {[MCLongText EXCEPT ![i] = lexeme] : i \in 1 .. n, lexeme \in MCAlphabet} : Lexed(t)}

(* --tile and --constants: three combinations that start, two that do not *)
MCOptions ==
    {[tile |-> "naive", tile_size |-> 0, constants |-> "baked"],
     [tile |-> "naive", tile_size |-> 0, constants |-> "parameterized"],
     [tile |-> "tiled", tile_size |-> 32, constants |-> "baked"],
     [tile |-> "tiled", tile_size |-> 33, constants |-> "baked"],
     [tile |-> "tiled", tile_size |-> 32, constants |-> "parameterized"]}
=============================================================================
