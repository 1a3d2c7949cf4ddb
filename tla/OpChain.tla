------------------------------- MODULE OpChain -------------------------------
(***************************************************************************)
(* The op chain as text and as data (src/core/op_chain.cpp): the table of  *)
(* ops, the parser, the canonical text.  Pure operators.                   *)
(*                                                                         *)
(* A text is a sequence of lexemes.  Parameters are counted in hundredths, *)
(* as the parser quantizes them; a number in a text is counted in          *)
(* thousandths, so that there is something to round away.                  *)
(***************************************************************************)
EXTENDS Integers, Sequences, FiniteSets

(* kOpSpecs.  default, min and max are hundredths. *)
kOpSpecs ==
    [grayscale |-> [takes_param |-> FALSE, is_stencil |-> FALSE, default |-> 0, min |-> 0, max |-> 0],
     invert |-> [takes_param |-> FALSE, is_stencil |-> FALSE, default |-> 0, min |-> 0, max |-> 0],
     brightness |-> [takes_param |-> TRUE, is_stencil |-> FALSE, default |-> 0, min |-> -100, max |-> 100],
     threshold |-> [takes_param |-> TRUE, is_stencil |-> FALSE, default |-> 50, min |-> 0, max |-> 100],
     gaussian |-> [takes_param |-> TRUE, is_stencil |-> TRUE, default |-> 100, min |-> 10, max |-> 400],
     sobel |-> [takes_param |-> FALSE, is_stencil |-> TRUE, default |-> 0, min |-> 0, max |-> 0]]

takes_param(kind) == kOpSpecs[kind].takes_param
is_stencil(kind) == kOpSpecs[kind].is_stencil

(* std::optional<OpChain> *)
nullopt == [ok |-> FALSE, ops |-> <<>>]
Parsed(ops) == [ok |-> TRUE, ops |-> ops]

----------------------------------------------------------------------------
(* Lexemes.  A word is any run of other characters that strtof does not    *)
(* consume whole as a finite number; two words or numbers never touch, for *)
(* they would be one.                                                      *)

Mark(class) == [class |-> class, word |-> "", value |-> 0]
Space == Mark("space")
Comma == Mark("comma")
Colon == Mark("colon")
Word(word) == [class |-> "word", word |-> word, value |-> 0]
Number(value) == [class |-> "number", word |-> "", value |-> value]

Lexeme == [class : {"space", "comma", "colon", "word", "number"}, word : STRING, value : Int]

Lexed(text) ==
    /\ text \in Seq(Lexeme)
    /\ \A i \in 1 .. Len(text) - 1 : {text[i].class, text[i + 1].class} \cap {"space", "comma", "colon"} # {}

----------------------------------------------------------------------------
(* parse_op_chain, with string_view's trim, find and substr                *)

First(positions) == CHOOSE i \in positions : \A j \in positions : i <= j
Final(positions) == CHOOSE i \in positions : \A j \in positions : i >= j

trim(text) ==
    LET kept == {i \in 1 .. Len(text) : text[i] # Space}
    IN  IF kept = {} THEN <<>> ELSE SubSeq(text, First(kept), Final(kept))

npos == 0

find(text, mark, position) ==
    LET at == {i \in position .. Len(text) : text[i] = mark}
    IN  IF at = {} THEN npos ELSE First(at)

(* find_spec and parse_float see a whole trimmed field. *)
find_spec(name) == Len(name) = 1 /\ name[1].class = "word" /\ name[1].word \in DOMAIN kOpSpecs
parse_float(field) == Len(field) = 1 /\ field[1].class = "number"

(* strtof gives the nearest float, and of a number halfway between two     *)
(* hundredths that float may lie below.  n / 5 two-hundredths are scaled   *)
(* by 2^q into [800, 1600), where 24 bits leave (19 * scaled) % 25 of 25   *)
(* parts to round away.  (Beyond 8.0 no parameter is in range anyway.)     *)
float_is_below(n) ==
    \E q \in 0 .. 10 : LET scaled == (n \div 5) * 2^q
                       IN  scaled \in 800 .. 1599 /\ (19 * scaled) % 25 \in 1 .. 12

(* lround rounds half away from zero, if it is a half that it is given. *)
quantize_param(thousandths) ==
    LET n == IF thousandths < 0 THEN -thousandths ELSE thousandths
        hundredths == (n + (IF n % 10 = 5 /\ float_is_below(n) THEN 4 ELSE 5)) \div 10
    IN  IF thousandths < 0 THEN -hundredths ELSE hundredths

(* The check comes after the rounding. *)
in_range(kind, param) == kOpSpecs[kind].min <= param /\ param <= kOpSpecs[kind].max

(* What the token between two commas spells *)
parse_op(token) ==
    LET colon == find(token, Colon, 1)
        name == trim(SubSeq(token, 1, IF colon = npos THEN Len(token) ELSE colon - 1))
        kind == name[1].word
        parameter == trim(SubSeq(token, colon + 1, Len(token)))
        value == quantize_param(parameter[1].value)
    IN  IF ~find_spec(name) THEN nullopt
        ELSE IF colon = npos THEN Parsed(<<[kind |-> kind, param |-> kOpSpecs[kind].default]>>)
        ELSE IF takes_param(kind) /\ parse_float(parameter) /\ in_range(kind, value)
        THEN Parsed(<<[kind |-> kind, param |-> value]>>)
        ELSE nullopt

(* while (position <= body.size()): the end itself is a token, an empty one *)
more_tokens_strict(body, position) == position <= Len(body)

more_tokens(body, position) == position <= Len(body) + 1

(* One turn of the loop; rest[p] is what the turns from position p on make *)
(* of the body.                                                            *)
parse_token(body, position, rest) ==
    LET comma == find(body, Comma, position)
        token == trim(SubSeq(body, position, IF comma = npos THEN Len(body) ELSE comma - 1))
        op == parse_op(token)
    IN  IF ~more_tokens(body, position) THEN Parsed(<<>>)
        ELSE IF token = <<>> \/ ~op.ok THEN nullopt
        ELSE IF comma = npos THEN op
        ELSE IF rest[comma + 1].ok THEN Parsed(op.ops \o rest[comma + 1].ops)
        ELSE nullopt

parse_body(body) ==
    LET Loop[position \in 1 .. Len(body) + 1] == parse_token(body, position, Loop)
    IN  Loop[1]

parse_op_chain(text) ==
    LET body == trim(text)
    IN  IF body = <<>> THEN Parsed(<<>>) ELSE parse_body(body)

----------------------------------------------------------------------------
(* canonical_string                                                        *)

Magnitude(param) == IF param < 0 THEN -param ELSE param

(* The digits that are printed; a hundredths digit of 0 is left out. *)
format_param_one_decimal(param) ==
    [negative |-> param < 0,
     whole |-> Magnitude(param) \div 100,
     tenths |-> (Magnitude(param) \div 10) % 10,
     hundredths |-> 0]

format_param(param) ==
    [negative |-> param < 0,
     whole |-> Magnitude(param) \div 100,
     tenths |-> (Magnitude(param) \div 10) % 10,
     hundredths |-> Magnitude(param) % 10]

(* The number that strtof makes of these digits again *)
Printed(digits) ==
    LET value == digits.whole * 1000 + digits.tenths * 100 + digits.hundredths * 10
    IN  Number(IF digits.negative THEN -value ELSE value)

OpText(op) ==
    <<Word(op.kind)>> \o (IF takes_param(op.kind) THEN <<Colon, Printed(format_param(op.param))>> ELSE <<>>)

canonical_string(ops) ==
    LET Text[n \in 0 .. Len(ops)] ==
            IF n = 0 THEN <<>>
            ELSE Text[n - 1] \o (IF n = 1 THEN <<>> ELSE <<Comma>>) \o OpText(ops[n])
    IN  Text[Len(ops)]

----------------------------------------------------------------------------
(* The grammar that op_chain.h describes, stated without a parser: blanks  *)
(* do not count, commas separate ops, an op is a known name, or the name   *)
(* of an op with a parameter, a colon and a number in its range.           *)

Significant(text) == {i \in 1 .. Len(text) : text[i] # Space}

IsPlainOp(segment) == \E i \in Significant(segment) : Significant(segment) = {i} /\ find_spec(<<segment[i]>>)

IsOpWithParam(segment) ==
    \E i, j, k \in Significant(segment) :
        /\ i < j /\ j < k /\ Significant(segment) = {i, j, k}
        /\ find_spec(<<segment[i]>>) /\ segment[j] = Colon /\ parse_float(<<segment[k]>>)
        /\ takes_param(segment[i].word)
        /\ LET spec == kOpSpecs[segment[i].word]
           IN  quantize_param(segment[k].value) \in spec.min .. spec.max

IsOp(segment) == IsPlainOp(segment) \/ IsOpWithParam(segment)

OpOf(segment) ==
    LET kind == segment[First(Significant(segment))].word
        number == segment[Final(Significant(segment))].value
    IN  [kind |-> kind, param |-> IF IsPlainOp(segment) THEN kOpSpecs[kind].default ELSE quantize_param(number)]

(* A text is cut at its commas; a segment is named by the position after   *)
(* its last lexeme.                                                        *)
Ends(text) == {i \in 1 .. Len(text) : text[i] = Comma} \cup {Len(text) + 1}
Before(text, end) == Final({0} \cup {e \in Ends(text) : e < end})
Segment(text, end) == SubSeq(text, Before(text, end) + 1, end - 1)
Between(text, from, to) == {e \in Ends(text) : from <= e /\ e <= to}

IsOpChain(text) == Significant(text) = {} \/ \A end \in Ends(text) : IsOp(Segment(text, end))

(* The ops that such a text spells, in order *)
Spells(text, ops) ==
    IF Significant(text) = {} THEN ops = <<>>
    ELSE /\ Len(ops) = Cardinality(Ends(text))
         /\ \A end \in Ends(text) : ops[Cardinality(Between(text, 1, end))] = OpOf(Segment(text, end))
=============================================================================
