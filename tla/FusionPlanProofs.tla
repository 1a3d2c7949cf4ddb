-------------------------- MODULE FusionPlanProofs --------------------------
(***************************************************************************)
(* Proofs about FusionPlan, for texts and chains of every length, every    *)
(* set of parameters and options, and any number of frames.                *)
(*                                                                         *)
(* The argument follows a chain through the code. A turn of the parser's   *)
(* loop takes one segment of the text, whatever the blanks around it, and  *)
(* makes of it what the grammar says; the ops it lets through have their   *)
(* parameters in range, and are those of its canonical text. The plan of   *)
(* the ops so far is a partition of them into ascending runs of positions, *)
(* one run per stage, each stage but the first opening with its stencil. A *)
(* kernel's body is the run of its stage, and an op's parameter is listed  *)
(* in the kernel's signature exactly if it is neither baked into the key   *)
(* nor absent. Hence the kernels of a cache entry, one after the other,    *)
(* run the chain of every key that is equal to the entry's, and the buffer *)
(* that a launch reads from holds the ops that the stages before it ran.   *)
(***************************************************************************)
EXTENDS FusionPlan, FiniteSetTheorems, SequenceTheorems, WellFoundedInduction, TLAPS

(* The kinds of the op table *)
OpKinds == {"grayscale", "invert", "brightness", "threshold", "gaussian", "sobel"}

(* What parse_op_chain may produce: a known kind, its parameter in range *)
Op == {op \in [kind : OpKinds, param : Int] : in_range(op.kind, op.param)}

----------------------------------------------------------------------------
(* The inductive invariant                                                 *)

(* An ascending run of chain positions *)
Run(lo, hi) == [j \in 1 .. hi - lo + 1 |-> lo + j - 1]

(* What a plan may hold: positions of the chain *)
Stage == [prologue : Seq(Nat), stencil : Nat, epilogue : Seq(Nat)]

(* The chain positions that stage k of a plan covers, when the ops before  *)
(* position n are planned: every stage but the first starts at its stencil. *)
Starts(plan, k) == IF k = 1 THEN 1 ELSE plan[k].stencil
Stops(plan, k, n) == IF k = Len(plan) THEN n - 1 ELSE plan[k + 1].stencil - 1

(* A stage runs the ops at lo .. hi in order, its stencil the only one. *)
Covers(c, st, lo, hi) ==
    /\ st \in Stage
    /\ lo \in 1 .. Len(c) /\ hi \in lo .. Len(c)
    /\ \/ /\ st.stencil = 0
          /\ st.prologue = Run(lo, hi) /\ st.epilogue = <<>>
          /\ \A i \in lo .. hi : ~is_stencil(c[i].kind)
       \/ /\ st.stencil \in lo .. hi
          /\ st.prologue = Run(lo, st.stencil - 1) /\ st.epilogue = Run(st.stencil + 1, hi)
          /\ is_stencil(c[st.stencil].kind)
          /\ \A i \in lo .. hi : i # st.stencil => ~is_stencil(c[i].kind)

(* The stencils among the ops planned so far *)
StencilsBefore(c, n) == {i \in 1 .. n - 1 : is_stencil(c[i].kind)}

(* The stages planned for the ops before position n: one after the other   *)
(* they cover those ops, and there are as many as there are stencils, or   *)
(* one if there are none.                                                  *)
Shaped(c, n, plan) ==
    /\ n \in 1 .. Len(c) + 1
    /\ plan \in Seq(Stage)
    /\ plan = <<>> <=> n = 1
    /\ \A k \in 1 .. Len(plan) : Covers(c, plan[k], Starts(plan, k), Stops(plan, k, n))
    /\ \A k \in 1 .. Len(plan) : plan[k].stencil = 0 => Len(plan) = 1

(* One stage per stencil *)
Counted(c, n, plan) ==
    /\ (plan = <<>> \/ plan[1].stencil = 0) => StencilsBefore(c, n) = {}
    /\ (plan # <<>> /\ plan[1].stencil # 0) => Cardinality(StencilsBefore(c, n)) = Len(plan)

Planned(c, n, plan) == Shaped(c, n, plan) /\ Counted(c, n, plan)

(* What a kernel and a cache key are made of *)
Step == [at : Nat, kind : OpKinds, literal : Int]

Kernel == [body : Seq(Step), signature : Seq(Nat), param_ops : Seq(Nat), channels : {1, 3, 4}, block_dim : Nat]

Key == [chain : Seq(Op), channels : {1, 3, 4}, tile : {"naive", "tiled"}, tile_size : 0 .. kMaxTileSize,
        constants : {"baked", "parameterized"}]

(* An argument list names position i. *)
Lists(positions, i) == \E m \in 1 .. Len(positions) : positions[m] = i

(* The parameter that is baked into the source *)
Literal(k, i) == IF k.constants = "parameterized" THEN 0 ELSE k.chain[i].param

(* The ops at lo .. hi of a key's chain, compiled: those whose parameter   *)
(* is an argument are in the signature, and the executor passes the        *)
(* arguments in the order of the signature.                                *)
Compiled(kernel, k, lo, hi) ==
    /\ kernel \in Kernel
    /\ lo \in 1 .. Len(k.chain) /\ hi \in lo .. Len(k.chain)
    /\ kernel.body = [j \in 1 .. hi - lo + 1 |->
                         [at |-> lo + j - 1, kind |-> k.chain[lo + j - 1].kind, literal |-> Literal(k, lo + j - 1)]]
    /\ kernel.param_ops = kernel.signature
    /\ \A i \in lo .. hi :
          Lists(kernel.signature, i) <=> k.constants = "parameterized" /\ takes_param(k.chain[i].kind)
    /\ kernel.channels = k.channels
    /\ kernel.block_dim * kernel.block_dim <= kMaxBlockThreads

(* The last chain position that the first n kernels run *)
Reach(kernels, n) == IF n = 0 THEN 0 ELSE kernels[n].body[Len(kernels[n].body)].at

(* Kernels that run the whole chain of a key, in order *)
Runs(kernels, k) ==
    /\ kernels \in Seq(Kernel) /\ Len(kernels) > 0
    /\ \A n \in 1 .. Len(kernels) : Compiled(kernels[n], k, Reach(kernels, n - 1) + 1, Reach(kernels, n))
    /\ Reach(kernels, Len(kernels)) = Len(k.chain)

(* The kernels emitted so far for a complete plan *)
Emitted(kernels, k, plan) ==
    /\ kernels \in Seq(Kernel) /\ Len(kernels) < Len(plan)
    /\ \A n \in 1 .. Len(kernels) :
          Compiled(kernels[n], k, Starts(plan, n), Stops(plan, n, Len(k.chain) + 1))

(* Chains that differ in parameters only *)
SameKinds(c, d) == Len(c) = Len(d) /\ \A i \in 1 .. Len(c) : c[i].kind = d[i].kind

Frame == [ops : Seq(Op), channels : Channels]

(* A key the server may look up: its own options, ops of the text's kinds *)
Served(k) ==
    /\ k \in Key
    /\ k.tile = options.tile /\ k.tile_size = options.tile_size /\ k.constants = options.constants
    /\ k.chain = <<>> \/ SameKinds(k.chain, chain)

(* The text, the options and the frames *)
RequestOK ==
    /\ text \in Texts
    /\ chain \in Seq(Op)
    /\ main_accepts(options)
    /\ pc \in {"parse", "rejected", "idle", "plan", "launch"}
    /\ warming \in BOOLEAN
    /\ frames \in Nat
    /\ pc = "parse" => key.chain = <<>> /\ cache = {} /\ frames = 0
    /\ job \in Frame \/ (job = NoFrame /\ frames = 0)
    /\ pc = "rejected" => frames = 0

(* The plan under way and the kernels emitted from it *)
PlanOK ==
    /\ Served(key)
    /\ Planned(key.chain, index, stages)
    /\ pc = "plan" =>
          /\ key.chain # <<>>
          /\ \A entry \in cache : ~Equal(entry.key, key)
          /\ index <= Len(key.chain) => program = <<>>
          /\ index > Len(key.chain) => Emitted(program, key, stages)

(* Every block is one the device can launch. *)
ProgramFits == \A n \in 1 .. Len(program) : program[n].block_dim * program[n].block_dim <= kMaxBlockThreads

(* Every entry runs the chain of its key, and no two have equal keys. *)
CacheOK ==
    /\ \A entry \in cache : Served(entry.key) /\ Runs(entry.program, entry.key)
    /\ \A a, b \in cache : Equal(a.key, b.key) => a = b

(* What the buffer a launch reads from holds *)
LaunchOK ==
    /\ source \in {"front", "back"} /\ destination \in {"front", "back"} /\ source # destination
    /\ DOMAIN buffer = {"front", "back"}
    /\ pc = "plan" /\ warming => frames = 0
    /\ pc = "launch" => ~warming /\ stage \in 1 .. Len(program) + 1 /\ Runs(program, key)
    /\ pc \in {"plan", "launch"} /\ ~warming =>
          /\ job \in Frame /\ job.ops # <<>>
          /\ key = key_for(job, options)
          /\ pc = "plan" => stage = 1
          /\ buffer[source] = [ops |-> SubSeq(job.ops, 1, Reach(program, stage - 1)), channels |-> job.channels]

(* A finished frame is the whole job. *)
ResultOK == pc = "idle" /\ frames > 0 => result = job

IInv == RequestOK /\ PlanOK /\ ProgramFits /\ CacheOK /\ LaunchOK /\ ResultOK

----------------------------------------------------------------------------
(* The table of ops                                                        *)

(* The table lists these kinds. *)
LEMMA KindsOfTable == DOMAIN kOpSpecs = OpKinds
  BY DEF kOpSpecs, OpKinds

(* A default is in range; an op without a parameter only ever has 0; the   *)
(* range of every kind is within that of brightness and gaussian together. *)
LEMMA SpecFacts ==
    ASSUME NEW kind \in OpKinds
    PROVE  /\ kOpSpecs[kind].default \in Int /\ in_range(kind, kOpSpecs[kind].default)
           /\ \A p \in Int : in_range(kind, p) => -100 <= p /\ p <= 400
           /\ ~takes_param(kind) => \A p \in Int : in_range(kind, p) <=> p = 0
           /\ takes_param(kind) \in BOOLEAN /\ is_stencil(kind) \in BOOLEAN
           /\ is_stencil(kind) => (takes_param(kind) <=> kind = "gaussian")
<1>1. CASE kind = "grayscale"
  <2>1. kOpSpecs[kind] = [takes_param |-> FALSE, is_stencil |-> FALSE, default |-> 0, min |-> 0, max |-> 0]
    BY <1>1 DEF kOpSpecs
  <2> QED
    BY <1>1, <2>1 DEF in_range, takes_param, is_stencil
<1>2. CASE kind = "invert"
  <2>1. kOpSpecs[kind] = [takes_param |-> FALSE, is_stencil |-> FALSE, default |-> 0, min |-> 0, max |-> 0]
    BY <1>2 DEF kOpSpecs
  <2> QED
    BY <1>2, <2>1 DEF in_range, takes_param, is_stencil
<1>3. CASE kind = "brightness"
  <2>1. kOpSpecs[kind] = [takes_param |-> TRUE, is_stencil |-> FALSE, default |-> 0, min |-> -100, max |-> 100]
    BY <1>3 DEF kOpSpecs
  <2> QED
    BY <1>3, <2>1 DEF in_range, takes_param, is_stencil
<1>4. CASE kind = "threshold"
  <2>1. kOpSpecs[kind] = [takes_param |-> TRUE, is_stencil |-> FALSE, default |-> 50, min |-> 0, max |-> 100]
    BY <1>4 DEF kOpSpecs
  <2> QED
    BY <1>4, <2>1 DEF in_range, takes_param, is_stencil
<1>5. CASE kind = "gaussian"
  <2>1. kOpSpecs[kind] = [takes_param |-> TRUE, is_stencil |-> TRUE, default |-> 100, min |-> 10, max |-> 400]
    BY <1>5 DEF kOpSpecs
  <2> QED
    BY <1>5, <2>1 DEF in_range, takes_param, is_stencil
<1>6. CASE kind = "sobel"
  <2>1. kOpSpecs[kind] = [takes_param |-> FALSE, is_stencil |-> TRUE, default |-> 0, min |-> 0, max |-> 0]
    BY <1>6 DEF kOpSpecs
  <2> QED
    BY <1>6, <2>1 DEF in_range, takes_param, is_stencil
<1> QED
  BY <1>1, <1>2, <1>3, <1>4, <1>5, <1>6 DEF OpKinds

----------------------------------------------------------------------------
(* The parser                                                              *)

(* A nonempty set of natural numbers has a least element. *)
LEMMA LeastElement ==
    ASSUME NEW T, T \subseteq Nat, T # {}
    PROVE  \E x \in T : \A y \in T : x <= y
<1>1. PICK x \in T : \A y \in T : ~(<<y, x>> \in OpToRel(<, Nat))
  BY NatLessThanWellFounded, WFMin
<1>2. \A y \in T : ~(y < x)
  BY <1>1 DEF OpToRel
<1> QED
  BY <1>2

(* So has a nonempty set of positions a greatest one. *)
LEMMA GreatestElement ==
    ASSUME NEW n \in Nat, NEW T, T \subseteq 0 .. n, T # {}
    PROVE  \E x \in T : \A y \in T : y <= x
<1> DEFINE Gaps == {n - y : y \in T}
<1>0. \A y \in T : y \in Int /\ 0 <= y /\ y <= n
  OBVIOUS
<1>1. Gaps \subseteq Nat /\ Gaps # {}
  <2>1. \A y \in T : n - y \in Nat
    BY <1>0
  <2>2. PICK y : y \in T
    OBVIOUS
  <2>3. n - y \in Gaps
    BY <2>2
  <2> QED
    BY <2>1, <2>3
<1>2. PICK g \in Gaps : \A h \in Gaps : g <= h
  BY <1>1, LeastElement
<1>3. PICK x \in T : g = n - x
  BY <1>2
<1>4. \A y \in T : n - y \in Gaps
  OBVIOUS
<1>5. \A y \in T : n - x <= n - y
  BY <1>2, <1>3, <1>4
<1> QED
  BY <1>0, <1>5

(* A piece of a text of lexemes is one, whatever its ends. *)
LEMMA PieceType ==
    ASSUME NEW S, NEW t \in Seq(S), NEW a \in 1 .. Len(t) + 1, NEW b \in 0 .. Len(t)
    PROVE  SubSeq(t, a, b) \in Seq(S)
  BY SubSeqProperties

(* trim gives a piece of its argument. *)
LEMMA TrimType ==
    ASSUME NEW S, NEW t \in Seq(S)
    PROVE  trim(t) \in Seq(S)
<1> DEFINE kept == {i \in 1 .. Len(t) : t[i] # Space}
<1>1. Len(t) \in Nat
  OBVIOUS
<1>2. CASE kept = {}
  BY <1>2 DEF trim
<1>3. CASE kept # {}
  <2>1. First(kept) \in kept
    <3>1. kept \subseteq Nat
      BY <1>1
    <3>2. \E i \in kept : \A j \in kept : i <= j
      BY <3>1, <1>3, LeastElement
    <3> QED
      BY <3>2 DEF First
  <2>2. Final(kept) \in kept
    <3>1. kept \subseteq 0 .. Len(t)
      BY <1>1
    <3>2. \E i \in kept : \A j \in kept : j <= i
      BY <1>1, <1>3, <3>1, GreatestElement
    <3>3. \A i, j \in kept : j <= i <=> i >= j
      BY <1>1
    <3>4. \E i \in kept : \A j \in kept : i >= j
      BY <3>2, <3>3
    <3> QED
      BY <3>4 DEF Final
  <2>3. First(kept) \in 1 .. Len(t) /\ Final(kept) \in 1 .. Len(t)
    BY <2>1, <2>2
  <2> HIDE DEF kept
  <2>4. SubSeq(t, First(kept), Final(kept)) \in Seq(S)
    BY <2>3, <1>1, PieceType
  <2> QED
    BY <2>4, <1>3 DEF trim, kept
<1> QED
  BY <1>2, <1>3

(* find gives npos or a position at or after the one it starts from. *)
LEMMA FindType ==
    ASSUME NEW S, NEW t \in Seq(S), NEW mark, NEW position \in 1 .. Len(t) + 1
    PROVE  LET p == find(t, mark, position)
           IN  p = npos \/ (p \in position .. Len(t) /\ t[p] = mark)
<1> DEFINE found == {i \in position .. Len(t) : t[i] = mark}
<1>1. Len(t) \in Nat
  OBVIOUS
<1>2. CASE found = {}
  BY <1>2 DEF find
<1>3. CASE found # {}
  <2>0. found \subseteq Nat
    BY <1>1
  <2>1. \E i \in found : \A j \in found : i <= j
    BY <2>0, <1>3, LeastElement
  <2>2. First(found) \in found
    BY <2>1 DEF First
  <2>3. find(t, mark, position) = First(found)
    BY <1>3 DEF find
  <2> QED
    BY <2>2, <2>3
<1> QED
  BY <1>2, <1>3

(* Rounding gives a whole number of hundredths. *)
LEMMA QuantizeType == ASSUME NEW v \in Int PROVE quantize_param(v) \in Int
  BY DEF quantize_param

(* A token is rejected, or spells one op of the table with its parameter   *)
(* in range: the check comes after the rounding, and nothing moves the     *)
(* value after the check.                                                  *)
LEMMA ParseOpType ==
    ASSUME NEW token \in Seq(Lexeme)
    PROVE  parse_op(token) = nullopt \/ \E op \in Op : parse_op(token) = Parsed(<<op>>)
<1> DEFINE colon == find(token, Colon, 1)
           last == IF colon = npos THEN Len(token) ELSE colon - 1
           name == trim(SubSeq(token, 1, last))
           kind == name[1].word
           parameter == trim(SubSeq(token, colon + 1, Len(token)))
           value == quantize_param(parameter[1].value)
<1>1. Len(token) \in Nat
  OBVIOUS
<1>2. colon = npos \/ colon \in 1 .. Len(token)
  <2>1. 1 \in 1 .. Len(token) + 1
    BY <1>1
  <2> QED
    BY <2>1, FindType
<1>3. parameter \in Seq(Lexeme)
  <2>1. colon + 1 \in 1 .. Len(token) + 1
    BY <1>1, <1>2 DEF npos
  <2>2. SubSeq(token, colon + 1, Len(token)) \in Seq(Lexeme)
    BY <1>1, <2>1, PieceType
  <2> QED
    BY <2>2, TrimType
<1> HIDE DEF parameter
<1>4. parse_float(parameter) => value \in Int
  <2> SUFFICES ASSUME parse_float(parameter) PROVE value \in Int
    OBVIOUS
  <2>1. Len(parameter) = 1
    BY DEF parse_float
  <2>2. parameter[1] \in Lexeme
    BY <2>1, <1>3
  <2>3. parameter[1].value \in Int
    BY <2>2 DEF Lexeme
  <2> QED
    BY <2>3, QuantizeType
<1>5. find_spec(name) => kind \in OpKinds
  BY KindsOfTable DEF find_spec
<1>6. parse_op(token) =
        IF ~find_spec(name) THEN nullopt
        ELSE IF colon = npos THEN Parsed(<<[kind |-> kind, param |-> kOpSpecs[kind].default]>>)
        ELSE IF takes_param(kind) /\ parse_float(parameter) /\ in_range(kind, value)
        THEN Parsed(<<[kind |-> kind, param |-> value]>>)
        ELSE nullopt
  BY Zenon DEF parse_op, parameter
<1> HIDE DEF colon, name, value, kind
<1>7. CASE ~find_spec(name)
  BY <1>6, <1>7
<1>8. CASE find_spec(name) /\ colon = npos
  <2>1. [kind |-> kind, param |-> kOpSpecs[kind].default] \in Op
    BY <1>5, <1>8, SpecFacts DEF Op
  <2> QED
    BY <2>1, <1>6, <1>8
<1>9. CASE find_spec(name) /\ colon # npos /\ takes_param(kind) /\ parse_float(parameter) /\ in_range(kind, value)
  <2>1. [kind |-> kind, param |-> value] \in Op
    BY <1>4, <1>5, <1>9 DEF Op
  <2> QED
    BY <2>1, <1>6, <1>9
<1> QED
  BY <1>6, <1>7, <1>8, <1>9

(* A turn of the loop looks only at what follows its token. *)
LEMMA TurnLooksAhead ==
    ASSUME NEW S, NEW body \in Seq(S), NEW p \in 1 .. Len(body) + 1, NEW f, NEW g,
           \A q \in p + 1 .. Len(body) + 1 : f[q] = g[q]
    PROVE  parse_token(body, p, f) = parse_token(body, p, g)
<1> DEFINE comma == find(body, Comma, p)
<1>1. comma = npos \/ comma \in p .. Len(body)
  BY FindType
<1>2. Len(body) \in Nat
  OBVIOUS
<1>3. comma # npos => comma + 1 \in p + 1 .. Len(body) + 1
  BY <1>1, <1>2
<1>4. comma # npos => f[comma + 1] = g[comma + 1]
  BY <1>3
<1> QED
  BY <1>4, Zenon DEF parse_token

(* The loop's results, from the last position back to the first, exist. *)
LEMMA LoopExists ==
    ASSUME NEW S, NEW body \in Seq(S)
    PROVE  \E f : f = [p \in 1 .. Len(body) + 1 |-> parse_token(body, p, f)]
<1> DEFINE end == Len(body) + 1
           From(f, n) == /\ f = [p \in 1 .. end |-> f[p]]
                         /\ \A p \in n + 1 .. end : f[p] = parse_token(body, p, f)
           Done == {n \in 0 .. end : \E f : From(f, n)}
<1>1. end \in Nat
  OBVIOUS
<1>2. end \in Done
  <2>1. From([p \in 1 .. end |-> 0], end)
    BY <1>1
  <2>2. end \in 0 .. end
    BY <1>1
  <2> QED
    BY <2>1, <2>2
<1>3. Done \subseteq Nat
  BY <1>1
<1>4. PICK n \in Done : \A m \in Done : n <= m
  BY <1>2, <1>3, LeastElement
<1>5. n \in 0 .. end
  BY <1>4
<1>6. PICK f : From(f, n)
  BY <1>4
<1>7. n = 0
  <2> SUFFICES ASSUME n # 0 PROVE FALSE
    OBVIOUS
  <2>1. n \in 1 .. end /\ n - 1 \in 0 .. end
    BY <1>1, <1>5
  <2> DEFINE g == [p \in 1 .. end |-> IF p = n THEN parse_token(body, n, f) ELSE f[p]]
  <2>2. g = [p \in 1 .. end |-> g[p]]
    OBVIOUS
  <2>3. g[n] = parse_token(body, n, f)
    BY <2>1
  <2>4. \A p \in n + 1 .. end : g[p] = f[p]
    BY <1>1, <2>1
  <2> HIDE DEF g
  <2>5. \A p \in n .. end : parse_token(body, p, f) = parse_token(body, p, g)
    <3> TAKE p \in n .. end
    <3>1. p \in 1 .. Len(body) + 1
      BY <1>1, <2>1
    <3>2. \A q \in p + 1 .. Len(body) + 1 : f[q] = g[q]
      BY <1>1, <2>1, <2>4
    <3> QED
      BY <3>1, <3>2, TurnLooksAhead
  <2>6. \A p \in n - 1 + 1 .. end : g[p] = parse_token(body, p, g)
    <3> TAKE p \in n - 1 + 1 .. end
    <3>1. p = n \/ p \in n + 1 .. end
      BY <1>1, <2>1
    <3>2. p \in n .. end
      BY <1>1, <2>1
    <3>3. p \in n + 1 .. end => f[p] = parse_token(body, p, f)
      BY <1>6
    <3> QED
      BY <3>1, <3>2, <3>3, <2>3, <2>4, <2>5
  <2>7. From(g, n - 1)
    BY <2>2, <2>6
  <2>8. n - 1 \in Done
    BY <2>1, <2>7
  <2> QED
    BY <2>8, <1>4, <2>1, <1>1
<1>8. f = [p \in 1 .. end |-> parse_token(body, p, f)]
  <2>1. \A p \in 1 .. end : f[p] = parse_token(body, p, f)
    BY <1>6, <1>7
  <2>2. f = [p \in 1 .. end |-> f[p]]
    BY <1>6
  <2> QED
    BY <2>1, <2>2
<1> QED
  BY <1>8

(* Every op of a parsed chain is in the table, its parameter in range.     *)
(* By descent from the last token for which it would not be so.            *)
LEMMA ParsedOps ==
    ASSUME NEW t \in Seq(Lexeme)
    PROVE  parse_op_chain(t).ops \in Seq(Op)
<1> DEFINE body == trim(t)
           Loop == CHOOSE f : f = [p \in 1 .. Len(body) + 1 |-> parse_token(body, p, f)]
           end == Len(body) + 1
<1>1. body \in Seq(Lexeme)
  BY TrimType
<1>2. parse_body(body) = Loop[1]
  BY DEF parse_body
<1> HIDE DEF body
<1>3. Loop = [p \in 1 .. end |-> parse_token(body, p, Loop)]
  BY <1>1, LoopExists
<1> HIDE DEF Loop
<1>4. end \in Nat /\ 1 \in 1 .. end
  BY <1>1
<1>5. \A p \in 1 .. end : Loop[p] = parse_token(body, p, Loop)
  BY <1>3
<1> DEFINE Bad == {p \in 1 .. end : Loop[p].ops \notin Seq(Op)}
<1>6. Bad = {}
  <2> SUFFICES ASSUME Bad # {} PROVE FALSE
    OBVIOUS
  <2>1. Bad \subseteq 0 .. end
    BY <1>4
  <2>2. PICK p \in Bad : \A q \in Bad : q <= p
    BY <2>1, <1>4, GreatestElement
  <2>3. p \in 1 .. end
    BY <2>2
  <2> DEFINE comma == find(body, Comma, p)
             last == IF comma = npos THEN Len(body) ELSE comma - 1
             token == trim(SubSeq(body, p, last))
             op == parse_op(token)
  <2>4. comma = npos \/ comma \in p .. Len(body)
    BY <1>1, <2>3, FindType
  <2>5. token \in Seq(Lexeme)
    <3>1. Len(body) \in Nat
      BY <1>1
    <3>2. last \in 0 .. Len(body)
      BY <2>3, <2>4, <3>1
    <3> HIDE DEF last
    <3>3. SubSeq(body, p, last) \in Seq(Lexeme)
      BY <1>1, <2>3, <3>2, PieceType
    <3> QED
      BY <3>3, TrimType
  <2> HIDE DEF token, last
  <2>6. op = nullopt \/ \E o \in Op : op = Parsed(<<o>>)
    BY <2>5, ParseOpType
  <2> HIDE DEF op
  <2>7. op.ops \in Seq(Op)
    <3>1. CASE op = nullopt
      BY <3>1 DEF nullopt
    <3>2. CASE \E o \in Op : op = Parsed(<<o>>)
      <4>1. PICK o \in Op : op = Parsed(<<o>>)
        BY <3>2
      <4>2. op.ops = <<o>>
        BY <4>1 DEF Parsed
      <4> QED
        BY <4>2
    <3> QED
      BY <2>6, <3>1, <3>2
  <2>8. comma # npos => Loop[comma + 1].ops \in Seq(Op)
    <3> SUFFICES ASSUME comma # npos PROVE Loop[comma + 1].ops \in Seq(Op)
      OBVIOUS
    <3>1. Len(body) \in Nat
      BY <1>1
    <3>2. comma + 1 \in 1 .. end /\ ~(comma + 1 <= p)
      BY <2>3, <2>4, <3>1
    <3> QED
      BY <2>2, <3>2
  <2>9. Loop[p] = IF ~more_tokens(body, p) THEN Parsed(<<>>)
                  ELSE IF token = <<>> \/ ~op.ok THEN nullopt
                  ELSE IF comma = npos THEN op
                  ELSE IF Loop[comma + 1].ok THEN Parsed(op.ops \o Loop[comma + 1].ops)
                  ELSE nullopt
    <3>1. Loop[p] = parse_token(body, p, Loop)
      BY <1>5, <2>3
    <3> QED
      BY <3>1, Zenon DEF parse_token, token, op, last
  <2> HIDE DEF comma
  <2>10. Parsed(<<>>).ops \in Seq(Op) /\ nullopt.ops \in Seq(Op)
    BY DEF Parsed, nullopt
  <2>11. comma # npos => Parsed(op.ops \o Loop[comma + 1].ops).ops \in Seq(Op)
    BY <2>7, <2>8 DEF Parsed
  <2>12. Loop[p].ops \in Seq(Op)
    BY <2>7, <2>9, <2>10, <2>11
  <2> QED
    BY <2>12, <2>2
<1>7. Loop[1].ops \in Seq(Op)
  BY <1>4, <1>6
<1> QED
  <2>1. parse_op_chain(t) = IF body = <<>> THEN Parsed(<<>>) ELSE parse_body(body)
    BY DEF parse_op_chain, body
  <2>2. Parsed(<<>>).ops \in Seq(Op)
    BY DEF Parsed
  <2> QED
    BY <1>2, <1>7, <2>1, <2>2

----------------------------------------------------------------------------
(* The canonical text                                                      *)

(* The lexemes that canonical_string writes.  (That a given string is in   *)
(* STRING, as Lexeme says, is beyond the provers.)                         *)
Written == {Word(kind) : kind \in OpKinds} \cup {Number(v) : v \in Int} \cup {Comma, Colon}

(* The text of an op has no comma in it. *)
Solid(t) == t \in Seq(Written) /\ \A i \in 1 .. Len(t) : t[i] # Comma

(* trim leaves a text alone that neither starts nor ends with a blank. *)
LEMMA TrimTight ==
    ASSUME NEW S, NEW t \in Seq(S), t # <<>>, t[1] # Space, t[Len(t)] # Space
    PROVE  trim(t) = t
<1> DEFINE kept == {i \in 1 .. Len(t) : t[i] # Space}
<1>1. Len(t) \in Nat \ {0}
  BY EmptySeq
<1>2. 1 \in kept /\ Len(t) \in kept
  BY <1>1
<1>3. \A i \in kept : i \in Nat /\ 1 <= i /\ i <= Len(t)
  BY <1>1
<1> HIDE DEF kept
<1>4. First(kept) = 1
  <2>1. 1 \in kept /\ \A j \in kept : 1 <= j
    BY <1>2, <1>3
  <2>2. \A i \in kept : (\A j \in kept : i <= j) => i = 1
    BY <1>2, <1>3
  <2> QED
    BY <2>1, <2>2 DEF First
<1>5. Final(kept) = Len(t)
  <2>1. Len(t) \in kept /\ \A j \in kept : Len(t) >= j
    BY <1>1, <1>2, <1>3
  <2>2. \A i \in kept : (\A j \in kept : i >= j) => i = Len(t)
    BY <1>1, <1>2, <1>3
  <2> QED
    BY <2>1, <2>2 DEF Final
<1>6. trim(t) = SubSeq(t, First(kept), Final(kept))
  BY <1>2 DEF trim, kept
<1>7. SubSeq(t, 1, Len(t)) = t
  BY SubSeqFull
<1> QED
  BY <1>4, <1>5, <1>6, <1>7

(* find gives npos where the mark does not occur ... *)
LEMMA FindNothing ==
    ASSUME NEW t, NEW mark, NEW position, \A i \in position .. Len(t) : t[i] # mark
    PROVE  find(t, mark, position) = npos
  BY DEF find

(* ... and the first place where it does. *)
LEMMA FindFirst ==
    ASSUME NEW t, NEW mark, NEW position \in Nat, Len(t) \in Nat, NEW p \in position .. Len(t),
           t[p] = mark, \A i \in position .. p - 1 : t[i] # mark
    PROVE  find(t, mark, position) = p
<1> DEFINE found == {i \in position .. Len(t) : t[i] = mark}
<1>1. p \in found
  OBVIOUS
<1>2. \A i \in found : i \in Nat /\ p <= i
  OBVIOUS
<1>3. find(t, mark, position) = First(found)
  BY <1>1 DEF find
<1> HIDE DEF found
<1>4. \A i \in found : (\A j \in found : i <= j) => i = p
  BY <1>1, <1>2
<1> QED
  BY <1>1, <1>2, <1>3, <1>4 DEF First

(* The digits of a number add up to it. *)
LEMMA DigitsAddUp ==
    ASSUME NEW m \in Nat
    PROVE  (m \div 100) * 1000 + ((m \div 10) % 10) * 100 + (m % 10) * 10 = 10 * m
  OBVIOUS

(* What is printed of a parameter reads back as that parameter. *)
LEMMA DigitsReadBack ==
    ASSUME NEW p \in Int
    PROVE  /\ Printed(format_param(p)) = Number(10 * p)
           /\ quantize_param(10 * p) = p
<1> DEFINE m == Magnitude(p)
           value == (m \div 100) * 1000 + ((m \div 10) % 10) * 100 + (m % 10) * 10
<1>1. m \in Nat /\ p = IF p < 0 THEN -m ELSE m
  BY DEF Magnitude
<1>2. value = 10 * m
  <2> HIDE DEF m
  <2> QED
    BY <1>1, DigitsAddUp
<1>3. Printed(format_param(p)) = Number(IF p < 0 THEN -value ELSE value)
  <2>0. PICK digits : digits = format_param(p)
    OBVIOUS
  <2>1. /\ digits.negative = (p < 0) /\ digits.whole = m \div 100
        /\ digits.tenths = (m \div 10) % 10 /\ digits.hundredths = m % 10
    BY <2>0, Zenon DEF format_param
  <2> HIDE DEF m
  <2>2. digits.whole * 1000 + digits.tenths * 100 + digits.hundredths * 10 = value
    BY <2>1
  <2> HIDE DEF value
  <2>3. Printed(digits) = Number(IF digits.negative THEN -value ELSE value)
    <3>1. CASE digits.negative
      BY <2>2, <3>1 DEF Printed
    <3>2. CASE ~digits.negative
      BY <2>2, <3>2 DEF Printed
    <3> QED
      BY <3>1, <3>2
  <2> QED
    BY <2>0, <2>1, <2>3, Zenon
<1> HIDE DEF m, value
<1>4. (IF p < 0 THEN -value ELSE value) = 10 * p
  BY <1>1, <1>2
<1>5. quantize_param(10 * p) = p
  BY DEF quantize_param
<1> QED
  BY <1>3, <1>4, <1>5

(* Words and numbers are no marks. *)
LEMMA WordLexeme ==
    ASSUME NEW w \in OpKinds
    PROVE  /\ Word(w) \in Written /\ Word(w).class = "word" /\ Word(w).word = w
           /\ Word(w) # Space /\ Word(w) # Comma /\ Word(w) # Colon
<1>1. Word(w) \in Written
  BY Zenon DEF Written
<1>2. Word(w).class = "word" /\ Word(w).word = w
  BY DEF Word
<1>3. Space.class = "space" /\ Comma.class = "comma" /\ Colon.class = "colon"
  BY DEF Space, Comma, Colon, Mark
<1> QED
  BY <1>1, <1>2, <1>3

(* The same of numbers *)
LEMMA NumberLexeme ==
    ASSUME NEW v \in Int
    PROVE  /\ Number(v) \in Written /\ Number(v).class = "number" /\ Number(v).value = v
           /\ Number(v) # Space /\ Number(v) # Comma /\ Number(v) # Colon
<1>1. Number(v) \in Written
  BY Zenon DEF Written
<1>2. Number(v).class = "number" /\ Number(v).value = v
  BY DEF Number
<1>3. Space.class = "space" /\ Comma.class = "comma" /\ Colon.class = "colon"
  BY DEF Space, Comma, Colon, Mark
<1> QED
  BY <1>1, <1>2, <1>3

(* So there is no blank in what canonical_string writes. *)
LEMMA NothingBlank == Colon \in Written /\ Comma \in Written /\ Colon # Comma /\ \A x \in Written : x # Space
<1>1. Space.class = "space" /\ Comma.class = "comma" /\ Colon.class = "colon"
  BY DEF Space, Comma, Colon, Mark
<1>2. Space # Comma /\ Space # Colon /\ Colon # Comma
  BY <1>1
<1>3. ASSUME NEW x \in Written PROVE x # Space
  <2>1. (\E w \in OpKinds : x = Word(w)) \/ (\E v \in Int : x = Number(v)) \/ x \in {Comma, Colon}
    BY Zenon DEF Written
  <2> QED
    BY <2>1, <1>2, WordLexeme, NumberLexeme
<1>4. Colon \in Written /\ Comma \in Written
  BY Zenon DEF Written
<1> QED
  BY <1>2, <1>3, <1>4

(* A sequence of one lexeme is as trimmed as can be. *)
LEMMA SingleLexeme ==
    ASSUME NEW S, NEW t \in Seq(S), NEW i \in 1 .. Len(t), t[i] # Space
    PROVE  trim(SubSeq(t, i, i)) = <<t[i]>>
<1> DEFINE w == SubSeq(t, i, i)
<1>1. t[i] \in S /\ i \in Int
  OBVIOUS
<1>2. \A j \in i .. i : t[j] \in S
  BY <1>1
<1>3. w \in Seq(S) /\ Len(w) = 1 /\ w[1] = t[i]
  BY <1>1, <1>2, SubSeqProperties
<1> HIDE DEF w
<1>4. w # <<>>
  <2>1. Len(<<>>) = 0
    BY EmptySeq
  <2> QED
    BY <1>3, <2>1
<1>5. trim(w) = w
  BY <1>3, <1>4, TrimTight
<1>6. w = <<t[i]>>
  <2>1. <<t[i]>> \in Seq(S) /\ Len(<<t[i]>>) = 1 /\ (<<t[i]>>)[1] = t[i]
    BY <1>1
  <2> QED
    BY <1>3, <2>1, SeqEqual
<1> QED
  BY <1>5, <1>6 DEF w

(* An op's text: one lexeme, or a name, a colon and a number. *)
LEMMA OpTextShape ==
    ASSUME NEW op \in Op
    PROVE  /\ Solid(OpText(op))
           /\ Len(OpText(op)) = IF takes_param(op.kind) THEN 3 ELSE 1
           /\ OpText(op)[1] = Word(op.kind)
           /\ takes_param(op.kind) => OpText(op)[2] = Colon /\ OpText(op)[3] = Number(10 * op.param)
<1>1. op.kind \in OpKinds /\ op.param \in Int
  BY DEF Op
<1> DEFINE w == Word(op.kind)
           v == 10 * op.param
           n == Number(v)
<1>2. v \in Int
  BY <1>1
<1> HIDE DEF v
<1>3. w \in Written /\ Colon \in Written /\ n \in Written
  BY <1>1, <1>2, WordLexeme, NothingBlank, NumberLexeme
<1>4. w # Comma /\ Colon # Comma /\ n # Comma
  BY <1>1, <1>2, WordLexeme, NothingBlank, NumberLexeme
<1>5. CASE takes_param(op.kind)
  <2>1. OpText(op) = <<w>> \o <<Colon, n>>
    BY <1>1, <1>5, DigitsReadBack, Zenon DEF OpText, v
  <2> HIDE DEF w, n
  <2>2. <<w>> \in Seq(Written) /\ <<Colon, n>> \in Seq(Written)
    BY <1>3
  <2>3. /\ OpText(op) \in Seq(Written) /\ Len(OpText(op)) = 3
        /\ OpText(op)[1] = w /\ OpText(op)[2] = Colon /\ OpText(op)[3] = n
    BY <2>1, <2>2, ConcatProperties
  <2> QED
    BY <1>4, <1>5, <2>3 DEF Solid, w, n, v
<1>6. CASE ~takes_param(op.kind)
  <2>1. OpText(op) = <<w>> \o <<>>
    BY <1>6, Zenon DEF OpText
  <2> HIDE DEF w, n
  <2>2. <<w>> \in Seq(Written) /\ <<>> \in Seq(Written)
    BY <1>3
  <2>3. OpText(op) \in Seq(Written) /\ Len(OpText(op)) = 1 /\ OpText(op)[1] = w
    BY <2>1, <2>2, ConcatProperties
  <2> QED
    BY <1>4, <1>6, <2>3 DEF Solid, w
<1> QED
  BY <1>5, <1>6

(* parse_op reads the text of an op back. *)
LEMMA OpReadsBack ==
    ASSUME NEW op \in Op
    PROVE  trim(OpText(op)) = OpText(op) /\ parse_op(OpText(op)) = Parsed(<<op>>)
<1> DEFINE token == OpText(op)
           colon == find(token, Colon, 1)
           last == IF colon = npos THEN Len(token) ELSE colon - 1
           name == trim(SubSeq(token, 1, last))
           kind == name[1].word
           parameter == trim(SubSeq(token, colon + 1, Len(token)))
           value == quantize_param(parameter[1].value)
           takes == takes_param(op.kind)
<1>1. op.kind \in OpKinds /\ op.param \in Int /\ op = [kind |-> op.kind, param |-> op.param] /\ in_range(op.kind, op.param)
  BY DEF Op
<1>2. /\ Solid(token)
      /\ Len(token) = IF takes THEN 3 ELSE 1
      /\ token[1] = Word(op.kind)
      /\ takes => token[2] = Colon /\ token[3] = Number(10 * op.param)
  BY OpTextShape
<1>3. parse_op(token) =
        IF ~find_spec(name) THEN nullopt
        ELSE IF colon = npos THEN Parsed(<<[kind |-> kind, param |-> kOpSpecs[kind].default]>>)
        ELSE IF takes_param(kind) /\ parse_float(parameter) /\ in_range(kind, value)
        THEN Parsed(<<[kind |-> kind, param |-> value]>>)
        ELSE nullopt
  BY Zenon DEF parse_op
<1> HIDE DEF token, takes
<1>4. token \in Seq(Written) /\ token # <<>> /\ Len(token) \in {1, 3} /\ \A i \in 1 .. Len(token) : token[i] # Space
  BY <1>2, EmptySeq, NothingBlank DEF Solid
<1>5. trim(token) = token
  <2>1. 1 \in 1 .. Len(token) /\ Len(token) \in 1 .. Len(token)
    BY <1>4
  <2> QED
    BY <1>4, <2>1, TrimTight
<1>6. Word(op.kind) # Colon /\ Word(op.kind) # Space /\ Word(op.kind).word = op.kind /\ Word(op.kind).class = "word"
  BY <1>1, WordLexeme
<1>7. trim(SubSeq(token, 1, 1)) = <<Word(op.kind)>>
  <2>1. 1 \in 1 .. Len(token)
    BY <1>4
  <2>2. token[1] # Space
    BY <1>2, <1>6
  <2>3. trim(SubSeq(token, 1, 1)) = <<token[1]>>
    BY <1>4, <2>1, <2>2, SingleLexeme
  <2> QED
    BY <1>2, <2>3
<1>9. find_spec(<<Word(op.kind)>>) /\ (<<Word(op.kind)>>)[1].word = op.kind
  BY <1>1, <1>6, KindsOfTable DEF find_spec
<1>10. CASE ~takes
  <2>1. colon = npos
    <3>1. \A i \in 1 .. Len(token) : token[i] # Colon
      BY <1>2, <1>6, <1>10
    <3> QED
      BY <3>1, FindNothing
  <2>2. name = <<Word(op.kind)>>
    BY <1>2, <1>7, <1>10, <2>1
  <2>3. kOpSpecs[op.kind].default = op.param
    BY <1>1, <1>10, SpecFacts DEF takes
  <2>4. kind = op.kind /\ find_spec(name)
    BY <2>2, <1>9
  <2> HIDE DEF colon, name, kind, parameter, value
  <2>5. parse_op(token) = Parsed(<<op>>)
    BY <1>1, <1>3, <2>1, <2>3, <2>4
  <2> QED
    BY <2>5, <1>5 DEF token
<1>11. CASE takes
  <2>1. colon = 2
    <3>1. Len(token) \in Nat /\ 2 \in 1 .. Len(token) /\ token[2] = Colon /\ \A i \in 1 .. 2 - 1 : token[i] # Colon
      BY <1>2, <1>6, <1>11
    <3> QED
      BY <3>1, FindFirst
  <2>2. name = <<Word(op.kind)>>
    <3>1. last = 1
      BY <2>1 DEF npos
    <3> QED
      BY <1>7, <3>1
  <2>3. kind = op.kind /\ find_spec(name)
    BY <2>2, <1>9
  <2>4. parameter = <<token[3]>>
    <3>1. 3 \in 1 .. Len(token) /\ colon + 1 = 3 /\ Len(token) = 3
      BY <1>2, <1>11, <2>1
    <3> HIDE DEF colon
    <3>2. token[3] # Space
      BY <1>4, <3>1
    <3>3. trim(SubSeq(token, 3, 3)) = <<token[3]>>
      BY <1>4, <3>1, <3>2, SingleLexeme
    <3> QED
      BY <3>1, <3>3
  <2>5. parse_float(parameter) /\ parameter[1].value = 10 * op.param
    <3>1. token[3].class = "number" /\ token[3].value = 10 * op.param
      BY <1>1, <1>2, <1>11, NumberLexeme
    <3> HIDE DEF parameter
    <3> QED
      BY <2>4, <3>1 DEF parse_float
  <2>6. value = op.param
    BY <2>5, <1>1, DigitsReadBack
  <2> HIDE DEF colon, name, kind, parameter, value
  <2>7. parse_op(token) = Parsed(<<op>>)
    BY <1>1, <1>3, <1>11, <2>1, <2>3, <2>5, <2>6 DEF npos, takes
  <2> QED
    BY <2>7, <1>5 DEF token
<1> QED
  BY <1>10, <1>11

(* canonical_string's recursion: its turns. *)
Write(c, f, n) == IF n = 0 THEN <<>> ELSE f[n - 1] \o (IF n = 1 THEN <<>> ELSE <<Comma>>) \o OpText(c[n])

(* They exist. *)
LEMMA WriteExists ==
    ASSUME NEW c, Len(c) \in Nat
    PROVE  \E f : f = [n \in 0 .. Len(c) |-> Write(c, f, n)]
<1> DEFINE end == Len(c)
           UpTo(f, m) == /\ f = [n \in 0 .. end |-> f[n]]
                         /\ \A n \in 0 .. m : f[n] = Write(c, f, n)
           Bad == {m \in 0 .. end : ~ \E f : UpTo(f, m)}
<1>1. end \in Nat
  OBVIOUS
<1>2. Bad = {}
  <2> SUFFICES ASSUME Bad # {} PROVE FALSE
    OBVIOUS
  <2>1. Bad \subseteq Nat
    BY <1>1
  <2>2. PICK m \in Bad : \A l \in Bad : m <= l
    BY <2>1, LeastElement
  <2>3. m \in 0 .. end /\ m \in Nat
    BY <2>2, <1>1
  <2>4. CASE m = 0
    <3> DEFINE g == [n \in 0 .. end |-> <<>>]
    <3>1. g = [n \in 0 .. end |-> g[n]]
      OBVIOUS
    <3>2. g[0] = <<>>
      BY <1>1
    <3> HIDE DEF g
    <3>3. \A n \in 0 .. m : g[n] = Write(c, g, n)
      BY <2>4, <3>2 DEF Write
    <3>4. UpTo(g, m)
      BY <3>1, <3>3
    <3> QED
      BY <3>4, <2>2
  <2>5. CASE m # 0
    <3>1. m - 1 \in 0 .. end /\ ~(m <= m - 1)
      BY <2>3, <2>5, <1>1
    <3>2. m - 1 \notin Bad
      BY <3>1, <2>2
    <3>3. PICK f : UpTo(f, m - 1)
      BY <3>1, <3>2
    <3> DEFINE g == [n \in 0 .. end |-> IF n = m THEN Write(c, f, m) ELSE f[n]]
    <3>4. g = [n \in 0 .. end |-> g[n]]
      OBVIOUS
    <3>5. g[m] = Write(c, f, m)
      BY <2>3
    <3>6. \A n \in 0 .. m - 1 : g[n] = f[n]
      BY <2>3, <1>1
    <3> HIDE DEF g
    <3>7. \A n \in 0 .. m : Write(c, f, n) = Write(c, g, n)
      <4> TAKE n \in 0 .. m
      <4>1. n = 0 \/ n - 1 \in 0 .. m - 1
        BY <2>3
      <4>2. n = 0 \/ f[n - 1] = g[n - 1]
        BY <4>1, <3>6
      <4> QED
        BY <4>2, Zenon DEF Write
    <3>8. \A n \in 0 .. m : g[n] = Write(c, g, n)
      <4> TAKE n \in 0 .. m
      <4>1. n = m \/ n \in 0 .. m - 1
        BY <2>3
      <4>2. n \in 0 .. m - 1 => f[n] = Write(c, f, n)
        BY <3>3
      <4> QED
        BY <4>1, <4>2, <3>5, <3>6, <3>7
    <3>9. UpTo(g, m)
      BY <3>4, <3>8
    <3> QED
      BY <3>9, <2>2
  <2> QED
    BY <2>4, <2>5
<1>3. PICK f : UpTo(f, end)
  <2>1. end \in 0 .. end
    BY <1>1
  <2> QED
    BY <1>2, <2>1
<1>4. f = [n \in 0 .. end |-> Write(c, f, n)]
  <2>1. f = [n \in 0 .. end |-> f[n]] /\ \A n \in 0 .. end : f[n] = Write(c, f, n)
    BY <1>3
  <2> QED
    BY <2>1
<1> QED
  BY <1>4

(* Where the text of op k starts in the text f[n] of the first n ops *)
At(f, k) == IF k = 1 THEN 1 ELSE Len(f[k - 1]) + 2

(* The text t ends with the text of its last op, which starts at position  *)
(* at; what lies before it is left alone, and a comma lies between.        *)
WritesOp(t, own, at) ==
    /\ t \in Seq(Written)
    /\ at \in Nat \ {0}
    /\ Len(t) = at - 1 + Len(own)
    /\ \A j \in 1 .. Len(own) : t[at + j - 1] = own[j]

Extends(t, before) ==
    /\ t[Len(before) + 1] = Comma
    /\ \A i \in 1 .. Len(before) : t[i] = before[i]

(* The first op's text has nothing before it, *)
LEMMA WriteFirst ==
    ASSUME NEW own \in Seq(Written)
    PROVE  WritesOp(<<>> \o <<>> \o own, own, 1)
<1>1. <<>> \o <<>> = <<>>
  BY ConcatEmptySeq, EmptySeq
<1>2. <<>> \o own = own
  BY ConcatEmptySeq
<1>3. \A j \in 1 .. Len(own) : own[1 + j - 1] = own[j]
  <2> TAKE j \in 1 .. Len(own)
  <2>1. 1 + j - 1 = j
    OBVIOUS
  <2> QED
    BY <2>1
<1>4. WritesOp(own, own, 1)
  BY <1>3 DEF WritesOp
<1> QED
  BY <1>1, <1>2, <1>4

(* ... every other follows a comma. *)
LEMMA WriteNext ==
    ASSUME NEW before \in Seq(Written), NEW own \in Seq(Written)
    PROVE  /\ WritesOp(before \o <<Comma>> \o own, own, Len(before) + 2)
           /\ Extends(before \o <<Comma>> \o own, before)
<1> DEFINE head == before \o <<Comma>>
           t == head \o own
           b == Len(before)
           l == Len(own)
<1>1. b \in Nat /\ l \in Nat
  OBVIOUS
<1>2. <<Comma>> \in Seq(Written) /\ Len(<<Comma>>) = 1 /\ (<<Comma>>)[1] = Comma
  BY NothingBlank
<1>3. /\ head \in Seq(Written) /\ Len(head) = b + 1 /\ head[b + 1] = Comma
      /\ \A i \in 1 .. b : head[i] = before[i]
  BY <1>1, <1>2, ConcatProperties
<1> HIDE DEF head
<1>4. /\ t \in Seq(Written) /\ Len(t) = Len(head) + l
      /\ \A i \in 1 .. Len(head) + l : t[i] = IF i <= Len(head) THEN head[i] ELSE own[i - Len(head)]
  BY <1>3, ConcatProperties
<1> HIDE DEF t, b, l
<1>5. \A j \in 1 .. l : t[b + 2 + j - 1] = own[j]
  <2> TAKE j \in 1 .. l
  <2> DEFINE i == b + 2 + j - 1
  <2>1. i \in 1 .. Len(head) + l /\ ~(i <= Len(head)) /\ i - Len(head) = j
    BY <1>1, <1>3
  <2> HIDE DEF i
  <2>2. t[i] = own[i - Len(head)]
    BY <1>4, <2>1
  <2> QED
    BY <2>1, <2>2 DEF i
<1>6. t[b + 1] = Comma /\ \A i \in 1 .. b : t[i] = before[i]
  BY <1>1, <1>3, <1>4
<1>7. WritesOp(t, own, b + 2)
  BY <1>1, <1>3, <1>4, <1>5 DEF WritesOp, l
<1>8. Extends(t, before)
  BY <1>6 DEF Extends, b
<1> QED
  BY <1>7, <1>8 DEF t, head, b

(* So every turn writes its op, *)
LEMMA WriteStep ==
    ASSUME NEW c \in Seq(Op), NEW f, NEW n \in 1 .. Len(c),
           f[0] = <<>>, f[n] = Write(c, f, n), f[n - 1] \in Seq(Written)
    PROVE  WritesOp(f[n], OpText(c[n]), At(f, n)) /\ (n > 1 => Extends(f[n], f[n - 1]))
<1> DEFINE own == OpText(c[n])
<1>1. n \in Nat /\ n # 0
  OBVIOUS
<1>2. own \in Seq(Written)
  BY OpTextShape DEF Solid
<1>3. CASE n = 1
  <2>1. f[n - 1] = <<>>
    BY <1>3
  <2>2. f[n] = <<>> \o <<>> \o own
    BY <1>1, <1>3, <2>1, Zenon DEF Write
  <2> HIDE DEF own
  <2>3. WritesOp(f[n], own, 1)
    BY <1>2, <2>2, WriteFirst
  <2> QED
    BY <1>3, <2>3 DEF At, own
<1>4. CASE n # 1
  <2>1. f[n] = f[n - 1] \o <<Comma>> \o own
    BY <1>1, <1>4, Zenon DEF Write
  <2> HIDE DEF own
  <2>2. WritesOp(f[n], own, Len(f[n - 1]) + 2) /\ Extends(f[n], f[n - 1])
    BY <1>2, <2>1, WriteNext
  <2> QED
    BY <1>4, <2>2, Zenon DEF At, own
<1> QED
  BY <1>3, <1>4

(* ... and the last one has them all: where op k was written it still is.  *)
StillThere(t, c, f, k) ==
    /\ At(f, k) \in Nat \ {0}
    /\ Len(f[k]) \in Nat /\ Len(f[k]) <= Len(t)
    /\ Len(f[k]) = At(f, k) - 1 + Len(OpText(c[k]))
    /\ \A j \in 1 .. Len(OpText(c[k])) : t[At(f, k) + j - 1] = OpText(c[k])[j]
    /\ k < Len(c) => Len(f[k]) < Len(t) /\ t[Len(f[k]) + 1] = Comma

(* By induction on the op, and by descent from the last one that would not *)
(* be there any more.                                                      *)
LEMMA Layout ==
    ASSUME NEW c \in Seq(Op), NEW f, f[0] = <<>>, \A n \in 1 .. Len(c) : f[n] = Write(c, f, n)
    PROVE  /\ \A n \in 0 .. Len(c) : f[n] \in Seq(Written)
           /\ \A k \in 1 .. Len(c) : StillThere(f[Len(c)], c, f, k)
<1> DEFINE end == Len(c)
           t == f[end]
<1>1. end \in Nat
  OBVIOUS
<1>2. \A n \in 0 .. end : f[n] \in Seq(Written)
  <2> DEFINE Bad == {n \in 0 .. end : f[n] \notin Seq(Written)}
  <2> SUFFICES ASSUME Bad # {} PROVE FALSE
    OBVIOUS
  <2>1. Bad \subseteq Nat
    BY <1>1
  <2>2. PICK m \in Bad : \A l \in Bad : m <= l
    BY <2>1, LeastElement
  <2>3. m \in 0 .. end /\ m \in Nat /\ f[m] \notin Seq(Written)
    BY <2>2, <1>1
  <2>4. m # 0
    BY <2>3, EmptySeq
  <2>5. m \in 1 .. end /\ m - 1 \in 0 .. end /\ ~(m <= m - 1)
    BY <2>3, <2>4, <1>1
  <2>6. f[m - 1] \in Seq(Written)
    BY <2>2, <2>5
  <2>7. f[m] = Write(c, f, m)
    BY <2>5
  <2>8. WritesOp(f[m], OpText(c[m]), At(f, m))
    BY <2>5, <2>6, <2>7, WriteStep
  <2> QED
    BY <2>3, <2>8 DEF WritesOp
<1>3. \A n \in 1 .. end : WritesOp(f[n], OpText(c[n]), At(f, n)) /\ (n > 1 => Extends(f[n], f[n - 1]))
  <2> TAKE n \in 1 .. end
  <2>1. n - 1 \in 0 .. end
    BY <1>1
  <2>2. f[n - 1] \in Seq(Written)
    BY <1>2, <2>1
  <2> QED
    BY <2>2, WriteStep
<1>4. \A n \in 1 .. end : Len(f[n]) \in Nat /\ At(f, n) \in Nat \ {0} /\ Len(OpText(c[n])) \in Nat
  <2> TAKE n \in 1 .. end
  <2>1. f[n] \in Seq(Written)
    BY <1>1, <1>2
  <2>2. OpText(c[n]) \in Seq(Written)
    BY OpTextShape DEF Solid
  <2> QED
    BY <1>3, <2>1, <2>2 DEF WritesOp
<1>5. \A n \in 1 .. end : n < end => Len(f[n]) + 1 <= Len(f[n + 1]) /\ Extends(f[n + 1], f[n])
  <2> TAKE n \in 1 .. end
  <2> HAVE n < end
  <2>1. n + 1 \in 1 .. end /\ n + 1 > 1 /\ n + 1 - 1 = n /\ n + 1 # 1
    BY <1>1
  <2>2. WritesOp(f[n + 1], OpText(c[n + 1]), At(f, n + 1)) /\ Extends(f[n + 1], f[n])
    BY <1>3, <2>1
  <2>3. At(f, n + 1) = Len(f[n]) + 2
    BY <2>1 DEF At
  <2>4. PICK a, b, l : a = Len(f[n]) /\ b = Len(f[n + 1]) /\ l = Len(OpText(c[n + 1]))
    OBVIOUS
  <2>5. a \in Nat /\ b \in Nat /\ l \in Nat
    BY <1>4, <2>1, <2>4
  <2>6. PICK at : at = At(f, n + 1) /\ at = a + 2 /\ b = at - 1 + l
    <3>1. Len(f[n + 1]) = At(f, n + 1) - 1 + Len(OpText(c[n + 1]))
      BY <2>2, Zenon DEF WritesOp
    <3>2. b = At(f, n + 1) - 1 + l
      BY <3>1, <2>4, Zenon
    <3>3. At(f, n + 1) = a + 2
      BY <2>3, <2>4, Zenon
    <3> QED
      BY <3>2, <3>3, Zenon
  <2>7. a + 1 <= b
    BY <2>5, <2>6
  <2> QED
    BY <2>2, <2>4, <2>7, Zenon
<1> DEFINE Prefix(n) == Len(f[n]) <= Len(t) /\ \A i \in 1 .. Len(f[n]) : t[i] = f[n][i]
<1>6. \A n \in 1 .. end : Prefix(n)
  <2> DEFINE Bad == {n \in 1 .. end : ~Prefix(n)}
  <2> SUFFICES ASSUME Bad # {} PROVE FALSE
    OBVIOUS
  <2>1. Bad \subseteq 0 .. end
    BY <1>1
  <2>2. PICK m \in Bad : \A l \in Bad : l <= m
    BY <2>1, <1>1, GreatestElement
  <2>3. m \in 1 .. end /\ ~Prefix(m)
    BY <2>2
  <2>4. Prefix(end)
    <3>1. 1 <= end
      BY <1>1, <2>3
    <3>2. Len(f[end]) \in Nat
      BY <1>1, <1>4, <3>1
    <3> QED
      BY <3>2
  <2>5. m < end /\ m + 1 \in 1 .. end /\ ~(m + 1 <= m)
    BY <2>3, <2>4, <1>1
  <2>6. Prefix(m + 1)
    BY <2>2, <2>5
  <2>7. Len(f[m]) + 1 <= Len(f[m + 1]) /\ Extends(f[m + 1], f[m])
    BY <1>5, <2>3, <2>5
  <2>8. Len(f[m]) \in Nat /\ Len(f[m + 1]) \in Nat /\ Len(t) \in Nat
    <3>1. end \in 1 .. end
      BY <1>1, <2>3
    <3> QED
      BY <1>4, <2>3, <2>5, <3>1
  <2> HIDE DEF t
  <2>9. \A i \in 1 .. Len(f[m]) : i \in 1 .. Len(f[m + 1]) /\ f[m + 1][i] = f[m][i]
    BY <2>7, <2>8 DEF Extends
  <2>10. Prefix(m)
    BY <2>6, <2>7, <2>8, <2>9
  <2> QED
    BY <2>3, <2>10
<1>7. ASSUME NEW k \in 1 .. end PROVE StillThere(t, c, f, k)
  <2> DEFINE own == OpText(c[k])
             at == At(f, k)
             stop == Len(f[k])
  <2>1. stop \in Nat /\ at \in Nat \ {0} /\ Len(own) \in Nat
    BY <1>4
  <2>2. WritesOp(f[k], own, at) /\ Prefix(k)
    BY <1>3, <1>6
  <2>3. stop = at - 1 + Len(own) /\ \A j \in 1 .. Len(own) : f[k][at + j - 1] = own[j]
    BY <2>2 DEF WritesOp
  <2>4. stop <= Len(t) /\ \A i \in 1 .. stop : t[i] = f[k][i]
    BY <2>2
  <2>5. k < end => stop < Len(t) /\ t[stop + 1] = Comma
    <3> SUFFICES ASSUME k < end PROVE stop < Len(t) /\ t[stop + 1] = Comma
      OBVIOUS
    <3>1. stop + 1 <= Len(f[k + 1]) /\ Extends(f[k + 1], f[k])
      BY <1>5
    <3>2. k + 1 \in 1 .. end /\ end \in 1 .. end
      BY <1>1
    <3>3. Prefix(k + 1) /\ Len(f[k + 1]) \in Nat /\ Len(t) \in Nat
      BY <1>4, <1>6, <3>2
    <3>4. f[k + 1][stop + 1] = Comma
      BY <3>1 DEF Extends
    <3>5. stop + 1 \in 1 .. Len(f[k + 1])
      BY <2>1, <3>1, <3>3
    <3> HIDE DEF t, stop
    <3> QED
      BY <2>1, <3>1, <3>3, <3>4, <3>5
  <2> HIDE DEF t, own, at
  <2>6. \A j \in 1 .. Len(own) : t[at + j - 1] = own[j]
    <3> TAKE j \in 1 .. Len(own)
    <3>1. at + j - 1 \in 1 .. stop
      BY <2>1, <2>3
    <3> QED
      BY <2>3, <2>4, <3>1
  <2> QED
    BY <2>1, <2>3, <2>4, <2>5, <2>6 DEF StillThere, own, at
<1> QED
  BY <1>2, <1>7

(* parse_op_chain reads every chain's canonical text back: by descent from *)
(* the last op that it would not read.                                     *)
LEMMA ReadsBack ==
    ASSUME NEW c \in Seq(Op)
    PROVE  parse_op_chain(canonical_string(c)) = Parsed(c)
<1> DEFINE end == Len(c)
           f == CHOOSE g : g = [n \in 0 .. end |-> Write(c, g, n)]
           t == f[end]
<1>1. end \in Nat
  OBVIOUS
<1>2. f = [n \in 0 .. end |-> Write(c, f, n)]
  BY <1>1, WriteExists
<1>3. canonical_string(c) = t
  BY Zenon DEF canonical_string, Write
<1> HIDE DEF f
<1>4. \A n \in 0 .. end : f[n] = Write(c, f, n)
  BY <1>2
<1>5. f[0] = <<>>
  <2>1. f[0] = Write(c, f, 0)
    BY <1>1, <1>4
  <2> QED
    BY <2>1 DEF Write
<1>6. /\ \A n \in 0 .. end : f[n] \in Seq(Written)
      /\ \A k \in 1 .. end : StillThere(t, c, f, k)
  <2>1. \A n \in 1 .. Len(c) : f[n] = Write(c, f, n)
    BY <1>1, <1>4
  <2> QED
    BY <1>5, <2>1, Layout
<1>7. t \in Seq(Written) /\ Len(t) \in Nat
  BY <1>1, <1>6
<1>8. CASE end = 0
  <2>1. t = <<>> /\ c = <<>>
    BY <1>5, <1>8, EmptySeq
  <2>2. trim(<<>>) = <<>>
    BY DEF trim
  <2> QED
    BY <1>3, <2>1, <2>2 DEF parse_op_chain
<1>9. CASE end # 0
  <2>1. 1 \in 1 .. end /\ end \in 1 .. end
    BY <1>1, <1>9
  <2> HIDE DEF t
  <2>2. \A k \in 1 .. end : Len(OpText(c[k])) \in {1, 3} /\ OpText(c[k]) \in Seq(Written) /\ OpText(c[k]) # <<>>
    BY OpTextShape, EmptySeq DEF Solid
  <2>3. At(f, 1) = 1 /\ Len(f[end]) = Len(t)
    BY DEF At, t
  <2>4. t # <<>> /\ Len(t) \in Nat \ {0}
    <3>1. StillThere(t, c, f, 1) /\ Len(OpText(c[1])) \in {1, 3}
      BY <1>6, <2>1, <2>2
    <3> DEFINE stop == Len(f[1])
               l == Len(OpText(c[1]))
    <3>2. stop \in Nat /\ stop <= Len(t) /\ stop = 1 - 1 + l /\ l \in {1, 3}
      BY <2>3, <3>1, Zenon DEF StillThere
    <3> HIDE DEF stop, l
    <3>3. 1 <= Len(t)
      BY <1>7, <3>2
    <3> QED
      BY <1>7, <3>3, EmptySeq
  <2>5. trim(t) = t
    <3>1. \A i \in 1 .. Len(t) : t[i] # Space
      BY <1>7, NothingBlank
    <3>2. 1 \in 1 .. Len(t) /\ Len(t) \in 1 .. Len(t)
      BY <2>4
    <3> QED
      BY <1>7, <2>4, <3>1, <3>2, TrimTight
  <2> DEFINE Loop == CHOOSE g : g = [p \in 1 .. Len(t) + 1 |-> parse_token(t, p, g)]
  <2>6. parse_body(t) = Loop[1]
    BY DEF parse_body
  <2>7. Loop = [p \in 1 .. Len(t) + 1 |-> parse_token(t, p, Loop)]
    BY <1>7, LoopExists
  <2> HIDE DEF Loop
  <2>8. \A p \in 1 .. Len(t) + 1 : Loop[p] = parse_token(t, p, Loop)
    BY <2>7
  <2> DEFINE Bad == {k \in 1 .. end : Loop[At(f, k)] # Parsed(SubSeq(c, k, end))}
  <2>9. Bad = {}
    <3> SUFFICES ASSUME Bad # {} PROVE FALSE
      OBVIOUS
    <3>1. Bad \subseteq 0 .. end
      BY <1>1
    <3>2. PICK k \in Bad : \A l \in Bad : l <= k
      BY <3>1, <1>1, GreatestElement
    <3>3. k \in 1 .. end /\ Loop[At(f, k)] # Parsed(SubSeq(c, k, end))
      BY <3>2
    <3> DEFINE own == OpText(c[k])
               at == At(f, k)
               stop == Len(f[k])
               comma == find(t, Comma, at)
               last == IF comma = npos THEN Len(t) ELSE comma - 1
    <3>4. StillThere(t, c, f, k)
      BY <1>6, <3>3
    <3>5. /\ at \in Nat \ {0} /\ stop \in Nat /\ stop <= Len(t) /\ stop = at - 1 + Len(own)
          /\ \A j \in 1 .. Len(own) : t[at + j - 1] = own[j]
          /\ k < end => stop < Len(t) /\ t[stop + 1] = Comma
      BY <3>4 DEF StillThere
    <3>6. /\ Len(own) \in {1, 3} /\ own \in Seq(Written) /\ \A j \in 1 .. Len(own) : own[j] # Comma
          /\ trim(own) = own /\ parse_op(own) = Parsed(<<c[k]>>) /\ own # <<>>
      BY <2>2, <3>3, OpTextShape, OpReadsBack DEF Solid
    <3>7. k = end => stop = Len(t)
      BY <2>3
    <3> HIDE DEF own, at, stop
    <3>8. at \in 1 .. Len(t)
      BY <1>7, <3>5, <3>6
    <3>9. \A i \in at .. stop : t[i] # Comma
      <4> TAKE i \in at .. stop
      <4> DEFINE j == i - at + 1
      <4>1. j \in 1 .. Len(own) /\ i = at + j - 1
        BY <3>5, <3>6
      <4> HIDE DEF j
      <4> QED
        BY <3>5, <3>6, <4>1
    <3>10. SubSeq(t, at, stop) = own
      <4>1. \A i \in at .. stop : t[i] \in Written
        BY <1>7, <3>5
      <4> DEFINE piece == SubSeq(t, at, stop)
      <4>2. /\ piece \in Seq(Written) /\ Len(piece) = Len(own)
            /\ \A j \in 1 .. stop - at + 1 : piece[j] = t[at + j - 1]
        <5>1. at \in Int /\ stop \in Int /\ at <= stop /\ stop - at + 1 = Len(own)
          BY <3>5, <3>6
        <5> QED
          BY <4>1, <5>1, SubSeqProperties
      <4> HIDE DEF piece
      <4>3. \A j \in 1 .. Len(own) : piece[j] = own[j]
        BY <3>5, <3>6, <4>2
      <4>4. piece = own
        BY <3>6, <4>2, <4>3, SeqEqual
      <4> QED
        BY <4>4 DEF piece
    <3>11. comma = IF k = end THEN npos ELSE stop + 1
      <4>1. CASE k = end
        BY <3>7, <3>9, <4>1, FindNothing
      <4>2. CASE k # end
        <5>1. k < end
          BY <1>1, <3>3, <4>2
        <5>2. stop + 1 \in at .. Len(t) /\ t[stop + 1] = Comma /\ stop + 1 - 1 = stop
          BY <1>7, <3>5, <3>6, <5>1
        <5>3. find(t, Comma, at) = stop + 1
          BY <1>7, <3>5, <3>9, <5>2, FindFirst
        <5> QED
          BY <4>2, <5>3
      <4> QED
        BY <4>1, <4>2
    <3>12. last = stop
      <4>1. stop \in Nat /\ stop + 1 # npos /\ stop + 1 - 1 = stop
        BY <3>5 DEF npos
      <4> HIDE DEF comma
      <4>2. CASE k = end
        BY <3>7, <3>11, <4>2
      <4>3. CASE k # end
        <5>1. comma = stop + 1
          BY <3>11, <4>3
        <5> QED
          BY <4>1, <5>1
      <4> QED
        BY <4>2, <4>3
    <3>13. more_tokens(t, at)
      BY <1>7, <3>8 DEF more_tokens
    <3>14. Loop[at] = IF comma = npos THEN Parsed(<<c[k]>>)
                      ELSE IF Loop[comma + 1].ok THEN Parsed(<<c[k]>> \o Loop[comma + 1].ops)
                      ELSE nullopt
      <4>1. at \in 1 .. Len(t) + 1
        BY <1>7, <3>8
      <4>2. Loop[at] = parse_token(t, at, Loop)
        BY <2>8, <4>1
      <4>3. trim(SubSeq(t, at, last)) = own
        BY <3>6, <3>10, <3>12
      <4>4. Parsed(<<c[k]>>).ok /\ Parsed(<<c[k]>>).ops = <<c[k]>>
        BY DEF Parsed
      <4> QED
        BY <3>6, <3>13, <4>2, <4>3, <4>4, Zenon DEF parse_token
    <3>15. CASE k = end
      <4>1. SubSeq(c, k, end) = <<c[k]>>
        <5>1. SubSeq(c, k, end) = <<c[k]>> \o SubSeq(c, k + 1, end)
          BY <3>3, <3>15, SubSeqRecursiveFirst
        <5>2. SubSeq(c, k + 1, end) = <<>>
          BY <1>1, <3>15, SubSeqEmpty
        <5>3. <<c[k]>> \o <<>> = <<c[k]>>
          BY <3>3, ConcatEmptySeq
        <5> QED
          BY <5>1, <5>2, <5>3
      <4> HIDE DEF comma
      <4>2. Loop[at] = Parsed(<<c[k]>>)
        BY <3>11, <3>14, <3>15
      <4> QED
        BY <3>3, <4>1, <4>2 DEF at
    <3>16. CASE k # end
      <4>1. k + 1 \in 1 .. end /\ ~(k + 1 <= k) /\ k \in 1 .. end /\ k + 1 - 1 = k /\ k + 1 # 1
        BY <1>1, <3>3, <3>16
      <4>2. Loop[At(f, k + 1)] = Parsed(SubSeq(c, k + 1, end))
        BY <3>2, <4>1
      <4>3. At(f, k + 1) = Len(f[k]) + 2
        BY <4>1 DEF At
      <4>4. stop + 1 + 1 = stop + 2 /\ stop + 1 # npos
        BY <3>5 DEF npos
      <4>5. comma + 1 = At(f, k + 1) /\ comma # npos
        BY <3>11, <3>16, <4>3, <4>4 DEF stop
      <4> HIDE DEF comma
      <4>6. Loop[comma + 1].ok /\ Loop[comma + 1].ops = SubSeq(c, k + 1, end)
        BY <4>2, <4>5 DEF Parsed
      <4>7. SubSeq(c, k, end) = <<c[k]>> \o SubSeq(c, k + 1, end)
        BY <2>1, <3>3, SubSeqRecursiveFirst
      <4>8. Loop[at] = Parsed(SubSeq(c, k, end))
        BY <3>14, <4>5, <4>6, <4>7
      <4> QED
        BY <3>3, <4>8 DEF at
    <3> QED
      BY <3>15, <3>16
  <2>10. Loop[1] = Parsed(c)
    <3>1. Loop[At(f, 1)] = Parsed(SubSeq(c, 1, end))
      BY <2>1, <2>9
    <3>2. SubSeq(c, 1, end) = c
      BY SubSeqFull
    <3> QED
      BY <2>3, <3>1, <3>2
  <2> QED
    BY <1>3, <2>4, <2>5, <2>6, <2>10, Zenon DEF parse_op_chain
<1> QED
  BY <1>8, <1>9

----------------------------------------------------------------------------
(* The grammar                                                             *)

(* The positions of a piece of a text that are not blank *)
Marks(t, a, b) == {i \in a .. b : t[i] # Space}

(* The least and the greatest of some positions *)
LEMMA FirstAndFinal ==
    ASSUME NEW n \in Nat, NEW K, K \subseteq 0 .. n, K # {}
    PROVE  /\ First(K) \in K /\ \A i \in K : First(K) <= i
           /\ Final(K) \in K /\ \A i \in K : i <= Final(K)
<1>1. K \subseteq Nat /\ \A i \in K : i \in Nat
  OBVIOUS
<1>2. \E i \in K : \A j \in K : i <= j
  BY <1>1, LeastElement
<1>3. First(K) \in K /\ \A j \in K : First(K) <= j
  BY <1>2 DEF First
<1>4. \E i \in K : \A j \in K : j <= i
  BY GreatestElement
<1>5. \A i, j \in K : j <= i <=> i >= j
  BY <1>1
<1>6. \E i \in K : \A j \in K : i >= j
  BY <1>4, <1>5
<1>7. Final(K) \in K /\ \A j \in K : Final(K) >= j
  BY <1>6 DEF Final
<1> QED
  BY <1>3, <1>5, <1>7

(* ... are determined by what they say. *)
LEMMA FirstIs ==
    ASSUME NEW K, K \subseteq Int, NEW x \in K, \A i \in K : x <= i
    PROVE  First(K) = x
<1>1. \A i \in K : (\A j \in K : i <= j) => i = x
  OBVIOUS
<1> QED
  BY <1>1 DEF First

(* The same of the greatest *)
LEMMA FinalIs ==
    ASSUME NEW K, K \subseteq Int, NEW x \in K, \A i \in K : i <= x
    PROVE  Final(K) = x
<1>1. \A i \in K : (\A j \in K : i >= j) => i = x
  OBVIOUS
<1>2. \A i \in K : x >= i
  OBVIOUS
<1> QED
  BY <1>1, <1>2 DEF Final

(* What a piece of a text is made of *)
LEMMA PieceFacts ==
    ASSUME NEW S, NEW t \in Seq(S), NEW a \in 1 .. Len(t) + 1, NEW b \in 0 .. Len(t)
    PROVE  /\ SubSeq(t, a, b) \in Seq(S)
           /\ Len(SubSeq(t, a, b)) = IF a <= b THEN b - a + 1 ELSE 0
           /\ \A i \in 1 .. b - a + 1 : SubSeq(t, a, b)[i] = t[a + i - 1]
<1>1. \A i \in a .. b : t[i] \in S
  OBVIOUS
<1>2. a \in Int /\ b \in Int
  OBVIOUS
<1> QED
  BY <1>1, <1>2, SubSeqProperties

(* A piece of a piece is a piece. *)
LEMMA PieceOfPiece ==
    ASSUME NEW S, NEW t \in Seq(S), NEW a \in 1 .. Len(t) + 1, NEW b \in 0 .. Len(t), a <= b + 1,
           NEW m \in 1 .. b - a + 2, NEW n \in 0 .. b - a + 1
    PROVE  SubSeq(SubSeq(t, a, b), m, n) = SubSeq(t, a + m - 1, a + n - 1)
<1> DEFINE s == SubSeq(t, a, b)
           u == SubSeq(s, m, n)
           c == a + m - 1
           d == a + n - 1
           v == SubSeq(t, c, d)
<1>1. Len(t) \in Nat
  OBVIOUS
<1>2. s \in Seq(S) /\ Len(s) = b - a + 1 /\ \A i \in 1 .. b - a + 1 : s[i] = t[a + i - 1]
  BY <1>1, PieceFacts
<1> HIDE DEF s
<1>3. m \in 1 .. Len(s) + 1 /\ n \in 0 .. Len(s)
  BY <1>1, <1>2
<1>4. u \in Seq(S) /\ Len(u) = (IF m <= n THEN n - m + 1 ELSE 0) /\ \A i \in 1 .. n - m + 1 : u[i] = s[m + i - 1]
  BY <1>2, <1>3, PieceFacts
<1>5. c \in 1 .. Len(t) + 1 /\ d \in 0 .. Len(t) /\ d - c + 1 = n - m + 1 /\ (c <= d <=> m <= n)
  BY <1>1
<1>6. v \in Seq(S) /\ Len(v) = (IF c <= d THEN d - c + 1 ELSE 0) /\ \A i \in 1 .. d - c + 1 : v[i] = t[c + i - 1]
  <2> HIDE DEF c, d
  <2> QED
    BY <1>5, PieceFacts
<1> HIDE DEF u, v
<1>7. Len(u) = Len(v)
  BY <1>4, <1>5, <1>6
<1>8. ASSUME NEW i \in 1 .. Len(u) PROVE u[i] = v[i]
  <2>1. i \in 1 .. n - m + 1 /\ i \in 1 .. d - c + 1
    BY <1>1, <1>4, <1>5
  <2>2. m + i - 1 \in 1 .. b - a + 1 /\ a + (m + i - 1) - 1 = c + i - 1
    BY <1>1, <2>1
  <2>3. s[m + i - 1] = t[a + (m + i - 1) - 1]
    BY <1>2, <2>2
  <2>4. u[i] = s[m + i - 1]
    BY <1>4, <2>1
  <2>5. v[i] = t[c + i - 1]
    BY <1>6, <2>1
  <2> QED
    BY <2>2, <2>3, <2>4, <2>5
<1>9. u = v
  BY <1>4, <1>6, <1>7, <1>8, SeqEqual
<1> QED
  BY <1>9 DEF u, v, s

(* A trimmed piece reaches from its first to its last mark. *)
LEMMA TrimPiece ==
    ASSUME NEW S, NEW t \in Seq(S), NEW a \in 1 .. Len(t) + 1, NEW b \in 0 .. Len(t)
    PROVE  LET K == Marks(t, a, b)
           IN  trim(SubSeq(t, a, b)) = IF K = {} THEN <<>> ELSE SubSeq(t, First(K), Final(K))
<1> DEFINE K == Marks(t, a, b)
           s == SubSeq(t, a, b)
           kept == {i \in 1 .. Len(s) : s[i] # Space}
<1>1. Len(t) \in Nat /\ a \in Nat /\ b \in Nat
  OBVIOUS
<1>2. /\ s \in Seq(S) /\ Len(s) = (IF a <= b THEN b - a + 1 ELSE 0)
      /\ \A i \in 1 .. b - a + 1 : s[i] = t[a + i - 1]
  BY PieceFacts
<1>3. trim(s) = IF kept = {} THEN <<>> ELSE SubSeq(s, First(kept), Final(kept))
  BY Zenon DEF trim
<1> HIDE DEF s
<1>4. \A i \in kept : i \in 1 .. b - a + 1 /\ a + i - 1 \in K
  <2> TAKE i \in kept
  <2>1. i \in 1 .. Len(s) /\ s[i] # Space
    OBVIOUS
  <2>2. i \in 1 .. b - a + 1 /\ a + i - 1 \in a .. b
    BY <1>1, <1>2, <2>1
  <2>3. t[a + i - 1] # Space
    BY <1>2, <2>1, <2>2
  <2> QED
    BY <2>2, <2>3 DEF Marks
<1>5. \A p \in K : p \in a .. b /\ p - a + 1 \in kept
  <2> TAKE p \in K
  <2>1. p \in a .. b /\ t[p] # Space
    BY DEF Marks
  <2> DEFINE i == p - a + 1
  <2>2. i \in 1 .. Len(s) /\ i \in 1 .. b - a + 1 /\ a + i - 1 = p
    BY <1>1, <1>2, <2>1
  <2> HIDE DEF i
  <2>3. s[i] = t[p]
    BY <1>2, <2>2
  <2>4. i \in kept
    BY <2>1, <2>2, <2>3
  <2> QED
    BY <2>1, <2>4 DEF i
<1> HIDE DEF kept, K
<1>6. CASE K = {}
  <2>1. kept = {}
    BY <1>4, <1>6
  <2> QED
    BY <1>3, <1>6, <2>1 DEF s, K
<1>7. CASE K # {}
  <2> DEFINE x == First(K)
             y == Final(K)
  <2>1. K \subseteq 0 .. Len(t) /\ K \subseteq Int
    BY <1>1, <1>5
  <2>2. x \in K /\ y \in K /\ \A i \in K : x <= i /\ i <= y
    BY <1>1, <1>7, <2>1, FirstAndFinal
  <2> HIDE DEF x, y
  <2>3. x \in a .. b /\ y \in a .. b /\ x <= y /\ a <= b
    BY <1>1, <1>5, <2>2
  <2>4. x - a + 1 \in kept /\ y - a + 1 \in kept /\ kept \subseteq Int
    BY <1>4, <1>5, <2>2
  <2>5. \A i \in kept : x - a + 1 <= i /\ i <= y - a + 1
    <3> TAKE i \in kept
    <3>1. a + i - 1 \in K /\ i \in Int
      BY <1>1, <1>4
    <3>2. x <= a + i - 1 /\ a + i - 1 <= y
      BY <2>2, <3>1
    <3> QED
      BY <1>1, <2>3, <3>1, <3>2
  <2>6. First(kept) = x - a + 1 /\ Final(kept) = y - a + 1
    BY <2>4, <2>5, FirstIs, FinalIs
  <2>7. trim(s) = SubSeq(s, x - a + 1, y - a + 1)
    BY <1>3, <2>4, <2>6
  <2> DEFINE m == x - a + 1
             n == y - a + 1
  <2>8. a <= b + 1 /\ m \in 1 .. b - a + 2 /\ n \in 0 .. b - a + 1 /\ a + m - 1 = x /\ a + n - 1 = y
    BY <1>1, <2>3
  <2> HIDE DEF m, n
  <2>9. SubSeq(SubSeq(t, a, b), m, n) = SubSeq(t, a + m - 1, a + n - 1)
    BY <2>8, PieceOfPiece
  <2> QED
    BY <1>7, <2>7, <2>8, <2>9 DEF s, K, x, y, m, n
<1> QED
  BY <1>6, <1>7 DEF K

(* A trimmed piece is one lexeme exactly if the piece has one mark. *)
Singles(t, K, field) ==
    /\ \A i : K = {i} => field = <<t[i]>>
    /\ Len(field) = 1 => \E i : K = {i}

(* As trim leaves the first to the last mark *)
LEMMA OneMark ==
    ASSUME NEW S, NEW t \in Seq(S), NEW a \in 1 .. Len(t) + 1, NEW b \in 0 .. Len(t)
    PROVE  Singles(t, Marks(t, a, b), trim(SubSeq(t, a, b)))
<1> DEFINE K == Marks(t, a, b)
           field == trim(SubSeq(t, a, b))
<1>1. Len(t) \in Nat /\ a \in Nat /\ b \in Nat
  OBVIOUS
<1>2. field = IF K = {} THEN <<>> ELSE SubSeq(t, First(K), Final(K))
  BY TrimPiece
<1>3. \A i \in K : i \in a .. b /\ i \in 1 .. Len(t) /\ t[i] # Space
  BY <1>1 DEF Marks
<1> HIDE DEF K, field
<1>4. ASSUME NEW i, K = {i} PROVE field = <<t[i]>>
  <2>1. i \in 1 .. Len(t) /\ i \in Int /\ t[i] # Space /\ K # {}
    BY <1>3, <1>4
  <2>2. First(K) = i /\ Final(K) = i
    <3>1. K \subseteq Int /\ i \in K /\ \A j \in K : i <= j /\ j <= i
      BY <1>4, <2>1
    <3> QED
      BY <3>1, FirstIs, FinalIs
  <2>3. SubSeq(t, i, i) = <<t[i]>>
    <3>1. SubSeq(t, i, i) = <<t[i]>> \o SubSeq(t, i + 1, i)
      <4>1. i \in i .. Len(t)
        BY <1>1, <2>1
      <4> QED
        BY <2>1, <4>1, SubSeqRecursiveFirst
    <3>2. SubSeq(t, i + 1, i) = <<>>
      BY <2>1, SubSeqEmpty
    <3>3. <<t[i]>> \in Seq(S)
      BY <2>1
    <3> QED
      BY <3>1, <3>2, <3>3, ConcatEmptySeq
  <2> QED
    BY <1>2, <2>1, <2>2, <2>3
<1>5. ASSUME Len(field) = 1 PROVE \E i : K = {i}
  <2>1. K # {}
    BY <1>2, <1>5, EmptySeq
  <2> DEFINE x == First(K)
             y == Final(K)
  <2>2. K \subseteq 0 .. Len(t)
    BY <1>1, <1>3
  <2>3. x \in K /\ y \in K /\ \A i \in K : x <= i /\ i <= y
    BY <1>1, <2>1, <2>2, FirstAndFinal
  <2> HIDE DEF x, y
  <2>4. x \in 1 .. Len(t) + 1 /\ y \in 0 .. Len(t) /\ x <= y /\ x \in a .. b
    BY <1>1, <1>3, <2>3
  <2>5. Len(SubSeq(t, x, y)) = y - x + 1
    BY <2>4, PieceFacts
  <2>6. Len(SubSeq(t, x, y)) = 1
    BY <1>2, <1>5, <2>1 DEF x, y
  <2>7. x = y
    BY <1>1, <2>4, <2>5, <2>6
  <2>8. \A i \in K : i = x
    BY <1>1, <1>3, <2>3, <2>4, <2>7
  <2>9. K = {x}
    BY <2>3, <2>8
  <2> QED
    BY <2>9
<1> QED
  BY <1>4, <1>5 DEF K, field, Singles

(* find, in a piece of a text *)
LEMMA FindInPiece ==
    ASSUME NEW S, NEW t \in Seq(S), NEW a \in 1 .. Len(t) + 1, NEW b \in 0 .. Len(t), a <= b + 1,
           NEW mark, NEW position \in 1 .. b - a + 2
    PROVE  LET s == SubSeq(t, a, b)
           IN  /\ (\A i \in a + position - 1 .. b : t[i] # mark) => find(s, mark, position) = npos
               /\ \A c \in a + position - 1 .. b :
                     t[c] = mark /\ (\A i \in a + position - 1 .. c - 1 : t[i] # mark)
                        => find(s, mark, position) = c - a + 1
<1> DEFINE s == SubSeq(t, a, b)
           from == a + position - 1
<1>1. Len(t) \in Nat /\ a \in Nat /\ b \in Nat /\ position \in Nat /\ from \in Nat
  OBVIOUS
<1>2. s \in Seq(S) /\ Len(s) = b - a + 1 /\ \A i \in 1 .. b - a + 1 : s[i] = t[a + i - 1]
  <2>1. /\ s \in Seq(S) /\ Len(s) = (IF a <= b THEN b - a + 1 ELSE 0)
        /\ \A i \in 1 .. b - a + 1 : s[i] = t[a + i - 1]
    BY PieceFacts
  <2> HIDE DEF s
  <2> QED
    BY <1>1, <2>1
<1> HIDE DEF s
<1>3. \A i \in position .. Len(s) : a + i - 1 \in from .. b /\ s[i] = t[a + i - 1]
  <2> TAKE i \in position .. Len(s)
  <2>1. a + i - 1 \in from .. b /\ i \in 1 .. b - a + 1
    BY <1>1, <1>2
  <2> QED
    BY <1>2, <2>1
<1>4. ASSUME \A i \in from .. b : t[i] # mark PROVE find(s, mark, position) = npos
  BY <1>3, <1>4, FindNothing
<1>5. ASSUME NEW c \in from .. b, t[c] = mark, \A i \in from .. c - 1 : t[i] # mark
      PROVE  find(s, mark, position) = c - a + 1
  <2> DEFINE p == c - a + 1
  <2>1. p \in position .. Len(s) /\ a + p - 1 = c /\ Len(s) \in Nat
    BY <1>1, <1>2
  <2> HIDE DEF p
  <2>2. s[p] = mark
    BY <1>3, <1>5, <2>1
  <2>3. ASSUME NEW i \in position .. p - 1 PROVE s[i] # mark
    <3>1. i \in position .. Len(s) /\ a + i - 1 \in from .. c - 1
      BY <1>1, <2>1
    <3> QED
      BY <1>3, <1>5, <3>1
  <2>4. find(s, mark, position) = p
    BY <1>1, <2>1, <2>2, <2>3, FindFirst
  <2> QED
    BY <2>4 DEF p
<1> QED
  BY <1>4, <1>5 DEF s

(* The fields of a token: what parse_op sees of a piece of the text whose  *)
(* ends are marks.                                                         *)
PlainToken(t, x, y) ==
    /\ \A i \in x .. y : t[i] # Colon
    /\ parse_op(SubSeq(t, x, y)) =
          LET name == trim(SubSeq(t, x, y))
              kind == name[1].word
          IN  IF ~find_spec(name) THEN nullopt
              ELSE Parsed(<<[kind |-> kind, param |-> kOpSpecs[kind].default]>>)

ColonToken(t, x, y, c) ==
    /\ c \in x .. y /\ t[c] = Colon /\ \A i \in x .. c - 1 : t[i] # Colon
    /\ parse_op(SubSeq(t, x, y)) =
          LET name == trim(SubSeq(t, x, c - 1))
              kind == name[1].word
              parameter == trim(SubSeq(t, c + 1, y))
              value == quantize_param(parameter[1].value)
          IN  IF ~find_spec(name) THEN nullopt
              ELSE IF takes_param(kind) /\ parse_float(parameter) /\ in_range(kind, value)
              THEN Parsed(<<[kind |-> kind, param |-> value]>>)
              ELSE nullopt

(* One of the two, whatever the token *)
LEMMA TokenFields ==
    ASSUME NEW t \in Seq(Lexeme), NEW x \in 1 .. Len(t), NEW y \in x .. Len(t)
    PROVE  PlainToken(t, x, y) \/ \E c \in x .. y : ColonToken(t, x, y, c)
<1> DEFINE token == SubSeq(t, x, y)
           colon == find(token, Colon, 1)
           last == IF colon = npos THEN Len(token) ELSE colon - 1
           name == trim(SubSeq(token, 1, last))
           kind == name[1].word
           parameter == trim(SubSeq(token, colon + 1, Len(token)))
           value == quantize_param(parameter[1].value)
           C == {i \in x .. y : t[i] = Colon}
<1>1. Len(t) \in Nat /\ x \in Nat /\ y \in Nat
  OBVIOUS
<1>2. /\ x \in 1 .. Len(t) + 1 /\ y \in 0 .. Len(t) /\ x <= y + 1 /\ x <= y
      /\ 1 \in 1 .. y - x + 2 /\ x + 1 - 1 = x
  BY <1>1
<1>3. token \in Seq(Lexeme) /\ Len(token) = y - x + 1
  BY <1>2, PieceFacts
<1>4. /\ (\A i \in x .. y : t[i] # Colon) => colon = npos
      /\ \A c \in x .. y : t[c] = Colon /\ (\A i \in x .. c - 1 : t[i] # Colon) => colon = c - x + 1
  <2> DEFINE from == x + 1 - 1
  <2>1. /\ (\A i \in from .. y : t[i] # Colon) => colon = npos
        /\ \A c \in from .. y : t[c] = Colon /\ (\A i \in from .. c - 1 : t[i] # Colon) => colon = c - x + 1
    BY <1>2, FindInPiece
  <2>2. from = x
    BY <1>2
  <2> HIDE DEF from, colon
  <2> QED
    BY <2>1, <2>2
<1>5. parse_op(token) =
        IF ~find_spec(name) THEN nullopt
        ELSE IF colon = npos THEN Parsed(<<[kind |-> kind, param |-> kOpSpecs[kind].default]>>)
        ELSE IF takes_param(kind) /\ parse_float(parameter) /\ in_range(kind, value)
        THEN Parsed(<<[kind |-> kind, param |-> value]>>)
        ELSE nullopt
  BY Zenon DEF parse_op
<1>6. CASE C = {}
  <2>1. \A i \in x .. y : t[i] # Colon
    BY <1>6
  <2>2. colon = npos
    BY <1>4, <2>1
  <2> HIDE DEF colon
  <2>3. SubSeq(token, 1, last) = token
    BY <1>3, <2>2, SubSeqFull
  <2>4. name = trim(SubSeq(t, x, y))
    BY <2>3
  <2> HIDE DEF name
  <2> QED
    BY <1>5, <2>1, <2>2, <2>4, Zenon DEF PlainToken
<1>7. CASE C # {}
  <2>1. C \subseteq Nat
    BY <1>1
  <2>2. PICK c \in C : \A i \in C : c <= i
    BY <1>7, <2>1, LeastElement
  <2>3. c \in x .. y /\ t[c] = Colon
    BY <2>2
  <2>4. \A i \in x .. c - 1 : t[i] # Colon
    <3> SUFFICES ASSUME NEW i \in x .. c - 1, t[i] = Colon PROVE FALSE
      OBVIOUS
    <3>1. i \in x .. y /\ ~(c <= i)
      BY <1>1, <2>3
    <3> QED
      BY <2>2, <3>1
  <2>5. colon = c - x + 1
    BY <1>4, <2>3, <2>4
  <2> HIDE DEF C, colon
  <2>6. colon # npos /\ last = c - x /\ colon + 1 = c - x + 2
    BY <1>1, <2>3, <2>5 DEF npos
  <2>7. SubSeq(token, 1, c - x) = SubSeq(t, x, c - 1)
    <3> DEFINE n == c - x
    <3>1. n \in 0 .. y - x + 1 /\ x + n - 1 = c - 1 /\ 1 \in 1 .. y - x + 2 /\ x + 1 - 1 = x
      BY <1>1, <1>2, <2>3
    <3> HIDE DEF n
    <3>2. SubSeq(SubSeq(t, x, y), 1, n) = SubSeq(t, x + 1 - 1, x + n - 1)
      BY <1>2, <3>1, PieceOfPiece
    <3> QED
      BY <3>1, <3>2 DEF n
  <2>8. SubSeq(token, c - x + 2, y - x + 1) = SubSeq(t, c + 1, y)
    <3> DEFINE m == c - x + 2
               n == y - x + 1
    <3>1. m \in 1 .. y - x + 2 /\ n \in 0 .. y - x + 1 /\ x + m - 1 = c + 1 /\ x + n - 1 = y
      BY <1>1, <2>3
    <3> HIDE DEF m, n
    <3>2. SubSeq(SubSeq(t, x, y), m, n) = SubSeq(t, x + m - 1, x + n - 1)
      BY <1>2, <3>1, PieceOfPiece
    <3> QED
      BY <3>1, <3>2 DEF m, n
  <2>9. name = trim(SubSeq(t, x, c - 1)) /\ parameter = trim(SubSeq(t, c + 1, y))
    BY <1>3, <2>6, <2>7, <2>8
  <2> HIDE DEF name, parameter
  <2>10. ColonToken(t, x, y, c)
    BY <1>5, <2>3, <2>4, <2>6, <2>9, Zenon DEF ColonToken
  <2> QED
    BY <2>3, <2>10
<1> QED
  BY <1>6, <1>7

(* The range of a kind is a range of whole numbers. *)
LEMMA SpecRange ==
    ASSUME NEW kind \in OpKinds, NEW v \in Int
    PROVE  in_range(kind, v) <=> v \in kOpSpecs[kind].min .. kOpSpecs[kind].max
<1>1. kOpSpecs[kind].min \in Int /\ kOpSpecs[kind].max \in Int
  <2>1. CASE kind = "grayscale"
    BY <2>1 DEF kOpSpecs
  <2>2. CASE kind = "invert"
    BY <2>2 DEF kOpSpecs
  <2>3. CASE kind = "brightness"
    BY <2>3 DEF kOpSpecs
  <2>4. CASE kind = "threshold"
    BY <2>4 DEF kOpSpecs
  <2>5. CASE kind = "gaussian"
    BY <2>5 DEF kOpSpecs
  <2>6. CASE kind = "sobel"
    BY <2>6 DEF kOpSpecs
  <2> QED
    BY <2>1, <2>2, <2>3, <2>4, <2>5, <2>6 DEF OpKinds
<1> QED
  BY <1>1 DEF in_range

(* A name or a number alone is what find_spec and parse_float take. *)
LEMMA LoneLexeme ==
    ASSUME NEW e \in Lexeme
    PROVE  /\ find_spec(<<e>>) => e # Colon /\ e.word \in OpKinds
           /\ parse_float(<<e>>) => e # Colon /\ e.value \in Int
<1>1. Len(<<e>>) = 1 /\ (<<e>>)[1] = e
  OBVIOUS
<1>2. Colon.class = "colon"
  BY DEF Colon, Mark
<1>3. e.value \in Int
  BY DEF Lexeme
<1> QED
  BY <1>1, <1>2, <1>3, KindsOfTable DEF find_spec, parse_float

(* What a token without a colon is *)
LEMMA PlainSegment ==
    ASSUME NEW seg \in Seq(Lexeme), NEW x \in 1 .. Len(seg), NEW y \in x .. Len(seg),
           Significant(seg) = Marks(seg, x, y), x = First(Significant(seg)), PlainToken(seg, x, y)
    PROVE  /\ IsOp(seg) => parse_op(SubSeq(seg, x, y)) = Parsed(<<OpOf(seg)>>)
           /\ ~IsOp(seg) => parse_op(SubSeq(seg, x, y)) = nullopt
<1> DEFINE Sig == Significant(seg)
           name == trim(SubSeq(seg, x, y))
           kind == name[1].word
<1>1. Len(seg) \in Nat /\ x \in 1 .. Len(seg) + 1 /\ y \in 0 .. Len(seg)
  OBVIOUS
<1>2. /\ \A i \in x .. y : seg[i] # Colon
      /\ parse_op(SubSeq(seg, x, y)) =
            IF ~find_spec(name) THEN nullopt
            ELSE Parsed(<<[kind |-> kind, param |-> kOpSpecs[kind].default]>>)
  BY Zenon DEF PlainToken
<1>3. \A i \in Sig : i \in x .. y
  BY DEF Marks
<1>4. ~IsOpWithParam(seg)
  <2> SUFFICES ASSUME IsOpWithParam(seg) PROVE FALSE
    OBVIOUS
  <2>1. PICK j \in Sig : seg[j] = Colon
    BY Zenon DEF IsOpWithParam
  <2> QED
    BY <1>2, <1>3, <2>1
<1>5. Singles(seg, Sig, name)
  <2>1. Singles(seg, Marks(seg, x, y), name)
    BY <1>1, OneMark
  <2> QED
    BY <2>1
<1> USE DEF Singles
<1>6. ASSUME IsPlainOp(seg) PROVE parse_op(SubSeq(seg, x, y)) = Parsed(<<OpOf(seg)>>)
  <2>1. PICK i \in Sig : Sig = {i} /\ find_spec(<<seg[i]>>)
    BY <1>6, Zenon DEF IsPlainOp
  <2>2. x = i
    <3>1. i \in Int
      BY <1>1, <1>3
    <3>2. First(Sig) = i
      <4> HIDE DEF Sig
      <4>1. Sig \subseteq Int /\ \A j \in Sig : i <= j
        BY <2>1, <3>1
      <4> QED
        BY <4>1, FirstIs
    <3> QED
      BY <3>2
  <2>3. name = <<seg[i]>>
    BY <1>5, <2>1
  <2> HIDE DEF name
  <2>4. kind = seg[i].word /\ find_spec(name)
    BY <2>1, <2>3
  <2>5. OpOf(seg) = [kind |-> seg[i].word, param |-> kOpSpecs[seg[i].word].default]
    BY <1>6, <2>2, Zenon DEF OpOf
  <2> HIDE DEF kind
  <2> QED
    BY <1>2, <2>4, <2>5
<1>7. ASSUME ~IsPlainOp(seg) PROVE parse_op(SubSeq(seg, x, y)) = nullopt
  <2> SUFFICES ASSUME find_spec(name) PROVE FALSE
    BY <1>2
  <2>1. Len(name) = 1
    BY DEF find_spec
  <2>2. PICK i : Sig = {i}
    BY <1>5, <2>1
  <2>3. name = <<seg[i]>> /\ i \in Sig
    BY <1>5, <2>2
  <2> HIDE DEF name
  <2>4. find_spec(<<seg[i]>>)
    BY <2>3
  <2>5. IsPlainOp(seg)
    BY <2>2, <2>3, <2>4, Zenon DEF IsPlainOp
  <2> QED
    BY <1>7, <2>5
<1> QED
  BY <1>4, <1>6, <1>7 DEF IsOp

(* ... and one with *)
LEMMA ColonSegment ==
    ASSUME NEW seg \in Seq(Lexeme), NEW x \in 1 .. Len(seg), NEW y \in x .. Len(seg), NEW c,
           Significant(seg) = Marks(seg, x, y), x = First(Significant(seg)), y = Final(Significant(seg)),
           ColonToken(seg, x, y, c)
    PROVE  /\ IsOp(seg) => parse_op(SubSeq(seg, x, y)) = Parsed(<<OpOf(seg)>>)
           /\ ~IsOp(seg) => parse_op(SubSeq(seg, x, y)) = nullopt
<1> DEFINE Sig == Significant(seg)
           K == Marks(seg, x, c - 1)
           M == Marks(seg, c + 1, y)
           name == trim(SubSeq(seg, x, c - 1))
           kind == name[1].word
           parameter == trim(SubSeq(seg, c + 1, y))
           value == quantize_param(parameter[1].value)
<1>1. /\ c \in x .. y /\ seg[c] = Colon /\ \A i \in x .. c - 1 : seg[i] # Colon
      /\ parse_op(SubSeq(seg, x, y)) =
          IF ~find_spec(name) THEN nullopt
              ELSE IF takes_param(kind) /\ parse_float(parameter) /\ in_range(kind, value)
              THEN Parsed(<<[kind |-> kind, param |-> value]>>)
              ELSE nullopt
  BY Zenon DEF ColonToken
<1>2. /\ Len(seg) \in Nat /\ x \in 1 .. Len(seg) + 1 /\ y \in 0 .. Len(seg)
      /\ c - 1 \in 0 .. Len(seg) /\ c + 1 \in 1 .. Len(seg) + 1 /\ c \in Nat
  BY <1>1
<1>3. \A i \in Sig : i \in x .. y /\ i \in Nat /\ seg[i] \in Lexeme
  BY DEF Marks
<1>4. c \in Sig /\ Colon # Space
  BY <1>1, NothingBlank DEF Marks
<1>5. /\ \A i : i \in K <=> i \in Sig /\ i < c
      /\ \A i : i \in M <=> i \in Sig /\ c < i
  <2>1. \A i : i \in Sig <=> i \in x .. y /\ seg[i] # Space
    BY DEF Marks
  <2> HIDE DEF Sig
  <2>2. \A i : i \in K <=> i \in x .. c - 1 /\ seg[i] # Space
    BY DEF Marks
  <2>3. \A i : i \in M <=> i \in c + 1 .. y /\ seg[i] # Space
    BY DEF Marks
  <2> HIDE DEF K, M
  <2>4. x \in Int /\ y \in Int /\ c \in Int /\ x <= c /\ c <= y
    BY <1>1, <1>2
  <2>5. \A i : (i \in x .. c - 1 <=> i \in x .. y /\ i < c) /\ (i \in c + 1 .. y <=> i \in x .. y /\ c < i)
    BY <2>4
  <2> QED
    BY <2>1, <2>2, <2>3, <2>5
<1>6. ~IsPlainOp(seg)
  <2> SUFFICES ASSUME IsPlainOp(seg) PROVE FALSE
    OBVIOUS
  <2>1. PICK i \in Sig : Sig = {i} /\ find_spec(<<seg[i]>>)
    BY Zenon DEF IsPlainOp
  <2>2. i = c
    BY <1>4, <2>1
  <2> QED
    BY <1>1, <1>3, <2>1, <2>2, LoneLexeme
<1>7. Singles(seg, K, name)
  BY <1>2, OneMark
<1>8. Singles(seg, M, parameter)
  BY <1>2, OneMark
<1>0. x = First(Sig) /\ y = Final(Sig) /\ Sig = Significant(seg)
  OBVIOUS
<1> HIDE DEF K, M, name, parameter, Sig
<1> USE DEF Singles
<1>9. ASSUME IsOpWithParam(seg) PROVE parse_op(SubSeq(seg, x, y)) = Parsed(<<OpOf(seg)>>)
  <2>1. PICK i, j, k \in Sig :
            /\ i < j /\ j < k /\ Sig = {i, j, k}
            /\ find_spec(<<seg[i]>>) /\ seg[j] = Colon /\ parse_float(<<seg[k]>>)
            /\ takes_param(seg[i].word)
            /\ quantize_param(seg[k].value) \in kOpSpecs[seg[i].word].min .. kOpSpecs[seg[i].word].max
    BY <1>9, Zenon DEF IsOpWithParam, Sig
  <2>2. seg[i] # Colon /\ seg[k] # Colon /\ seg[i].word \in OpKinds /\ seg[k].value \in Int
    BY <1>3, <2>1, LoneLexeme
  <2>3. c = j
    BY <1>1, <1>4, <2>1, <2>2
  <2>4. K = {i} /\ M = {k}
    BY <1>3, <1>5, <2>1, <2>3
  <2>5. name = <<seg[i]>> /\ parameter = <<seg[k]>>
    BY <1>7, <1>8, <2>4
  <2>6. x = i /\ y = k
    <3>1. Sig \subseteq Int /\ \A l \in Sig : i <= l /\ l <= k
      BY <1>3, <2>1
    <3>2. First(Sig) = i /\ Final(Sig) = k
      BY <3>1, FirstIs, FinalIs
    <3> QED
      BY <3>2, <1>0
  <2>7. kind = seg[i].word /\ value = quantize_param(seg[k].value) /\ find_spec(name) /\ parse_float(parameter)
    BY <2>1, <2>5
  <2>8. in_range(seg[i].word, quantize_param(seg[k].value))
    BY <2>1, <2>2, QuantizeType, SpecRange
  <2>9. OpOf(seg) = [kind |-> seg[i].word, param |-> quantize_param(seg[k].value)]
    BY <1>0, <1>6, <2>6, Zenon DEF OpOf, Sig
  <2> HIDE DEF kind, value
  <2> QED
    BY <1>1, <2>1, <2>7, <2>8, <2>9
<1>10. ASSUME ~IsOpWithParam(seg) PROVE parse_op(SubSeq(seg, x, y)) = nullopt
  <2> SUFFICES ASSUME find_spec(name), takes_param(kind), parse_float(parameter), in_range(kind, value) PROVE FALSE
    BY <1>1
  <2>1. Len(name) = 1 /\ Len(parameter) = 1
    BY DEF find_spec, parse_float
  <2>2. PICK i : K = {i}
    BY <1>7, <2>1
  <2>3. PICK k : M = {k}
    BY <1>8, <2>1
  <2>4. name = <<seg[i]>> /\ parameter = <<seg[k]>>
    BY <1>7, <1>8, <2>2, <2>3
  <2>5. i \in Sig /\ k \in Sig /\ i < c /\ c < k
    BY <1>5, <2>2, <2>3
  <2>6. Sig = {i, c, k}
    <3>1. \A l \in Sig : l < c \/ l = c \/ c < l
      BY <1>2, <1>3
    <3>2. \A l \in Sig : l \in {i, c, k}
      BY <1>5, <2>2, <2>3, <3>1
    <3> QED
      BY <1>4, <2>5, <3>2
  <2>7. kind = seg[i].word /\ value = quantize_param(seg[k].value) /\ find_spec(<<seg[i]>>) /\ parse_float(<<seg[k]>>)
    BY <2>4
  <2>8. seg[i].word \in OpKinds /\ seg[k].value \in Int
    BY <1>3, <2>5, <2>7, LoneLexeme
  <2> HIDE DEF kind, value
  <2>9. quantize_param(seg[k].value) \in kOpSpecs[seg[i].word].min .. kOpSpecs[seg[i].word].max
    BY <2>7, <2>8, QuantizeType, SpecRange
  <2>10. takes_param(seg[i].word)
    BY <2>7
  <2>11. IsOpWithParam(seg)
    BY <1>1, <1>4, <2>5, <2>6, <2>7, <2>9, <2>10, Zenon DEF IsOpWithParam, Sig
  <2> QED
    BY <1>10, <2>11
<1> QED
  BY <1>6, <1>9, <1>10 DEF IsOp

(* parse_op makes of a segment what the grammar says it is. *)
LEMMA SegmentParses ==
    ASSUME NEW seg \in Seq(Lexeme)
    PROVE  /\ IsOp(seg) => trim(seg) # <<>> /\ parse_op(trim(seg)) = Parsed(<<OpOf(seg)>>)
           /\ ~IsOp(seg) => trim(seg) = <<>> \/ parse_op(trim(seg)) = nullopt
<1> DEFINE Sig == Significant(seg)
<1>1. Len(seg) \in Nat /\ 1 \in 1 .. Len(seg) + 1 /\ Len(seg) \in 0 .. Len(seg) /\ SubSeq(seg, 1, Len(seg)) = seg
  BY SubSeqFull
<1>2. Sig = Marks(seg, 1, Len(seg))
  BY DEF Significant, Marks
<1>3. trim(seg) = IF Sig = {} THEN <<>> ELSE SubSeq(seg, First(Sig), Final(Sig))
  <2>1. trim(SubSeq(seg, 1, Len(seg))) = IF Sig = {} THEN <<>> ELSE SubSeq(seg, First(Sig), Final(Sig))
    BY <1>1, <1>2, TrimPiece
  <2> QED
    BY <1>1, <2>1
<1>4. CASE Sig = {}
  <2>1. ~IsOp(seg)
    BY <1>4 DEF IsOp, IsPlainOp, IsOpWithParam
  <2> QED
    BY <1>3, <1>4, <2>1
<1>5. CASE Sig # {}
  <2>1. Sig \subseteq 0 .. Len(seg) /\ \A i \in Sig : i \in 1 .. Len(seg)
    BY <1>1 DEF Significant
  <2> DEFINE x == First(Sig)
             y == Final(Sig)
  <2>2. x \in Sig /\ y \in Sig /\ \A i \in Sig : x <= i /\ i <= y
    BY <1>1, <1>5, <2>1, FirstAndFinal
  <2> HIDE DEF x, y
  <2>3. x \in 1 .. Len(seg) /\ y \in x .. Len(seg)
    BY <1>1, <2>1, <2>2
  <2>4. Sig = Marks(seg, x, y)
    BY <1>1, <2>1, <2>2, <2>3 DEF Significant, Marks
  <2>5. SubSeq(seg, x, y) # <<>>
    <3>1. Len(SubSeq(seg, x, y)) = y - x + 1 /\ y - x + 1 # 0
      <4>1. x \in 1 .. Len(seg) + 1 /\ y \in 0 .. Len(seg) /\ x <= y /\ y - x + 1 # 0
        BY <1>1, <2>3
      <4> QED
        BY <4>1, PieceFacts
    <3> QED
      BY <3>1, EmptySeq
  <2>6. /\ IsOp(seg) => parse_op(SubSeq(seg, x, y)) = Parsed(<<OpOf(seg)>>)
        /\ ~IsOp(seg) => parse_op(SubSeq(seg, x, y)) = nullopt
    <3>1. x = First(Significant(seg)) /\ y = Final(Significant(seg)) /\ Significant(seg) = Marks(seg, x, y)
      BY <2>4 DEF x, y
    <3>2. PlainToken(seg, x, y) \/ \E c \in x .. y : ColonToken(seg, x, y, c)
      BY <2>3, TokenFields
    <3>3. CASE PlainToken(seg, x, y)
      BY <2>3, <3>1, <3>3, PlainSegment
    <3>4. CASE \E c \in x .. y : ColonToken(seg, x, y, c)
      BY <2>3, <3>1, <3>4, ColonSegment
    <3> QED
      BY <3>2, <3>3, <3>4
  <2>7. trim(seg) = SubSeq(seg, x, y)
    BY <1>3, <1>5 DEF x, y
  <2> QED
    BY <2>5, <2>6, <2>7
<1> QED
  BY <1>4, <1>5

(* So what a segment spells is an op with its parameter in range. *)
LEMMA OpOfType ==
    ASSUME NEW seg \in Seq(Lexeme), IsOp(seg)
    PROVE  OpOf(seg) \in Op
<1>1. parse_op(trim(seg)) = Parsed(<<OpOf(seg)>>)
  BY SegmentParses
<1>2. parse_op(trim(seg)) = nullopt \/ \E op \in Op : parse_op(trim(seg)) = Parsed(<<op>>)
  BY TrimType, ParseOpType
<1>3. Parsed(<<OpOf(seg)>>).ok /\ ~nullopt.ok
  BY DEF Parsed, nullopt
<1>4. PICK op \in Op : Parsed(<<OpOf(seg)>>) = Parsed(<<op>>)
  BY <1>1, <1>2, <1>3
<1>5. <<OpOf(seg)>> = <<op>>
  BY <1>4 DEF Parsed
<1> QED
  BY <1>5

(* Where a segment ends and where it begins *)
LEMMA Cuts ==
    ASSUME NEW t \in Seq(Lexeme), NEW end \in Ends(t)
    PROVE  LET b == Before(t, end)
           IN  /\ end \in 1 .. Len(t) + 1 /\ (end # Len(t) + 1 => t[end] = Comma)
               /\ b \in 0 .. end - 1 /\ (b # 0 => b \in 1 .. Len(t) /\ t[b] = Comma)
               /\ \A i \in b + 1 .. end - 1 : i \notin Ends(t) /\ t[i] # Comma
               /\ Segment(t, end) = SubSeq(t, b + 1, end - 1) /\ Segment(t, end) \in Seq(Lexeme)
<1> DEFINE T == {0} \cup {e \in Ends(t) : e < end}
           b == Before(t, end)
<1>1. Len(t) \in Nat
  OBVIOUS
<1>2. \A e : e \in Ends(t) <=> (e \in 1 .. Len(t) /\ t[e] = Comma) \/ e = Len(t) + 1
  BY DEF Ends
<1>3. end \in 1 .. Len(t) + 1 /\ (end # Len(t) + 1 => t[end] = Comma)
  BY <1>1, <1>2
<1>4. T \subseteq 0 .. Len(t) + 1 /\ T # {} /\ Len(t) + 1 \in Nat
  BY <1>1, <1>2
<1>5. b \in T /\ \A e \in T : e <= b
  BY <1>4, FirstAndFinal DEF Before
<1> HIDE DEF b
<1>6. b = 0 \/ (b \in Ends(t) /\ b < end)
  BY <1>5
<1>7. b \in 0 .. end - 1 /\ (b # 0 => b \in 1 .. Len(t) /\ t[b] = Comma)
  BY <1>1, <1>2, <1>3, <1>6
<1>8. ASSUME NEW i \in b + 1 .. end - 1 PROVE i \notin Ends(t) /\ t[i] # Comma
  <2>1. i \in Nat /\ i < end /\ ~(i <= b) /\ i \in 1 .. Len(t)
    BY <1>1, <1>3, <1>7
  <2>2. i \notin T
    BY <1>5, <2>1
  <2>3. i \notin Ends(t)
    BY <2>1, <2>2
  <2> QED
    BY <1>2, <2>1, <2>3
<1>9. Segment(t, end) = SubSeq(t, b + 1, end - 1)
  BY DEF Segment, b
<1>10. Segment(t, end) \in Seq(Lexeme)
  <2>1. b + 1 \in 1 .. Len(t) + 1 /\ end - 1 \in 0 .. Len(t)
    BY <1>1, <1>3, <1>7
  <2> QED
    BY <1>9, <2>1, PieceType
<1> QED
  BY <1>3, <1>7, <1>8, <1>9, <1>10 DEF b

(* The position of the body, which starts at position a of the text, where *)
(* the turn for a segment starts                                           *)
TurnOf(t, a, end) == IF Before(t, end) = 0 THEN 1 ELSE Before(t, end) + 2 - a

(* One turn of the loop takes one segment. *)
LEMMA TurnTakesSegment ==
    ASSUME NEW t \in Seq(Lexeme), Significant(t) # {}, NEW end \in Ends(t), NEW rest
    PROVE  LET a == First(Significant(t))
               seg == Segment(t, end)
               next == end - a + 2
           IN  /\ TurnOf(t, a, end) \in 1 .. Len(trim(t)) + 1
               /\ parse_token(trim(t), TurnOf(t, a, end), rest) =
                     IF ~IsOp(seg) THEN nullopt
                     ELSE IF end = Len(t) + 1 THEN Parsed(<<OpOf(seg)>>)
                     ELSE IF rest[next].ok THEN Parsed(<<OpOf(seg)>> \o rest[next].ops)
                     ELSE nullopt
<1> DEFINE Sig == Significant(t)
           a == First(Sig)
           z == Final(Sig)
           b == Before(t, end)
           body == trim(t)
           p == TurnOf(t, a, end)
           from == a + p - 1
           seg == Segment(t, end)
           comma == find(body, Comma, p)
           stop == IF end = Len(t) + 1 THEN z - a + 1 ELSE end - a
           token == trim(SubSeq(body, p, IF comma = npos THEN Len(body) ELSE comma - 1))
<1>1. Len(t) \in Nat
  OBVIOUS
<1>2. Sig \subseteq 0 .. Len(t) /\ \A i : i \in Sig <=> i \in 1 .. Len(t) /\ t[i] # Space
  BY <1>1 DEF Significant
<1>3. a \in Sig /\ z \in Sig /\ \A i \in Sig : a <= i /\ i <= z
  BY <1>1, <1>2, FirstAndFinal
<1>4. body = SubSeq(t, a, z)
  <2>1. 1 \in 1 .. Len(t) + 1 /\ Len(t) \in 0 .. Len(t) /\ SubSeq(t, 1, Len(t)) = t /\ Marks(t, 1, Len(t)) = Sig
    BY <1>1, SubSeqFull DEF Marks, Significant
  <2>2. trim(SubSeq(t, 1, Len(t))) = IF Sig = {} THEN <<>> ELSE SubSeq(t, First(Sig), Final(Sig))
    BY <2>1, TrimPiece
  <2> QED
    BY <2>1, <2>2
<1> HIDE DEF a, z, Sig
<1>5. a \in 1 .. Len(t) /\ z \in a .. Len(t) /\ a \in 1 .. Len(t) + 1 /\ z \in 0 .. Len(t) /\ a <= z + 1 /\ a <= z
  BY <1>1, <1>2, <1>3
<1>6. body \in Seq(Lexeme) /\ Len(body) = z - a + 1
  BY <1>4, <1>5, PieceFacts
<1>7. /\ end \in 1 .. Len(t) + 1 /\ (end # Len(t) + 1 => t[end] = Comma)
      /\ b \in 0 .. end - 1 /\ (b # 0 => b \in 1 .. Len(t) /\ t[b] = Comma)
      /\ \A i \in b + 1 .. end - 1 : i \notin Ends(t) /\ t[i] # Comma
      /\ seg = SubSeq(t, b + 1, end - 1) /\ seg \in Seq(Lexeme)
  BY Cuts
<1>8. p = IF b = 0 THEN 1 ELSE b + 2 - a
  BY DEF TurnOf
<1> HIDE DEF b, body, p, seg
<1>9. Comma # Space
  BY NothingBlank
<1>10. (b # 0 => b \in Sig) /\ (end # Len(t) + 1 => end \in Sig)
  BY <1>1, <1>2, <1>7, <1>9
<1>11. /\ a \in Nat /\ z \in Nat /\ b \in Nat /\ end \in Nat /\ b < end
       /\ (b # 0 => a <= b /\ b <= z) /\ (end # Len(t) + 1 => a <= end /\ end <= z)
  BY <1>1, <1>3, <1>5, <1>7, <1>10
<1>12. p \in 1 .. z - a + 2 /\ p \in Nat /\ from = IF b = 0 THEN a ELSE b + 1
  BY <1>5, <1>8, <1>11
<1>13. \A i \in from .. end - 1 : i \in b + 1 .. end - 1
  BY <1>5, <1>11, <1>12
<1> HIDE DEF from
<1>14. from \in Nat /\ a <= from /\ from <= z + 1 /\ (end # Len(t) + 1 => from <= end)
  BY <1>5, <1>11, <1>12
<1>15. comma = IF end = Len(t) + 1 THEN npos ELSE end - a + 1
  <2>1. /\ (\A i \in from .. z : t[i] # Comma) => comma = npos
        /\ \A c \in from .. z : t[c] = Comma /\ (\A i \in from .. c - 1 : t[i] # Comma) => comma = c - a + 1
    BY <1>4, <1>5, <1>12, FindInPiece DEF from
  <2> HIDE DEF comma
  <2>2. CASE end = Len(t) + 1
    <3>1. \A i \in from .. z : i \in from .. end - 1
      BY <1>5, <1>11, <1>14, <2>2
    <3>2. \A i \in from .. z : t[i] # Comma
      BY <1>7, <1>13, <3>1
    <3> QED
      BY <2>1, <2>2, <3>2
  <2>3. CASE end # Len(t) + 1
    <3>1. end \in from .. z /\ t[end] = Comma
      BY <1>5, <1>7, <1>11, <1>14, <2>3
    <3>2. \A i \in from .. end - 1 : t[i] # Comma
      BY <1>7, <1>13
    <3> QED
      BY <2>1, <2>3, <3>1, <3>2
  <2> QED
    BY <2>2, <2>3
<1> HIDE DEF comma
<1>16. (IF comma = npos THEN Len(body) ELSE comma - 1) = stop
  <2>1. end - a + 1 - 1 = end - a /\ (end # Len(t) + 1 => end - a + 1 # npos)
    BY <1>11 DEF npos
  <2>2. CASE end = Len(t) + 1
    BY <1>6, <1>15, <2>2
  <2>3. CASE end # Len(t) + 1
    <3>1. comma = end - a + 1 /\ comma # npos
      BY <1>15, <2>1, <2>3
    <3>2. (IF comma = npos THEN Len(body) ELSE comma - 1) = comma - 1
      BY <3>1
    <3>3. comma - 1 = end - a
      BY <1>11, <3>1
    <3> QED
      BY <2>3, <3>2, <3>3
  <2> QED
    BY <2>2, <2>3
<1>17. stop \in 0 .. z - a + 1 /\ a + stop - 1 = IF end = Len(t) + 1 THEN z ELSE end - 1
  BY <1>5, <1>11
<1> DEFINE to == a + stop - 1
<1>18. to \in 0 .. Len(t) /\ to = IF end = Len(t) + 1 THEN z ELSE end - 1
  BY <1>1, <1>5, <1>11, <1>17
<1>19. SubSeq(body, p, stop) = SubSeq(t, from, to)
  <2>1. SubSeq(SubSeq(t, a, z), p, stop) = SubSeq(t, a + p - 1, a + stop - 1)
    <3> HIDE DEF stop
    <3> QED
      BY <1>5, <1>12, <1>17, PieceOfPiece
  <2> QED
    BY <1>4, <2>1 DEF from
<1> HIDE DEF stop, to
<1>20. Marks(t, from, to) = Marks(t, b + 1, end - 1)
  <2>1. \A i : i \in Marks(t, from, to) <=> i \in from .. to /\ t[i] # Space
    BY DEF Marks
  <2>2. \A i : i \in Marks(t, b + 1, end - 1) <=> i \in b + 1 .. end - 1 /\ t[i] # Space
    BY DEF Marks
  <2>3. ASSUME NEW i, i \in from .. to PROVE i \in b + 1 .. end - 1
    BY <1>1, <1>5, <1>11, <1>12, <1>14, <1>18, <2>3
  <2>4. ASSUME NEW i, i \in b + 1 .. end - 1, t[i] # Space PROVE i \in from .. to
    <3>1. i \in 1 .. Len(t)
      BY <1>1, <1>7, <1>11, <2>4
    <3>2. i \in Sig
      BY <1>2, <2>4, <3>1
    <3>3. a <= i /\ i <= z
      BY <1>3, <3>2
    <3> QED
      BY <1>5, <1>11, <1>12, <1>18, <2>4, <3>1, <3>3
  <2> QED
    BY <2>1, <2>2, <2>3, <2>4
<1>21. trim(SubSeq(t, from, to)) = trim(seg)
  <2> DEFINE K == Marks(t, from, to)
  <2>1. from \in 1 .. Len(t) + 1 /\ b + 1 \in 1 .. Len(t) + 1 /\ end - 1 \in 0 .. Len(t)
    BY <1>1, <1>5, <1>7, <1>11, <1>14
  <2>2. trim(SubSeq(t, from, to)) = IF K = {} THEN <<>> ELSE SubSeq(t, First(K), Final(K))
    BY <1>18, <2>1, TrimPiece
  <2>3. trim(SubSeq(t, b + 1, end - 1)) = IF K = {} THEN <<>> ELSE SubSeq(t, First(K), Final(K))
    BY <1>20, <2>1, TrimPiece
  <2> QED
    BY <1>7, <2>2, <2>3
<1>22. token = trim(seg)
  BY <1>16, <1>19, <1>21
<1> HIDE DEF token
<1>23. /\ IsOp(seg) => token # <<>> /\ parse_op(token) = Parsed(<<OpOf(seg)>>)
       /\ ~IsOp(seg) => token = <<>> \/ parse_op(token) = nullopt
  BY <1>7, <1>22, SegmentParses
<1>24. parse_token(body, p, rest) =
        IF ~more_tokens(body, p) THEN Parsed(<<>>)
        ELSE IF token = <<>> \/ ~parse_op(token).ok THEN nullopt
        ELSE IF comma = npos THEN parse_op(token)
        ELSE IF rest[comma + 1].ok THEN Parsed(parse_op(token).ops \o rest[comma + 1].ops)
        ELSE nullopt
  BY Zenon DEF parse_token, token, comma
<1>25. more_tokens(body, p)
  BY <1>5, <1>6, <1>12 DEF more_tokens
<1>26. /\ Parsed(<<OpOf(seg)>>).ok /\ Parsed(<<OpOf(seg)>>).ops = <<OpOf(seg)>>
       /\ ~nullopt.ok
  BY DEF Parsed, nullopt
<1>27. p \in 1 .. Len(body) + 1
  BY <1>5, <1>6, <1>12
<1>28. CASE ~IsOp(seg)
  <2>1. parse_token(body, p, rest) = nullopt
    BY <1>23, <1>24, <1>25, <1>26, <1>28
  <2> QED
    BY <1>27, <1>28, <2>1 DEF a, Sig, p, body, seg
<1>29. CASE IsOp(seg) /\ end = Len(t) + 1
  <2>1. comma = npos
    BY <1>15, <1>29
  <2>2. parse_token(body, p, rest) = Parsed(<<OpOf(seg)>>)
    BY <1>23, <1>24, <1>25, <1>26, <1>29, <2>1
  <2> QED
    BY <1>27, <1>29, <2>2 DEF a, Sig, p, body, seg
<1>30. CASE IsOp(seg) /\ end # Len(t) + 1
  <2>1. comma = end - a + 1
    BY <1>15, <1>30
  <2>2. comma # npos /\ comma + 1 = end - a + 2
    BY <1>11, <1>30, <2>1 DEF npos
  <2>3. parse_token(body, p, rest) =
          IF rest[comma + 1].ok THEN Parsed(<<OpOf(seg)>> \o rest[comma + 1].ops) ELSE nullopt
    BY <1>23, <1>24, <1>25, <1>26, <1>30, <2>2
  <2> QED
    BY <1>27, <1>30, <2>2, <2>3 DEF a, Sig, p, body, seg
<1> QED
  BY <1>28, <1>29, <1>30

(* Counting segments *)
LEMMA CountSegments ==
    ASSUME NEW t \in Seq(Lexeme), NEW from \in Ends(t), NEW to \in Ends(t), from <= to
    PROVE  /\ Cardinality(Between(t, from, to)) \in Nat \ {0}
           /\ IsFiniteSet(Between(t, from, to))
           /\ Cardinality(Between(t, from, to)) <= Cardinality(Between(t, from, Len(t) + 1))
<1> DEFINE B == Between(t, from, to)
           L == Between(t, from, Len(t) + 1)
<1>1. Len(t) \in Nat /\ 1 \in Int /\ Len(t) + 1 \in Int
  OBVIOUS
<1>2. \A e \in Ends(t) : e \in 1 .. Len(t) + 1
  BY <1>1 DEF Ends
<1>3. IsFiniteSet(1 .. Len(t) + 1)
  BY <1>1, FS_Interval
<1>4. L \in SUBSET (1 .. Len(t) + 1) /\ B \in SUBSET L /\ from \in B
  BY <1>1, <1>2 DEF Between
<1> HIDE DEF B, L
<1>5. IsFiniteSet(L)
  BY <1>3, <1>4, FS_Subset
<1>6. IsFiniteSet(B) /\ Cardinality(B) <= Cardinality(L)
  BY <1>4, <1>5, FS_Subset
<1>7. Cardinality(B) \in Nat /\ Cardinality(B) # 0
  BY <1>4, <1>6, FS_CardinalityType, FS_EmptySet
<1> QED
  BY <1>6, <1>7 DEF B, L

(* The segment after one that ends with a comma *)
Follows(t, end, next) ==
    /\ next \in Ends(t) /\ end < next /\ Before(t, next) = end
    /\ \A e \in Ends(t) : end < e <=> next <= e
    /\ \A e \in Ends(t) :
          next <= e => Cardinality(Between(t, end, e)) = Cardinality(Between(t, next, e)) + 1

(* There is one. *)
LEMMA NextSegment ==
    ASSUME NEW t \in Seq(Lexeme), NEW end \in Ends(t), end # Len(t) + 1
    PROVE  \E next \in Ends(t) : Follows(t, end, next)
<1> DEFINE Later == {e \in Ends(t) : end < e}
<1>1. Len(t) \in Nat
  OBVIOUS
<1>2. (\A e \in Ends(t) : e \in 1 .. Len(t) + 1 /\ e \in Int) /\ Len(t) + 1 \in Ends(t)
  BY <1>1 DEF Ends
<1>3. Later \subseteq 0 .. Len(t) + 1 /\ Len(t) + 1 \in Later
  BY <1>1, <1>2
<1>4. PICK next \in Later : \A e \in Later : next <= e
  <2>1. Later \subseteq Nat /\ Later # {}
    BY <1>1, <1>3
  <2> QED
    BY <2>1, LeastElement
<1>5. next \in Ends(t) /\ end < next /\ next \in Int /\ end \in Int
  BY <1>2, <1>4
<1>6. \A e \in Ends(t) : end < e <=> next <= e
  <2> TAKE e \in Ends(t)
  <2>1. end < e => next <= e
    BY <1>4
  <2> QED
    BY <1>2, <1>5, <2>1
<1>7. Before(t, next) = end
  <2> DEFINE T == {0} \cup {e \in Ends(t) : e < next}
  <2>1. T \subseteq Int /\ end \in T
    <3>1. end \in T
      BY <1>5
    <3>2. \A e \in Ends(t) : e \in Int
      BY <1>2
    <3>3. 0 \in Int
      OBVIOUS
    <3>4. T \subseteq Int
      BY <3>2, <3>3, Zenon
    <3> QED
      BY <3>1, <3>4
  <2>2. \A e \in T : e <= end
    <3> TAKE e \in T
    <3>1. CASE e = 0
      BY <1>1, <1>2, <3>1
    <3>2. CASE e # 0
      <4>1. e \in Ends(t) /\ e < next
        BY <3>2
      <4> QED
        BY <1>2, <1>5, <1>6, <4>1
    <3> QED
      BY <3>1, <3>2
  <2> HIDE DEF T
  <2>3. Final(T) = end
    BY <2>1, <2>2, FinalIs
  <2> QED
    BY <2>3 DEF Before, T
<1>8. ASSUME NEW e \in Ends(t), next <= e
      PROVE  Cardinality(Between(t, end, e)) = Cardinality(Between(t, next, e)) + 1
  <2>1. end \notin Between(t, next, e)
    BY <1>5 DEF Between
  <2>2. Between(t, end, e) = Between(t, next, e) \cup {end}
    <3>1. \A x \in Ends(t) : end <= x <=> x = end \/ next <= x
      BY <1>2, <1>5, <1>6
    <3>2. end <= e /\ end \in Ends(t)
      BY <1>2, <1>5, <1>8
    <3>3. \A x : x \in Between(t, end, e) <=> x \in Between(t, next, e) \/ x = end
      BY <1>2, <3>1, <3>2 DEF Between
    <3> QED
      BY <3>3
  <2>3. IsFiniteSet(Between(t, next, e))
    BY <1>5, <1>8, CountSegments
  <2> QED
    BY <2>1, <2>2, <2>3, FS_AddElement
<1>9. Follows(t, end, next)
  BY <1>5, <1>6, <1>7, <1>8 DEF Follows
<1> QED
  BY <1>5, <1>9

(* What the loop makes of the segments from one on *)
AllOps(t, end) == \A e \in Ends(t) : end <= e => IsOp(Segment(t, e))

Listed(t, end, c) ==
    /\ c \in Seq(Op)
    /\ Len(c) = Cardinality(Between(t, end, Len(t) + 1))
    /\ \A e \in Ends(t) : end <= e => c[Cardinality(Between(t, end, e))] = OpOf(Segment(t, e))

Told(t, end, R) ==
    /\ AllOps(t, end) => \E c : R = Parsed(c) /\ Listed(t, end, c)
    /\ ~AllOps(t, end) => R = nullopt

(* The last turn tells of its own segment, *)
LEMMA LastTold ==
    ASSUME NEW t \in Seq(Lexeme), NEW R,
           R = IF ~IsOp(Segment(t, Len(t) + 1)) THEN nullopt ELSE Parsed(<<OpOf(Segment(t, Len(t) + 1))>>)
    PROVE  Told(t, Len(t) + 1, R)
<1> DEFINE end == Len(t) + 1
           seg == Segment(t, end)
<1>1. Len(t) \in Nat /\ end \in Int
  OBVIOUS
<1>2. end \in Ends(t) /\ \A e \in Ends(t) : e \in 1 .. end /\ (end <= e <=> e = end)
  BY <1>1 DEF Ends
<1>3. AllOps(t, end) <=> IsOp(seg)
  BY <1>1, <1>2 DEF AllOps
<1>4. Between(t, end, end) = {end}
  BY <1>1, <1>2 DEF Between
<1>5. Cardinality(Between(t, end, end)) = 1
  BY <1>4, FS_Singleton
<1>6. seg \in Seq(Lexeme)
  BY <1>2, Cuts
<1> HIDE DEF end, seg
<1>7. ASSUME IsOp(seg) PROVE Listed(t, end, <<OpOf(seg)>>)
  <2> DEFINE c == <<OpOf(seg)>>
  <2>1. OpOf(seg) \in Op
    BY <1>6, <1>7, OpOfType
  <2>2. c \in Seq(Op) /\ Len(c) = 1 /\ c[1] = OpOf(seg)
    BY <2>1
  <2> HIDE DEF c
  <2>3. \A e \in Ends(t) : end <= e => c[Cardinality(Between(t, end, e))] = OpOf(Segment(t, e))
    BY <1>2, <1>5, <2>2 DEF seg
  <2>4. Listed(t, end, c)
    BY <1>5, <2>2, <2>3 DEF Listed, end
  <2> QED
    BY <2>4 DEF c
<1>8. R = IF ~IsOp(seg) THEN nullopt ELSE Parsed(<<OpOf(seg)>>)
  BY DEF seg, end
<1>9. Told(t, end, R)
  BY <1>3, <1>7, <1>8 DEF Told
<1> QED
  BY <1>9 DEF end

(* ... and an earlier one of its own and of what the later ones tell. *)
LEMMA EarlierTold ==
    ASSUME NEW t \in Seq(Lexeme), NEW end \in Ends(t), NEW next \in Ends(t), Follows(t, end, next),
           NEW Q, Told(t, next, Q), NEW R,
           R = IF ~IsOp(Segment(t, end)) THEN nullopt
               ELSE IF Q.ok THEN Parsed(<<OpOf(Segment(t, end))>> \o Q.ops) ELSE nullopt
    PROVE  Told(t, end, R)
<1> DEFINE seg == Segment(t, end)
           o == OpOf(seg)
           last == Len(t) + 1
           N(from, to) == Cardinality(Between(t, from, to))
<1>1. Len(t) \in Nat /\ last \in Ends(t) /\ \A e \in Ends(t) : e \in 1 .. last /\ e \in Int /\ e <= last
  BY DEF Ends
<1>2. /\ end < next
      /\ \A e \in Ends(t) : end < e <=> next <= e
      /\ \A e \in Ends(t) : next <= e => N(end, e) = N(next, e) + 1
  BY DEF Follows
<1>3. \A e \in Ends(t) : end <= e <=> e = end \/ next <= e
  BY <1>1, <1>2
<1>4. AllOps(t, end) <=> IsOp(seg) /\ AllOps(t, next)
  BY <1>1, <1>3 DEF AllOps
<1>5. seg \in Seq(Lexeme)
  BY Cuts
<1>6. N(end, end) = 1
  <2>1. Between(t, end, end) = {end}
    BY <1>1 DEF Between
  <2> QED
    BY <2>1, FS_Singleton
<1>7. \A e \in Ends(t) : next <= e => N(next, e) \in Nat \ {0} /\ N(next, e) <= N(next, last)
  BY CountSegments
<1>8. ~nullopt.ok /\ \A c : Parsed(c).ok /\ Parsed(c).ops = c
  BY DEF nullopt, Parsed
<1> HIDE DEF seg, N, last
<1>9. R = IF ~IsOp(seg) THEN nullopt ELSE IF Q.ok THEN Parsed(<<o>> \o Q.ops) ELSE nullopt
  BY DEF seg
<1> HIDE DEF o
<1>10. CASE ~AllOps(t, end)
  <2>1. ~IsOp(seg) \/ Q = nullopt
    BY <1>4, <1>10 DEF Told
  <2> QED
    BY <1>8, <1>9, <1>10, <2>1 DEF Told
<1>11. CASE AllOps(t, end)
  <2>1. PICK c : Q = Parsed(c) /\ Listed(t, next, c)
    BY <1>4, <1>11 DEF Told
  <2>2. /\ c \in Seq(Op) /\ Len(c) = N(next, last)
        /\ \A e \in Ends(t) : next <= e => c[N(next, e)] = OpOf(Segment(t, e))
    BY <2>1 DEF Listed, N, last
  <2> DEFINE d == <<o>> \o c
  <2>3. R = Parsed(d)
    BY <1>4, <1>8, <1>9, <1>11, <2>1
  <2>4. o \in Op
    BY <1>4, <1>5, <1>11, OpOfType DEF o
  <2>5. d \in Seq(Op) /\ Len(d) = Len(c) + 1 /\ d[1] = o /\ \A i \in 1 .. Len(c) : d[i + 1] = c[i]
    <3>1. <<o>> \in Seq(Op) /\ Len(<<o>>) = 1 /\ (<<o>>)[1] = o /\ Len(c) \in Nat
      BY <2>2, <2>4
    <3>2. /\ d \in Seq(Op) /\ Len(d) = 1 + Len(c)
          /\ \A i \in 1 .. 1 + Len(c) : d[i] = IF i <= 1 THEN (<<o>>)[i] ELSE c[i - 1]
      BY <2>2, <3>1, ConcatProperties
    <3> HIDE DEF d
    <3>3. d[1] = o
      BY <3>1, <3>2
    <3>4. ASSUME NEW i \in 1 .. Len(c) PROVE d[i + 1] = c[i]
      <4>1. i + 1 \in 1 .. 1 + Len(c) /\ ~(i + 1 <= 1) /\ i + 1 - 1 = i
        BY <3>1
      <4> QED
        BY <3>2, <4>1
    <3> QED
      BY <3>1, <3>2, <3>3, <3>4
  <2> HIDE DEF d
  <2>6. Len(d) = N(end, last)
    <3>1. next <= last
      BY <1>1
    <3> QED
      BY <1>1, <1>2, <2>2, <2>5, <3>1
  <2>7. ASSUME NEW e \in Ends(t), end <= e PROVE d[N(end, e)] = OpOf(Segment(t, e))
    <3>1. CASE e = end
      BY <1>6, <2>5, <3>1 DEF o, seg
    <3>2. CASE next <= e
      <4>1. N(next, e) \in 1 .. Len(c)
        <5>1. N(next, e) \in Nat \ {0} /\ N(next, e) <= Len(c) /\ Len(c) \in Nat
          BY <1>7, <2>2, <3>2
        <5> QED
          BY <5>1
      <4>2. d[N(next, e) + 1] = c[N(next, e)]
        BY <2>5, <4>1
      <4>3. N(end, e) = N(next, e) + 1
        BY <1>2, <3>2
      <4> QED
        BY <2>2, <3>2, <4>2, <4>3
    <3> QED
      BY <1>3, <2>7, <3>1, <3>2
  <2>8. Listed(t, end, d)
    BY <2>5, <2>6, <2>7 DEF Listed, N, last
  <2> QED
    BY <1>11, <2>3, <2>8 DEF Told
<1> QED
  BY <1>10, <1>11

(* parse_op_chain does what the grammar says, for every text: by descent   *)
(* from the last segment for which it would not.                           *)
LEMMA ParserFollowsGrammar ==
    ASSUME NEW t \in Seq(Lexeme)
    PROVE  LET parsed == parse_op_chain(t)
           IN  /\ parsed.ok => IsOpChain(t) /\ Spells(t, parsed.ops)
               /\ ~parsed.ok => ~IsOpChain(t)
<1> DEFINE Sig == Significant(t)
           body == trim(t)
           last == Len(t) + 1
           a == First(Sig)
           R(end) == TurnOf(t, a, end)
<1>1. Len(t) \in Nat /\ last \in Ends(t) /\ \A e \in Ends(t) : e \in 1 .. last /\ e \in Int /\ e <= last
  BY DEF Ends
<1>2. body = IF Sig = {} THEN <<>> ELSE SubSeq(t, First(Sig), Final(Sig))
  <2>1. 1 \in 1 .. Len(t) + 1 /\ Len(t) \in 0 .. Len(t) /\ SubSeq(t, 1, Len(t)) = t /\ Marks(t, 1, Len(t)) = Sig
    BY <1>1, SubSeqFull DEF Marks, Significant
  <2>2. trim(SubSeq(t, 1, Len(t))) = IF Sig = {} THEN <<>> ELSE SubSeq(t, First(Sig), Final(Sig))
    BY <2>1, TrimPiece
  <2> QED
    BY <2>1, <2>2
<1>3. ~nullopt.ok /\ \A c : Parsed(c).ok /\ Parsed(c).ops = c
  BY DEF nullopt, Parsed
<1>4. CASE Sig = {}
  <2>1. parse_op_chain(t) = Parsed(<<>>)
    BY <1>2, <1>4 DEF parse_op_chain
  <2> QED
    BY <1>3, <1>4, <2>1 DEF IsOpChain, Spells
<1>5. CASE Sig # {}
  <2>1. body # <<>> /\ body \in Seq(Lexeme)
    <3> DEFINE z == Final(Sig)
    <3>1. Sig \subseteq 0 .. Len(t) /\ \A i \in Sig : i \in 1 .. Len(t)
      BY <1>1 DEF Significant
    <3>2. a \in Sig /\ z \in Sig /\ a <= z
      BY <1>1, <1>5, <3>1, FirstAndFinal
    <3> HIDE DEF Sig, a, z
    <3>3. a \in 1 .. Len(t) + 1 /\ z \in 0 .. Len(t) /\ z - a + 1 # 0
      BY <1>1, <3>1, <3>2
    <3>4. Len(SubSeq(t, a, z)) = z - a + 1
      BY <3>2, <3>3, PieceFacts
    <3>5. SubSeq(t, a, z) # <<>>
      BY <3>3, <3>4, EmptySeq
    <3>6. body = SubSeq(t, a, z)
      BY <1>2, <1>5 DEF a, z
    <3> QED
      BY <3>5, <3>6, TrimType
  <2> DEFINE Loop == CHOOSE g : g = [p \in 1 .. Len(body) + 1 |-> parse_token(body, p, g)]
  <2>2. parse_body(body) = Loop[1]
    BY DEF parse_body
  <2> HIDE DEF body
  <2>3. Loop = [p \in 1 .. Len(body) + 1 |-> parse_token(body, p, Loop)]
    BY <2>1, LoopExists
  <2> HIDE DEF Loop
  <2>4. \A p \in 1 .. Len(body) + 1 : Loop[p] = parse_token(body, p, Loop)
    BY <2>3
  <2>5. ASSUME NEW end \in Ends(t)
        PROVE  Loop[R(end)] =
                  IF ~IsOp(Segment(t, end)) THEN nullopt
                  ELSE IF end = last THEN Parsed(<<OpOf(Segment(t, end))>>)
                  ELSE IF Loop[end - a + 2].ok THEN Parsed(<<OpOf(Segment(t, end))>> \o Loop[end - a + 2].ops)
                  ELSE nullopt
    <3>1. /\ R(end) \in 1 .. Len(body) + 1
          /\ parse_token(body, R(end), Loop) =
                  IF ~IsOp(Segment(t, end)) THEN nullopt
                  ELSE IF end = last THEN Parsed(<<OpOf(Segment(t, end))>>)
                  ELSE IF Loop[end - a + 2].ok THEN Parsed(<<OpOf(Segment(t, end))>> \o Loop[end - a + 2].ops)
                  ELSE nullopt
      BY <1>5, TurnTakesSegment, Zenon DEF body
    <3>2. Loop[R(end)] = parse_token(body, R(end), Loop)
      BY <2>4, <3>1
    <3> QED
      BY <3>1, <3>2, Zenon
  <2> DEFINE Bad == {end \in Ends(t) : ~Told(t, end, Loop[R(end)])}
  <2>6. Bad = {}
    <3> SUFFICES ASSUME Bad # {} PROVE FALSE
      OBVIOUS
    <3>1. Bad \subseteq 0 .. last /\ last \in Nat
      BY <1>1
    <3>2. PICK end \in Bad : \A e \in Bad : e <= end
      BY <3>1, GreatestElement
    <3>3. end \in Ends(t) /\ ~Told(t, end, Loop[R(end)])
      BY <3>2
    <3>4. CASE end = last
      <4>1. Loop[R(end)] = IF ~IsOp(Segment(t, last)) THEN nullopt ELSE Parsed(<<OpOf(Segment(t, last))>>)
        BY <2>5, <3>3, <3>4
      <4>2. Told(t, last, Loop[R(end)])
        BY <4>1, LastTold
      <4> QED
        BY <3>3, <3>4, <4>2
    <3>5. CASE end # last
      <4>1. PICK next \in Ends(t) : Follows(t, end, next)
        BY <3>3, <3>5, NextSegment
      <4>2. end < next /\ Before(t, next) = end /\ end # 0 /\ end \in Int /\ next \in Int
        BY <1>1, <3>3, <4>1 DEF Follows
      <4>3. next \notin Bad
        BY <3>2, <4>2
      <4>4. Told(t, next, Loop[R(next)])
        BY <4>3
      <4>5. R(next) = end + 2 - a
        BY <4>2 DEF TurnOf
      <4>6. end + 2 - a = end - a + 2
        <5>1. a \in Int
          <6>1. Sig \subseteq 0 .. Len(t)
            BY <1>1 DEF Significant
          <6>2. a \in Sig
            BY <1>1, <1>5, <6>1, FirstAndFinal
          <6> QED
            BY <1>1, <6>1, <6>2
        <5> HIDE DEF a
        <5> QED
          BY <4>2, <5>1
      <4> HIDE DEF R, a
      <4>7. Loop[end - a + 2] = Loop[R(next)]
        BY <4>5, <4>6
      <4>8. Loop[R(end)] = IF ~IsOp(Segment(t, end)) THEN nullopt
                           ELSE IF Loop[R(next)].ok
                           THEN Parsed(<<OpOf(Segment(t, end))>> \o Loop[R(next)].ops) ELSE nullopt
        BY <2>5, <3>3, <3>5, <4>7
      <4>9. Told(t, end, Loop[R(end)])
        BY <3>3, <4>1, <4>4, <4>8, EarlierTold
      <4> QED
        BY <3>3, <4>9
    <3> QED
      BY <3>4, <3>5
  <2>7. PICK e1 \in Ends(t) : \A e \in Ends(t) : e1 <= e
    <3>1. Ends(t) \subseteq Nat /\ Ends(t) # {}
      BY <1>1
    <3> QED
      BY <3>1, LeastElement
  <2>8. Before(t, e1) = 0
    <3>1. {e \in Ends(t) : e < e1} = {}
      BY <1>1, <2>7
    <3>2. {0} \subseteq Int /\ 0 \in {0} /\ \A i \in {0} : i <= 0
      OBVIOUS
    <3>3. Final({0}) = 0
      BY <3>2, FinalIs
    <3>4. {0} \cup {e \in Ends(t) : e < e1} = {0}
      BY <3>1
    <3> QED
      BY <3>3, <3>4 DEF Before
  <2>9. R(e1) = 1
    BY <2>8 DEF TurnOf
  <2>10. Told(t, e1, Loop[1])
    BY <2>6, <2>7, <2>9
  <2>11. parse_op_chain(t) = Loop[1]
    BY <2>1, <2>2, Zenon DEF parse_op_chain, body
  <2>12. AllOps(t, e1) <=> IsOpChain(t)
    BY <1>5, <2>7 DEF AllOps, IsOpChain
  <2>13. CASE ~AllOps(t, e1)
    <3>1. Loop[1] = nullopt
      BY <2>10, <2>13 DEF Told
    <3> QED
      BY <1>3, <2>11, <2>12, <2>13, <3>1
  <2>14. CASE AllOps(t, e1)
    <3>1. PICK c : Loop[1] = Parsed(c) /\ Listed(t, e1, c)
      BY <2>10, <2>14 DEF Told
    <3>2. \A e \in Ends(t) : Between(t, e1, e) = Between(t, 1, e)
      BY <1>1, <2>7 DEF Between
    <3>3. Between(t, 1, last) = Ends(t)
      BY <1>1 DEF Between
    <3>4. Len(c) = Cardinality(Ends(t))
      <4>1. Between(t, e1, last) = Ends(t)
        BY <1>1, <3>2, <3>3
      <4> QED
        BY <3>1, <4>1 DEF Listed
    <3>5. \A e \in Ends(t) : c[Cardinality(Between(t, 1, e))] = OpOf(Segment(t, e))
      <4> TAKE e \in Ends(t)
      <4>1. c[Cardinality(Between(t, e1, e))] = OpOf(Segment(t, e))
        BY <2>7, <3>1 DEF Listed
      <4> QED
        BY <3>2, <4>1
    <3>6. Spells(t, c)
      BY <1>5, <3>4, <3>5 DEF Spells
    <3> QED
      BY <1>3, <2>11, <2>12, <2>14, <3>1, <3>6
  <2> QED
    BY <2>13, <2>14
<1> QED
  BY <1>4, <1>5

----------------------------------------------------------------------------
(* plan_stages                                                             *)

(* A run of positions is a sequence. *)
LEMMA RunType ==
    ASSUME NEW lo \in Nat, NEW hi \in Int, lo <= hi + 1
    PROVE  /\ Run(lo, hi) \in Seq(Nat)
           /\ Len(Run(lo, hi)) = hi - lo + 1
           /\ \A j \in 1 .. hi - lo + 1 : Run(lo, hi)[j] = lo + j - 1
<1>1. hi - lo + 1 \in Nat
  OBVIOUS
<1>2. \A j \in 1 .. hi - lo + 1 : lo + j - 1 \in Nat
  OBVIOUS
<1>3. Run(lo, hi) \in [1 .. hi - lo + 1 -> Nat]
  BY <1>1, <1>2 DEF Run
<1>4. Run(lo, hi) \in Seq(Nat) /\ Len(Run(lo, hi)) = hi - lo + 1
  <2> DEFINE n == hi - lo + 1
             r == Run(lo, hi)
  <2>1. n \in Nat /\ r \in [1 .. n -> Nat]
    BY <1>1, <1>3
  <2> HIDE DEF n, r
  <2>2. r \in Seq(Nat)
    BY <2>1
  <2>3. DOMAIN r = 1 .. n
    BY <2>1
  <2>4. Len(r) = n
    BY <2>1, <2>2, <2>3
  <2> QED
    BY <2>2, <2>4 DEF n, r
<1> QED
  BY <1>4 DEF Run

(* A run may be empty. *)
LEMMA EmptyRun == ASSUME NEW lo \in Nat PROVE Run(lo, lo - 1) = <<>>
<1>1. Run(lo, lo - 1) \in Seq(Nat) /\ Len(Run(lo, lo - 1)) = lo - 1 - lo + 1
  BY RunType
<1>2. Len(Run(lo, lo - 1)) = 0
  BY <1>1
<1> QED
  BY <1>1, <1>2, EmptySeq

(* A run grows at its end. *)
LEMMA AppendRun ==
    ASSUME NEW lo \in Nat, NEW hi \in Nat, lo <= hi + 1
    PROVE  Append(Run(lo, hi), hi + 1) = Run(lo, hi + 1)
<1> DEFINE r == Run(lo, hi)
           s == Run(lo, hi + 1)
           t == Append(r, hi + 1)
           n == hi - lo + 1
<1>1. /\ r \in Seq(Nat) /\ Len(r) = n /\ n \in Nat
      /\ \A j \in 1 .. n : r[j] = lo + j - 1
  BY RunType
<1>2. /\ s \in Seq(Nat) /\ Len(s) = n + 1
      /\ \A j \in 1 .. n + 1 : s[j] = lo + j - 1
  <2>1. /\ s \in Seq(Nat) /\ Len(s) = hi + 1 - lo + 1
        /\ \A j \in 1 .. hi + 1 - lo + 1 : s[j] = lo + j - 1
    BY RunType
  <2>2. hi + 1 - lo + 1 = n + 1
    OBVIOUS
  <2> QED
    BY <2>1, <2>2
<1> HIDE DEF r, s
<1>3. t \in Seq(Nat) /\ Len(t) = n + 1 /\ t[n + 1] = hi + 1 /\ \A j \in 1 .. n : t[j] = r[j]
  BY <1>1, AppendProperties
<1> HIDE DEF t
<1>4. \A j \in 1 .. n + 1 : t[j] = s[j]
  <2> TAKE j \in 1 .. n + 1
  <2>1. CASE j = n + 1
    BY <2>1, <1>1, <1>2, <1>3
  <2>2. CASE j \in 1 .. n
    BY <2>2, <1>1, <1>2, <1>3
  <2> QED
    BY <2>1, <2>2, <1>1
<1>5. t = s
  BY <1>2, <1>3, <1>4, SeqEqual
<1> QED
  BY <1>5 DEF t, r, s

(* back() of the stages is replaced, the others stay. *)
LEMMA ReplaceLast ==
    ASSUME NEW S, NEW s \in Seq(S), s # <<>>, NEW y \in S
    PROVE  LET t == Append(Front(s), y)
           IN  /\ t \in Seq(S) /\ Len(t) = Len(s) /\ t[Len(s)] = y
               /\ \A k \in 1 .. Len(s) - 1 : t[k] = s[k]
<1> DEFINE n == Len(s) - 1
           f == Front(s)
           t == Append(f, y)
<1>1. Len(s) \in Nat /\ Len(s) # 0 /\ n \in Nat
  BY EmptySeq
<1>2. f \in Seq(S) /\ Len(f) = n /\ \A k \in 1 .. n : f[k] = s[k]
  <2>1. f = SubSeq(s, 1, n)
    BY DEF Front
  <2>2. 1 \in 1 .. Len(s) + 1 /\ n \in 0 .. Len(s)
    BY <1>1
  <2> HIDE DEF n
  <2>3. /\ SubSeq(s, 1, n) \in Seq(S)
        /\ Len(SubSeq(s, 1, n)) = IF 1 <= n THEN n - 1 + 1 ELSE 0
        /\ \A k \in 1 .. n - 1 + 1 : SubSeq(s, 1, n)[k] = s[1 + k - 1]
    BY <2>2, SubSeqProperties
  <2>4. \A k \in 1 .. n : k \in 1 .. n - 1 + 1 /\ 1 + k - 1 = k
    BY <1>1
  <2>5. (IF 1 <= n THEN n - 1 + 1 ELSE 0) = n
    BY <1>1
  <2> QED
    BY <2>1, <2>3, <2>4, <2>5
<1> HIDE DEF f
<1>3. t \in Seq(S) /\ Len(t) = n + 1 /\ t[n + 1] = y /\ \A k \in 1 .. n : t[k] = f[k]
  BY <1>2, AppendProperties
<1>4. n + 1 = Len(s)
  BY <1>1
<1> QED
  BY <1>2, <1>3, <1>4 DEF f

(* One op more, one stencil more or none *)
LEMMA StencilsGrow ==
    ASSUME NEW c, NEW n \in Nat \ {0}
    PROVE  /\ ~is_stencil(c[n].kind) => StencilsBefore(c, n + 1) = StencilsBefore(c, n)
           /\ is_stencil(c[n].kind) => Cardinality(StencilsBefore(c, n + 1)) = Cardinality(StencilsBefore(c, n)) + 1
           /\ StencilsBefore(c, n) = {} => Cardinality(StencilsBefore(c, n)) = 0
           /\ Cardinality(StencilsBefore(c, n)) \in Nat
<1> DEFINE A == StencilsBefore(c, n)
           B == StencilsBefore(c, n + 1)
<1>1. \A i : i \in 1 .. n + 1 - 1 <=> i \in 1 .. n - 1 \/ i = n
  OBVIOUS
<1>2. IsFiniteSet(A) /\ Cardinality(A) \in Nat
  <2>1. IsFiniteSet(1 .. n - 1)
    BY FS_Interval
  <2>2. A \in SUBSET (1 .. n - 1)
    BY DEF StencilsBefore
  <2>3. IsFiniteSet(A)
    BY <2>1, <2>2, FS_Subset
  <2> QED
    BY <2>3, FS_CardinalityType
<1>3. ~is_stencil(c[n].kind) => B = A
  BY <1>1 DEF StencilsBefore
<1>4. is_stencil(c[n].kind) => B = A \cup {n}
  BY <1>1 DEF StencilsBefore
<1>5. n \notin A
  BY DEF StencilsBefore
<1> HIDE DEF A, B
<1>6. Cardinality(A \cup {n}) = Cardinality(A) + 1
  BY <1>2, <1>5, FS_AddElement
<1>7. A = {} => Cardinality(A) = 0
  BY FS_EmptySet
<1> QED
  BY <1>2, <1>3, <1>4, <1>6, <1>7 DEF A, B

(* An op joins the last stage. *)
LEMMA GrowLast ==
    ASSUME NEW c, Len(c) \in Nat, NEW n \in 1 .. Len(c), NEW plan, Shaped(c, n, plan), plan # <<>>,
           NEW st \in Stage, NEW plan2 \in Seq(Stage),
           Len(plan2) = Len(plan), plan2[Len(plan)] = st, \A k \in 1 .. Len(plan) - 1 : plan2[k] = plan[k],
           Covers(c, st, Starts(plan, Len(plan)), n),
           Len(plan) = 1 \/ st.stencil = plan[Len(plan)].stencil
    PROVE  Shaped(c, n + 1, plan2)
<1> DEFINE m == Len(plan)
<1>1. plan \in Seq(Stage) /\ m \in Nat /\ m # 0
  BY EmptySeq DEF Shaped
<1>2. \A k \in 1 .. m : Covers(c, plan[k], Starts(plan, k), Stops(plan, k, n))
  BY DEF Shaped
<1>3. \A k \in 1 .. m : plan[k].stencil = 0 => m = 1
  BY DEF Shaped
<1>4. \A k \in 1 .. m - 1 : plan2[k] = plan[k]
  OBVIOUS
<1>5. plan2[m] = st /\ Len(plan2) = m
  OBVIOUS
<1>6. m = 1 \/ st.stencil = plan[m].stencil
  OBVIOUS
<1>7. Covers(c, st, Starts(plan, m), n)
  OBVIOUS
<1> HIDE DEF m
<1>8. \A k \in 1 .. m : Starts(plan2, k) = Starts(plan, k)
  <2> TAKE k \in 1 .. m
  <2>1. k = 1 \/ plan2[k].stencil = plan[k].stencil
    <3>1. k = m \/ k \in 1 .. m - 1
      BY <1>1
    <3> QED
      BY <3>1, <1>4, <1>5, <1>6
  <2> QED
    BY <2>1 DEF Starts
<1>9. \A k \in 1 .. m - 1 : Stops(plan2, k, n + 1) = Stops(plan, k, n)
  <2> TAKE k \in 1 .. m - 1
  <2>1. k # m /\ m # 1 /\ (k + 1 = m \/ k + 1 \in 1 .. m - 1)
    BY <1>1
  <2>2. plan2[k + 1].stencil = plan[k + 1].stencil
    BY <2>1, <1>4, <1>5, <1>6
  <2> QED
    BY <2>1, <2>2, <1>5 DEF Stops, m
<1>10. Stops(plan2, m, n + 1) = n
  BY <1>5 DEF Stops
<1>11. ASSUME NEW k \in 1 .. m PROVE Covers(c, plan2[k], Starts(plan2, k), Stops(plan2, k, n + 1))
  <2>1. CASE k = m
    BY <2>1, <1>5, <1>7, <1>8, <1>10, <1>1
  <2>2. CASE k \in 1 .. m - 1
    BY <2>2, <1>2, <1>4, <1>8, <1>9
  <2> QED
    BY <2>1, <2>2, <1>1
<1>12. ASSUME NEW k \in 1 .. m, plan2[k].stencil = 0 PROVE m = 1
  <2>1. k = m \/ k \in 1 .. m - 1
    BY <1>1
  <2> QED
    BY <2>1, <1>3, <1>4, <1>5, <1>6, <1>12, <1>1
<1>13. plan2 # <<>> /\ n + 1 # 1 /\ n + 1 \in 1 .. Len(c) + 1
  BY <1>1, <1>5, EmptySeq
<1> QED
  BY <1>5, <1>11, <1>12, <1>13 DEF Shaped

(* A stencil opens a stage. *)
LEMMA OpenStage ==
    ASSUME NEW c, Len(c) \in Nat, NEW n \in 1 .. Len(c), NEW plan, Shaped(c, n, plan),
           plan # <<>>, plan[Len(plan)].stencil # 0, is_stencil(c[n].kind),
           NEW st \in Stage, st.stencil = n, NEW plan2 \in Seq(Stage),
           Len(plan2) = Len(plan) + 1, plan2[Len(plan) + 1] = st, \A k \in 1 .. Len(plan) : plan2[k] = plan[k],
           Covers(c, st, n, n)
    PROVE  Shaped(c, n + 1, plan2)
<1> DEFINE m == Len(plan)
<1>1. plan \in Seq(Stage) /\ m \in Nat /\ m # 0
  BY EmptySeq DEF Shaped
<1>2. \A k \in 1 .. m : Covers(c, plan[k], Starts(plan, k), Stops(plan, k, n))
  BY DEF Shaped
<1>3. \A k \in 1 .. m : plan[k].stencil = 0 => m = 1
  BY DEF Shaped
<1>4. \A k \in 1 .. m : plan2[k] = plan[k]
  OBVIOUS
<1>5. plan2[m + 1] = st /\ Len(plan2) = m + 1 /\ st.stencil = n
  OBVIOUS
<1>6. plan[m].stencil # 0
  OBVIOUS
<1> HIDE DEF m
<1>7. \A k \in 1 .. m : Starts(plan2, k) = Starts(plan, k)
  BY <1>4 DEF Starts
<1>8. \A k \in 1 .. m : Stops(plan2, k, n + 1) = Stops(plan, k, n)
  <2> TAKE k \in 1 .. m
  <2>1. k # m + 1 /\ (k = m \/ (k # m /\ k + 1 \in 1 .. m))
    BY <1>1
  <2>2. CASE k = m
    BY <2>1, <2>2, <1>5 DEF Stops, m
  <2>3. CASE k # m /\ k + 1 \in 1 .. m
    BY <2>1, <2>3, <1>4, <1>5 DEF Stops, m
  <2> QED
    BY <2>1, <2>2, <2>3
<1>9. Starts(plan2, m + 1) = n /\ Stops(plan2, m + 1, n + 1) = n
  BY <1>1, <1>5 DEF Starts, Stops
<1>10. ASSUME NEW k \in 1 .. m + 1 PROVE Covers(c, plan2[k], Starts(plan2, k), Stops(plan2, k, n + 1))
  <2>1. CASE k = m + 1
    BY <2>1, <1>5, <1>9
  <2>2. CASE k \in 1 .. m
    BY <2>2, <1>2, <1>4, <1>7, <1>8
  <2> QED
    BY <2>1, <2>2, <1>1
<1>11. ASSUME NEW k \in 1 .. m + 1 PROVE plan2[k].stencil # 0
  <2>1. k = m + 1 \/ k \in 1 .. m
    BY <1>1
  <2>2. m \in 1 .. m /\ 1 \in 1 .. m
    BY <1>1
  <2>3. k \in 1 .. m => plan[k].stencil # 0
    <3>1. m = 1 => \A j \in 1 .. m : j = m
      BY <1>1
    <3> QED
      BY <3>1, <1>3, <1>6
  <2> QED
    BY <2>1, <2>3, <1>4, <1>5
<1>12. plan2 # <<>> /\ n + 1 # 1 /\ n + 1 \in 1 .. Len(c) + 1
  BY <1>1, <1>5, EmptySeq
<1> QED
  BY <1>5, <1>10, <1>11, <1>12 DEF Shaped

(* The first op makes the first stage. *)
LEMMA FirstStage ==
    ASSUME NEW c, Len(c) \in Nat, Len(c) # 0, NEW st \in Stage, Covers(c, st, 1, 1)
    PROVE  Shaped(c, 2, <<st>>)
<1> DEFINE plan == <<st>>
<1>1. plan \in Seq(Stage) /\ Len(plan) = 1 /\ plan[1] = st /\ plan # <<>>
  OBVIOUS
<1> HIDE DEF plan
<1>2. Starts(plan, 1) = 1 /\ Stops(plan, 1, 2) = 1
  BY <1>1 DEF Starts, Stops
<1>3. \A k \in 1 .. 1 : k = 1
  OBVIOUS
<1>4. 2 \in 1 .. Len(c) + 1
  OBVIOUS
<1>5. Shaped(c, 2, plan)
  BY <1>1, <1>2, <1>3, <1>4 DEF Shaped
<1> QED
  BY <1>5 DEF plan

(* A pointwise op that joins a stage is its last op. *)
LEMMA AttachCovers ==
    ASSUME NEW c, Len(c) \in Nat, NEW n \in 1 .. Len(c), NEW st, NEW lo, Covers(c, st, lo, n - 1),
           ~is_stencil(c[n].kind)
    PROVE  /\ Attach(st, n) \in Stage
           /\ Attach(st, n).stencil = st.stencil
           /\ Covers(c, Attach(st, n), lo, n)
<1>1. /\ st \in Stage /\ lo \in 1 .. Len(c) /\ n - 1 \in lo .. Len(c)
  BY DEF Covers
<1>2. lo \in Nat /\ n - 1 \in Nat /\ n - 1 + 1 = n /\ n \in lo .. Len(c) /\ lo <= n - 1 + 1
  BY <1>1
<1>3. \A i \in lo .. n : i \in lo .. n - 1 \/ i = n
  BY <1>2
<1>4. CASE st.stencil = 0
  <2>1. st.prologue = Run(lo, n - 1) /\ st.epilogue = <<>> /\ \A i \in lo .. n - 1 : ~is_stencil(c[i].kind)
    BY <1>1, <1>4 DEF Covers
  <2>2. Append(Run(lo, n - 1), n - 1 + 1) = Run(lo, n - 1 + 1)
    BY <1>2, AppendRun
  <2>3. Append(st.prologue, n) = Run(lo, n)
    BY <1>2, <2>1, <2>2
  <2>4. Run(lo, n) \in Seq(Nat)
    BY <1>2, RunType
  <2>5. Attach(st, n) = [st EXCEPT !.prologue = Append(st.prologue, n)]
    BY <1>4 DEF Attach
  <2>6. Attach(st, n) \in Stage /\ Attach(st, n).stencil = 0 /\ Attach(st, n).epilogue = <<>>
        /\ Attach(st, n).prologue = Run(lo, n)
    BY <1>1, <1>4, <2>1, <2>3, <2>4, <2>5 DEF Stage
  <2>7. \A i \in lo .. n : ~is_stencil(c[i].kind)
    BY <1>3, <2>1
  <2> HIDE DEF Attach
  <2> QED
    BY <1>1, <1>2, <1>4, <2>6, <2>7 DEF Covers
<1>5. CASE st.stencil # 0
  <2> DEFINE s == st.stencil
  <2>1. /\ s \in lo .. n - 1 /\ st.prologue = Run(lo, s - 1) /\ st.epilogue = Run(s + 1, n - 1)
        /\ is_stencil(c[s].kind) /\ \A i \in lo .. n - 1 : i # s => ~is_stencil(c[i].kind)
    BY <1>1, <1>5 DEF Covers
  <2>2. s + 1 \in Nat /\ s + 1 <= n - 1 + 1 /\ s \in lo .. n /\ s \in Nat
    BY <1>1, <2>1
  <2>3. Append(Run(s + 1, n - 1), n - 1 + 1) = Run(s + 1, n - 1 + 1)
    BY <1>2, <2>2, AppendRun
  <2>4. Append(st.epilogue, n) = Run(s + 1, n)
    BY <1>2, <2>1, <2>3
  <2>5. Run(s + 1, n) \in Seq(Nat)
    <3>1. s + 1 \in Nat /\ n \in Int /\ s + 1 <= n + 1
      BY <1>1, <2>1
    <3> HIDE DEF s
    <3> QED
      BY <3>1, RunType
  <2>6. Attach(st, n) = [st EXCEPT !.epilogue = Append(st.epilogue, n)]
    BY <1>5 DEF Attach
  <2>7. Attach(st, n) \in Stage /\ Attach(st, n).stencil = s /\ Attach(st, n).prologue = st.prologue
        /\ Attach(st, n).epilogue = Run(s + 1, n)
    BY <1>1, <2>4, <2>5, <2>6 DEF Stage
  <2>8. \A i \in lo .. n : i # s => ~is_stencil(c[i].kind)
    BY <1>3, <2>1
  <2> HIDE DEF Attach
  <2> QED
    BY <1>1, <1>2, <2>1, <2>2, <2>7, <2>8 DEF Covers
<1> QED
  BY <1>4, <1>5

(* A stencil that joins a stage without one is its last op. *)
LEMMA StencilCovers ==
    ASSUME NEW c, Len(c) \in Nat, NEW n \in 1 .. Len(c), NEW st, NEW lo, Covers(c, st, lo, n - 1),
           st.stencil = 0, is_stencil(c[n].kind)
    PROVE  LET st2 == [st EXCEPT !.stencil = n]
           IN  st2 \in Stage /\ st2.stencil = n /\ Covers(c, st2, lo, n)
<1> DEFINE st2 == [st EXCEPT !.stencil = n]
<1>1. /\ st \in Stage /\ lo \in 1 .. Len(c) /\ n - 1 \in lo .. Len(c)
  BY DEF Covers
<1>2. st.prologue = Run(lo, n - 1) /\ st.epilogue = <<>> /\ \A i \in lo .. n - 1 : ~is_stencil(c[i].kind)
  BY <1>1 DEF Covers
<1>3. n \in lo .. Len(c) /\ n \in lo .. n /\ n \in Nat /\ n + 1 - 1 = n /\ n + 1 \in Nat
  BY <1>1
<1>4. Run(n + 1, n) = <<>>
  BY <1>3, EmptyRun
<1>5. st2 \in Stage /\ st2.stencil = n /\ st2.prologue = Run(lo, n - 1) /\ st2.epilogue = Run(n + 1, n)
  BY <1>1, <1>2, <1>3, <1>4 DEF Stage
<1>6. \A i \in lo .. n : i # n => ~is_stencil(c[i].kind)
  BY <1>1, <1>2
<1> HIDE DEF st2
<1>7. Covers(c, st2, lo, n)
  BY <1>1, <1>3, <1>5, <1>6 DEF Covers
<1> QED
  BY <1>5, <1>7 DEF st2

(* A new stage starts with its op. *)
LEMMA FreshCovers ==
    ASSUME NEW c, Len(c) \in Nat, NEW n \in 1 .. Len(c)
    PROVE  /\ EmptyStage \in Stage
           /\ LET st == [EmptyStage EXCEPT !.stencil = n]
              IN  st \in Stage /\ st.stencil = n /\ (is_stencil(c[n].kind) => Covers(c, st, n, n))
           /\ LET st == Attach(EmptyStage, n)
              IN  st \in Stage /\ st.stencil = 0 /\ (~is_stencil(c[n].kind) => Covers(c, st, n, n))
<1> DEFINE s1 == [EmptyStage EXCEPT !.stencil = n]
           s2 == Attach(EmptyStage, n)
<1>1. n \in Nat /\ n + 1 - 1 = n /\ n + 1 \in Nat /\ n \in n .. Len(c) /\ n - 1 \in Nat /\ n - 1 + 1 = n /\ n <= n - 1 + 1
  OBVIOUS
<1>2. Run(n, n - 1) = <<>> /\ Run(n + 1, n) = <<>>
  BY <1>1, EmptyRun
<1>3. Append(<<>>, n) = Run(n, n)
  <2>1. Append(Run(n, n - 1), n - 1 + 1) = Run(n, n - 1 + 1)
    BY <1>1, AppendRun
  <2> QED
    BY <1>1, <1>2, <2>1
<1>4. Run(n, n) \in Seq(Nat) /\ <<>> \in Seq(Nat)
  BY <1>1, RunType
<1>5. EmptyStage \in Stage
  BY <1>4 DEF EmptyStage, Stage
<1>6. s1 \in Stage /\ s1.stencil = n /\ s1.prologue = Run(n, n - 1) /\ s1.epilogue = Run(n + 1, n)
  BY <1>1, <1>2, <1>4 DEF EmptyStage, Stage
<1>7. s2 = [prologue |-> Run(n, n), stencil |-> 0, epilogue |-> <<>>]
  <2>1. EmptyStage.stencil = 0 /\ EmptyStage.prologue = <<>>
    BY DEF EmptyStage
  <2>2. s2 = [EmptyStage EXCEPT !.prologue = Append(EmptyStage.prologue, n)]
    BY <2>1 DEF Attach
  <2>3. s2 = [EmptyStage EXCEPT !.prologue = Run(n, n)]
    BY <2>1, <2>2, <1>3
  <2> QED
    BY <2>3 DEF EmptyStage
<1> HIDE DEF s2
<1>8. s2 \in Stage /\ s2.stencil = 0 /\ s2.prologue = Run(n, n) /\ s2.epilogue = <<>>
  BY <1>4, <1>7 DEF Stage
<1>9. \A i \in n .. n : i = n
  OBVIOUS
<1> HIDE DEF s1
<1>10. is_stencil(c[n].kind) => Covers(c, s1, n, n)
  BY <1>1, <1>6, <1>9 DEF Covers
<1>11. ~is_stencil(c[n].kind) => Covers(c, s2, n, n)
  BY <1>1, <1>8, <1>9 DEF Covers
<1> QED
  BY <1>5, <1>6, <1>8, <1>10, <1>11 DEF s1, s2

(* plan_stages plans the next op. *)
LEMMA PlanStep ==
    ASSUME Len(key.chain) \in Nat, Planned(key.chain, index, stages), index <= Len(key.chain)
    PROVE  Planned(key.chain, index + 1, PlanOp(IF stages = <<>> THEN <<EmptyStage>> ELSE stages))
<1> DEFINE c == key.chain
           n == index
           m == Len(stages)
           st == stages[m]
           plan == PlanOp(IF stages = <<>> THEN <<EmptyStage>> ELSE stages)
<1>1. Shaped(c, n, stages) /\ Counted(c, n, stages) /\ Len(c) \in Nat
  BY DEF Planned
<1>2. stages \in Seq(Stage) /\ m \in Nat /\ n \in 1 .. Len(c) /\ n \in Nat \ {0} /\ (m = 0 <=> stages = <<>>)
  BY <1>1, EmptySeq DEF Shaped
<1>3. ops = c
  BY DEF ops
<1>4. EmptyStage \in Stage
  BY <1>1, <1>2, FreshCovers
<1>5. stages = <<>> => n = 1 /\ StencilsBefore(c, n) = {}
  BY <1>1 DEF Shaped, Counted
<1>6. stages # <<>> => /\ m \in 1 .. m /\ 1 \in 1 .. m
                       /\ Covers(c, st, Starts(stages, m), n - 1)
                       /\ st.stencil = 0 => m = 1
  <2> SUFFICES ASSUME stages # <<>>
               PROVE  /\ m \in 1 .. m /\ 1 \in 1 .. m
                      /\ Covers(c, st, Starts(stages, m), n - 1)
                      /\ st.stencil = 0 => m = 1
    OBVIOUS
  <2>1. m \in 1 .. m /\ 1 \in 1 .. m
    BY <1>2
  <2>2. Stops(stages, m, n) = n - 1
    BY DEF Stops
  <2> QED
    BY <1>1, <2>1, <2>2 DEF Shaped
<1>7. CASE stages = <<>> /\ ~is_stencil(c[n].kind)
  <2> DEFINE new == Attach(EmptyStage, n)
             one == <<EmptyStage>>
  <2>1. new \in Stage /\ new.stencil = 0 /\ Covers(c, new, 1, 1)
    BY <1>1, <1>2, <1>5, <1>7, FreshCovers
  <2>2. plan = Append(Front(one), Attach(Last(one), n))
    BY <1>3, <1>7 DEF PlanOp
  <2>3. Last(one) = EmptyStage
    BY DEF Last
  <2>4. one \in Seq(Stage) /\ one # <<>> /\ Len(one) = 1
    BY <1>4
  <2> HIDE DEF new, one, plan
  <2>5. plan = Append(Front(one), new)
    BY <2>2, <2>3 DEF new
  <2>6. plan \in Seq(Stage) /\ Len(plan) = 1 /\ plan[1] = new
    BY <2>1, <2>4, <2>5, ReplaceLast
  <2>7. plan = <<new>>
    BY <2>6
  <2>8. Shaped(c, 2, plan)
    BY <1>1, <1>2, <2>1, <2>7, FirstStage
  <2>9. StencilsBefore(c, n + 1) = {}
    BY <1>2, <1>5, <1>7, StencilsGrow
  <2>10. Counted(c, n + 1, plan)
    BY <2>1, <2>6, <2>9 DEF Counted
  <2>11. n + 1 = 2
    BY <1>5, <1>7
  <2> QED
    BY <2>8, <2>10, <2>11 DEF Planned, plan
<1>8. CASE stages = <<>> /\ is_stencil(c[n].kind)
  <2> DEFINE new == [EmptyStage EXCEPT !.stencil = n]
             one == <<EmptyStage>>
  <2>1. new \in Stage /\ new.stencil = n /\ Covers(c, new, 1, 1)
    BY <1>1, <1>2, <1>5, <1>8, FreshCovers
  <2>2. Last(one) = EmptyStage
    BY DEF Last
  <2>3. ~NeedsStage(Last(one))
    BY <2>2 DEF NeedsStage, EmptyStage
  <2>4. plan = Append(Front(one), [Last(one) EXCEPT !.stencil = n])
    <3>1. is_stencil(ops[index].kind)
      BY <1>3, <1>8
    <3>2. plan = PlanOp(one)
      BY <1>8
    <3> QED
      BY <2>3, <3>1, <3>2 DEF PlanOp
  <2>5. one \in Seq(Stage) /\ one # <<>> /\ Len(one) = 1
    BY <1>4
  <2>6. plan = Append(Front(one), new)
    BY <2>2, <2>4
  <2> HIDE DEF new, one, plan
  <2>7. plan \in Seq(Stage) /\ Len(plan) = 1 /\ plan[1] = new
    BY <2>1, <2>5, <2>6, ReplaceLast
  <2>8. plan = <<new>>
    BY <2>7
  <2>9. Shaped(c, 2, plan)
    BY <1>1, <1>2, <2>1, <2>8, FirstStage
  <2>10. Cardinality(StencilsBefore(c, n + 1)) = 1
    BY <1>2, <1>5, <1>8, StencilsGrow
  <2>11. Counted(c, n + 1, plan)
    BY <1>2, <2>1, <2>7, <2>8, <2>10 DEF Counted
  <2>12. n + 1 = 2
    BY <1>5, <1>8
  <2> QED
    BY <2>9, <2>11, <2>12 DEF Planned, plan
<1>9. CASE stages # <<>> /\ ~is_stencil(c[n].kind)
  <2> DEFINE new == Attach(st, n)
  <2>1. new \in Stage /\ new.stencil = st.stencil /\ Covers(c, new, Starts(stages, m), n)
    BY <1>1, <1>2, <1>6, <1>9, AttachCovers
  <2>2. plan = Append(Front(stages), new)
    BY <1>3, <1>9 DEF PlanOp, Last
  <2> HIDE DEF new, plan
  <2>3. plan \in Seq(Stage) /\ Len(plan) = m /\ plan[m] = new /\ \A k \in 1 .. m - 1 : plan[k] = stages[k]
    BY <1>2, <1>9, <2>1, <2>2, ReplaceLast
  <2>4. Shaped(c, n + 1, plan)
    BY <1>1, <1>2, <1>9, <2>1, <2>3, GrowLast
  <2>5. StencilsBefore(c, n + 1) = StencilsBefore(c, n)
    BY <1>2, <1>9, StencilsGrow
  <2>6. plan[1].stencil = stages[1].stencil /\ plan # <<>>
    <3>0. m \in Nat /\ m # 0
      BY <1>2, <1>9
    <3>1. m = 1 \/ 1 \in 1 .. m - 1
      BY <3>0
    <3>2. plan # <<>>
      BY <1>2, <1>9, <2>3, EmptySeq
    <3> QED
      BY <3>1, <3>2, <2>1, <2>3
  <2>7. Counted(c, n + 1, plan)
    BY <1>1, <1>9, <2>3, <2>5, <2>6 DEF Counted
  <2> QED
    BY <2>4, <2>7 DEF Planned, plan
<1>10. CASE stages # <<>> /\ is_stencil(c[n].kind) /\ st.stencil = 0
  <2> DEFINE new == [st EXCEPT !.stencil = n]
  <2>1. new \in Stage /\ new.stencil = n /\ Covers(c, new, Starts(stages, m), n)
    BY <1>1, <1>2, <1>6, <1>10, StencilCovers
  <2>2. plan = Append(Front(stages), new)
    <3>1. Last(stages) = st /\ ~NeedsStage(Last(stages))
      BY <1>10 DEF Last, NeedsStage
    <3>2. is_stencil(ops[index].kind)
      BY <1>3, <1>10
    <3>3. plan = PlanOp(stages)
      BY <1>10
    <3>4. plan = Append(Front(stages), [Last(stages) EXCEPT !.stencil = index])
      BY <3>1, <3>2, <3>3 DEF PlanOp
    <3> QED
      BY <3>1, <3>4
  <2> HIDE DEF new, plan
  <2>3. plan \in Seq(Stage) /\ Len(plan) = m /\ plan[m] = new /\ \A k \in 1 .. m - 1 : plan[k] = stages[k]
    BY <1>2, <1>10, <2>1, <2>2, ReplaceLast
  <2>4. m = 1
    BY <1>6, <1>10
  <2>5. Shaped(c, n + 1, plan)
    BY <1>1, <1>2, <1>10, <2>1, <2>3, <2>4, GrowLast
  <2>6. StencilsBefore(c, n) = {}
    BY <1>1, <1>10, <2>4 DEF Counted
  <2>7. Cardinality(StencilsBefore(c, n + 1)) = 1
    <3>1. n \in Nat \ {0}
      BY <1>2
    <3>2. Cardinality(StencilsBefore(c, n)) = 0
      BY <3>1, <2>6, StencilsGrow
    <3>3. Cardinality(StencilsBefore(c, n + 1)) = Cardinality(StencilsBefore(c, n)) + 1
      BY <3>1, <1>10, StencilsGrow
    <3> QED
      BY <3>2, <3>3
  <2>8. plan # <<>>
    BY <2>3, <2>4, EmptySeq
  <2>9. Counted(c, n + 1, plan)
    BY <1>2, <2>1, <2>3, <2>4, <2>7, <2>8 DEF Counted
  <2> QED
    BY <2>5, <2>9 DEF Planned, plan
<1>11. CASE stages # <<>> /\ is_stencil(c[n].kind) /\ st.stencil # 0
  <2> DEFINE new == [EmptyStage EXCEPT !.stencil = n]
             opened == Append(stages, EmptyStage)
  <2>1. new \in Stage /\ new.stencil = n /\ Covers(c, new, n, n)
    BY <1>1, <1>2, <1>11, FreshCovers
  <2>2. /\ opened \in Seq(Stage) /\ Len(opened) = m + 1 /\ opened[m + 1] = EmptyStage
        /\ \A k \in 1 .. m : opened[k] = stages[k]
    BY <1>2, <1>4, AppendProperties
  <2>3. opened # <<>>
    BY <1>2, <2>2, EmptySeq
  <2>4. plan = Append(Front(opened), [Last(opened) EXCEPT !.stencil = index])
    <3>1. NeedsStage(Last(stages))
      BY <1>11 DEF Last, NeedsStage
    <3>2. is_stencil(ops[index].kind)
      BY <1>3, <1>11
    <3>3. plan = PlanOp(stages)
      BY <1>11
    <3> QED
      BY <3>1, <3>2, <3>3 DEF PlanOp
  <2>5. Last(opened) = EmptyStage
    <3> HIDE DEF opened
    <3> QED
      BY <2>2 DEF Last
  <2>6. plan = Append(Front(opened), new)
    BY <2>4, <2>5
  <2> HIDE DEF new, plan, opened
  <2>7. /\ plan \in Seq(Stage) /\ Len(plan) = Len(opened) /\ plan[Len(opened)] = new
        /\ \A k \in 1 .. Len(opened) - 1 : plan[k] = opened[k]
    BY <2>1, <2>2, <2>3, <2>6, ReplaceLast
  <2>8. /\ Len(plan) = m + 1 /\ plan[m + 1] = new /\ \A k \in 1 .. m : plan[k] = stages[k]
    <3>1. m + 1 - 1 = m
      BY <1>2
    <3> QED
      BY <3>1, <2>2, <2>7
  <2>9. Shaped(c, n + 1, plan)
    BY <1>1, <1>2, <1>11, <2>1, <2>7, <2>8, OpenStage
  <2>10. stages[1].stencil # 0
    BY <1>1, <1>6, <1>11 DEF Shaped
  <2>11. Cardinality(StencilsBefore(c, n + 1)) = m + 1
    BY <1>1, <1>2, <1>11, <2>10, StencilsGrow DEF Counted
  <2>12. plan # <<>> /\ plan[1].stencil # 0
    BY <1>2, <1>6, <1>11, <2>7, <2>8, <2>10, EmptySeq
  <2>13. Counted(c, n + 1, plan)
    BY <2>8, <2>11, <2>12 DEF Counted
  <2> QED
    BY <2>9, <2>13 DEF Planned, plan
<1> QED
  BY <1>7, <1>8, <1>9, <1>10, <1>11

----------------------------------------------------------------------------
(* emit_stage                                                              *)

(* The loop over a run of ops that collects the arguments: its turns. *)
Collect(chosen, run, f, n) ==
    IF n = 0 THEN <<>> ELSE IF run[n] \in chosen THEN Append(f[n - 1], run[n]) ELSE f[n - 1]

(* The turns exist. *)
LEMMA CollectExists ==
    ASSUME NEW chosen, NEW run \in Seq(Nat)
    PROVE  \E f : f = [n \in 0 .. Len(run) |-> Collect(chosen, run, f, n)]
<1> DEFINE end == Len(run)
           UpTo(f, m) == /\ f = [n \in 0 .. end |-> f[n]]
                         /\ \A n \in 0 .. m : f[n] = Collect(chosen, run, f, n)
           Bad == {m \in 0 .. end : ~ \E f : UpTo(f, m)}
<1>1. end \in Nat
  OBVIOUS
<1>2. Bad = {}
  <2> SUFFICES ASSUME Bad # {} PROVE FALSE
    OBVIOUS
  <2>1. Bad \subseteq Nat
    BY <1>1
  <2>2. PICK m \in Bad : \A l \in Bad : m <= l
    BY <2>1, LeastElement
  <2>3. m \in 0 .. end /\ m \in Nat
    BY <2>2, <1>1
  <2>4. CASE m = 0
    <3> DEFINE g == [n \in 0 .. end |-> <<>>]
    <3>1. g = [n \in 0 .. end |-> g[n]]
      OBVIOUS
    <3>2. g[0] = <<>>
      BY <1>1
    <3> HIDE DEF g
    <3>3. \A n \in 0 .. m : g[n] = Collect(chosen, run, g, n)
      BY <2>4, <3>2 DEF Collect
    <3>4. UpTo(g, m)
      BY <3>1, <3>3
    <3> QED
      BY <3>4, <2>2
  <2>5. CASE m # 0
    <3>1. m - 1 \in 0 .. end /\ ~(m <= m - 1)
      BY <2>3, <2>5, <1>1
    <3>2. m - 1 \notin Bad
      BY <3>1, <2>2
    <3>3. PICK f : UpTo(f, m - 1)
      BY <3>1, <3>2
    <3> DEFINE g == [n \in 0 .. end |-> IF n = m THEN Collect(chosen, run, f, m) ELSE f[n]]
    <3>4. g = [n \in 0 .. end |-> g[n]]
      OBVIOUS
    <3>5. g[m] = Collect(chosen, run, f, m)
      BY <2>3
    <3>6. \A n \in 0 .. m - 1 : g[n] = f[n]
      BY <2>3, <1>1
    <3> HIDE DEF g
    <3>7. \A n \in 0 .. m : Collect(chosen, run, f, n) = Collect(chosen, run, g, n)
      <4> TAKE n \in 0 .. m
      <4>1. n = 0 \/ n - 1 \in 0 .. m - 1
        BY <2>3
      <4> QED
        BY <4>1, <3>6 DEF Collect
    <3>8. \A n \in 0 .. m : g[n] = Collect(chosen, run, g, n)
      <4> TAKE n \in 0 .. m
      <4>1. n = m \/ n \in 0 .. m - 1
        BY <2>3
      <4>2. n \in 0 .. m - 1 => f[n] = Collect(chosen, run, f, n)
        BY <3>3
      <4> QED
        BY <4>1, <4>2, <3>5, <3>6, <3>7
    <3>9. UpTo(g, m)
      BY <3>4, <3>8
    <3> QED
      BY <3>9, <2>2
  <2> QED
    BY <2>4, <2>5
<1>3. PICK f : UpTo(f, end)
  <2>1. end \in 0 .. end
    BY <1>1
  <2> QED
    BY <1>2, <2>1
<1>4. f = [n \in 0 .. end |-> Collect(chosen, run, f, n)]
  <2>1. f = [n \in 0 .. end |-> f[n]] /\ \A n \in 0 .. end : f[n] = Collect(chosen, run, f, n)
    BY <1>3
  <2> QED
    BY <2>1
<1> QED
  BY <1>4

(* What it collects are the chosen positions of the run. *)
LEMMA Collected ==
    ASSUME NEW chosen, NEW run \in Seq(Nat), NEW f, f = [n \in 0 .. Len(run) |-> Collect(chosen, run, f, n)]
    PROVE  /\ f[Len(run)] \in Seq(Nat)
           /\ \A i : (\E m \in 1 .. Len(f[Len(run)]) : f[Len(run)][m] = i)
                         <=> i \in chosen /\ \E j \in 1 .. Len(run) : run[j] = i
<1> DEFINE end == Len(run)
           Holds(g, i) == \E m \in 1 .. Len(g) : g[m] = i
           Good(n) == /\ f[n] \in Seq(Nat)
                      /\ \A i : Holds(f[n], i) <=> i \in chosen /\ \E j \in 1 .. n : run[j] = i
           Bad == {n \in 0 .. end : ~Good(n)}
<1>1. end \in Nat
  OBVIOUS
<1>2. \A n \in 0 .. end : f[n] = Collect(chosen, run, f, n)
  OBVIOUS
<1>3. Bad = {}
  <2> SUFFICES ASSUME Bad # {} PROVE FALSE
    OBVIOUS
  <2>1. Bad \subseteq Nat
    BY <1>1
  <2>2. PICK n \in Bad : \A l \in Bad : n <= l
    BY <2>1, LeastElement
  <2>3. n \in 0 .. end /\ n \in Nat /\ ~Good(n)
    BY <2>2, <1>1
  <2>4. CASE n = 0
    <3>1. f[n] = <<>>
      BY <2>3, <2>4, <1>2 DEF Collect
    <3>2. Good(n)
      BY <3>1, <2>4
    <3> QED
      BY <3>2, <2>3
  <2>5. CASE n # 0
    <3>1. n - 1 \in 0 .. end /\ ~(n <= n - 1) /\ n \in 1 .. end
      BY <2>3, <2>5, <1>1
    <3>2. Good(n - 1)
      BY <3>1, <2>2
    <3>3. \A j : j \in 1 .. n <=> j \in 1 .. n - 1 \/ j = n
      BY <2>3, <2>5
    <3> DEFINE g == f[n - 1]
    <3>4. g \in Seq(Nat) /\ run[n] \in Nat
      BY <3>1, <3>2
    <3>5. \A i : Holds(g, i) <=> i \in chosen /\ \E j \in 1 .. n - 1 : run[j] = i
      BY <3>2
    <3>6. f[n] = IF run[n] \in chosen THEN Append(g, run[n]) ELSE g
      BY <2>3, <2>5, <1>2 DEF Collect
    <3> HIDE DEF g
    <3>7. CASE run[n] \in chosen
      <4> DEFINE h == Append(g, run[n])
      <4>1. h \in Seq(Nat) /\ Len(h) = Len(g) + 1 /\ h[Len(g) + 1] = run[n] /\ \A m \in 1 .. Len(g) : h[m] = g[m]
        BY <3>4, AppendProperties
      <4>2. f[n] = h
        BY <3>6, <3>7
      <4>3. Len(g) \in Nat
        BY <3>4
      <4> HIDE DEF h
      <4>4. \A m : m \in 1 .. Len(h) <=> m \in 1 .. Len(g) \/ m = Len(g) + 1
        BY <4>1, <4>3
      <4>5. \A i : Holds(h, i) <=> Holds(g, i) \/ i = run[n]
        BY <4>1, <4>4
      <4>6. \A i : Holds(h, i) <=> i \in chosen /\ \E j \in 1 .. n : run[j] = i
        BY <4>5, <3>3, <3>5, <3>7
      <4>7. Good(n)
        BY <4>1, <4>2, <4>6
      <4> QED
        BY <4>7, <2>3
    <3>8. CASE run[n] \notin chosen
      <4>1. f[n] = g
        BY <3>6, <3>8
      <4>2. \A i : Holds(g, i) <=> i \in chosen /\ \E j \in 1 .. n : run[j] = i
        BY <3>3, <3>5, <3>8
      <4>3. Good(n)
        BY <3>4, <4>1, <4>2
      <4> QED
        BY <4>3, <2>3
    <3> QED
      BY <3>7, <3>8
  <2> QED
    BY <2>4, <2>5
<1>4. Good(end)
  <2>1. end \in 0 .. end
    BY <1>1
  <2> QED
    BY <1>3, <2>1
<1> QED
  BY <1>4

(* The positions whose parameter is a kernel argument *)
Arguable == {i \in Nat : parameterized /\ takes_param(ops[i].kind)}

(* param_indices lists the arguments of a run and nothing else. *)
LEMMA ParamIndices ==
    ASSUME NEW run \in Seq(Nat)
    PROVE  /\ param_indices(run) \in Seq(Nat)
           /\ \A i : (\E m \in 1 .. Len(param_indices(run)) : param_indices(run)[m] = i)
                         <=> i \in Arguable /\ \E j \in 1 .. Len(run) : run[j] = i
<1> DEFINE Turn(f, n) == IF n = 0 THEN <<>>
                         ELSE IF parameterized /\ takes_param(ops[run[n]].kind) THEN Append(f[n - 1], run[n])
                         ELSE f[n - 1]
           Taken == CHOOSE f : f = [n \in 0 .. Len(run) |-> Turn(f, n)]
<1>1. param_indices(run) = Taken[Len(run)]
  BY DEF param_indices
<1>2. ASSUME NEW f, NEW n \in 0 .. Len(run) PROVE Turn(f, n) = Collect(Arguable, run, f, n)
  <2>1. n # 0 => n \in 1 .. Len(run)
    OBVIOUS
  <2>2. n # 0 => run[n] \in Nat
    BY <2>1
  <2> QED
    BY <2>2 DEF Collect, Arguable
<1> HIDE DEF Turn
<1>3. ASSUME NEW f PROVE [n \in 0 .. Len(run) |-> Turn(f, n)] = [n \in 0 .. Len(run) |-> Collect(Arguable, run, f, n)]
  BY <1>2
<1>4. PICK f : f = [n \in 0 .. Len(run) |-> Collect(Arguable, run, f, n)]
  BY CollectExists
<1>5. f = [n \in 0 .. Len(run) |-> Turn(f, n)]
  BY <1>3, <1>4
<1>6. Taken = [n \in 0 .. Len(run) |-> Turn(Taken, n)]
  BY <1>5
<1> HIDE DEF Taken
<1>7. Taken = [n \in 0 .. Len(run) |-> Collect(Arguable, run, Taken, n)]
  BY <1>3, <1>6
<1> QED
  BY <1>1, <1>7, Collected

(* Two adjacent runs make one. *)
LEMMA JoinRuns ==
    ASSUME NEW a \in Nat, NEW b \in Nat, NEW d \in Nat, a <= b + 1, b <= d
    PROVE  Run(a, b) \o Run(b + 1, d) = Run(a, d)
<1> DEFINE r == Run(a, b)
           s == Run(b + 1, d)
           t == Run(a, d)
           u == r \o s
           n == b - a + 1
           m == d - b
<1>0. a <= d + 1 /\ b + 1 \in Nat /\ b + 1 <= d + 1 /\ b \in Int /\ d \in Int
  OBVIOUS
<1>1. r \in Seq(Nat) /\ Len(r) = n /\ n \in Nat /\ \A j \in 1 .. n : r[j] = a + j - 1
  BY RunType
<1>2. s \in Seq(Nat) /\ Len(s) = m /\ m \in Nat /\ \A j \in 1 .. m : s[j] = b + 1 + j - 1
  <2>1. s \in Seq(Nat) /\ Len(s) = d - (b + 1) + 1 /\ \A j \in 1 .. d - (b + 1) + 1 : s[j] = b + 1 + j - 1
    BY <1>0, RunType
  <2>2. d - (b + 1) + 1 = m /\ m \in Nat
    OBVIOUS
  <2> QED
    BY <2>1, <2>2
<1>3. t \in Seq(Nat) /\ Len(t) = n + m /\ \A j \in 1 .. n + m : t[j] = a + j - 1
  <2>1. t \in Seq(Nat) /\ Len(t) = d - a + 1 /\ \A j \in 1 .. d - a + 1 : t[j] = a + j - 1
    BY <1>0, RunType
  <2>2. d - a + 1 = n + m
    OBVIOUS
  <2> QED
    BY <2>1, <2>2
<1> HIDE DEF r, s, t
<1>4. u \in Seq(Nat) /\ Len(u) = n + m /\ \A j \in 1 .. n + m : u[j] = IF j <= n THEN r[j] ELSE s[j - n]
  <2> HIDE DEF n, m
  <2>1. u \in Seq(Nat)
    BY <1>1, <1>2, ConcatProperties
  <2>2. Len(u) = Len(r) + Len(s) /\ \A j \in 1 .. Len(r) + Len(s) : u[j] = IF j <= Len(r) THEN r[j] ELSE s[j - Len(r)]
    BY <1>1, <1>2, ConcatProperties
  <2> QED
    BY <1>1, <1>2, <2>1, <2>2
<1> HIDE DEF u
<1>5. \A j \in 1 .. n + m : u[j] = t[j]
  <2> TAKE j \in 1 .. n + m
  <2>1. CASE j <= n
    <3>1. j \in 1 .. n
      BY <2>1, <1>1
    <3> QED
      BY <2>1, <3>1, <1>1, <1>3, <1>4
  <2>2. CASE ~(j <= n)
    <3>1. j - n \in 1 .. m /\ b + 1 + (j - n) - 1 = a + j - 1
      BY <2>2, <1>1, <1>2
    <3> QED
      BY <2>2, <3>1, <1>2, <1>3, <1>4
  <2> QED
    BY <2>1, <2>2
<1>6. u = t
  BY <1>3, <1>4, <1>5, SeqEqual
<1> QED
  BY <1>6 DEF u, t, r, s

(* A run of one *)
LEMMA SingleRun == ASSUME NEW a \in Nat \ {0} PROVE Run(a, a) = <<a>>
<1>0. a \in Nat /\ a \in Int /\ a <= a + 1
  OBVIOUS
<1>1. Run(a, a) \in Seq(Nat) /\ Len(Run(a, a)) = a - a + 1 /\ \A j \in 1 .. a - a + 1 : Run(a, a)[j] = a + j - 1
  BY <1>0, RunType
<1>2. a - a + 1 = 1 /\ a + 1 - 1 = a
  OBVIOUS
<1> QED
  BY <1>1, <1>2

(* Which positions a run lists *)
LEMMA ListsRun ==
    ASSUME NEW lo \in Nat, NEW hi \in Int, lo <= hi + 1, NEW i
    PROVE  Lists(Run(lo, hi), i) <=> i \in lo .. hi
<1>1. /\ Len(Run(lo, hi)) = hi - lo + 1
      /\ \A j \in 1 .. hi - lo + 1 : Run(lo, hi)[j] = lo + j - 1
  BY RunType
<1>2. ASSUME i \in lo .. hi PROVE Lists(Run(lo, hi), i)
  <2>1. i - lo + 1 \in 1 .. hi - lo + 1 /\ lo + (i - lo + 1) - 1 = i
    BY <1>2
  <2> QED
    BY <2>1, <1>1 DEF Lists
<1>3. ASSUME Lists(Run(lo, hi), i) PROVE i \in lo .. hi
  <2>1. PICK j \in 1 .. hi - lo + 1 : Run(lo, hi)[j] = i
    BY <1>1, <1>3 DEF Lists
  <2>2. i = lo + j - 1
    BY <2>1, <1>1
  <2> QED
    BY <2>2
<1> QED
  BY <1>2, <1>3

(* Which positions a concatenation lists *)
LEMMA ListsConcat ==
    ASSUME NEW a \in Seq(Nat), NEW b \in Seq(Nat), NEW i
    PROVE  Lists(a \o b, i) <=> Lists(a, i) \/ Lists(b, i)
<1> DEFINE u == a \o b
           n == Len(a)
           m == Len(b)
<1>1. n \in Nat /\ m \in Nat
  OBVIOUS
<1>2. Len(u) = n + m /\ \A j \in 1 .. n + m : u[j] = IF j <= n THEN a[j] ELSE b[j - n]
  BY ConcatProperties
<1> HIDE DEF u
<1>3. ASSUME Lists(a, i) PROVE Lists(u, i)
  <2>1. PICK j \in 1 .. n : a[j] = i
    BY <1>3 DEF Lists
  <2>2. j \in 1 .. n + m /\ j <= n
    BY <1>1
  <2> QED
    BY <2>1, <2>2, <1>2 DEF Lists
<1>4. ASSUME Lists(b, i) PROVE Lists(u, i)
  <2>1. PICK j \in 1 .. m : b[j] = i
    BY <1>4 DEF Lists
  <2>2. j + n \in 1 .. n + m /\ ~(j + n <= n) /\ j + n - n = j
    BY <1>1
  <2> QED
    BY <2>1, <2>2, <1>2 DEF Lists
<1>5. ASSUME Lists(u, i) PROVE Lists(a, i) \/ Lists(b, i)
  <2>1. PICK j \in 1 .. n + m : u[j] = i
    BY <1>5, <1>2 DEF Lists
  <2>2. CASE j <= n
    <3>1. j \in 1 .. n
      BY <2>2, <1>1
    <3> QED
      BY <3>1, <2>1, <2>2, <1>2 DEF Lists
  <2>3. CASE ~(j <= n)
    <3>1. j - n \in 1 .. m
      BY <2>3, <1>1
    <3> QED
      BY <3>1, <2>1, <2>3, <1>2 DEF Lists
  <2> QED
    BY <2>2, <2>3
<1> QED
  BY <1>3, <1>4, <1>5 DEF u

(* The kernel body runs the ops of its stage in chain order. *)
LEMMA BodyIsRun ==
    ASSUME NEW c, Len(c) \in Nat, NEW st, NEW lo, NEW hi, Covers(c, st, lo, hi)
    PROVE  Body(st) = Run(lo, hi)
<1>1. st \in Stage /\ lo \in 1 .. Len(c) /\ hi \in lo .. Len(c)
  BY DEF Covers
<1>2. lo \in Nat /\ hi \in Nat /\ hi \in Int /\ lo <= hi /\ lo <= hi + 1
  BY <1>1
<1>3. Run(lo, hi) \in Seq(Nat)
  BY <1>2, RunType
<1>4. CASE st.stencil = 0
  <2>1. st.prologue = Run(lo, hi) /\ st.epilogue = <<>>
    BY <1>1, <1>4 DEF Covers
  <2>2. Body(st) = (st.prologue \o <<>>) \o st.epilogue
    BY <1>4 DEF Body
  <2> QED
    BY <1>3, <2>1, <2>2, ConcatEmptySeq
<1>5. CASE st.stencil # 0
  <2> DEFINE s == st.stencil
  <2>1. s \in lo .. hi /\ st.prologue = Run(lo, s - 1) /\ st.epilogue = Run(s + 1, hi)
    BY <1>1, <1>5 DEF Covers
  <2>2. /\ s \in Nat \ {0} /\ s \in Nat /\ s - 1 \in Nat /\ s - 1 + 1 = s
        /\ lo <= s - 1 + 1 /\ s - 1 <= s /\ lo <= s + 1 /\ s <= hi
    BY <1>1, <2>1
  <2>3. Body(st) = (st.prologue \o <<s>>) \o st.epilogue
    BY <1>5 DEF Body
  <2> HIDE DEF s
  <2>4. Run(lo, s - 1) \o Run(s - 1 + 1, s) = Run(lo, s)
    BY <1>2, <2>2, JoinRuns
  <2>5. Run(s, s) = <<s>>
    BY <2>2, SingleRun
  <2>6. Run(lo, s) \o Run(s + 1, hi) = Run(lo, hi)
    BY <1>2, <2>2, JoinRuns
  <2> QED
    BY <2>1, <2>2, <2>3, <2>4, <2>5, <2>6
<1> QED
  BY <1>4, <1>5

(* The arguments of a kernel are those of its ops, each op's found under   *)
(* its own position.                                                       *)
LEMMA SignatureLists ==
    ASSUME key \in Key, NEW st, NEW lo, NEW hi, Covers(key.chain, st, lo, hi)
    PROVE  /\ Signature(st) \in Seq(Nat)
           /\ \A i \in lo .. hi : Lists(Signature(st), i) <=> i \in Arguable
<1> DEFINE c == key.chain
           R == IF runtime_radius(st) THEN <<st.stencil>> ELSE <<>>
           P == param_indices(st.prologue)
           E == param_indices(st.epilogue)
<1>1. c \in Seq(Op) /\ Len(c) \in Nat /\ ops = c
  BY DEF Key, ops
<1>2. st \in Stage /\ lo \in 1 .. Len(c) /\ hi \in lo .. Len(c)
  BY DEF Covers
<1>3. st.prologue \in Seq(Nat) /\ st.epilogue \in Seq(Nat) /\ st.stencil \in Nat
  BY <1>2 DEF Stage
<1>4. P \in Seq(Nat) /\ \A i : Lists(P, i) <=> i \in Arguable /\ Lists(st.prologue, i)
  BY <1>3, ParamIndices DEF Lists
<1>5. E \in Seq(Nat) /\ \A i : Lists(E, i) <=> i \in Arguable /\ Lists(st.epilogue, i)
  BY <1>3, ParamIndices DEF Lists
<1>6. R \in Seq(Nat)
  BY <1>3
<1>7. \A i : Lists(<<>>, i) <=> FALSE
  BY DEF Lists
<1>8. \A i : Lists(<<st.stencil>>, i) <=> i = st.stencil
  BY <1>3 DEF Lists
<1>9. st.stencil # 0 => st.stencil \in lo .. hi /\ is_stencil(c[st.stencil].kind)
  BY <1>2 DEF Covers
<1>10. st.stencil # 0 => (runtime_radius(st) <=> st.stencil \in Arguable)
  <2> SUFFICES ASSUME st.stencil # 0 PROVE runtime_radius(st) <=> st.stencil \in Arguable
    OBVIOUS
  <2>1. st.stencil \in 1 .. Len(c)
    BY <1>1, <1>2, <1>9
  <2>2. c[st.stencil] \in Op
    BY <1>1, <2>1
  <2>3. c[st.stencil].kind \in OpKinds
    BY <2>2 DEF Op
  <2>4. takes_param(c[st.stencil].kind) <=> c[st.stencil].kind = "gaussian"
    BY <2>3, <1>9, SpecFacts
  <2> QED
    BY <1>1, <1>3, <2>4 DEF runtime_radius, Arguable
<1>11. \A i : Lists(R, i) <=> i = st.stencil /\ st.stencil # 0 /\ st.stencil \in Arguable
  <2>1. runtime_radius(st) => st.stencil # 0
    BY DEF runtime_radius
  <2>2. CASE runtime_radius(st)
    BY <2>1, <2>2, <1>8, <1>10
  <2>3. CASE ~runtime_radius(st)
    BY <2>3, <1>7, <1>10
  <2> QED
    BY <2>2, <2>3
<1>12. Signature(st) = (R \o P) \o E
  BY DEF Signature
<1> HIDE DEF R, P, E
<1>13. R \o P \in Seq(Nat) /\ (R \o P) \o E \in Seq(Nat)
  BY <1>4, <1>5, <1>6
<1>14. ASSUME NEW i PROVE Lists((R \o P) \o E, i) <=> Lists(R, i) \/ Lists(P, i) \/ Lists(E, i)
  BY <1>4, <1>5, <1>6, <1>13, ListsConcat
<1>15. ASSUME NEW i \in lo .. hi PROVE i = st.stencil \/ Lists(st.prologue, i) \/ Lists(st.epilogue, i)
  <2>1. lo \in Nat /\ hi \in Int /\ lo <= hi + 1 /\ i \in Int
    BY <1>1, <1>2
  <2>2. CASE st.stencil = 0
    <3>1. st.prologue = Run(lo, hi)
      BY <1>2, <2>2 DEF Covers
    <3> QED
      BY <2>1, <3>1, ListsRun
  <2>3. CASE st.stencil # 0
    <3> DEFINE s == st.stencil
    <3>1. s \in lo .. hi /\ st.prologue = Run(lo, s - 1) /\ st.epilogue = Run(s + 1, hi)
      BY <1>2, <2>3 DEF Covers
    <3>2. s - 1 \in Int /\ lo <= s - 1 + 1 /\ s + 1 \in Nat /\ s + 1 <= hi + 1
      BY <2>1, <3>1
    <3>3. i = s \/ i \in lo .. s - 1 \/ i \in s + 1 .. hi
      BY <2>1, <3>1
    <3> HIDE DEF s
    <3>4. i \in lo .. s - 1 => Lists(Run(lo, s - 1), i)
      BY <2>1, <3>2, ListsRun
    <3>5. i \in s + 1 .. hi => Lists(Run(s + 1, hi), i)
      BY <2>1, <3>2, ListsRun
    <3> QED
      BY <3>1, <3>3, <3>4, <3>5 DEF s
  <2> QED
    BY <2>2, <2>3
<1>16. ASSUME NEW i \in lo .. hi PROVE Lists((R \o P) \o E, i) <=> i \in Arguable
  <2>1. i # 0
    BY <1>1, <1>2
  <2> QED
    BY <2>1, <1>4, <1>5, <1>11, <1>14, <1>15
<1> QED
  BY <1>12, <1>13, <1>16

(* A block has no more threads than the hardware runs. *)
LEMMA BlockFits ==
    ASSUME NEW has_stencil, NEW size \in 0 .. kMaxTileSize
    PROVE  LET d == block_dim(has_stencil, size)
           IN  d \in Nat /\ d * d <= kMaxBlockThreads
<1>1. kNaiveBlockDim \in Nat /\ kNaiveBlockDim * kNaiveBlockDim <= kMaxBlockThreads
  BY FusionAssumption
<1>2. size \in Nat /\ size <= 32
  BY DEF kMaxTileSize
<1>3. size * size <= 32 * 32
  <2>1. size * size <= 32 * size
    BY <1>2
  <2> QED
    BY <1>2, <2>1
<1>4. size * size <= kMaxBlockThreads
  BY <1>2, <1>3 DEF kMaxBlockThreads
<1> QED
  BY <1>1, <1>2, <1>4 DEF block_dim

(* emit_stage compiles the ops that its stage covers. *)
LEMMA GeneratedCompiled ==
    ASSUME key \in Key, NEW st, NEW lo, NEW hi, Covers(key.chain, st, lo, hi)
    PROVE  Compiled(Generated(st), key, lo, hi)
<1> DEFINE c == key.chain
           g == Generated(st)
           n == hi - lo + 1
           B(j) == [at |-> lo + j - 1, kind |-> c[lo + j - 1].kind, literal |-> Literal(key, lo + j - 1)]
<1>1. c \in Seq(Op) /\ Len(c) \in Nat /\ ops = c
  BY DEF Key, ops
<1>2. st \in Stage /\ lo \in 1 .. Len(c) /\ hi \in lo .. Len(c)
  BY DEF Covers
<1>3. lo \in Nat /\ hi \in Int /\ lo <= hi + 1 /\ n \in Nat
  BY <1>1, <1>2
<1>4. Body(st) = Run(lo, hi)
  BY <1>1, BodyIsRun
<1>5. Len(Run(lo, hi)) = n /\ \A j \in 1 .. n : Run(lo, hi)[j] = lo + j - 1
  BY <1>3, RunType
<1>6. \A j \in 1 .. n : lo + j - 1 \in lo .. hi /\ lo + j - 1 \in 1 .. Len(c) /\ lo + j - 1 \in Nat
  BY <1>1, <1>2, <1>3
<1>7. g.body = [j \in 1 .. n |-> B(j)]
  <2>1. g.body = [k \in 1 .. Len(Body(st)) |->
                    [at |-> Body(st)[k], kind |-> ops[Body(st)[k]].kind,
                     literal |-> IF parameterized THEN 0 ELSE ops[Body(st)[k]].param]]
    BY DEF Generated
  <2>2. \A j \in 1 .. n : [at |-> Body(st)[j], kind |-> ops[Body(st)[j]].kind,
                           literal |-> IF parameterized THEN 0 ELSE ops[Body(st)[j]].param] = B(j)
    BY <1>1, <1>4, <1>5 DEF Literal, parameterized
  <2>3. Len(Body(st)) = n
    BY <1>4, <1>5
  <2> QED
    BY <2>1, <2>2, <2>3
<1>8. \A j \in 1 .. n : B(j) \in Step
  <2> TAKE j \in 1 .. n
  <2>1. c[lo + j - 1] \in Op /\ lo + j - 1 \in Nat
    BY <1>1, <1>6
  <2>2. c[lo + j - 1].kind \in OpKinds /\ c[lo + j - 1].param \in Int
    BY <2>1 DEF Op
  <2>3. Literal(key, lo + j - 1) \in Int
    BY <2>2 DEF Literal
  <2> QED
    BY <2>1, <2>2, <2>3 DEF Step
<1>9. g.body \in Seq(Step)
  <2> HIDE DEF B, n
  <2>1. [j \in 1 .. n |-> B(j)] \in [1 .. n -> Step]
    BY <1>8
  <2>2. [j \in 1 .. n |-> B(j)] \in Seq(Step)
    BY <1>3, <2>1, SeqDef
  <2> QED
    BY <1>7, <2>2
<1>10. /\ g.signature = Signature(st) /\ g.param_ops = Signature(st) /\ g.channels = key.channels
       /\ g.block_dim = block_dim(st.stencil # 0, key.tile_size)
  BY DEF Generated, Signature, param_ops
<1>11. Signature(st) \in Seq(Nat) /\ \A i \in lo .. hi : Lists(Signature(st), i) <=> i \in Arguable
  BY SignatureLists
<1>12. g.block_dim \in Nat /\ g.block_dim * g.block_dim <= kMaxBlockThreads
  <2>1. key.tile_size \in 0 .. kMaxTileSize
    BY DEF Key
  <2> QED
    BY <1>10, <2>1, BlockFits
<1>13. key.channels \in {1, 3, 4}
  BY DEF Key
<1>14. g = [body |-> g.body, signature |-> g.signature, param_ops |-> g.param_ops, channels |-> g.channels,
            block_dim |-> g.block_dim]
  BY DEF Generated
<1> HIDE DEF g
<1>15. g \in Kernel
  BY <1>9, <1>10, <1>11, <1>12, <1>13, <1>14 DEF Kernel
<1>16. \A i \in lo .. hi : i \in Arguable <=> key.constants = "parameterized" /\ takes_param(c[i].kind)
  BY <1>1, <1>3 DEF Arguable, parameterized
<1> QED
  BY <1>2, <1>7, <1>10, <1>11, <1>12, <1>15, <1>16 DEF Compiled, g

(* The radius of any op of the table, read as a stencil's, is at most 12. *)
LEMMA RadiusBound ==
    ASSUME NEW op \in Op
    PROVE  /\ stencil_radius(op) \in 1 .. 12
           /\ op.kind = "gaussian" => gaussian_taps(op.param) <= kMaxGaussianTaps
<1>1. op.kind \in OpKinds /\ op.param \in Int /\ in_range(op.kind, op.param)
  BY DEF Op
<1>2. -100 <= op.param /\ op.param <= 400
  BY <1>1, SpecFacts
<1>3. gaussian_radius(op.param) \in 1 .. 12
  <2> DEFINE r == (3 * op.param + 99) \div 100
  <2>1. r \in Int /\ r <= 12
    BY <1>1, <1>2
  <2> HIDE DEF r
  <2>2. gaussian_radius(op.param) = IF r < 1 THEN 1 ELSE r
    BY DEF gaussian_radius, r
  <2> QED
    BY <2>1, <2>2
<1> QED
  BY <1>3 DEF stencil_radius, gaussian_taps, kMaxGaussianTaps

(* codegen throws for no stage of a key that the server may look up: three *)
(* colours of a 32-cell tile with an apron of 12 fit the shared memory.    *)
LEMMA StageEmittable ==
    ASSUME Served(key), main_accepts(options), NEW st, NEW lo, NEW hi, Covers(key.chain, st, lo, hi)
    PROVE  Emittable(st)
<1>1. key \in Key
  BY DEF Served
<1>2. is_supported_channel_count(key.channels)
  BY <1>1 DEF Key, is_supported_channel_count
<1>3. is_supported_tile(key.tile, key.tile_size) /\ is_supported_constants(key.constants, key.tile)
  BY DEF Served, main_accepts
<1>4. ASSUME Tiled(st)
      PROVE  shared_bytes(color_channels(key.channels), stencil_radius(ops[st.stencil]), key.tile_size)
                <= kMaxStaticSharedBytes
  <2> DEFINE r == stencil_radius(ops[st.stencil])
             e == key.tile_size + 2 * r
             k == color_channels(key.channels)
  <2>1. key.chain \in Seq(Op) /\ Len(key.chain) \in Nat /\ ops = key.chain
    BY <1>1 DEF Key, ops
  <2>2. st.stencil \in lo .. hi /\ lo \in 1 .. Len(key.chain) /\ hi \in lo .. Len(key.chain)
    BY <1>4 DEF Covers, Tiled
  <2>3. st.stencil \in 1 .. Len(key.chain)
    BY <2>1, <2>2
  <2>4. r \in 1 .. 12
    BY <2>1, <2>3, RadiusBound
  <2>5. key.tile_size \in 0 .. 32
    BY <1>1 DEF Key, kMaxTileSize
  <2>6. k \in 1 .. 3
    BY <1>1 DEF Key, color_channels
  <2> HIDE DEF r
  <2>7. e \in Nat /\ e <= 56
    BY <2>4, <2>5
  <2>8. shared_bytes(k, r, key.tile_size) = k * e * e * 4
    BY DEF shared_bytes
  <2> HIDE DEF e, k
  <2>9. k * e <= 168 /\ k * e \in Nat
    <3>1. k * e <= 3 * e
      BY <2>6, <2>7
    <3> QED
      BY <2>6, <2>7, <3>1
  <2>10. (k * e) * e <= 168 * 56
    <3>1. (k * e) * e <= 168 * e
      BY <2>7, <2>9
    <3> QED
      BY <2>7, <2>9, <3>1
  <2>11. (k * e) * e \in Nat
    BY <2>7, <2>9
  <2>12. k * e * e * 4 <= 37632 /\ k * e * e * 4 \in Nat
    BY <2>10, <2>11
  <2>13. shared_bytes(k, r, key.tile_size) <= kMaxStaticSharedBytes
    BY <2>8, <2>12 DEF kMaxStaticSharedBytes
  <2> QED
    BY <2>13 DEF k, r
<1> QED
  BY <1>2, <1>3, <1>4 DEF Emittable

----------------------------------------------------------------------------
(* Programs                                                                *)

(* A kernel's body entry by entry *)
EntryPerOp(kernel, k, lo, hi) ==
    /\ lo \in Nat \ {0} /\ hi \in Nat /\ lo <= hi /\ hi <= Len(k.chain)
    /\ hi - lo + 1 \in Nat \ {0}
    /\ Len(kernel.body) = hi - lo + 1
    /\ \A j \in 1 .. hi - lo + 1 :
          /\ lo + j - 1 \in lo .. hi
          /\ kernel.body[j].at = lo + j - 1
          /\ kernel.body[j].kind = k.chain[lo + j - 1].kind
          /\ kernel.body[j].literal = Literal(k, lo + j - 1)
    /\ kernel.body[Len(kernel.body)].at = hi

(* A kernel's body has an entry per op. *)
LEMMA BodyOf ==
    ASSUME NEW kernel, NEW k \in Key, NEW lo, NEW hi, Compiled(kernel, k, lo, hi)
    PROVE  EntryPerOp(kernel, k, lo, hi)
<1> DEFINE n == hi - lo + 1
           B(j) == [at |-> lo + j - 1, kind |-> k.chain[lo + j - 1].kind, literal |-> Literal(k, lo + j - 1)]
<1>1. Len(k.chain) \in Nat
  BY DEF Key
<1>2. lo \in 1 .. Len(k.chain) /\ hi \in lo .. Len(k.chain)
  BY DEF Compiled
<1>3. lo \in Nat \ {0} /\ hi \in Nat /\ lo <= hi /\ hi <= Len(k.chain) /\ n \in Nat \ {0} /\ n \in 1 .. n /\ lo + n - 1 = hi
  BY <1>1, <1>2
<1>4. kernel.body = [j \in 1 .. n |-> B(j)]
  BY DEF Compiled
<1>5. kernel.body \in Seq(Step)
  BY DEF Compiled, Kernel
<1>6. Len(kernel.body) = n
  <2> HIDE DEF n, B
  <2>1. DOMAIN kernel.body = 1 .. n
    BY <1>4
  <2>2. DOMAIN kernel.body = 1 .. Len(kernel.body) /\ Len(kernel.body) \in Nat
    BY <1>5, LenProperties
  <2> QED
    BY <2>1, <2>2, <1>3
<1>7. \A j \in 1 .. n : lo + j - 1 \in lo .. hi /\ kernel.body[j] = B(j)
  BY <1>3, <1>4
<1>8. \A j \in 1 .. n : /\ kernel.body[j].at = lo + j - 1
                        /\ kernel.body[j].kind = k.chain[lo + j - 1].kind
                        /\ kernel.body[j].literal = Literal(k, lo + j - 1)
  <2> HIDE DEF n
  <2> TAKE j \in 1 .. n
  <2>1. kernel.body[j] = B(j)
    BY <1>7
  <2> QED
    BY <2>1
<1>9. kernel.body[n].at = hi
  <2> HIDE DEF n
  <2> QED
    BY <1>3, <1>8
<1> HIDE DEF n
<1>10. /\ hi - lo + 1 = n
       /\ kernel.body[Len(kernel.body)].at = hi
  BY <1>6, <1>9 DEF n
<1>11. \A j \in 1 .. n : lo + j - 1 \in lo .. hi
  BY <1>7
<1> HIDE DEF B
<1> QED
  BY <1>3, <1>6, <1>8, <1>10, <1>11 DEF EntryPerOp

(* Its last op is the one it was cut at. *)
LEMMA LastOf ==
    ASSUME NEW kernel, NEW k \in Key, NEW lo, NEW hi, Compiled(kernel, k, lo, hi)
    PROVE  kernel.body[Len(kernel.body)].at = hi
<1>1. EntryPerOp(kernel, k, lo, hi)
  BY BodyOf
<1> QED
  BY <1>1 DEF EntryPerOp

(* A complete set of kernels runs the chain. *)
LEMMA PlanRuns ==
    ASSUME NEW k \in Key, NEW plan, Shaped(k.chain, Len(k.chain) + 1, plan), k.chain # <<>>,
           NEW kernels \in Seq(Kernel), Len(kernels) = Len(plan),
           \A n \in 1 .. Len(kernels) :
               Compiled(kernels[n], k, Starts(plan, n), Stops(plan, n, Len(k.chain) + 1))
    PROVE  Runs(kernels, k)
<1> DEFINE m == Len(plan)
           e == Len(k.chain) + 1
<1>1. k.chain \in Seq(Op) /\ Len(k.chain) \in Nat /\ Len(k.chain) # 0
  BY EmptySeq DEF Key
<1>2. plan \in Seq(Stage) /\ m \in Nat /\ m # 0
  <2>1. plan \in Seq(Stage) /\ (plan = <<>> <=> e = 1)
    BY DEF Shaped
  <2> QED
    BY <1>1, <2>1, EmptySeq
<1>3. \A n \in 1 .. m : Compiled(kernels[n], k, Starts(plan, n), Stops(plan, n, e))
  OBVIOUS
<1>4. \A n \in 1 .. m : Reach(kernels, n) = Stops(plan, n, e)
  <2> TAKE n \in 1 .. m
  <2>0. Compiled(kernels[n], k, Starts(plan, n), Stops(plan, n, e))
    BY <1>3
  <2>1. kernels[n].body[Len(kernels[n].body)].at = Stops(plan, n, e)
    BY <2>0, LastOf, Zenon
  <2>2. n # 0
    BY <1>2
  <2> QED
    BY <2>1, <2>2 DEF Reach
<1>5. \A n \in 1 .. m : Reach(kernels, n - 1) + 1 = Starts(plan, n)
  <2> TAKE n \in 1 .. m
  <2>1. CASE n = 1
    BY <2>1 DEF Reach, Starts
  <2>2. CASE n # 1
    <3>1. n - 1 \in 1 .. m /\ n - 1 # m /\ n - 1 + 1 = n
      BY <1>2, <2>2
    <3>2. Reach(kernels, n - 1) = plan[n].stencil - 1
      BY <1>4, <3>1 DEF Stops
    <3>3. plan[n] \in Stage
      BY <1>2
    <3>4. plan[n].stencil \in Nat
      BY <3>3 DEF Stage
    <3>5. plan[n].stencil - 1 + 1 = plan[n].stencil
      BY <3>4
    <3> QED
      BY <2>2, <3>2, <3>5 DEF Starts
  <2> QED
    BY <2>1, <2>2
<1>6. Reach(kernels, m) = Len(k.chain)
  <2>1. m \in 1 .. m
    BY <1>2
  <2>2. Stops(plan, m, e) = e - 1
    BY DEF Stops
  <2> QED
    BY <1>1, <1>4, <2>1, <2>2
<1>7. \A n \in 1 .. m : Compiled(kernels[n], k, Reach(kernels, n - 1) + 1, Reach(kernels, n))
  BY <1>3, <1>4, <1>5
<1> HIDE DEF e
<1> QED
  BY <1>2, <1>6, <1>7 DEF Runs

(* emit_stage adds the kernel of the next stage; with the last one the     *)
(* program is complete.                                                    *)
LEMMA EmitStep ==
    ASSUME Served(key), key.chain # <<>>, Planned(key.chain, index, stages), index > Len(key.chain),
           Emitted(program, key, stages)
    PROVE  LET st == stages[Len(program) + 1]
               kernels == Append(program, Generated(st))
           IN  /\ \E lo, hi : Covers(key.chain, st, lo, hi)
               /\ kernels \in Seq(Kernel)
               /\ Len(kernels) < Len(stages) => Emitted(kernels, key, stages)
               /\ ~(Len(kernels) < Len(stages)) => Runs(kernels, key)
<1> DEFINE c == key.chain
           m == Len(program)
           st == stages[m + 1]
           g == Generated(st)
           kernels == Append(program, g)
           e == Len(c) + 1
<1>1. key \in Key /\ Len(c) \in Nat
  BY DEF Served, Key
<1>2. Shaped(c, e, stages)
  <2>1. index \in 1 .. Len(c) + 1
    BY DEF Planned, Shaped
  <2>2. index = e
    BY <1>1, <2>1
  <2> QED
    BY <2>2 DEF Planned
<1>3. program \in Seq(Kernel) /\ m \in Nat /\ m < Len(stages) /\ stages \in Seq(Stage) /\ Len(stages) \in Nat
  BY <1>2 DEF Emitted, Shaped
<1>4. m + 1 \in 1 .. Len(stages)
  BY <1>3
<1>5. Covers(c, st, Starts(stages, m + 1), Stops(stages, m + 1, e))
  BY <1>2, <1>4 DEF Shaped
<1>6. Compiled(g, key, Starts(stages, m + 1), Stops(stages, m + 1, e))
  BY <1>1, <1>5, GeneratedCompiled
<1>7. g \in Kernel
  BY <1>6 DEF Compiled
<1> HIDE DEF g
<1>8. /\ kernels \in Seq(Kernel) /\ Len(kernels) = m + 1 /\ kernels[m + 1] = g
      /\ \A n \in 1 .. m : kernels[n] = program[n]
  BY <1>3, <1>7, AppendProperties
<1> HIDE DEF kernels
<1>9. \A n \in 1 .. m + 1 : Compiled(kernels[n], key, Starts(stages, n), Stops(stages, n, e))
  <2> TAKE n \in 1 .. m + 1
  <2>1. n = m + 1 \/ n \in 1 .. m
    BY <1>3
  <2>2. n \in 1 .. m => Compiled(program[n], key, Starts(stages, n), Stops(stages, n, e))
    BY DEF Emitted
  <2> QED
    BY <2>1, <2>2, <1>6, <1>8
<1>10. Len(kernels) < Len(stages) => Emitted(kernels, key, stages)
  BY <1>8, <1>9 DEF Emitted
<1>11. ~(Len(kernels) < Len(stages)) => Runs(kernels, key)
  <2> SUFFICES ASSUME ~(Len(kernels) < Len(stages)) PROVE Runs(kernels, key)
    OBVIOUS
  <2>1. Len(kernels) = Len(stages)
    BY <1>3, <1>8
  <2> QED
    BY <2>1, <1>1, <1>2, <1>8, <1>9, PlanRuns
<1> QED
  BY <1>5, <1>8, <1>10, <1>11 DEF kernels, g

----------------------------------------------------------------------------
(* KernelCache::get                                                        *)

(* What equality of keys says about the chains *)
LEMMA EqualChains ==
    ASSUME NEW a \in Key, NEW b \in Key, Equal(a, b)
    PROVE  /\ Len(a.chain) = Len(b.chain)
           /\ SameKinds(a.chain, b.chain)
           /\ \A i \in 1 .. Len(a.chain) : Literal(a, i) = Literal(b, i)
           /\ Equal(b, a)
<1>1. a.constants \in {"baked", "parameterized"} /\ a.constants = b.constants /\ Len(a.chain) = Len(b.chain)
  BY DEF Key, Equal
<1>2. \A i \in 1 .. Len(a.chain) : a.chain[i].kind = b.chain[i].kind
  BY DEF Equal
<1>3. \A i \in 1 .. Len(a.chain) : a.constants = "baked" => a.chain[i].param = b.chain[i].param
  BY DEF Equal, keyed_by_params
<1>4. \A i \in 1 .. Len(a.chain) : Literal(a, i) = Literal(b, i)
  BY <1>1, <1>3 DEF Literal
<1>5. a.channels = b.channels /\ a.tile = b.tile /\ a.tile_size = b.tile_size
  BY DEF Equal
<1>6. Equal(b, a)
  BY <1>1, <1>2, <1>3, <1>5 DEF Equal, keyed_by_params
<1> QED
  BY <1>1, <1>2, <1>4, <1>6 DEF SameKinds

(* Kernels compiled for one key serve an equal one. *)
LEMMA EqualRuns ==
    ASSUME NEW a \in Key, NEW b \in Key, Equal(a, b), NEW kernels, Runs(kernels, a)
    PROVE  Runs(kernels, b)
<1>1. /\ Len(a.chain) = Len(b.chain) /\ SameKinds(a.chain, b.chain)
      /\ \A i \in 1 .. Len(a.chain) : Literal(a, i) = Literal(b, i)
  BY EqualChains
<1>2. a.channels = b.channels /\ a.constants = b.constants
  BY DEF Equal
<1>3. Len(a.chain) \in Nat
  BY DEF Key
<1>4. ASSUME NEW kernel, NEW lo, NEW hi, Compiled(kernel, a, lo, hi)
      PROVE  Compiled(kernel, b, lo, hi)
  <2>1. kernel \in Kernel /\ lo \in 1 .. Len(a.chain) /\ hi \in lo .. Len(a.chain)
    BY <1>4 DEF Compiled
  <2>2. \A i \in lo .. hi : i \in 1 .. Len(a.chain)
    BY <1>3, <2>1
  <2>3. \A j \in 1 .. hi - lo + 1 : lo + j - 1 \in lo .. hi
    BY <1>3, <2>1
  <2>4. \A i \in lo .. hi : a.chain[i].kind = b.chain[i].kind /\ Literal(a, i) = Literal(b, i)
    BY <1>1, <2>2 DEF SameKinds
  <2>5. \A j \in 1 .. hi - lo + 1 :
           [at |-> lo + j - 1, kind |-> a.chain[lo + j - 1].kind, literal |-> Literal(a, lo + j - 1)]
             = [at |-> lo + j - 1, kind |-> b.chain[lo + j - 1].kind, literal |-> Literal(b, lo + j - 1)]
    BY <2>3, <2>4
  <2>6. kernel.body = [j \in 1 .. hi - lo + 1 |->
           [at |-> lo + j - 1, kind |-> a.chain[lo + j - 1].kind, literal |-> Literal(a, lo + j - 1)]]
    BY <1>4 DEF Compiled
  <2>7. kernel.body = [j \in 1 .. hi - lo + 1 |->
           [at |-> lo + j - 1, kind |-> b.chain[lo + j - 1].kind, literal |-> Literal(b, lo + j - 1)]]
    BY <2>5, <2>6
  <2>8. /\ kernel.param_ops = kernel.signature /\ kernel.channels = a.channels
        /\ kernel.block_dim * kernel.block_dim <= kMaxBlockThreads
        /\ \A i \in lo .. hi :
              Lists(kernel.signature, i) <=> a.constants = "parameterized" /\ takes_param(a.chain[i].kind)
    BY <1>4 DEF Compiled
  <2> QED
    BY <1>1, <1>2, <2>1, <2>4, <2>7, <2>8 DEF Compiled
<1>5. /\ kernels \in Seq(Kernel) /\ Len(kernels) > 0 /\ Reach(kernels, Len(kernels)) = Len(a.chain)
      /\ \A n \in 1 .. Len(kernels) : Compiled(kernels[n], a, Reach(kernels, n - 1) + 1, Reach(kernels, n))
  BY DEF Runs
<1>6. \A n \in 1 .. Len(kernels) : Compiled(kernels[n], b, Reach(kernels, n - 1) + 1, Reach(kernels, n))
  BY <1>4, <1>5
<1> QED
  BY <1>1, <1>5, <1>6 DEF Runs

(* Equal keys have equal hashes: the hash feeds no byte that the equality  *)
(* does not compare.                                                       *)
LEMMA EqualHashes ==
    ASSUME NEW a \in Key, NEW b \in Key, Equal(a, b)
    PROVE  hash_kernel_key(a) = hash_kernel_key(b)
<1> DEFINE A == [n \in 1 .. Len(a.chain) |-> OpBytes(a.chain[n], keyed_by_params(a))]
           B == [n \in 1 .. Len(b.chain) |-> OpBytes(b.chain[n], keyed_by_params(b))]
<1>1. /\ Len(a.chain) = Len(b.chain) /\ a.channels = b.channels /\ a.tile = b.tile
      /\ a.tile_size = b.tile_size /\ a.constants = b.constants
  BY DEF Equal
<1>2. keyed_by_params(a) <=> keyed_by_params(b)
  BY <1>1 DEF keyed_by_params
<1>3. ASSUME NEW n \in 1 .. Len(a.chain)
      PROVE  OpBytes(a.chain[n], keyed_by_params(a)) = OpBytes(b.chain[n], keyed_by_params(b))
  <2>1. a.chain[n].kind = b.chain[n].kind /\ (keyed_by_params(a) => a.chain[n].param = b.chain[n].param)
    BY DEF Equal
  <2>2. CASE keyed_by_params(a)
    BY <2>1, <2>2, <1>2 DEF OpBytes
  <2>3. CASE ~keyed_by_params(a)
    BY <2>1, <2>3, <1>2 DEF OpBytes
  <2> QED
    BY <2>2, <2>3
<1>4. A = B
  BY <1>1, <1>3
<1> HIDE DEF A, B
<1>5. hash_kernel_key(a) = hash_i32(Len(a.chain)) \o Concatenation(A) \o hash_i32(a.channels)
                           \o <<TileByte[a.tile]>> \o hash_i32(a.tile_size) \o <<ConstantsByte[a.constants]>>
  BY DEF hash_kernel_key, A
<1>6. hash_kernel_key(b) = hash_i32(Len(b.chain)) \o Concatenation(B) \o hash_i32(b.channels)
                           \o <<TileByte[b.tile]>> \o hash_i32(b.tile_size) \o <<ConstantsByte[b.constants]>>
  BY DEF hash_kernel_key, B
<1> QED
  BY <1>1, <1>4, <1>5, <1>6

(* Every position of the chain is in some kernel. *)
LEMMA EveryOpRuns ==
    ASSUME NEW k \in Key, NEW kernels, Runs(kernels, k), NEW i \in 1 .. Len(k.chain)
    PROVE  \E n \in 1 .. Len(kernels) : i \in Reach(kernels, n - 1) + 1 .. Reach(kernels, n)
<1> DEFINE m == Len(kernels)
           Past == {n \in 1 .. m : i <= Reach(kernels, n)}
<1>1. m \in Nat /\ m > 0 /\ Reach(kernels, m) = Len(k.chain)
  BY DEF Runs
<1>2. \A n \in 1 .. m : Reach(kernels, n - 1) + 1 \in Nat /\ Reach(kernels, n) \in Nat
  <2> TAKE n \in 1 .. m
  <2>1. Compiled(kernels[n], k, Reach(kernels, n - 1) + 1, Reach(kernels, n))
    BY DEF Runs
  <2>2. EntryPerOp(kernels[n], k, Reach(kernels, n - 1) + 1, Reach(kernels, n))
    BY <2>1, BodyOf
  <2> QED
    BY <2>2 DEF EntryPerOp
<1>3. Len(k.chain) \in Nat /\ i \in Nat
  BY DEF Key
<1>4. m \in Past
  BY <1>1, <1>3
<1>5. Past \subseteq Nat
  BY <1>1
<1>6. PICK n \in Past : \A l \in Past : n <= l
  BY <1>4, <1>5, LeastElement
<1>7. n \in 1 .. m /\ n \in Nat /\ i <= Reach(kernels, n)
  BY <1>1, <1>6
<1>8. Reach(kernels, n - 1) \in Nat /\ Reach(kernels, n - 1) < i
  <2>1. CASE n = 1
    BY <2>1, <1>3 DEF Reach
  <2>2. CASE n # 1
    <3>1. n - 1 \in 1 .. m /\ ~(n <= n - 1)
      BY <2>2, <1>1, <1>7
    <3>2. n - 1 \notin Past
      BY <3>1, <1>6
    <3>3. Reach(kernels, n - 1) \in Nat /\ ~(i <= Reach(kernels, n - 1))
      BY <3>1, <3>2, <1>2
    <3> QED
      BY <3>3, <1>3
  <2> QED
    BY <2>1, <2>2
<1>9. i \in Reach(kernels, n - 1) + 1 .. Reach(kernels, n)
  BY <1>2, <1>3, <1>7, <1>8
<1> QED
  BY <1>7, <1>9

(* The kernels tell what they were compiled for: with the same options,    *)
(* equal programs have equal keys.                                         *)
LEMMA ProgramTellsKey ==
    ASSUME NEW a \in Key, NEW b \in Key, NEW kernels, Runs(kernels, a), Runs(kernels, b),
           a.tile = b.tile, a.tile_size = b.tile_size, a.constants = b.constants
    PROVE  Equal(a, b)
<1> DEFINE m == Len(kernels)
<1>1. m \in Nat /\ m > 0 /\ Len(a.chain) = Len(b.chain)
  BY DEF Runs
<1>2. ASSUME NEW n \in 1 .. m
      PROVE  /\ Compiled(kernels[n], a, Reach(kernels, n - 1) + 1, Reach(kernels, n))
             /\ Compiled(kernels[n], b, Reach(kernels, n - 1) + 1, Reach(kernels, n))
  BY DEF Runs
<1>3. a.channels = b.channels
  <2>1. 1 \in 1 .. m
    BY <1>1
  <2>2. kernels[1].channels = a.channels /\ kernels[1].channels = b.channels
    BY <1>2, <2>1 DEF Compiled
  <2> QED
    BY <2>2
<1>4. ASSUME NEW i \in 1 .. Len(a.chain)
      PROVE  a.chain[i].kind = b.chain[i].kind /\ Literal(a, i) = Literal(b, i)
  <2>1. PICK n \in 1 .. m : i \in Reach(kernels, n - 1) + 1 .. Reach(kernels, n)
    BY EveryOpRuns
  <2>2. PICK lo, hi, kernel : lo = Reach(kernels, n - 1) + 1 /\ hi = Reach(kernels, n) /\ kernel = kernels[n]
    OBVIOUS
  <2>3. Compiled(kernel, a, lo, hi) /\ Compiled(kernel, b, lo, hi)
    BY <1>2, <2>2
  <2>4. EntryPerOp(kernel, a, lo, hi) /\ EntryPerOp(kernel, b, lo, hi)
    BY <2>3, BodyOf
  <2>5. lo \in Nat /\ hi \in Nat /\ i \in lo .. hi
    BY <2>1, <2>2, <2>4 DEF EntryPerOp
  <2> DEFINE j == i - lo + 1
  <2>6. j \in 1 .. hi - lo + 1 /\ lo + j - 1 = i
    BY <2>5
  <2> HIDE DEF j
  <2>7. kernel.body[j].kind = a.chain[i].kind /\ kernel.body[j].literal = Literal(a, i)
    BY <2>4, <2>6 DEF EntryPerOp
  <2>8. kernel.body[j].kind = b.chain[i].kind /\ kernel.body[j].literal = Literal(b, i)
    BY <2>4, <2>6 DEF EntryPerOp
  <2> QED
    BY <2>7, <2>8
<1>5. ASSUME NEW i \in 1 .. Len(a.chain), keyed_by_params(a) PROVE a.chain[i].param = b.chain[i].param
  BY <1>4, <1>5 DEF Literal, keyed_by_params
<1> QED
  BY <1>1, <1>3, <1>4, <1>5 DEF Equal

----------------------------------------------------------------------------
(* CudaBackend::launch                                                     *)

(* Each op of a kernel runs with the frame's own parameter: it is passed,  *)
(* it is baked into the key, or the op has none.                           *)
LEMMA OwnParameter ==
    ASSUME NEW k \in Key, job.ops = k.chain, NEW kernel, NEW lo, NEW hi, Compiled(kernel, k, lo, hi),
           NEW j \in 1 .. hi - lo + 1
    PROVE  Applied(kernel)[j] = job.ops[lo + j - 1]
<1> DEFINE i == lo + j - 1
           entry == kernel.body[j]
           read == {m \in 1 .. Len(kernel.signature) : kernel.signature[m] = entry.at}
<1>1. EntryPerOp(kernel, k, lo, hi)
  BY BodyOf
<1>2. /\ lo \in Nat \ {0} /\ hi \in Nat /\ lo <= hi /\ hi <= Len(k.chain)
      /\ Len(kernel.body) = hi - lo + 1
      /\ i \in lo .. hi
      /\ entry.at = i /\ entry.kind = k.chain[i].kind /\ entry.literal = Literal(k, i)
  BY <1>1 DEF EntryPerOp
<1>3. k.chain \in Seq(Op) /\ Len(k.chain) \in Nat
  BY DEF Key
<1>4. i \in 1 .. Len(k.chain)
  BY <1>2, <1>3
<1>5. k.chain[i] \in Op
  BY <1>3, <1>4
<1>6. /\ k.chain[i].kind \in OpKinds /\ k.chain[i].param \in Int
      /\ in_range(k.chain[i].kind, k.chain[i].param)
      /\ k.chain[i] = [kind |-> k.chain[i].kind, param |-> k.chain[i].param]
  BY <1>5 DEF Op
<1>7. /\ kernel.param_ops = kernel.signature
      /\ Lists(kernel.signature, i) <=> k.constants = "parameterized" /\ takes_param(k.chain[i].kind)
  BY <1>2 DEF Compiled
<1> HIDE DEF i
<1>8. ParamOf(kernel, entry) = k.chain[i].param
  <2>1. CASE Lists(kernel.signature, i)
    <3>1. read # {}
      BY <1>2, <2>1 DEF Lists
    <3>2. PICK m : m = CHOOSE x \in read : TRUE
      OBVIOUS
    <3>3. m \in 1 .. Len(kernel.signature) /\ kernel.signature[m] = i
      BY <1>2, <3>1, <3>2
    <3>4. ParamOf(kernel, entry) = Arguments(kernel)[m]
      BY <3>1, <3>2 DEF ParamOf
    <3>5. Arguments(kernel)[m] = job.ops[kernel.param_ops[m]].param
      BY <1>7, <3>3 DEF Arguments
    <3> QED
      BY <1>7, <3>3, <3>4, <3>5
  <2>2. CASE ~Lists(kernel.signature, i)
    <3>1. read = {}
      BY <1>2, <2>2 DEF Lists
    <3>2. ParamOf(kernel, entry) = entry.literal
      BY <3>1 DEF ParamOf
    <3>3. CASE k.constants = "parameterized"
      <4>1. ~takes_param(k.chain[i].kind)
        BY <1>7, <2>2, <3>3
      <4>2. k.chain[i].param = 0
        BY <1>6, <4>1, SpecFacts
      <4> QED
        BY <1>2, <3>2, <3>3, <4>2 DEF Literal
    <3>4. CASE k.constants # "parameterized"
      BY <1>2, <3>2, <3>4 DEF Literal
    <3> QED
      BY <3>3, <3>4
  <2> QED
    BY <2>1, <2>2
<1>9. Applied(kernel)[j] = [kind |-> entry.kind, param |-> ParamOf(kernel, entry)]
  BY <1>2 DEF Applied
<1> QED
  BY <1>2, <1>6, <1>8, <1>9 DEF i

(* A kernel appends to the ops applied so far the ones it was cut for. *)
LEMMA AppliedExtends ==
    ASSUME NEW k \in Key, job.ops = k.chain, NEW kernel, NEW lo, NEW hi, Compiled(kernel, k, lo, hi)
    PROVE  /\ lo - 1 \in 0 .. Len(k.chain) /\ hi \in 0 .. Len(k.chain)
           /\ SubSeq(job.ops, 1, lo - 1) \o Applied(kernel) = SubSeq(job.ops, 1, hi)
<1> DEFINE c == job.ops
           a == SubSeq(c, 1, lo - 1)
           b == Applied(kernel)
           d == SubSeq(c, 1, hi)
<1>1. EntryPerOp(kernel, k, lo, hi)
  BY BodyOf
<1>2. /\ lo \in Nat \ {0} /\ hi \in Nat /\ lo <= hi /\ hi <= Len(c)
      /\ Len(kernel.body) = hi - lo + 1
  BY <1>1 DEF EntryPerOp
<1>3. c \in Seq(Op) /\ Len(c) \in Nat
  BY DEF Key
<1>4. lo - 1 \in 0 .. Len(c) /\ hi \in 0 .. Len(c) /\ 1 \in 1 .. Len(c) + 1 /\ hi - lo + 1 \in Nat
  BY <1>2, <1>3
<1>5. a \in Seq(Op) /\ Len(a) = lo - 1 /\ \A n \in 1 .. lo - 1 : a[n] = c[n]
  BY <1>2, <1>3, <1>4, SubSeqProperties
<1>6. d \in Seq(Op) /\ Len(d) = hi /\ \A n \in 1 .. hi : d[n] = c[n]
  BY <1>2, <1>3, <1>4, SubSeqProperties
<1>7. \A j \in 1 .. hi - lo + 1 : b[j] = c[lo + j - 1]
  BY OwnParameter
<1>8. b \in Seq(Op) /\ Len(b) = hi - lo + 1
  <2>1. \A j \in 1 .. hi - lo + 1 : c[lo + j - 1] \in Op
    <3> TAKE j \in 1 .. hi - lo + 1
    <3>1. lo + j - 1 \in 1 .. Len(c)
      BY <1>2, <1>3
    <3> QED
      BY <1>3, <3>1
  <2>2. b = [j \in 1 .. hi - lo + 1 |-> b[j]]
    BY <1>2 DEF Applied
  <2> HIDE DEF b, c
  <2>3. b \in [1 .. hi - lo + 1 -> Op]
    BY <2>1, <2>2, <1>7
  <2> QED
    BY <1>4, <2>3
<1> HIDE DEF a, b, d, c
<1>9. /\ a \o b \in Seq(Op) /\ Len(a \o b) = Len(a) + Len(b)
      /\ \A n \in 1 .. Len(a) + Len(b) : (a \o b)[n] = IF n <= Len(a) THEN a[n] ELSE b[n - Len(a)]
  BY <1>5, <1>8, ConcatProperties
<1>10. Len(a \o b) = hi
  BY <1>2, <1>5, <1>8, <1>9
<1>11. ASSUME NEW n \in 1 .. hi PROVE (a \o b)[n] = d[n]
  <2>0. n \in 1 .. Len(a) + Len(b) /\ n \in Nat
    BY <1>2, <1>5, <1>8
  <2>1. CASE n <= lo - 1
    <3>1. n \in 1 .. lo - 1
      BY <2>0, <2>1, <1>2
    <3> QED
      BY <2>0, <2>1, <3>1, <1>5, <1>6, <1>9
  <2>2. CASE ~(n <= lo - 1)
    <3>1. n - (lo - 1) \in 1 .. hi - lo + 1 /\ lo + (n - (lo - 1)) - 1 = n
      BY <2>0, <2>2, <1>2
    <3>2. (a \o b)[n] = b[n - (lo - 1)]
      BY <2>0, <2>2, <1>5, <1>9
    <3>3. b[n - (lo - 1)] = c[n]
      BY <3>1, <1>7
    <3> QED
      BY <3>2, <3>3, <1>6
  <2> QED
    BY <2>1, <2>2
<1>12. a \o b = d
  BY <1>6, <1>9, <1>10, <1>11, SeqEqual
<1> QED
  BY <1>4, <1>12 DEF a, b, c, d

(* What a frame may be made of is never mistaken for an unwritten buffer. *)
LEMMA ImageIsNotJunk ==
    ASSUME NEW applied \in Seq(Op), NEW channels \in Channels
    PROVE  [ops |-> applied, channels |-> channels] # Junk
<1>1. Op \subseteq [kind : DOMAIN kOpSpecs, param : Int]
  BY KindsOfTable DEF Op
<1> DEFINE R == [kind : DOMAIN kOpSpecs, param : Int]
<1> HIDE DEF R
<1>2. applied \in Seq(R)
  <2>1. Len(applied) \in Nat /\ applied \in [1 .. Len(applied) -> Op]
    OBVIOUS
  <2>2. applied \in [1 .. Len(applied) -> R]
    BY <1>1, <2>1 DEF R
  <2> QED
    BY <2>1, <2>2
<1>3. Junk \notin [ops : Seq(R), channels : Channels]
  BY FusionAssumption DEF R
<1> QED
  BY <1>2, <1>3

(* A launch turns the image of the ops before its stage into that of the   *)
(* ops up to its end.                                                      *)
LEMMA LaunchStep ==
    ASSUME key \in Key, job \in Frame, key = key_for(job, options), Runs(program, key),
           stage \in 1 .. Len(program)
    PROVE  Output(program[stage], [ops |-> SubSeq(job.ops, 1, Reach(program, stage - 1)), channels |-> job.channels])
             = [ops |-> SubSeq(job.ops, 1, Reach(program, stage)), channels |-> job.channels]
<1> DEFINE lo == Reach(program, stage - 1) + 1
           hi == Reach(program, stage)
           kernel == program[stage]
           before == SubSeq(job.ops, 1, lo - 1)
           image == [ops |-> before, channels |-> job.channels]
<1>1. job.ops = key.chain /\ job.channels = key.channels
  BY DEF key_for
<1>2. Compiled(kernel, key, lo, hi)
  BY DEF Runs
<1>3. kernel.channels = job.channels
  BY <1>1, <1>2 DEF Compiled
<1>4. EntryPerOp(kernel, key, lo, hi)
  BY <1>2, BodyOf
<1>5. lo \in Nat \ {0}
  BY <1>4 DEF EntryPerOp
<1>6. Reach(program, stage - 1) = lo - 1
  <2>1. Reach(program, stage - 1) \in Nat
    <3>1. CASE stage = 1
      BY <3>1 DEF Reach
    <3>2. CASE stage # 1
      <4>0. Len(program) \in Nat
        BY DEF Runs
      <4>1. stage - 1 \in 1 .. Len(program)
        BY <3>2, <4>0
      <4>2. Compiled(program[stage - 1], key, Reach(program, stage - 1 - 1) + 1, Reach(program, stage - 1))
        BY <4>1 DEF Runs
      <4>3. EntryPerOp(program[stage - 1], key, Reach(program, stage - 1 - 1) + 1, Reach(program, stage - 1))
        BY <4>2, BodyOf
      <4> QED
        BY <4>3 DEF EntryPerOp
    <3> QED
      BY <3>1, <3>2
  <2> QED
    BY <2>1
<1> HIDE DEF lo, hi, kernel
<1>7. /\ lo - 1 \in 0 .. Len(job.ops)
      /\ before \o Applied(kernel) = SubSeq(job.ops, 1, hi)
  BY <1>1, <1>2, AppliedExtends
<1>8. job.ops \in Seq(Op) /\ job.channels \in Channels /\ Len(job.ops) \in Nat
  BY DEF Frame
<1>9. before \in Seq(Op)
  <2>1. 1 \in 1 .. Len(job.ops) + 1
    BY <1>8
  <2> QED
    BY <1>7, <1>8, <2>1, PieceType
<1> HIDE DEF before
<1>10. image # Junk
  BY <1>8, <1>9, ImageIsNotJunk
<1>11. Output(kernel, image) = [image EXCEPT !.ops = image.ops \o Applied(kernel)]
  <2> HIDE DEF image
  <2> QED
    BY <1>3, <1>10 DEF Output
<1>12. Output(kernel, image) = [ops |-> before \o Applied(kernel), channels |-> job.channels]
  BY <1>11
<1>13. Output(kernel, image) = [ops |-> SubSeq(job.ops, 1, hi), channels |-> job.channels]
  BY <1>7, <1>12
<1> QED
  BY <1>6, <1>13 DEF before, kernel, hi

----------------------------------------------------------------------------
(* The keys that are looked up                                             *)

(* Every key has the server's own options. *)
LEMMA KeyServed ==
    ASSUME main_accepts(options), NEW frame, frame.ops \in Seq(Op), frame.channels \in {1, 3, 4},
           frame.ops = <<>> \/ SameKinds(frame.ops, chain)
    PROVE  Served(key_for(frame, options))
<1>1. /\ options.tile \in {"naive", "tiled"} /\ options.tile_size \in 0 .. kMaxTileSize
      /\ options.constants \in {"baked", "parameterized"}
  BY DEF main_accepts, is_supported_tile, is_supported_constants, kMaxTileSize
<1>2. key_for(frame, options) \in Key
  BY <1>1 DEF key_for, Key
<1> QED
  BY <1>2 DEF key_for, Served

(* The same ops with other parameters are ops again: the parameters are    *)
(* in their ranges.                                                        *)
LEMMA VariantOps ==
    ASSUME chain \in Seq(Op), NEW other \in Variants
    PROVE  other \in Seq(Op) /\ SameKinds(other, chain)
<1>1. Len(chain) \in Nat /\ DOMAIN chain = 1 .. Len(chain)
  OBVIOUS
<1>2. PICK params \in [DOMAIN chain -> Params \cup {0}] :
         /\ \A i \in DOMAIN chain : params[i] \in ParamsOf(chain[i].kind)
         /\ other = [i \in DOMAIN chain |-> [chain[i] EXCEPT !.param = params[i]]]
  BY DEF Variants
<1>3. ASSUME NEW i \in 1 .. Len(chain)
      PROVE  other[i] \in Op /\ other[i].kind = chain[i].kind
  <2>1. chain[i] \in Op
    OBVIOUS
  <2>2. /\ chain[i].kind \in OpKinds
        /\ chain[i] = [kind |-> chain[i].kind, param |-> chain[i].param]
    BY <2>1 DEF Op
  <2>3. params[i] \in ParamsOf(chain[i].kind)
    BY <1>1, <1>2
  <2>4. params[i] \in Int /\ in_range(chain[i].kind, params[i])
    <3>1. CASE takes_param(chain[i].kind)
      BY <2>3, <3>1, FusionAssumption DEF ParamsOf
    <3>2. CASE ~takes_param(chain[i].kind)
      <4>1. params[i] = 0
        BY <2>3, <3>2 DEF ParamsOf
      <4> QED
        BY <4>1, <3>2, <2>2, SpecFacts
    <3> QED
      BY <3>1, <3>2
  <2>5. other[i] = [chain[i] EXCEPT !.param = params[i]]
    BY <1>1, <1>2
  <2>6. other[i] = [kind |-> chain[i].kind, param |-> params[i]]
    BY <2>2, <2>5
  <2> QED
    BY <2>2, <2>4, <2>6 DEF Op
<1>4. other = [i \in 1 .. Len(chain) |-> other[i]]
  BY <1>1, <1>2
<1>5. other \in Seq(Op) /\ Len(other) = Len(chain)
  <2>1. other \in [1 .. Len(chain) -> Op]
    BY <1>3, <1>4
  <2> QED
    BY <1>1, <2>1
<1> QED
  BY <1>3, <1>5 DEF SameKinds

(* A plan is about the kinds of the ops. *)
LEMMA PlannedForKinds ==
    ASSUME NEW c, NEW d, Len(c) \in Nat, SameKinds(c, d), NEW n, NEW plan, Planned(c, n, plan)
    PROVE  Planned(d, n, plan)
<1>1. Len(d) = Len(c) /\ \A i \in 1 .. Len(c) : c[i].kind = d[i].kind
  BY DEF SameKinds
<1>2. n \in 1 .. Len(c) + 1
  BY DEF Planned, Shaped
<1>3. ASSUME NEW st, NEW lo, NEW hi, Covers(c, st, lo, hi) PROVE Covers(d, st, lo, hi)
  <2>1. lo \in 1 .. Len(c) /\ hi \in lo .. Len(c)
    BY <1>3 DEF Covers
  <2>2. \A i \in lo .. hi : c[i].kind = d[i].kind
    <3> TAKE i \in lo .. hi
    <3>1. i \in 1 .. Len(c)
      BY <2>1
    <3> QED
      BY <1>1, <3>1
  <2> QED
    BY <1>1, <1>3, <2>2 DEF Covers
<1>4. StencilsBefore(c, n) = StencilsBefore(d, n)
  <2>1. \A i \in 1 .. n - 1 : c[i].kind = d[i].kind
    <3> TAKE i \in 1 .. n - 1
    <3>1. i \in 1 .. Len(c)
      BY <1>2
    <3> QED
      BY <1>1, <3>1
  <2> QED
    BY <2>1 DEF StencilsBefore
<1>5. Shaped(d, n, plan)
  <2>1. \A k \in 1 .. Len(plan) : Covers(d, plan[k], Starts(plan, k), Stops(plan, k, n))
    BY <1>3 DEF Planned, Shaped
  <2> QED
    BY <1>1, <2>1 DEF Planned, Shaped
<1>6. Counted(d, n, plan)
  BY <1>4 DEF Planned, Counted
<1> QED
  BY <1>5, <1>6 DEF Planned

(* Nothing is planned yet. *)
LEMMA NothingPlanned == ASSUME NEW c, Len(c) \in Nat PROVE Planned(c, 1, <<>>)
<1>1. StencilsBefore(c, 1) = {}
  BY DEF StencilsBefore
<1>2. <<>> \in Seq(Stage) /\ Len(<<>>) = 0 /\ 1 \in 1 .. Len(c) + 1
  OBVIOUS
<1>3. Shaped(c, 1, <<>>)
  BY <1>2 DEF Shaped
<1> QED
  BY <1>1, <1>3 DEF Planned, Counted

(* The same holds of a plan that was made for an earlier key. *)
LEMMA PlanOutlivesKey ==
    ASSUME Served(key), Planned(key.chain, index, stages), NEW k, Served(k), k.chain # <<>>
    PROVE  Planned(k.chain, index, stages)
<1>1. /\ Len(key.chain) \in Nat /\ Len(k.chain) \in Nat
      /\ key.chain \in Seq(Op) /\ k.chain \in Seq(Op)
  BY DEF Served, Key
<1>2. CASE key.chain = <<>>
  <2>1. Len(key.chain) = 0
    BY <1>2
  <2>2. index = 1 /\ stages = <<>>
    BY <2>1 DEF Planned, Shaped
  <2> QED
    BY <1>1, <2>2, NothingPlanned
<1>3. CASE key.chain # <<>>
  <2>1. SameKinds(key.chain, chain) /\ SameKinds(k.chain, chain)
    BY <1>3 DEF Served
  <2>2. SameKinds(key.chain, k.chain)
    BY <2>1 DEF SameKinds
  <2> QED
    BY <1>1, <2>2, PlannedForKinds
<1> QED
  BY <1>2, <1>3

(* KernelCache::get finds kernels that run the chain it was asked for, or  *)
(* starts to plan one that no entry serves.                                *)
LEMMA GetStep ==
    ASSUME PlanOK, CacheOK, NEW k, Served(k), k.chain # <<>>, get(k),
           cache' = cache, options' = options, chain' = chain
    PROVE  /\ PlanOK' /\ ProgramFits' /\ CacheOK'
           /\ key' = k
           /\ \/ pc' = "plan" /\ program' = <<>>
              \/ pc' = (IF warming' THEN "idle" ELSE "launch") /\ Runs(program', k)
<1>1. key' = k /\ k \in Key
  BY DEF get, Served
<1>2. Served(key)'
  BY <1>1 DEF Served
<1>3. CacheOK'
  BY DEF CacheOK, Served
<1>4. Len(k.chain) \in Nat /\ Len(k.chain) # 0
  BY <1>1, EmptySeq DEF Key
<1>5. CASE /\ Found(k) = {} /\ pc' = "plan" /\ index' = 1 /\ stages' = <<>> /\ program' = <<>>
  <2>1. ASSUME NEW entry \in cache PROVE ~Equal(entry.key, k)
    <3>1. entry.key \in Key
      BY DEF CacheOK, Served
    <3>2. Equal(entry.key, k) => hash_kernel_key(entry.key) = hash_kernel_key(k)
      BY <1>1, <3>1, EqualHashes
    <3> QED
      BY <1>5, <3>2 DEF Found
  <2>2. (\A entry \in cache : ~Equal(entry.key, key))'
    BY <1>1, <2>1
  <2>3. Planned(k.chain, 1, <<>>)
    BY <1>4, NothingPlanned
  <2>4. Planned(key.chain, index, stages)'
    BY <1>1, <1>5, <2>3
  <2>5. ~(index' > Len(k.chain))
    BY <1>4, <1>5
  <2>6. PlanOK'
    BY <1>1, <1>2, <1>5, <2>2, <2>4, <2>5 DEF PlanOK
  <2>7. ProgramFits'
    BY <1>5 DEF ProgramFits
  <2> QED
    BY <1>1, <1>3, <1>5, <2>6, <2>7
<1>6. CASE /\ Found(k) # {} /\ pc' = (IF warming' THEN "idle" ELSE "launch")
           /\ program' = (CHOOSE entry \in Found(k) : TRUE).program
           /\ UNCHANGED <<index, stages>>
  <2>1. PICK entry \in Found(k) : program' = entry.program
    BY <1>6
  <2>2. entry \in cache /\ Equal(entry.key, k)
    BY <2>1 DEF Found
  <2>3. entry.key \in Key /\ Runs(entry.program, entry.key)
    BY <2>2 DEF CacheOK, Served
  <2>4. Runs(program', k)
    BY <1>1, <2>1, <2>2, <2>3, EqualRuns
  <2>5. Planned(k.chain, index, stages)
    BY PlanOutlivesKey DEF PlanOK
  <2>6. Planned(key.chain, index, stages)'
    BY <1>1, <1>6, <2>5
  <2>7. PlanOK'
    BY <1>2, <1>6, <2>6 DEF PlanOK
  <2>8. ProgramFits'
    BY <2>4 DEF ProgramFits, Runs, Compiled
  <2> QED
    BY <1>1, <1>3, <1>6, <2>4, <2>7, <2>8
<1> QED
  BY <1>5, <1>6 DEF get

----------------------------------------------------------------------------
(* Every action keeps the invariant                                        *)

USE DEF request, planner, buffers, vars

(* It holds when the server starts. *)
LEMMA InitOK == Init => IInv
<1> SUFFICES ASSUME Init PROVE IInv
  OBVIOUS
<1> USE DEF Init
<1>1. main_accepts(options)
  OBVIOUS
<1>2. NoFrame.ops = <<>> /\ NoFrame.channels = 1 /\ NoFrame.ops \in Seq(Op)
  BY DEF NoFrame
<1>3. Served(key_for(NoFrame, options))
  BY <1>1, <1>2, KeyServed
<1>4. key.chain = <<>>
  BY <1>2 DEF key_for
<1>5. RequestOK
  <2>1. chain \in Seq(Op) /\ frames \in Nat
    OBVIOUS
  <2>2. warming \in BOOLEAN
    BY Zenon
  <2> QED
    BY <1>1, <1>4, <2>1, <2>2, Zenon DEF RequestOK
<1>6. PlanOK
  <2>1. Planned(key.chain, 1, <<>>)
    BY <1>4, NothingPlanned
  <2> QED
    BY <1>3, <2>1 DEF PlanOK
<1>7. ProgramFits /\ CacheOK /\ ResultOK
  BY DEF ProgramFits, CacheOK, ResultOK
<1>8. LaunchOK
  BY DEF LaunchOK
<1> QED
  BY <1>5, <1>6, <1>7, <1>8 DEF IInv

(* The parser's ops are in range, so that what is built on them may rely   *)
(* on it.                                                                  *)
LEMMA ParseTextOK == IInv /\ ParseText => IInv'
<1> SUFFICES ASSUME IInv, ParseText PROVE IInv'
  OBVIOUS
<1> USE DEF ParseText
<1>1. RequestOK /\ PlanOK /\ ProgramFits /\ CacheOK /\ LaunchOK /\ ResultOK
  BY DEF IInv
<1>2. key.chain = <<>> /\ cache = {} /\ frames = 0 /\ text \in Texts
  BY <1>1 DEF RequestOK
<1>3. text \in Seq(Lexeme)
  BY <1>2, FusionAssumption DEF Lexed
<1>4. chain' \in Seq(Op)
  BY <1>3, ParsedOps
<1>5. pc' \in {"idle", "rejected"}
  OBVIOUS
<1>6. RequestOK'
  BY <1>1, <1>4, <1>5, <1>2 DEF RequestOK
<1>7. PlanOK'
  <2>1. Served(key)'
    BY <1>1, <1>2 DEF PlanOK, Served
  <2> QED
    BY <1>1, <1>5, <2>1 DEF PlanOK
<1>8. ProgramFits'
  BY <1>1 DEF ProgramFits
<1>9. CacheOK'
  BY <1>2 DEF CacheOK
<1>10. LaunchOK'
  BY <1>1, <1>5 DEF LaunchOK
<1>11. ResultOK'
  BY <1>2 DEF ResultOK
<1> QED
  BY <1>6, <1>7, <1>8, <1>9, <1>10, <1>11 DEF IInv

(* Compiling ahead of the frames leaves what they will see in order. *)
LEMMA PrewarmOK == ASSUME NEW channels \in Channels PROVE IInv /\ prewarm(channels) => IInv'
<1> SUFFICES ASSUME IInv, prewarm(channels) PROVE IInv'
  OBVIOUS
<1> USE DEF prewarm
<1>1. RequestOK /\ PlanOK /\ ProgramFits /\ CacheOK /\ LaunchOK /\ ResultOK
  BY DEF IInv
<1> DEFINE frame == [ops |-> chain, channels |-> channels]
           k == key_for(frame, options)
<1>2. chain \in Seq(Op) /\ main_accepts(options)
  BY <1>1 DEF RequestOK
<1>3. channels \in {1, 3, 4}
  BY FusionAssumption DEF is_supported_channel_count
<1>4. SameKinds(chain, chain)
  BY DEF SameKinds
<1>5. frame.ops = chain /\ frame.channels = channels
  OBVIOUS
<1> HIDE DEF frame
<1>6. Served(k)
  BY <1>2, <1>3, <1>4, <1>5, KeyServed
<1>7. k.chain = chain
  BY <1>5 DEF key_for
<1>8. get(k)
  BY DEF frame
<1> HIDE DEF k
<1>9. k.chain # <<>> /\ cache' = cache /\ options' = options /\ chain' = chain
  BY <1>7
<1>10. /\ PlanOK' /\ ProgramFits' /\ CacheOK'
       /\ pc' = "plan" \/ pc' = (IF warming' THEN "idle" ELSE "launch")
  BY <1>1, <1>6, <1>8, <1>9, GetStep
<1>11. pc' \in {"plan", "idle"} /\ warming' = TRUE /\ frames = 0 /\ frames' = 0
  BY <1>10
<1>12. RequestOK'
  BY <1>1, <1>11 DEF RequestOK
<1>13. LaunchOK'
  BY <1>1, <1>11 DEF LaunchOK
<1>14. ResultOK'
  BY <1>11 DEF ResultOK
<1> QED
  BY <1>10, <1>12, <1>13, <1>14 DEF IInv

(* A frame starts with its own pixels in the front buffer, and kernels     *)
(* that run its chain or a plan to make them.                              *)
LEMMA StartFrameOK ==
    ASSUME NEW channels \in Channels, NEW other \in IF frames = 0 THEN {chain} ELSE Variants
    PROVE  IInv /\ StartFrame([ops |-> other, channels |-> channels]) => IInv'
<1> SUFFICES ASSUME IInv, StartFrame([ops |-> other, channels |-> channels]) PROVE IInv'
  OBVIOUS
<1> DEFINE frame == [ops |-> other, channels |-> channels]
           k == key_for(frame, options)
<1>1. RequestOK /\ PlanOK /\ ProgramFits /\ CacheOK /\ LaunchOK /\ ResultOK
  BY DEF IInv
<1>2. chain \in Seq(Op) /\ main_accepts(options) /\ frames \in Nat
  BY <1>1 DEF RequestOK
<1>3. channels \in {1, 3, 4}
  BY FusionAssumption DEF is_supported_channel_count
<1>4. other \in Seq(Op) /\ SameKinds(other, chain)
  <2>1. CASE frames = 0
    BY <1>2, <2>1 DEF SameKinds
  <2>2. CASE frames # 0
    BY <1>2, <2>2, VariantOps
  <2> QED
    BY <2>1, <2>2
<1>5. frame \in Frame /\ frame.ops = other /\ frame.channels = channels
  BY <1>4 DEF Frame
<1>6. StartFrame(frame)
  OBVIOUS
<1> HIDE DEF frame
<1>7. /\ pc = "idle" /\ job' = frame /\ frames' = frames + 1 /\ stage' = 1
      /\ source' = "front" /\ destination' = "back" /\ warming' = FALSE
      /\ text' = text /\ chain' = chain /\ options' = options /\ cache' = cache
  BY <1>6 DEF StartFrame
<1>8. CASE /\ frame.ops = <<>> /\ result' = frame
           /\ UNCHANGED <<pc, key, index, stages, program, buffer>>
  <2>1. RequestOK'
    <3>0. warming' \in BOOLEAN
      BY <1>7, Zenon
    <3>1. frames' \in Nat
      BY <1>2, <1>7
    <3>2. main_accepts(options)' /\ (job \in Frame)'
      BY <1>2, <1>5, <1>7 DEF Frame
    <3>3. pc' = "idle"
      BY <1>7, <1>8
    <3> QED
      BY <1>1, <1>7, <3>0, <3>1, <3>2, <3>3 DEF RequestOK
  <2>2. Served(key)'
    BY <1>1, <1>7, <1>8 DEF PlanOK, Served
  <2>3. PlanOK'
    BY <1>1, <1>7, <1>8, <2>2 DEF PlanOK
  <2>4. ProgramFits'
    BY <1>1, <1>8 DEF ProgramFits
  <2>5. CacheOK'
    BY <1>1, <1>7 DEF CacheOK, Served
  <2>6. LaunchOK'
    BY <1>1, <1>7, <1>8 DEF LaunchOK
  <2>7. ResultOK'
    BY <1>7, <1>8 DEF ResultOK
  <2> QED
    BY <2>1, <2>3, <2>4, <2>5, <2>6, <2>7 DEF IInv
<1>9. CASE /\ frame.ops # <<>> /\ get(k)
           /\ buffer' = [buffer EXCEPT !["front"] = [ops |-> <<>>, channels |-> frame.channels]]
           /\ UNCHANGED result
  <2>1. Served(k)
    BY <1>2, <1>3, <1>4, <1>5, KeyServed
  <2>2. k.chain = frame.ops
    BY DEF key_for
  <2>3. key_for(job, options)' = k
    BY <1>7 DEF key_for
  <2> HIDE DEF k
  <2>4. /\ PlanOK' /\ ProgramFits' /\ CacheOK' /\ key' = k
        /\ \/ pc' = "plan" /\ program' = <<>>
           \/ pc' = (IF warming' THEN "idle" ELSE "launch") /\ Runs(program', k)
    BY <1>1, <1>7, <1>9, <2>1, <2>2, GetStep
  <2>5. pc' = "plan" \/ (pc' = "launch" /\ Runs(program', key'))
    BY <1>7, <2>4
  <2>6. RequestOK'
    <3>0. warming' \in BOOLEAN
      BY <1>7, Zenon
    <3>1. frames' \in Nat
      BY <1>2, <1>7
    <3>2. main_accepts(options)' /\ (job \in Frame)'
      BY <1>2, <1>5, <1>7 DEF Frame
    <3> QED
      BY <1>1, <1>7, <2>5, <3>0, <3>1, <3>2 DEF RequestOK
  <2>7. DOMAIN buffer' = {"front", "back"} /\ buffer'["front"] = [ops |-> <<>>, channels |-> frame.channels]
    BY <1>1, <1>9 DEF LaunchOK
  <2>8. SubSeq(frame.ops, 1, Reach(program', 1 - 1)) = <<>>
    <3>1. Reach(program', 1 - 1) = 0
      BY DEF Reach
    <3> QED
      BY <1>4, <1>5, <3>1
  <2>9. Runs(program', key') => 1 \in 1 .. Len(program') + 1
    BY DEF Runs
  <2>10. LaunchOK'
    <3>1. (pc = "launch" => ~warming /\ stage \in 1 .. Len(program) + 1 /\ Runs(program, key))'
      BY <1>7, <2>5, <2>9
    <3>2. (buffer[source] = [ops |-> SubSeq(job.ops, 1, Reach(program, stage - 1)), channels |-> job.channels])'
      BY <1>7, <2>7, <2>8
    <3>3. (job \in Frame /\ job.ops # <<>> /\ key = key_for(job, options) /\ stage = 1)'
      BY <1>5, <1>7, <1>9, <2>3, <2>4 DEF Frame
    <3> QED
      BY <1>7, <2>7, <3>1, <3>2, <3>3 DEF LaunchOK
  <2>11. ResultOK'
    BY <2>5 DEF ResultOK
  <2> QED
    BY <2>4, <2>6, <2>10, <2>11 DEF IInv
<1> QED
  BY <1>6, <1>8, <1>9 DEF StartFrame

(* plan_stages: one more op is planned. *)
LEMMA PlanStagesOK == IInv /\ plan_stages => IInv'
<1> SUFFICES ASSUME IInv, plan_stages PROVE IInv'
  OBVIOUS
<1>1. RequestOK /\ PlanOK /\ ProgramFits /\ CacheOK /\ LaunchOK /\ ResultOK
  BY DEF IInv
<1>2. /\ pc = "plan" /\ index <= Len(key.chain)
      /\ stages' = PlanOp(IF stages = <<>> THEN <<EmptyStage>> ELSE stages)
      /\ index' = index + 1
      /\ UNCHANGED <<request, pc, warming, key, program, cache, job, buffers, result, frames>>
  BY DEF plan_stages, ops
<1>3. Served(key) /\ Planned(key.chain, index, stages) /\ key.chain # <<>> /\ program = <<>>
  BY <1>1, <1>2 DEF PlanOK
<1>4. Len(key.chain) \in Nat
  BY <1>3 DEF Served, Key
<1>5. Planned(key.chain, index + 1, PlanOp(IF stages = <<>> THEN <<EmptyStage>> ELSE stages))
  BY <1>2, <1>3, <1>4, PlanStep
<1>6. Planned(key.chain, index, stages)'
  BY <1>2, <1>5
<1>7. Served(key)'
  BY <1>2, <1>3 DEF Served
<1>8. Emitted(program, key, stages)'
  <2>1. index \in Nat \ {0}
    BY <1>3, <1>4 DEF Planned, Shaped
  <2>2. stages' \in Seq(Stage) /\ stages' # <<>>
    <3>1. stages' \in Seq(Stage) /\ (stages' = <<>> <=> index' = 1)
      BY <1>6 DEF Planned, Shaped
    <3> QED
      BY <1>2, <2>1, <3>1
  <2>3. Len(stages') \in Nat /\ Len(stages') # 0
    BY <2>2, EmptySeq
  <2>4. program' = <<>> /\ Len(program') = 0 /\ program' \in Seq(Kernel)
    BY <1>2, <1>3
  <2> QED
    BY <2>3, <2>4 DEF Emitted
<1>9. RequestOK'
  BY <1>1, <1>2 DEF RequestOK
<1>10. PlanOK'
  <2>1. (\A entry \in cache : ~Equal(entry.key, key))'
    BY <1>1, <1>2 DEF PlanOK
  <2>2. program' = <<>> /\ key' = key
    BY <1>2, <1>3
  <2> QED
    BY <1>3, <1>6, <1>7, <1>8, <2>1, <2>2 DEF PlanOK
<1>11. ProgramFits'
  BY <1>1, <1>2 DEF ProgramFits
<1>12. CacheOK'
  BY <1>1, <1>2 DEF CacheOK, Served
<1>13. LaunchOK'
  BY <1>1, <1>2 DEF LaunchOK
<1>14. ResultOK'
  BY <1>1, <1>2 DEF ResultOK
<1> QED
  BY <1>9, <1>10, <1>11, <1>12, <1>13, <1>14 DEF IInv

(* emit_stage never throws; the last stage completes an entry that no      *)
(* other one equals.                                                       *)
LEMMA EmitStageOK == IInv /\ emit_stage => IInv'
<1> SUFFICES ASSUME IInv, emit_stage PROVE IInv'
  OBVIOUS
<1> DEFINE st == stages[Len(program) + 1]
           kernels == Append(program, Generated(st))
<1>1. RequestOK /\ PlanOK /\ ProgramFits /\ CacheOK /\ LaunchOK /\ ResultOK
  BY DEF IInv
<1>2. /\ pc = "plan" /\ index > Len(key.chain)
      /\ UNCHANGED <<request, warming, key, index, stages, job, buffers, result, frames>>
  BY DEF emit_stage, ops
<1>3. /\ Served(key) /\ Planned(key.chain, index, stages) /\ key.chain # <<>>
      /\ Emitted(program, key, stages)
      /\ \A entry \in cache : ~Equal(entry.key, key)
  BY <1>1, <1>2 DEF PlanOK
<1>4. Len(key.chain) \in Nat /\ key \in Key /\ main_accepts(options)
  BY <1>1, <1>3 DEF Served, Key, RequestOK
<1>5. /\ \E lo, hi : Covers(key.chain, st, lo, hi)
      /\ kernels \in Seq(Kernel)
      /\ Len(kernels) < Len(stages) => Emitted(kernels, key, stages)
      /\ ~(Len(kernels) < Len(stages)) => Runs(kernels, key)
  BY <1>2, <1>3, EmitStep
<1>6. Emittable(st)
  BY <1>3, <1>4, <1>5, StageEmittable
<1>7. /\ program' = kernels
      /\ IF Len(program') < Len(stages)
         THEN UNCHANGED <<pc, cache>>
         ELSE /\ cache' = cache \cup {[key |-> key, program |-> program']}
              /\ pc' = IF warming THEN "idle" ELSE "launch"
  BY <1>6 DEF emit_stage
<1> HIDE DEF st, kernels
<1>8. Served(key)' /\ Planned(key.chain, index, stages)'
  BY <1>2, <1>3 DEF Served
<1>9. ProgramFits'
  <2>1. CASE Len(kernels) < Len(stages)
    BY <2>1, <1>5, <1>7 DEF ProgramFits, Emitted, Compiled
  <2>2. CASE ~(Len(kernels) < Len(stages))
    BY <2>2, <1>5, <1>7 DEF ProgramFits, Runs, Compiled
  <2> QED
    BY <2>1, <2>2
<1>10. CASE Len(kernels) < Len(stages)
  <2>1. pc' = "plan" /\ cache' = cache /\ pc' = pc
    BY <1>2, <1>7, <1>10
  <2>2. RequestOK'
    BY <1>1, <1>2, <2>1 DEF RequestOK
  <2>3. Emitted(program, key, stages)'
    BY <1>2, <1>5, <1>7, <1>10
  <2>4. PlanOK'
    <3>1. (\A entry \in cache : ~Equal(entry.key, key))'
      BY <1>2, <1>3, <2>1
    <3>2. ~(index' <= Len(key'.chain)) /\ key' = key
      <4>1. index \in Nat
        BY <1>3, <1>4 DEF Planned, Shaped
      <4> QED
        BY <1>2, <1>4, <4>1
    <3> QED
      BY <1>3, <1>8, <2>3, <3>1, <3>2 DEF PlanOK
  <2>5. CacheOK'
    BY <1>1, <1>2, <2>1 DEF CacheOK, Served
  <2>6. LaunchOK'
    <3>1. ~warming => stage = 1 /\ buffer[source] = [ops |-> SubSeq(job.ops, 1, Reach(program, 1 - 1)), channels |-> job.channels]
      BY <1>1, <1>2 DEF LaunchOK
    <3>2. Reach(program, 1 - 1) = Reach(program', 1 - 1)
      BY DEF Reach
    <3>3. ~warming => (buffer[source] = [ops |-> SubSeq(job.ops, 1, Reach(program, stage - 1)), channels |-> job.channels])'
      BY <1>2, <3>1, <3>2
    <3> QED
      BY <1>1, <1>2, <2>1, <3>3 DEF LaunchOK
  <2>7. ResultOK'
    BY <2>1 DEF ResultOK
  <2> QED
    BY <1>9, <2>2, <2>4, <2>5, <2>6, <2>7 DEF IInv
<1>11. CASE ~(Len(kernels) < Len(stages))
  <2> DEFINE new == [key |-> key, program |-> program']
  <2>1. /\ cache' = cache \cup {new}
        /\ pc' = IF warming THEN "idle" ELSE "launch"
    BY <1>7, <1>11
  <2>2. Runs(program', key)
    BY <1>5, <1>7, <1>11
  <2>3. pc' \in {"idle", "launch"} /\ (pc' = "idle" => warming) /\ (pc' = "launch" => ~warming)
    BY <2>1
  <2>4. RequestOK'
    BY <1>1, <1>2, <2>3 DEF RequestOK
  <2>5. PlanOK'
    BY <1>8, <2>3 DEF PlanOK
  <2>6. CacheOK'
    <3>1. ASSUME NEW entry \in cache' PROVE (Served(entry.key) /\ Runs(entry.program, entry.key))'
      <4>1. CASE entry \in cache
        BY <1>1, <1>2, <4>1 DEF CacheOK, Served
      <4>2. CASE entry = new
        <5>1. entry.key = key /\ entry.program = program'
          BY <4>2
        <5>2. Served(entry.key) /\ Runs(entry.program, entry.key)
          BY <1>3, <2>2, <5>1
        <5> QED
          BY <1>2, <5>2 DEF Served
      <4> QED
        BY <2>1, <4>1, <4>2
    <3>2. ASSUME NEW a \in cache', NEW b \in cache', Equal(a.key, b.key) PROVE a = b
      <4>1. new.key = key
        OBVIOUS
      <4> HIDE DEF new
      <4>2. ASSUME NEW e \in cache, Equal(new.key, e.key) PROVE FALSE
        <5>1. e.key \in Key
          BY <1>1 DEF CacheOK, Served
        <5>2. Equal(e.key, new.key)
          BY <1>4, <4>1, <4>2, <5>1, EqualChains
        <5> QED
          BY <1>3, <4>1, <5>2
      <4>3. a \in cache \/ a = new
        BY <2>1
      <4>4. b \in cache \/ b = new
        BY <2>1
      <4>5. CASE a \in cache /\ b \in cache
        BY <1>1, <3>2, <4>5 DEF CacheOK
      <4>6. CASE a \in cache /\ b = new
        BY <1>3, <3>2, <4>1, <4>6
      <4>7. CASE a = new /\ b \in cache
        BY <3>2, <4>2, <4>7
      <4> QED
        BY <4>3, <4>4, <4>5, <4>6, <4>7
    <3> QED
      BY <3>1, <3>2 DEF CacheOK
  <2>7. LaunchOK'
    <3>1. ~warming => /\ stage = 1 /\ job \in Frame /\ job.ops # <<>> /\ key = key_for(job, options)
                      /\ buffer[source] = [ops |-> SubSeq(job.ops, 1, Reach(program, 1 - 1)), channels |-> job.channels]
      BY <1>1, <1>2 DEF LaunchOK
    <3>2. Reach(program, 1 - 1) = Reach(program', 1 - 1)
      BY DEF Reach
    <3>3. ~warming => (buffer[source] = [ops |-> SubSeq(job.ops, 1, Reach(program, stage - 1)), channels |-> job.channels])'
      BY <1>2, <3>1, <3>2
    <3>4. 1 \in 1 .. Len(program') + 1
      BY <2>2 DEF Runs
    <3>5. (pc = "launch" => ~warming /\ stage \in 1 .. Len(program) + 1 /\ Runs(program, key))'
      BY <1>2, <2>2, <2>3, <3>1, <3>4
    <3> QED
      BY <1>1, <1>2, <2>3, <3>1, <3>3, <3>5 DEF LaunchOK, key_for
  <2>8. ResultOK'
    <3>1. warming => frames = 0
      BY <1>1, <1>2 DEF LaunchOK
    <3> QED
      BY <1>2, <2>3, <3>1 DEF ResultOK
  <2> QED
    BY <1>9, <2>4, <2>5, <2>6, <2>7, <2>8 DEF IInv
<1> QED
  BY <1>10, <1>11

(* cuLaunchKernel: the destination holds the image after one more stage. *)
LEMMA LaunchKernelOK == IInv /\ cuLaunchKernel => IInv'
<1> SUFFICES ASSUME IInv, cuLaunchKernel PROVE IInv'
  OBVIOUS
<1>1. RequestOK /\ PlanOK /\ ProgramFits /\ CacheOK /\ LaunchOK /\ ResultOK
  BY DEF IInv
<1>2. /\ pc = "launch" /\ stage <= Len(program)
      /\ buffer' = [buffer EXCEPT ![destination] = Output(program[stage], buffer[source])]
      /\ source' = destination /\ destination' = source /\ stage' = stage + 1
      /\ UNCHANGED <<request, pc, planner, cache, job, result, frames>>
  BY DEF cuLaunchKernel
<1>3. /\ ~warming /\ stage \in 1 .. Len(program) + 1 /\ Runs(program, key)
      /\ job \in Frame /\ job.ops # <<>> /\ key = key_for(job, options)
      /\ buffer[source] = [ops |-> SubSeq(job.ops, 1, Reach(program, stage - 1)), channels |-> job.channels]
      /\ DOMAIN buffer = {"front", "back"} /\ destination \in {"front", "back"}
  BY <1>1, <1>2 DEF LaunchOK
<1>4. Len(program) \in Nat /\ stage \in 1 .. Len(program) /\ key \in Key
  <2>1. Len(program) \in Nat
    BY <1>3 DEF Runs
  <2> QED
    BY <1>1, <1>2, <1>3, <2>1 DEF PlanOK, Served
<1>5. Output(program[stage], buffer[source])
        = [ops |-> SubSeq(job.ops, 1, Reach(program, stage)), channels |-> job.channels]
  BY <1>3, <1>4, LaunchStep
<1>6. RequestOK'
  BY <1>1, <1>2 DEF RequestOK
<1>7. PlanOK'
  BY <1>1, <1>2 DEF PlanOK, Served
<1>8. ProgramFits'
  BY <1>1, <1>2 DEF ProgramFits
<1>9. CacheOK'
  BY <1>1, <1>2 DEF CacheOK, Served
<1>10. LaunchOK'
  <2>1. buffer'[source'] = [ops |-> SubSeq(job.ops, 1, Reach(program, stage)), channels |-> job.channels]
    BY <1>2, <1>3, <1>5
  <2>2. stage' - 1 = stage /\ stage' \in 1 .. Len(program) + 1
    BY <1>2, <1>4
  <2>3. (buffer[source] = [ops |-> SubSeq(job.ops, 1, Reach(program, stage - 1)), channels |-> job.channels])'
    BY <1>2, <2>1, <2>2
  <2>4. (DOMAIN buffer = {"front", "back"})'
    BY <1>2, <1>3
  <2>5. (source \in {"front", "back"} /\ destination \in {"front", "back"} /\ source # destination)'
    BY <1>1, <1>2 DEF LaunchOK
  <2>6. (~warming /\ Runs(program, key) /\ job \in Frame /\ job.ops # <<>> /\ key = key_for(job, options))'
    BY <1>2, <1>3 DEF Frame
  <2> QED
    BY <1>2, <2>2, <2>3, <2>4, <2>5, <2>6 DEF LaunchOK
<1>11. ResultOK'
  BY <1>2 DEF ResultOK
<1> QED
  BY <1>6, <1>7, <1>8, <1>9, <1>10, <1>11 DEF IInv

(* The last stage has run: what is read back is the whole chain. *)
LEMMA FinishFrameOK == IInv /\ FinishFrame => IInv'
<1> SUFFICES ASSUME IInv, FinishFrame PROVE IInv'
  OBVIOUS
<1>1. RequestOK /\ PlanOK /\ ProgramFits /\ CacheOK /\ LaunchOK /\ ResultOK
  BY DEF IInv
<1>2. /\ pc = "launch" /\ stage > Len(program) /\ result' = buffer[source] /\ pc' = "idle"
      /\ UNCHANGED <<request, planner, cache, job, buffers, frames>>
  BY DEF FinishFrame
<1>3. /\ ~warming /\ stage \in 1 .. Len(program) + 1 /\ Runs(program, key)
      /\ job \in Frame /\ key = key_for(job, options)
      /\ buffer[source] = [ops |-> SubSeq(job.ops, 1, Reach(program, stage - 1)), channels |-> job.channels]
  BY <1>1, <1>2 DEF LaunchOK
<1>4. Len(program) \in Nat /\ Reach(program, Len(program)) = Len(key.chain)
  BY <1>3 DEF Runs
<1>5. stage - 1 = Len(program)
  BY <1>2, <1>3, <1>4
<1>6. key.chain = job.ops
  BY <1>3 DEF key_for
<1>7. job.ops \in Seq(Op) /\ job = [ops |-> job.ops, channels |-> job.channels]
  BY <1>3 DEF Frame
<1>8. SubSeq(job.ops, 1, Len(job.ops)) = job.ops
  BY <1>7
<1>9. result' = job
  BY <1>2, <1>3, <1>4, <1>5, <1>6, <1>7, <1>8
<1>10. RequestOK'
  BY <1>1, <1>2 DEF RequestOK
<1>11. PlanOK'
  BY <1>1, <1>2 DEF PlanOK, Served
<1>12. ProgramFits'
  BY <1>1, <1>2 DEF ProgramFits
<1>13. CacheOK'
  BY <1>1, <1>2 DEF CacheOK, Served
<1>14. LaunchOK'
  BY <1>1, <1>2 DEF LaunchOK
<1>15. ResultOK'
  BY <1>2, <1>9 DEF ResultOK
<1> QED
  BY <1>10, <1>11, <1>12, <1>13, <1>14, <1>15 DEF IInv

(* So does every step. *)
LEMMA NextOK == IInv /\ [Next]_vars => IInv'
<1> SUFFICES ASSUME IInv, [Next]_vars PROVE IInv'
  OBVIOUS
<1>1. CASE ParseText
  BY <1>1, ParseTextOK
<1>2. ASSUME NEW channels \in Channels, prewarm(channels) PROVE IInv'
  BY <1>2, PrewarmOK
<1>3. ASSUME NEW channels \in Channels, NEW other \in IF frames = 0 THEN {chain} ELSE Variants,
             StartFrame([ops |-> other, channels |-> channels])
      PROVE  IInv'
  BY <1>3, StartFrameOK
<1>4. CASE plan_stages
  BY <1>4, PlanStagesOK
<1>5. CASE emit_stage
  BY <1>5, EmitStageOK
<1>6. CASE cuLaunchKernel
  BY <1>6, LaunchKernelOK
<1>7. CASE FinishFrame
  BY <1>7, FinishFrameOK
<1>8. CASE UNCHANGED vars
  <2>1. /\ text' = text /\ chain' = chain /\ options' = options /\ pc' = pc /\ warming' = warming /\ key' = key
        /\ index' = index /\ stages' = stages /\ program' = program /\ cache' = cache /\ job' = job
        /\ stage' = stage /\ source' = source /\ destination' = destination /\ buffer' = buffer
        /\ result' = result /\ frames' = frames
    BY <1>8
  <2>2. RequestOK' = RequestOK
    BY <2>1 DEF RequestOK
  <2>3. PlanOK' = PlanOK
    BY <2>1 DEF PlanOK, Served
  <2>4. ProgramFits' = ProgramFits
    BY <2>1 DEF ProgramFits
  <2>5. CacheOK' = CacheOK
    BY <2>1 DEF CacheOK, Served
  <2>6. LaunchOK' = LaunchOK
    BY <2>1 DEF LaunchOK
  <2>7. ResultOK' = ResultOK
    BY <2>1 DEF ResultOK
  <2> QED
    BY <2>2, <2>3, <2>4, <2>5, <2>6, <2>7 DEF IInv
<1> QED
  BY <1>1, <1>2, <1>3, <1>4, <1>5, <1>6, <1>7, <1>8 DEF Next

(* The invariant holds throughout. *)
LEMMA Inductive == Spec => []IInv
  BY InitOK, NextOK, PTL DEF Spec

----------------------------------------------------------------------------
(* What it implies                                                         *)

(* The plan's shape gives its bounds. *)
LEMMA PlanBounds == IInv => FusionBounds
<1> SUFFICES ASSUME IInv PROVE FusionBounds
  OBVIOUS
<1> DEFINE c == key.chain
<1>1. Served(key) /\ Shaped(c, index, stages) /\ Counted(c, index, stages)
  BY DEF IInv, PlanOK, Planned
<1>2. Len(c) \in Nat
  BY <1>1 DEF Served, Key
<1>3. /\ index \in Nat \ {0} /\ stages \in Seq(Stage) /\ Len(stages) \in Nat
      /\ \A k \in 1 .. Len(stages) : Covers(c, stages[k], Starts(stages, k), Stops(stages, k, index))
      /\ \A k \in 1 .. Len(stages) : stages[k].stencil = 0 => Len(stages) = 1
  BY <1>1, <1>2 DEF Shaped
<1>4. Stencils = StencilsBefore(c, index)
  BY DEF Stencils, StencilsBefore, ops
<1>5. Cardinality(Stencils) \in Nat
  BY <1>3, <1>4, StencilsGrow
<1>6. Len(stages) <= Cardinality(Stencils) + 1
  <2>1. CASE stages = <<>>
    BY <2>1, <1>5
  <2>2. CASE stages # <<>> /\ stages[1].stencil = 0
    <3>1. 1 \in 1 .. Len(stages)
      BY <1>3, <2>2, EmptySeq
    <3> QED
      BY <1>3, <1>5, <2>2, <3>1
  <2>3. CASE stages # <<>> /\ stages[1].stencil # 0
    BY <1>1, <1>3, <1>4, <1>5, <2>3 DEF Counted
  <2> QED
    BY <2>1, <2>2, <2>3
<1>7. ASSUME NEW k \in 2 .. Len(stages) PROVE stages[k].prologue = <<>>
  <2> DEFINE st == stages[k]
  <2>1. k \in 1 .. Len(stages) /\ k # 1
    BY <1>3
  <2>2. Covers(c, st, st.stencil, Stops(stages, k, index))
    BY <1>3, <2>1 DEF Starts
  <2>3. st.stencil \in 1 .. Len(c)
    BY <2>2 DEF Covers
  <2>4. st.stencil \in Nat /\ st.stencil # 0
    BY <1>2, <2>3
  <2>5. st.prologue = Run(st.stencil, st.stencil - 1)
    BY <2>2, <2>4 DEF Covers
  <2> QED
    BY <2>4, <2>5, EmptyRun
<1>8. ASSUME NEW k \in 1 .. Len(stages), stages[k].stencil = 0 PROVE Stencils = {}
  <2>1. k = 1
    BY <1>3, <1>8
  <2> QED
    BY <1>1, <1>4, <1>8, <2>1 DEF Counted
<1> QED
  BY <1>6, <1>7, <1>8 DEF FusionBounds

(* The ranges of the ops give the sizes of the kernels. *)
LEMMA KernelsFit == IInv => GeneratedKernelFits
<1> SUFFICES ASSUME IInv PROVE GeneratedKernelFits
  OBVIOUS
<1>1. RequestOK /\ ProgramFits
  BY DEF IInv
<1>2. pc # "failed"
  BY <1>1 DEF RequestOK
<1>3. job.ops \in Seq(Op)
  <2>1. job \in Frame \/ job = NoFrame
    BY <1>1 DEF RequestOK
  <2>2. CASE job \in Frame
    BY <2>2 DEF Frame
  <2>3. CASE job = NoFrame
    BY <2>3 DEF NoFrame
  <2> QED
    BY <2>1, <2>2, <2>3
<1>4. ASSUME NEW i \in 1 .. Len(job.ops), job.ops[i].kind = "gaussian"
      PROVE  gaussian_taps(job.ops[i].param) <= kMaxGaussianTaps
  <2>1. job.ops[i] \in Op
    BY <1>3
  <2> QED
    BY <1>4, <2>1, RadiusBound
<1> QED
  BY <1>1, <1>2, <1>4 DEF ProgramFits, GeneratedKernelFits

(* Entries with the same kernels have equal keys, and are the same. *)
LEMMA EntriesDiffer == IInv => OneEntryPerKernel
<1> SUFFICES ASSUME IInv, NEW a \in cache, NEW b \in cache, a.program = b.program PROVE a = b
  BY DEF OneEntryPerKernel
<1>1. CacheOK
  BY DEF IInv
<1>2. Served(a.key) /\ Runs(a.program, a.key) /\ Served(b.key) /\ Runs(a.program, b.key)
  BY <1>1 DEF CacheOK
<1>3. /\ a.key \in Key /\ b.key \in Key
      /\ a.key.tile = b.key.tile /\ a.key.tile_size = b.key.tile_size /\ a.key.constants = b.key.constants
  BY <1>2 DEF Served
<1>4. Equal(a.key, b.key)
  BY <1>2, <1>3, ProgramTellsKey
<1> QED
  BY <1>1, <1>4 DEF CacheOK

----------------------------------------------------------------------------
(* The theorems                                                            *)

(* Whatever chain is planned (plan_stages in codegen.cpp), fusion needs at *)
(* most one kernel more than the chain has stencils, only the first stage  *)
(* ever has a prologue, and only a chain without any stencil makes a stage *)
(* without one: so for chains of every length.                             *)
THEOREM FusionIsBounded == Spec => []FusionBounds
  BY Inductive, PlanBounds, PTL

(* For every text that parse_op_chain lets through, every channel count    *)
(* and all options that main() accepts, codegen never throws: the tile     *)
(* with its apron fits the 48 KiB of static shared memory, a block has no  *)
(* more threads than the hardware runs, and a gaussian's taps fit the      *)
(* executor's array of weights.                                            *)
THEOREM KernelsAlwaysFit == Spec => []GeneratedKernelFits
  BY Inductive, KernelsFit, PTL

(* KernelCache::get never compiles a kernel that is already there: keys    *)
(* that operator== makes equal have one hash, and different entries have   *)
(* different kernels, whichever of the frames and prewarm() came first.    *)
THEOREM NoKernelCompiledTwice == Spec => []OneEntryPerKernel
  BY Inductive, EntriesDiffer, PTL

(* What CudaBackend::launch reads back is the frame's own chain, applied   *)
(* in order, each op with the frame's own parameter: for every chain,      *)
(* however it was fused, and also when the kernels were compiled for an    *)
(* earlier frame with other parameters.                                    *)
THEOREM EveryFrameGetsItsChain == Spec => []ImageIsTheFramesChain
<1>1. IInv => ImageIsTheFramesChain
  BY DEF IInv, ResultOK, ImageIsTheFramesChain
<1> QED
  BY <1>1, Inductive, PTL

(* canonical_string loses nothing: for a chain of any length and any       *)
(* parameters, what a kernel depends on can be read back from its text.    *)
THEOREM CanonicalTextReadsBack == Spec => []CanonicalRoundTrip
<1>1. IInv => CanonicalRoundTrip
  BY ReadsBack DEF IInv, RequestOK, CanonicalRoundTrip
<1> QED
  BY <1>1, Inductive, PTL

(* What a text was found to be, it stays. *)
GrammarInv ==
    /\ pc = "rejected" => ~IsOpChain(text)
    /\ pc \notin {"parse", "rejected"} => IsOpChain(text) /\ Spells(text, chain)

(* No step but the parser's changes the text or the chain. *)
LEMMA GrammarKept == IInv /\ GrammarInv /\ [Next]_vars => GrammarInv'
<1> SUFFICES ASSUME IInv, GrammarInv, [Next]_vars PROVE GrammarInv'
  OBVIOUS
<1>1. text \in Seq(Lexeme)
  BY FusionAssumption DEF IInv, RequestOK, Lexed
<1>2. CASE ParseText
  <2> DEFINE parsed == parse_op_chain(text)
  <2>1. text' = text /\ chain' = parsed.ops /\ pc' = IF parsed.ok THEN "idle" ELSE "rejected"
    BY <1>2, Zenon DEF ParseText
  <2>2. /\ parsed.ok => IsOpChain(text) /\ Spells(text, parsed.ops)
        /\ ~parsed.ok => ~IsOpChain(text)
    BY <1>1, ParserFollowsGrammar
  <2> HIDE DEF parsed
  <2>3. CASE parsed.ok
    <3>1. pc' = "idle"
      BY <2>1, <2>3
    <3> QED
      BY <2>1, <2>2, <2>3, <3>1 DEF GrammarInv
  <2>4. CASE ~parsed.ok
    <3>1. pc' = "rejected"
      BY <2>1, <2>4
    <3> QED
      BY <2>1, <2>2, <2>4, <3>1 DEF GrammarInv
  <2> QED
    BY <2>3, <2>4
<1>3. CASE text' = text /\ chain' = chain /\ pc \notin {"parse", "rejected"} /\ pc' \notin {"parse", "rejected"}
  BY <1>3 DEF GrammarInv
<1>4. ASSUME NEW channels, prewarm(channels) PROVE GrammarInv'
  <2>1. text' = text /\ chain' = chain /\ pc = "idle" /\ pc' \in {"plan", "idle", "launch"}
    BY <1>4 DEF prewarm, get, request
  <2> QED
    BY <1>3, <2>1
<1>5. ASSUME NEW frame, StartFrame(frame) PROVE GrammarInv'
  <2>1. text' = text /\ chain' = chain /\ pc = "idle" /\ pc' \in {"plan", "idle", "launch"}
    BY <1>5 DEF StartFrame, get, request
  <2> QED
    BY <1>3, <2>1
<1>6. CASE plan_stages
  <2>1. text' = text /\ chain' = chain /\ pc = "plan" /\ pc' = "plan"
    BY <1>6 DEF plan_stages, request
  <2> QED
    BY <1>3, <2>1
<1>7. CASE emit_stage
  <2>1. text' = text /\ chain' = chain /\ pc = "plan" /\ pc' \in {"failed", "plan", "idle", "launch"}
    BY <1>7, Zenon DEF emit_stage, request
  <2> QED
    BY <1>3, <2>1
<1>8. CASE cuLaunchKernel
  <2>1. text' = text /\ chain' = chain /\ pc = "launch" /\ pc' = "launch"
    BY <1>8 DEF cuLaunchKernel, request
  <2> QED
    BY <1>3, <2>1
<1>9. CASE FinishFrame
  <2>1. text' = text /\ chain' = chain /\ pc = "launch" /\ pc' = "idle"
    BY <1>9 DEF FinishFrame, request
  <2> QED
    BY <1>3, <2>1
<1>10. CASE UNCHANGED vars
  BY <1>10 DEF GrammarInv, vars, request
<1> QED
  BY <1>2, <1>4, <1>5, <1>6, <1>7, <1>8, <1>9, <1>10 DEF Next

(* parse_op_chain accepts exactly the texts of op_chain.h's grammar and    *)
(* makes of them the ops they spell: for texts of every length.            *)
THEOREM ParserTakesTheGrammar == Spec => []ParserMatchesGrammar
<1>1. Init => GrammarInv
  BY DEF Init, GrammarInv
<1>2. GrammarInv => ParserMatchesGrammar
  BY DEF GrammarInv, ParserMatchesGrammar
<1>3. IInv /\ GrammarInv /\ [Next]_vars => GrammarInv'
  BY GrammarKept
<1> QED
  BY <1>1, <1>2, <1>3, Inductive, PTL DEF Spec
=============================================================================
