----------------------------- MODULE FusionPlan -----------------------------
(***************************************************************************)
(* From the text of an op chain to the pixels: the parser, the kernel      *)
(* cache's lookup (src/backend/cuda/kernel_cache.cpp), plan_stages and     *)
(* emit_stage (codegen.cpp), which turn a chain into fused kernels, and    *)
(* the launch loop of CudaBackend::launch (cuda_backend.cpp), which runs   *)
(* the cached kernels for one frame after the other, passing each frame's  *)
(* own parameters and swapping two buffers between stages.                 *)
(*                                                                         *)
(* An image is the sequence of ops that were applied to the frame, each    *)
(* with the parameter it ran with.  The text of the kernels is left out;   *)
(* what is kept of it is which ops a kernel runs, in which order, which    *)
(* argument each of them reads, and the channel count baked into it.       *)
(***************************************************************************)
EXTENDS KernelKey

CONSTANTS
    Texts,      \* texts that clients send
    Params,     \* the parameters of later frames
    Channels,   \* channel counts of the frames
    Options,    \* the command lines the server is started with
    MaxFrames,  \* bound: frames with the text's ops
    Junk        \* what a buffer holds that was never written

ASSUME FusionAssumption ==
    /\ \A t \in Texts : Lexed(t)
    /\ Params \subseteq Int
    /\ \A channels \in Channels : is_supported_channel_count(channels)
    /\ MaxFrames \in Nat
    /\ kNaiveBlockDim \in Nat \ {0}
    /\ kNaiveBlockDim * kNaiveBlockDim <= kMaxBlockThreads
    /\ Junk \notin [ops : Seq([kind : DOMAIN kOpSpecs, param : Int]), channels : Channels]

ParamsOf(kind) == IF takes_param(kind) THEN {p \in Params : in_range(kind, p)} ELSE {0}

VARIABLES
    text,           \* the frame's chain field
    chain,          \* what parse_op_chain made of it
    options,        \* the options of the server it was sent to
    pc,             \* "parse", "rejected", "idle", "plan" (and emit), "launch", "failed"
    warming,        \* whether prewarm() asked for the kernels
    key,            \* KernelCache::get: the key looked up
    index,          \* plan_stages: next op
    stages,         \* plan_stages: the stages so far
    program,        \* the GeneratedStages so far, or the cached ones
    cache,          \* entries_
    job,            \* the frame being launched: its ops and its channel count
    stage,          \* launch: next stage
    source, destination,
    buffer,         \* the stream slot's two device buffers
    result,         \* history: the image of the last frame
    frames

request == <<text, chain, options>>
planner == <<warming, key, index, stages, program>>
buffers == <<stage, source, destination, buffer>>
vars == <<request, pc, planner, cache, job, buffers, result, frames>>

NoFrame == [ops |-> <<>>, channels |-> 1]

Init ==
    /\ text \in Texts
    /\ chain = <<>>
    /\ options \in {o \in Options : main_accepts(o)}
    /\ pc = "parse"
    /\ warming = FALSE
    /\ key = key_for(NoFrame, options)
    /\ index = 1
    /\ stages = <<>>
    /\ program = <<>>
    /\ cache = {}
    /\ job = NoFrame
    /\ stage = 0
    /\ source = "front"
    /\ destination = "back"
    /\ buffer = [b \in {"front", "back"} |-> Junk]
    /\ result = Junk
    /\ frames = 0

----------------------------------------------------------------------------
(* A text arrives; what is sent later has the same ops.                    *)

ParseText ==
    /\ pc = "parse"
    /\ LET parsed == parse_op_chain(text)
       IN  /\ chain' = parsed.ops
           /\ pc' = IF parsed.ok THEN "idle" ELSE "rejected"
    /\ UNCHANGED <<text, options, planner, cache, job, buffers, result, frames>>

----------------------------------------------------------------------------
(* KernelCache::get                                                        *)

(* An unordered_map compares the keys of one bucket. *)
Found(k) == {entry \in cache : hash_kernel_key(entry.key) = hash_kernel_key(k) /\ Equal(entry.key, k)}

get(k) ==
    /\ key' = k
    /\ \/ /\ Found(k) = {}
          /\ pc' = "plan"
          /\ index' = 1
          /\ stages' = <<>>
          /\ program' = <<>>
       \/ /\ Found(k) # {}
          /\ pc' = IF warming' THEN "idle" ELSE "launch"
          /\ program' = (CHOOSE entry \in Found(k) : TRUE).program
          /\ UNCHANGED <<index, stages>>

(* CudaBackend::prewarm, from the backend factory *)
prewarm(channels) ==
    /\ pc = "idle" /\ frames = 0
    /\ chain # <<>>
    /\ warming' = TRUE
    /\ get(key_for([ops |-> chain, channels |-> channels], options))
    /\ UNCHANGED <<request, cache, job, buffers, result, frames>>

----------------------------------------------------------------------------
(* plan_stages.  A stage is its prologue, its stencil (0: none) and its    *)
(* epilogue, all as positions in the key's chain.                          *)

ops == key.chain

parameterized == key.constants = "parameterized"

EmptyStage == [prologue |-> <<>>, stencil |-> 0, epilogue |-> <<>>]

(* A pointwise op joins the epilogue of a stage that has its stencil, and  *)
(* the prologue of one that has not.                                       *)
Attach(st, i) ==
    IF st.stencil # 0
    THEN [st EXCEPT !.epilogue = Append(@, i)]
    ELSE [st EXCEPT !.prologue = Append(@, i)]

Front(seq) == SubSeq(seq, 1, Len(seq) - 1)
Last(seq) == seq[Len(seq)]

(* Whether a stencil op has to open a new stage *)
NeedsStage_always(st) == TRUE

NeedsStage(st) == st.stencil # 0

PlanOp(started) ==
    IF ~is_stencil(ops[index].kind)
    THEN Append(Front(started), Attach(Last(started), index))
    ELSE LET opened == IF NeedsStage(Last(started)) THEN Append(started, EmptyStage) ELSE started
         IN  Append(Front(opened), [Last(opened) EXCEPT !.stencil = index])

plan_stages ==
    /\ pc = "plan" /\ index <= Len(ops)
    /\ stages' = PlanOp(IF stages = <<>> THEN <<EmptyStage>> ELSE stages)
    /\ index' = index + 1
    /\ UNCHANGED <<request, pc, warming, key, program, cache, job, buffers, result, frames>>

----------------------------------------------------------------------------
(* emit_stage                                                              *)

(* The pointwise ops whose parameter is a kernel argument *)
param_indices(run) ==
    LET Taken[n \in 0 .. Len(run)] ==
            IF n = 0 THEN <<>>
            ELSE IF parameterized /\ takes_param(ops[run[n]].kind) THEN Append(Taken[n - 1], run[n])
            ELSE Taken[n - 1]
    IN  Taken[Len(run)]

runtime_radius(st) == parameterized /\ st.stencil # 0 /\ ops[st.stencil].kind = "gaussian"

(* The arguments in the order the kernel declares them, and the order in   *)
(* which the executor is told to pass them                                 *)
Signature(st) ==
    (IF runtime_radius(st) THEN <<st.stencil>> ELSE <<>>)
    \o param_indices(st.prologue) \o param_indices(st.epilogue)

param_ops_chain_order(st) ==
    param_indices(st.prologue)
    \o (IF runtime_radius(st) THEN <<st.stencil>> ELSE <<>>) \o param_indices(st.epilogue)

param_ops(st) ==
    (IF runtime_radius(st) THEN <<st.stencil>> ELSE <<>>)
    \o param_indices(st.prologue) \o param_indices(st.epilogue)

(* The ops in the order the kernel body runs them *)
Body(st) == st.prologue \o (IF st.stencil = 0 THEN <<>> ELSE <<st.stencil>>) \o st.epilogue

Tiled(st) == st.stencil # 0 /\ key.tile_size > 0

(* emit_cuda_source and emit_tile_load throw on a key they cannot serve. *)
Emittable(st) ==
    /\ is_supported_channel_count(key.channels)
    /\ is_supported_tile(key.tile, key.tile_size)
    /\ is_supported_constants(key.constants, key.tile)
    /\ Tiled(st) => shared_bytes(color_channels(key.channels), stencil_radius(ops[st.stencil]), key.tile_size)
                       <= kMaxStaticSharedBytes

(* A kernel bakes in the channel count, its ops and, without a run-time    *)
(* argument, their parameters.                                             *)
Generated(st) ==
    [body |-> [k \in 1 .. Len(Body(st)) |->
                  LET i == Body(st)[k]
                  IN  [at |-> i, kind |-> ops[i].kind, literal |-> IF parameterized THEN 0 ELSE ops[i].param]],
     signature |-> Signature(st),
     param_ops |-> param_ops(st),
     channels |-> key.channels,
     block_dim |-> block_dim(st.stencil # 0, key.tile_size)]

(* The last stage completes the cache entry.  NVRTC compiles and the       *)
(* module loads; module CudaBackend has the ways in which that fails.      *)
emit_stage ==
    /\ pc = "plan" /\ index > Len(ops)
    /\ LET st == stages[Len(program) + 1]
       IN  IF ~Emittable(st)
           THEN /\ pc' = "failed"
                /\ UNCHANGED <<program, cache>>
           ELSE /\ program' = Append(program, Generated(st))
                /\ IF Len(program') < Len(stages)
                   THEN UNCHANGED <<pc, cache>>
                   ELSE /\ cache' = cache \cup {[key |-> key, program |-> program']}
                        /\ pc' = IF warming THEN "idle" ELSE "launch"
    /\ UNCHANGED <<request, warming, key, index, stages, job, buffers, result, frames>>

----------------------------------------------------------------------------
(* CudaBackend::launch on one stream slot                                  *)

(* The same ops with other parameters *)
Variants ==
    {[i \in DOMAIN chain |-> [chain[i] EXCEPT !.param = params[i]]] :
        params \in {p \in [DOMAIN chain -> Params \cup {0}] : \A i \in DOMAIN chain : p[i] \in ParamsOf(chain[i].kind)}}

(* An empty chain is answered without a kernel; any other starts with      *)
(* KernelCache::get and then cuMemcpyHtoDAsync into the front buffer.      *)
StartFrame(frame) ==
    /\ pc = "idle" /\ frames < MaxFrames
    /\ job' = frame
    /\ frames' = frames + 1
    /\ stage' = 1
    /\ source' = "front"
    /\ destination' = "back"
    /\ warming' = FALSE
    /\ \/ /\ frame.ops = <<>>
          /\ result' = frame
          /\ UNCHANGED <<pc, key, index, stages, program, buffer>>
       \/ /\ frame.ops # <<>>
          /\ get(key_for(frame, options))
          /\ buffer' = [buffer EXCEPT !["front"] = [ops |-> <<>>, channels |-> frame.channels]]
          /\ UNCHANGED result
    /\ UNCHANGED <<request, cache>>

(* The values passed, and the one that the op at a chain position reads *)
Arguments(kernel) == [k \in 1 .. Len(kernel.param_ops) |-> job.ops[kernel.param_ops[k]].param]

ParamOf(kernel, step) ==
    LET read == {k \in 1 .. Len(kernel.signature) : kernel.signature[k] = step.at}
    IN  IF read = {} THEN step.literal ELSE Arguments(kernel)[CHOOSE k \in read : TRUE]

Applied(kernel) == [k \in 1 .. Len(kernel.body) |-> [kind |-> kernel.body[k].kind,
                                                     param |-> ParamOf(kernel, kernel.body[k])]]

(* A kernel for another channel count reads and writes the wrong bytes. *)
Output(kernel, image) ==
    IF image = Junk \/ kernel.channels # job.channels THEN Junk
    ELSE [image EXCEPT !.ops = @ \o Applied(kernel)]

cuLaunchKernel ==
    /\ pc = "launch" /\ stage <= Len(program)
    /\ buffer' = [buffer EXCEPT ![destination] = Output(program[stage], buffer[source])]
    /\ source' = destination
    /\ destination' = source
    /\ stage' = stage + 1
    /\ UNCHANGED <<request, pc, planner, cache, job, result, frames>>

(* cuMemcpyDtoHAsync *)
FinishFrame ==
    /\ pc = "launch" /\ stage > Len(program)
    /\ result' = buffer[source]
    /\ pc' = "idle"
    /\ UNCHANGED <<request, planner, cache, job, buffers, frames>>

(* The first frame is the text's own. *)
Next ==
    \/ ParseText
    \/ \E channels \in Channels : prewarm(channels)
    \/ \E channels \in Channels :
          \E other \in IF frames = 0 THEN {chain} ELSE Variants :
              StartFrame([ops |-> other, channels |-> channels])
    \/ plan_stages
    \/ emit_stage
    \/ cuLaunchKernel
    \/ FinishFrame

Spec == Init /\ [][Next]_vars

----------------------------------------------------------------------------

(* parse_op_chain accepts exactly the texts of op_chain.h's grammar and    *)
(* makes of them the ops they spell, in order: stray commas, blanks and    *)
(* colons, unknown names and parameters past the range are rejected.       *)
ParserMatchesGrammar ==
    /\ pc = "rejected" => ~IsOpChain(text)
    /\ (pc = "idle" /\ frames = 0) => IsOpChain(text) /\ Spells(text, chain)

(* canonical_string loses nothing that a kernel depends on: parsing it     *)
(* again gives the same chain, to the last digit of every parameter.       *)
CanonicalRoundTrip == (pc = "idle" /\ frames = 0) => parse_op_chain(canonical_string(chain)) = Parsed(chain)

Stencils == {i \in 1 .. index - 1 : is_stencil(ops[i].kind)}

(* The fusion plan of codegen.h: at most one kernel more than there are    *)
(* stencils, only the first stage ever has a prologue, and only a chain    *)
(* without any stencil makes a stage without one.                          *)
FusionBounds ==
    /\ Len(stages) <= Cardinality(Stencils) + 1
    /\ \A k \in 2 .. Len(stages) : stages[k].prologue = <<>>
    /\ \A k \in 1 .. Len(stages) : stages[k].stencil = 0 => Stencils = {}

(* No chain that the parser lets through, on a server that main() lets     *)
(* start, needs more than the generated code and the executor provide:     *)
(* codegen never throws, a block has no more threads than the hardware     *)
(* runs, and the weights of a frame's gaussian fit the executor's array.   *)
GeneratedKernelFits ==
    /\ pc # "failed"
    /\ \A k \in 1 .. Len(program) : program[k].block_dim * program[k].block_dim <= kMaxBlockThreads
    /\ \A i \in 1 .. Len(job.ops) :
          job.ops[i].kind = "gaussian" => gaussian_taps(job.ops[i].param) <= kMaxGaussianTaps

(* Equality and hash agree on what a kernel depends on (kernel_key.h): the *)
(* cache never holds two entries for one kernel, so a chain is compiled    *)
(* once, whichever frame or prewarm() came first.                          *)
OneEntryPerKernel == \A a, b \in cache : a.program = b.program => a = b

(* Whatever was fused, and whichever frame the kernels were compiled for,  *)
(* the image a frame gets is its own chain, applied in order, each op with *)
(* the frame's own parameter.                                              *)
ImageIsTheFramesChain == (pc = "idle" /\ frames > 0) => result = job
=============================================================================
