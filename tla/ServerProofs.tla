---------------------------- MODULE ServerProofs ----------------------------
(***************************************************************************)
(* Invariance proofs for Server, for every number of connections, slots    *)
(* and frames, every capacity and every number of starts.                  *)
(*                                                                         *)
(* A frame is a token that travels: the reader that claimed its slot, the  *)
(* queue, the in-flight table, the worker's hand.  SlotsConserved counts   *)
(* tokens by slot, OutstandingExact by connection, EveryFrameAnsweredOnce  *)
(* by connection and sequence number, so all three rest on the same lemmas *)
(* about how many tokens of a set X of frames the queue and the table hold *)
(* (Travelling).  Around them stand the typing (TypeOK), the handles the   *)
(* backend and the in-flight table share (HandlesOK), who may be alive in  *)
(* which phase of start() and stop() (ControlOK), and what is in a slot    *)
(* while a job reads it (ImagesOK).                                        *)
(***************************************************************************)
EXTENDS Server, FiniteSetTheorems, SequenceTheorems, TLAPS

----------------------------------------------------------------------------
(* Types                                                                   *)

Statuses == {"ok", "error"}
Frames == [conn : Conns, seq : Seqs, slot : Slots]
Entries == [handle : Nat, frame : Frames]
Jobs == [handle : Nat, slot : Slots]
Completions == [handle : Nat, status : Statuses, image : Images]
Retirements == [frame : Frames, status : Statuses, image : Images, next : {"retire", "poll"}]
Responses == [seq : Seqs, status : Statuses, image : Images]
WireFrames == [seq : Seqs, kind : {"good", "drain", "close"}]

(* The reader has a slot in its hands; it is busy with frame rseq[c]. *)
Holding == {"payload", "count", "push", "uncount", "release"}
Busy == {"claim", "payload", "count", "push"}
ReaderStates == Holding \cup {"absent", "recv", "drain", "claim", "finish", "join", "exited"}
Gone == {"absent", "exited"}

(* The worker has a frame in its hand. *)
Retiring == {"release", "respond", "retired"}

ClientTypes ==
    /\ sent \in [Conns -> 0 .. MaxFrames]
    /\ wire \in [Conns -> Seq(WireFrames)]
    /\ inbox \in [Conns -> Seq(Responses)]

ReaderTypes ==
    /\ rpc \in [Conns -> ReaderStates]
    /\ rseq \in [Conns -> 0 .. MaxFrames]
    /\ rslot \in [Conns -> Slots \cup {None}]
    /\ dropped \in [Conns -> 0 .. MaxFrames]
    /\ \A c \in Conns : rslot[c] # None <=> rpc[c] \in Holding
    /\ \A c \in Conns : rpc[c] \in Busy => rseq[c] \in Seqs

ConnectionTypes ==
    /\ outbox \in [Conns -> Seq(Responses)]
    /\ outbox_closed \in [Conns -> BOOLEAN]
    /\ outstanding \in [Conns -> Int]
    /\ reader_done \in [Conns -> BOOLEAN]
    /\ pushed \in [Conns -> [Seqs -> Nat]]
    /\ wpc \in [Conns -> {"absent", "pop", "write", "exited"}]
    /\ whand \in [Conns -> Responses \cup {None}]
    /\ \A c \in Conns : wpc[c] = "write" => whand[c] \in Responses

PoolTypes ==
    /\ slot_owner \in [Slots -> Conns \cup {None}]
    /\ slot_data \in [Slots -> Images]

WorkerTypes ==
    /\ queue \in Seq(Frames)
    /\ kpc \in {"none", "take", "poll", "retire", "release", "respond", "retired", "exited"}
    /\ kpc \in Retiring => khand \in Retirements
    /\ in_flight \in SUBSET Entries /\ IsFiniteSet(in_flight)
    /\ next_handle \in Nat
    /\ batch \in SUBSET Completions
    /\ completed \in SUBSET Completions
    /\ running_jobs \in SUBSET Jobs

TypeOK == ClientTypes /\ ReaderTypes /\ ConnectionTypes /\ PoolTypes /\ WorkerTypes

----------------------------------------------------------------------------
(* The backend and the in-flight table                                     *)

(* Handles name jobs: every job the backend runs or has completed has its  *)
(* entry in the table, and no two of them have the same handle.            *)
HandlesOK ==
    /\ \A e \in in_flight : e.handle < next_handle
    /\ \A e, f \in in_flight : e.handle = f.handle => e = f
    /\ \A j \in running_jobs : \E e \in in_flight : e.handle = j.handle /\ e.frame.slot = j.slot
    /\ \A d \in completed \cup batch : \E e \in in_flight : e.handle = d.handle
    /\ \A i, j \in running_jobs : i.handle = j.handle => i = j
    /\ \A d, f \in completed \cup batch : d.handle = f.handle => d = f
    /\ completed \cap batch = {}
    /\ \A j \in running_jobs, d \in completed \cup batch : j.handle # d.handle

----------------------------------------------------------------------------
(* start() and stop()                                                      *)

(* Who may be alive in which phase *)
ControlOK ==
    /\ spc \in {"down", "running", "join_acceptor", "shutdown", "close_slots", "join_connections",
                "close_queue", "join_worker", "stopped"}
    /\ spc = "down" => apc = "none"
    /\ spc \notin {"down", "running", "join_acceptor"} => apc = "exited"
    /\ spc \in {"down", "close_queue", "join_worker", "stopped"} => connections = {}
    /\ connections \subseteq Conns
    /\ \A c \in Conns : rpc[c] \notin Gone => c \in connections
    /\ \A c \in Conns : rpc[c] = "absent" <=> wpc[c] = "absent"
    /\ \A c \in Conns : rpc[c] = "exited" => wpc[c] = "exited"
    /\ kpc = "none" <=> spc = "down"
    /\ kpc \in {"none", "exited"} => queue = <<>> /\ in_flight = {}
    /\ kpc = "exited" => queue_closed
    /\ spc = "stopped" => kpc = "exited"
    /\ backend_up <=> kpc \notin {"none", "exited"}
    /\ starts \in Nat
    /\ (queue_closed \/ spc # "down") => starts >= 1

(* With a single start() the queue is closed only by a failed start or by  *)
(* a stop() that has joined the readers.                                   *)
SingleStart == MaxStarts <= 1 /\ queue_closed => spc \in {"down", "join_worker", "stopped"}

----------------------------------------------------------------------------
(* Connection::outstanding and the outbox                                  *)

ClosedOutbox ==
    /\ \A c \in Conns : reader_done[c] => rpc[c] \in {"join", "exited"}
    /\ \A c \in Conns : outbox_closed[c] => reader_done[c] /\ outstanding[c] = 0

----------------------------------------------------------------------------
(* Frames on the wire and answers                                          *)

(* A client numbers its frames 1, 2, ...; the reader reads them in order. *)
WireInOrder ==
    \A c \in Conns : /\ sent[c] = rseq[c] + Len(wire[c])
                     /\ \A k \in 1 .. Len(wire[c]) : wire[c][k].seq = rseq[c] + k

(* The tokens of the frames in X that the queue and the table hold *)
Queued(X) == {k \in 1 .. Len(queue) : queue[k] \in X}
Flying(X) == {e \in in_flight : e.frame \in X}
Travelling(X) == Cardinality(Queued(X)) + Cardinality(Flying(X))

FramesOf(c, n) == {f \in Frames : f.conn = c /\ f.seq = n}

(* How often frame n of connection c exists: as a token, as an answer or   *)
(* as the frame its reader gave up.                                        *)
InHand(c, n) == IF kpc \in {"release", "respond"} /\ khand.frame.conn = c /\ khand.frame.seq = n THEN 1 ELSE 0
WithReader(c, n) == IF rpc[c] \in Busy /\ rseq[c] = n THEN 1 ELSE 0
GivenUp(c, n) == IF dropped[c] = n THEN 1 ELSE 0
Copies(c, n) == pushed[c][n] + Travelling(FramesOf(c, n)) + InHand(c, n) + WithReader(c, n) + GivenUp(c, n)

(* Every frame read exists once, a frame to come not at all. *)
AnswersOK == \A c \in Conns, n \in Seqs : Copies(c, n) = IF n > rseq[c] THEN 0 ELSE 1

(* A reader that has given up a frame is on its way out, and had a reason. *)
Abandoning == {"uncount", "release", "finish", "join", "exited"}
DroppedOK ==
    \A c \in Conns : dropped[c] # 0 => /\ rpc[c] \in Abandoning /\ dropped[c] = rseq[c]
                                       /\ Broken(c) \/ queue_closed

(* stop() has shut every socket before it closes the pool. *)
ShutFirst ==
    /\ sock \in [Conns -> {"open", "shut"}] /\ peer \in [Conns -> {"up", "gone"}]
    /\ slots_closed => spc \in {"join_connections", "close_queue", "join_worker", "stopped"}
    /\ spc \in {"close_slots", "join_connections"} => \A c \in connections : sock[c] = "shut"

----------------------------------------------------------------------------
(* What is in a slot while somebody reads it                               *)

ImageOf(frame) == <<frame.conn, frame.seq>>

ImagesOK ==
    /\ \A c \in Conns : rpc[c] \in {"count", "push"} => slot_data[rslot[c]] = <<c, rseq[c]>>
    /\ \A k \in 1 .. Len(queue) : slot_data[queue[k].slot] = ImageOf(queue[k])
    /\ \A e \in in_flight, j \in running_jobs :
          e.handle = j.handle => slot_data[e.frame.slot] = ImageOf(e.frame)
    /\ \A e \in in_flight, d \in completed \cup batch :
          (e.handle = d.handle /\ d.status = "ok") => d.image = ImageOf(e.frame)
    /\ (kpc \in {"release", "respond"} /\ khand.status = "ok") => khand.image = ImageOf(khand.frame)

----------------------------------------------------------------------------
(* Types: initial state and steps                                          *)

(* The constructor establishes the types. *)
LEMMA InitTypes == Init => TypeOK
<1> SUFFICES ASSUME Init PROVE TypeOK
  OBVIOUS
<1> USE ServerAssumption DEF Init
<1>1. ClientTypes
  BY EmptySeq DEF ClientTypes
<1>2. ReaderTypes
  BY DEF ReaderTypes, ReaderStates, Holding, Busy
<1>3. ConnectionTypes
  BY EmptySeq DEF ConnectionTypes
<1>4. PoolTypes
  BY DEF PoolTypes, Images
<1>5. WorkerTypes
  BY EmptySeq, FS_EmptySet DEF WorkerTypes, Retiring
<1> QED
  BY <1>1, <1>2, <1>3, <1>4, <1>5 DEF TypeOK

(* What each actor leaves alone.  First the clients. *)
LEMMA ClientFrame ==
    ASSUME NEW c \in Conns, (\E kind \in Kinds : ClientSend(c, kind)) \/ ClientReceive(c) \/ ClientDies(c)
    PROVE  UNCHANGED <<reader, sock, connection, writer, pool, slot_data, jobs, worker, backend, control>>
  BY DEF ClientSend, ClientReceive, ClientDies

(* A connection's reader *)
LEMMA ReaderFrame ==
    ASSUME NEW c \in Conns, Reader(c)
    PROVE  UNCHANGED <<sent, peer, inbox, got, writer, slots_closed, queue_closed, worker, backend, control>>
  BY DEF Reader, ReadFrame, ReadFails, Drain, ClaimSlot, ReadPayload, ReaderRelease, release, CountJob, QueuePush,
     UncountJob, FinishReader, JoinWriter, client, pool, jobs

(* A connection's writer *)
LEMMA WriterFrame ==
    ASSUME NEW c \in Conns, Writer(c)
    PROVE  UNCHANGED <<sent, wire, peer, got, reader, outbox_closed, outstanding, reader_done, pushed, pool, slot_data,
                       jobs, worker, backend, control>>
  BY DEF Writer, WriterPop, WriterWrite, client, connection

(* The worker *)
LEMMA WorkerFrame ==
    ASSUME Worker
    PROVE  UNCHANGED <<client, reader, sock, reader_done, writer, slots_closed, slot_data, queue_closed, control>>
  BY DEF Worker, WorkerSubmit, WorkerSubmitThrows, WorkerNothingQueued, WorkerExit, WorkerPoll, WorkerRetire,
     WorkerRelease, release, WorkerRespond, WorkerJobRetired, job_retired, connection, pool, jobs

(* The backend *)
LEMMA BackendFrame ==
    ASSUME NEW job \in running_jobs, BackendFinish(job)
    PROVE  UNCHANGED <<client, reader, sock, connection, writer, pool, slot_data, jobs, worker, backend_up, control>>
  BY DEF BackendFinish

(* The acceptor when it accepts nobody, and the thread in stop() *)
LEMMA ControlFrame ==
    ASSUME AcceptorCheck \/ AcceptorTimeout \/ StartFails \/ StopBegin \/ Stop
    PROVE  UNCHANGED <<client, reader, connection, writer, slot_owner, slot_data, queue, worker, backend>>
  BY DEF AcceptorCheck, AcceptorTimeout, StartFails, StopBegin, Stop, StopJoinAcceptor, StopShutdownSockets,
     StopCloseSlots, StopJoinConnections, StopCloseQueue, StopJoinWorker, pool, jobs

(* The wire and the inbox hold frames and responses. *)
LEMMA ClientTypesStep == TypeOK /\ [Next]_vars => ClientTypes'
<1> SUFFICES ASSUME TypeOK, [Next]_vars PROVE ClientTypes'
  OBVIOUS
<1> USE ServerAssumption DEF TypeOK, client, reader, connection, writer, pool, jobs, worker, backend, control
<1>1. ASSUME NEW c \in Conns, NEW kind \in Kinds, ClientSend(c, kind) PROVE ClientTypes'
  <2>1. sent' = [sent EXCEPT ![c] = @ + 1] /\ sent[c] \in 0 .. MaxFrames /\ sent[c] < MaxFrames
    BY <1>1 DEF ClientSend, ClientTypes
  <2>2. [seq |-> sent'[c], kind |-> kind] \in WireFrames
    BY <2>1 DEF ClientTypes, WireFrames, Seqs
  <2>3. Append(wire[c], [seq |-> sent'[c], kind |-> kind]) \in Seq(WireFrames)
    BY <2>2, AppendProperties DEF ClientTypes
  <2> QED
    BY <1>1, <2>1, <2>3 DEF ClientSend, ClientTypes
<1>2. ASSUME NEW c \in Conns, ClientReceive(c) PROVE ClientTypes'
  BY <1>2, HeadTailProperties DEF ClientReceive, ClientTypes
<1>3. ASSUME NEW c \in Conns, ReadFrame(c) PROVE ClientTypes'
  BY <1>3, HeadTailProperties DEF ReadFrame, ClientTypes
<1>4. ASSUME NEW c \in Conns, WriterWrite(c) PROVE ClientTypes'
  <2>1. Append(inbox[c], whand[c]) \in Seq(Responses)
    BY <1>4, AppendProperties DEF WriterWrite, ClientTypes, ConnectionTypes
  <2> QED
    BY <1>4, <2>1 DEF WriterWrite, ClientTypes
<1>5. CASE UNCHANGED <<sent, wire, inbox>>
  BY <1>5 DEF ClientTypes
<1>6. ASSUME NEW c \in Conns, ClientDies(c) \/ ReadFails(c) \/ Drain(c) \/ ClaimSlot(c) \/ ReadPayload(c)
        \/ ReaderRelease(c) \/ CountJob(c) \/ QueuePush(c) \/ UncountJob(c) \/ FinishReader(c) \/ JoinWriter(c)
        \/ WriterPop(c)
      PROVE UNCHANGED <<sent, wire, inbox>>
  BY <1>6 DEF ClientDies, ReadFails, Drain, ClaimSlot, ReadPayload, ReaderRelease, CountJob, QueuePush, UncountJob,
     FinishReader, JoinWriter, WriterPop
<1>7. CASE AcceptorCheck \/ AcceptorTimeout \/ StartFails \/ StopBegin \/ Stop \/ Worker
           \/ \E job \in running_jobs : BackendFinish(job)
  BY <1>5, <1>7, ControlFrame, WorkerFrame, BackendFrame
<1>8. CASE StartSucceeds \/ \E c \in Conns : AcceptorAccept(c)
  BY <1>5, <1>8 DEF StartSucceeds, AcceptorAccept
<1>9. CASE UNCHANGED vars
  BY <1>5, <1>9 DEF vars
<1> QED
  BY <1>1, <1>2, <1>3, <1>4, <1>5, <1>6, <1>7, <1>8, <1>9 DEF Next, Reader, Writer, Acceptor, Terminated

(* A reader holds a slot exactly where the code has one in a local. *)
LEMMA ReaderTypesStep == TypeOK /\ [Next]_vars => ReaderTypes'
<1> SUFFICES ASSUME TypeOK, [Next]_vars PROVE ReaderTypes'
  OBVIOUS
<1> USE ServerAssumption DEF TypeOK, client, reader, connection, writer, pool, jobs, worker, backend, control
<1>1. CASE UNCHANGED reader
  BY <1>1 DEF ReaderTypes
<1>2. ASSUME NEW c \in Conns, ReadFrame(c) PROVE ReaderTypes'
  <2>1. Head(wire[c]) \in WireFrames
    BY <1>2, HeadTailProperties DEF ReadFrame, ClientTypes
  <2>2. Head(wire[c]).seq \in Seqs /\ Head(wire[c]).seq \in 0 .. MaxFrames
    BY <2>1 DEF WireFrames, Seqs
  <2> QED
    BY <1>2, <2>2 DEF ReadFrame, ReaderGoto, ReaderTypes, ReaderStates, Holding, Busy
<1>3. ASSUME NEW c \in Conns, ReadFails(c) \/ Drain(c) \/ ClaimSlot(c) \/ ReadPayload(c) \/ ReaderRelease(c)
             \/ CountJob(c)
      PROVE  ReaderTypes'
  <2>1. CASE ReadFails(c) \/ Drain(c) \/ ReaderRelease(c) \/ CountJob(c)
    BY <2>1 DEF ReadFails, Drain, ReaderRelease, CountJob, ReaderGoto, ReaderTypes, ReaderStates, Holding, Busy
  <2>2. CASE ClaimSlot(c)
    <3>1. dropped' \in [Conns -> 0 .. MaxFrames]
      BY <2>2 DEF ClaimSlot, GiveUp, ReaderTypes
    <3> QED
      BY <2>2, <3>1 DEF ClaimSlot, ReaderGoto, ReaderTypes, ReaderStates, Holding, Busy
  <2>3. CASE ReadPayload(c)
    <3>1. dropped' \in [Conns -> 0 .. MaxFrames]
      BY <2>3 DEF ReadPayload, GiveUp, ReaderTypes
    <3> QED
      BY <2>3, <3>1 DEF ReadPayload, ReaderGoto, ReaderTypes, ReaderStates, Holding, Busy
  <2> QED
    BY <1>3, <2>1, <2>2, <2>3
<1>4. ASSUME NEW c \in Conns, QueuePush(c) \/ UncountJob(c) \/ FinishReader(c) \/ JoinWriter(c)
      PROVE  ReaderTypes'
  <2>1. CASE QueuePush(c)
    <3>1. dropped' \in [Conns -> 0 .. MaxFrames]
      BY <2>1 DEF QueuePush, GiveUp, ReaderTypes
    <3> QED
      BY <2>1, <3>1 DEF QueuePush, ReaderGoto, ReaderTypes, ReaderStates, Holding, Busy
  <2>2. CASE UncountJob(c) \/ FinishReader(c) \/ JoinWriter(c)
    BY <2>2 DEF UncountJob, FinishReader, JoinWriter, ReaderGoto, ReaderTypes, ReaderStates, Holding, Busy
  <2> QED
    BY <1>4, <2>1, <2>2
<1>5. ASSUME NEW c \in Conns, AcceptorAccept(c) PROVE ReaderTypes'
  BY <1>5 DEF AcceptorAccept, ReaderGoto, ReaderTypes, ReaderStates, Holding, Busy
<1>6. ASSUME NEW c \in Conns, (\E kind \in Kinds : ClientSend(c, kind)) \/ ClientReceive(c) \/ ClientDies(c) \/ Writer(c)
      PROVE  ReaderTypes'
  BY <1>1, <1>6, ClientFrame, WriterFrame
<1>7. CASE AcceptorCheck \/ AcceptorTimeout \/ StartFails \/ StopBegin \/ Stop \/ Worker
           \/ \E job \in running_jobs : BackendFinish(job)
  BY <1>1, <1>7, ControlFrame, WorkerFrame, BackendFrame
<1>8. CASE StartSucceeds \/ UNCHANGED vars
  BY <1>1, <1>8 DEF StartSucceeds, vars
<1> QED
  BY <1>2, <1>3, <1>4, <1>5, <1>6, <1>7, <1>8 DEF Next, Reader, Acceptor, Terminated

(* Counting one more answer keeps the type of the history. *)
LEMMA PushedType ==
    ASSUME NEW c \in Conns, NEW n \in Seqs, NEW p \in [Conns -> [Seqs -> Nat]]
    PROVE  [p EXCEPT ![c][n] = @ + 1] \in [Conns -> [Seqs -> Nat]]
<1> DEFINE row == p[c]
<1>1. row \in [Seqs -> Nat]
  OBVIOUS
<1>2. [row EXCEPT ![n] = row[n] + 1] \in [Seqs -> Nat]
  <2> HIDE DEF row
  <2> QED
    BY <1>1
<1> QED
  BY <1>2

(* A response whose status changes is a response. *)
LEMMA ResponseType ==
    ASSUME NEW r \in Responses, NEW status \in Statuses
    PROVE  [r EXCEPT !.status = status] \in Responses
  BY DEF Responses

(* An outbox holds responses, and the writer has one in its hand while it writes. *)
LEMMA ConnectionTypesStep == TypeOK /\ [Next]_vars => ConnectionTypes'
<1> SUFFICES ASSUME TypeOK, [Next]_vars PROVE ConnectionTypes'
  OBVIOUS
<1> USE ServerAssumption DEF TypeOK, client, reader, connection, writer, pool, jobs, worker, backend, control
<1>1. CASE UNCHANGED <<connection, writer>>
  BY <1>1 DEF ConnectionTypes
<1>2. ASSUME NEW c \in Conns, NEW response \in Responses, OutboxPush(c, response),
             UNCHANGED <<outbox_closed, outstanding, reader_done, writer>>
      PROVE  ConnectionTypes'
  <2>1. response.seq \in Seqs
    BY DEF Responses
  <2>2. Append(outbox[c], response) \in Seq(Responses)
    BY AppendProperties DEF ConnectionTypes
  <2>3. outbox' \in [Conns -> Seq(Responses)]
    BY <1>2, <2>2 DEF OutboxPush, ConnectionTypes
  <2>4. pushed' \in [Conns -> [Seqs -> Nat]]
    BY <1>2, <2>1, PushedType DEF OutboxPush, ConnectionTypes
  <2> QED
    BY <1>2, <2>3, <2>4 DEF ConnectionTypes
<1>3. ASSUME NEW c \in Conns, ReadFrame(c) PROVE ConnectionTypes'
  <2>0. Head(wire[c]) \in WireFrames
    BY <1>3, HeadTailProperties DEF ReadFrame, ClientTypes
  <2>1. Head(wire[c]).seq \in Seqs
    BY <2>0 DEF WireFrames
  <2>2. [seq |-> Head(wire[c]).seq, status |-> "error", image |-> None] \in Responses
    BY <2>1 DEF Responses, Statuses, Images
  <2> QED
    BY <1>1, <1>2, <1>3, <2>2 DEF ReadFrame
<1>a. ASSUME NEW c \in Conns, job_retired(c) \/ reader_finished(c) \/ job_submitted(c), UNCHANGED writer
      PROVE  ConnectionTypes'
  <2>0. outstanding[c] + 1 \in Int /\ outstanding[c] - 1 \in Int /\ TRUE \in BOOLEAN
    BY DEF ConnectionTypes
  <2>1. /\ outstanding' \in [Conns -> Int] /\ reader_done' \in [Conns -> BOOLEAN]
        /\ UNCHANGED <<outbox, pushed>>
    <3>1. CASE job_submitted(c)
      BY <2>0, <3>1 DEF job_submitted, ConnectionTypes
    <3>2. CASE job_retired(c)
      BY <2>0, <3>2 DEF job_retired, ConnectionTypes
    <3>3. CASE reader_finished(c)
      BY <2>0, <3>3 DEF reader_finished, ConnectionTypes
    <3> QED
      BY <1>a, <3>1, <3>2, <3>3
  <2>2. outbox_closed' \in [Conns -> BOOLEAN]
    <3>1. (outbox_closed[c] \/ (reader_done'[c] /\ outstanding'[c] = 0)) \in BOOLEAN
      OBVIOUS
    <3> QED
      BY <1>a, <3>1 DEF job_retired, reader_finished, job_submitted, close_outbox_if_done, ConnectionTypes
  <2> QED
    BY <1>a, <2>1, <2>2 DEF ConnectionTypes
<1>4. ASSUME NEW c \in Conns, CountJob(c) \/ UncountJob(c) \/ FinishReader(c) PROVE ConnectionTypes'
  BY <1>4, <1>a DEF CountJob, UncountJob, FinishReader
<1>5. ASSUME NEW c \in Conns, WriterPop(c) PROVE ConnectionTypes'
  <2>1. CASE outbox[c] # <<>> /\ wpc' = [wpc EXCEPT ![c] = "write"]
    <3>1. Head(outbox[c]) \in Responses /\ Tail(outbox[c]) \in Seq(Responses)
      BY <2>1, HeadTailProperties DEF ConnectionTypes
    <3>2. Head(outbox[c]).status \in Statuses /\ "error" \in Statuses
      BY <3>1 DEF Responses, Statuses
    <3>3. PICK r \in Responses : whand' = [whand EXCEPT ![c] = r]
      BY <1>5, <2>1, <3>1, <3>2, ResponseType DEF WriterPop
    <3>4. /\ outbox' = [outbox EXCEPT ![c] = Tail(@)]
          /\ UNCHANGED <<outbox_closed, outstanding, reader_done, pushed>>
      BY <1>5, <2>1 DEF WriterPop
    <3> QED
      BY <2>1, <3>1, <3>3, <3>4 DEF ConnectionTypes
  <2>2. CASE outbox[c] = <<>>
    BY <1>5, <2>2 DEF WriterPop, ConnectionTypes
  <2> QED
    BY <1>5, <2>1, <2>2 DEF WriterPop
<1>6. ASSUME NEW c \in Conns, WriterWrite(c) PROVE ConnectionTypes'
  BY <1>6 DEF WriterWrite, ConnectionTypes
<1>7. CASE WorkerRespond
  <2>1. [seq |-> khand.frame.seq, status |-> khand.status, image |-> khand.image] \in Responses
    BY <1>7 DEF WorkerRespond, WorkerTypes, Retiring, Retirements, Frames, Responses
  <2>2. khand.frame.conn \in Conns
    BY <1>7 DEF WorkerRespond, WorkerTypes, Retiring, Retirements, Frames
  <2> QED
    BY <1>2, <1>7, <2>1, <2>2 DEF WorkerRespond
<1>8. CASE WorkerJobRetired
  <2>1. khand.frame.conn \in Conns
    BY <1>8 DEF WorkerJobRetired, WorkerTypes, Retiring, Retirements, Frames
  <2> QED
    BY <1>8, <1>a, <2>1 DEF WorkerJobRetired
<1>9. ASSUME NEW c \in Conns, AcceptorAccept(c) PROVE ConnectionTypes'
  BY <1>9 DEF AcceptorAccept, ConnectionTypes
<1>10. ASSUME NEW c \in Conns, ReadFails(c) \/ Drain(c) \/ ClaimSlot(c) \/ ReadPayload(c)
        \/ ReaderRelease(c) \/ QueuePush(c) \/ JoinWriter(c)
      PROVE ConnectionTypes'
  BY <1>1, <1>10 DEF ReadFails, Drain, ClaimSlot, ReadPayload, ReaderRelease, QueuePush, JoinWriter
<1>11. CASE WorkerSubmit \/ WorkerSubmitThrows \/ WorkerNothingQueued \/ WorkerExit \/ WorkerPoll \/ WorkerRetire
            \/ WorkerRelease
  BY <1>1, <1>11 DEF WorkerSubmit, WorkerSubmitThrows, WorkerNothingQueued, WorkerExit, WorkerPoll, WorkerRetire,
     WorkerRelease
<1>12. ASSUME NEW c \in Conns, (\E kind \in Kinds : ClientSend(c, kind)) \/ ClientReceive(c) \/ ClientDies(c)
      PROVE  ConnectionTypes'
  BY <1>1, <1>12, ClientFrame
<1>13. CASE AcceptorCheck \/ AcceptorTimeout \/ StartFails \/ StopBegin \/ Stop
           \/ \E job \in running_jobs : BackendFinish(job)
  BY <1>1, <1>13, ControlFrame, BackendFrame
<1>14. CASE StartSucceeds \/ UNCHANGED vars
  BY <1>1, <1>14 DEF StartSucceeds, vars
<1> QED
  BY <1>3, <1>4, <1>5, <1>6, <1>7, <1>8, <1>9, <1>10, <1>11, <1>12, <1>13, <1>14
  DEF Next, Reader, Writer, Worker, Acceptor, Terminated

(* A slot belongs to a connection or to nobody, and holds an image or nothing. *)
LEMMA PoolTypesStep == TypeOK /\ [Next]_vars => PoolTypes'
<1> SUFFICES ASSUME TypeOK, [Next]_vars PROVE PoolTypes'
  OBVIOUS
<1> USE ServerAssumption DEF TypeOK, client, reader, connection, writer, pool, jobs, worker, backend, control
<1>1. CASE UNCHANGED <<slot_owner, slot_data>>
  BY <1>1 DEF PoolTypes
<1>2. ASSUME NEW c \in Conns, ClaimSlot(c) PROVE PoolTypes'
  BY <1>2 DEF ClaimSlot, PoolTypes
<1>3. ASSUME NEW c \in Conns, ReadPayload(c) PROVE PoolTypes'
  <2>1. rseq[c] \in Seqs
    BY <1>3 DEF ReadPayload, ReaderTypes, Busy
  <2>2. <<c, rseq[c]>> \in Images /\ None \in Images
    BY <2>1 DEF Images
  <2> QED
    BY <1>3, <2>2 DEF ReadPayload, PoolTypes
<1>4. CASE WorkerRelease \/ \E c \in Conns : ReaderRelease(c)
  BY <1>4 DEF WorkerRelease, ReaderRelease, release, PoolTypes
<1>5. CASE StartSucceeds
  BY <1>5 DEF StartSucceeds, PoolTypes, Images
<1>6. ASSUME NEW c \in Conns, ReadFrame(c) \/ ReadFails(c) \/ Drain(c) \/ CountJob(c) \/ QueuePush(c) \/ UncountJob(c)
        \/ FinishReader(c) \/ JoinWriter(c)
      PROVE PoolTypes'
  BY <1>1, <1>6 DEF ReadFrame, ReadFails, Drain, CountJob, QueuePush, UncountJob, FinishReader, JoinWriter
<1>7. CASE WorkerSubmit \/ WorkerSubmitThrows \/ WorkerNothingQueued \/ WorkerExit \/ WorkerPoll \/ WorkerRetire
           \/ WorkerRespond \/ WorkerJobRetired
  BY <1>1, <1>7 DEF WorkerSubmit, WorkerSubmitThrows, WorkerNothingQueued, WorkerExit, WorkerPoll, WorkerRetire,
     WorkerRespond, WorkerJobRetired
<1>8. ASSUME NEW c \in Conns, (\E kind \in Kinds : ClientSend(c, kind)) \/ ClientReceive(c) \/ ClientDies(c) \/ Writer(c)
      PROVE  PoolTypes'
  BY <1>1, <1>8, ClientFrame, WriterFrame
<1>9. CASE AcceptorCheck \/ AcceptorTimeout \/ StartFails \/ StopBegin \/ Stop
           \/ \E job \in running_jobs : BackendFinish(job)
  BY <1>1, <1>9, ControlFrame, BackendFrame
<1>10. CASE UNCHANGED vars \/ \E c \in Conns : AcceptorAccept(c)
  BY <1>1, <1>10 DEF AcceptorAccept, vars
<1> QED
  BY <1>2, <1>3, <1>4, <1>5, <1>6, <1>7, <1>8, <1>9, <1>10 DEF Next, Reader, Worker, Acceptor, Terminated

(* The lookup of a completed job finds its entry. *)
LEMMA EntryFound ==
    ASSUME HandlesOK, NEW d \in batch
    PROVE  EntryFor(d) \in in_flight /\ EntryFor(d).handle = d.handle
<1>1. \E e \in in_flight : e.handle = d.handle
  BY DEF HandlesOK
<1> QED
  BY <1>1 DEF EntryFor

(* The worker's tables hold what their names say. *)
LEMMA WorkerTypesStep == TypeOK /\ HandlesOK /\ [Next]_vars => WorkerTypes'
<1> SUFFICES ASSUME TypeOK, HandlesOK, [Next]_vars PROVE WorkerTypes'
  OBVIOUS
<1> USE ServerAssumption DEF TypeOK, client, reader, connection, writer, pool, jobs, worker, backend, control
<1>1. CASE UNCHANGED <<queue, worker, running_jobs, completed>>
  BY <1>1 DEF WorkerTypes
<1>2. ASSUME NEW c \in Conns, QueuePush(c) PROVE WorkerTypes'
  <2>1. [conn |-> c, seq |-> rseq[c], slot |-> rslot[c]] \in Frames
    BY <1>2 DEF QueuePush, ReaderTypes, Busy, Holding, Frames
  <2>2. Append(queue, [conn |-> c, seq |-> rseq[c], slot |-> rslot[c]]) \in Seq(Frames)
    BY <2>1, AppendProperties DEF WorkerTypes
  <2> QED
    BY <1>2, <2>2 DEF QueuePush, WorkerTypes
<1>3. CASE WorkerSubmit
  <2>1. Head(queue) \in Frames /\ Tail(queue) \in Seq(Frames)
    BY <1>3, HeadTailProperties DEF WorkerSubmit, WorkerTypes
  <2>2. /\ [handle |-> next_handle, frame |-> Head(queue)] \in Entries
        /\ [handle |-> next_handle, slot |-> Head(queue).slot] \in Jobs
    BY <2>1 DEF Entries, Jobs, Frames, WorkerTypes
  <2>3. IsFiniteSet(in_flight')
    BY <1>3, FS_AddElement DEF WorkerSubmit, WorkerTypes
  <2> QED
    BY <1>3, <2>1, <2>2, <2>3 DEF WorkerSubmit, WorkerTypes, Retiring
<1>4. CASE WorkerSubmitThrows
  <2>1. Head(queue) \in Frames /\ Tail(queue) \in Seq(Frames)
    BY <1>4, HeadTailProperties DEF WorkerSubmitThrows, WorkerTypes
  <2>2. [frame |-> Head(queue), status |-> "error", image |-> None, next |-> "poll"] \in Retirements
    BY <2>1 DEF Retirements, Statuses, Images
  <2> QED
    BY <1>4, <2>1, <2>2 DEF WorkerSubmitThrows, WorkerTypes
<1>5. CASE WorkerRetire
  <2>1. CASE batch = {} /\ kpc' = "take" /\ UNCHANGED <<khand, in_flight, batch>>
    BY <1>5, <2>1 DEF WorkerRetire, WorkerTypes, Retiring
  <2>2. ASSUME NEW d \in batch, batch' = batch \ {d}, in_flight' = in_flight \ {EntryFor(d)},
               khand' = [frame |-> EntryFor(d).frame, status |-> d.status, image |-> d.image, next |-> "retire"],
               kpc' = "release"
        PROVE  WorkerTypes'
    <3>1. EntryFor(d).frame \in Frames /\ d.status \in Statuses /\ d.image \in Images
      BY EntryFound DEF WorkerTypes, Entries, Completions
    <3>2. khand' \in Retirements
      BY <2>2, <3>1 DEF Retirements
    <3>3. IsFiniteSet(in_flight')
      BY <2>2, FS_RemoveElement DEF WorkerTypes
    <3> QED
      BY <1>5, <2>2, <3>2, <3>3 DEF WorkerRetire, WorkerTypes
  <2> QED
    BY <1>5, <2>1, <2>2 DEF WorkerRetire
<1>6. CASE WorkerNothingQueued \/ WorkerExit \/ WorkerPoll \/ WorkerRelease \/ WorkerRespond
  BY <1>6 DEF WorkerNothingQueued, WorkerExit, WorkerPoll, WorkerRelease, WorkerRespond, WorkerTypes, Retiring
<1>7. CASE WorkerJobRetired
  <2>1. khand.next \in {"retire", "poll"}
    BY <1>7 DEF WorkerJobRetired, WorkerTypes, Retiring, Retirements
  <2> QED
    BY <1>7, <2>1 DEF WorkerJobRetired, WorkerTypes, Retiring
<1>8. ASSUME NEW job \in running_jobs, BackendFinish(job) PROVE WorkerTypes'
  <2>1. job.handle \in Nat /\ slot_data[job.slot] \in Images /\ None \in Images
    BY DEF WorkerTypes, Jobs, PoolTypes, Images
  <2>2. \A status \in {"ok", "error"} :
          [handle |-> job.handle, status |-> status,
           image |-> IF status = "ok" THEN slot_data[job.slot] ELSE None] \in Completions
    BY <2>1 DEF Completions, Statuses
  <2> QED
    BY <1>8, <2>2 DEF BackendFinish, WorkerTypes
<1>9. CASE StartSucceeds
  BY <1>9 DEF StartSucceeds, WorkerTypes, Retiring
<1>10. ASSUME NEW c \in Conns, ReadFrame(c) \/ ReadFails(c) \/ Drain(c) \/ ClaimSlot(c) \/ ReadPayload(c)
        \/ ReaderRelease(c) \/ CountJob(c) \/ UncountJob(c) \/ FinishReader(c) \/ JoinWriter(c)
       PROVE WorkerTypes'
  BY <1>1, <1>10 DEF ReadFrame, ReadFails, Drain, ClaimSlot, ReadPayload, ReaderRelease, CountJob, UncountJob,
     FinishReader, JoinWriter
<1>11. ASSUME NEW c \in Conns, (\E kind \in Kinds : ClientSend(c, kind)) \/ ClientReceive(c) \/ ClientDies(c) \/ Writer(c)
       PROVE  WorkerTypes'
  BY <1>1, <1>11, ClientFrame, WriterFrame
<1>12. CASE AcceptorCheck \/ AcceptorTimeout \/ StartFails \/ StopBegin \/ Stop
  BY <1>1, <1>12, ControlFrame
<1>13. CASE UNCHANGED vars \/ \E c \in Conns : AcceptorAccept(c)
  BY <1>1, <1>13 DEF AcceptorAccept, vars
<1> QED
  BY <1>2, <1>3, <1>4, <1>5, <1>6, <1>7, <1>8, <1>9, <1>10, <1>11, <1>12, <1>13
  DEF Next, Reader, Worker, Acceptor, Terminated

----------------------------------------------------------------------------
(* Handles                                                                 *)

(* The constructor: no jobs, no handles. *)
LEMMA InitHandles == Init => HandlesOK
  BY DEF Init, HandlesOK

(* A handle is fresh when it is given out, and the entry it names is only  *)
(* removed together with the one completion that carries it.               *)
LEMMA HandlesStep == TypeOK /\ HandlesOK /\ [Next]_vars => HandlesOK'
<1> SUFFICES ASSUME TypeOK, HandlesOK, [Next]_vars PROVE HandlesOK'
  OBVIOUS
<1> USE DEF client, reader, connection, writer, pool, jobs, worker, backend, control
<1>1. CASE UNCHANGED <<in_flight, next_handle, batch, running_jobs, completed>>
  BY <1>1 DEF HandlesOK
<1>2. CASE WorkerSubmit
  <2> DEFINE entry == [handle |-> next_handle, frame |-> Head(queue)]
             job == [handle |-> next_handle, slot |-> Head(queue).slot]
  <2>1. /\ in_flight' = in_flight \cup {entry} /\ running_jobs' = running_jobs \cup {job}
        /\ next_handle' = next_handle + 1 /\ UNCHANGED <<batch, completed>>
    BY <1>2 DEF WorkerSubmit
  <2>2. entry.handle = next_handle /\ job.handle = next_handle /\ entry.frame.slot = job.slot
    OBVIOUS
  <2>3. /\ next_handle \in Nat
        /\ \A e \in in_flight : e.handle \in Nat /\ e.handle < next_handle
    BY DEF TypeOK, WorkerTypes, Entries, HandlesOK
  <2>4. \A j \in running_jobs \cup completed \cup batch : j.handle # next_handle
    BY <2>3 DEF HandlesOK
  <2> HIDE DEF entry, job
  <2>5. \A e \in in_flight' : e.handle < next_handle'
    BY <2>1, <2>2, <2>3
  <2>6. \A e, f \in in_flight' : e.handle = f.handle => e = f
    BY <2>1, <2>2, <2>3 DEF HandlesOK
  <2>7. \A j \in running_jobs' : \E e \in in_flight' : e.handle = j.handle /\ e.frame.slot = j.slot
    BY <2>1, <2>2 DEF HandlesOK
  <2>8. \A d \in (completed \cup batch)' : \E e \in in_flight' : e.handle = d.handle
    BY <2>1 DEF HandlesOK
  <2>9. \A i, j \in running_jobs' : i.handle = j.handle => i = j
    BY <2>1, <2>2, <2>4 DEF HandlesOK
  <2>10. \A j \in running_jobs', d \in (completed \cup batch)' : j.handle # d.handle
    BY <2>1, <2>2, <2>4 DEF HandlesOK
  <2> QED
    BY <2>1, <2>5, <2>6, <2>7, <2>8, <2>9, <2>10 DEF HandlesOK
<1>3. CASE WorkerPoll
  BY <1>3 DEF WorkerPoll, HandlesOK
<1>4. CASE WorkerRetire
  <2>1. ASSUME NEW d \in batch, batch' = batch \ {d}, in_flight' = in_flight \ {EntryFor(d)}
        PROVE  HandlesOK'
    <3>1. UNCHANGED <<next_handle, running_jobs, completed>>
      BY <1>4 DEF WorkerRetire
    <3>2. EntryFor(d) \in in_flight /\ EntryFor(d).handle = d.handle
      BY EntryFound
    <3>3. \A e \in in_flight : e.handle # d.handle => e \in in_flight'
      BY <2>1, <3>2
    <3>4. \A j \in running_jobs' : \E e \in in_flight' : e.handle = j.handle /\ e.frame.slot = j.slot
      BY <3>1, <3>3 DEF HandlesOK
    <3>5. \A f \in (completed \cup batch)' : \E e \in in_flight' : e.handle = f.handle
      <4> SUFFICES ASSUME NEW f \in completed \cup (batch \ {d}) PROVE \E e \in in_flight' : e.handle = f.handle
        BY <2>1, <3>1
      <4>1. f # d
        BY DEF HandlesOK
      <4>2. f.handle # d.handle
        BY <4>1 DEF HandlesOK
      <4> QED
        BY <3>3, <4>2 DEF HandlesOK
    <3> QED
      BY <2>1, <3>1, <3>4, <3>5 DEF HandlesOK
  <2> QED
    BY <1>1, <1>4, <2>1 DEF WorkerRetire
<1>5. ASSUME NEW job \in running_jobs, BackendFinish(job) PROVE HandlesOK'
  <2>1. PICK d : d.handle = job.handle /\ completed' = completed \cup {d}
    BY <1>5 DEF BackendFinish
  <2>2. running_jobs' = running_jobs \ {job} /\ UNCHANGED <<in_flight, next_handle, batch>>
    BY <1>5 DEF BackendFinish
  <2>3. \A j \in running_jobs' : j.handle # job.handle
    BY <2>2 DEF HandlesOK
  <2>4. \A f \in completed \cup batch : f.handle # d.handle
    BY <2>1 DEF HandlesOK
  <2>5. \A f \in (completed \cup batch)' : \E e \in in_flight' : e.handle = f.handle
    BY <2>1, <2>2 DEF HandlesOK
  <2>6. \A f, g \in (completed \cup batch)' : f.handle = g.handle => f = g
    BY <2>1, <2>2, <2>4 DEF HandlesOK
  <2>7. \A j \in running_jobs', f \in (completed \cup batch)' : j.handle # f.handle
    BY <2>1, <2>2, <2>3 DEF HandlesOK
  <2>8. (completed \cap batch)' = {}
    BY <2>1, <2>2, <2>4 DEF HandlesOK
  <2> QED
    BY <2>2, <2>5, <2>6, <2>7, <2>8 DEF HandlesOK
<1>6. CASE WorkerSubmitThrows \/ WorkerNothingQueued \/ WorkerExit \/ WorkerRelease \/ WorkerRespond \/ WorkerJobRetired
  BY <1>1, <1>6 DEF WorkerSubmitThrows, WorkerNothingQueued, WorkerExit, WorkerRelease, WorkerRespond, WorkerJobRetired
<1>7. ASSUME NEW c \in Conns, (\E kind \in Kinds : ClientSend(c, kind)) \/ ClientReceive(c) \/ ClientDies(c)
                              \/ Reader(c) \/ Writer(c)
      PROVE  HandlesOK'
  BY <1>1, <1>7, ClientFrame, ReaderFrame, WriterFrame
<1>8. CASE AcceptorCheck \/ AcceptorTimeout \/ StartFails \/ StopBegin \/ Stop
  BY <1>1, <1>8, ControlFrame
<1>9. CASE StartSucceeds \/ UNCHANGED vars \/ \E c \in Conns : AcceptorAccept(c)
  BY <1>1, <1>9 DEF StartSucceeds, AcceptorAccept, vars
<1> QED
  BY <1>2, <1>3, <1>4, <1>5, <1>6, <1>7, <1>8, <1>9 DEF Next, Worker, Acceptor, Terminated

----------------------------------------------------------------------------
(* start() and stop()                                                      *)

(* The constructor starts no thread. *)
LEMMA InitControl == Init => ControlOK /\ SingleStart
  BY DEF Init, ControlOK, SingleStart, Gone

(* start() and stop() run the threads in the order the code joins them. *)
LEMMA ControlStep == TypeOK /\ ControlOK /\ SingleStart /\ [Next]_vars => ControlOK' /\ SingleStart'
<1> SUFFICES ASSUME TypeOK, ControlOK, SingleStart, [Next]_vars PROVE ControlOK' /\ SingleStart'
  OBVIOUS
<1> USE ServerAssumption DEF client, reader, connection, writer, pool, jobs, worker, backend, control
<1>1. CASE UNCHANGED <<spc, apc, connections, rpc, wpc, kpc, queue, in_flight, queue_closed, backend_up, starts>>
  BY <1>1 DEF ControlOK, SingleStart
<1>2. ASSUME NEW c \in Conns, ReadFrame(c) \/ ReadFails(c) \/ Drain(c) \/ ClaimSlot(c) \/ ReadPayload(c)
             \/ ReaderRelease(c) \/ CountJob(c) \/ UncountJob(c) \/ FinishReader(c)
      PROVE  ControlOK' /\ SingleStart'
  <2>1. PICK where \in ReaderStates \ Gone : rpc' = [rpc EXCEPT ![c] = where]
    BY <1>2 DEF ReadFrame, ReadFails, Drain, ClaimSlot, ReadPayload, ReaderRelease, CountJob, UncountJob,
       FinishReader, ReaderGoto, ReaderStates, Holding, Gone
  <2>2. rpc[c] \notin Gone
    BY <1>2 DEF ReadFrame, ReadFails, Drain, ClaimSlot, ReadPayload, ReaderRelease, CountJob, UncountJob,
       FinishReader, Gone
  <2>3. UNCHANGED <<spc, apc, connections, wpc, kpc, queue, in_flight, queue_closed, backend_up, starts>>
    BY <1>2 DEF ReadFrame, ReadFails, Drain, ClaimSlot, ReadPayload, ReaderRelease, CountJob, UncountJob,
       FinishReader
  <2> QED
    BY <2>1, <2>2, <2>3 DEF ControlOK, SingleStart, Gone, TypeOK, ReaderTypes
<1>3. ASSUME NEW c \in Conns, QueuePush(c) PROVE ControlOK' /\ SingleStart'
  <2>1. c \in connections
    BY <1>3 DEF QueuePush, ControlOK, Gone
  <2>2. /\ rpc' = [rpc EXCEPT ![c] = "recv"] \/ rpc' = [rpc EXCEPT ![c] = "uncount"]
        /\ UNCHANGED <<spc, apc, connections, wpc, kpc, in_flight, queue_closed, backend_up, starts>>
        /\ queue_closed => queue' = queue
        /\ rpc[c] = "push"
    BY <1>3 DEF QueuePush, ReaderGoto
  <2>3. kpc \in {"none", "exited"} => queue' = queue
    BY <2>1, <2>2 DEF ControlOK
  <2> QED
    BY <2>1, <2>2, <2>3 DEF ControlOK, SingleStart, Gone, TypeOK, ReaderTypes
<1>4. ASSUME NEW c \in Conns, JoinWriter(c) PROVE ControlOK' /\ SingleStart'
  BY <1>4 DEF JoinWriter, ReaderGoto, ControlOK, SingleStart, Gone, TypeOK, ReaderTypes
<1>5. ASSUME NEW c \in Conns, WriterPop(c) \/ WriterWrite(c) PROVE ControlOK' /\ SingleStart'
  BY <1>5 DEF WriterPop, WriterWrite, ControlOK, SingleStart, TypeOK, ConnectionTypes
<1>6. CASE WorkerSubmit \/ WorkerSubmitThrows \/ WorkerNothingQueued \/ WorkerPoll
  BY <1>6 DEF WorkerSubmit, WorkerSubmitThrows, WorkerNothingQueued, WorkerPoll, ControlOK, SingleStart
<1>7. CASE WorkerExit \/ WorkerRetire \/ WorkerRelease \/ WorkerRespond
  BY <1>7 DEF WorkerExit, WorkerRetire, WorkerRelease, WorkerRespond, ControlOK, SingleStart
<1>8. CASE WorkerJobRetired
  <2>1. khand.next \in {"retire", "poll"}
    BY <1>8 DEF WorkerJobRetired, TypeOK, WorkerTypes, Retiring, Retirements
  <2> QED
    BY <1>8, <2>1 DEF WorkerJobRetired, ControlOK, SingleStart
<1>9. CASE AcceptorCheck
  BY <1>9 DEF AcceptorCheck, running, ControlOK, SingleStart
<1>10. CASE AcceptorTimeout
  BY <1>10 DEF AcceptorTimeout, Unfinished, ControlOK, SingleStart, Gone
<1>11. ASSUME NEW c \in Conns, AcceptorAccept(c) PROVE ControlOK' /\ SingleStart'
  BY <1>11 DEF AcceptorAccept, ReaderGoto, Unfinished, ControlOK, SingleStart, Gone, TypeOK, ReaderTypes, ConnectionTypes
<1>12. CASE StartSucceeds
  BY <1>12 DEF StartSucceeds, ControlOK, SingleStart
<1>13. CASE StartFails
  BY <1>13 DEF StartFails, ControlOK, SingleStart
<1>14. CASE StopBegin \/ StopJoinAcceptor \/ StopShutdownSockets \/ StopCloseSlots
  BY <1>14 DEF StopBegin, StopJoinAcceptor, StopShutdownSockets, StopCloseSlots, ControlOK, SingleStart
<1>15. CASE StopJoinConnections
  BY <1>15 DEF StopJoinConnections, Unfinished, ControlOK, SingleStart, Gone
<1>16. CASE StopCloseQueue \/ StopJoinWorker
  BY <1>16 DEF StopCloseQueue, StopJoinWorker, ControlOK, SingleStart
<1>17. CASE \E job \in running_jobs : BackendFinish(job)
  BY <1>1, <1>17, BackendFrame
<1>18. ASSUME NEW c \in Conns, (\E kind \in Kinds : ClientSend(c, kind)) \/ ClientReceive(c) \/ ClientDies(c)
       PROVE  ControlOK' /\ SingleStart'
  BY <1>1, <1>18, ClientFrame
<1>19. CASE UNCHANGED vars
  BY <1>1, <1>19 DEF vars
<1> QED
  BY <1>2, <1>3, <1>4, <1>5, <1>6, <1>7, <1>8, <1>9, <1>10, <1>11, <1>12, <1>13, <1>14, <1>15, <1>16, <1>17, <1>18, <1>19
  DEF Next, Reader, Writer, Worker, Acceptor, Stop, Terminated

----------------------------------------------------------------------------
(* Counting tokens                                                         *)

(* Shifting a finite set of positions by one keeps its size. *)
LEMMA ShiftCount ==
    ASSUME NEW S, NEW T, IsFiniteSet(S), S \subseteq Nat, T = {k + 1 : k \in S}
    PROVE  IsFiniteSet(T) /\ Cardinality(T) = Cardinality(S)
<1> DEFINE f == [k \in S |-> k + 1]
<1>1. f \in Bijection(S, T)
  BY DEF Bijection, Injection, Surjection, IsInjective
<1> QED
  BY <1>1, FS_Bijection DEF ExistsBijection

(* The counts are natural numbers. *)
LEMMA CountTypes ==
    ASSUME WorkerTypes, NEW X
    PROVE  /\ IsFiniteSet(Queued(X)) /\ Cardinality(Queued(X)) \in Nat
           /\ IsFiniteSet(Flying(X)) /\ Cardinality(Flying(X)) \in Nat
           /\ Travelling(X) \in Nat
<1>1. Len(queue) \in Nat
  BY LenProperties DEF WorkerTypes
<1>2. IsFiniteSet(1 .. Len(queue)) /\ Queued(X) \subseteq 1 .. Len(queue)
  BY <1>1, FS_Interval DEF Queued
<1>3. Flying(X) \subseteq in_flight /\ IsFiniteSet(in_flight)
  BY DEF Flying, WorkerTypes
<1>4. /\ IsFiniteSet(Queued(X)) /\ Cardinality(Queued(X)) \in Nat
      /\ IsFiniteSet(Flying(X)) /\ Cardinality(Flying(X)) \in Nat
  BY <1>2, <1>3, FS_Subset, FS_CardinalityType
<1> QED
  BY <1>4 DEF Travelling

(* Tokens do not move when neither the queue nor the table changes. *)
LEMMA TravellingSame ==
    ASSUME NEW X, UNCHANGED <<queue, in_flight>>
    PROVE  Travelling(X)' = Travelling(X)
  BY DEF Travelling, Queued, Flying

(* A push adds the token of the frame it appends. *)
LEMMA TravellingPush ==
    ASSUME WorkerTypes, NEW X, NEW f \in Frames, queue' = Append(queue, f), in_flight' = in_flight
    PROVE  Travelling(X)' = Travelling(X) + (IF f \in X THEN 1 ELSE 0)
<1> DEFINE n == Len(queue)
<1>1. n \in Nat /\ queue \in Seq(Frames)
  BY LenProperties DEF WorkerTypes
<1>2. Len(queue') = n + 1 /\ (\A k \in 1 .. n : queue'[k] = queue[k]) /\ queue'[n + 1] = f
  BY <1>1, AppendProperties
<1>3. n + 1 \notin Queued(X)
  BY <1>1 DEF Queued
<1> HIDE DEF n
<1>4. Queued(X)' = IF f \in X THEN Queued(X) \cup {n + 1} ELSE Queued(X)
  BY <1>1, <1>2 DEF Queued, n
<1>5. Cardinality(Queued(X)') = Cardinality(Queued(X)) + (IF f \in X THEN 1 ELSE 0)
  <2>1. IsFiniteSet(Queued(X)) /\ Cardinality(Queued(X)) \in Nat
    BY CountTypes
  <2>2. CASE f \in X
    BY <1>3, <1>4, <2>1, <2>2, FS_AddElement
  <2>3. CASE f \notin X
    BY <1>4, <2>1, <2>3
  <2> QED
    BY <2>2, <2>3
<1>6. Flying(X)' = Flying(X)
  BY DEF Flying
<1> QED
  BY <1>5, <1>6, CountTypes DEF Travelling

(* Taking the front of the queue removes the token of that frame. *)
LEMMA QueuedTail ==
    ASSUME WorkerTypes, NEW X, queue # <<>>, queue' = Tail(queue)
    PROVE  Cardinality(Queued(X)') = Cardinality(Queued(X)) - (IF Head(queue) \in X THEN 1 ELSE 0)
<1> DEFINE n == Len(queue)
           S == {k \in 1 .. (n - 1) : queue[k + 1] \in X}
           T == {k \in 2 .. n : queue[k] \in X}
<1>1. n \in Nat /\ n > 0 /\ queue \in Seq(Frames) /\ Head(queue) = queue[1]
  BY EmptySeq, LenProperties DEF WorkerTypes
<1>2. Len(queue') = n - 1 /\ \A k \in 1 .. (n - 1) : queue'[k] = queue[k + 1]
  BY <1>1, HeadTailProperties
<1>3. Queued(X)' = S
  BY <1>2 DEF Queued
<1>4. IsFiniteSet(S) /\ S \subseteq Nat
  <2>1. S \subseteq 1 .. (n - 1) /\ IsFiniteSet(1 .. (n - 1))
    BY <1>1, FS_Interval
  <2> QED
    BY <2>1, FS_Subset
<1>5. T = {k + 1 : k \in S}
  <2>1. ASSUME NEW k \in T PROVE k \in {m + 1 : m \in S}
    <3>1. k - 1 \in S /\ k = (k - 1) + 1
      BY <1>1
    <3> QED
      BY <3>1
  <2>2. ASSUME NEW k \in S PROVE k + 1 \in T
    BY <1>1
  <2> QED
    BY <2>1, <2>2
<1>6. IsFiniteSet(T) /\ Cardinality(T) = Cardinality(S)
  <2> HIDE DEF S, T
  <2> QED
    BY <1>4, <1>5, ShiftCount
<1>7. Queued(X) = (IF Head(queue) \in X THEN T \cup {1} ELSE T) /\ 1 \notin T
  BY <1>1 DEF Queued
<1>8. Cardinality(T) \in Nat
  BY <1>6, FS_CardinalityType
<1> HIDE DEF S, T
<1>9. CASE Head(queue) \in X
  <2>1. Cardinality(T \cup {1}) = Cardinality(T) + 1
    BY <1>6, <1>7, FS_AddElement
  <2>2. Cardinality(Queued(X)) = Cardinality(T) + 1
    BY <1>7, <1>9, <2>1
  <2> QED
    BY <1>3, <1>6, <1>8, <1>9, <2>2
<1>10. CASE Head(queue) \notin X
  BY <1>3, <1>6, <1>7, <1>8, <1>10
<1> QED
  BY <1>9, <1>10

(* Submitting a job moves its token from the queue to the table. *)
LEMMA TravellingSubmit ==
    ASSUME WorkerTypes, HandlesOK, NEW X, WorkerSubmit
    PROVE  Travelling(X)' = Travelling(X)
<1> DEFINE entry == [handle |-> next_handle, frame |-> Head(queue)]
<1>1. queue # <<>> /\ queue' = Tail(queue) /\ in_flight' = in_flight \cup {entry}
  BY DEF WorkerSubmit
<1>2. entry \notin in_flight
  BY DEF HandlesOK, WorkerTypes, Entries
<1>3. entry.frame = Head(queue)
  OBVIOUS
<1> HIDE DEF entry
<1>4. Flying(X)' = (IF Head(queue) \in X THEN Flying(X) \cup {entry} ELSE Flying(X)) /\ entry \notin Flying(X)
  BY <1>1, <1>2, <1>3 DEF Flying
<1>5. /\ IsFiniteSet(Flying(X)) /\ Cardinality(Flying(X)) \in Nat
      /\ Cardinality(Queued(X)) \in Nat
  BY CountTypes
<1>6. Cardinality(Flying(X)') = Cardinality(Flying(X)) + (IF Head(queue) \in X THEN 1 ELSE 0)
  <2>1. CASE Head(queue) \in X
    BY <1>4, <1>5, <2>1, FS_AddElement
  <2>2. CASE Head(queue) \notin X
    BY <1>4, <1>5, <2>2
  <2> QED
    BY <2>1, <2>2
<1>7. Cardinality(Queued(X)') = Cardinality(Queued(X)) - (IF Head(queue) \in X THEN 1 ELSE 0)
  BY <1>1, QueuedTail
<1> QED
  BY <1>5, <1>6, <1>7 DEF Travelling

(* A submit that throws moves the token from the queue to the worker's hand. *)
LEMMA TravellingThrow ==
    ASSUME WorkerTypes, NEW X, WorkerSubmitThrows
    PROVE  Travelling(X)' = Travelling(X) - (IF khand'.frame \in X THEN 1 ELSE 0)
<1>1. queue # <<>> /\ queue' = Tail(queue) /\ in_flight' = in_flight /\ khand'.frame = Head(queue)
  BY DEF WorkerSubmitThrows
<1>2. Flying(X)' = Flying(X)
  BY <1>1 DEF Flying
<1>3. Cardinality(Flying(X)) \in Nat /\ Cardinality(Queued(X)) \in Nat
  BY CountTypes
<1>4. Cardinality(Queued(X)') = Cardinality(Queued(X)) - (IF Head(queue) \in X THEN 1 ELSE 0)
  BY <1>1, QueuedTail
<1> QED
  BY <1>1, <1>2, <1>3, <1>4 DEF Travelling

(* Retiring a job moves its token from the table to the worker's hand. *)
LEMMA TravellingRetire ==
    ASSUME WorkerTypes, HandlesOK, NEW X, NEW d \in batch,
           queue' = queue, in_flight' = in_flight \ {EntryFor(d)}
    PROVE  Travelling(X)' = Travelling(X) - (IF EntryFor(d).frame \in X THEN 1 ELSE 0)
<1> DEFINE entry == EntryFor(d)
<1>1. entry \in in_flight
  BY EntryFound
<1> HIDE DEF entry
<1>2. Flying(X)' = IF entry.frame \in X THEN Flying(X) \ {entry} ELSE Flying(X)
  BY <1>1 DEF Flying, entry
<1>3. entry.frame \in X => entry \in Flying(X)
  BY <1>1 DEF Flying
<1>4. /\ IsFiniteSet(Flying(X)) /\ Cardinality(Flying(X)) \in Nat
      /\ Cardinality(Queued(X)) \in Nat
  BY CountTypes
<1>5. Cardinality(Flying(X)') = Cardinality(Flying(X)) - (IF entry.frame \in X THEN 1 ELSE 0)
  <2>1. CASE entry.frame \in X
    BY <1>2, <1>3, <1>4, <2>1, FS_RemoveElement
  <2>2. CASE entry.frame \notin X
    BY <1>2, <1>4, <2>2
  <2> QED
    BY <2>1, <2>2
<1>6. Queued(X)' = Queued(X)
  BY DEF Queued
<1> QED
  BY <1>4, <1>5, <1>6 DEF Travelling, entry

(* Who moves tokens: every other step leaves the queue and the table alone. *)
LEMMA TokenMoves ==
    ASSUME [Next]_vars
    PROVE  \/ UNCHANGED <<queue, in_flight>>
           \/ \E c \in Conns : QueuePush(c)
           \/ WorkerSubmit \/ WorkerSubmitThrows \/ WorkerRetire
<1> USE DEF client, reader, connection, writer, pool, jobs, worker, backend, control
<1>1. ASSUME NEW c \in Conns, (\E kind \in Kinds : ClientSend(c, kind)) \/ ClientReceive(c) \/ ClientDies(c)
                              \/ Writer(c)
      PROVE  UNCHANGED <<queue, in_flight>>
  BY <1>1, ClientFrame, WriterFrame
<1>2. ASSUME NEW c \in Conns, ReadFrame(c) \/ ReadFails(c) \/ Drain(c) \/ ClaimSlot(c) \/ ReadPayload(c)
        \/ ReaderRelease(c) \/ CountJob(c) \/ UncountJob(c) \/ FinishReader(c) \/ JoinWriter(c)
      PROVE  UNCHANGED <<queue, in_flight>>
  BY <1>2 DEF ReadFrame, ReadFails, Drain, ClaimSlot, ReadPayload, ReaderRelease, CountJob, UncountJob,
     FinishReader, JoinWriter
<1>3. ASSUME WorkerNothingQueued \/ WorkerExit \/ WorkerPoll \/ WorkerRelease \/ WorkerRespond \/ WorkerJobRetired
      PROVE  UNCHANGED <<queue, in_flight>>
  BY <1>3 DEF WorkerNothingQueued, WorkerExit, WorkerPoll, WorkerRelease, WorkerRespond, WorkerJobRetired
<1>4. ASSUME AcceptorCheck \/ AcceptorTimeout \/ StartFails \/ StopBegin \/ Stop
             \/ (\E job \in running_jobs : BackendFinish(job)) \/ StartSucceeds \/ UNCHANGED vars
             \/ \E c \in Conns : AcceptorAccept(c)
      PROVE  UNCHANGED <<queue, in_flight>>
  BY <1>4, ControlFrame, BackendFrame DEF StartSucceeds, AcceptorAccept, vars
<1> QED
  BY <1>1, <1>2, <1>3, <1>4 DEF Next, Reader, Worker, Acceptor, Terminated

----------------------------------------------------------------------------
(* Connection::outstanding                                                 *)

FramesTo(c) == {f \in Frames : f.conn = c}

(* What the worker's hand and the reader itself contribute to Owed *)
HandOwes(c) == IF kpc \in Retiring /\ khand.frame.conn = c THEN 1 ELSE 0
ReaderOwes(c) == IF rpc[c] \in {"push", "uncount"} THEN 1 ELSE 0

OwedSplit == \A c \in Conns : Owed(c) = Travelling(FramesTo(c)) + HandOwes(c) + ReaderOwes(c)

(* What is owed is the tokens of the connection, wherever they are. *)
LEMMA OwedIsTokens == WorkerTypes => OwedSplit
<1> SUFFICES ASSUME WorkerTypes, NEW c \in Conns
             PROVE  Owed(c) = Travelling(FramesTo(c)) + HandOwes(c) + ReaderOwes(c)
  BY DEF OwedSplit
<1>1. {k \in 1 .. Len(queue) : queue[k].conn = c} = Queued(FramesTo(c))
  <2>1. \A k \in 1 .. Len(queue) : queue[k] \in Frames
    BY ElementOfSeq DEF WorkerTypes
  <2> QED
    BY <2>1 DEF Queued, FramesTo
<1>2. {e \in in_flight : e.frame.conn = c} = Flying(FramesTo(c))
  <2>1. \A e \in in_flight : e.frame \in Frames
    BY DEF WorkerTypes, Entries
  <2> QED
    BY <2>1 DEF Flying, FramesTo
<1> QED
  BY <1>1, <1>2 DEF Owed, Travelling, HandOwes, ReaderOwes, Retiring

(* The same after a step *)
LEMMA OwedIsTokensNext == WorkerTypes' => OwedSplit'
  BY OwedIsTokens, PTL

(* The constructor: nobody owes anything. *)
LEMMA InitOutstanding == Init => OutstandingExact /\ ClosedOutbox
<1> SUFFICES ASSUME Init PROVE OutstandingExact /\ ClosedOutbox
  OBVIOUS
<1>1. \A c \in Conns : Owed(c) = 0
  <2> SUFFICES ASSUME NEW c \in Conns PROVE Owed(c) = 0
    OBVIOUS
  <2>1. {k \in 1 .. Len(queue) : queue[k].conn = c} = {} /\ {e \in in_flight : e.frame.conn = c} = {}
    BY DEF Init
  <2> QED
    BY <2>1, FS_EmptySet DEF Init, Owed
<1> QED
  BY <1>1 DEF Init, OutstandingExact, ClosedOutbox

(* The worker holds a well-formed retirement while it retires. *)
LEMMA HandType ==
    ASSUME WorkerTypes, kpc \in Retiring
    PROVE  khand.frame \in Frames /\ khand.frame.conn \in Conns /\ khand.next \in {"retire", "poll"}
  BY DEF WorkerTypes, Retirements, Frames

(* Every step changes the counter and what is owed by the same amount. *)
LEMMA OutstandingStep ==
    ASSUME TypeOK, TypeOK', HandlesOK, ControlOK, OutstandingExact, [Next]_vars
    PROVE  OutstandingExact'
<1> USE DEF client, reader, connection, writer, pool, jobs, worker, backend, control
<1> SUFFICES ASSUME NEW c \in Conns PROVE outstanding'[c] = Owed(c)'
  BY DEF OutstandingExact
<1> DEFINE T == Travelling(FramesTo(c))
           H == HandOwes(c)
           R == ReaderOwes(c)
<1>1. outstanding[c] = T + H + R /\ Owed(c)' = T' + H' + R'
  BY OwedIsTokens, OwedIsTokensNext DEF OutstandingExact, OwedSplit, TypeOK
<1>2. T \in Nat /\ H \in 0 .. 1 /\ R \in 0 .. 1
  BY CountTypes DEF TypeOK, HandOwes, ReaderOwes
<1>3. \A f \in Frames : f \in FramesTo(c) <=> f.conn = c
  BY DEF FramesTo
<1>t. UNCHANGED <<queue, in_flight>> => T' = T
  BY TravellingSame
<1>h. UNCHANGED <<kpc, khand>> => H' = H
  BY DEF HandOwes
<1>r. rpc' = rpc => R' = R
  BY DEF ReaderOwes
<1> SUFFICES outstanding'[c] = T' + H' + R'
  BY <1>1
<1> HIDE DEF T, H, R
<1>4. CASE UNCHANGED <<outstanding, queue, in_flight, kpc, khand, rpc>>
  BY <1>1, <1>4, <1>t, <1>h, <1>r
<1>5. ASSUME NEW b \in Conns, ReadFrame(b) \/ ReadFails(b) \/ Drain(b) \/ ClaimSlot(b) \/ ReadPayload(b)
             \/ ReaderRelease(b) \/ FinishReader(b) \/ JoinWriter(b) \/ AcceptorAccept(b)
      PROVE  outstanding'[c] = T' + H' + R'
  <2>1. UNCHANGED <<outstanding, queue, in_flight, kpc, khand>>
    BY <1>5 DEF ReadFrame, ReadFails, Drain, ClaimSlot, ReadPayload, ReaderRelease, FinishReader, reader_finished,
       JoinWriter, AcceptorAccept
  <2>2. PICK where \in {"recv", "claim", "payload", "count", "drain", "release", "finish", "join", "exited"} :
          rpc' = [rpc EXCEPT ![b] = where] /\ rpc[b] \notin {"push", "uncount"}
    BY <1>5 DEF ReadFrame, ReadFails, Drain, ClaimSlot, ReadPayload, ReaderRelease, FinishReader,
       JoinWriter, AcceptorAccept, ReaderGoto
  <2>3. R' = R
    BY <2>2 DEF R, ReaderOwes, TypeOK, ReaderTypes
  <2> QED
    BY <1>1, <1>t, <1>h, <2>1, <2>3
<1>6. ASSUME NEW b \in Conns, CountJob(b) PROVE outstanding'[c] = T' + H' + R'
  <2>1. /\ UNCHANGED <<queue, in_flight, kpc, khand>> /\ rpc[b] = "count"
        /\ outstanding' = [outstanding EXCEPT ![b] = @ + 1] /\ rpc' = [rpc EXCEPT ![b] = "push"]
    BY <1>6 DEF CountJob, job_submitted, ReaderGoto
  <2>2. R' = R + (IF b = c THEN 1 ELSE 0)
    BY <2>1 DEF R, ReaderOwes, TypeOK, ReaderTypes
  <2> QED
    BY <1>1, <1>2, <1>t, <1>h, <2>1, <2>2 DEF TypeOK, ConnectionTypes
<1>7. ASSUME NEW b \in Conns, QueuePush(b) PROVE outstanding'[c] = T' + H' + R'
  <2> DEFINE f == [conn |-> b, seq |-> rseq[b], slot |-> rslot[b]]
  <2>1. UNCHANGED <<outstanding, in_flight, kpc, khand>> /\ rpc[b] = "push"
    BY <1>7 DEF QueuePush
  <2>2. CASE queue' = Append(queue, f) /\ rpc' = [rpc EXCEPT ![b] = "recv"]
    <3>1. f \in Frames /\ f.conn = b
      BY <2>1 DEF TypeOK, ReaderTypes, Busy, Holding, Frames
    <3> HIDE DEF f
    <3>2. T' = T + (IF f \in FramesTo(c) THEN 1 ELSE 0)
      BY <2>1, <2>2, <3>1, TravellingPush DEF T, TypeOK
    <3>3. R' = R - (IF b = c THEN 1 ELSE 0)
      BY <2>1, <2>2 DEF R, ReaderOwes, TypeOK, ReaderTypes
    <3> QED
      BY <1>1, <1>2, <1>3, <1>h, <2>1, <3>1, <3>2, <3>3
  <2>3. CASE queue' = queue /\ rpc' = [rpc EXCEPT ![b] = "uncount"]
    <3>1. R' = R
      BY <2>1, <2>3 DEF R, ReaderOwes, TypeOK, ReaderTypes
    <3> QED
      BY <1>1, <1>t, <1>h, <2>1, <2>3, <3>1
  <2> QED
    BY <1>7, <2>2, <2>3 DEF QueuePush, ReaderGoto
<1>8. ASSUME NEW b \in Conns, UncountJob(b) PROVE outstanding'[c] = T' + H' + R'
  <2>1. /\ UNCHANGED <<queue, in_flight, kpc, khand>> /\ rpc[b] = "uncount"
        /\ outstanding' = [outstanding EXCEPT ![b] = @ - 1] /\ rpc' = [rpc EXCEPT ![b] = "release"]
    BY <1>8 DEF UncountJob, job_retired, ReaderGoto
  <2>2. R' = R - (IF b = c THEN 1 ELSE 0)
    BY <2>1 DEF R, ReaderOwes, TypeOK, ReaderTypes
  <2> QED
    BY <1>1, <1>2, <1>t, <1>h, <2>1, <2>2 DEF TypeOK, ConnectionTypes
<1>9. CASE WorkerSubmit
  <2>1. T' = T
    BY <1>9, TravellingSubmit DEF T, TypeOK
  <2>2. UNCHANGED <<outstanding, rpc>> /\ H' = H
    BY <1>9 DEF WorkerSubmit, H, HandOwes, Retiring
  <2> QED
    BY <1>1, <1>r, <2>1, <2>2
<1>10. CASE WorkerSubmitThrows
  <2>1. T' = T - (IF khand'.frame \in FramesTo(c) THEN 1 ELSE 0)
    BY <1>10, TravellingThrow DEF T, TypeOK
  <2>2. UNCHANGED <<outstanding, rpc>> /\ kpc' = "release" /\ kpc = "take"
    BY <1>10 DEF WorkerSubmitThrows
  <2>3. khand'.frame \in Frames
    BY <2>2 DEF TypeOK, WorkerTypes, Retiring, Retirements
  <2>4. H = 0 /\ H' = IF khand'.frame.conn = c THEN 1 ELSE 0
    BY <2>2 DEF H, HandOwes, Retiring
  <2> QED
    BY <1>1, <1>2, <1>3, <1>r, <2>1, <2>2, <2>3, <2>4
<1>11. CASE WorkerRetire
  <2>1. CASE kpc' = "take" /\ UNCHANGED <<khand, in_flight, batch>>
    <3>1. UNCHANGED <<outstanding, rpc, queue, in_flight>> /\ H' = H
      BY <1>11, <2>1 DEF WorkerRetire, H, HandOwes, Retiring
    <3> QED
      BY <1>1, <1>t, <1>r, <3>1
  <2>2. ASSUME NEW d \in batch, in_flight' = in_flight \ {EntryFor(d)}, kpc' = "release",
               khand'.frame = EntryFor(d).frame
        PROVE  outstanding'[c] = T' + H' + R'
    <3>1. UNCHANGED <<outstanding, rpc, queue>> /\ kpc = "retire"
      BY <1>11 DEF WorkerRetire
    <3>2. T' = T - (IF khand'.frame \in FramesTo(c) THEN 1 ELSE 0)
      BY <2>2, <3>1, TravellingRetire DEF T, TypeOK
    <3>3. khand'.frame \in Frames
      BY <2>2 DEF TypeOK, WorkerTypes, Retiring, Retirements
    <3>4. H = 0 /\ H' = IF khand'.frame.conn = c THEN 1 ELSE 0
      BY <2>2, <3>1 DEF H, HandOwes, Retiring
    <3> QED
      BY <1>1, <1>2, <1>3, <1>r, <3>1, <3>2, <3>3, <3>4
  <2> QED
    BY <1>11, <2>1, <2>2 DEF WorkerRetire
<1>12. CASE WorkerNothingQueued \/ WorkerExit \/ WorkerPoll \/ WorkerRelease \/ WorkerRespond
  <2>1. UNCHANGED <<outstanding, rpc, queue, in_flight>>
    BY <1>12 DEF WorkerNothingQueued, WorkerExit, WorkerPoll, WorkerRelease, WorkerRespond
  <2>2. H' = H
    BY <1>12 DEF WorkerNothingQueued, WorkerExit, WorkerPoll, WorkerRelease, WorkerRespond, H, HandOwes, Retiring
  <2> QED
    BY <1>1, <1>t, <1>r, <2>1, <2>2
<1>13. CASE WorkerJobRetired
  <2>1. /\ UNCHANGED <<rpc, queue, in_flight>> /\ kpc = "retired" /\ kpc' = khand.next
        /\ outstanding' = [outstanding EXCEPT ![khand.frame.conn] = @ - 1]
    BY <1>13 DEF WorkerJobRetired, job_retired
  <2>2. khand.frame.conn \in Conns /\ khand.next \in {"retire", "poll"}
    BY <2>1, HandType DEF TypeOK, Retiring
  <2>3. H = (IF khand.frame.conn = c THEN 1 ELSE 0) /\ H' = 0
    BY <2>1, <2>2 DEF H, HandOwes, Retiring
  <2> QED
    BY <1>1, <1>2, <1>t, <1>r, <2>1, <2>2, <2>3 DEF TypeOK, ConnectionTypes
<1>14. CASE StartSucceeds
  <2>1. UNCHANGED <<outstanding, rpc, queue, in_flight>>
    BY <1>14 DEF StartSucceeds
  <2>2. kpc \in {"none", "exited"} /\ kpc' = "take"
    BY <1>14 DEF StartSucceeds, ControlOK
  <2>3. H' = H
    BY <2>2 DEF H, HandOwes, Retiring
  <2> QED
    BY <1>1, <1>t, <1>r, <2>1, <2>3
<1>15. ASSUME NEW b \in Conns, (\E kind \in Kinds : ClientSend(b, kind)) \/ ClientReceive(b) \/ ClientDies(b) \/ Writer(b)
       PROVE  outstanding'[c] = T' + H' + R'
  BY <1>4, <1>15, ClientFrame, WriterFrame
<1>16. CASE AcceptorCheck \/ AcceptorTimeout \/ StartFails \/ StopBegin \/ Stop
            \/ (\E job \in running_jobs : BackendFinish(job)) \/ UNCHANGED vars
  BY <1>4, <1>16, ControlFrame, BackendFrame DEF vars
<1> QED
  BY <1>5, <1>6, <1>7, <1>8, <1>9, <1>10, <1>11, <1>12, <1>13, <1>14, <1>15, <1>16
  DEF Next, Reader, Worker, Acceptor, Terminated

(* What a connection is owed is a number, and at least one while the       *)
(* worker retires a job of it.                                             *)
LEMMA OwedType ==
    ASSUME TypeOK, OutstandingExact, NEW c \in Conns
    PROVE  /\ Owed(c) \in Nat /\ outstanding[c] = Owed(c)
           /\ (kpc \in Retiring /\ khand.frame.conn = c) => Owed(c) >= 1
<1>1. Owed(c) = Travelling(FramesTo(c)) + HandOwes(c) + ReaderOwes(c)
  BY OwedIsTokens DEF TypeOK, OwedSplit
<1>2. Travelling(FramesTo(c)) \in Nat
  BY CountTypes DEF TypeOK
<1> QED
  BY <1>1, <1>2 DEF HandOwes, ReaderOwes, OutstandingExact

(* An outbox is closed once: by the reader's end or by the last job after  *)
(* it, and nothing is counted any more from then on.                       *)
LEMMA ClosedOutboxStep ==
    ASSUME TypeOK, OutstandingExact, ClosedOutbox, [Next]_vars
    PROVE  ClosedOutbox'
<1> USE DEF client, reader, connection, writer, pool, jobs, worker, backend, control
<1>1. CASE UNCHANGED <<rpc, reader_done, outbox_closed, outstanding>>
  BY <1>1 DEF ClosedOutbox
<1>2. ASSUME NEW b \in Conns, ReadFrame(b) \/ ReadFails(b) \/ Drain(b) \/ ClaimSlot(b) \/ ReadPayload(b)
             \/ ReaderRelease(b) \/ JoinWriter(b) \/ AcceptorAccept(b) \/ QueuePush(b)
      PROVE  ClosedOutbox'
  <2>1. UNCHANGED <<reader_done, outbox_closed, outstanding>>
    BY <1>2 DEF ReadFrame, ReadFails, Drain, ClaimSlot, ReadPayload, ReaderRelease, JoinWriter, AcceptorAccept, QueuePush
  <2>2. PICK where : rpc' = [rpc EXCEPT ![b] = where] /\ (rpc[b] \in {"join", "exited"} => where = "exited")
    BY <1>2 DEF ReadFrame, ReadFails, Drain, ClaimSlot, ReadPayload, ReaderRelease, JoinWriter, AcceptorAccept,
       QueuePush, ReaderGoto
  <2> QED
    BY <2>1, <2>2 DEF ClosedOutbox, TypeOK, ReaderTypes
<1>3. ASSUME NEW b \in Conns, CountJob(b) PROVE ClosedOutbox'
  BY <1>3 DEF CountJob, job_submitted, ReaderGoto, ClosedOutbox, TypeOK, ReaderTypes
<1>4. ASSUME NEW b \in Conns, UncountJob(b) PROVE ClosedOutbox'
  BY <1>4 DEF UncountJob, job_retired, close_outbox_if_done, ReaderGoto, ClosedOutbox, TypeOK, ReaderTypes,
     ConnectionTypes
<1>5. ASSUME NEW b \in Conns, FinishReader(b) PROVE ClosedOutbox'
  BY <1>5 DEF FinishReader, reader_finished, close_outbox_if_done, ReaderGoto, ClosedOutbox, TypeOK, ReaderTypes,
     ConnectionTypes
<1>6. CASE WorkerJobRetired
  <2> DEFINE b == khand.frame.conn
  <2>1. kpc \in Retiring
    BY <1>6 DEF WorkerJobRetired, Retiring
  <2>2. b \in Conns
    BY <2>1, HandType DEF TypeOK
  <2>3. outstanding[b] # 0
    BY <2>1, <2>2, OwedType
  <2>4. ~outbox_closed[b]
    BY <2>2, <2>3 DEF ClosedOutbox
  <2>5. job_retired(b) /\ UNCHANGED rpc
    BY <1>6 DEF WorkerJobRetired
  <2> HIDE DEF b
  <2> QED
    BY <2>2, <2>4, <2>5 DEF job_retired, close_outbox_if_done, ClosedOutbox, TypeOK, ConnectionTypes
<1>7. CASE WorkerSubmit \/ WorkerSubmitThrows \/ WorkerNothingQueued \/ WorkerExit \/ WorkerPoll \/ WorkerRetire
           \/ WorkerRelease \/ WorkerRespond
  BY <1>1, <1>7 DEF WorkerSubmit, WorkerSubmitThrows, WorkerNothingQueued, WorkerExit, WorkerPoll, WorkerRetire,
     WorkerRelease, WorkerRespond
<1>8. ASSUME NEW b \in Conns, (\E kind \in Kinds : ClientSend(b, kind)) \/ ClientReceive(b) \/ ClientDies(b) \/ Writer(b)
      PROVE  ClosedOutbox'
  BY <1>1, <1>8, ClientFrame, WriterFrame
<1>9. CASE AcceptorCheck \/ AcceptorTimeout \/ StartFails \/ StopBegin \/ Stop
           \/ (\E job \in running_jobs : BackendFinish(job)) \/ StartSucceeds \/ UNCHANGED vars
  BY <1>1, <1>9, ControlFrame, BackendFrame DEF StartSucceeds, vars
<1> QED
  BY <1>2, <1>3, <1>4, <1>5, <1>6, <1>7, <1>8, <1>9 DEF Next, Reader, Worker, Acceptor, Terminated

(* So an outbox that is closed is owed nothing. *)
LEMMA ClosedOutboxOwedNothing == TypeOK /\ OutstandingExact /\ ClosedOutbox => NoResponseDropped
<1> SUFFICES ASSUME TypeOK, OutstandingExact, ClosedOutbox PROVE NoResponseDropped
  OBVIOUS
<1>1. \A c \in Conns : outbox_closed[c] => rpc[c] \in {"join", "exited"} /\ Owed(c) = 0
  BY OwedType DEF ClosedOutbox
<1>2. ASSUME kpc = "respond" PROVE ~outbox_closed[khand.frame.conn]
  <2>1. khand.frame.conn \in Conns /\ kpc \in Retiring
    BY <1>2, HandType DEF TypeOK, Retiring
  <2>2. Owed(khand.frame.conn) >= 1
    BY <2>1, OwedType
  <2> QED
    BY <1>1, <2>1, <2>2
<1> QED
  BY <1>1, <1>2 DEF NoResponseDropped

----------------------------------------------------------------------------
(* Slots                                                                   *)

FramesIn(i) == {f \in Frames : f.slot = i}

ReadersOf(i) == {c \in Conns : rslot[c] = i}
HandHolds(i) == IF kpc = "release" /\ khand.frame.slot = i THEN 1 ELSE 0

HoldersSplit == \A i \in Slots : Holders(i) = Cardinality(ReadersOf(i)) + Travelling(FramesIn(i)) + HandHolds(i)

(* The two halves of SlotsConserved *)
SlotCounts == \A i \in Slots : Holders(i) = (IF slot_owner[i] = None THEN 0 ELSE 1)
SlotOwners ==
    /\ \A c \in Conns : rslot[c] # None => slot_owner[rslot[c]] = c
    /\ \A k \in 1 .. Len(queue) : slot_owner[queue[k].slot] = queue[k].conn
    /\ \A e \in in_flight : slot_owner[e.frame.slot] = e.frame.conn
    /\ kpc = "release" => slot_owner[khand.frame.slot] = khand.frame.conn

(* Nobody has slot i in hand. *)
Unheld(i) ==
    /\ \A c \in Conns : rslot[c] # i
    /\ \A k \in 1 .. Len(queue) : queue[k].slot # i
    /\ \A e \in in_flight : e.frame.slot # i
    /\ ~(kpc = "release" /\ khand.frame.slot = i)
ZeroIsUnheld == \A i \in Slots : Holders(i) = 0 => Unheld(i)

(* The queue and the table hold frames. *)
LEMMA TokensAreFrames ==
    ASSUME WorkerTypes
    PROVE  /\ \A k \in 1 .. Len(queue) : queue[k] \in Frames
           /\ \A e \in in_flight : e.frame \in Frames
<1>1. \A k \in 1 .. Len(queue) : queue[k] \in Frames
  BY ElementOfSeq DEF WorkerTypes
<1>2. \A e \in in_flight : e.frame \in Frames
  BY DEF WorkerTypes, Entries
<1> QED
  BY <1>1, <1>2

(* The number of readers of a slot is a number. *)
LEMMA ReadersType ==
    ASSUME NEW i
    PROVE  IsFiniteSet(ReadersOf(i)) /\ Cardinality(ReadersOf(i)) \in Nat
<1>1. ReadersOf(i) \subseteq Conns /\ IsFiniteSet(Conns)
  BY ServerAssumption DEF ReadersOf
<1> QED
  BY <1>1, FS_Subset, FS_CardinalityType

(* The holders of a slot are its readers and its tokens. *)
LEMMA HoldersAreTokens == WorkerTypes => HoldersSplit
<1> SUFFICES ASSUME WorkerTypes, NEW i \in Slots
             PROVE  Holders(i) = Cardinality(ReadersOf(i)) + Travelling(FramesIn(i)) + HandHolds(i)
  BY DEF HoldersSplit
<1>1. {k \in 1 .. Len(queue) : queue[k].slot = i} = Queued(FramesIn(i))
  BY TokensAreFrames DEF Queued, FramesIn
<1>2. {e \in in_flight : e.frame.slot = i} = Flying(FramesIn(i))
  BY TokensAreFrames DEF Flying, FramesIn
<1>3. /\ Cardinality(Queued(FramesIn(i))) \in Nat /\ Cardinality(Flying(FramesIn(i))) \in Nat
      /\ Cardinality(ReadersOf(i)) \in Nat
  BY CountTypes, ReadersType
<1>4. HandHolds(i) \in 0 .. 1
  BY DEF HandHolds
<1>5. Holders(i) = Cardinality(ReadersOf(i)) + Cardinality(Queued(FramesIn(i))) + Cardinality(Flying(FramesIn(i)))
                   + HandHolds(i)
  BY <1>1, <1>2 DEF Holders, HandHolds, ReadersOf
<1> QED
  BY <1>3, <1>4, <1>5 DEF Travelling

(* The same after a step *)
LEMMA HoldersAreTokensNext == WorkerTypes' => HoldersSplit'
  BY HoldersAreTokens, PTL

(* Natural numbers that add up to nothing are nothing. *)
LEMMA SumZero ==
    ASSUME NEW a \in Nat, NEW b \in Nat, NEW c \in Nat, NEW d \in Nat, a + b + c + d = 0
    PROVE  a = 0 /\ b = 0 /\ c = 0 /\ d = 0
  OBVIOUS

(* A slot with no holders is in nobody's hands. *)
LEMMA CountZero == WorkerTypes => ZeroIsUnheld
<1> SUFFICES ASSUME WorkerTypes, NEW i \in Slots, Holders(i) = 0 PROVE Unheld(i)
  BY DEF ZeroIsUnheld
<1> DEFINE A == {c \in Conns : rslot[c] = i}
           B == {k \in 1 .. Len(queue) : queue[k].slot = i}
           C == {e \in in_flight : e.frame.slot = i}
           H == HandHolds(i)
<1>1. IsFiniteSet(A) /\ Cardinality(A) \in Nat
  BY ReadersType DEF ReadersOf
<1>2. IsFiniteSet(B) /\ Cardinality(B) \in Nat
  <2>1. B = Queued(FramesIn(i))
    BY TokensAreFrames DEF Queued, FramesIn
  <2> HIDE DEF B
  <2> QED
    BY <2>1, CountTypes
<1>3. IsFiniteSet(C) /\ Cardinality(C) \in Nat
  <2>1. C = Flying(FramesIn(i))
    BY TokensAreFrames DEF Flying, FramesIn
  <2> HIDE DEF C
  <2> QED
    BY <2>1, CountTypes
<1>4. Cardinality(A) + Cardinality(B) + Cardinality(C) + H = 0 /\ H \in Nat
  BY DEF Holders, HandHolds
<1>5. Cardinality(A) = 0 /\ Cardinality(B) = 0 /\ Cardinality(C) = 0 /\ H = 0
  <2> HIDE DEF A, B, C, H
  <2> QED
    BY <1>1, <1>2, <1>3, <1>4, SumZero
<1>6. A = {} /\ B = {} /\ C = {}
  <2> HIDE DEF A, B, C
  <2> QED
    BY <1>1, <1>2, <1>3, <1>5, FS_EmptySet
<1> QED
  BY <1>5, <1>6 DEF Unheld, HandHolds

(* The same after a step *)
LEMMA CountZeroNext == WorkerTypes' => ZeroIsUnheld'
  BY CountZero, PTL

(* A reader that takes a slot, or lets go of it *)
LEMMA ReaderTakes ==
    ASSUME ReaderTypes, NEW b \in Conns, NEW i \in Slots, rslot[b] = None,
           rslot' = [rslot EXCEPT ![b] = i], NEW j \in Slots
    PROVE  Cardinality(ReadersOf(j)') = Cardinality(ReadersOf(j)) + (IF j = i THEN 1 ELSE 0)
<1>0. i # None /\ j # None
  BY ServerAssumption
<1>1. CASE j = i
  <2>1. ReadersOf(j)' = ReadersOf(j) \cup {b} /\ b \notin ReadersOf(j)
    BY <1>0, <1>1 DEF ReadersOf, ReaderTypes
  <2> QED
    BY <1>1, <2>1, ReadersType, FS_AddElement
<1>2. CASE j # i
  <2>1. ReadersOf(j)' = ReadersOf(j)
    BY <1>0, <1>2 DEF ReadersOf, ReaderTypes
  <2> QED
    BY <1>2, <2>1, ReadersType
<1> QED
  BY <1>1, <1>2

(* and one that gives it on or back *)
LEMMA ReaderLetsGo ==
    ASSUME ReaderTypes, NEW b \in Conns, rslot[b] # None,
           rslot' = [rslot EXCEPT ![b] = None], NEW j \in Slots
    PROVE  Cardinality(ReadersOf(j)') = Cardinality(ReadersOf(j)) - (IF j = rslot[b] THEN 1 ELSE 0)
<1>0. j # None
  BY ServerAssumption
<1>1. CASE j = rslot[b]
  <2>1. ReadersOf(j)' = ReadersOf(j) \ {b} /\ b \in ReadersOf(j)
    BY <1>0, <1>1 DEF ReadersOf, ReaderTypes
  <2> QED
    BY <1>1, <2>1, ReadersType, FS_RemoveElement
<1>2. CASE j # rslot[b]
  <2>1. ReadersOf(j)' = ReadersOf(j)
    BY <1>0, <1>2 DEF ReadersOf, ReaderTypes
  <2> QED
    BY <1>2, <2>1, ReadersType
<1> QED
  BY <1>1, <1>2

(* Every step that hands a slot on moves its token; only claim() and       *)
(* release() make or end one.                                              *)
LEMMA SlotCountStep ==
    ASSUME TypeOK, TypeOK', HandlesOK, ControlOK, SlotCounts, SlotOwners, [Next]_vars
    PROVE  SlotCounts'
<1> USE DEF client, reader, connection, writer, pool, jobs, worker, backend, control
<1> SUFFICES ASSUME NEW i \in Slots PROVE Holders(i)' = IF slot_owner'[i] = None THEN 0 ELSE 1
  BY DEF SlotCounts
<1> DEFINE R == Cardinality(ReadersOf(i))
           T == Travelling(FramesIn(i))
           H == HandHolds(i)
           O == IF slot_owner[i] = None THEN 0 ELSE 1
           Goal == R' + T' + H' = O'
<1>1. R + T + H = O /\ Holders(i)' = R' + T' + H'
  BY HoldersAreTokens, HoldersAreTokensNext DEF SlotCounts, HoldersSplit, TypeOK
<1>2. R \in Nat /\ T \in Nat /\ H \in 0 .. 1 /\ O \in 0 .. 1
  BY CountTypes, ReadersType DEF TypeOK, HandHolds
<1>3. \A f \in Frames : f \in FramesIn(i) <=> f.slot = i
  BY DEF FramesIn
<1>n. None \notin Slots /\ None \notin Conns
  BY ServerAssumption
<1>s. rslot' = rslot => R' = R
  BY DEF ReadersOf
<1>t. UNCHANGED <<queue, in_flight>> => T' = T
  BY TravellingSame
<1>h. UNCHANGED <<kpc, khand>> => H' = H
  BY DEF HandHolds
<1>o. slot_owner' = slot_owner => O' = O
  OBVIOUS
<1> SUFFICES Goal
  BY <1>1
<1> HIDE DEF R, T, H, O
<1>4. CASE UNCHANGED <<rslot, queue, in_flight, kpc, khand, slot_owner>>
  BY <1>1, <1>4, <1>s, <1>t, <1>h, <1>o
<1>5. ASSUME NEW b \in Conns, ReadFrame(b) \/ ReadFails(b) \/ Drain(b) \/ ReadPayload(b) \/ CountJob(b)
             \/ UncountJob(b) \/ FinishReader(b) \/ JoinWriter(b) \/ AcceptorAccept(b)
      PROVE  Goal
  BY <1>4, <1>5 DEF ReadFrame, ReadFails, Drain, ReadPayload, CountJob, UncountJob, FinishReader, JoinWriter,
     AcceptorAccept
<1>6. ASSUME NEW b \in Conns, ClaimSlot(b) PROVE Goal
  <2>1. UNCHANGED <<queue, in_flight, kpc, khand>> /\ rslot[b] = None
    BY <1>6 DEF ClaimSlot, TypeOK, ReaderTypes, Holding
  <2>2. CASE UNCHANGED <<rslot, slot_owner>>
    BY <1>4, <2>1, <2>2
  <2>3. ASSUME NEW k \in Slots, slot_owner[k] = None, slot_owner' = [slot_owner EXCEPT ![k] = b],
               rslot' = [rslot EXCEPT ![b] = k]
        PROVE  Goal
    <3>1. R' = R + (IF i = k THEN 1 ELSE 0)
      BY <2>1, <2>3, ReaderTakes DEF R, TypeOK
    <3>2. O' = O + (IF i = k THEN 1 ELSE 0)
      BY <1>n, <2>3 DEF O, TypeOK, PoolTypes
    <3> QED
      BY <1>1, <1>2, <1>t, <1>h, <2>1, <3>1, <3>2
  <2> QED
    BY <1>6, <2>2, <2>3 DEF ClaimSlot
<1>7. ASSUME NEW b \in Conns, ReaderRelease(b) PROVE Goal
  <2>1. /\ UNCHANGED <<queue, in_flight, kpc, khand>> /\ rslot[b] # None
        /\ rslot' = [rslot EXCEPT ![b] = None] /\ slot_owner' = [slot_owner EXCEPT ![rslot[b]] = None]
    BY <1>7 DEF ReaderRelease, release, TypeOK, ReaderTypes, Holding
  <2>2. slot_owner[rslot[b]] # None /\ rslot[b] \in Slots
    BY <1>n, <2>1 DEF SlotOwners, TypeOK, ReaderTypes
  <2>3. R' = R - (IF i = rslot[b] THEN 1 ELSE 0)
    BY <2>1, ReaderLetsGo DEF R, TypeOK
  <2>4. O' = O - (IF i = rslot[b] THEN 1 ELSE 0)
    BY <2>1, <2>2 DEF O, TypeOK, PoolTypes
  <2> QED
    BY <1>1, <1>2, <1>t, <1>h, <2>1, <2>3, <2>4
<1>8. ASSUME NEW b \in Conns, QueuePush(b) PROVE Goal
  <2> DEFINE f == [conn |-> b, seq |-> rseq[b], slot |-> rslot[b]]
  <2>1. UNCHANGED <<slot_owner, in_flight, kpc, khand>> /\ rpc[b] = "push" /\ rslot[b] # None
    BY <1>8 DEF QueuePush, TypeOK, ReaderTypes, Holding
  <2>2. CASE queue' = Append(queue, f) /\ rslot' = [rslot EXCEPT ![b] = None]
    <3>1. f \in Frames /\ f.slot = rslot[b]
      BY <2>1 DEF TypeOK, ReaderTypes, Busy, Frames
    <3> HIDE DEF f
    <3>2. T' = T + (IF f \in FramesIn(i) THEN 1 ELSE 0)
      BY <2>1, <2>2, <3>1, TravellingPush DEF T, TypeOK
    <3>3. R' = R - (IF i = rslot[b] THEN 1 ELSE 0)
      BY <2>1, <2>2, ReaderLetsGo DEF R, TypeOK
    <3>4. T' = T + (IF i = rslot[b] THEN 1 ELSE 0)
      BY <1>3, <3>1, <3>2
    <3> QED
      BY <1>1, <1>2, <1>h, <1>o, <2>1, <3>3, <3>4
  <2>3. CASE UNCHANGED <<queue, rslot>>
    BY <1>4, <2>1, <2>3
  <2> QED
    BY <1>8, <2>2, <2>3 DEF QueuePush
<1>9. CASE WorkerSubmit
  <2>1. T' = T
    BY <1>9, TravellingSubmit DEF T, TypeOK
  <2>2. UNCHANGED <<rslot, slot_owner>> /\ H' = H
    BY <1>9 DEF WorkerSubmit, H, HandHolds
  <2> QED
    BY <1>1, <1>s, <1>o, <2>1, <2>2
<1>10. CASE WorkerSubmitThrows
  <2>1. T' = T - (IF khand'.frame \in FramesIn(i) THEN 1 ELSE 0)
    BY <1>10, TravellingThrow DEF T, TypeOK
  <2>2. UNCHANGED <<rslot, slot_owner>> /\ kpc' = "release" /\ kpc = "take"
    BY <1>10 DEF WorkerSubmitThrows
  <2>3. khand'.frame \in Frames
    BY <2>2 DEF TypeOK, WorkerTypes, Retiring, Retirements
  <2>4. H = 0 /\ H' = IF khand'.frame.slot = i THEN 1 ELSE 0
    BY <2>2 DEF H, HandHolds
  <2> QED
    BY <1>1, <1>2, <1>3, <1>s, <1>o, <2>1, <2>2, <2>3, <2>4
<1>11. CASE WorkerRetire
  <2>0. UNCHANGED <<rslot, slot_owner, queue>> /\ kpc = "retire"
    BY <1>11 DEF WorkerRetire
  <2>1. CASE kpc' = "take" /\ UNCHANGED <<khand, in_flight, batch>>
    <3>1. H' = H
      BY <2>0, <2>1 DEF H, HandHolds
    <3> QED
      BY <1>1, <1>s, <1>t, <1>o, <2>0, <2>1, <3>1
  <2>2. ASSUME NEW d \in batch, in_flight' = in_flight \ {EntryFor(d)}, kpc' = "release",
               khand'.frame = EntryFor(d).frame
        PROVE  Goal
    <3>1. T' = T - (IF khand'.frame \in FramesIn(i) THEN 1 ELSE 0)
      BY <2>0, <2>2, TravellingRetire DEF T, TypeOK
    <3>2. khand'.frame \in Frames
      BY <2>2 DEF TypeOK, WorkerTypes, Retiring, Retirements
    <3>3. H = 0 /\ H' = IF khand'.frame.slot = i THEN 1 ELSE 0
      BY <2>0, <2>2 DEF H, HandHolds
    <3> QED
      BY <1>1, <1>2, <1>3, <1>s, <1>o, <2>0, <3>1, <3>2, <3>3
  <2> QED
    BY <1>11, <2>1, <2>2 DEF WorkerRetire
<1>12. CASE WorkerRelease
  <2>1. /\ UNCHANGED <<rslot, queue, in_flight, khand>> /\ kpc = "release" /\ kpc' = "respond"
        /\ slot_owner' = [slot_owner EXCEPT ![khand.frame.slot] = None]
    BY <1>12 DEF WorkerRelease, release
  <2>2. khand.frame.slot \in Slots /\ slot_owner[khand.frame.slot] # None
    BY <1>n, <2>1, HandType DEF TypeOK, Retiring, Frames, SlotOwners
  <2>3. H = (IF khand.frame.slot = i THEN 1 ELSE 0) /\ H' = 0
    BY <2>1 DEF H, HandHolds
  <2>4. O' = O - (IF khand.frame.slot = i THEN 1 ELSE 0)
    BY <2>1, <2>2 DEF O, TypeOK, PoolTypes
  <2> QED
    BY <1>1, <1>2, <1>s, <1>t, <2>1, <2>3, <2>4
<1>13. CASE WorkerNothingQueued \/ WorkerExit \/ WorkerPoll \/ WorkerRespond \/ WorkerJobRetired
  <2>1. UNCHANGED <<rslot, slot_owner, queue, in_flight>>
    BY <1>13 DEF WorkerNothingQueued, WorkerExit, WorkerPoll, WorkerRespond, WorkerJobRetired
  <2>2. kpc # "release" /\ kpc' # "release"
    BY <1>13, HandType DEF WorkerNothingQueued, WorkerExit, WorkerPoll, WorkerRespond, WorkerJobRetired, TypeOK, Retiring
  <2>3. H' = H
    BY <2>2 DEF H, HandHolds
  <2> QED
    BY <1>1, <1>s, <1>t, <1>o, <2>1, <2>3
<1>14. CASE StartSucceeds
  <2>1. UNCHANGED <<rslot, queue, in_flight>> /\ kpc' = "take" /\ slot_owner' = [k \in Slots |-> None]
    BY <1>14 DEF StartSucceeds
  <2>2. kpc \in {"none", "exited"} /\ connections = {}
    BY <1>14 DEF StartSucceeds, ControlOK
  <2>3. R = 0
    <3>1. \A c \in Conns : rslot[c] = None
      BY <2>2 DEF ControlOK, Gone, TypeOK, ReaderTypes, Holding
    <3>2. ReadersOf(i) = {}
      BY <1>n, <3>1 DEF ReadersOf
    <3> QED
      BY <3>2, FS_EmptySet DEF R
  <2>4. T = 0
    <3>1. Queued(FramesIn(i)) = {} /\ Flying(FramesIn(i)) = {}
      BY <2>2 DEF ControlOK, Queued, Flying
    <3> QED
      BY <3>1, FS_EmptySet DEF T, Travelling
  <2>5. H' = 0 /\ O' = 0
    BY <2>1 DEF H, HandHolds, O
  <2> QED
    BY <1>s, <1>t, <2>1, <2>3, <2>4, <2>5
<1>15. ASSUME NEW b \in Conns, (\E kind \in Kinds : ClientSend(b, kind)) \/ ClientReceive(b) \/ ClientDies(b) \/ Writer(b)
       PROVE  Goal
  BY <1>4, <1>15, ClientFrame, WriterFrame
<1>16. CASE AcceptorCheck \/ AcceptorTimeout \/ StartFails \/ StopBegin \/ Stop
            \/ (\E job \in running_jobs : BackendFinish(job)) \/ UNCHANGED vars
  BY <1>4, <1>16, ControlFrame, BackendFrame DEF vars
<1> HIDE DEF Goal
<1> QED
  BY <1>5, <1>6, <1>7, <1>8, <1>9, <1>10, <1>11, <1>12, <1>13, <1>14, <1>15, <1>16
  DEF Next, Reader, Worker, Acceptor, Terminated

(* What is in the queue after its front was taken was in it before. *)
LEMMA TailOfQueue ==
    ASSUME WorkerTypes, queue # <<>>, queue' = Tail(queue)
    PROVE  /\ \E j \in 1 .. Len(queue) : Head(queue) = queue[j]
           /\ \A k \in 1 .. Len(queue') : \E j \in 1 .. Len(queue) : queue'[k] = queue[j]
<1>1. Len(queue) \in Nat /\ Len(queue) > 0 /\ queue \in Seq(Frames) /\ Head(queue) = queue[1]
  BY EmptySeq, LenProperties DEF WorkerTypes
<1>2. Len(queue') = Len(queue) - 1 /\ \A k \in 1 .. (Len(queue) - 1) : queue'[k] = queue[k + 1]
  BY <1>1, HeadTailProperties
<1>3. \A k \in 1 .. (Len(queue) - 1) : k + 1 \in 1 .. Len(queue)
  BY <1>1
<1>4. 1 \in 1 .. Len(queue)
  BY <1>1
<1> QED
  BY <1>1, <1>2, <1>3, <1>4

(* What is in the queue after a push was in it before or is the frame pushed. *)
LEMMA AppendToQueue ==
    ASSUME WorkerTypes, NEW f, queue' = Append(queue, f)
    PROVE  \A k \in 1 .. Len(queue') : queue'[k] = f \/ (k \in 1 .. Len(queue) /\ queue'[k] = queue[k])
<1>1. Len(queue) \in Nat /\ queue \in Seq(Frames)
  BY LenProperties DEF WorkerTypes
<1>2. Len(queue') = Len(queue) + 1 /\ (\A k \in 1 .. Len(queue) : queue'[k] = queue[k]) /\ queue'[Len(queue) + 1] = f
  BY <1>1, AppendProperties
<1> QED
  BY <1>1, <1>2

(* A slot works for its owner: nobody is given a slot that anybody else    *)
(* has in hand, and nobody keeps a slot that was released.                 *)
LEMMA SlotOwnersStep ==
    ASSUME TypeOK, TypeOK', HandlesOK, ControlOK, SlotCounts, SlotCounts', SlotOwners, [Next]_vars
    PROVE  SlotOwners'
<1> USE DEF client, reader, connection, writer, pool, jobs, worker, backend, control
<1>n. None \notin Slots /\ None \notin Conns
  BY ServerAssumption
<1>1. \A i \in Slots : slot_owner[i] = None => Unheld(i)
  BY CountZero DEF ZeroIsUnheld, SlotCounts, TypeOK
<1>2. \A i \in Slots : slot_owner'[i] = None => Unheld(i)'
  BY CountZeroNext DEF ZeroIsUnheld, SlotCounts, TypeOK
<1>4. CASE UNCHANGED <<rslot, queue, in_flight, kpc, khand, slot_owner>>
  BY <1>4 DEF SlotOwners
<1>5. ASSUME NEW b \in Conns, ReadFrame(b) \/ ReadFails(b) \/ Drain(b) \/ ReadPayload(b) \/ CountJob(b)
             \/ UncountJob(b) \/ FinishReader(b) \/ JoinWriter(b) \/ AcceptorAccept(b)
      PROVE  SlotOwners'
  BY <1>4, <1>5 DEF ReadFrame, ReadFails, Drain, ReadPayload, CountJob, UncountJob, FinishReader, JoinWriter,
     AcceptorAccept
<1>6. ASSUME NEW b \in Conns, ClaimSlot(b) PROVE SlotOwners'
  <2>1. UNCHANGED <<queue, in_flight, kpc, khand>>
    BY <1>6 DEF ClaimSlot
  <2>2. CASE UNCHANGED <<rslot, slot_owner>>
    BY <1>4, <2>1, <2>2
  <2>3. ASSUME NEW k \in Slots, slot_owner[k] = None, slot_owner' = [slot_owner EXCEPT ![k] = b],
               rslot' = [rslot EXCEPT ![b] = k]
        PROVE  SlotOwners'
    <3>1. Unheld(k)
      BY <1>1, <2>3
    <3>2. slot_owner'[k] = b /\ \A j : j # k => slot_owner'[j] = slot_owner[j]
      BY <2>3 DEF TypeOK, PoolTypes
    <3>3. rslot'[b] = k /\ \A c \in Conns : c # b => rslot'[c] = rslot[c]
      BY <2>3 DEF TypeOK, ReaderTypes
    <3> QED
      BY <2>1, <3>1, <3>2, <3>3 DEF SlotOwners, Unheld
  <2> QED
    BY <1>6, <2>2, <2>3 DEF ClaimSlot
<1>7. ASSUME NEW b \in Conns, ReaderRelease(b) PROVE SlotOwners'
  <2>1. /\ UNCHANGED <<queue, in_flight, kpc, khand>> /\ rslot[b] # None
        /\ rslot' = [rslot EXCEPT ![b] = None] /\ slot_owner' = [slot_owner EXCEPT ![rslot[b]] = None]
    BY <1>7 DEF ReaderRelease, release, TypeOK, ReaderTypes, Holding
  <2>2. PICK k \in Slots : k = rslot[b]
    BY <2>1 DEF TypeOK, ReaderTypes
  <2>3. slot_owner'[k] = None /\ \A j : j # k => slot_owner'[j] = slot_owner[j]
    BY <2>1, <2>2 DEF TypeOK, PoolTypes
  <2>4. Unheld(k)'
    BY <1>2, <2>3
  <2>5. rslot'[b] = None /\ \A c \in Conns : c # b => rslot'[c] = rslot[c]
    BY <2>1 DEF TypeOK, ReaderTypes
  <2> QED
    BY <2>1, <2>3, <2>4, <2>5 DEF SlotOwners, Unheld
<1>8. ASSUME NEW b \in Conns, QueuePush(b) PROVE SlotOwners'
  <2> DEFINE f == [conn |-> b, seq |-> rseq[b], slot |-> rslot[b]]
  <2>1. UNCHANGED <<slot_owner, in_flight, kpc, khand>> /\ rslot[b] # None
    BY <1>8 DEF QueuePush, TypeOK, ReaderTypes, Holding
  <2>2. CASE queue' = Append(queue, f) /\ rslot' = [rslot EXCEPT ![b] = None]
    <3>1. f.conn = b /\ f.slot = rslot[b]
      OBVIOUS
    <3>2. slot_owner[f.slot] = f.conn
      BY <2>1, <3>1 DEF SlotOwners
    <3> HIDE DEF f
    <3>3. \A k \in 1 .. Len(queue') : queue'[k] = f \/ (k \in 1 .. Len(queue) /\ queue'[k] = queue[k])
      BY <2>2, AppendToQueue DEF TypeOK
    <3>4. \A k \in 1 .. Len(queue') : slot_owner'[queue'[k].slot] = queue'[k].conn
      BY <2>1, <3>2, <3>3 DEF SlotOwners
    <3>5. \A c \in Conns : rslot'[c] = None \/ rslot'[c] = rslot[c]
      BY <2>2 DEF TypeOK, ReaderTypes
    <3> QED
      BY <2>1, <3>4, <3>5 DEF SlotOwners
  <2>3. CASE UNCHANGED <<queue, rslot>>
    BY <1>4, <2>1, <2>3
  <2> QED
    BY <1>8, <2>2, <2>3 DEF QueuePush
<1>9. CASE WorkerSubmit
  <2> DEFINE entry == [handle |-> next_handle, frame |-> Head(queue)]
  <2>1. /\ UNCHANGED <<rslot, slot_owner>> /\ kpc' # "release" /\ queue # <<>> /\ queue' = Tail(queue)
        /\ in_flight' = in_flight \cup {entry}
    BY <1>9 DEF WorkerSubmit
  <2>2. /\ \E j \in 1 .. Len(queue) : Head(queue) = queue[j]
        /\ \A k \in 1 .. Len(queue') : \E j \in 1 .. Len(queue) : queue'[k] = queue[j]
    BY <2>1, TailOfQueue DEF TypeOK
  <2>3. entry.frame = Head(queue)
    OBVIOUS
  <2> HIDE DEF entry
  <2>4. \A e \in in_flight' : slot_owner'[e.frame.slot] = e.frame.conn
    BY <2>1, <2>2, <2>3 DEF SlotOwners
  <2> QED
    BY <2>1, <2>2, <2>4 DEF SlotOwners
<1>10. CASE WorkerSubmitThrows
  <2>1. /\ UNCHANGED <<rslot, slot_owner, in_flight>> /\ queue # <<>> /\ queue' = Tail(queue)
        /\ khand'.frame = Head(queue)
    BY <1>10 DEF WorkerSubmitThrows
  <2>2. /\ \E j \in 1 .. Len(queue) : Head(queue) = queue[j]
        /\ \A k \in 1 .. Len(queue') : \E j \in 1 .. Len(queue) : queue'[k] = queue[j]
    BY <2>1, TailOfQueue DEF TypeOK
  <2> QED
    BY <2>1, <2>2 DEF SlotOwners
<1>11. CASE WorkerRetire
  <2>0. UNCHANGED <<rslot, slot_owner, queue>>
    BY <1>11 DEF WorkerRetire
  <2>1. CASE kpc' = "take" /\ UNCHANGED <<khand, in_flight, batch>>
    BY <2>0, <2>1 DEF SlotOwners
  <2>2. ASSUME NEW d \in batch, in_flight' = in_flight \ {EntryFor(d)}, khand'.frame = EntryFor(d).frame
        PROVE  SlotOwners'
    <3>1. EntryFor(d) \in in_flight
      BY EntryFound DEF TypeOK
    <3> QED
      BY <2>0, <2>2, <3>1 DEF SlotOwners
  <2> QED
    BY <1>11, <2>1, <2>2 DEF WorkerRetire
<1>12. CASE WorkerRelease
  <2>1. /\ UNCHANGED <<rslot, queue, in_flight, khand>> /\ kpc = "release" /\ kpc' = "respond"
        /\ slot_owner' = [slot_owner EXCEPT ![khand.frame.slot] = None]
    BY <1>12 DEF WorkerRelease, release
  <2>2. PICK k \in Slots : k = khand.frame.slot
    BY <2>1, HandType DEF TypeOK, Retiring, Frames
  <2>3. slot_owner'[k] = None /\ \A j : j # k => slot_owner'[j] = slot_owner[j]
    BY <2>1, <2>2 DEF TypeOK, PoolTypes
  <2>4. Unheld(k)'
    BY <1>2, <2>3
  <2> QED
    BY <2>1, <2>3, <2>4 DEF SlotOwners, Unheld
<1>13. CASE WorkerNothingQueued \/ WorkerExit \/ WorkerPoll \/ WorkerRespond \/ WorkerJobRetired
  <2>1. UNCHANGED <<rslot, slot_owner, queue, in_flight>>
    BY <1>13 DEF WorkerNothingQueued, WorkerExit, WorkerPoll, WorkerRespond, WorkerJobRetired
  <2>2. kpc' # "release"
    BY <1>13, HandType DEF WorkerNothingQueued, WorkerExit, WorkerPoll, WorkerRespond, WorkerJobRetired, TypeOK, Retiring
  <2> QED
    BY <2>1, <2>2 DEF SlotOwners
<1>14. CASE StartSucceeds
  <2>1. UNCHANGED <<rslot, queue, in_flight>> /\ kpc' = "take" /\ slot_owner' = [k \in Slots |-> None]
    BY <1>14 DEF StartSucceeds
  <2>2. kpc \in {"none", "exited"} /\ connections = {}
    BY <1>14 DEF StartSucceeds, ControlOK
  <2>3. \A c \in Conns : rslot[c] = None
    BY <2>2 DEF ControlOK, Gone, TypeOK, ReaderTypes, Holding
  <2> QED
    BY <2>1, <2>2, <2>3 DEF SlotOwners, ControlOK
<1>15. ASSUME NEW b \in Conns, (\E kind \in Kinds : ClientSend(b, kind)) \/ ClientReceive(b) \/ ClientDies(b) \/ Writer(b)
       PROVE  SlotOwners'
  BY <1>4, <1>15, ClientFrame, WriterFrame
<1>16. CASE AcceptorCheck \/ AcceptorTimeout \/ StartFails \/ StopBegin \/ Stop
            \/ (\E job \in running_jobs : BackendFinish(job)) \/ UNCHANGED vars
  BY <1>4, <1>16, ControlFrame, BackendFrame DEF vars
<1> QED
  BY <1>5, <1>6, <1>7, <1>8, <1>9, <1>10, <1>11, <1>12, <1>13, <1>14, <1>15, <1>16
  DEF Next, Reader, Worker, Acceptor, Terminated

(* A fresh pool is nobody's. *)
LEMMA InitSlots == Init => SlotCounts /\ SlotOwners
<1> SUFFICES ASSUME Init PROVE SlotCounts /\ SlotOwners
  OBVIOUS
<1>n. None \notin Slots
  BY ServerAssumption
<1>1. ASSUME NEW i \in Slots PROVE Holders(i) = 0
  <2>1. /\ {c \in Conns : rslot[c] = i} = {} /\ {k \in 1 .. Len(queue) : queue[k].slot = i} = {}
        /\ {e \in in_flight : e.frame.slot = i} = {}
    BY <1>n DEF Init
  <2>2. Holders(i) = Cardinality({}) + Cardinality({}) + Cardinality({}) + 0
    BY <2>1 DEF Holders, Init
  <2> QED
    BY <2>2, FS_EmptySet
<1>2. SlotCounts
  BY <1>1 DEF SlotCounts, Init
<1>3. SlotOwners
  BY DEF SlotOwners, Init
<1> QED
  BY <1>2, <1>3

(* The two halves are the whole. *)
LEMMA SlotsConservedSplit == SlotsConserved <=> SlotCounts /\ SlotOwners
  BY DEF SlotsConserved, SlotCounts, SlotOwners

----------------------------------------------------------------------------
(* Frames on the wire and answers                                          *)

(* A sequence of frames that are numbered from r + 1 on *)
NumberedFrom(w, r) == \A k \in 1 .. Len(w) : w[k].seq = r + k

(* It can be extended by the next frame *)
LEMMA AppendNumbered ==
    ASSUME NEW w \in Seq(WireFrames), NEW f \in WireFrames, NEW r \in Nat, f.seq = r + Len(w) + 1, NumberedFrom(w, r)
    PROVE  NumberedFrom(Append(w, f), r) /\ Len(Append(w, f)) = Len(w) + 1
<1> DEFINE v == Append(w, f)
<1>1. Len(w) \in Nat
  BY LenProperties
<1>2. Len(v) = Len(w) + 1 /\ (\A k \in 1 .. Len(w) : v[k] = w[k]) /\ v[Len(w) + 1] = f
  BY AppendProperties
<1> HIDE DEF v
<1>3. ASSUME NEW k \in 1 .. Len(v) PROVE v[k].seq = r + k
  <2>1. CASE k \in 1 .. Len(w)
    BY <1>2, <2>1 DEF NumberedFrom
  <2>2. CASE k = Len(w) + 1
    <3>1. v[k] = f
      BY <1>2, <2>2
    <3> QED
      BY <1>1, <2>2, <3>1
  <2> QED
    BY <1>1, <1>2, <2>1, <2>2
<1> QED
  BY <1>2, <1>3 DEF NumberedFrom, v

(* and its front taken. *)
LEMMA TailNumbered ==
    ASSUME NEW w \in Seq(WireFrames), w # <<>>, NEW r \in Nat, NumberedFrom(w, r)
    PROVE  Head(w).seq = r + 1 /\ NumberedFrom(Tail(w), r + 1) /\ Len(Tail(w)) = Len(w) - 1
<1> DEFINE v == Tail(w)
<1>1. Len(w) \in Nat /\ Len(w) > 0 /\ Head(w) = w[1]
  BY EmptySeq, LenProperties
<1>2. Len(v) = Len(w) - 1 /\ \A k \in 1 .. (Len(w) - 1) : v[k] = w[k + 1]
  BY HeadTailProperties
<1> HIDE DEF v
<1>3. ASSUME NEW k \in 1 .. Len(v) PROVE v[k].seq = (r + 1) + k
  <2>1. k \in Nat /\ k + 1 \in 1 .. Len(w) /\ v[k] = w[k + 1]
    BY <1>1, <1>2
  <2>2. w[k + 1].seq = r + (k + 1)
    BY <2>1 DEF NumberedFrom
  <2> QED
    BY <2>1, <2>2
<1>4. Head(w).seq = r + 1
  BY <1>1 DEF NumberedFrom
<1> QED
  BY <1>2, <1>3, <1>4 DEF NumberedFrom, v

(* TCP delivers a client's frames in the order it numbered them. *)
LEMMA WireStep == TypeOK /\ WireInOrder /\ [Next]_vars => WireInOrder'
<1> SUFFICES ASSUME TypeOK, WireInOrder, [Next]_vars PROVE WireInOrder'
  OBVIOUS
<1> USE DEF client, reader, connection, writer, pool, jobs, worker, backend, control
<1>1. CASE UNCHANGED <<sent, wire, rseq>>
  BY <1>1 DEF WireInOrder
<1>t. \A c \in Conns : wire[c] \in Seq(WireFrames) /\ Len(wire[c]) \in Nat /\ rseq[c] \in Nat /\ sent[c] \in Nat
  BY LenProperties DEF TypeOK, ClientTypes, ReaderTypes
<1>2. ASSUME NEW b \in Conns, NEW kind \in Kinds, ClientSend(b, kind) PROVE WireInOrder'
  <2> DEFINE f == [seq |-> sent[b] + 1, kind |-> kind]
  <2>1. /\ rseq' = rseq /\ sent' = [sent EXCEPT ![b] = @ + 1]
        /\ wire' = [wire EXCEPT ![b] = Append(@, f)] /\ sent[b] < MaxFrames
    BY <1>2 DEF ClientSend, TypeOK, ClientTypes
  <2>2. f \in WireFrames /\ f.seq = sent[b] + 1
    BY <1>t, <2>1, ServerAssumption DEF WireFrames, Seqs
  <2> HIDE DEF f
  <2>3. f.seq = rseq[b] + Len(wire[b]) + 1 /\ NumberedFrom(wire[b], rseq[b])
    BY <1>t, <2>2 DEF WireInOrder, NumberedFrom
  <2>4. NumberedFrom(Append(wire[b], f), rseq[b]) /\ Len(Append(wire[b], f)) = Len(wire[b]) + 1
    BY <1>t, <2>2, <2>3, AppendNumbered
  <2>5. wire'[b] = Append(wire[b], f) /\ sent'[b] = sent[b] + 1 /\ rseq'[b] = rseq[b]
    BY <2>1 DEF TypeOK, ClientTypes
  <2>6. NumberedFrom(wire'[b], rseq'[b])
    BY <2>4, <2>5
  <2>7. sent'[b] = rseq'[b] + Len(wire'[b])
    BY <1>t, <2>4, <2>5 DEF WireInOrder
  <2>8. \A c \in Conns : c # b => sent'[c] = sent[c] /\ wire'[c] = wire[c] /\ rseq'[c] = rseq[c]
    BY <2>1 DEF TypeOK, ClientTypes
  <2> QED
    BY <2>6, <2>7, <2>8 DEF WireInOrder, NumberedFrom
<1>3. ASSUME NEW b \in Conns, ReadFrame(b) PROVE WireInOrder'
  <2>1. /\ sent' = sent /\ rseq' = [rseq EXCEPT ![b] = Head(wire[b]).seq]
        /\ wire' = [wire EXCEPT ![b] = Tail(@)] /\ wire[b] # <<>>
    BY <1>3 DEF ReadFrame
  <2>2. NumberedFrom(wire[b], rseq[b])
    BY DEF WireInOrder, NumberedFrom
  <2>3. /\ Head(wire[b]).seq = rseq[b] + 1 /\ NumberedFrom(Tail(wire[b]), rseq[b] + 1)
        /\ Len(Tail(wire[b])) = Len(wire[b]) - 1
    BY <1>t, <2>1, <2>2, TailNumbered
  <2>4. wire'[b] = Tail(wire[b]) /\ sent'[b] = sent[b] /\ rseq'[b] = rseq[b] + 1
    BY <2>1, <2>3 DEF TypeOK, ClientTypes, ReaderTypes
  <2>5. NumberedFrom(wire'[b], rseq'[b])
    BY <2>3, <2>4
  <2>6. sent'[b] = rseq'[b] + Len(wire'[b])
    BY <1>t, <2>3, <2>4 DEF WireInOrder
  <2>7. \A c \in Conns : c # b => sent'[c] = sent[c] /\ wire'[c] = wire[c] /\ rseq'[c] = rseq[c]
    BY <2>1 DEF TypeOK, ClientTypes, ReaderTypes
  <2> QED
    BY <2>5, <2>6, <2>7 DEF WireInOrder, NumberedFrom
<1>4. ASSUME NEW b \in Conns, ClientReceive(b) \/ ClientDies(b) \/ ReadFails(b) \/ Drain(b) \/ ClaimSlot(b)
             \/ ReadPayload(b) \/ ReaderRelease(b) \/ CountJob(b) \/ QueuePush(b) \/ UncountJob(b) \/ FinishReader(b)
             \/ JoinWriter(b) \/ AcceptorAccept(b)
      PROVE  WireInOrder'
  BY <1>1, <1>4 DEF ClientReceive, ClientDies, ReadFails, Drain, ClaimSlot, ReadPayload, ReaderRelease, CountJob,
     QueuePush, UncountJob, FinishReader, JoinWriter, AcceptorAccept
<1>5. CASE AcceptorCheck \/ AcceptorTimeout \/ StartFails \/ StopBegin \/ Stop \/ Worker
           \/ (\E job \in running_jobs : BackendFinish(job)) \/ (\E b \in Conns : Writer(b))
  BY <1>1, <1>5, ControlFrame, WorkerFrame, BackendFrame, WriterFrame
<1>6. CASE StartSucceeds \/ UNCHANGED vars
  BY <1>1, <1>6 DEF StartSucceeds, vars
<1> QED
  BY <1>2, <1>3, <1>4, <1>5, <1>6 DEF Next, Reader, Acceptor, Terminated

(* The frame at the front of the wire is the one after the last one read. *)
LEMMA NextFrame ==
    ASSUME TypeOK, WireInOrder, NEW b \in Conns, wire[b] # <<>>
    PROVE  Head(wire[b]).seq = rseq[b] + 1 /\ Head(wire[b]) \in WireFrames
<1>1. wire[b] \in Seq(WireFrames) /\ rseq[b] \in Nat
  BY DEF TypeOK, ClientTypes, ReaderTypes
<1>2. NumberedFrom(wire[b], rseq[b])
  BY DEF WireInOrder, NumberedFrom
<1> QED
  BY <1>1, <1>2, TailNumbered, HeadTailProperties

(* Nothing was read and nothing answered. *)
LEMMA InitAnswers == Init => WireInOrder /\ AnswersOK /\ DroppedOK /\ ShutFirst
<1> SUFFICES ASSUME Init PROVE WireInOrder /\ AnswersOK /\ DroppedOK /\ ShutFirst
  OBVIOUS
<1>1. WireInOrder
  BY EmptySeq DEF Init, WireInOrder
<1>2. ASSUME NEW c \in Conns, NEW n \in Seqs PROVE Copies(c, n) = 0
  <2>1. Queued(FramesOf(c, n)) = {} /\ Flying(FramesOf(c, n)) = {}
    BY DEF Init, Queued, Flying
  <2>2. Travelling(FramesOf(c, n)) = 0
    BY <2>1, FS_EmptySet DEF Travelling
  <2> QED
    BY <2>2, ServerAssumption DEF Init, Copies, InHand, WithReader, GivenUp, Busy, Seqs
<1>3. \A c \in Conns, n \in Seqs : n > rseq[c]
  BY ServerAssumption DEF Init, Seqs
<1>4. AnswersOK
  BY <1>2, <1>3 DEF AnswersOK
<1>5. DroppedOK /\ ShutFirst
  BY DEF Init, DroppedOK, ShutFirst
<1> QED
  BY <1>1, <1>4, <1>5

(* A frame exists once from the moment it is read, wherever it goes: as a  *)
(* token, as an answer, or given up by its reader.                         *)
LEMMA AnswersStep ==
    ASSUME TypeOK, TypeOK', HandlesOK, ControlOK, NoResponseDropped, WireInOrder, AnswersOK, DroppedOK, [Next]_vars
    PROVE  AnswersOK'
<1> USE DEF client, reader, connection, writer, pool, jobs, worker, backend, control
<1> SUFFICES ASSUME NEW c \in Conns, NEW n \in Seqs
             PROVE  Copies(c, n)' = IF n > rseq'[c] THEN 0 ELSE 1
  BY DEF AnswersOK
<1> DEFINE P == pushed[c][n]
           T == Travelling(FramesOf(c, n))
           H == InHand(c, n)
           W == WithReader(c, n)
           G == GivenUp(c, n)
           Goal == P' + T' + H' + W' + G' = IF n > rseq'[c] THEN 0 ELSE 1
<1>1. P + T + H + W + G = IF n > rseq[c] THEN 0 ELSE 1
  BY DEF AnswersOK, Copies
<1> SUFFICES Goal
  BY DEF Copies
<1>2. P \in Nat /\ T \in Nat /\ H \in 0 .. 1 /\ W \in 0 .. 1 /\ G \in 0 .. 1
  BY CountTypes DEF TypeOK, ConnectionTypes, InHand, WithReader, GivenUp
<1>3. \A f \in Frames : f \in FramesOf(c, n) <=> f.conn = c /\ f.seq = n
  BY DEF FramesOf
<1>y. n \in Nat /\ rseq[c] \in Nat
  BY ServerAssumption DEF Seqs, TypeOK, ReaderTypes
<1>p. pushed' = pushed => P' = P
  OBVIOUS
<1>t. UNCHANGED <<queue, in_flight>> => T' = T
  BY TravellingSame
<1>h. UNCHANGED <<kpc, khand>> => H' = H
  BY DEF InHand
<1>w. UNCHANGED <<rpc, rseq>> => W' = W
  BY DEF WithReader
<1>g. UNCHANGED dropped => G' = G
  BY DEF GivenUp
<1> HIDE DEF P, T, H, W, G
<1>s. ASSUME P' + T' + H' + W' + G' = P + T + H + W + G, rseq'[c] = rseq[c]
      PROVE  Goal
  BY <1>1, <1>s
<1>4. CASE UNCHANGED <<pushed, queue, in_flight, kpc, khand, rpc, rseq, dropped>>
  BY <1>4, <1>s, <1>p, <1>t, <1>h, <1>w, <1>g
<1>5. ASSUME NEW b \in Conns, ReadFails(b) \/ Drain(b) \/ ReaderRelease(b) \/ CountJob(b) \/ UncountJob(b)
             \/ FinishReader(b) \/ JoinWriter(b) \/ AcceptorAccept(b)
      PROVE  Goal
  <2>1. UNCHANGED <<pushed, queue, in_flight, kpc, khand, rseq, dropped>>
    BY <1>5 DEF ReadFails, Drain, ReaderRelease, CountJob, job_submitted, UncountJob, job_retired, FinishReader,
       reader_finished, JoinWriter, AcceptorAccept
  <2>2. PICK where : rpc' = [rpc EXCEPT ![b] = where] /\ (rpc[b] \in Busy <=> where \in Busy)
    BY <1>5 DEF ReadFails, Drain, ReaderRelease, CountJob, UncountJob, FinishReader, JoinWriter, AcceptorAccept,
       ReaderGoto, Busy
  <2>3. W' = W
    BY <2>1, <2>2 DEF W, WithReader, TypeOK, ReaderTypes
  <2> QED
    BY <1>s, <1>p, <1>t, <1>h, <1>g, <2>1, <2>3
<1>u. ASSUME NEW b \in Conns, rpc[b] \in Busy, rseq' = rseq, NEW where, where \notin Busy,
             rpc' = [rpc EXCEPT ![b] = where], GiveUp(b)
      PROVE  W' + G' = W + G /\ W' \in Nat /\ G' \in Nat
  <2>1. dropped[b] = 0
    BY <1>u DEF DroppedOK, Busy, Abandoning
  <2>2. W' = (IF b = c THEN 0 ELSE W) /\ (b = c => W = IF rseq[c] = n THEN 1 ELSE 0)
    BY <1>u DEF W, WithReader, TypeOK, ReaderTypes
  <2>3. dropped'[c] = (IF b = c THEN rseq[c] ELSE dropped[c])
    BY <1>u DEF GiveUp, TypeOK, ReaderTypes
  <2>4. G' = (IF b = c THEN (IF rseq[c] = n THEN 1 ELSE 0) ELSE G) /\ (b = c => G = 0)
    BY <1>y, <2>1, <2>3, ServerAssumption DEF G, GivenUp, Seqs
  <2> QED
    BY <1>2, <2>2, <2>4
<1>6. ASSUME NEW b \in Conns, ClaimSlot(b) \/ ReadPayload(b) PROVE Goal
  <2>1. UNCHANGED <<pushed, queue, in_flight, kpc, khand, rseq>> /\ rpc[b] \in Busy
    BY <1>6 DEF ClaimSlot, ReadPayload, Busy
  <2>2. PICK where : /\ rpc' = [rpc EXCEPT ![b] = where]
                     /\ (where \in Busy /\ UNCHANGED dropped) \/ (where \notin Busy /\ GiveUp(b))
    BY <1>6 DEF ClaimSlot, ReadPayload, ReaderGoto, Busy
  <2>3. CASE where \in Busy /\ UNCHANGED dropped
    <3>1. W' = W
      BY <2>1, <2>2, <2>3 DEF W, WithReader, TypeOK, ReaderTypes
    <3> QED
      BY <1>s, <1>p, <1>t, <1>h, <1>g, <2>1, <2>3, <3>1
  <2>4. CASE where \notin Busy /\ GiveUp(b)
    <3>1. W' + G' = W + G /\ W' \in Nat /\ G' \in Nat
      BY <1>u, <2>1, <2>2, <2>4
    <3>2. P' = P /\ T' = T /\ H' = H /\ rseq'[c] = rseq[c]
      BY <1>p, <1>t, <1>h, <2>1
    <3>3. P' + T' + H' + W' + G' = P + T + H + W + G
      BY <1>2, <3>1, <3>2
    <3> QED
      BY <1>s, <3>2, <3>3
  <2> QED
    BY <2>2, <2>3, <2>4
<1>7. ASSUME NEW b \in Conns, QueuePush(b) PROVE Goal
  <2> DEFINE f == [conn |-> b, seq |-> rseq[b], slot |-> rslot[b]]
  <2>1. UNCHANGED <<pushed, in_flight, kpc, khand, rseq>> /\ rpc[b] = "push"
    BY <1>7 DEF QueuePush
  <2>2. CASE queue' = Append(queue, f) /\ rpc' = [rpc EXCEPT ![b] = "recv"] /\ UNCHANGED dropped
    <3>1. f \in Frames /\ f.conn = b /\ f.seq = rseq[b]
      BY <2>1 DEF TypeOK, ReaderTypes, Busy, Holding, Frames
    <3> HIDE DEF f
    <3>2. T' = T + (IF f \in FramesOf(c, n) THEN 1 ELSE 0)
      BY <2>1, <2>2, <3>1, TravellingPush DEF T, TypeOK
    <3>3. T' = T + (IF b = c /\ rseq[b] = n THEN 1 ELSE 0)
      BY <1>3, <3>1, <3>2
    <3>4. W' = W - (IF b = c /\ rseq[b] = n THEN 1 ELSE 0)
      BY <2>1, <2>2 DEF W, WithReader, TypeOK, ReaderTypes, Busy
    <3>6. P' = P /\ H' = H /\ G' = G /\ rseq'[c] = rseq[c]
      BY <1>p, <1>h, <1>g, <2>1, <2>2
    <3>7. P' + T' + H' + W' + G' = P + T + H + W + G
      BY <1>2, <3>3, <3>4, <3>6
    <3> QED
      BY <1>s, <3>6, <3>7
  <2>3. CASE queue' = queue /\ rpc' = [rpc EXCEPT ![b] = "uncount"] /\ GiveUp(b)
    <3>1. W' + G' = W + G /\ W' \in Nat /\ G' \in Nat
      BY <1>u, <2>1, <2>3 DEF Busy
    <3>2. P' = P /\ T' = T /\ H' = H /\ rseq'[c] = rseq[c]
      BY <1>p, <1>t, <1>h, <2>1, <2>3
    <3>3. P' + T' + H' + W' + G' = P + T + H + W + G
      BY <1>2, <3>1, <3>2
    <3> QED
      BY <1>s, <3>2, <3>3
  <2> QED
    BY <1>7, <2>2, <2>3 DEF QueuePush, ReaderGoto
<1>8. ASSUME NEW b \in Conns, ReadFrame(b) PROVE Goal
  <2>0. wire[b] # <<>>
    BY <1>8 DEF ReadFrame
  <2>2. PICK m \in Seqs : m = rseq[b] + 1 /\ m = Head(wire[b]).seq
    BY <2>0, NextFrame DEF WireFrames
  <2>1. /\ UNCHANGED <<queue, in_flight, kpc, khand, dropped>> /\ rpc[b] = "recv"
        /\ rseq' = [rseq EXCEPT ![b] = m]
    BY <1>8, <2>2 DEF ReadFrame
  <2>3. W = 0 \/ b # c
    BY <2>1 DEF W, WithReader, Busy
  <2>4. ~outbox_closed[b]
    BY <2>1 DEF NoResponseDropped
  <2>5. P' + W' = P + W + (IF b = c /\ m = n THEN 1 ELSE 0)
    <3>1. CASE pushed' = pushed /\ rpc' = [rpc EXCEPT ![b] = "claim"]
      <4>1. W' = W + (IF b = c /\ m = n THEN 1 ELSE 0)
        BY <2>1, <2>3, <3>1 DEF W, WithReader, Busy, TypeOK, ReaderTypes
      <4> QED
        BY <1>2, <1>p, <3>1, <4>1
    <3>2. CASE pushed' = [pushed EXCEPT ![b][m] = @ + 1]
               /\ (rpc' = [rpc EXCEPT ![b] = "finish"] \/ rpc' = [rpc EXCEPT ![b] = "drain"])
      <4>1. P' = P + (IF b = c /\ m = n THEN 1 ELSE 0)
        <5>1. pushed'[c][n] = pushed[c][n] + (IF b = c /\ m = n THEN 1 ELSE 0)
          BY <3>2 DEF TypeOK, ConnectionTypes
        <5> QED
          BY <5>1 DEF P
      <4>2. W' = W
        BY <2>1, <2>3, <3>2 DEF W, WithReader, Busy, TypeOK, ReaderTypes
      <4> QED
        BY <1>2, <4>1, <4>2
    <3> QED
      BY <1>8, <2>2, <2>4, <3>1, <3>2 DEF ReadFrame, OutboxPush, ReaderGoto
  <2>6. T' = T /\ H' = H /\ G' = G
    BY <1>t, <1>h, <1>g, <2>1
  <2>7. CASE b = c
    <3>1. rseq'[c] = m
      BY <2>1, <2>7 DEF TypeOK, ReaderTypes
    <3>2. P' \in Nat /\ W' \in Nat
      <4>1. P' \in Nat
        BY DEF P, TypeOK, ConnectionTypes
      <4>2. W' \in Nat
        BY DEF W, WithReader
      <4> QED
        BY <4>1, <4>2
    <3>3. P' + T' + H' + W' + G' = P + T + H + W + G + (IF m = n THEN 1 ELSE 0)
      <4>1. P' + W' = P + W + (IF m = n THEN 1 ELSE 0)
        BY <2>5, <2>7
      <4>2. P' + T' + H' + W' + G' = (P' + W') + (T + H + G)
        BY <1>2, <2>6, <3>2
      <4> QED
        BY <1>2, <4>1, <4>2
    <3>4. m = rseq[c] + 1
      BY <2>2, <2>7
    <3> QED
      BY <1>1, <1>2, <1>y, <3>1, <3>3, <3>4
  <2>8. CASE b # c
    <3>1. rseq'[c] = rseq[c] /\ rpc'[c] = rpc[c]
      BY <1>8, <2>1, <2>8 DEF ReadFrame, ReaderGoto, TypeOK, ReaderTypes
    <3>2. W' = W
      BY <3>1 DEF W, WithReader
    <3>3. P' = P
      BY <1>8, <2>2, <2>8 DEF ReadFrame, OutboxPush, P, TypeOK, ConnectionTypes
    <3> QED
      BY <1>s, <2>6, <3>1, <3>2, <3>3
  <2> QED
    BY <2>7, <2>8
<1>9. CASE WorkerSubmit
  <2>1. T' = T
    BY <1>9, TravellingSubmit DEF T, TypeOK
  <2>2. UNCHANGED <<pushed, rpc, rseq, dropped>> /\ H' = H
    BY <1>9 DEF WorkerSubmit, H, InHand
  <2> QED
    BY <1>s, <1>p, <1>w, <1>g, <2>1, <2>2
<1>10. CASE WorkerSubmitThrows
  <2>1. T' = T - (IF khand'.frame \in FramesOf(c, n) THEN 1 ELSE 0)
    BY <1>10, TravellingThrow DEF T, TypeOK
  <2>2. UNCHANGED <<pushed, rpc, rseq, dropped>> /\ kpc' = "release" /\ kpc = "take"
    BY <1>10 DEF WorkerSubmitThrows
  <2>3. khand'.frame \in Frames
    BY <2>2 DEF TypeOK, WorkerTypes, Retiring, Retirements
  <2>4. H = 0 /\ H' = IF khand'.frame \in FramesOf(c, n) THEN 1 ELSE 0
    BY <1>3, <2>2, <2>3 DEF H, InHand
  <2>5. P' + T' + H' + W' + G' = P + T + H + W + G
    BY <1>2, <1>p, <1>w, <1>g, <2>1, <2>2, <2>4
  <2> QED
    BY <1>s, <2>2, <2>5
<1>11. CASE WorkerRetire
  <2>0. UNCHANGED <<pushed, rpc, rseq, dropped, queue>> /\ kpc = "retire"
    BY <1>11 DEF WorkerRetire
  <2>1. CASE kpc' = "take" /\ UNCHANGED <<khand, in_flight, batch>>
    <3>1. H' = H
      BY <2>0, <2>1 DEF H, InHand
    <3> QED
      BY <1>s, <1>p, <1>t, <1>w, <1>g, <2>0, <2>1, <3>1
  <2>2. ASSUME NEW d \in batch, in_flight' = in_flight \ {EntryFor(d)}, kpc' = "release",
               khand'.frame = EntryFor(d).frame
        PROVE  Goal
    <3>1. T' = T - (IF khand'.frame \in FramesOf(c, n) THEN 1 ELSE 0)
      BY <2>0, <2>2, TravellingRetire DEF T, TypeOK
    <3>2. khand'.frame \in Frames
      BY <2>2 DEF TypeOK, WorkerTypes, Retiring, Retirements
    <3>3. H = 0 /\ H' = IF khand'.frame \in FramesOf(c, n) THEN 1 ELSE 0
      BY <1>3, <2>0, <2>2, <3>2 DEF H, InHand
    <3>4. P' + T' + H' + W' + G' = P + T + H + W + G
      BY <1>2, <1>p, <1>w, <1>g, <2>0, <3>1, <3>3
    <3> QED
      BY <1>s, <2>0, <3>4
  <2> QED
    BY <1>11, <2>1, <2>2 DEF WorkerRetire
<1>12. CASE WorkerRespond
  <2>1. UNCHANGED <<rpc, rseq, dropped, queue, in_flight, khand>> /\ kpc = "respond" /\ kpc' = "retired"
    BY <1>12 DEF WorkerRespond
  <2>2. PICK b \in Conns, m \in Seqs : b = khand.frame.conn /\ m = khand.frame.seq
    BY <2>1, HandType DEF TypeOK, Retiring, Frames
  <2>3. pushed' = [pushed EXCEPT ![b][m] = @ + 1]
    BY <1>12, <2>1, <2>2 DEF WorkerRespond, OutboxPush, NoResponseDropped
  <2>4. H = (IF b = c /\ m = n THEN 1 ELSE 0) /\ H' = 0
    BY <2>1, <2>2 DEF H, InHand
  <2>5. P' = P + (IF b = c /\ m = n THEN 1 ELSE 0)
    <3>1. pushed'[c][n] = pushed[c][n] + (IF b = c /\ m = n THEN 1 ELSE 0)
      BY <2>3 DEF TypeOK, ConnectionTypes
    <3> QED
      BY <3>1 DEF P
  <2>6. P' + T' + H' + W' + G' = P + T + H + W + G
    BY <1>2, <1>t, <1>w, <1>g, <2>1, <2>4, <2>5
  <2> QED
    BY <1>s, <2>1, <2>6
<1>13. CASE WorkerNothingQueued \/ WorkerExit \/ WorkerPoll \/ WorkerRelease \/ WorkerJobRetired
  <2>1. UNCHANGED <<pushed, rpc, rseq, dropped, queue, in_flight>>
    BY <1>13 DEF WorkerNothingQueued, WorkerExit, WorkerPoll, WorkerRelease, WorkerJobRetired, job_retired
  <2>2. H' = H
    BY <1>13, HandType DEF WorkerNothingQueued, WorkerExit, WorkerPoll, WorkerRelease, WorkerJobRetired, TypeOK,
       Retiring, H, InHand
  <2> QED
    BY <1>s, <1>p, <1>t, <1>w, <1>g, <2>1, <2>2
<1>14. CASE StartSucceeds
  <2>1. UNCHANGED <<pushed, rpc, rseq, dropped, queue, in_flight>>
    BY <1>14 DEF StartSucceeds
  <2>2. kpc \in {"none", "exited"} /\ kpc' = "take"
    BY <1>14 DEF StartSucceeds, ControlOK
  <2>3. H' = H
    BY <2>2 DEF H, InHand
  <2> QED
    BY <1>s, <1>p, <1>t, <1>w, <1>g, <2>1, <2>3
<1>15. ASSUME NEW b \in Conns, (\E kind \in Kinds : ClientSend(b, kind)) \/ ClientReceive(b) \/ ClientDies(b) \/ Writer(b)
       PROVE  Goal
  BY <1>4, <1>15, ClientFrame, WriterFrame
<1>16. CASE AcceptorCheck \/ AcceptorTimeout \/ StartFails \/ StopBegin \/ Stop
            \/ (\E job \in running_jobs : BackendFinish(job)) \/ UNCHANGED vars
  BY <1>4, <1>16, ControlFrame, BackendFrame DEF vars
<1> HIDE DEF Goal
<1> QED
  BY <1>5, <1>6, <1>7, <1>8, <1>9, <1>10, <1>11, <1>12, <1>13, <1>14, <1>15, <1>16
  DEF Next, Reader, Worker, Acceptor, Terminated

(* A token in the queue or in the table can be seen there, and no token    *)
(* means that there is none.                                               *)
LEMMA TravellingSeen ==
    ASSUME WorkerTypes, NEW X
    PROVE  /\ Travelling(X) \in Nat
           /\ Travelling(X) = 0 <=> Queued(X) = {} /\ Flying(X) = {}
<1> DEFINE q == Cardinality(Queued(X))
           f == Cardinality(Flying(X))
<1>1. q \in Nat /\ f \in Nat /\ (q = 0 <=> Queued(X) = {}) /\ (f = 0 <=> Flying(X) = {})
  BY CountTypes, FS_EmptySet
<1>2. Travelling(X) = q + f
  BY DEF Travelling
<1> HIDE DEF q, f
<1> QED
  BY <1>1, <1>2

(* A frame that exists once is answered or in the pipeline, never both. *)
LEMMA OneCopy ==
    ASSUME TypeOK, AnswersOK, NEW c \in Conns, NEW n \in 1 .. rseq[c]
    PROVE  /\ pushed[c][n] = (IF InPipeline(c, n) \/ n = dropped[c] THEN 0 ELSE 1)
           /\ n = dropped[c] => ~InPipeline(c, n)
<1> DEFINE P == pushed[c][n]
           T == Travelling(FramesOf(c, n))
           H == InHand(c, n)
           W == WithReader(c, n)
           G == GivenUp(c, n)
<1>1. n \in Seqs /\ n \in Nat /\ rseq[c] \in Nat /\ n <= rseq[c]
  BY ServerAssumption DEF Seqs, TypeOK, ReaderTypes
<1>2. P + T + H + W + G = 1
  BY <1>1 DEF AnswersOK, Copies
<1>3. P \in Nat /\ T \in Nat /\ H \in 0 .. 1 /\ W \in 0 .. 1 /\ G = (IF n = dropped[c] THEN 1 ELSE 0)
  BY <1>1, CountTypes DEF TypeOK, ConnectionTypes, InHand, WithReader, GivenUp
<1>4. T = 0 <=> /\ \A k \in 1 .. Len(queue) : ~(queue[k].conn = c /\ queue[k].seq = n)
                /\ \A e \in in_flight : ~(e.frame.conn = c /\ e.frame.seq = n)
  <2>1. Queued(FramesOf(c, n)) = {k \in 1 .. Len(queue) : queue[k].conn = c /\ queue[k].seq = n}
    BY TokensAreFrames DEF Queued, FramesOf, TypeOK
  <2>2. Flying(FramesOf(c, n)) = {e \in in_flight : e.frame.conn = c /\ e.frame.seq = n}
    BY TokensAreFrames DEF Flying, FramesOf, TypeOK
  <2>3. T = 0 <=> Queued(FramesOf(c, n)) = {} /\ Flying(FramesOf(c, n)) = {}
    BY TravellingSeen DEF TypeOK
  <2> QED
    BY <2>1, <2>2, <2>3
<1>5. InPipeline(c, n) <=> ~(T = 0 /\ H = 0 /\ W = 0)
  BY <1>4 DEF InPipeline, InHand, WithReader, Busy
<1> HIDE DEF P, T, H, W, G
<1>6. /\ P = (IF InPipeline(c, n) \/ n = dropped[c] THEN 0 ELSE 1)
      /\ n = dropped[c] => ~InPipeline(c, n)
  <2>1. CASE T = 0 /\ H = 0 /\ W = 0
    BY <1>2, <1>3, <1>5, <2>1
  <2>2. CASE ~(T = 0 /\ H = 0 /\ W = 0)
    BY <1>2, <1>3, <1>5, <2>2
  <2> QED
    BY <2>1, <2>2
<1> QED
  BY <1>6 DEF P

(* So every frame is answered or in the pipeline, but the one given up. *)
LEMMA AnsweredOnce == TypeOK /\ AnswersOK /\ DroppedOK => EveryFrameAnsweredOnce
<1> SUFFICES ASSUME TypeOK, AnswersOK, DroppedOK, NEW c \in Conns
             PROVE  /\ \A n \in 1 .. rseq[c] : pushed[c][n] = (IF InPipeline(c, n) \/ n = dropped[c] THEN 0 ELSE 1)
                    /\ dropped[c] # 0 => /\ rpc[c] \in Abandoning
                                         /\ dropped[c] = rseq[c] /\ ~InPipeline(c, rseq[c])
                                         /\ Broken(c) \/ queue_closed
  BY DEF EveryFrameAnsweredOnce, Abandoning
<1>1. \A n \in 1 .. rseq[c] : pushed[c][n] = (IF InPipeline(c, n) \/ n = dropped[c] THEN 0 ELSE 1)
  BY OneCopy
<1>2. ASSUME dropped[c] # 0 PROVE ~InPipeline(c, rseq[c])
  <2>1. dropped[c] = rseq[c] /\ rseq[c] \in 1 .. rseq[c]
    BY <1>2, ServerAssumption DEF DroppedOK, TypeOK, ReaderTypes
  <2> QED
    BY <2>1, OneCopy
<1> QED
  BY <1>1, <1>2 DEF DroppedOK

(* Only a reader that is done with its socket, or finds the queue closed,  *)
(* gives up a frame: stop() closes the pool after it has shut the sockets. *)
LEMMA DroppedStep ==
    ASSUME TypeOK, ControlOK, DroppedOK, ShutFirst, [Next]_vars
    PROVE  DroppedOK' /\ ShutFirst'
<1> USE DEF client, reader, connection, writer, pool, jobs, worker, backend, control
<1>1. /\ sock' \in [Conns -> {"open", "shut"}] /\ peer' \in [Conns -> {"up", "gone"}]
      /\ \A d \in Conns : (sock[d] = "shut" => sock'[d] = "shut") /\ (peer[d] = "gone" => peer'[d] = "gone")
      /\ queue_closed => queue_closed'
  <2> DEFINE Goal == /\ sock' \in [Conns -> {"open", "shut"}] /\ peer' \in [Conns -> {"up", "gone"}]
                     /\ \A d \in Conns : (sock[d] = "shut" => sock'[d] = "shut") /\ (peer[d] = "gone" => peer'[d] = "gone")
                     /\ queue_closed => queue_closed'
  <2> SUFFICES Goal
    OBVIOUS
  <2>1. CASE UNCHANGED <<sock, peer, queue_closed>>
    BY <2>1 DEF ShutFirst
  <2>2. ASSUME NEW c \in Conns, (\E kind \in Kinds : ClientSend(c, kind)) \/ ClientReceive(c) PROVE Goal
    BY <2>1, <2>2 DEF ClientSend, ClientReceive
  <2>3. ASSUME NEW c \in Conns, ClientDies(c) PROVE Goal
    BY <2>3 DEF ClientDies, ShutFirst
  <2>4. ASSUME NEW c \in Conns, Reader(c) PROVE Goal
    <3>1. UNCHANGED <<peer, queue_closed>>
      BY <2>4, ReaderFrame
    <3>2. sock' = sock \/ sock' = [sock EXCEPT ![c] = "shut"]
      BY <2>4 DEF Reader, ReadFrame, ReadFails, Drain, ClaimSlot, ReadPayload, ReaderRelease, CountJob, QueuePush,
         UncountJob, FinishReader, JoinWriter
    <3> QED
      BY <3>1, <3>2 DEF ShutFirst
  <2>5. ASSUME NEW c \in Conns, Writer(c) PROVE Goal
    <3>1. UNCHANGED <<peer, queue_closed>>
      BY <2>5, WriterFrame
    <3>2. sock' = sock \/ sock' = [sock EXCEPT ![c] = "shut"]
      BY <2>5 DEF Writer, WriterPop, WriterWrite
    <3> QED
      BY <3>1, <3>2 DEF ShutFirst
  <2>6. CASE Worker \/ \E job \in running_jobs : BackendFinish(job)
    BY <2>1, <2>6, WorkerFrame, BackendFrame
  <2>7. CASE AcceptorCheck \/ AcceptorTimeout \/ (\E c \in Conns : AcceptorAccept(c)) \/ StartSucceeds \/ StopBegin
    BY <2>1, <2>7 DEF AcceptorCheck, AcceptorTimeout, AcceptorAccept, StartSucceeds, StopBegin
  <2>8. CASE StartFails \/ StopCloseQueue
    BY <2>8 DEF StartFails, StopCloseQueue, ShutFirst
  <2>9. CASE StopShutdownSockets
    BY <2>9 DEF StopShutdownSockets, ShutFirst
  <2>10. CASE StopJoinAcceptor \/ StopCloseSlots \/ StopJoinConnections \/ StopJoinWorker \/ UNCHANGED vars
    BY <2>1, <2>10 DEF StopJoinAcceptor, StopCloseSlots, StopJoinConnections, StopJoinWorker, vars
  <2> HIDE DEF Goal
  <2> QED
    BY <2>2, <2>3, <2>4, <2>5, <2>6, <2>7, <2>8, <2>9, <2>10 DEF Next, Acceptor, Stop, Terminated
<1>2. \A d \in Conns : Broken(d) \/ queue_closed => Broken(d)' \/ queue_closed'
  BY <1>1 DEF Broken
<1>3. DroppedOK'
  <2> SUFFICES ASSUME NEW d \in Conns, dropped'[d] # 0
               PROVE  rpc'[d] \in Abandoning /\ dropped'[d] = rseq'[d] /\ (Broken(d)' \/ queue_closed')
    BY DEF DroppedOK
  <2> DEFINE Goal == rpc'[d] \in Abandoning /\ dropped'[d] = rseq'[d] /\ (Broken(d)' \/ queue_closed')
  <2> SUFFICES Goal
    OBVIOUS
  <2>1. CASE UNCHANGED <<rpc, rseq, dropped>>
    BY <1>2, <2>1 DEF DroppedOK
  <2>2. ASSUME NEW b \in Conns, ReadFails(b) \/ Drain(b) \/ ReaderRelease(b) \/ CountJob(b) \/ UncountJob(b)
               \/ FinishReader(b) \/ JoinWriter(b) \/ AcceptorAccept(b)
        PROVE  Goal
    <3>1. UNCHANGED <<rseq, dropped>>
      BY <2>2 DEF ReadFails, Drain, ReaderRelease, CountJob, UncountJob, FinishReader, JoinWriter, AcceptorAccept
    <3>2. PICK where : rpc' = [rpc EXCEPT ![b] = where] /\ (rpc[b] \in Abandoning => where \in Abandoning)
      BY <2>2 DEF ReadFails, Drain, ReaderRelease, CountJob, UncountJob, FinishReader, JoinWriter, AcceptorAccept,
         ReaderGoto, Abandoning
    <3>3. rpc[d] \in Abandoning => rpc'[d] \in Abandoning
      BY <3>2 DEF TypeOK, ReaderTypes
    <3> QED
      BY <1>2, <3>1, <3>3 DEF DroppedOK
  <2>3. ASSUME NEW b \in Conns, ReadFrame(b) PROVE Goal
    <3>1. rpc[b] = "recv" /\ UNCHANGED dropped
      BY <2>3 DEF ReadFrame
    <3>2. b # d
      BY <3>1 DEF DroppedOK, Abandoning
    <3>3. rpc'[d] = rpc[d] /\ rseq'[d] = rseq[d]
      BY <2>3, <3>2 DEF ReadFrame, ReaderGoto, TypeOK, ReaderTypes
    <3> QED
      BY <1>2, <3>1, <3>3 DEF DroppedOK
  <2>4. ASSUME NEW b \in Conns, NEW where, rpc[b] \notin Abandoning, rpc' = [rpc EXCEPT ![b] = where], rseq' = rseq,
               UNCHANGED dropped \/ (GiveUp(b) /\ where \in Abandoning /\ (Broken(b) \/ queue_closed))
        PROVE  Goal
    <3>1. CASE UNCHANGED dropped
      <4>1. b # d /\ rpc'[d] = rpc[d]
        BY <2>4, <3>1 DEF DroppedOK, TypeOK, ReaderTypes
      <4> QED
        BY <1>2, <2>4, <3>1, <4>1 DEF DroppedOK
    <3>2. CASE GiveUp(b) /\ where \in Abandoning /\ (Broken(b) \/ queue_closed)
      <4>1. CASE b = d
        BY <1>2, <2>4, <3>2, <4>1 DEF GiveUp, TypeOK, ReaderTypes
      <4>2. CASE b # d
        <5>1. rpc'[d] = rpc[d] /\ dropped'[d] = dropped[d]
          BY <2>4, <3>2, <4>2 DEF GiveUp, TypeOK, ReaderTypes
        <5> QED
          BY <1>2, <2>4, <5>1 DEF DroppedOK
      <4> QED
        BY <4>1, <4>2
    <3> QED
      BY <2>4, <3>1, <3>2
  <2>5. ASSUME NEW b \in Conns, ClaimSlot(b) PROVE Goal
    <3>1. rpc[b] = "claim" /\ rseq' = rseq
      BY <2>5 DEF ClaimSlot
    <3>2. slots_closed => Broken(b)
      <4>1. b \in connections
        BY <3>1 DEF ControlOK, Gone
      <4> QED
        BY <4>1 DEF ControlOK, ShutFirst, Broken
    <3>3. \E where : /\ rpc' = [rpc EXCEPT ![b] = where]
                     /\ UNCHANGED dropped \/ (GiveUp(b) /\ where \in Abandoning /\ slots_closed)
      BY <2>5 DEF ClaimSlot, ReaderGoto, Abandoning
    <3> QED
      BY <2>4, <3>1, <3>2, <3>3 DEF Abandoning
  <2>6. ASSUME NEW b \in Conns, ReadPayload(b) PROVE Goal
    <3>1. rpc[b] = "payload" /\ rseq' = rseq
      BY <2>6 DEF ReadPayload
    <3>2. \E where : /\ rpc' = [rpc EXCEPT ![b] = where]
                     /\ UNCHANGED dropped \/ (GiveUp(b) /\ where \in Abandoning /\ Broken(b))
      BY <2>6 DEF ReadPayload, ReaderGoto, Abandoning
    <3> QED
      BY <2>4, <3>1, <3>2 DEF Abandoning
  <2>7. ASSUME NEW b \in Conns, QueuePush(b) PROVE Goal
    <3>1. rpc[b] = "push" /\ rseq' = rseq
      BY <2>7 DEF QueuePush
    <3>2. \E where : /\ rpc' = [rpc EXCEPT ![b] = where]
                     /\ UNCHANGED dropped \/ (GiveUp(b) /\ where \in Abandoning /\ queue_closed)
      BY <2>7 DEF QueuePush, ReaderGoto, Abandoning
    <3> QED
      BY <2>4, <3>1, <3>2 DEF Abandoning
  <2>8. ASSUME NEW b \in Conns, (\E kind \in Kinds : ClientSend(b, kind)) \/ ClientReceive(b) \/ ClientDies(b) \/ Writer(b)
        PROVE  Goal
    BY <2>1, <2>8, ClientFrame, WriterFrame
  <2>9. CASE AcceptorCheck \/ AcceptorTimeout \/ StartFails \/ StopBegin \/ Stop \/ Worker
             \/ \E job \in running_jobs : BackendFinish(job)
    BY <2>1, <2>9, ControlFrame, WorkerFrame, BackendFrame
  <2>10. CASE StartSucceeds \/ UNCHANGED vars
    BY <2>1, <2>10 DEF StartSucceeds, vars
  <2> HIDE DEF Goal
  <2> QED
    BY <2>2, <2>3, <2>5, <2>6, <2>7, <2>8, <2>9, <2>10 DEF Next, Reader, Acceptor, Terminated
<1>4. ShutFirst'
  <2> DEFINE Goal == /\ slots_closed' => spc' \in {"join_connections", "close_queue", "join_worker", "stopped"}
                     /\ spc' \in {"close_slots", "join_connections"} => \A c \in connections' : sock'[c] = "shut"
  <2> SUFFICES Goal
    BY <1>1 DEF ShutFirst
  <2>0. connections \subseteq Conns
    BY DEF ControlOK
  <2>1. CASE UNCHANGED <<slots_closed, spc, connections>>
    BY <1>1, <2>0, <2>1 DEF ShutFirst
  <2>2. ASSUME NEW b \in Conns, (\E kind \in Kinds : ClientSend(b, kind)) \/ ClientReceive(b) \/ ClientDies(b)
               \/ Reader(b) \/ Writer(b)
        PROVE  Goal
    <3>1. UNCHANGED <<slots_closed, spc, connections>>
      BY <2>2, ClientFrame, ReaderFrame, WriterFrame
    <3> QED
      BY <2>1, <3>1
  <2>3. CASE Worker \/ (\E job \in running_jobs : BackendFinish(job)) \/ AcceptorCheck \/ StartFails \/ UNCHANGED vars
    <3>1. UNCHANGED <<slots_closed, spc, connections>>
      BY <2>3, WorkerFrame, BackendFrame DEF AcceptorCheck, StartFails, vars
    <3> QED
      BY <2>1, <3>1
  <2>4. CASE AcceptorTimeout \/ \E c \in Conns : AcceptorAccept(c)
    BY <2>4 DEF AcceptorTimeout, AcceptorAccept, ControlOK, ShutFirst
  <2>5. CASE StartSucceeds \/ StopBegin \/ StopJoinAcceptor \/ StopJoinConnections \/ StopCloseQueue \/ StopJoinWorker
    BY <2>5 DEF StartSucceeds, StopBegin, StopJoinAcceptor, StopJoinConnections, StopCloseQueue, StopJoinWorker, ShutFirst
  <2>6. CASE StopShutdownSockets
    BY <2>0, <2>6 DEF StopShutdownSockets, ShutFirst
  <2>7. CASE StopCloseSlots
    BY <2>7 DEF StopCloseSlots, ShutFirst
  <2> HIDE DEF Goal
  <2> QED
    BY <2>2, <2>3, <2>4, <2>5, <2>6, <2>7 DEF Next, Acceptor, Stop, Terminated
<1> QED
  BY <1>3, <1>4

----------------------------------------------------------------------------
(* Images                                                                  *)

(* While a reader has a slot in hand nobody else has it. *)
LEMMA ReaderHoldsAlone ==
    ASSUME TypeOK, SlotCounts, SlotOwners, NEW b \in Conns, rslot[b] # None
    PROVE  /\ rslot[b] \in Slots
           /\ \A c \in Conns : rslot[c] = rslot[b] => c = b
           /\ \A k \in 1 .. Len(queue) : queue[k].slot # rslot[b]
           /\ \A e \in in_flight : e.frame.slot # rslot[b]
<1>1. PICK i \in Slots : i = rslot[b]
  BY DEF TypeOK, ReaderTypes
<1> DEFINE R == Cardinality(ReadersOf(i))
           T == Travelling(FramesIn(i))
           H == HandHolds(i)
<1>2. \A c \in Conns : rslot[c] = rslot[b] => c = b
  BY DEF SlotOwners
<1>3. R \in Nat /\ R # 0
  <2>1. ReadersOf(i) # {}
    BY <1>1 DEF ReadersOf
  <2> QED
    BY <2>1, ReadersType, FS_EmptySet
<1>4. R + T + H \in 0 .. 1
  BY HoldersAreTokens DEF HoldersSplit, SlotCounts, TypeOK
<1>5. T \in Nat /\ H \in 0 .. 1
  BY CountTypes DEF TypeOK, HandHolds
<1>6. T = 0
  <2> HIDE DEF R, T, H
  <2> QED
    BY <1>3, <1>4, <1>5
<1>7. Queued(FramesIn(i)) = {} /\ Flying(FramesIn(i)) = {}
  BY <1>6, TravellingSeen DEF TypeOK
<1>8. (\A k \in 1 .. Len(queue) : queue[k].slot # i) /\ \A e \in in_flight : e.frame.slot # i
  BY <1>7, TokensAreFrames DEF Queued, Flying, FramesIn, TypeOK
<1> QED
  BY <1>1, <1>2, <1>8

(* Nothing is in any slot. *)
LEMMA InitImages == Init => ImagesOK
  BY DEF Init, ImagesOK

(* A slot keeps the frame received into it until the job that reads it is  *)
(* done, and a completion carries the image of the frame it is looked up   *)
(* for.                                                                    *)
LEMMA ImagesStep ==
    ASSUME TypeOK, HandlesOK, ControlOK, SlotCounts, SlotOwners, ImagesOK, [Next]_vars
    PROVE  ImagesOK'
<1> USE DEF client, reader, connection, writer, pool, jobs, worker, backend, control
<1>1. CASE UNCHANGED <<rpc, rslot, rseq, slot_data, queue, in_flight, running_jobs, completed, batch, kpc, khand>>
  BY <1>1 DEF ImagesOK
<1>2. ASSUME NEW b \in Conns, ReadFrame(b) \/ ReadFails(b) \/ Drain(b) \/ ClaimSlot(b) \/ ReaderRelease(b)
             \/ CountJob(b) \/ UncountJob(b) \/ FinishReader(b) \/ JoinWriter(b) \/ AcceptorAccept(b)
      PROVE  ImagesOK'
  <2>1. UNCHANGED <<slot_data, queue, in_flight, running_jobs, completed, batch, kpc, khand>>
    BY <1>2 DEF ReadFrame, ReadFails, Drain, ClaimSlot, ReaderRelease, CountJob, UncountJob, FinishReader, JoinWriter,
       AcceptorAccept
  <2>2. \A c \in Conns : c # b => rpc'[c] = rpc[c] /\ rslot'[c] = rslot[c] /\ rseq'[c] = rseq[c]
    BY <1>2 DEF ReadFrame, ReadFails, Drain, ClaimSlot, ReaderRelease, CountJob, UncountJob, FinishReader, JoinWriter,
       AcceptorAccept, ReaderGoto, TypeOK, ReaderTypes
  <2>3. rpc'[b] \in {"count", "push"} => rpc[b] = "count" /\ rslot'[b] = rslot[b] /\ rseq'[b] = rseq[b]
    BY <1>2 DEF ReadFrame, ReadFails, Drain, ClaimSlot, ReaderRelease, CountJob, UncountJob, FinishReader, JoinWriter,
       AcceptorAccept, ReaderGoto, TypeOK, ReaderTypes
  <2> QED
    BY <2>1, <2>2, <2>3 DEF ImagesOK
<1>3. ASSUME NEW b \in Conns, ReadPayload(b) PROVE ImagesOK'
  <2>1. /\ UNCHANGED <<rslot, rseq, queue, in_flight, running_jobs, completed, batch, kpc, khand>>
        /\ rslot[b] # None
    BY <1>3 DEF ReadPayload, TypeOK, ReaderTypes, Holding
  <2>2. /\ rslot[b] \in Slots
        /\ \A c \in Conns : rslot[c] = rslot[b] => c = b
        /\ \A k \in 1 .. Len(queue) : queue[k].slot # rslot[b]
        /\ \A e \in in_flight : e.frame.slot # rslot[b]
    BY <2>1, ReaderHoldsAlone
  <2>v. PICK v : slot_data' = [slot_data EXCEPT ![rslot[b]] = v]
    BY <1>3 DEF ReadPayload
  <2>3. \A i : i # rslot[b] => slot_data'[i] = slot_data[i]
    BY <2>2, <2>v DEF TypeOK, PoolTypes
  <2>4. \A c \in Conns : c # b => rpc'[c] = rpc[c]
    BY <1>3 DEF ReadPayload, ReaderGoto, TypeOK, ReaderTypes
  <2>5. rpc'[b] \in {"count", "push"} => slot_data'[rslot[b]] = <<b, rseq[b]>>
    BY <1>3, <2>2 DEF ReadPayload, ReaderGoto, TypeOK, ReaderTypes, PoolTypes
  <2>6. \A c \in Conns : rpc'[c] \in {"count", "push"} => slot_data'[rslot[c]] = <<c, rseq[c]>>
    BY <2>2, <2>3, <2>4, <2>5 DEF ImagesOK
  <2> QED
    BY <2>1, <2>2, <2>3, <2>6 DEF ImagesOK
<1>4. ASSUME NEW b \in Conns, QueuePush(b) PROVE ImagesOK'
  <2> DEFINE f == [conn |-> b, seq |-> rseq[b], slot |-> rslot[b]]
  <2>1. UNCHANGED <<slot_data, rseq, in_flight, running_jobs, completed, batch, kpc, khand>> /\ rpc[b] = "push"
    BY <1>4 DEF QueuePush
  <2>2. \A c \in Conns : c # b => rpc'[c] = rpc[c] /\ rslot'[c] = rslot[c]
    BY <1>4 DEF QueuePush, ReaderGoto, TypeOK, ReaderTypes
  <2>3. rpc'[b] \notin {"count", "push"}
    BY <1>4 DEF QueuePush, ReaderGoto, TypeOK, ReaderTypes
  <2>4. \A k \in 1 .. Len(queue') : slot_data[queue'[k].slot] = ImageOf(queue'[k])
    <3>1. slot_data[f.slot] = ImageOf(f)
      BY <2>1 DEF ImagesOK, ImageOf
    <3> HIDE DEF f
    <3>2. CASE queue' = Append(queue, f)
      BY <3>1, <3>2, AppendToQueue DEF TypeOK, ImagesOK
    <3>3. CASE queue' = queue
      BY <3>3 DEF ImagesOK
    <3> QED
      BY <1>4, <3>2, <3>3 DEF QueuePush, f
  <2> QED
    BY <2>1, <2>2, <2>3, <2>4 DEF ImagesOK
<1>5. CASE WorkerSubmit
  <2> DEFINE entry == [handle |-> next_handle, frame |-> Head(queue)]
             job == [handle |-> next_handle, slot |-> Head(queue).slot]
  <2>1. /\ UNCHANGED <<rpc, rslot, rseq, slot_data, completed, batch>> /\ kpc' = "poll"
        /\ queue # <<>> /\ queue' = Tail(queue)
        /\ in_flight' = in_flight \cup {entry} /\ running_jobs' = running_jobs \cup {job}
    BY <1>5 DEF WorkerSubmit
  <2>2. /\ \E j \in 1 .. Len(queue) : Head(queue) = queue[j]
        /\ \A k \in 1 .. Len(queue') : \E j \in 1 .. Len(queue) : queue'[k] = queue[j]
    BY <2>1, TailOfQueue DEF TypeOK
  <2>3. entry.frame = Head(queue) /\ entry.handle = next_handle /\ job.handle = next_handle
    OBVIOUS
  <2>4. /\ next_handle \in Nat /\ (\A e \in in_flight : e.handle \in Nat /\ e.handle < next_handle)
    BY DEF HandlesOK, TypeOK, WorkerTypes, Entries
  <2>5. /\ \A e \in in_flight : e.handle # next_handle
        /\ \A j \in running_jobs : j.handle # next_handle
        /\ \A d \in completed \cup batch : d.handle # next_handle
    BY <2>4 DEF HandlesOK
  <2> HIDE DEF entry, job
  <2>6. slot_data[Head(queue).slot] = ImageOf(Head(queue))
    BY <2>2 DEF ImagesOK
  <2>7. \A k \in 1 .. Len(queue') : slot_data[queue'[k].slot] = ImageOf(queue'[k])
    BY <2>2 DEF ImagesOK
  <2>8. \A e \in in_flight', j \in running_jobs' : e.handle = j.handle => slot_data[e.frame.slot] = ImageOf(e.frame)
    BY <2>1, <2>3, <2>5, <2>6 DEF ImagesOK
  <2>9. \A e \in in_flight', d \in completed \cup batch :
          (e.handle = d.handle /\ d.status = "ok") => d.image = ImageOf(e.frame)
    BY <2>1, <2>3, <2>5 DEF ImagesOK
  <2> QED
    BY <2>1, <2>7, <2>8, <2>9 DEF ImagesOK
<1>6. CASE WorkerSubmitThrows
  <2>1. /\ UNCHANGED <<rpc, rslot, rseq, slot_data, in_flight, running_jobs, completed, batch>>
        /\ queue # <<>> /\ queue' = Tail(queue) /\ khand'.status = "error"
    BY <1>6 DEF WorkerSubmitThrows
  <2>2. \A k \in 1 .. Len(queue') : \E j \in 1 .. Len(queue) : queue'[k] = queue[j]
    BY <2>1, TailOfQueue DEF TypeOK
  <2>3. \A k \in 1 .. Len(queue') : slot_data[queue'[k].slot] = ImageOf(queue'[k])
    BY <2>2 DEF ImagesOK
  <2> QED
    BY <2>1, <2>3 DEF ImagesOK
<1>7. CASE WorkerPoll
  <2>1. /\ UNCHANGED <<rpc, rslot, rseq, slot_data, queue, in_flight, running_jobs>>
        /\ batch' = completed /\ completed' = {} /\ kpc' = "retire"
    BY <1>7 DEF WorkerPoll
  <2> QED
    BY <2>1 DEF ImagesOK
<1>8. CASE WorkerRetire
  <2>0. UNCHANGED <<rpc, rslot, rseq, slot_data, queue, running_jobs, completed>>
    BY <1>8 DEF WorkerRetire
  <2>1. CASE kpc' = "take" /\ UNCHANGED <<khand, in_flight, batch>>
    BY <2>0, <2>1 DEF ImagesOK
  <2>2. ASSUME NEW d \in batch, batch' = batch \ {d}, in_flight' = in_flight \ {EntryFor(d)},
               khand' = [frame |-> EntryFor(d).frame, status |-> d.status, image |-> d.image, next |-> "retire"]
        PROVE  ImagesOK'
    <3>1. EntryFor(d) \in in_flight /\ EntryFor(d).handle = d.handle
      BY EntryFound
    <3>2. d.status = "ok" => d.image = ImageOf(EntryFor(d).frame)
      BY <3>1 DEF ImagesOK
    <3>3. khand'.status = "ok" => khand'.image = ImageOf(khand'.frame)
      BY <2>2, <3>2
    <3> QED
      BY <2>0, <2>2, <3>3 DEF ImagesOK
  <2> QED
    BY <1>8, <2>1, <2>2 DEF WorkerRetire
<1>9. CASE WorkerNothingQueued \/ WorkerExit \/ WorkerRelease \/ WorkerRespond \/ WorkerJobRetired
  <2>1. UNCHANGED <<rpc, rslot, rseq, slot_data, queue, in_flight, running_jobs, completed, batch>>
    BY <1>9 DEF WorkerNothingQueued, WorkerExit, WorkerRelease, WorkerRespond, WorkerJobRetired
  <2>2. kpc' \in {"release", "respond"} => kpc = "release" /\ khand' = khand
    BY <1>9, HandType DEF WorkerNothingQueued, WorkerExit, WorkerRelease, WorkerRespond, WorkerJobRetired, TypeOK,
       Retiring
  <2> QED
    BY <2>1, <2>2 DEF ImagesOK
<1>10. ASSUME NEW job \in running_jobs, BackendFinish(job) PROVE ImagesOK'
  <2>1. UNCHANGED <<rpc, rslot, rseq, slot_data, queue, in_flight, batch, kpc, khand>> /\ running_jobs' \subseteq running_jobs
    BY <1>10 DEF BackendFinish
  <2>2. PICK d : /\ completed' = completed \cup {d} /\ d.handle = job.handle
                 /\ d.status = "ok" => d.image = slot_data[job.slot]
    <3>1. PICK status \in {"ok", "error"} :
            completed' = completed \cup {[handle |-> job.handle, status |-> status,
                                          image |-> IF status = "ok" THEN slot_data[job.slot] ELSE None]}
      BY <1>10 DEF BackendFinish
    <3> DEFINE d == [handle |-> job.handle, status |-> status,
                     image |-> IF status = "ok" THEN slot_data[job.slot] ELSE None]
    <3>2. d.handle = job.handle /\ d.status = status /\ (status = "ok" => d.image = slot_data[job.slot])
      OBVIOUS
    <3>3. completed' = completed \cup {d}
      BY <3>1
    <3> HIDE DEF d
    <3> QED
      BY <3>2, <3>3
  <2>3. PICK entry \in in_flight : entry.handle = job.handle /\ entry.frame.slot = job.slot
    BY DEF HandlesOK
  <2>4. slot_data[job.slot] = ImageOf(entry.frame)
    BY <2>3 DEF ImagesOK
  <2>5. \A e \in in_flight : e.handle = d.handle => e = entry
    BY <2>2, <2>3 DEF HandlesOK
  <2>6. \A e \in in_flight, g \in completed' \cup batch :
          (e.handle = g.handle /\ g.status = "ok") => g.image = ImageOf(e.frame)
    BY <2>2, <2>4, <2>5 DEF ImagesOK
  <2> QED
    BY <2>1, <2>6 DEF ImagesOK
<1>11. CASE StartSucceeds
  <2>1. UNCHANGED <<rpc, queue, in_flight>> /\ kpc' = "take"
    BY <1>11 DEF StartSucceeds
  <2>2. connections = {} /\ queue = <<>> /\ in_flight = {}
    BY <1>11 DEF StartSucceeds, ControlOK
  <2>3. \A c \in Conns : rpc[c] \in Gone
    BY <2>2 DEF ControlOK
  <2> QED
    BY <2>1, <2>2, <2>3 DEF ImagesOK, Gone
<1>12. ASSUME NEW b \in Conns, (\E kind \in Kinds : ClientSend(b, kind)) \/ ClientReceive(b) \/ ClientDies(b) \/ Writer(b)
       PROVE  ImagesOK'
  BY <1>1, <1>12, ClientFrame, WriterFrame
<1>13. CASE AcceptorCheck \/ AcceptorTimeout \/ StartFails \/ StopBegin \/ Stop \/ UNCHANGED vars
  BY <1>1, <1>13, ControlFrame DEF vars
<1> QED
  BY <1>2, <1>3, <1>4, <1>5, <1>6, <1>7, <1>8, <1>9, <1>10, <1>11, <1>12, <1>13
  DEF Next, Reader, Worker, Acceptor, Terminated

(* Response r, to connection c, carries the image of its own request. *)
Honest(c, r) == (r # None /\ r.status = "ok") => r.image = <<c, r.seq>>
HonestSeq(c, w) == \A k \in 1 .. Len(w) : Honest(c, w[k])
ResponsesHonest == \A c \in Conns : Honest(c, whand[c]) /\ HonestSeq(c, outbox[c]) /\ HonestSeq(c, inbox[c])

(* That is ImagesMatchRequests, place by place. *)
LEMMA HonestIsMatch == ImagesMatchRequests <=> ResponsesHonest
  BY DEF ImagesMatchRequests, ResponsesHonest, HonestSeq, Honest

(* Sequences of honest responses stay honest when one is added ... *)
LEMMA AppendHonest ==
    ASSUME NEW c, NEW w \in Seq(Responses), NEW r \in Responses, HonestSeq(c, w), Honest(c, r)
    PROVE  HonestSeq(c, Append(w, r))
<1> DEFINE v == Append(w, r)
<1>1. Len(w) \in Nat
  BY LenProperties
<1>2. Len(v) = Len(w) + 1 /\ (\A k \in 1 .. Len(w) : v[k] = w[k]) /\ v[Len(w) + 1] = r
  BY AppendProperties
<1> HIDE DEF v
<1>3. ASSUME NEW k \in 1 .. Len(v) PROVE Honest(c, v[k])
  <2>1. CASE k \in 1 .. Len(w)
    BY <1>2, <2>1 DEF HonestSeq
  <2>2. CASE k = Len(w) + 1
    BY <1>2, <2>2
  <2> QED
    BY <1>1, <1>2, <2>1, <2>2
<1> QED
  BY <1>3 DEF HonestSeq, v

(* ... and when the front is taken, which is honest itself. *)
LEMMA TailHonest ==
    ASSUME NEW c, NEW w \in Seq(Responses), w # <<>>, HonestSeq(c, w)
    PROVE  HonestSeq(c, Tail(w)) /\ Honest(c, Head(w)) /\ Head(w) \in Responses
<1> DEFINE v == Tail(w)
<1>1. Len(w) \in Nat /\ Len(w) > 0 /\ Head(w) = w[1] /\ Head(w) \in Responses
  BY EmptySeq, LenProperties, HeadTailProperties
<1>2. Len(v) = Len(w) - 1 /\ \A k \in 1 .. (Len(w) - 1) : v[k] = w[k + 1]
  BY HeadTailProperties
<1> HIDE DEF v
<1>3. ASSUME NEW k \in 1 .. Len(v) PROVE Honest(c, v[k])
  <2>1. k + 1 \in 1 .. Len(w) /\ v[k] = w[k + 1]
    BY <1>1, <1>2
  <2> QED
    BY <2>1 DEF HonestSeq
<1>4. Honest(c, Head(w))
  BY <1>1 DEF HonestSeq
<1> QED
  BY <1>1, <1>3, <1>4 DEF HonestSeq, v

(* There are no responses yet. *)
LEMMA InitHonest == Init => ResponsesHonest
  BY EmptySeq DEF Init, ResponsesHonest, HonestSeq, Honest

(* The worker pushes the image it was given for the frame; the writer may  *)
(* turn a success into an error, never into somebody else's image.         *)
LEMMA HonestStep ==
    ASSUME TypeOK, ImagesOK, ResponsesHonest, [Next]_vars
    PROVE  ResponsesHonest'
<1> USE DEF client, reader, connection, writer, pool, jobs, worker, backend, control
<1>1. CASE UNCHANGED <<outbox, inbox, whand>>
  BY <1>1 DEF ResponsesHonest
<1>t. \A c \in Conns : outbox[c] \in Seq(Responses) /\ inbox[c] \in Seq(Responses)
  BY DEF TypeOK, ConnectionTypes, ClientTypes
<1>p. ASSUME NEW b \in Conns, NEW r \in Responses, Honest(b, r), OutboxPush(b, r), UNCHANGED <<inbox, whand>>
      PROVE  ResponsesHonest'
  <2>1. CASE outbox' = outbox
    BY <1>1, <1>p, <2>1
  <2>2. CASE outbox' = [outbox EXCEPT ![b] = Append(@, r)]
    <3>1. HonestSeq(b, Append(outbox[b], r))
      BY <1>t, <1>p, AppendHonest DEF ResponsesHonest
    <3>2. outbox'[b] = Append(outbox[b], r) /\ \A c \in Conns : c # b => outbox'[c] = outbox[c]
      BY <2>2 DEF TypeOK, ConnectionTypes
    <3>3. \A c \in Conns : HonestSeq(c, outbox'[c])
      BY <3>1, <3>2 DEF ResponsesHonest
    <3> QED
      BY <1>p, <3>3 DEF ResponsesHonest
  <2> QED
    BY <1>p, <2>1, <2>2 DEF OutboxPush
<1>2. ASSUME NEW b \in Conns, ReadFrame(b) PROVE ResponsesHonest'
  <2> DEFINE r == [seq |-> Head(wire[b]).seq, status |-> "error", image |-> None]
  <2>1. Head(wire[b]) \in WireFrames
    BY <1>2, HeadTailProperties DEF ReadFrame, TypeOK, ClientTypes
  <2>2. r \in Responses /\ Honest(b, r)
    BY <2>1 DEF WireFrames, Responses, Statuses, Images, Honest
  <2> HIDE DEF r
  <2>3. UNCHANGED <<inbox, whand>> /\ (UNCHANGED outbox \/ OutboxPush(b, r))
    BY <1>2 DEF ReadFrame, r
  <2> QED
    BY <1>1, <1>p, <2>2, <2>3
<1>3. CASE WorkerRespond
  <2> DEFINE r == [seq |-> khand.frame.seq, status |-> khand.status, image |-> khand.image]
  <2>1. kpc = "respond" /\ khand \in Retirements
    BY <1>3 DEF WorkerRespond, TypeOK, WorkerTypes, Retiring
  <2>2. PICK b \in Conns : b = khand.frame.conn
    BY <2>1 DEF Retirements, Frames
  <2>3. r \in Responses /\ Honest(b, r)
    BY <2>1, <2>2 DEF Retirements, Frames, Responses, Honest, ImagesOK, ImageOf
  <2> HIDE DEF r
  <2>4. UNCHANGED <<inbox, whand>> /\ OutboxPush(b, r)
    BY <1>3, <2>2 DEF WorkerRespond, r
  <2> QED
    BY <1>p, <2>3, <2>4
<1>4. ASSUME NEW b \in Conns, WriterPop(b) PROVE ResponsesHonest'
  <2>1. CASE UNCHANGED <<outbox, whand>>
    BY <1>1, <1>4, <2>1 DEF WriterPop
  <2>2. ASSUME outbox[b] # <<>>, outbox' = [outbox EXCEPT ![b] = Tail(@)],
               NEW status \in {Head(outbox[b]).status, "error"},
               whand' = [whand EXCEPT ![b] = [Head(outbox[b]) EXCEPT !.status = status]]
        PROVE  ResponsesHonest'
    <3>1. HonestSeq(b, Tail(outbox[b])) /\ Honest(b, Head(outbox[b])) /\ Head(outbox[b]) \in Responses
      BY <1>t, <2>2, TailHonest DEF ResponsesHonest
    <3>2. /\ outbox'[b] = Tail(outbox[b]) /\ whand'[b] = [Head(outbox[b]) EXCEPT !.status = status]
          /\ \A c \in Conns : c # b => outbox'[c] = outbox[c] /\ whand'[c] = whand[c]
      BY <2>2 DEF TypeOK, ConnectionTypes
    <3>3. Honest(b, whand'[b])
      <4> DEFINE h == Head(outbox[b])
                 g == [h EXCEPT !.status = status]
      <4>1. g.seq = h.seq /\ g.image = h.image /\ g.status = status
        BY <3>1 DEF Responses
      <4>2. CASE status = h.status
        <5>1. g = h
          BY <3>1, <4>2 DEF Responses
        <5> QED
          BY <3>1, <3>2, <5>1
      <4>3. CASE status = "error"
        BY <3>2, <4>1, <4>3 DEF Honest
      <4> QED
        BY <2>2, <4>2, <4>3
    <3>4. inbox' = inbox
      BY <1>4 DEF WriterPop
    <3> QED
      BY <3>1, <3>2, <3>3, <3>4 DEF ResponsesHonest
  <2> QED
    BY <1>4, <2>1, <2>2 DEF WriterPop
<1>5. ASSUME NEW b \in Conns, WriterWrite(b) PROVE ResponsesHonest'
  <2>1. outbox' = outbox /\ whand' = [whand EXCEPT ![b] = None] /\ wpc[b] = "write"
    BY <1>5 DEF WriterWrite
  <2>2. \A c \in Conns : Honest(c, whand'[c])
    BY <2>1 DEF ResponsesHonest, Honest, TypeOK, ConnectionTypes
  <2>3. CASE inbox' = inbox
    BY <2>1, <2>2, <2>3 DEF ResponsesHonest
  <2>4. CASE inbox' = [inbox EXCEPT ![b] = Append(@, whand[b])]
    <3>1. whand[b] \in Responses
      BY <2>1 DEF TypeOK, ConnectionTypes
    <3>2. HonestSeq(b, Append(inbox[b], whand[b]))
      BY <1>t, <3>1, AppendHonest DEF ResponsesHonest
    <3>3. inbox'[b] = Append(inbox[b], whand[b]) /\ \A c \in Conns : c # b => inbox'[c] = inbox[c]
      BY <2>4 DEF TypeOK, ClientTypes
    <3>4. \A c \in Conns : HonestSeq(c, inbox'[c])
      BY <3>2, <3>3 DEF ResponsesHonest
    <3> QED
      BY <2>1, <2>2, <3>4 DEF ResponsesHonest
  <2> QED
    BY <1>5, <2>3, <2>4 DEF WriterWrite
<1>6. ASSUME NEW b \in Conns, ClientReceive(b) PROVE ResponsesHonest'
  <2>1. UNCHANGED <<outbox, whand>> /\ inbox[b] # <<>> /\ inbox' = [inbox EXCEPT ![b] = Tail(@)]
    BY <1>6 DEF ClientReceive
  <2>2. HonestSeq(b, Tail(inbox[b]))
    BY <1>t, <2>1, TailHonest DEF ResponsesHonest
  <2>3. inbox'[b] = Tail(inbox[b]) /\ \A c \in Conns : c # b => inbox'[c] = inbox[c]
    BY <2>1 DEF TypeOK, ClientTypes
  <2>4. \A c \in Conns : HonestSeq(c, inbox'[c])
    BY <2>2, <2>3 DEF ResponsesHonest
  <2> QED
    BY <2>1, <2>4 DEF ResponsesHonest
<1>7. ASSUME NEW b \in Conns, (\E kind \in Kinds : ClientSend(b, kind)) \/ ClientDies(b) \/ ReadFails(b) \/ Drain(b)
             \/ ClaimSlot(b) \/ ReadPayload(b) \/ ReaderRelease(b) \/ CountJob(b) \/ QueuePush(b) \/ UncountJob(b)
             \/ FinishReader(b) \/ JoinWriter(b) \/ AcceptorAccept(b)
      PROVE  ResponsesHonest'
  BY <1>1, <1>7 DEF ClientSend, ClientDies, ReadFails, Drain, ClaimSlot, ReadPayload, ReaderRelease, CountJob,
     job_submitted, QueuePush, UncountJob, job_retired, FinishReader, reader_finished, JoinWriter, AcceptorAccept
<1>8. CASE WorkerSubmit \/ WorkerSubmitThrows \/ WorkerNothingQueued \/ WorkerExit \/ WorkerPoll \/ WorkerRetire
           \/ WorkerRelease \/ WorkerJobRetired
  BY <1>1, <1>8 DEF WorkerSubmit, WorkerSubmitThrows, WorkerNothingQueued, WorkerExit, WorkerPoll, WorkerRetire,
     WorkerRelease, WorkerJobRetired, job_retired
<1>9. CASE AcceptorCheck \/ AcceptorTimeout \/ StartFails \/ StopBegin \/ Stop
           \/ (\E job \in running_jobs : BackendFinish(job)) \/ StartSucceeds \/ UNCHANGED vars
  BY <1>1, <1>9, ControlFrame, BackendFrame DEF StartSucceeds, vars
<1> QED
  BY <1>2, <1>3, <1>4, <1>5, <1>6, <1>7, <1>8, <1>9 DEF Next, Reader, Writer, Worker, Acceptor, Terminated

----------------------------------------------------------------------------
(* The end of stop()                                                       *)

(* Once the connections are joined no thread of theirs is alive; once the  *)
(* worker is joined too every slot is back.                                *)
LEMMA StoppedIsEmpty == TypeOK /\ ControlOK /\ SlotCounts => StopLeavesNothing
<1> SUFFICES ASSUME TypeOK, ControlOK, SlotCounts PROVE StopLeavesNothing
  OBVIOUS
<1>1. ASSUME spc \in {"close_queue", "join_worker", "stopped"}
      PROVE  \A c \in Conns : rpc[c] \in {"absent", "exited"} /\ wpc[c] \in {"absent", "exited"}
  BY <1>1 DEF ControlOK, Gone
<1>2. ASSUME spc = "stopped", NEW i \in Slots
      PROVE  slot_owner[i] = None /\ queue = <<>> /\ in_flight = {}
  <2>1. queue = <<>> /\ in_flight = {} /\ kpc = "exited" /\ connections = {}
    BY <1>2 DEF ControlOK
  <2>2. \A c \in Conns : rslot[c] = None
    BY <2>1 DEF ControlOK, Gone, TypeOK, ReaderTypes, Holding
  <2>3. ReadersOf(i) = {} /\ Queued(FramesIn(i)) = {} /\ Flying(FramesIn(i)) = {}
    BY <2>1, <2>2, ServerAssumption DEF ReadersOf, Queued, Flying
  <2>4. Cardinality(ReadersOf(i)) = 0 /\ Travelling(FramesIn(i)) = 0 /\ HandHolds(i) = 0
    BY <2>1, <2>3, FS_EmptySet DEF Travelling, HandHolds
  <2>5. Holders(i) = 0
    BY <2>4, HoldersAreTokens DEF HoldersSplit, TypeOK
  <2> QED
    BY <2>1, <2>5 DEF SlotCounts
<1>3. spc = "stopped" => queue = <<>> /\ in_flight = {}
  BY DEF ControlOK
<1> QED
  BY <1>1, <1>2, <1>3 DEF StopLeavesNothing

(* With one start() the worker cannot be gone while a connection is there. *)
LEMMA BackendIsThere == MaxStarts <= 1 /\ ControlOK /\ SingleStart => StorageOutlivesReaders
  BY DEF StorageOutlivesReaders, ControlOK, SingleStart, Gone

----------------------------------------------------------------------------
(* The invariant                                                           *)

IInv ==
    /\ TypeOK /\ HandlesOK
    /\ ControlOK /\ SingleStart
    /\ OutstandingExact /\ ClosedOutbox
    /\ SlotCounts /\ SlotOwners
    /\ WireInOrder /\ AnswersOK /\ DroppedOK /\ ShutFirst
    /\ ImagesOK /\ ResponsesHonest

(* The invariant holds of a new server ... *)
LEMMA InitInv == Init => IInv
  BY InitTypes, InitHandles, InitControl, InitOutstanding, InitSlots, InitAnswers, InitImages, InitHonest DEF IInv

(* ... and every step of every thread keeps it. *)
LEMMA StepInv == IInv /\ [Next]_vars => IInv'
<1> SUFFICES ASSUME IInv, [Next]_vars PROVE IInv'
  OBVIOUS
<1>1. /\ TypeOK /\ HandlesOK /\ ControlOK /\ SingleStart /\ OutstandingExact /\ ClosedOutbox /\ SlotCounts /\ SlotOwners
      /\ WireInOrder /\ AnswersOK /\ DroppedOK /\ ShutFirst /\ ImagesOK /\ ResponsesHonest
  BY DEF IInv
<1>2. TypeOK'
  BY <1>1, ClientTypesStep, ReaderTypesStep, ConnectionTypesStep, PoolTypesStep, WorkerTypesStep DEF TypeOK
<1>3. HandlesOK'
  BY <1>1, HandlesStep
<1>4. ControlOK' /\ SingleStart'
  BY <1>1, ControlStep
<1>5. OutstandingExact'
  BY <1>1, <1>2, OutstandingStep
<1>6. ClosedOutbox'
  BY <1>1, ClosedOutboxStep
<1>7. SlotCounts'
  BY <1>1, <1>2, SlotCountStep
<1>8. SlotOwners'
  BY <1>1, <1>2, <1>7, SlotOwnersStep
<1>9. WireInOrder'
  BY <1>1, WireStep
<1>10. AnswersOK'
  <2>1. NoResponseDropped
    BY <1>1, ClosedOutboxOwedNothing
  <2> QED
    BY <1>1, <1>2, <2>1, AnswersStep
<1>13. DroppedOK' /\ ShutFirst'
  BY <1>1, DroppedStep
<1>11. ImagesOK'
  BY <1>1, ImagesStep
<1>12. ResponsesHonest'
  BY <1>1, HonestStep
<1> QED
  BY <1>2, <1>3, <1>4, <1>5, <1>6, <1>7, <1>8, <1>9, <1>10, <1>11, <1>12, <1>13 DEF IInv

(* So it holds always. *)
LEMMA Invariance == Spec => []IInv
  BY InitInv, StepInv, PTL DEF Spec

(* SlotPool's promise in the server: a claimed slot is in exactly one pair *)
(* of hands, working for the connection that claimed it.                   *)
THEOREM NoSlotLeaks == Spec => []SlotsConserved
<1>1. IInv => SlotsConserved
  BY SlotsConservedSplit DEF IInv
<1> QED
  BY <1>1, Invariance, PTL

(* Connection::outstanding is what the server owes the connection. *)
THEOREM CountsWhatItOwes == Spec => []OutstandingExact
<1>1. IInv => OutstandingExact
  BY DEF IInv
<1> QED
  BY <1>1, Invariance, PTL

(* close_outbox_if_done never closes an outbox on a response to come. *)
THEOREM NeverDropsAResponse == Spec => []NoResponseDropped
<1>1. IInv => NoResponseDropped
  BY ClosedOutboxOwedNothing DEF IInv
<1> QED
  BY <1>1, Invariance, PTL

(* Every frame a reader has read is answered once, by the reader's error   *)
(* response, by the worker's retire() or by submit()'s catch block, or is  *)
(* on its way there.  The one exception is the frame in whose middle the   *)
(* reader gave up, before the queue had it, its socket broken or the queue *)
(* closed.                                                                 *)
THEOREM AnswersEveryFrameOnce == Spec => []EveryFrameAnsweredOnce
<1>1. IInv => EveryFrameAnsweredOnce
  BY AnsweredOnce DEF IInv
<1> QED
  BY <1>1, Invariance, PTL

(* An ok response carries the image of its own request, in whatever order  *)
(* the backend completes jobs and the pool lends slots again.              *)
THEOREM AnswersWithItsOwnImage == Spec => []ImagesMatchRequests
<1>1. IInv => ImagesMatchRequests
  BY HonestIsMatch DEF IInv
<1> QED
  BY <1>1, Invariance, PTL

(* stop() leaves no thread, no queued frame and no claimed slot behind. *)
THEOREM StopCleansUp == Spec => []StopLeavesNothing
<1>1. IInv => StopLeavesNothing
  BY StoppedIsEmpty DEF IInv
<1> QED
  BY <1>1, Invariance, PTL

(* Invariant 2 of the server, for a Server that is started once, which is  *)
(* what every caller in the repository does: no reader receives into the   *)
(* storage of a backend that is gone.                                      *)
THEOREM StorageIsThere == ASSUME MaxStarts <= 1 PROVE Spec => []StorageOutlivesReaders
<1>1. IInv => StorageOutlivesReaders
  BY BackendIsThere DEF IInv
<1> QED
  BY <1>1, Invariance, PTL
=============================================================================
