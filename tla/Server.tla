------------------------------- MODULE Server -------------------------------
(***************************************************************************)
(* The threads of src/net/server.cpp and what they share: the acceptor,    *)
(* one reader and one writer per connection, the worker that owns the      *)
(* backend, and the thread that calls start() and stop().                  *)
(*                                                                         *)
(* A step is one blocking call or one critical section.  SlotPool and      *)
(* BoundedQueue have modules of their own, which show that a waiter whose  *)
(* predicate holds is woken; here a blocked call is a disabled action.     *)
(* The pool is a table of owners: which free slot claim() picks is open.   *)
(*                                                                         *)
(* A frame is its connection and its sequence number.  What matters of its *)
(* bytes is its kind: "good", "drain" (an error after which the rest of    *)
(* the frame is skipped) or "close" (an error that ends the connection).   *)
(* Statistics counters, file output and the wire format are left out.      *)
(***************************************************************************)
EXTENDS Integers, Sequences, FiniteSets

CONSTANTS
    Conns,          \* clients, each of which connects at most once
    Slots,          \* config.num_slots slots
    SlotsPerConnection, \* config.slots_per_connection (normalised: not 0)
    QueueCapacity,  \* config.queue_capacity (normalised: not 0)
    Kinds,          \* kinds of frames the clients send
    MaxFrames,      \* bound: frames per client
    RecvBuffer,     \* frames the socket buffers from client to server hold
    SendBuffer,     \* responses the socket buffers from server to client hold
    MaxStarts,      \* bound: calls of start()
    ClientsMayDie,  \* whether clients may vanish
    MayStop,        \* whether stop() is ever called
    None

ASSUME ServerAssumption ==
    /\ SlotsPerConnection \in Nat \ {0}
    /\ QueueCapacity \in Nat \ {0}
    /\ RecvBuffer \in Nat \ {0}
    /\ SendBuffer \in Nat \ {0}
    /\ MaxFrames \in Nat
    /\ MaxStarts \in Nat
    /\ Kinds \subseteq {"good", "drain", "close"}
    /\ ClientsMayDie \in BOOLEAN
    /\ MayStop \in BOOLEAN
    /\ IsFiniteSet(Slots) /\ Slots # {}
    /\ IsFiniteSet(Conns)
    /\ None \notin Conns \cup Slots

VARIABLES
    \* the clients and the network
    sent,           \* frames the client has sent
    wire,           \* sent, not yet read by the server: sequence of [seq, kind]
    peer,           \* "up" or "gone"
    inbox,          \* responses in the socket buffers towards the client
    got,            \* number of responses the client has read
    \* per connection: reader thread
    rpc, rseq, rslot,
    dropped,        \* history: the frame the reader gave up before the queue had it, or 0
    sock,           \* "open" or "shut" (shutdown_both)
    \* per connection: Connection and its Outbox
    outbox, outbox_closed, outstanding, reader_done,
    pushed,         \* history: responses ever pushed for each sequence number
    \* per connection: writer thread
    wpc, whand, socket_alive,
    \* shared by all connections
    slot_owner, slot_data, slots_closed,
    queue, queue_closed,
    \* worker thread and the backend it owns
    kpc, khand, in_flight, next_handle, batch,
    backend_up, running_jobs, completed,
    \* acceptor thread, and the thread in start() / stop()
    apc, connections, spc, starts

client == <<sent, wire, peer, inbox, got>>
reader == <<rpc, rseq, rslot, dropped>>
connection == <<outbox, outbox_closed, outstanding, reader_done, pushed>>
writer == <<wpc, whand, socket_alive>>
pool == <<slot_owner, slots_closed>>
jobs == <<queue, queue_closed>>
worker == <<kpc, khand, in_flight, next_handle, batch>>
backend == <<backend_up, running_jobs, completed>>
control == <<apc, connections, spc, starts>>

vars == <<client, reader, sock, connection, writer, pool, slot_data, jobs, worker, backend, control>>

Seqs == 1 .. MaxFrames

(* running.load() *)
running == spc = "running"

Init ==
    /\ sent = [c \in Conns |-> 0]
    /\ wire = [c \in Conns |-> <<>>]
    /\ peer = [c \in Conns |-> "up"]
    /\ inbox = [c \in Conns |-> <<>>]
    /\ got = [c \in Conns |-> 0]
    /\ rpc = [c \in Conns |-> "absent"]
    /\ rseq = [c \in Conns |-> 0]
    /\ rslot = [c \in Conns |-> None]
    /\ dropped = [c \in Conns |-> 0]
    /\ sock = [c \in Conns |-> "open"]
    /\ outbox = [c \in Conns |-> <<>>]
    /\ outbox_closed = [c \in Conns |-> FALSE]
    /\ outstanding = [c \in Conns |-> 0]
    /\ reader_done = [c \in Conns |-> FALSE]
    /\ pushed = [c \in Conns |-> [n \in Seqs |-> 0]]
    /\ wpc = [c \in Conns |-> "absent"]
    /\ whand = [c \in Conns |-> None]
    /\ socket_alive = [c \in Conns |-> TRUE]
    /\ slot_owner = [i \in Slots |-> None]
    /\ slot_data = [i \in Slots |-> None]
    /\ slots_closed = FALSE
    /\ queue = <<>>
    /\ queue_closed = FALSE
    /\ kpc = "none"
    /\ khand = None
    /\ in_flight = {}
    /\ next_handle = 1
    /\ batch = {}
    /\ backend_up = FALSE
    /\ running_jobs = {}
    /\ completed = {}
    /\ apc = "none"
    /\ connections = {}
    /\ spc = "down"
    /\ starts = 0

----------------------------------------------------------------------------
(* The clients and the network                                             *)

(* TCP flow control: a client whose frames nobody reads cannot send more. *)
ClientSend(c, kind) ==
    /\ peer[c] = "up" /\ sock[c] = "open"
    /\ sent[c] < MaxFrames /\ Len(wire[c]) < RecvBuffer
    /\ sent' = [sent EXCEPT ![c] = @ + 1]
    /\ wire' = [wire EXCEPT ![c] = Append(@, [seq |-> sent'[c], kind |-> kind])]
    /\ UNCHANGED <<peer, inbox, got, reader, sock, connection, writer, pool, slot_data, jobs, worker, backend, control>>

ClientReceive(c) ==
    /\ peer[c] = "up" /\ inbox[c] # <<>>
    /\ inbox' = [inbox EXCEPT ![c] = Tail(@)]
    /\ got' = [got EXCEPT ![c] = @ + 1]
    /\ UNCHANGED <<sent, wire, peer, reader, sock, connection, writer, pool, slot_data, jobs, worker, backend, control>>

ClientDies(c) ==
    /\ ClientsMayDie
    /\ peer[c] = "up"
    /\ peer' = [peer EXCEPT ![c] = "gone"]
    /\ UNCHANGED <<sent, wire, inbox, got, reader, sock, connection, writer, pool, slot_data, jobs, worker, backend, control>>

(* A read or write on this connection may fail.  Bytes that had arrived    *)
(* before may still be read, so it does not have to.                       *)
Broken(c) == sock[c] = "shut" \/ peer[c] = "gone"

----------------------------------------------------------------------------
(* class Outbox and struct Connection                                      *)

(* Outbox::push drops the response once the outbox is closed. *)
OutboxPush(c, response) ==
    /\ outbox' = IF outbox_closed[c] THEN outbox ELSE [outbox EXCEPT ![c] = Append(@, response)]
    /\ pushed' = IF outbox_closed[c] THEN pushed ELSE [pushed EXCEPT ![c][response.seq] = @ + 1]

(* close_outbox_if_done, with the values outstanding and reader_done have  *)
(* after the assignment before it                                          *)
close_outbox_if_done_eager(c) ==
    outbox_closed' = [outbox_closed EXCEPT ![c] = @ \/ reader_done'[c]]

close_outbox_if_done(c) ==
    outbox_closed' = [outbox_closed EXCEPT ![c] = @ \/ (reader_done'[c] /\ outstanding'[c] = 0)]

job_submitted(c) ==
    /\ outstanding' = [outstanding EXCEPT ![c] = @ + 1]
    /\ UNCHANGED <<outbox, outbox_closed, reader_done, pushed>>

job_retired(c) ==
    /\ outstanding' = [outstanding EXCEPT ![c] = @ - 1]
    /\ UNCHANGED reader_done
    /\ close_outbox_if_done(c)
    /\ UNCHANGED <<outbox, pushed>>

reader_finished(c) ==
    /\ reader_done' = [reader_done EXCEPT ![c] = TRUE]
    /\ UNCHANGED outstanding
    /\ close_outbox_if_done(c)
    /\ UNCHANGED <<outbox, pushed>>

----------------------------------------------------------------------------
(* The slot pool, as claim() and release() leave it                        *)

Held(c) == Cardinality({i \in Slots : slot_owner[i] = c})

Unwritten(c) == Len(outbox[c]) + (IF wpc[c] = "write" THEN 1 ELSE 0)

can_claim_until_written(c) ==
    /\ \E i \in Slots : slot_owner[i] = None
    /\ Held(c) + Unwritten(c) < SlotsPerConnection

can_claim(c) ==
    /\ \E i \in Slots : slot_owner[i] = None
    /\ Held(c) < SlotsPerConnection

release(i) ==
    /\ slot_owner' = [slot_owner EXCEPT ![i] = None]
    /\ UNCHANGED slots_closed

----------------------------------------------------------------------------
(* reader_loop and connection_main, one connection                         *)

ReaderGoto(c, where) == rpc' = [rpc EXCEPT ![c] = where]

(* The reader leaves the loop with the frame it has begun. *)
GiveUp(c) == dropped' = [dropped EXCEPT ![c] = rseq[c]]

(* The header, the validation and the chain: up to the point where the     *)
(* frame is either answered with an error or in want of a slot.            *)
ReadFrame(c) ==
    LET frame == Head(wire[c])
    IN  /\ rpc[c] = "recv" /\ wire[c] # <<>>
        /\ wire' = [wire EXCEPT ![c] = Tail(@)]
        /\ rseq' = [rseq EXCEPT ![c] = frame.seq]
        /\ \/ /\ frame.kind = "good"
              /\ ReaderGoto(c, "claim")
              /\ UNCHANGED connection
           \/ /\ frame.kind # "good"
              /\ OutboxPush(c, [seq |-> frame.seq, status |-> "error", image |-> None])
              /\ ReaderGoto(c, IF frame.kind = "close" THEN "finish" ELSE "drain")
              /\ UNCHANGED <<outbox_closed, outstanding, reader_done>>
        /\ UNCHANGED <<sent, peer, inbox, got, rslot, dropped, sock, writer, pool, slot_data, jobs, worker, backend, control>>

(* read_exact or drain_exactly fails: the client went away or stop() shut  *)
(* the socket down, between frames or in the middle of one.                *)
ReadFails(c) ==
    /\ rpc[c] \in {"recv", "drain"} /\ Broken(c)
    /\ ReaderGoto(c, "finish")
    /\ UNCHANGED <<client, rseq, rslot, dropped, sock, connection, writer, pool, slot_data, jobs, worker, backend, control>>

Drain(c) ==
    /\ rpc[c] = "drain"
    /\ ReaderGoto(c, "recv")
    /\ UNCHANGED <<client, rseq, rslot, dropped, sock, connection, writer, pool, slot_data, jobs, worker, backend, control>>

(* slots->claim(connection->id): blocks until a slot or the closed pool *)
ClaimSlot(c) ==
    /\ rpc[c] = "claim"
    /\ \/ /\ slots_closed
          /\ GiveUp(c)
          /\ ReaderGoto(c, "finish")
          /\ UNCHANGED <<rslot, slot_owner>>
       \/ /\ ~slots_closed /\ can_claim(c)
          /\ \E i \in Slots : /\ slot_owner[i] = None
                              /\ slot_owner' = [slot_owner EXCEPT ![i] = c]
                              /\ rslot' = [rslot EXCEPT ![c] = i]
          /\ ReaderGoto(c, "payload")
          /\ UNCHANGED dropped
    /\ UNCHANGED <<client, rseq, sock, connection, writer, slots_closed, slot_data, jobs, worker, backend, control>>

(* read_exact straight into the slot *)
ReadPayload(c) ==
    /\ rpc[c] = "payload"
    /\ \/ /\ slot_data' = [slot_data EXCEPT ![rslot[c]] = <<c, rseq[c]>>]
          /\ ReaderGoto(c, "count")
          /\ UNCHANGED dropped
       \/ /\ Broken(c)
          /\ GiveUp(c)
          /\ slot_data' = [slot_data EXCEPT ![rslot[c]] = None]
          /\ ReaderGoto(c, "release")
    /\ UNCHANGED <<client, rseq, rslot, sock, connection, writer, pool, jobs, worker, backend, control>>

(* The slot of a frame that will not be queued *)
ReaderRelease_missing(c) ==
    /\ rpc[c] = "release"
    /\ rslot' = [rslot EXCEPT ![c] = None]
    /\ ReaderGoto(c, "finish")
    /\ UNCHANGED <<client, rseq, dropped, sock, connection, writer, pool, slot_data, jobs, worker, backend, control>>

ReaderRelease(c) ==
    /\ rpc[c] = "release"
    /\ release(rslot[c])
    /\ rslot' = [rslot EXCEPT ![c] = None]
    /\ ReaderGoto(c, "finish")
    /\ UNCHANGED <<client, rseq, dropped, sock, connection, writer, slot_data, jobs, worker, backend, control>>

CountJob(c) ==
    /\ rpc[c] = "count"
    /\ job_submitted(c)
    /\ ReaderGoto(c, "push")
    /\ UNCHANGED <<client, rseq, rslot, dropped, sock, writer, pool, slot_data, jobs, worker, backend, control>>

(* queue.push: blocks until there is room; refused once the queue closed *)
QueuePush(c) ==
    /\ rpc[c] = "push"
    /\ \/ /\ ~queue_closed /\ Len(queue) < QueueCapacity
          /\ queue' = Append(queue, [conn |-> c, seq |-> rseq[c], slot |-> rslot[c]])
          /\ rslot' = [rslot EXCEPT ![c] = None]
          /\ ReaderGoto(c, "recv")
          /\ UNCHANGED dropped
       \/ /\ queue_closed
          /\ GiveUp(c)
          /\ ReaderGoto(c, "uncount")
          /\ UNCHANGED <<queue, rslot>>
    /\ UNCHANGED <<client, rseq, sock, connection, writer, pool, slot_data, queue_closed, worker, backend, control>>

UncountJob(c) ==
    /\ rpc[c] = "uncount"
    /\ job_retired(c)
    /\ ReaderGoto(c, "release")
    /\ UNCHANGED <<client, rseq, rslot, dropped, sock, writer, pool, slot_data, jobs, worker, backend, control>>

FinishReader(c) ==
    /\ rpc[c] = "finish"
    /\ reader_finished(c)
    /\ ReaderGoto(c, "join")
    /\ UNCHANGED <<client, rseq, rslot, dropped, sock, writer, pool, slot_data, jobs, worker, backend, control>>

(* writer.join(), shutdown_both(), finished = true *)
JoinWriter(c) ==
    /\ rpc[c] = "join" /\ wpc[c] = "exited"
    /\ sock' = [sock EXCEPT ![c] = "shut"]
    /\ ReaderGoto(c, "exited")
    /\ UNCHANGED <<client, rseq, rslot, dropped, connection, writer, pool, slot_data, jobs, worker, backend, control>>

Reader(c) ==
    \/ ReadFrame(c) \/ ReadFails(c) \/ Drain(c) \/ ClaimSlot(c) \/ ReadPayload(c) \/ ReaderRelease(c)
    \/ CountJob(c) \/ QueuePush(c) \/ UncountJob(c) \/ FinishReader(c) \/ JoinWriter(c)

----------------------------------------------------------------------------
(* writer_loop, one connection                                             *)

(* outbox.pop: blocks until a response or the closed and drained outbox.   *)
(* If the client asked for a file and save_png throws, an ok response      *)
(* turns into an error.                                                    *)
WriterPop(c) ==
    /\ wpc[c] = "pop"
    /\ \/ /\ outbox[c] # <<>>
          /\ outbox' = [outbox EXCEPT ![c] = Tail(@)]
          /\ \E status \in {Head(outbox[c]).status, "error"} :
                whand' = [whand EXCEPT ![c] = [Head(outbox[c]) EXCEPT !.status = status]]
          /\ wpc' = [wpc EXCEPT ![c] = "write"]
       \/ /\ outbox[c] = <<>> /\ outbox_closed[c]
          /\ wpc' = [wpc EXCEPT ![c] = "exited"]
          /\ UNCHANGED <<outbox, whand>>
    /\ UNCHANGED <<client, reader, sock, outbox_closed, outstanding, reader_done, pushed, socket_alive,
                   pool, slot_data, jobs, worker, backend, control>>

(* A dead socket is drained without writing; a failed write kills it. *)
WriterWrite(c) ==
    /\ wpc[c] = "write"
    /\ \/ /\ ~socket_alive[c]
          /\ UNCHANGED <<inbox, sock, socket_alive>>
       \/ /\ socket_alive[c] /\ ~Broken(c) /\ Len(inbox[c]) < SendBuffer
          /\ inbox' = [inbox EXCEPT ![c] = Append(@, whand[c])]
          /\ UNCHANGED <<sock, socket_alive>>
       \/ /\ socket_alive[c] /\ sock[c] = "open" /\ peer[c] = "gone"    \* buffered by the kernel, never read
          /\ UNCHANGED <<inbox, sock, socket_alive>>
       \/ /\ socket_alive[c] /\ Broken(c)
          /\ socket_alive' = [socket_alive EXCEPT ![c] = FALSE]
          /\ sock' = [sock EXCEPT ![c] = "shut"]
          /\ UNCHANGED inbox
    /\ wpc' = [wpc EXCEPT ![c] = "pop"]
    /\ whand' = [whand EXCEPT ![c] = None]
    /\ UNCHANGED <<sent, wire, peer, got, reader, connection, pool, slot_data, jobs, worker, backend, control>>

Writer(c) == WriterPop(c) \/ WriterWrite(c)

----------------------------------------------------------------------------
(* The backend: any implementation of the IBackend contract (external to   *)
(* this module).  A job reads its slot until it completes, in any order.   *)

BackendFinish(job) ==
    /\ running_jobs' = running_jobs \ {job}
    /\ \E status \in {"ok", "error"} :
          completed' = completed \cup {[handle |-> job.handle, status |-> status,
                                        image |-> IF status = "ok" THEN slot_data[job.slot] ELSE None]}
    /\ UNCHANGED <<client, reader, sock, connection, writer, pool, slot_data, jobs, worker, backend_up, control>>

----------------------------------------------------------------------------
(* worker_main and worker_loop                                             *)

(* pop (when nothing is in flight: it may block) or try_pop, then submit(). *)
WorkerSubmit ==
    /\ kpc = "take" /\ queue # <<>>
    /\ LET frame == Head(queue)
       IN  /\ in_flight' = in_flight \cup {[handle |-> next_handle, frame |-> frame]}
           /\ running_jobs' = running_jobs \cup {[handle |-> next_handle, slot |-> frame.slot]}
    /\ queue' = Tail(queue)
    /\ next_handle' = next_handle + 1
    /\ kpc' = "poll"
    /\ UNCHANGED <<client, reader, sock, connection, writer, pool, slot_data, queue_closed, khand, batch,
                   backend_up, completed, control>>

(* backend->submit throws: the frame is answered at once. *)
WorkerSubmitThrows ==
    /\ kpc = "take" /\ queue # <<>>
    /\ queue' = Tail(queue)
    /\ khand' = [frame |-> Head(queue), status |-> "error", image |-> None, next |-> "poll"]
    /\ kpc' = "release"
    /\ UNCHANGED <<client, reader, sock, connection, writer, pool, slot_data, queue_closed, in_flight,
                   next_handle, batch, backend, control>>

(* try_pop found nothing and there are jobs to poll for. *)
WorkerNothingQueued ==
    /\ kpc = "take" /\ queue = <<>> /\ in_flight # {}
    /\ kpc' = "poll"
    /\ UNCHANGED <<client, reader, sock, connection, writer, pool, slot_data, jobs, khand, in_flight,
                   next_handle, batch, backend, control>>

(* The queue is closed and drained: worker_main ends and takes the backend *)
(* and its slot storage with it.                                           *)
WorkerExit ==
    /\ kpc = "take" /\ queue = <<>> /\ in_flight = {} /\ queue_closed
    /\ kpc' = "exited"
    /\ backend_up' = FALSE
    /\ UNCHANGED <<client, reader, sock, connection, writer, pool, slot_data, jobs, khand, in_flight,
                   next_handle, batch, running_jobs, completed, control>>

WorkerPoll ==
    /\ kpc = "poll"
    /\ batch' = completed
    /\ completed' = {}
    /\ kpc' = "retire"
    /\ UNCHANGED <<client, reader, sock, connection, writer, pool, slot_data, jobs, khand, in_flight,
                   next_handle, backend_up, running_jobs, control>>

(* retire(): look the handle up, forget the entry, keep it in hand.  The   *)
(* backend completes only jobs it was given, so the lookup succeeds.       *)
EntryFor_first(completion) == CHOOSE entry \in in_flight : \A other \in in_flight : entry.handle <= other.handle

EntryFor(completion) == CHOOSE entry \in in_flight : entry.handle = completion.handle

WorkerRetire ==
    /\ kpc = "retire"
    /\ \/ /\ batch = {}
          /\ kpc' = "take"
          /\ UNCHANGED <<khand, in_flight, batch>>
       \/ \E completion \in batch :
             /\ batch' = batch \ {completion}
             /\ in_flight' = in_flight \ {EntryFor(completion)}
             /\ khand' = [frame |-> EntryFor(completion).frame, status |-> completion.status,
                          image |-> completion.image, next |-> "retire"]
             /\ kpc' = "release"
    /\ UNCHANGED <<client, reader, sock, connection, writer, pool, slot_data, jobs, next_handle, backend, control>>

(* The three calls retire() and submit()'s catch block end with, in order *)
WorkerRelease ==
    /\ kpc = "release"
    /\ release(khand.frame.slot)
    /\ kpc' = "respond"
    /\ UNCHANGED <<client, reader, sock, connection, writer, slot_data, jobs, khand, in_flight, next_handle, batch,
                   backend, control>>

WorkerRespond_if_ok ==
    /\ kpc = "respond"
    /\ IF khand.status = "ok"
       THEN OutboxPush(khand.frame.conn, [seq |-> khand.frame.seq, status |-> khand.status, image |-> khand.image])
       ELSE UNCHANGED <<outbox, pushed>>
    /\ kpc' = "retired"
    /\ UNCHANGED <<client, reader, sock, outbox_closed, outstanding, reader_done, writer, pool, slot_data, jobs,
                   khand, in_flight, next_handle, batch, backend, control>>

WorkerRespond ==
    /\ kpc = "respond"
    /\ OutboxPush(khand.frame.conn, [seq |-> khand.frame.seq, status |-> khand.status, image |-> khand.image])
    /\ kpc' = "retired"
    /\ UNCHANGED <<client, reader, sock, outbox_closed, outstanding, reader_done, writer, pool, slot_data, jobs,
                   khand, in_flight, next_handle, batch, backend, control>>

WorkerJobRetired_missing ==
    /\ kpc = "retired"
    /\ kpc' = khand.next
    /\ khand' = None
    /\ UNCHANGED <<client, reader, sock, connection, writer, pool, slot_data, jobs, in_flight, next_handle, batch,
                   backend, control>>

WorkerJobRetired ==
    /\ kpc = "retired"
    /\ job_retired(khand.frame.conn)
    /\ kpc' = khand.next
    /\ khand' = None
    /\ UNCHANGED <<client, reader, sock, writer, pool, slot_data, jobs, in_flight, next_handle, batch, backend, control>>

Worker ==
    \/ WorkerSubmit \/ WorkerSubmitThrows \/ WorkerNothingQueued \/ WorkerExit \/ WorkerPoll
    \/ WorkerRetire \/ WorkerRelease \/ WorkerRespond \/ WorkerJobRetired

----------------------------------------------------------------------------
(* acceptor_loop                                                           *)

AcceptorCheck ==
    /\ apc = "check"
    /\ apc' = IF running THEN "accept" ELSE "exited"
    /\ UNCHANGED <<client, reader, sock, connection, writer, pool, slot_data, jobs, worker, backend,
                   connections, spc, starts>>

Unfinished == {c \in connections : rpc[c] # "exited"}

(* accept_with_timeout timed out: join what has finished. *)
AcceptorTimeout ==
    /\ apc = "accept"
    /\ connections' = Unfinished
    /\ apc' = "check"
    /\ UNCHANGED <<client, reader, sock, connection, writer, pool, slot_data, jobs, worker, backend, spc, starts>>

(* A client has connected: its connection thread and its writer start. *)
AcceptorAccept(c) ==
    /\ apc = "accept" /\ rpc[c] = "absent"
    /\ connections' = Unfinished \cup {c}
    /\ ReaderGoto(c, "recv")
    /\ wpc' = [wpc EXCEPT ![c] = "pop"]
    /\ apc' = "check"
    /\ UNCHANGED <<client, rseq, rslot, dropped, sock, connection, whand, socket_alive, pool, slot_data, jobs, worker,
                   backend, spc, starts>>

Acceptor == AcceptorCheck \/ AcceptorTimeout \/ \E c \in Conns : AcceptorAccept(c)

----------------------------------------------------------------------------
(* start() and stop()                                                      *)

(* The factory ran on the new worker thread and its slots are allocated:   *)
(* worker_main publishes a fresh pool, start() spawns the acceptor.  The   *)
(* queue is the one the constructor made.                                  *)
StartSucceeds ==
    /\ spc \in {"down", "stopped"} /\ starts < MaxStarts
    /\ starts' = starts + 1
    /\ kpc' = "take"
    /\ backend_up' = TRUE
    /\ slot_owner' = [i \in Slots |-> None]
    /\ slot_data' = [i \in Slots |-> None]
    /\ slots_closed' = FALSE
    /\ spc' = "running"
    /\ apc' = "check"
    /\ UNCHANGED <<client, reader, sock, connection, writer, jobs, khand, in_flight, next_handle, batch,
                   running_jobs, completed, connections>>

(* The factory threw: close the queue, join the worker, rethrow. *)
StartFails ==
    /\ spc \in {"down", "stopped"} /\ starts < MaxStarts
    /\ starts' = starts + 1
    /\ queue_closed' = TRUE
    /\ UNCHANGED <<client, reader, sock, connection, writer, pool, slot_data, queue, worker, backend,
                   apc, connections, spc>>

StopBegin ==
    /\ MayStop
    /\ spc = "running"
    /\ spc' = "join_acceptor"
    /\ UNCHANGED <<client, reader, sock, connection, writer, pool, slot_data, jobs, worker, backend,
                   apc, connections, starts>>

StopJoinAcceptor_missing ==
    /\ spc = "join_acceptor"
    /\ spc' = "shutdown"
    /\ UNCHANGED <<client, reader, sock, connection, writer, pool, slot_data, jobs, worker, backend,
                   apc, connections, starts>>

StopJoinAcceptor ==
    /\ spc = "join_acceptor" /\ apc = "exited"
    /\ spc' = "shutdown"
    /\ UNCHANGED <<client, reader, sock, connection, writer, pool, slot_data, jobs, worker, backend,
                   apc, connections, starts>>

StopShutdownSockets_missing ==
    /\ spc = "shutdown"
    /\ spc' = "close_slots"
    /\ UNCHANGED <<client, reader, sock, connection, writer, pool, slot_data, jobs, worker, backend,
                   apc, connections, starts>>

StopShutdownSockets ==
    /\ spc = "shutdown"
    /\ sock' = [c \in Conns |-> IF c \in connections THEN "shut" ELSE sock[c]]
    /\ spc' = "close_slots"
    /\ UNCHANGED <<client, reader, connection, writer, pool, slot_data, jobs, worker, backend,
                   apc, connections, starts>>

StopCloseSlots ==
    /\ spc = "close_slots"
    /\ slots_closed' = TRUE
    /\ spc' = "join_connections"
    /\ UNCHANGED <<client, reader, sock, connection, writer, slot_owner, slot_data, jobs, worker, backend,
                   apc, connections, starts>>

StopJoinConnections_missing ==
    /\ spc = "join_connections"
    /\ connections' = {}
    /\ spc' = "close_queue"
    /\ UNCHANGED <<client, reader, sock, connection, writer, pool, slot_data, jobs, worker, backend, apc, starts>>

StopJoinConnections ==
    /\ spc = "join_connections" /\ Unfinished = {}
    /\ connections' = {}
    /\ spc' = "close_queue"
    /\ UNCHANGED <<client, reader, sock, connection, writer, pool, slot_data, jobs, worker, backend, apc, starts>>

StopCloseQueue ==
    /\ spc = "close_queue"
    /\ queue_closed' = TRUE
    /\ spc' = "join_worker"
    /\ UNCHANGED <<client, reader, sock, connection, writer, pool, slot_data, queue, worker, backend,
                   apc, connections, starts>>

StopJoinWorker ==
    /\ spc = "join_worker" /\ kpc = "exited"
    /\ spc' = "stopped"
    /\ UNCHANGED <<client, reader, sock, connection, writer, pool, slot_data, jobs, worker, backend,
                   apc, connections, starts>>

Stop ==
    \/ StopJoinAcceptor \/ StopShutdownSockets \/ StopCloseSlots \/ StopJoinConnections
    \/ StopCloseQueue \/ StopJoinWorker

(* Stopped for good: nothing is left to do. *)
Terminated == spc \in {"down", "stopped"} /\ starts = MaxStarts /\ UNCHANGED vars

Next ==
    \/ \E c \in Conns, kind \in Kinds : ClientSend(c, kind)
    \/ \E c \in Conns : ClientReceive(c) \/ ClientDies(c) \/ Reader(c) \/ Writer(c)
    \/ \E job \in running_jobs : BackendFinish(job)
    \/ Worker
    \/ Acceptor
    \/ StartSucceeds \/ StartFails \/ StopBegin \/ Stop
    \/ Terminated

(* Every thread of the server runs, and the backend finishes what it was   *)
(* given.  Nothing is assumed of the clients, nor that anybody calls       *)
(* start() or stop().                                                      *)
Fairness ==
    /\ \A c \in Conns : WF_vars(Reader(c)) /\ WF_vars(Writer(c))
    /\ WF_vars(Worker) /\ WF_vars(\E job \in running_jobs : BackendFinish(job))
    /\ WF_vars(AcceptorCheck) /\ WF_vars(AcceptorTimeout)
    /\ WF_vars(Stop)

Spec == Init /\ [][Next]_vars /\ Fairness

----------------------------------------------------------------------------
(* Properties                                                              *)

Images == (Conns \X Seqs) \cup {None}

(* How many pairs of hands slot i is in: the reader that claimed it, the   *)
(* queue, the in-flight table, the worker about to release it.             *)
Holders(i) ==
      Cardinality({c \in Conns : rslot[c] = i})
    + Cardinality({k \in 1 .. Len(queue) : queue[k].slot = i})
    + Cardinality({e \in in_flight : e.frame.slot = i})
    + (IF kpc = "release" /\ khand.frame.slot = i THEN 1 ELSE 0)

(* A claimed slot is in exactly one pair of hands, working for its owner,  *)
(* and a free slot in nobody's.  So no slot leaks, none is released twice, *)
(* and no reader receives into a slot that another frame still occupies.   *)
SlotsConserved ==
    /\ \A i \in Slots : Holders(i) = (IF slot_owner[i] = None THEN 0 ELSE 1)
    /\ \A c \in Conns : rslot[c] # None => slot_owner[rslot[c]] = c
    /\ \A k \in 1 .. Len(queue) : slot_owner[queue[k].slot] = queue[k].conn
    /\ \A e \in in_flight : slot_owner[e.frame.slot] = e.frame.conn
    /\ kpc = "release" => slot_owner[khand.frame.slot] = khand.frame.conn

(* What the server still owes connection c *)
Owed(c) ==
      Cardinality({k \in 1 .. Len(queue) : queue[k].conn = c})
    + Cardinality({e \in in_flight : e.frame.conn = c})
    + (IF kpc \in {"release", "respond", "retired"} /\ khand.frame.conn = c THEN 1 ELSE 0)
    + (IF rpc[c] \in {"push", "uncount"} THEN 1 ELSE 0)

(* Connection::outstanding counts what is owed exactly, whoever moves it:  *)
(* too low and the outbox closes on a response, too high and it never      *)
(* closes, so that the writer, the connection and stop() hang.             *)
OutstandingExact == \A c \in Conns : outstanding[c] = Owed(c)

(* close_outbox_if_done closes an outbox only when nothing can be pushed   *)
(* to it any more: no response is dropped by Outbox::push.                 *)
NoResponseDropped ==
    /\ kpc = "respond" => ~outbox_closed[khand.frame.conn]
    /\ \A c \in Conns : outbox_closed[c] => (rpc[c] \in {"join", "exited"} /\ Owed(c) = 0)

InPipeline(c, n) ==
    \/ rseq[c] = n /\ rpc[c] \in {"claim", "payload", "count", "push"}
    \/ \E k \in 1 .. Len(queue) : queue[k].conn = c /\ queue[k].seq = n
    \/ \E e \in in_flight : e.frame.conn = c /\ e.frame.seq = n
    \/ kpc \in {"release", "respond"} /\ khand.frame.conn = c /\ khand.frame.seq = n

(* Every frame the reader has read is in the pipeline, was answered, once, *)
(* or is the one the reader gave up in the middle of: one per connection   *)
(* at most, never one the queue has taken, and only because the socket     *)
(* broke or the queue was closed.  It gets no answer.                      *)
EveryFrameAnsweredOnce ==
    \A c \in Conns :
        /\ \A n \in 1 .. rseq[c] : pushed[c][n] = (IF InPipeline(c, n) \/ n = dropped[c] THEN 0 ELSE 1)
        /\ dropped[c] # 0 => /\ rpc[c] \in {"uncount", "release", "finish", "join", "exited"}
                             /\ dropped[c] = rseq[c] /\ ~InPipeline(c, rseq[c])
                             /\ Broken(c) \/ queue_closed

(* An ok response carries the image made from the request with the same    *)
(* connection and sequence number, whatever order jobs complete in and     *)
(* however soon their slots are reused.                                    *)
ImagesMatchRequests ==
    \A c \in Conns :
        \A r \in {whand[c]} \cup {outbox[c][k] : k \in 1 .. Len(outbox[c])}
              \cup {inbox[c][k] : k \in 1 .. Len(inbox[c])} :
            (r # None /\ r.status = "ok") => r.image = <<c, r.seq>>

(* Invariant 2: the pool lends out storage that belongs to the backend, so *)
(* while a reader may receive into a slot the backend is there.            *)
StorageOutlivesReaders == \A c \in Conns : rpc[c] = "payload" => backend_up

(* server.cpp 48-50: "In practice the depth is bounded anyway", as a       *)
(* client that never reads "stops the writer, then the reader": when the   *)
(* writer cannot put down the response it holds because the socket is      *)
(* full, the outbox holds no more than the connection had slots.           *)
OutboxBounded ==
    \A c \in Conns : (wpc[c] = "write" /\ Len(inbox[c]) = SendBuffer) => Len(outbox[c]) <= SlotsPerConnection

(* Nobody is left behind by stop(): when it has joined the connections, no *)
(* connection thread is alive, and the queue is closed with nothing in it. *)
StopLeavesNothing ==
    /\ spc \in {"close_queue", "join_worker", "stopped"} =>
          \A c \in Conns : rpc[c] \in {"absent", "exited"} /\ wpc[c] \in {"absent", "exited"}
    /\ spc = "stopped" => queue = <<>> /\ in_flight = {} /\ \A i \in Slots : slot_owner[i] = None

(* stop() returns, whatever the clients do or do not do. *)
StopTerminates == spc = "join_acceptor" ~> spc = "stopped"

(* A client that sends everything before it reads anything.  It is fair    *)
(* about sending, and about reading once it has nothing more to send.      *)
(* Its connection request is accepted: poll() reports a pending one.       *)
PipeliningClients ==
    \A c \in Conns :
        /\ WF_vars(\E kind \in Kinds : ClientSend(c, kind))
        /\ WF_vars(sent[c] = MaxFrames /\ ClientReceive(c))
        /\ SF_vars(AcceptorAccept(c))

PipeliningSpec == Spec /\ PipeliningClients

(* ARCHITECTURE decision 6: such a client does not deadlock; it gets an    *)
(* answer to every frame.                                                  *)
PipelinedFramesAnswered == \A c \in Conns : running ~> got[c] = MaxFrames
=============================================================================
