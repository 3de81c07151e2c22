-------------------------------- MODULE Fifo --------------------------------
(***************************************************************************)
(* The token ring of a port (class FIFO, runtime/north/fifo.py) with one   *)
(* writer and several readers.  For an outport the readers are the peer    *)
(* inports of a fan-out, for an inport the port itself.  Every call of the *)
(* class is one action: the runtime is single threaded, calls interleave   *)
(* but never overlap.  The history variable written records the tokens.    *)
(***************************************************************************)
EXTENDS FifoOps, Sequences

CONSTANTS
  Length,       \* the length given to the constructor (Port: fifo_size=5)
  Readers,      \* ids of the readers
  Tokens,       \* tokens written
  None,         \* Python's None
  LateReaders,  \* TRUE: a reader may be added after the ring has wrapped
  MaxWrites     \* bound on the number of writes

ASSUME LengthAssumption == Length \in Nat \ {0, 1}
ASSUME BoundAssumption == MaxWrites \in Nat
ASSUME LateAssumption == LateReaders \in BOOLEAN

VARIABLES
  f,            \* the FIFO object
  written,      \* history: every token written, in order
  ret           \* what the latest read() returned

vars == <<f, written, ret>>

Init ==
  /\ f = NewFifo(Length)
  /\ written = <<>>
  /\ ret = None

-----------------------------------------------------------------------------
(***************************************************************************)
(* add_reader.  The ports of an actor are connected before it first fires: *)
(* the deployer sets fanout to the number of peers, and the outport is not *)
(* connected, hence the actor not enabled, with fewer.  So a reader is     *)
(* new only while nothing written has been overwritten, unless LateReaders *)
(* (the control API's connect on a running actor).                         *)
(***************************************************************************)
AttachReader(r) ==
  /\ LateReaders \/ r \in f.readers \/ f.write_pos < f.N
  /\ f' = AddReader(f, r)
  /\ UNCHANGED <<written, ret>>

\* remove_reader: part of the class, not called by the runtime today.
DetachReader(r) ==
  /\ r \in f.readers
  /\ f' = RemoveReader(f, r)
  /\ UNCHANGED <<written, ret>>

WriteToken(token) ==
  /\ f.write_pos < MaxWrites
  /\ CanWrite(f)
  /\ f' = Write(f, token)
  /\ written' = Append(written, token)
  /\ UNCHANGED ret

\* write() returns False and leaves the FIFO alone.
WriteRefused ==
  /\ ~CanWrite(f)
  /\ UNCHANGED vars

ReadToken(r) ==
  /\ r \in f.readers
  /\ CanRead(f, r)
  /\ ret' = TokenRead(f, r)
  /\ f' = Read(f, r)
  /\ UNCHANGED written

ReadEmpty(r) ==
  /\ r \in f.readers
  /\ ~CanRead(f, r)
  /\ ret' = None
  /\ UNCHANGED <<f, written>>

Commit(r) ==
  /\ r \in f.readers
  /\ f' \in {CommitReads(f, r), CommitOneRead(f, r)}
  /\ UNCHANGED <<written, ret>>

Rollback(r) ==
  /\ r \in f.readers
  /\ f' \in {RollbackReads(f, r), RollbackOneRead(f, r)}
  /\ UNCHANGED <<written, ret>>

Next ==
  \/ \E r \in Readers : AttachReader(r)
  \/ \E r \in Readers : DetachReader(r)
  \/ \E token \in Tokens : WriteToken(token)
  \/ WriteRefused
  \/ \E r \in Readers : ReadToken(r)
  \/ \E r \in Readers : ReadEmpty(r)
  \/ \E r \in Readers : Commit(r)
  \/ \E r \in Readers : Rollback(r)

Spec == Init /\ [][Next]_vars

-----------------------------------------------------------------------------
\* Types of the FIFO's fields and of the histories; both position maps have
\* exactly the readers as keys.
TypeOK ==
  /\ f \in [fifo               : [0 .. Length - 1 -> Tokens \union {EmptySlot}],
            N                  : {Length},
            readers            : SUBSET Readers,
            write_pos          : Nat,
            read_pos           : [f.readers -> Nat],
            tentative_read_pos : [f.readers -> Nat]]
  /\ written \in Seq(Tokens)
  /\ ret \in Tokens \union {None}

\* The positions the class keeps: a reader never commits what it has not
\* read, never reads what is not written, and the writer is never a whole
\* ring ahead of a reader.
PositionsOrdered ==
  \A r \in f.readers :
    /\ f.read_pos[r] <= f.tentative_read_pos[r]
    /\ f.tentative_read_pos[r] <= f.write_pos
    /\ f.write_pos - f.read_pos[r] < f.N

\* No write reuses a slot that some reader has not committed: from the read
\* position of each reader to the write position, the ring still holds the
\* tokens written at these positions.
NothingOverwritten ==
  \A r \in f.readers : \A p \in f.read_pos[r] .. f.write_pos - 1 :
    f.fifo[p % f.N] = written[p + 1]

\* The modular tests of can_write and available_slots count the free slots
\* exactly: an actor told that n slots are available can write n tokens
\* (OutPort.write_token raises an exception when a write is refused), and
\* the writer is not blocked while no reader lags a full ring behind.
SlotsCounted ==
  LET lag(r) == f.write_pos - f.read_pos[r] IN
  f.readers # {} =>
    /\ CanWrite(f) <=> \A r \in f.readers : lag(r) < f.N - 1
    /\ \A r \in f.readers : AvailableSlots(f) <= f.N - 1 - lag(r)
    /\ \E r \in f.readers : AvailableSlots(f) = f.N - 1 - lag(r)

\* The FIFO implements the broadcast queue: each reader is returned every
\* token, in the order of the writes, starting with the first.
Queue == INSTANCE BroadcastQueue WITH
  Capacity <- Length - 1,
  taken    <- f.read_pos,
  peeked   <- f.tentative_read_pos

ImplementsQueue == Queue!Spec
=============================================================================
