------------------------------ MODULE FifoOps ------------------------------
(***************************************************************************)
(* The operations of class FIFO (runtime/north/fifo.py) as operators on a  *)
(* record with the fields of the class.  A port of an actor owns one FIFO; *)
(* the modules Fifo (one ring with many readers) and TokenStream (the two  *)
(* rings at the ends of a connection) are built from these operators.      *)
(*                                                                         *)
(* Positions grow without bound; the modulo is taken only where a slot is  *)
(* accessed.  A slot that was never written holds EmptySlot (Token(0) in   *)
(* the code).                                                              *)
(***************************************************************************)
EXTENDS Integers, FiniteSetsExt

CONSTANT EmptySlot      \* the initial content of every slot

NewFifo(length) ==
  [ fifo               |-> [i \in 0 .. length - 1 |-> EmptySlot],
    N                  |-> length,
    readers            |-> {},
    write_pos          |-> 0,
    read_pos           |-> [r \in {} |-> 0],
    tentative_read_pos |-> [r \in {} |-> 0] ]

\* A reader that is already known keeps its positions (reconnect).
AddReader(f, reader) ==
  IF reader \in f.readers
  THEN f
  ELSE [f EXCEPT
          !.readers            = @ \union {reader},
          !.read_pos           = [r \in f.readers \union {reader} |->
                                    IF r = reader THEN 0 ELSE f.read_pos[r]],
          !.tentative_read_pos = [r \in f.readers \union {reader} |->
                                    IF r = reader THEN 0 ELSE f.tentative_read_pos[r]]]

\* MUTANT of RemoveReader: the reader's positions stay.
RemoveReaderOnly(f, reader) == [f EXCEPT !.readers = @ \ {reader}]

RemoveReader(f, reader) ==
  [f EXCEPT
     !.readers            = @ \ {reader},
     !.read_pos           = [r \in f.readers \ {reader} |-> f.read_pos[r]],
     !.tentative_read_pos = [r \in f.readers \ {reader} |-> f.tentative_read_pos[r]]]

\* MUTANT of LastReadPos: peeked tokens count as read.
LastPeekedPos(f) ==
  IF f.readers = {} THEN 0 ELSE Min({f.tentative_read_pos[r] : r \in f.readers})

\* min(self.read_pos.values() or [0])
LastReadPos(f) ==
  IF f.readers = {} THEN 0 ELSE Min({f.read_pos[r] : r \in f.readers})

\* MUTANT of CanWrite: the last free slot is used.
CanWriteLastSlot(f) == f.write_pos - LastReadPos(f) < f.N

CanWrite(f) == (f.write_pos + 1) % f.N # LastReadPos(f) % f.N

\* The effect of write() when CanWrite(f); otherwise write() changes nothing.
Write(f, data) ==
  [f EXCEPT !.fifo[f.write_pos % f.N] = data, !.write_pos = @ + 1]

\* MUTANT of AvailableSlots: the slot that stays empty is counted.
AvailableSlotsAll(f) == f.N - ((f.write_pos - LastReadPos(f)) % f.N)

AvailableSlots(f) == f.N - ((f.write_pos - LastReadPos(f)) % f.N) - 1

\* MUTANT of AvailableTokens: off by one.
AvailableTokensPlusOne(f, reader) == f.write_pos - f.tentative_read_pos[reader] + 1

AvailableTokens(f, reader) == f.write_pos - f.tentative_read_pos[reader]

CanRead(f, reader) == f.tentative_read_pos[reader] # f.write_pos

\* MUTANT of TokenRead: the committed position is read again.
TokenReadCommitted(f, reader) == f.fifo[f.read_pos[reader] % f.N]

\* What read() returns, and what it does to the FIFO, when CanRead(f, reader).
TokenRead(f, reader) == f.fifo[f.tentative_read_pos[reader] % f.N]
Read(f, reader) == [f EXCEPT !.tentative_read_pos[reader] = @ + 1]

CommitReads(f, reader) ==
  [f EXCEPT !.read_pos[reader] = f.tentative_read_pos[reader]]

RollbackReads(f, reader) ==
  [f EXCEPT !.tentative_read_pos[reader] = f.read_pos[reader]]

CommitOneRead(f, reader) ==
  IF f.read_pos[reader] < f.tentative_read_pos[reader]
  THEN [f EXCEPT !.read_pos[reader] = @ + 1]
  ELSE f

RollbackOneRead(f, reader) ==
  IF f.read_pos[reader] < f.tentative_read_pos[reader]
  THEN [f EXCEPT !.tentative_read_pos[reader] = @ - 1]
  ELSE f
=============================================================================
