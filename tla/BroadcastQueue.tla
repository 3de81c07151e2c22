--------------------------- MODULE BroadcastQueue ---------------------------
(***************************************************************************)
(* What a FIFO of a port promises its users: every token written is kept   *)
(* until every reader has committed it, and each reader sees all tokens,   *)
(* from the first one, in the order they were written, however reads,      *)
(* commits and rollbacks of the readers interleave.                        *)
(***************************************************************************)
EXTENDS Integers, Sequences

CONSTANTS
  Capacity,    \* tokens the slowest reader may lag behind the writer
  Readers,     \* the ids a reader may have
  Tokens,      \* the tokens that may be written
  None         \* what a read returns when there is nothing to read

VARIABLES
  written,     \* every token written so far
  taken,       \* taken[r]: how many tokens reader r has committed
  peeked,      \* peeked[r]: how many it has read, committed or not
  ret          \* what the latest read returned

vars == <<written, taken, peeked, ret>>

Joined == DOMAIN taken

Init ==
  /\ written = <<>>
  /\ taken = [r \in {} |-> 0]
  /\ peeked = [r \in {} |-> 0]
  /\ ret = None

Join(r) ==
  /\ r \notin Joined
  /\ taken'  = [x \in Joined \union {r} |-> IF x = r THEN 0 ELSE taken[x]]
  /\ peeked' = [x \in Joined \union {r} |-> IF x = r THEN 0 ELSE peeked[x]]
  /\ UNCHANGED <<written, ret>>

Leave(r) ==
  /\ r \in Joined
  /\ taken'  = [x \in Joined \ {r} |-> taken[x]]
  /\ peeked' = [x \in Joined \ {r} |-> peeked[x]]
  /\ UNCHANGED <<written, ret>>

Put(token) ==
  /\ \A r \in Joined : Len(written) - taken[r] < Capacity
  /\ written' = Append(written, token)
  /\ UNCHANGED <<taken, peeked, ret>>

Get(r) ==
  /\ r \in Joined
  /\ peeked[r] < Len(written)
  /\ ret' = written[peeked[r] + 1]
  /\ peeked' = [peeked EXCEPT ![r] = @ + 1]
  /\ UNCHANGED <<written, taken>>

GetNothing(r) ==
  /\ r \in Joined
  /\ peeked[r] = Len(written)
  /\ ret' = None
  /\ UNCHANGED <<written, taken, peeked>>

\* Commit or give back some of the tokens read tentatively, oldest first.
Commit(r) ==
  /\ r \in Joined
  /\ \E n \in taken[r] .. peeked[r] : taken' = [taken EXCEPT ![r] = n]
  /\ UNCHANGED <<written, peeked, ret>>

GiveBack(r) ==
  /\ r \in Joined
  /\ \E n \in taken[r] .. peeked[r] : peeked' = [peeked EXCEPT ![r] = n]
  /\ UNCHANGED <<written, taken, ret>>

Next ==
  \/ \E r \in Readers :
       Join(r) \/ Leave(r) \/ Get(r) \/ GetNothing(r) \/ Commit(r) \/ GiveBack(r)
  \/ \E token \in Tokens : Put(token)

Spec == Init /\ [][Next]_vars
=============================================================================
