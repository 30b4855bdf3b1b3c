--------------------------- MODULE JournaledStore ---------------------------
(***************************************************************************)
(* What a journalled filesystem is promised by fs/jbd2: the metadata that  *)
(* is in memory is cut into a sequence of closed states, one for each      *)
(* transaction; a transaction that was reported as committed is never      *)
(* lost; and after a crash the metadata is exactly one of the closed       *)
(* states, never a mixture of two.  Jbd2Log is shown to implement this     *)
(* specification.                                                          *)
(***************************************************************************)
EXTENDS Naturals, Sequences

CONSTANTS
  Blocks,     \* the metadata blocks of the filesystem
  Contents,   \* what a block may hold
  Free        \* the "content" of a block that no transaction of the state owns

VARIABLES
  live,       \* the metadata as the running filesystem sees it
  closed,     \* the states closed since the last mount, the mounted one first
  acked,      \* the index in closed of the last state reported as committed
  up          \* the filesystem is mounted

storeVars == <<live, closed, acked, up>>

States == [Blocks -> Contents \cup {Free}]

\* Nothing is in memory while the machine is down.
Nothing == [b \in Blocks |-> Free]

StoreInit ==
  /\ live \in States
  /\ closed = <<live>>
  /\ acked = 1
  /\ up = TRUE

\* A handle changes metadata.
Update ==
  /\ up
  /\ live' \in States
  /\ UNCHANGED <<closed, acked, up>>

\* The running transaction is closed for commit.
Close ==
  /\ up
  /\ closed' = Append(closed, live)
  /\ UNCHANGED <<live, acked, up>>

\* A commit is reported to those who wait for it.
Acknowledge ==
  /\ up
  /\ acked < Len(closed)
  /\ acked' = acked + 1
  /\ UNCHANGED <<live, closed, up>>

Stop ==
  /\ up
  /\ up' = FALSE
  /\ live' = Nothing
  /\ UNCHANGED <<closed, acked>>

Restart ==
  /\ ~up
  /\ up' = TRUE
  /\ \E k \in acked .. Len(closed) :
       /\ live' = closed[k]
       /\ closed' = <<closed[k]>>
  /\ acked' = 1

StoreNext == Update \/ Close \/ Acknowledge \/ Stop \/ Restart

StoreSpec == StoreInit /\ [][StoreNext]_storeVars
=============================================================================
