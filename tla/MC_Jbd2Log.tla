----------------------------- MODULE MC_Jbd2Log -----------------------------
(***************************************************************************)
(* Instances of Jbd2Log.                                                   *)
(***************************************************************************)
EXTENDS Jbd2Log, TLC

CONSTANTS
  b1, b2,
  WideTxs      \* bound: transactions when both blocks are in use (contents too)
               \* or the log is not the ordinary one

TwoBlocks == {b1, b2}
Plain == [async |-> FALSE, external |-> FALSE]
PlainLog == {Plain}
AllLogs == {Plain, [async |-> TRUE, external |-> FALSE], [async |-> FALSE, external |-> TRUE]}
Swaps == Permutations(TwoBlocks)

\* A block no transaction has touched.
Idle(b) ==
  /\ owner[b] = "live" /\ bh[b].jt = "none"
  /\ \A i \in DOMAIN closed : closed[i].state[b] = 0

\* Long histories of the ordinary log for one block; fewer transactions for the
\* other logs, and short histories for two blocks.
Bounds ==
  \/ (\E b \in Blocks : Idle(b)) /\ (mode = Plain \/ txs <= WideTxs)
  \/ txs <= WideTxs /\ version <= WideTxs /\ mode = Plain
=============================================================================
