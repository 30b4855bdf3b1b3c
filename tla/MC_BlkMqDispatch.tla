------------------------- MODULE MC_BlkMqDispatch -------------------------
(* Instances of BlkMqDispatch for TLC. *)
EXTENDS BlkMqDispatch

CONSTANTS h1, h2, t1

OneHctx == {h1}
TwoHctxs == {h1, h2}
OneTask == {t1}

\* Requests 1, 2, ... of the first hardware queue, from 10 on of the second
OnFirst == [r \in Requests |-> h1]
OnBoth == [r \in Requests |-> IF r < 10 THEN h1 ELSE h2]

AnyTrouble == {"BUSY", "DEV_BUSY", "ERROR", "STOP", "QUIESCE"}
Refusals == {"BUSY", "DEV_BUSY"}
NoDevBusy == {"BUSY", "ERROR"}

\* A bound: two troubles with two requests, one with three, and at most two requests
\* under way while a queue is stopped or quiesced.  It cuts off no step that fairness asks
\* for: nobody has to submit or to stop or quiesce a queue, and a driver that may refuse
\* may as well accept.
Eventful ==
    /\ Cardinality(submitted) + trouble <= 4
    /\ Cardinality(live) <= 2 \/ \A h \in Hctxs : ~stopped[h] /\ qpc[h] = "off"

\* A bound: no more than three threads, or ends of requests, are under way at once.
ThreeAtOnce ==
    Cardinality({t \in Threads : pc[t] # "idle"})
        + Cardinality({r \in Requests : rphase[r] # "none"}) <= 3

\* A bound on the search for a counterexample: the requests are submitted before
\* a worker runs, and end one after the other.
InTurn ==
    /\ \/ submitted = Requests /\ \A t \in Tasks : pc[t] = "idle"
       \/ \A h \in Hctxs : pc[h] = "idle"
    /\ Cardinality({r \in Requests : rphase[r] # "none"}) <= 1
=============================================================================
