----------------------------- MODULE Switchover -----------------------------
(***************************************************************************)
(* What a migration promises of the data: an application that commits rows *)
(* on a source is moved to a copy of it.  It is started only on a copy     *)
(* that lacks none but the latest rows, and the last such copy is never    *)
(* lost.  What it commits when nothing is replicated is never the latest.  *)
(***************************************************************************)
CONSTANTS Src, Tgt

VARIABLES
    serving,     \* the instance the application runs on, or "none"
    replicating, \* rows committed on the source are on their way to the target
    complete,    \* the instances that hold every row committed on the source
    copies       \* those that lack none but the latest

vars == <<serving, replicating, complete, copies>>

Inst == {Src, Tgt}

Init ==
    /\ serving = Src /\ ~replicating
    /\ complete = {Src} /\ copies = {Src}

\* A row is committed on the source, perhaps by a pod that is being stopped.
Commit ==
    /\ serving \in {Src, "none"} /\ Src \in complete
    /\ complete' = {Src}
    /\ copies' = IF serving = Src /\ ~replicating THEN {Src} ELSE copies
    /\ UNCHANGED <<serving, replicating>>

CatchUp ==
    /\ replicating /\ Src \in complete
    /\ complete' = Inst /\ copies' = Inst
    /\ UNCHANGED <<serving, replicating>>

\* It turns out that the target lacks more than the latest rows.
FallBehind ==
    /\ replicating /\ Tgt \notin complete
    /\ copies' = copies \ {Tgt} /\ copies' # {}
    /\ UNCHANGED <<serving, replicating, complete>>

\* Replication begins, or ends.
Replicate ==
    /\ replicating' = ~replicating
    /\ UNCHANGED <<serving, complete, copies>>

Lose(i) ==
    /\ serving # i
    /\ complete' = complete \ {i}
    /\ copies' = copies \ {i} /\ copies' # {}
    /\ UNCHANGED <<serving, replicating>>

Stop == serving' = "none" /\ UNCHANGED <<replicating, complete, copies>>

Serve(i) ==
    /\ i \in copies
    /\ serving' = i
    /\ UNCHANGED <<replicating, complete, copies>>

Next ==
    \/ Commit \/ CatchUp \/ FallBehind \/ Replicate \/ Stop
    \/ \E i \in Inst : Lose(i) \/ Serve(i)

Spec == Init /\ [][Next]_vars
=============================================================================
