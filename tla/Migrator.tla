------------------------------ MODULE Migrator ------------------------------
(***************************************************************************)
(* The four programs, started by an operator, in the world of Platform.  A *)
(* run may end at any step.  Rules says which runs the operator starts.    *)
(***************************************************************************)
EXTENDS Setup, Promote, Rollback, Finalize

\* Mutant: rollback starts with a step it does not have.
AlwaysResolve(ph) == "resolve"

FirstStep(ph) == IF ph = "rollback" THEN "scale" ELSE "resolve"

(***************************************************************************)
(* The documented order: setup, promote, then finalize, with rollback to   *)
(* undo a setup or a promote.  An interrupted program is run again, or     *)
(* rolled back.                                                            *)
(***************************************************************************)
InOrder(ph) ==
    CASE ph = "setup"    -> started \subseteq {"setup"}
      [] ph = "promote"  -> "setup" \in completed /\ started \subseteq {"setup", "promote"}
      [] ph = "rollback" -> "finalize" \notin started
      [] ph = "finalize" -> "promote" \in completed /\ "rollback" \notin started

MayStart(ph) ==
    /\ "exclusive" \in Rules => \A q \in Procs : phase[q] = "none"
    /\ "sameProgram" \in Rules => \A q \in Procs : phase[q] \in {"none", ph}
    /\ "settled" \in Rules =>
        (ph \notin started => synced) /\ (ph = "setup" => helper # "deleting")
    /\ ph \in Rules => InOrder(ph)
    /\ "cascadeOff" \in Rules => (ph = "rollback" => ~cascade)

Start(p, ph) == MayStart(ph) /\ Begin(p, ph, FirstStep(ph))

Run(p) == SetupNext(p) \/ PromoteNext(p) \/ RollbackNext(p) \/ FinalizeNext(p)

Next ==
    \/ \E p \in Procs : Run(p) \/ Exit(p) \/ \E ph \in Phases : Start(p, ph)
    \/ Environment

Spec == Init /\ [][Next]_vars

-----------------------------------------------------------------------------
(* Safety *)

\* Pods run only on an instance that lacks none but the latest rows committed on the
\* source: those newer than the lag points that opened the gate (LagGate says how many
\* minutes that can be), none that a running application committed after that.
ServesCommittedRows == pods = "up" => live \in near

\* Whatever is deleted, demoted or dropped, every row committed on the source is there
\* until finalize, and all but the latest are in some instance after that.
SourceRowsSurvive ==
    /\ "finalize" \notin started => Src \in fresh
    /\ near # {}

\* The application never runs on a replica, nor on an instance that is gone.
ServesStandalone == pods = "up" => sql[live] = "standalone"

\* From the start of the promotion on, the source has no pods but those that are being
\* stopped: neither a run that is repeated nor one that ends early brings the
\* application back there.
SourceQuietAfterPromotion ==
    job \in {"promoting", "completed"} /\ live = Src => pods # "up"

\* Until finalize is run there is a way back: the source and its database exist.
WayBack ==
    "finalize" \notin started => sql[Src] = "standalone" /\ Src \in hasDb

\* However often promote is interrupted and run again, when it completes nothing
\* of it is missing, although a later run skips what an earlier one did.
PromoteDelivers ==
    "promote" \in completed /\ "rollback" \notin started =>
        /\ spec = Tgt /\ live = Tgt /\ pods = "up"
        /\ job \in {"completed", "absent"}
        /\ reassigned = Databases /\ ~reduced
        /\ Tgt \in login /\ Tgt \in backups
        /\ helper # "present" /\ owner[Tgt] = "app"

\* A completed rollback leaves the application on the source, and nothing of the
\* migration but what was done to the source instance itself.
RollbackRestores ==
    "rollback" \in completed =>
        /\ spec = Src /\ live = Src /\ pods = "up"
        /\ Src \in login /\ owner[Src] = "app"
        /\ sql[Tgt] = "absent" /\ ~master
        /\ job = "absent" /\ helper # "present"
        /\ left \subseteq ArtefactsOn(Src)

\* Finalize leaves nothing behind but the networks allowed on the target.
FinalizeCleans ==
    "finalize" \in completed =>
        /\ sql[Src] = "absent" /\ ~master /\ job = "absent"
        /\ left \subseteq ArtefactsOn(Tgt)

\* No instance is deleted under an application that runs on it.
NeverDeletesServing ==
    [][\A i \in Inst : sql[i] # "absent" /\ sql'[i] = "absent" => live # i \/ pods # "up"]_vars

\* README, promotion phase: "Wait for promotion complete" before what follows it.  The
\* code does not ensure it: the error in a finished operation goes unseen.
PromotionCompleteBeforeRestore ==
    \A p \in Procs : At(p, "promote", "restore") => job = "completed"

\* rollback/main.go:50: it scales down only "if we are making changes to the instance the
\* application currently uses".  The application of a setup that was stopped early runs on
\* the source all the while, and is not spared when its cascading delete is still on: step
\* 9 deletes its SQLDatabase, and with it the database.
RollbackSparesRunning ==
    \A p \in Procs :
        phase[p] = "rollback" /\ "setup" \in started /\ pods = "up" /\ live = Src =>
            Src \in hasDb

\* The source is touched only after its backup.
BackupBeforeChange == left \cap ArtefactsOn(Src) # {} => Src \in backups

-----------------------------------------------------------------------------
(* Refinement *)

Promise == INSTANCE Switchover WITH
    serving <- IF pods = "up" THEN live ELSE "none",
    replicating <- job = "cdc",
    complete <- fresh,
    copies <- near

\* The programs with their platform keep the promise of Switchover: a switch only to a
\* copy that lacks none but the latest rows, and no loss of the last one.  Pods being
\* stopped count as stopped, though they may still commit.
SwitchoverSpec == Promise!Spec
=============================================================================
