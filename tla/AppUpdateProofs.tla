-------------------------- MODULE AppUpdateProofs ---------------------------
(***************************************************************************)
(* What AppUpdate promises, for any number of deploys and runs.            *)
(***************************************************************************)
EXTENDS AppUpdate, TLAPS

\* A switch has begun, with correlation ID runs.
Switching == task = "switch" /\ runs > 0

\* A spec that carries the correlation ID of a switch names the target.
Own(a) == a.cor \in 0..runs /\ (Switching /\ a.cor = runs => a.inst = Target)

\* What makes an update safe: a copy with the current version is the resource.
Copies ==
    /\ \A c \in current : copy[c] = app
    /\ sync = "synchronized" => applied = copy["naiserator"]

Begun == before <= deploys /\ (pc \in Calls => runs > 0)

Owners == Own(app) /\ Own(applied) /\ \A c \in Clients : Own(copy[c])

\* When the switch is reported as synchronised, nothing but a deploy can bring the
\* source back.
Reported ==
    /\ status.cor \in 0..runs
    /\ Switching /\ status.cor = runs /\ status.state = "synchronized" =>
        \/ deploys > before
        \/ /\ app.inst = Target /\ applied.inst = Target
           /\ sync = "apply" => copy["naiserator"].inst = Target

IndInv == TypeOK /\ NoLostDeploy /\ Copies /\ Begun /\ Owners /\ Reported

-----------------------------------------------------------------------------

\* A change keeps the type and the image, and a switch names the target.
LEMMA ChangedIsApp ==
    ASSUME TypeOK, NEW a \in Apps
    PROVE  /\ Changed(a) \in Apps
           /\ Changed(a).image = a.image
           /\ task = "switch" => Changed(a).inst = Target /\ Changed(a).cor = runs
           /\ task # "switch" => Changed(a).inst = a.inst /\ Changed(a).cor = a.cor
BY DEF Changed, TypeOK, Apps, Tasks

\* The hash of an application is one of the hashes.
LEMMA HashOfApp ==
    ASSUME NEW a \in Apps
    PROVE  Hash(a) \in Hashes
BY DEF Hash, Hashes, Apps

\* The invariant holds at first.
LEMMA InitInv == Init => IndInv
<1> SUFFICES ASSUME Init PROVE IndInv
  OBVIOUS
<1>1. Hash(app) \in Hashes
  BY HashOfApp DEF Init
<1>2. TypeOK
  BY <1>1, BoundsAreNumbers DEF Init, TypeOK, Clients, Apps, States
<1>3. NoLostDeploy /\ Copies /\ Begun
  BY DEF Init, NoLostDeploy, Copies, Begun, Calls
<1>4. Owners /\ Reported
  BY DEF Init, Owners, Own, Reported, Switching, Clients
<1> QED
  BY <1>2, <1>3, <1>4 DEF IndInv

\* The update of the run, whether it learns of it or not.
LEMMA UpdateInv ==
    ASSUME IndInv, Update("run", Changed(copy["run"])), pc = "update",
           UNCHANGED <<goal, platformVars>>,
           pc' \in {"done", "failed"} \/ (task = "switch" /\ pc' = "updateStatus")
    PROVE  IndInv'
<1> DEFINE new == Changed(copy["run"])
<1>1. /\ "run" \in current /\ copy["run"] = app /\ copy["run"] \in Apps
      /\ app' = new /\ copy' = [copy EXCEPT !["run"] = new] /\ status' = status
      /\ current' = IF new = app THEN current ELSE {"run"}
      /\ task' = task /\ runs' = runs /\ before' = before
      /\ applied' = applied /\ sync' = sync /\ deploys' = deploys
  BY DEF IndInv, Copies, TypeOK, Clients, Update, Conflict, goal, platformVars
<1>2. /\ new \in Apps /\ new.image = app.image
      /\ task = "switch" => new.inst = Target /\ new.cor = runs
      /\ task # "switch" => new.inst = app.inst /\ new.cor = app.cor
  <2>1. TypeOK
    BY DEF IndInv
  <2> QED
    BY <2>1, <1>1, ChangedIsApp
<1> HIDE DEF new
<1>3. copy'["run"] = new /\ copy'["naiserator"] = copy["naiserator"]
  BY <1>1 DEF IndInv, TypeOK, Clients
<1>4. TypeOK'
  <2>1. copy' \in [Clients -> Apps] /\ current' \subseteq Clients
    BY <1>1, <1>2 DEF IndInv, TypeOK, Clients
  <2>2. pc' \in Calls \cup {"done", "failed"} /\ (pc' \in {"updateStatus", "poll"} => task' = "switch")
    BY <1>1 DEF Calls
  <2> QED
    BY <2>1, <2>2, <1>1, <1>2 DEF IndInv, TypeOK
<1>5. NoLostDeploy' /\ Begun'
  BY <1>1, <1>2 DEF IndInv, NoLostDeploy, Begun, Calls
<1>6. Copies'
  BY <1>1, <1>3 DEF IndInv, Copies, TypeOK, Clients
<1>7. Owners'
  <2>1. Own(app)'
    BY <1>1, <1>2 DEF IndInv, Owners, Own, Switching, TypeOK
  <2>2. Own(applied)' /\ Own(copy["naiserator"])'
    BY <1>1, <1>3 DEF IndInv, Owners, Own, Switching, Clients
  <2>3. Own(copy["run"])'
    BY <2>1, <1>1, <1>3 DEF Own, Switching
  <2> QED
    BY <2>1, <2>2, <2>3 DEF Owners, Clients
<1>8. Reported'
  BY <1>1, <1>2, <1>3 DEF IndInv, Reported, Switching
<1> QED
  BY <1>4, <1>5, <1>6, <1>7, <1>8 DEF IndInv

\* Every step keeps the invariant.
LEMMA StepsInv == IndInv /\ Next => IndInv'
<1> SUFFICES ASSUME IndInv, Next PROVE IndInv'
  OBVIOUS
<1> USE DEF IndInv
<1>1. CASE StartRun
  <2>1. TypeOK' /\ NoLostDeploy' /\ Copies' /\ Begun'
    BY <1>1, BoundsAreNumbers DEF StartRun, TypeOK, NoLostDeploy, Copies, Begun, Calls,
       platformVars
  <2>2. /\ runs \in Nat /\ runs' = runs + 1
        /\ UNCHANGED <<app, status, copy, applied>>
    BY <1>1 DEF StartRun, TypeOK, platformVars
  <2>3. \A a : Own(a) => a.cor \in 0..runs' /\ a.cor # runs'
    BY <2>2 DEF Own
  <2>4. Owners'
    BY <2>2, <2>3 DEF Owners, Own
  <2>5. status.cor \in 0..runs
    BY DEF Reported
  <2>6. Reported'
    BY <2>2, <2>5 DEF Reported
  <2> QED
    BY <2>1, <2>4, <2>6
<1>2. CASE GetApp
  <2>1. TypeOK'
    BY <1>2 DEF GetApp, Get, TypeOK, Calls, Clients, goal, platformVars
  <2>2. NoLostDeploy' /\ Copies' /\ Begun'
    BY <1>2 DEF GetApp, Get, TypeOK, Clients, NoLostDeploy, Copies, Begun, Calls, goal, platformVars
  <2>3. Owners' /\ Reported'
    BY <1>2 DEF GetApp, Get, TypeOK, Owners, Own, Reported, Switching, Clients, goal, platformVars
  <2> QED
    BY <2>1, <2>2, <2>3
<1>3. CASE UpdateApp
  BY <1>3, UpdateInv DEF UpdateApp
<1>4. CASE ForceResync
  <2>1. TypeOK'
    BY <1>4 DEF ForceResync, UpdateStatus, Conflict, TypeOK, Calls, Clients, goal, platformVars
  <2>2. NoLostDeploy' /\ Copies' /\ Begun'
    BY <1>4 DEF ForceResync, UpdateStatus, Conflict, TypeOK, Clients, NoLostDeploy, Copies,
                Begun, Calls, goal, platformVars
  <2>3. Owners' /\ Reported'
    BY <1>4 DEF ForceResync, UpdateStatus, Conflict, TypeOK, Owners, Own, Reported, Switching,
                Clients, goal, platformVars
  <2> QED
    BY <2>1, <2>2, <2>3
<1>5. CASE Retry \/ AwaitRollout \/ Fail
  <2>1. /\ UNCHANGED <<app, status, current, copy, goal, platformVars>>
        /\ pc \in Calls /\ pc' \in {"get", "done", "failed"}
    BY <1>5 DEF Retry, AwaitRollout, Fail, Calls
  <2>2. TypeOK' /\ NoLostDeploy' /\ Copies' /\ Begun'
    BY <2>1 DEF TypeOK, NoLostDeploy, Copies, Begun, Calls, goal, platformVars
  <2>3. Owners' /\ Reported'
    BY <2>1 DEF Owners, Own, Reported, Switching, goal, platformVars
  <2> QED
    BY <2>2, <2>3
<1>6. CASE LoseAnswer
  BY <1>6, UpdateInv DEF LoseAnswer
<1>7. CASE Reconcile
  <2>1. TypeOK'
    BY <1>7 DEF Reconcile, Get, TypeOK, Clients, goal, runVars
  <2>2. NoLostDeploy' /\ Copies' /\ Begun'
    BY <1>7 DEF Reconcile, Get, TypeOK, Clients, NoLostDeploy, Copies, Begun, goal, runVars
  <2>3. Owners' /\ Reported'
    BY <1>7 DEF Reconcile, Get, TypeOK, Owners, Own, Reported, Switching, Clients, goal, runVars
  <2> QED
    BY <2>1, <2>2, <2>3
<1>8. CASE Apply \/ FailToApply
  <2>1. TypeOK' /\ NoLostDeploy' /\ Copies' /\ Begun'
    BY <1>8 DEF Apply, FailToApply, TypeOK, States, Clients, NoLostDeploy, Copies, Begun, goal,
       runVars
  <2>2. Owners' /\ Reported'
    BY <1>8 DEF Apply, FailToApply, Owners, Own, Reported, Switching, Clients, goal, runVars
  <2> QED
    BY <2>1, <2>2
<1>9. CASE Report
  <2> DEFINE new == [hash  |-> IF sync = "failed" THEN status.hash ELSE Hash(copy["naiserator"]),
                     cor   |-> copy["naiserator"].cor,
                     state |-> sync]
  <2>1. /\ copy["naiserator"] \in Apps /\ sync \in States
        /\ sync = "synchronized" => applied = copy["naiserator"]
        /\ sync' = "idle" /\ UNCHANGED <<app, copy, applied, deploys, pc, goal>>
        /\ current' \subseteq current \cup {"naiserator"}
        /\ \/ status' = status /\ current' = current
           \/ status' = new /\ "naiserator" \in current
    BY <1>9 DEF Report, UpdateStatus, Conflict, TypeOK, Copies, Clients, runVars
  <2>2. new \in [hash : Hashes \cup {Resync}, cor : 0..MaxRuns, state : States]
    BY <2>1, HashOfApp DEF Apps, TypeOK
  <2>3. \/ status' = status
        \/ /\ status'.cor = copy["naiserator"].cor /\ app = copy["naiserator"]
           /\ status'.state = "synchronized" => app = applied
    BY <2>1 DEF Copies
  <2>4. TypeOK'
    BY <2>1, <2>2 DEF TypeOK, goal
  <2>5. NoLostDeploy' /\ Copies' /\ Begun'
    BY <2>1 DEF NoLostDeploy, Copies, Begun, goal
  <2>6. Owners'
    BY <2>1 DEF Owners, Own, Switching, goal
  <2>7. Reported'
    <3>1. CASE status' = status
      BY <2>1, <3>1 DEF Reported, Switching, goal
    <3>2. CASE /\ status'.cor = copy["naiserator"].cor /\ app = copy["naiserator"]
               /\ status'.state = "synchronized" => app = applied
      BY <2>1, <3>2 DEF Reported, Owners, Own, Switching, goal
    <3> QED
      BY <2>3, <3>1, <3>2
  <2> QED
    BY <2>4, <2>5, <2>6, <2>7
<1>10. CASE Deploy
  <2>1. PICK inst \in {Source, Target}, cascade \in BOOLEAN :
          app' = [inst |-> inst, cascade |-> cascade, image |-> deploys + 1, cor |-> 0]
    BY <1>10 DEF Deploy
  <2>2. app' \in Apps /\ deploys' \in 0..MaxDeploys
    BY <1>10, <2>1, BoundsAreNumbers DEF Deploy, Apps, TypeOK
  <2>3. TypeOK'
    BY <1>10, <2>2 DEF Deploy, TypeOK, goal, runVars
  <2>4. NoLostDeploy' /\ Copies' /\ Begun'
    BY <1>10, <2>1 DEF Deploy, TypeOK, NoLostDeploy, Copies, Begun, goal, runVars
  <2>5. Owners' /\ Reported'
    BY <1>10, <2>1, BoundsAreNumbers DEF Deploy, TypeOK, Begun, Owners, Own, Reported, Switching,
       goal, runVars
  <2> QED
    BY <2>3, <2>4, <2>5
<1> QED
  BY <1>1, <1>2, <1>3, <1>4, <1>5, <1>6, <1>7, <1>8, <1>9, <1>10 DEF Next

\* The invariant is one of every reachable state.
LEMMA InvHolds == Spec => []IndInv
<1>1. IndInv /\ UNCHANGED vars => IndInv'
  BY DEF IndInv, vars, TypeOK, NoLostDeploy, Copies, Begun, Owners, Own, Reported, Switching
<1> QED
  BY InitInv, StepsInv, <1>1, PTL DEF Spec

\* Every variable has its type, and only a switch waits.
THEOREM TypesHold == Spec => []TypeOK
<1>1. IndInv => TypeOK
  BY DEF IndInv
<1> QED
  BY InvHolds, <1>1, PTL

\* The programs' updates never take a deploy of the team back, however they are
\* interleaved with deploys and naiserator, and whichever of them is repeated.
THEOREM DeploysKept == Spec => []NoLostDeploy
<1>1. IndInv => NoLostDeploy
  BY DEF IndInv
<1> QED
  BY InvHolds, <1>1, PTL

\* A switch that ends well has seen naiserator apply the target, unless there was a
\* deploy since it began.
THEOREM OwnRolloutAwaited == Spec => AwaitsOwnRollout
<1>1. ASSUME IndInv, [Next]_vars, pc = "poll", pc' = "done"
      PROVE  applied.inst = Target \/ deploys > before
  <2>1. status.cor = runs /\ status.state = "synchronized"
    BY <1>1 DEF Next, StartRun, GetApp, UpdateApp, ForceResync, Retry, AwaitRollout, Fail,
                LoseAnswer, Reconcile, Apply, FailToApply, Report, Deploy, runVars, vars
  <2>2. Switching
    BY <1>1 DEF IndInv, TypeOK, Begun, Calls, Switching
  <2> QED
    BY <1>1, <2>1, <2>2 DEF IndInv, Reported
<1>2. IndInv /\ [Next]_vars =>
        [pc = "poll" /\ pc' = "done" => applied.inst = Target \/ deploys > before]_vars
  BY <1>1
<1> QED
  BY InvHolds, <1>2, PTL DEF Spec, AwaitsOwnRollout
=============================================================================
