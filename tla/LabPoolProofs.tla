--------------------------- MODULE LabPoolProofs ---------------------------
(* Theorems about LabPool for every set of sessions, users, accounts, workers, *)
(* and whatever the environment does: type correctness, and no resurrection.   *)
EXTENDS LabPool, TLAPS

-----------------------------------------------------------------------------
(* Type correctness, whatever the environment does                           *)

LEMMA TypeInit == Init => TypeOK
  BY LaunchAssumption DEF Init, TypeOK, LaunchSteps, SessionStatus, DeploySteps,
     Teardowns, NoTeardown

LEMMA TypeLaunch ==
  ASSUME TypeOK, NEW s \in Sessions, LaunchStep(s)
  PROVE  TypeOK'
<1> USE LaunchAssumption DEF TypeOK, LaunchSteps, SessionStatus, DeploySteps,
        launchVars, sessionVars, poolVars, lockVars, workerVars, envVars, EndLaunch, ReleaseUserLock
<1>1. CASE Launch(s)
  BY <1>1 DEF Launch
<1>2. CASE AcquireLock(s)
  <2>1. lock' \in [Users -> Sessions \cup {None}]
    BY <1>2 DEF AcquireLock
  <2>2. pc' \in [Sessions -> LaunchSteps]
    BY <1>2 DEF AcquireLock
  <2> QED
    BY <1>2, <2>1, <2>2 DEF AcquireLock
<1>3. CASE RejectLaunch(s)
  BY <1>3 DEF RejectLaunch
<1>4. CASE ScanPool(s)
  BY <1>4 DEF ScanPool
<1>5. ASSUME NEW a \in Accounts, ClaimAccount(s, a)
      PROVE  TypeOK'
  <2>1. CASE pool[a] = "available"
    <3>1. /\ pool' \in [Accounts -> {"available", "leased", "warming"}]
          /\ holder' \in [Accounts -> Sessions \cup {None}]
      BY <1>5, <2>1 DEF ClaimAccount
    <3>2. account' \in [Sessions -> Accounts \cup {None}]
      BY <1>5, <2>1 DEF ClaimAccount
    <3>3. /\ pc' \in [Sessions -> LaunchSteps]
          /\ cand' \in [Sessions -> SUBSET Accounts]
      BY <1>5, <2>1 DEF ClaimAccount
    <3>4. UNCHANGED <<hot, status, expired, claim, warm, lock, noTtl, deploy,
                      tdQueue, td, warming, snap, env, prebuilt>>
      BY <1>5 DEF ClaimAccount
    <3> QED
      BY <3>1, <3>2, <3>3, <3>4
  <2>2. CASE pool[a] # "available"
    BY <1>5, <2>2 DEF ClaimAccount
  <2> QED
    BY <2>1, <2>2
<1>6. CASE NoCapacity(s)
  BY <1>6 DEF NoCapacity
<1>7. CASE RecordSession(s)
  BY <1>7 DEF RecordSession
<1>8. CASE LeaseThrows(s)
  BY <1>8 DEF LeaseThrows
<1>9. CASE BindAndDispatch(s)
  <2>1. lock' \in [Users -> Sessions \cup {None}] /\ noTtl' \in SUBSET Users
    BY <1>9 DEF BindAndDispatch
  <2>2. deploy' \in [Sessions -> DeploySteps]
    BY <1>9 DEF BindAndDispatch
  <2> QED
    BY <1>9, <2>1, <2>2 DEF BindAndDispatch
<1>10. CASE LaunchDies(s)
  BY <1>10 DEF LaunchDies
<1> QED
  BY <1>1, <1>2, <1>3, <1>4, <1>5, <1>6, <1>7, <1>8, <1>9, <1>10 DEF LaunchStep


LEMMA TypeDeploy ==
  ASSUME TypeOK, NEW s \in Sessions, DeployStep(s)
  PROVE  TypeOK'
<1> USE LaunchAssumption DEF TypeOK, LaunchSteps, SessionStatus, DeploySteps,
        launchVars, sessionVars, poolVars, lockVars, workerVars, envVars, ReleaseAccount, ReleaseUserLock
<1>1. CASE DeployStarts(s)
  BY <1>1 DEF DeployStarts
<1>2. CASE DeploySucceeds(s)
  BY <1>2 DEF DeploySucceeds
<1>3. CASE DeployFails(s)
  <2>1. env' \in [Accounts -> SUBSET Sessions]
    BY <1>3 DEF DeployFails
  <2>2. status' \in [Sessions -> SessionStatus]
    BY <1>3 DEF DeployFails
  <2>3. UNCHANGED <<pc, cand, hot, account, expired, claim, pool, holder, warm, lock,
                   noTtl, tdQueue, td, warming, snap, prebuilt>>
    BY <1>3 DEF DeployFails
  <2>4. deploy' \in [Sessions -> DeploySteps]
    BY <1>3 DEF DeployFails
  <2> QED
    BY <2>1, <2>2, <2>3, <2>4
<1>4. CASE DeployReleases(s)
  <2>1. CASE ReleaseAccount(account[s])
    BY <1>4, <2>1 DEF DeployReleases
  <2>2. CASE UNCHANGED poolVars
    BY <1>4, <2>2 DEF DeployReleases
  <2> QED
    BY <1>4, <2>1, <2>2 DEF DeployReleases
<1>5. CASE DeployUnlocks(s)
  BY <1>5 DEF DeployUnlocks
<1>6. CASE DeployDies(s)
  BY <1>6 DEF DeployDies
<1> QED
  BY <1>1, <1>2, <1>3, <1>4, <1>5, <1>6 DEF DeployStep

LEMMA TypeRequest ==
  ASSUME TypeOK, NEW s \in Sessions, TeardownRequest(s)
  PROVE  TypeOK'
<1> USE DEF TypeOK, LaunchSteps, SessionStatus, DeploySteps,
        launchVars, sessionVars, poolVars, lockVars, workerVars, envVars
<1>1. CASE EndLab(s)
  BY <1>1 DEF EndLab
<1>2. CASE ReapDispatch(s)
  BY <1>2 DEF ReapDispatch
<1>3. CASE TeardownIgnored(s)
  BY <1>3 DEF TeardownIgnored
<1>4. CASE TeardownLost(s)
  BY <1>4 DEF TeardownLost
<1> QED
  BY <1>1, <1>2, <1>3, <1>4 DEF TeardownRequest

LEMMA TypeTeardown ==
  ASSUME TypeOK, NEW w \in Workers, TeardownStep(w)
  PROVE  TypeOK'
<1> USE LaunchAssumption DEF TypeOK, LaunchSteps, SessionStatus, DeploySteps,
        launchVars, sessionVars, poolVars, lockVars, workerVars, envVars,
        ReleaseAccount, ReleaseUserLock
<1>1. ASSUME NEW s \in Sessions, TeardownStarts(w, s)
      PROVE  TypeOK'
  BY <1>1 DEF TeardownStarts, ClaimTeardown, Teardowns
<1>2. CASE Wipe(w)
  <2> DEFINE s == td[w].sid
  <2>1. status' \in [Sessions -> SessionStatus]
    BY <1>2 DEF Wipe
  <2>2. env' \in [Accounts -> SUBSET Sessions]
    BY <1>2 DEF Wipe
  <2>3. NoTeardown \in Teardowns /\ [td[w] EXCEPT !.step = "return"] \in Teardowns
    <3>1. td[w] \in Teardowns /\ td[w].step = "wipe"
      BY <1>2 DEF Wipe
    <3> QED
      BY <3>1 DEF Teardowns, NoTeardown
  <2>4. td' \in [Workers -> Teardowns]
    BY <1>2, <2>3 DEF Wipe
  <2> QED
    BY <1>2, <2>1, <2>2, <2>4 DEF Wipe
<1>3. CASE ReturnAccount(w)
  <2>1. td' \in [Workers -> Teardowns]
    BY <1>3 DEF ReturnAccount, Teardowns, NoTeardown
  <2> QED
    BY <1>3, <2>1 DEF ReturnAccount
<1>4. CASE Settle(w)
  <2>1. td[w] \in Teardowns /\ td[w].step = "settle"
    BY <1>4 DEF Settle
  <2>2. td[w].sid \in Sessions /\ [td[w] EXCEPT !.step = "unlock"] \in Teardowns
    BY <2>1 DEF Teardowns, NoTeardown
  <2>3. td' \in [Workers -> Teardowns]
    BY <1>4, <2>2 DEF Settle
  <2> QED
    BY <1>4, <2>2, <2>3 DEF Settle
<1>5. CASE Unlock(w)
  BY <1>5 DEF Unlock, Teardowns
<1>6. CASE TeardownDies(w)
  <2>1. tdQueue' \in SUBSET Sessions
    BY <1>6 DEF TeardownDies, Teardowns, NoTeardown
  <2>2. td' \in [Workers -> Teardowns]
    BY <1>6 DEF TeardownDies, Teardowns
  <2> QED
    BY <1>6, <2>1, <2>2 DEF TeardownDies
<1> QED
  BY <1>1, <1>2, <1>3, <1>4, <1>5, <1>6 DEF TeardownStep

LEMMA TypeSweep ==
  ASSUME TypeOK, HealStep \/ (\E a \in Accounts : WarmStep(a)) \/ TimeStep
  PROVE  TypeOK'
<1> USE DEF TypeOK, LaunchSteps, SessionStatus, DeploySteps,
        launchVars, sessionVars, poolVars, lockVars, workerVars, envVars,
        ReleaseAccount, ReleaseUserLock
<1>1. CASE HealScan
  BY <1>1 DEF HealScan
<1>2. ASSUME NEW a \in Accounts, HealReleases(a)
      PROVE  TypeOK'
  BY <1>2 DEF HealReleases
<1>3. ASSUME NEW a \in Accounts, NEW w \in Workers, HealTearsDown(w, a)
      PROVE  TypeOK'
  BY <1>3 DEF HealTearsDown, ClaimTeardown, Teardowns
<1>4. ASSUME NEW a \in Accounts, WarmStep(a)
      PROVE  TypeOK'
  <2>1. CASE WarmClaims(a)
    BY <2>1 DEF WarmClaims
  <2>2. CASE WarmEnds(a)
    BY <2>2 DEF WarmEnds
  <2>3. CASE WarmDies(a)
    BY <2>3 DEF WarmDies
  <2> QED
    BY <1>4, <2>1, <2>2, <2>3 DEF WarmStep
<1>5. ASSUME NEW s \in Sessions, Expire(s) \/ ClaimGrowsStale(s)
      PROVE  TypeOK'
  <2>1. CASE Expire(s)
    BY <2>1 DEF Expire
  <2>2. CASE ClaimGrowsStale(s)
    BY <2>2 DEF ClaimGrowsStale
  <2> QED
    BY <1>5, <2>1, <2>2
<1>6. ASSUME NEW u \in Users, LockExpires(u)
      PROVE  TypeOK'
  BY <1>6 DEF LockExpires
<1> QED
  BY <1>1, <1>2, <1>3, <1>4, <1>5, <1>6 DEF HealStep, TimeStep

LEMMA TypeStep == TypeOK /\ [Next]_vars => TypeOK'
<1> SUFFICES ASSUME TypeOK, [Next]_vars
             PROVE  TypeOK'
  OBVIOUS
<1>1. CASE UNCHANGED vars
  BY <1>1 DEF TypeOK, vars, launchVars, sessionVars, poolVars, lockVars, workerVars, envVars
<1>2. CASE Next
  BY <1>2, TypeLaunch, TypeDeploy, TypeRequest, TypeTeardown, TypeSweep DEF Next
<1> QED
  BY <1>1, <1>2

\* Every table row, request, worker and queue keeps the shape the code gives it.
THEOREM TypeCorrect == Spec => []TypeOK
  BY TypeInit, TypeStep, PTL DEF Spec

-----------------------------------------------------------------------------
(* No resurrection, whatever the environment does                            *)

\* Nothing works for a launch that has not recorded its session yet.
FreshInv ==
  \A s \in Sessions :
    pc[s] \in {"idle", "lock", "check", "claim", "record"} =>
      status[s] = "none" /\ deploy[s] = "none" /\ ~TearingDown(s)

\* What NoZombie says of a step.
NoZombieStep ==
  \A s \in Sessions :
    status'[s] = "active" => status[s] \in {"none", "leasing", "active"}

LEMMA FreshLaunch ==
  ASSUME TypeOK, FreshInv, NEW s \in Sessions, LaunchStep(s)
  PROVE  FreshInv' /\ NoZombieStep
<1> USE DEF TypeOK, FreshInv, NoZombieStep, TearingDown, sessionVars, workerVars
<1>1. CASE RecordSession(s)
  BY <1>1 DEF RecordSession
<1>2. ASSUME NEW a \in Accounts, ClaimAccount(s, a)
      PROVE  FreshInv' /\ NoZombieStep
  BY <1>2 DEF ClaimAccount
<1>3. CASE Launch(s) \/ AcquireLock(s) \/ ScanPool(s)
  BY <1>3 DEF Launch, AcquireLock, ScanPool
<1>4. CASE RejectLaunch(s) \/ NoCapacity(s) \/ LeaseThrows(s)
  BY <1>4 DEF RejectLaunch, NoCapacity, LeaseThrows, EndLaunch
<1>5. CASE BindAndDispatch(s) \/ LaunchDies(s)
  BY <1>5 DEF BindAndDispatch, LaunchDies, EndLaunch
<1> QED
  BY <1>1, <1>2, <1>3, <1>4, <1>5 DEF LaunchStep

LEMMA FreshDeploy ==
  ASSUME TypeOK, FreshInv, NEW s \in Sessions, DeployStep(s)
  PROVE  FreshInv' /\ NoZombieStep
<1> USE DEF TypeOK, FreshInv, NoZombieStep, TearingDown, launchVars, sessionVars
<1>1. CASE DeploySucceeds(s)
  BY <1>1 DEF DeploySucceeds
<1>2. CASE DeployFails(s)
  BY <1>2 DEF DeployFails
<1>3. CASE DeployStarts(s) \/ DeployReleases(s)
  BY <1>3 DEF DeployStarts, DeployReleases
<1>4. CASE DeployUnlocks(s) \/ DeployDies(s)
  BY <1>4 DEF DeployUnlocks, DeployDies
<1> QED
  BY <1>1, <1>2, <1>3, <1>4 DEF DeployStep

LEMMA FreshClaim ==
  ASSUME TypeOK, FreshInv, NEW w \in Workers, NEW s \in Sessions, ClaimTeardown(w, s),
         pc' = pc, deploy' = deploy
  PROVE  FreshInv' /\ NoZombieStep
<1>1. pc[s] \in {"bind", "over"}
  BY DEF ClaimTeardown, Claimable, TypeOK, FreshInv, LaunchSteps
<1>2. ASSUME NEW t \in Sessions, t # s
      PROVE  status'[t] = status[t] /\ (TearingDown(t)' => TearingDown(t))
  BY <1>2 DEF ClaimTeardown, TypeOK, TearingDown
<1>3. status'[s] = "ending"
  BY DEF ClaimTeardown, TypeOK
<1> QED
  BY <1>1, <1>2, <1>3 DEF FreshInv, NoZombieStep

\* A step of a teardown execution that only moves its own session on.
LEMMA FreshKept ==
  ASSUME FreshInv, NEW w \in Workers, td[w] # NoTeardown,
         \A v \in Workers : td'[v].sid = td[v].sid \/ td'[v].sid = None,
         pc' = pc, deploy' = deploy,
         \A t \in Sessions : \/ status'[t] = status[t]
                             \/ t = td[w].sid /\ status'[t] \in {"ending", "done"}
  PROVE  FreshInv' /\ NoZombieStep
  BY NoneAssumption DEF FreshInv, NoZombieStep, TearingDown

LEMMA FreshTeardown ==
  ASSUME TypeOK, FreshInv, NEW w \in Workers, TeardownStep(w)
  PROVE  FreshInv' /\ NoZombieStep
<1>1. ASSUME NEW t \in Sessions, TeardownStarts(w, t)
      PROVE  FreshInv' /\ NoZombieStep
  BY <1>1, FreshClaim DEF TeardownStarts, launchVars
<1>2. ASSUME NEW x \in {"return", "settle", "unlock"},
             td[w] # NoTeardown, td' = [td EXCEPT ![w].step = x]
      PROVE  \A v \in Workers : td'[v].sid = td[v].sid
  BY <1>2 DEF TypeOK, Teardowns, NoTeardown
<1>3. ASSUME td' = [td EXCEPT ![w] = NoTeardown]
      PROVE  \A v \in Workers : td'[v].sid = td[v].sid \/ td'[v].sid = None
  BY <1>3 DEF TypeOK, NoTeardown
<1>4. CASE Wipe(w)
  <2>1. \A t \in Sessions : \/ status'[t] = status[t]
                            \/ t = td[w].sid /\ status'[t] \in {"ending", "done"}
    BY <1>4 DEF Wipe, TypeOK
  <2>2. td[w] # NoTeardown /\ pc' = pc /\ deploy' = deploy
    BY <1>4 DEF Wipe, NoTeardown, launchVars
  <2>3. \A v \in Workers : td'[v].sid = td[v].sid \/ td'[v].sid = None
    BY <1>2, <1>3, <1>4, <2>2 DEF Wipe
  <2> QED
    BY <2>1, <2>2, <2>3, FreshKept
<1>5. CASE ReturnAccount(w)
  <2>1. td[w] # NoTeardown /\ UNCHANGED <<pc, deploy, status>>
    BY <1>5 DEF ReturnAccount, NoTeardown, launchVars, sessionVars
  <2>2. \A v \in Workers : td'[v].sid = td[v].sid
    BY <1>2, <1>5, <2>1 DEF ReturnAccount
  <2> QED
    BY <2>1, <2>2, FreshKept
<1>6. CASE Settle(w)
  <2>1. \A t \in Sessions : \/ status'[t] = status[t]
                            \/ t = td[w].sid /\ status'[t] \in {"ending", "done"}
    BY <1>6 DEF Settle, TypeOK
  <2>2. td[w] # NoTeardown /\ pc' = pc /\ deploy' = deploy
    BY <1>6 DEF Settle, NoTeardown, launchVars
  <2>3. \A v \in Workers : td'[v].sid = td[v].sid
    BY <1>2, <1>6, <2>2 DEF Settle
  <2> QED
    BY <2>1, <2>2, <2>3, FreshKept
<1>7. CASE Unlock(w) \/ TeardownDies(w)
  <2>1. td[w] # NoTeardown /\ UNCHANGED <<pc, deploy, status>>
    BY <1>7 DEF Unlock, TeardownDies, NoTeardown, launchVars, sessionVars
  <2>2. \A v \in Workers : td'[v].sid = td[v].sid \/ td'[v].sid = None
    BY <1>3, <1>7 DEF Unlock, TeardownDies
  <2> QED
    BY <2>1, <2>2, FreshKept
<1> QED
  BY <1>1, <1>4, <1>5, <1>6, <1>7 DEF TeardownStep

LEMMA FreshSweep ==
  ASSUME TypeOK, FreshInv,
         \/ \E s \in Sessions : TeardownRequest(s)
         \/ HealStep
         \/ \E a \in Accounts : WarmStep(a)
         \/ TimeStep
  PROVE  FreshInv' /\ NoZombieStep
<1> USE DEF launchVars, sessionVars, workerVars
<1>1. ASSUME NEW s \in Sessions, EndLab(s)
      PROVE  FreshInv' /\ NoZombieStep
  BY <1>1 DEF EndLab, TypeOK, FreshInv, NoZombieStep, TearingDown
<1>2. ASSUME NEW a \in Accounts, NEW w \in Workers, HealTearsDown(w, a)
      PROVE  FreshInv' /\ NoZombieStep
  BY <1>2, FreshClaim DEF HealTearsDown, TypeOK
<1>3. ASSUME UNCHANGED <<pc, status, deploy, td>>
      PROVE  FreshInv' /\ NoZombieStep
  BY <1>3 DEF FreshInv, NoZombieStep, TearingDown
<1>4. ASSUME NEW s \in Sessions, TeardownRequest(s)
      PROVE  FreshInv' /\ NoZombieStep
  BY <1>1, <1>3, <1>4 DEF TeardownRequest, ReapDispatch, TeardownIgnored, TeardownLost
<1>5. CASE HealStep
  BY <1>2, <1>3, <1>5 DEF HealStep, HealScan, HealReleases
<1>6. ASSUME NEW a \in Accounts, WarmStep(a)
      PROVE  FreshInv' /\ NoZombieStep
  BY <1>3, <1>6 DEF WarmStep, WarmClaims, WarmEnds, WarmDies
<1>7. CASE TimeStep
  BY <1>3, <1>7 DEF TimeStep, Expire, ClaimGrowsStale, LockExpires
<1> QED
  BY <1>4, <1>5, <1>6, <1>7

\* A session that was torn down or failed never becomes active again, whatever
\* overlaps: the condition of deployLab()'s last update is enough on its own.
THEOREM NeverResurrected == Spec => NoZombie
<1>1. Init => FreshInv
  BY NoneAssumption DEF Init, FreshInv, TearingDown, NoTeardown
<1>2. TypeOK /\ FreshInv /\ [Next]_vars => FreshInv' /\ (NoZombieStep \/ UNCHANGED vars)
  <2> SUFFICES ASSUME TypeOK, FreshInv, [Next]_vars
               PROVE  FreshInv' /\ (NoZombieStep \/ UNCHANGED vars)
    OBVIOUS
  <2>1. CASE Next
    BY <2>1, FreshLaunch, FreshDeploy, FreshTeardown, FreshSweep DEF Next
  <2>2. CASE UNCHANGED vars
    BY <2>2 DEF FreshInv, TearingDown, vars, launchVars, sessionVars, workerVars
  <2> QED
    BY <2>1, <2>2
<1>3. TypeOK /\ FreshInv /\ [Next]_vars =>
        [\A s \in Sessions :
           status'[s] = "active" => status[s] \in {"none", "leasing", "active"}]_vars
  BY <1>2 DEF NoZombieStep
<1> QED
  BY <1>1, <1>2, <1>3, TypeCorrect, PTL DEF Spec, NoZombie

=============================================================================
