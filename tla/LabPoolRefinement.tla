-------------------------- MODULE LabPoolRefinement --------------------------
(* LabPool implements AccountPool, for every set of sessions, users, accounts  *)
(* and workers, unless executions overlap, a failed deploy is not marked, or   *)
(* leaves its stack behind.  LeaseInv and CleanInv of                          *)
(* LabPoolIsolation say what the actions need: the account a launch claims is  *)
(* empty, and every release is by the worker that emptied it, or of an account *)
(* never built in.                                                             *)
EXTENDS LabPoolIsolation

Handing   == [a \in Accounts |-> Tenant(a)]
Serving   == {s \in Sessions : account[s] # None}
Promised  == <<Handing, env, Serving>>
Promise   == Pool!Next \/ UNCHANGED Promised

\* A step that touches neither the leases nor the accounts is none of the pool.
LEMMA Aside ==
  ASSUME UNCHANGED <<pool, holder, account, env>>
  PROVE  Promise
BY DEF Promise, Promised, Handing, Serving, Tenant

\* The tables say "leased" exactly when the pool has a tenant.
LEMMA TenantHolds ==
  ASSUME LeaseInv, CleanInv, NEW a \in Accounts
  PROVE  /\ Handing[a] = Tenant(a)
         /\ Handing[a] # None <=> pool[a] = "leased"
         /\ pool[a] = "leased" =>
              Handing[a] = holder[a] /\ holder[a] \in Sessions /\ env[a] \subseteq {holder[a]}
         /\ pool[a] # "leased" => env[a] = {}
BY DEF LeaseInv, TypeOK, PoolInv, CleanInv, Handing, Tenant

LEMMA HolderHolds ==
  ASSUME LeaseInv, CleanInv, NEW s \in Sessions, Holds(s)
  PROVE  /\ account[s] \in Accounts
         /\ Handing[account[s]] = s /\ s # None
         /\ env[account[s]] \subseteq {s}
BY NoneAssumption DEF LeaseInv, TypeOK, CleanInv, Holds, LeasedTo, Handing, Tenant

\* releaseAccount() of an account that is leased and empty.
LEMMA ReleaseReturns ==
  ASSUME LeaseInv, CleanInv, NEW a \in Accounts, pool[a] = "leased", env[a] = {},
         ReleaseAccount(a), UNCHANGED <<account, env>>
  PROVE  Promise
<1>1. Handing' = [Handing EXCEPT ![a] = None]
  BY DEF ReleaseAccount, Handing, Tenant, LeaseInv, TypeOK
<1>2. Pool!Return(a)
  BY <1>1, TenantHolds DEF Pool!Return, Handing, Serving
<1> QED
  BY <1>2 DEF Promise, Pool!Next

\* CreateStack, or the hand-over of a warm stack, in the account of its session.
LEMMA BuildBuilds ==
  ASSUME LeaseInv, CleanInv, NEW s \in Sessions, pool[account[s]] = "leased",
         holder[account[s]] = s, account[s] \in Accounts,
         env' = [env EXCEPT ![account[s]] = @ \cup {s}],
         UNCHANGED <<pool, holder, account>>
  PROVE  Promise
<1>1. Handing[account[s]] = s /\ s # None
  BY NoneAssumption DEF Handing, Tenant
<1>2. Pool!Build(account[s])
  BY <1>1 DEF Pool!Build, Handing, Serving, Tenant
<1> QED
  BY <1>2 DEF Promise, Pool!Next

LEMMA ClearClears ==
  ASSUME LeaseInv, CleanInv, NEW s \in Sessions, Holds(s),
         env' = [env EXCEPT ![account[s]] = {}],
         UNCHANGED <<pool, holder, account>>
  PROVE  Promise
<1>1. Pool!Clear(account[s])
  BY HolderHolds DEF Pool!Clear, Handing, Serving, Tenant
<1> QED
  BY <1>1, HolderHolds DEF Promise, Pool!Next

-----------------------------------------------------------------------------
LEMMA ClaimPromised ==
  ASSUME LeaseInv, CleanInv, NEW s \in Sessions, NEW a \in Accounts, ClaimAccount(s, a)
  PROVE  Promise
<1>1. CASE pool[a] = "available"
  <2>1. account[s] = None /\ Handing[a] = None /\ env[a] = {}
    BY <1>1, TenantHolds DEF ClaimAccount, LeaseInv, RowInv
  <2>2. Handing' = [Handing EXCEPT ![a] = s]
    BY <1>1 DEF ClaimAccount, Handing, Tenant, LeaseInv, TypeOK
  <2>3. Serving' = Serving \cup {s}
    BY <1>1, NoneAssumption DEF ClaimAccount, Serving, LeaseInv, TypeOK
  <2>4. Pool!Lease(a, s)
    BY <2>1, <2>2, <2>3 DEF Pool!Lease, Handing, Serving, ClaimAccount, envVars
  <2> QED
    BY <2>4 DEF Promise, Pool!Next
<1>2. CASE pool[a] # "available"
  BY <1>2, Aside DEF ClaimAccount, envVars
<1> QED
  BY <1>1, <1>2

LEMMA RecordPromised ==
  ASSUME LeaseInv, CleanInv, NEW s \in Sessions, RecordSession(s)
  PROVE  Promise
<1>1. LeasedTo(account[s], s) /\ account[s] \in Accounts
  BY DEF RecordSession, LeaseInv, TypeOK, RowInv
<1>2. CASE account[s] \in hot[s] \cap prebuilt
  BY <1>1, <1>2, BuildBuilds DEF RecordSession, LeasedTo, poolVars
<1>3. CASE account[s] \notin hot[s] \cap prebuilt
  <2>1. env' = env
    BY <1>1, <1>3 DEF RecordSession, LeaseInv, TypeOK
  <2> QED
    BY <2>1, Aside DEF RecordSession, poolVars
<1> QED
  BY <1>2, <1>3

LEMMA LaunchPromised ==
  ASSUME LeaseInv, CleanInv, NEW s \in Sessions, LaunchStep(s)
  PROVE  Promise
<1>1. ASSUME NEW a \in Accounts, ClaimAccount(s, a)
      PROVE  Promise
  BY <1>1, ClaimPromised
<1>2. CASE RecordSession(s)
  BY <1>2, RecordPromised
<1>3. CASE \/ Launch(s) \/ AcquireLock(s) \/ RejectLaunch(s) \/ ScanPool(s)
           \/ NoCapacity(s) \/ LeaseThrows(s) \/ BindAndDispatch(s) \/ LaunchDies(s)
  BY <1>3, Aside DEF Launch, AcquireLock, RejectLaunch, ScanPool, NoCapacity,
     LeaseThrows, BindAndDispatch, LaunchDies, sessionVars, poolVars, envVars
<1> QED
  BY <1>1, <1>2, <1>3 DEF LaunchStep

LEMMA DeployPromised ==
  ASSUME Undisturbed, NoStackLeft, LeaseInv, CleanInv, NEW s \in Sessions, DeployStep(s)
  PROVE  Promise
<1>1. CASE DeployStarts(s)
  <2>1. Holds(s)
    BY <1>1 DEF DeployStarts, LeaseInv, BuildInv, UseInv, InUse
  <2> QED
    BY <1>1, <2>1, HolderHolds, BuildBuilds DEF DeployStarts, Holds, LeasedTo,
       sessionVars, poolVars
<1>2. CASE DeployFails(s)
  <2>1. CASE UNCHANGED env
    BY <1>2, <2>1, Aside DEF DeployFails, poolVars
  <2>2. CASE deploy[s] = "building" /\ env' = [env EXCEPT ![account[s]] = @ \ {s}]
    <3>1. Holds(s)
      BY <2>2 DEF LeaseInv, BuildInv, UseInv, InUse
    <3>2. env' = [env EXCEPT ![account[s]] = {}]
      <4>1. env[account[s]] \ {s} = {}
        BY <3>1, HolderHolds
      <4> QED
        BY <2>2, <4>1
    <3> QED
      BY <1>2, <3>1, <3>2, ClearClears DEF DeployFails, poolVars
  <2> QED
    BY <1>2, <2>1, <2>2 DEF DeployFails
<1>3. CASE DeployReleases(s)
  <2>1. Holds(s) /\ status[s] = "error"
    BY <1>3 DEF DeployReleases, LeaseInv, BuildInv
  <2>2. env[account[s]] = {}
    BY <2>1 DEF LeaseInv, CleanInv, Untouched
  <2>3. CASE ReleaseAccount(account[s])
    BY <1>3, <2>1, <2>2, <2>3, HolderHolds, ReleaseReturns DEF DeployReleases, Holds,
       LeasedTo, sessionVars, envVars
  <2>4. CASE UNCHANGED poolVars
    BY <1>3, <2>4, Aside DEF DeployReleases, sessionVars, poolVars, envVars
  <2> QED
    BY <1>3, <2>3, <2>4 DEF DeployReleases
<1>4. CASE DeploySucceeds(s) \/ DeployUnlocks(s) \/ DeployDies(s)
  BY <1>4, Aside DEF DeploySucceeds, DeployUnlocks, DeployDies, sessionVars,
     poolVars, envVars
<1> QED
  BY <1>1, <1>2, <1>3, <1>4 DEF DeployStep

LEMMA RequestPromised ==
  ASSUME NEW s \in Sessions, TeardownRequest(s)
  PROVE  Promise
BY Aside DEF TeardownRequest, EndLab, ReapDispatch, TeardownIgnored,
   TeardownLost, sessionVars, poolVars, envVars

LEMMA TeardownPromised ==
  ASSUME LeaseInv, CleanInv, NEW w \in Workers, TeardownStep(w)
  PROVE  Promise
<1>1. ASSUME NEW s \in Sessions, TeardownStarts(w, s)
      PROVE  Promise
  BY <1>1, Aside DEF TeardownStarts, ClaimTeardown, poolVars, envVars
<1>2. CASE Wipe(w)
  <2>1. td[w].sid \in Sessions /\ Holds(td[w].sid)
    BY <1>2, WorkerShape DEF Wipe, LeaseInv, TeardownInv, TeardownHolds, NoTeardown
  <2>2. CASE env' = [env EXCEPT ![account[td[w].sid]] = {}]
    BY <1>2, <2>1, <2>2, ClearClears DEF Wipe, poolVars
  <2>3. CASE UNCHANGED envVars
    BY <1>2, <2>3, Aside DEF Wipe, poolVars, envVars
  <2> QED
    BY <1>2, <2>2, <2>3 DEF Wipe
<1>3. CASE ReturnAccount(w)
  <2>1. td[w].sid \in Sessions /\ Holds(td[w].sid)
    BY <1>3, WorkerShape DEF ReturnAccount, LeaseInv, TeardownInv, TeardownHolds,
       NoTeardown
  <2>2. env[account[td[w].sid]] = {}
    BY <1>3 DEF ReturnAccount, LeaseInv, WipedInv
  <2> QED
    BY <1>3, <2>1, <2>2, HolderHolds, ReleaseReturns DEF ReturnAccount, Holds,
       LeasedTo, sessionVars, envVars
<1>4. CASE Settle(w) \/ Unlock(w) \/ TeardownDies(w)
  BY <1>4, Aside DEF Settle, Unlock, TeardownDies, sessionVars, poolVars, envVars
<1> QED
  BY <1>1, <1>2, <1>3, <1>4 DEF TeardownStep

LEMMA HealPromised ==
  ASSUME Undisturbed, NoStackLeft, LeaseInv, CleanInv, HealStep
  PROVE  Promise
<1>1. ASSUME NEW a \in Accounts, HealReleases(a)
      PROVE  Promise
  <2> DEFINE s == snap[a]
  <2>1. s \in Sessions /\ LeasedTo(a, s) /\ Settled(s)
    BY <1>1, QuietFaults DEF HealReleases, Drifted, LeaseInv, TypeOK
  <2>2. account[s] = a
    BY <2>1 DEF LeaseInv, PoolInv, LeasedTo
  <2>3. Holds(s) /\ status[s] = "error"
    BY <2>1, <2>2, NoneAssumption DEF Holds, Settled, LeaseInv, UseInv
  <2>4. env[a] = {}
    BY <2>1, <2>2, <2>3 DEF LeaseInv, CleanInv, Untouched
  <2> QED
    BY <1>1, <2>1, <2>4, ReleaseReturns DEF HealReleases, LeasedTo, sessionVars, envVars
<1>2. ASSUME NEW a \in Accounts, NEW w \in Workers, HealTearsDown(w, a)
      PROVE  Promise
  BY <1>2, Aside DEF HealTearsDown, ClaimTeardown, poolVars, envVars
<1>3. CASE HealScan
  BY <1>3, Aside DEF HealScan, sessionVars, poolVars, envVars
<1> QED
  BY <1>1, <1>2, <1>3 DEF HealStep

\* The warmer moves an account between two states in which nobody is its tenant.
LEMMA WarmPromised ==
  ASSUME LeaseInv, CleanInv, NEW a \in Accounts, WarmStep(a)
  PROVE  Promise
<1>1. UNCHANGED <<Handing, env, account>>
  BY DEF WarmStep, WarmClaims, WarmEnds, WarmDies, sessionVars, poolVars, envVars,
     Handing, Tenant, LeaseInv, TypeOK, PoolInv
<1> QED
  BY <1>1 DEF Promise, Promised, Serving

LEMMA TimePromised ==
  ASSUME TimeStep
  PROVE  Promise
BY Aside DEF TimeStep, Expire, ClaimGrowsStale, LockExpires, ReleaseUserLock,
   sessionVars, poolVars, envVars

-----------------------------------------------------------------------------
\* The engine without overlaps, and whose failed deploys mark their session and leave
\* no stack, is a pool that keeps its promise, for any number of sessions, users,
\* accounts and workers, whatever is lost, whoever dies, whatever release fails,
\* however old a scan of the pool and whatever lock times out.
THEOREM EngineIsPool ==
  ASSUME Undisturbed, NoStackLeft
  PROVE  Spec => PoolContract
<1>1. Init => Pool!Init
  BY DEF Init, Pool!Init, Tenant
<1>2. LeaseInv /\ CleanInv /\ [Next]_vars => [Pool!Next]_Promised
  <2> SUFFICES ASSUME LeaseInv, CleanInv, [Next]_vars
               PROVE  Promise
    BY DEF Promise
  <2>1. CASE UNCHANGED vars
    BY <2>1, Aside DEF vars, sessionVars, poolVars, envVars
  <2>2. CASE Next
    BY <2>2, LaunchPromised, DeployPromised, RequestPromised, TeardownPromised,
       HealPromised, WarmPromised, TimePromised DEF Next
  <2> QED
    BY <2>1, <2>2
<1>3. Spec => []LeaseInv /\ []CleanInv
  BY LeasesHold, AccountsClean
<1> QED
  BY <1>1, <1>2, <1>3, PTL DEF Spec, PoolContract, Pool!Spec, Promised, Handing, Serving

=============================================================================
