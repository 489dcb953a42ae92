-------------------------- MODULE LabPoolIsolation --------------------------
(* Theorems about LabPool for every set of sessions, users, accounts and       *)
(* workers, whatever is lost and whoever dies.  Each one names the races and   *)
(* failures that must not happen, and holds in the presence of all the others: *)
(*   nothing at all       a leased account names its session      (NameInv)    *)
(*   nothing at all       NobodyForgotten, while nothing is lost  (WatchInv)   *)
(*   no overlap, no lost mark    AccountExclusive, WipesOwnAccount (LeaseInv)  *)
(*   ... no stack left behind    an account is empty when leased   (CleanInv)  *)
(*   ... no stale scan           a session's environment is its own (WarmInv)  *)
(*   ... no early unlock         OneLiveSession                    (LockInv)   *)
(* LeaseInv is inductive by itself; each of the three other invariants is      *)
(* inductive on top of it, and independent of the two others.                  *)
EXTENDS LabPoolProofs

\* No two executions work for one session at a time, or for a session that has
\* given its account back: each of these races alone breaks AccountExclusive.
Overlaps == {"late_end", "end_mid_build", "slow_wipe", "stale_heal", "redelivery"}

\* ... and a failed deploy marks its session before it gives the account back.
Undisturbed == Faults \cap (Overlaps \cup {"mark_lost"}) = {}

LEMMA QuietFaults ==
  ASSUME Undisturbed
  PROVE  /\ "late_end" \notin Faults /\ "end_mid_build" \notin Faults
         /\ "slow_wipe" \notin Faults /\ "stale_heal" \notin Faults
         /\ "redelivery" \notin Faults /\ "mark_lost" \notin Faults
  BY DEF Undisturbed, Overlaps

-----------------------------------------------------------------------------
(* Whatever races                                                          *)

\* The claims of lease() are the only steps that name a holder.
LEMMA NamesKept ==
  ASSUME NameInv, UNCHANGED account,
         \A s \in Sessions : pc'[s] \in {"idle", "lock", "check", "claim"} =>
                               pc[s] \in {"idle", "lock", "check", "claim"},
         \A a \in Accounts : pool'[a] = "leased" =>
                               pool[a] = "leased" /\ holder'[a] = holder[a]
  PROVE  NameInv'
BY DEF NameInv

LEMMA ClaimNames ==
  ASSUME TypeOK, NameInv, NEW s \in Sessions, NEW a \in Accounts, ClaimAccount(s, a)
  PROVE  NameInv'
<1>1. CASE pool[a] = "available"
  <2>1. /\ pc' = [pc EXCEPT ![s] = "record"]
        /\ account' = [account EXCEPT ![s] = a]
        /\ pool' = [pool EXCEPT ![a] = "leased"]
        /\ holder' = [holder EXCEPT ![a] = s]
    BY <1>1 DEF ClaimAccount
  <2>2. ASSUME NEW t \in Sessions, pc'[t] \in {"idle", "lock", "check", "claim"}
        PROVE  account'[t] = None
    BY <2>1, <2>2 DEF TypeOK, NameInv
  <2>3. ASSUME NEW b \in Accounts, pool'[b] = "leased"
        PROVE  holder'[b] # None /\ account'[holder'[b]] = b
    <3>1. CASE b = a
      BY <2>1, <3>1, NoneAssumption DEF TypeOK
    <3>2. CASE b # a
      <4>1. pool[b] = "leased" /\ holder'[b] = holder[b] /\ holder[b] \in Sessions
        BY <2>1, <2>3, <3>2 DEF TypeOK, NameInv
      <4>2. holder[b] # s
        BY <4>1, NoneAssumption DEF ClaimAccount, NameInv
      <4> QED
        BY <2>1, <4>1, <4>2 DEF TypeOK, NameInv
    <3> QED
      BY <3>1, <3>2
  <2> QED
    BY <2>2, <2>3 DEF NameInv
<1>2. CASE pool[a] # "available"
  BY <1>2, NamesKept DEF ClaimAccount
<1> QED
  BY <1>1, <1>2

LEMMA LaunchNames ==
  ASSUME TypeOK, NameInv, NEW s \in Sessions, LaunchStep(s)
  PROVE  NameInv'
<1>1. ASSUME NEW a \in Accounts, ClaimAccount(s, a)
      PROVE  NameInv'
  BY <1>1, ClaimNames
<1>2. CASE \/ Launch(s) \/ AcquireLock(s) \/ ScanPool(s) \/ RecordSession(s)
           \/ BindAndDispatch(s) \/ LaunchDies(s)
  BY <1>2, NamesKept DEF Launch, AcquireLock, ScanPool, RecordSession,
     BindAndDispatch, LaunchDies, EndLaunch, TypeOK, sessionVars, poolVars
<1>3. CASE RejectLaunch(s) \/ NoCapacity(s) \/ LeaseThrows(s)
  BY <1>3, NamesKept DEF RejectLaunch, NoCapacity, LeaseThrows, EndLaunch,
     TypeOK, sessionVars, poolVars
<1> QED
  BY <1>1, <1>2, <1>3 DEF LaunchStep

\* Everybody else leaves the holders alone, or takes an account out of "leased".
LEMMA OthersName ==
  ASSUME TypeOK, NameInv, UNCHANGED <<pc, account>>,
         \A a \in Accounts : \/ pool'[a] # "leased"
                             \/ pool'[a] = pool[a] /\ holder'[a] = holder[a]
  PROVE  NameInv'
BY NamesKept

LEMMA NameStep == TypeOK /\ NameInv /\ [Next]_vars => NameInv'
<1> SUFFICES ASSUME TypeOK, NameInv, [Next]_vars
             PROVE  NameInv'
  OBVIOUS
<1>1. ASSUME NEW s \in Sessions, LaunchStep(s)
      PROVE  NameInv'
  BY <1>1, LaunchNames
<1>2. ASSUME NEW s \in Sessions, DeployStep(s)
      PROVE  NameInv'
  BY <1>2, OthersName DEF DeployStep, DeployStarts, DeploySucceeds,
     DeployFails, DeployReleases, DeployUnlocks, DeployDies, ReleaseAccount,
     TypeOK, launchVars, sessionVars, poolVars
<1>3. ASSUME NEW s \in Sessions, TeardownRequest(s)
      PROVE  NameInv'
  BY <1>3, OthersName DEF TeardownRequest, EndLab, ReapDispatch,
     TeardownIgnored, TeardownLost, launchVars, sessionVars, poolVars
<1>4. ASSUME NEW w \in Workers, TeardownStep(w)
      PROVE  NameInv'
  <2>1. CASE ReturnAccount(w)
    BY <2>1, OthersName DEF ReturnAccount, ReleaseAccount, TypeOK, launchVars,
       sessionVars
  <2>2. CASE ~ReturnAccount(w)
    BY <1>4, <2>2, OthersName DEF TeardownStep, TeardownStarts, ClaimTeardown,
       Wipe, Settle, Unlock, TeardownDies, launchVars, sessionVars, poolVars
  <2> QED
    BY <2>1, <2>2
<1>5. CASE HealStep
  BY <1>5, OthersName DEF HealStep, HealScan, HealReleases, HealTearsDown,
     ClaimTeardown, ReleaseAccount, TypeOK, launchVars, sessionVars, poolVars
<1>6. ASSUME NEW a \in Accounts, WarmStep(a)
      PROVE  NameInv'
  BY <1>6, OthersName DEF WarmStep, WarmClaims, WarmEnds, WarmDies, TypeOK,
     launchVars, sessionVars, poolVars
<1>7. CASE TimeStep
  BY <1>7, OthersName DEF TimeStep, Expire, ClaimGrowsStale, LockExpires,
     launchVars, sessionVars, poolVars
<1>8. CASE UNCHANGED vars
  BY <1>8, OthersName DEF vars, launchVars, sessionVars, poolVars
<1> QED
  BY <1>1, <1>2, <1>3, <1>4, <1>5, <1>6, <1>7, <1>8 DEF Next

\* A leased account names the session it was leased to, and that session the account,
\* whoever dies, overlaps or comes late: what healPool() goes by is never wrong.
THEOREM HoldersNamed == Spec => []NameInv
<1>1. Init => NameInv
  BY DEF Init, NameInv
<1> QED
  BY <1>1, NameStep, TypeCorrect, PTL DEF Spec

-----------------------------------------------------------------------------
(* Whatever races, as long as nothing is lost                              *)

LEMMA WorkerShape ==
  ASSUME TypeOK, NEW w \in Workers
  PROVE  \/ td[w] = NoTeardown
         \/ /\ td[w].sid \in Sessions
            /\ td[w].step \in {"wipe", "return", "settle", "unlock"}
  BY DEF TypeOK, Teardowns

NoLosses == Faults \cap Losses = {}

LEMMA NothingLost ==
  ASSUME NoLosses
  PROVE  "end_lost" \notin Faults /\ "lease_crash" \notin Faults /\ "warm_crash" \notin Faults
  BY DEF NoLosses, Losses

\* A launch is at work on its account until the row exists.
LEMMA LaunchWatches ==
  ASSUME NoLosses, TypeOK, NameInv, WatchInv, NEW s \in Sessions, LaunchStep(s)
  PROVE  WatchInv'
<1>1. ASSUME NEW a \in Accounts, ClaimAccount(s, a)
      PROVE  WatchInv'
  BY <1>1 DEF ClaimAccount, WatchInv, Watched, InUse, Settled, TypeOK, workerVars
<1>2. CASE RecordSession(s)
  BY <1>2 DEF RecordSession, WatchInv, Watched, InUse, Settled, TypeOK, poolVars,
     workerVars
<1>3. CASE RejectLaunch(s) \/ NoCapacity(s) \/ LeaseThrows(s) \/ LaunchDies(s)
           \/ BindAndDispatch(s)
  <2>1. /\ pc[s] # "record" /\ pc' = [pc EXCEPT ![s] = "over"]
        /\ UNCHANGED <<sessionVars, poolVars, tdQueue, td, warming>>
    BY <1>3, NothingLost DEF RejectLaunch, NoCapacity, LeaseThrows, LaunchDies,
       BindAndDispatch, EndLaunch, workerVars
  <2> QED
    BY <2>1 DEF WatchInv, Watched, InUse, Settled, TypeOK, sessionVars, poolVars
<1>4. CASE Launch(s) \/ AcquireLock(s) \/ ScanPool(s)
  <2>1. /\ pc[s] # "record" /\ UNCHANGED <<sessionVars, poolVars, tdQueue, td, warming>>
        /\ \A t \in Sessions : t # s => pc'[t] = pc[t]
    BY <1>4 DEF Launch, AcquireLock, ScanPool, TypeOK, workerVars
  <2> QED
    BY <2>1 DEF WatchInv, Watched, InUse, Settled, sessionVars, poolVars
<1> QED
  BY <1>1, <1>2, <1>3, <1>4 DEF LaunchStep

LEMMA DeployWatches ==
  ASSUME TypeOK, WatchInv, NEW s \in Sessions, DeployStep(s)
  PROVE  WatchInv'
<1>1. /\ UNCHANGED <<pc, account, claim, tdQueue, td, warming>>
      /\ \A a \in Accounts : pool'[a] = "warming" => pool[a] = "warming"
      /\ \/ UNCHANGED status
         \/ status' = [status EXCEPT ![s] = "error"]
         \/ status[s] = "leasing" /\ status' = [status EXCEPT ![s] = "active"]
  BY DEF DeployStep, DeployStarts, DeploySucceeds, DeployFails, DeployReleases,
     DeployUnlocks, DeployDies, ReleaseAccount, TypeOK, launchVars, sessionVars,
     poolVars
<1> QED
  BY <1>1 DEF WatchInv, Watched, InUse, Settled, TypeOK

\* An event of "ending" that was never claimed can always be claimed: it is not
\* ignored, and only the loss of it takes it away.
LEMMA RequestWatches ==
  ASSUME NoLosses, TypeOK, WatchInv, NEW s \in Sessions, TeardownRequest(s)
  PROVE  WatchInv'
<1>1. UNCHANGED <<pc, account, claim, pool, td, warming>>
  BY DEF TeardownRequest, EndLab, ReapDispatch, TeardownIgnored, TeardownLost,
     launchVars, sessionVars, poolVars
<1>2. CASE EndLab(s)
  BY <1>1, <1>2, NothingLost DEF EndLab, WatchInv, Watched, InUse, Settled, TypeOK
<1>3. CASE ReapDispatch(s)
  BY <1>1, <1>3 DEF ReapDispatch, WatchInv, Watched, InUse, Settled, sessionVars
<1>4. CASE TeardownIgnored(s) \/ TeardownLost(s)
  <2>1. /\ status' = status /\ tdQueue' = tdQueue \ {s}
        /\ status[s] = "ending" => claim[s] # "none"
    BY <1>4, NothingLost DEF TeardownIgnored, TeardownLost, Claimable, InUse,
       sessionVars
  <2> QED
    BY <1>1, <2>1 DEF WatchInv, Watched, InUse, Settled
<1> QED
  BY <1>2, <1>3, <1>4 DEF TeardownRequest

LEMMA ClaimWatches ==
  ASSUME TypeOK, WatchInv, NEW w \in Workers, NEW s \in Sessions, ClaimTeardown(w, s),
         UNCHANGED <<pc, pool, warming>>, tdQueue' \in {tdQueue, tdQueue \ {s}}
  PROVE  WatchInv'
<1>1. ASSUME NEW t \in Sessions, account'[t] # None
      PROVE  Watched(t)'
  BY <1>1 DEF ClaimTeardown, WatchInv, Watched, InUse, Settled, TypeOK
<1>2. ASSUME NEW v \in Workers, td'[v].sid # None
      PROVE  claim'[td'[v].sid] # "none"
  <2>1. CASE v = w
    BY <2>1 DEF ClaimTeardown, TypeOK
  <2>2. CASE v # w
    BY <1>2, <2>2, WorkerShape DEF ClaimTeardown, WatchInv, TypeOK
  <2> QED
    BY <2>1, <2>2
<1> QED
  BY <1>1, <1>2 DEF WatchInv

LEMMA TeardownWatches ==
  ASSUME TypeOK, WatchInv, NEW w \in Workers, TeardownStep(w)
  PROVE  WatchInv'
<1>1. ASSUME NEW s \in Sessions, TeardownStarts(w, s)
      PROVE  WatchInv'
  BY <1>1, ClaimWatches DEF TeardownStarts, launchVars, poolVars
<1>2. CASE Wipe(w) \/ ReturnAccount(w) \/ Settle(w) \/ Unlock(w) \/ TeardownDies(w)
  <2>1. /\ UNCHANGED <<pc, account, claim, warming>>
        /\ tdQueue \subseteq tdQueue'
        /\ \A a \in Accounts : pool'[a] = "warming" => pool[a] = "warming"
    BY <1>2 DEF Wipe, ReturnAccount, Settle, Unlock, TeardownDies, ReleaseAccount,
       TypeOK, launchVars, sessionVars, poolVars
  <2>2. \A v \in Workers : td'[v].sid \in {td[v].sid, None}
    BY <1>2 DEF Wipe, ReturnAccount, Settle, Unlock, TeardownDies, NoTeardown,
       TypeOK, Teardowns
  <2>3. \/ UNCHANGED status
        \/ \E s \in Sessions : /\ claim[s] # "none"
                               /\ status' = [status EXCEPT ![s] = "ending"]
        \/ \E s \in Sessions : status' = [status EXCEPT ![s] = "done"]
    <3>1. td[w] # NoTeardown => td[w].sid \in Sessions /\ td[w].sid # None
      BY WorkerShape, NoneAssumption DEF TypeOK
    <3>2. CASE Wipe(w)
      <4>1. td[w].sid \in Sessions /\ claim[td[w].sid] # "none"
        BY <3>1, <3>2 DEF Wipe, WatchInv, NoTeardown
      <4> QED
        BY <3>2, <4>1 DEF Wipe
    <3>3. CASE Settle(w)
      <4>1. td[w].sid \in Sessions
        BY <3>1, <3>3 DEF Settle, NoTeardown
      <4> QED
        BY <3>3, <4>1 DEF Settle
    <3>4. CASE ReturnAccount(w) \/ Unlock(w) \/ TeardownDies(w)
      BY <3>4 DEF ReturnAccount, Unlock, TeardownDies, sessionVars
    <3> QED
      BY <1>2, <3>2, <3>3, <3>4
  <2>4. ASSUME NEW t \in Sessions, account'[t] # None
        PROVE  Watched(t)'
    BY <2>1, <2>3, <2>4 DEF WatchInv, Watched, InUse, Settled, TypeOK
  <2> QED
    BY <2>1, <2>2, <2>4 DEF WatchInv
<1> QED
  BY <1>1, <1>2 DEF TeardownStep

LEMMA HealWatches ==
  ASSUME TypeOK, WatchInv, HealStep
  PROVE  WatchInv'
<1>1. ASSUME NEW a \in Accounts, NEW w \in Workers, HealTearsDown(w, a)
      PROVE  WatchInv'
  BY <1>1, ClaimWatches DEF HealTearsDown, TypeOK, launchVars, poolVars
<1>2. CASE HealScan \/ \E a \in Accounts : HealReleases(a)
  <2>1. /\ UNCHANGED <<pc, sessionVars, tdQueue, td, warming>>
        /\ \A a \in Accounts : pool'[a] = "warming" => pool[a] = "warming"
    BY <1>2 DEF HealScan, HealReleases, ReleaseAccount, TypeOK, launchVars, poolVars
  <2> QED
    BY <2>1 DEF WatchInv, Watched, InUse, Settled, sessionVars
<1> QED
  BY <1>1, <1>2 DEF HealStep

LEMMA WatchStep ==
  ASSUME NoLosses
  PROVE  TypeOK /\ NameInv /\ WatchInv /\ [Next]_vars => WatchInv'
<1> SUFFICES ASSUME TypeOK, NameInv, WatchInv, [Next]_vars
             PROVE  WatchInv'
  OBVIOUS
<1>1. ASSUME NEW a \in Accounts, WarmStep(a)
      PROVE  WatchInv'
  <2>1. /\ UNCHANGED <<pc, sessionVars, tdQueue, td>>
        /\ \A b \in Accounts : pool'[b] = "warming" => b \in warming'
    BY <1>1, NothingLost DEF WarmStep, WarmClaims, WarmEnds, WarmDies, WatchInv,
       TypeOK, launchVars
  <2> QED
    BY <2>1 DEF WatchInv, Watched, InUse, Settled, sessionVars
<1>2. CASE TimeStep
  <2>1. /\ UNCHANGED <<pc, status, account, pool, tdQueue, td, warming>>
        /\ \A s \in Sessions : claim[s] # "none" => claim'[s] # "none"
    BY <1>2 DEF TimeStep, Expire, ClaimGrowsStale, LockExpires, TypeOK, launchVars,
       sessionVars, poolVars, workerVars
  <2>2. \A w \in Workers : td[w].sid # None => claim'[td[w].sid] # "none"
    BY <2>1, WorkerShape DEF WatchInv, NoTeardown
  <2> QED
    BY <2>1, <2>2 DEF WatchInv, Watched, InUse, Settled
<1>3. CASE UNCHANGED vars
  BY <1>3 DEF vars, WatchInv, Watched, InUse, Settled, launchVars, sessionVars,
     poolVars, workerVars
<1> QED
  BY <1>1, <1>2, <1>3, LaunchWatches, DeployWatches, RequestWatches,
     TeardownWatches, HealWatches DEF Next

\* As long as nothing is lost, every account out of the pool is on somebody's list:
\* the healer or the reaper will find it, whatever overlaps and whoever dies.
THEOREM NobodyIsForgotten ==
  ASSUME NoLosses
  PROVE  Spec => []NobodyForgotten
<1>1. Init => WatchInv
  BY DEF Init, WatchInv, NoTeardown
<1>2. TypeOK /\ NameInv /\ WatchInv /\ [Next]_vars => WatchInv'
  BY WatchStep
<1>3. TypeOK /\ NameInv /\ WatchInv => NobodyForgotten
  BY NoneAssumption DEF TypeOK, NameInv, WatchInv, NobodyForgotten
<1> QED
  BY <1>1, <1>2, <1>3, TypeCorrect, HoldersNamed, PTL DEF Spec

-----------------------------------------------------------------------------
(* The leases: LeaseInv, one lemma per action.  A part of LeaseInv that an     *)
(* action disturbs has a step of its own; the others share one.                *)

\* A step that leaves a teardown and its session alone keeps TeardownHolds.
LEMMA TeardownKept ==
  ASSUME TypeOK, NEW w \in Workers, TeardownHolds(w), td'[w] = td[w],
         \A t \in Sessions : t = td[w].sid =>
           /\ pc'[t] = pc[t] /\ deploy'[t] = deploy[t] /\ claim'[t] = claim[t]
           /\ status'[t] = status[t] /\ Holds(t)' = Holds(t)
  PROVE  TeardownHolds(w)'
<1>1. CASE td[w] = NoTeardown
  BY <1>1 DEF TeardownHolds, NoTeardown
<1>2. CASE td[w].sid \in Sessions
  BY <1>2 DEF TeardownHolds
<1> QED
  BY <1>1, <1>2, WorkerShape

-----------------------------------------------------------------------------
(* POST /launch                                                            *)

LEMMA LaunchKeeps ==
  ASSUME Undisturbed, LeaseInv, TypeOK', NEW s \in Sessions, Launch(s)
  PROVE  LeaseInv'
  BY DEF LeaseInv, Launch, RowInv, PoolInv, UseInv, BuildInv, TeardownInv,
     AloneInv, QueueInv, WipedInv, LeasedTo, InUse, Holds, TeardownHolds,
     Claimable, sessionVars, poolVars, workerVars, envVars

LEMMA AcquireLockKeeps ==
  ASSUME Undisturbed, LeaseInv, TypeOK', NEW s \in Sessions, AcquireLock(s)
  PROVE  LeaseInv'
<1>1. /\ RowInv' /\ PoolInv' /\ UseInv' /\ BuildInv' /\ AloneInv' /\ QueueInv'
      /\ WipedInv'
  BY LaunchAssumption, NoneAssumption DEF LeaseInv, TypeOK, AcquireLock,
     RowInv, PoolInv, UseInv, BuildInv, AloneInv, QueueInv, WipedInv,
     LeasedTo, InUse, Holds, Claimable, sessionVars, poolVars, workerVars,
     envVars
<1>2. TeardownInv'
  <2> SUFFICES ASSUME NEW v \in Workers
               PROVE  TeardownHolds(v)'
    BY DEF TeardownInv
  <2>1. td[v].sid # s
    BY NoneAssumption DEF LeaseInv, TeardownInv, TeardownHolds, AcquireLock
  <2> QED
    BY <2>1, TeardownKept DEF LeaseInv, TypeOK, TeardownInv, AcquireLock,
       sessionVars, poolVars, workerVars, Holds, LeasedTo
<1> QED
  BY <1>1, <1>2 DEF LeaseInv

LEMMA RejectLaunchKeeps ==
  ASSUME Undisturbed, LeaseInv, TypeOK', NEW s \in Sessions, RejectLaunch(s)
  PROVE  LeaseInv'
  BY DEF LeaseInv, RejectLaunch, RowInv, PoolInv, UseInv, BuildInv,
     TeardownInv, AloneInv, QueueInv, WipedInv, LeasedTo, InUse, Holds,
     TeardownHolds, Claimable, EndLaunch, ReleaseUserLock, sessionVars,
     poolVars, workerVars, envVars

LEMMA ScanPoolKeeps ==
  ASSUME Undisturbed, LeaseInv, TypeOK', NEW s \in Sessions, ScanPool(s)
  PROVE  LeaseInv'
  BY DEF LeaseInv, ScanPool, RowInv, PoolInv, UseInv, BuildInv, TeardownInv,
     AloneInv, QueueInv, WipedInv, LeasedTo, InUse, Holds, TeardownHolds,
     Claimable, sessionVars, poolVars, workerVars, envVars

LEMMA ClaimAccountKeeps ==
  ASSUME Undisturbed, LeaseInv, TypeOK', NEW s \in Sessions, NEW a \in Accounts,
         ClaimAccount(s, a)
  PROVE  LeaseInv'
<1>1. RowInv'
  BY QuietFaults, NoneAssumption DEF LeaseInv, TypeOK, ClaimAccount, RowInv,
     LeasedTo, NextTried
<1>2. PoolInv'
  <2>1. CASE pool[a] = "available"
    <3>1. ASSUME NEW b \in Accounts
          PROVE  IF pool'[b] = "leased"
                   THEN holder'[b] # None /\ account'[holder'[b]] = b
                   ELSE holder'[b] = None
      <4>1. CASE b = a
        BY <2>1, <4>1, NoneAssumption DEF ClaimAccount, LeaseInv, TypeOK
      <4>2. CASE b # a
        <5>1. pool'[b] = pool[b] /\ holder'[b] = holder[b]
          BY <2>1, <4>2 DEF ClaimAccount, LeaseInv, TypeOK
        <5>2. pool[b] = "leased" => holder[b] # s
          BY NoneAssumption DEF ClaimAccount, LeaseInv, RowInv, PoolInv
        <5> QED
          BY <2>1, <5>1, <5>2, NoneAssumption DEF ClaimAccount, LeaseInv,
             PoolInv, TypeOK
      <4> QED
        BY <4>1, <4>2
    <3>2. \A b \in warming' : pool'[b] = "warming"
      BY <2>1 DEF ClaimAccount, workerVars, LeaseInv, PoolInv, TypeOK
    <3> QED
      BY <3>1, <3>2 DEF PoolInv
  <2>2. CASE pool[a] # "available"
    BY <2>2 DEF ClaimAccount, workerVars, LeaseInv, PoolInv
  <2> QED
    BY <2>1, <2>2
<1>3. UseInv'
  <2> SUFFICES ASSUME NEW t \in Sessions
               PROVE  (InUse(t) => Holds(t))' /\ (status[t] = "done" => ~Holds(t))'
    BY DEF UseInv
  <2>1. CASE t = s
    BY <2>1 DEF LeaseInv, RowInv, ClaimAccount, InUse
  <2>2. CASE t # s
    <3>1. account'[t] = account[t] /\ status'[t] = status[t]
      BY <2>2 DEF ClaimAccount, LeaseInv, TypeOK
    <3>2. Holds(t)' <=> Holds(t)
      BY <2>2, <3>1, NoneAssumption DEF Holds, LeasedTo, ClaimAccount,
         LeaseInv, TypeOK, RowInv, PoolInv
    <3> QED
      BY <3>1, <3>2 DEF LeaseInv, UseInv, InUse
  <2> QED
    BY <2>1, <2>2
<1>4. BuildInv'
  BY DEF LeaseInv, TypeOK, ClaimAccount, BuildInv, Holds, NextTried,
     workerVars, LeasedTo
<1>5. TeardownInv'
  <2> SUFFICES ASSUME NEW v \in Workers
               PROVE  TeardownHolds(v)'
    BY DEF TeardownInv
  <2>1. td' = td /\ status' = status /\ deploy' = deploy /\ claim' = claim
    BY DEF ClaimAccount, workerVars
  <2>2. ASSUME NEW t \in Sessions, t = td[v].sid
        PROVE  pc'[t] = pc[t] /\ Holds(t)' = Holds(t)
    <3>1. t # s
      BY <2>2, NoneAssumption DEF LeaseInv, TeardownInv, TeardownHolds,
         ClaimAccount
    <3>2. account'[t] = account[t] /\ pc'[t] = pc[t]
      BY <3>1 DEF ClaimAccount, LeaseInv, TypeOK
    <3>3. Holds(t)' = Holds(t)
      BY <2>1, <3>1, <3>2, NoneAssumption DEF Holds, LeasedTo, ClaimAccount,
         LeaseInv, TypeOK, RowInv, PoolInv
    <3> QED
      BY <3>2, <3>3
  <2> QED
    BY <2>1, <2>2, TeardownKept DEF LeaseInv, TeardownInv
<1>6. AloneInv'
  BY DEF LeaseInv, ClaimAccount, AloneInv, NextTried, workerVars
<1>7. QueueInv'
  BY DEF LeaseInv, TypeOK, ClaimAccount, QueueInv, Claimable, Holds,
     NextTried, workerVars, LeasedTo
<1>8. WipedInv'
  <2> SUFFICES ASSUME NEW v \in Workers, td[v].step = "return"
               PROVE  env'[account'[td[v].sid]] = {}
    BY DEF WipedInv, ClaimAccount, workerVars
  <2>1. td[v].sid # s /\ td[v].sid \in Sessions
    BY WorkerShape, NoneAssumption DEF LeaseInv, NoTeardown, TeardownInv,
       TeardownHolds, ClaimAccount
  <2>2. account'[td[v].sid] = account[td[v].sid]
    BY <2>1 DEF ClaimAccount, LeaseInv, TypeOK
  <2>3. env' = env
    BY DEF ClaimAccount, envVars
  <2> QED
    BY <2>2, <2>3 DEF LeaseInv, WipedInv
<1> QED
  BY <1>1, <1>2, <1>3, <1>4, <1>5, <1>6, <1>7, <1>8 DEF LeaseInv

LEMMA NoCapacityKeeps ==
  ASSUME Undisturbed, LeaseInv, TypeOK', NEW s \in Sessions, NoCapacity(s)
  PROVE  LeaseInv'
  BY DEF LeaseInv, NoCapacity, RowInv, PoolInv, UseInv, BuildInv, TeardownInv,
     AloneInv, QueueInv, WipedInv, LeasedTo, InUse, Holds, TeardownHolds,
     Claimable, EndLaunch, ReleaseUserLock, sessionVars, poolVars, workerVars,
     envVars

LEMMA RecordSessionKeeps ==
  ASSUME Undisturbed, LeaseInv, TypeOK', NEW s \in Sessions, RecordSession(s)
  PROVE  LeaseInv'
<1>1. /\ RowInv' /\ PoolInv' /\ BuildInv' /\ TeardownInv' /\ AloneInv'
      /\ QueueInv'
  BY DEF LeaseInv, TypeOK, RecordSession, RowInv, PoolInv, BuildInv,
     TeardownInv, AloneInv, QueueInv, LeasedTo, Holds, TeardownHolds,
     Claimable, poolVars, workerVars
<1>2. UseInv'
  BY DEF LeaseInv, TypeOK, RecordSession, UseInv, RowInv, InUse, Holds,
     poolVars, LeasedTo
<1>3. WipedInv'
  BY DEF LeaseInv, RecordSession, WipedInv, RowInv, TeardownInv, poolVars,
     workerVars, LeasedTo, TeardownHolds, Holds
<1> QED
  BY <1>1, <1>2, <1>3 DEF LeaseInv

LEMMA LeaseThrowsKeeps ==
  ASSUME Undisturbed, LeaseInv, TypeOK', NEW s \in Sessions, LeaseThrows(s)
  PROVE  LeaseInv'
  BY DEF LeaseInv, LeaseThrows, RowInv, PoolInv, UseInv, BuildInv,
     TeardownInv, AloneInv, QueueInv, WipedInv, LeasedTo, InUse, Holds,
     TeardownHolds, Claimable, EndLaunch, ReleaseUserLock, sessionVars,
     poolVars, workerVars, envVars

LEMMA BindAndDispatchKeeps ==
  ASSUME Undisturbed, LeaseInv, TypeOK', NEW s \in Sessions, BindAndDispatch(s)
  PROVE  LeaseInv'
<1>1. RowInv' /\ PoolInv' /\ UseInv' /\ AloneInv' /\ QueueInv' /\ WipedInv'
  BY LaunchAssumption DEF LeaseInv, TypeOK, BindAndDispatch, RowInv, PoolInv,
     UseInv, AloneInv, QueueInv, WipedInv, LeasedTo, InUse, Holds, Claimable,
     EndLaunch, sessionVars, poolVars, envVars
<1>2. BuildInv'
  BY DEF LeaseInv, TypeOK, BindAndDispatch, BuildInv, RowInv, Holds,
     EndLaunch, sessionVars, poolVars, envVars, LeasedTo
<1>3. TeardownInv'
  <2> SUFFICES ASSUME NEW v \in Workers
               PROVE  TeardownHolds(v)'
    BY DEF TeardownInv
  <2>1. td[v].sid # s
    BY NoneAssumption DEF LeaseInv, TeardownInv, TeardownHolds,
       BindAndDispatch
  <2> QED
    BY <2>1, TeardownKept DEF LeaseInv, TypeOK, TeardownInv, BindAndDispatch,
       EndLaunch, sessionVars, poolVars, Holds, LeasedTo
<1> QED
  BY <1>1, <1>2, <1>3 DEF LeaseInv

LEMMA LaunchDiesKeeps ==
  ASSUME Undisturbed, LeaseInv, TypeOK', NEW s \in Sessions, LaunchDies(s)
  PROVE  LeaseInv'
  BY NoneAssumption DEF LeaseInv, TypeOK, LaunchDies, RowInv, PoolInv, UseInv,
     BuildInv, TeardownInv, AloneInv, QueueInv, WipedInv, LeasedTo, InUse,
     Holds, TeardownHolds, Claimable, EndLaunch, sessionVars, poolVars,
     workerVars, envVars

-----------------------------------------------------------------------------
(* The deploy worker                                                       *)

LEMMA DeployStartsKeeps ==
  ASSUME Undisturbed, LeaseInv, TypeOK', NEW s \in Sessions, DeployStarts(s)
  PROVE  LeaseInv'
<1>1. /\ RowInv' /\ PoolInv' /\ UseInv' /\ BuildInv' /\ TeardownInv'
      /\ AloneInv' /\ QueueInv'
  BY DEF LeaseInv, DeployStarts, RowInv, PoolInv, UseInv, BuildInv,
     TeardownInv, AloneInv, QueueInv, LeasedTo, InUse, Holds, TeardownHolds,
     Claimable, launchVars, sessionVars, poolVars
<1>2. WipedInv'
  BY DEF LeaseInv, DeployStarts, WipedInv, UseInv, BuildInv, TeardownInv,
     launchVars, sessionVars, poolVars, InUse, Holds, TeardownHolds, LeasedTo
<1> QED
  BY <1>1, <1>2 DEF LeaseInv

LEMMA DeploySucceedsKeeps ==
  ASSUME Undisturbed, LeaseInv, TypeOK', NEW s \in Sessions, DeploySucceeds(s)
  PROVE  LeaseInv'
<1>1. RowInv'
  BY DEF LeaseInv, DeploySucceeds, RowInv, BuildInv, LeasedTo, launchVars,
     poolVars, Holds
<1>2. /\ PoolInv' /\ UseInv' /\ BuildInv' /\ TeardownInv' /\ AloneInv'
      /\ QueueInv' /\ WipedInv'
  BY DEF LeaseInv, TypeOK, DeploySucceeds, PoolInv, UseInv, BuildInv,
     TeardownInv, AloneInv, QueueInv, WipedInv, InUse, Holds, TeardownHolds,
     Claimable, launchVars, poolVars, envVars, LeasedTo
<1> QED
  BY <1>1, <1>2 DEF LeaseInv

LEMMA DeployFailsKeeps ==
  ASSUME Undisturbed, LeaseInv, TypeOK', NEW s \in Sessions, DeployFails(s)
  PROVE  LeaseInv'
<1> status' = [status EXCEPT ![s] = "error"]
  BY QuietFaults DEF DeployFails
<1>1. RowInv'
  BY DEF LeaseInv, DeployFails, RowInv, BuildInv, LeasedTo, Holds, launchVars,
     poolVars
<1>2. PoolInv' /\ UseInv' /\ TeardownInv'
  BY QuietFaults, NoneAssumption DEF LeaseInv, TypeOK, DeployFails, PoolInv,
     UseInv, TeardownInv, InUse, Holds, TeardownHolds, launchVars, poolVars,
     LeasedTo
<1>3. BuildInv'
  BY DEF LeaseInv, TypeOK, DeployFails, BuildInv, UseInv, Holds, launchVars,
     poolVars, InUse, LeasedTo
<1>4. AloneInv' /\ QueueInv'
  BY QuietFaults, NoneAssumption DEF LeaseInv, TypeOK, DeployFails, AloneInv,
     QueueInv, Claimable, Holds, launchVars, poolVars, LeasedTo
<1>5. WipedInv'
  <2> SUFFICES ASSUME NEW v \in Workers, td[v].step = "return"
               PROVE  env'[account[td[v].sid]] = {}
    BY DEF WipedInv, DeployFails
  <2>1. account[td[v].sid] \in Accounts /\ env[account[td[v].sid]] = {}
    BY WorkerShape, NoneAssumption DEF LeaseInv, TypeOK, NoTeardown, WipedInv,
       TeardownInv, TeardownHolds, Holds
  <2>2. \A b \in Accounts : env'[b] \subseteq env[b]
    <3>1. CASE env' = [env EXCEPT ![account[s]] = @ \ {s}]
      BY <3>1 DEF LeaseInv, TypeOK
    <3>2. CASE env' = env
      BY <3>2
    <3> QED
      BY <3>1, <3>2 DEF DeployFails
  <2> QED
    BY <2>1, <2>2
<1> QED
  BY <1>1, <1>2, <1>3, <1>4, <1>5 DEF LeaseInv

LEMMA DeployReleasesKeeps ==
  ASSUME Undisturbed, LeaseInv, TypeOK', NEW s \in Sessions, DeployReleases(s)
  PROVE  LeaseInv'
<1>1. CASE ReleaseAccount(account[s])
  <2>1. RowInv' /\ PoolInv' /\ UseInv' /\ TeardownInv' /\ QueueInv'
    BY <1>1 DEF LeaseInv, TypeOK, DeployReleases, RowInv, PoolInv, UseInv,
       TeardownInv, QueueInv, BuildInv, LeasedTo, InUse, Holds, TeardownHolds,
       Claimable, ReleaseAccount, launchVars, sessionVars
  <2>2. BuildInv'
    BY <1>1 DEF LeaseInv, TypeOK, DeployReleases, BuildInv, Holds, ReleaseAccount,
       launchVars, sessionVars, LeasedTo
  <2>3. AloneInv' /\ WipedInv'
    BY <1>1 DEF LeaseInv, DeployReleases, AloneInv, WipedInv, ReleaseAccount,
       sessionVars, envVars
  <2> QED
    BY <2>1, <2>2, <2>3 DEF LeaseInv
<1>2. CASE "release_lost" \in Faults /\ UNCHANGED poolVars
  BY <1>2 DEF LeaseInv, DeployReleases, RowInv, PoolInv, UseInv, BuildInv,
     TeardownInv, AloneInv, QueueInv, WipedInv, LeasedTo, InUse, Holds,
     TeardownHolds, Claimable, launchVars, sessionVars, poolVars, envVars, TypeOK
<1> QED
  BY <1>1, <1>2 DEF DeployReleases

LEMMA DeployUnlocksKeeps ==
  ASSUME Undisturbed, LeaseInv, TypeOK', NEW s \in Sessions, DeployUnlocks(s)
  PROVE  LeaseInv'
  BY DEF LeaseInv, DeployUnlocks, RowInv, PoolInv, UseInv, BuildInv,
     TeardownInv, AloneInv, QueueInv, WipedInv, LeasedTo, InUse, Holds,
     TeardownHolds, Claimable, ReleaseUserLock, launchVars, sessionVars,
     poolVars, envVars

LEMMA DeployDiesKeeps ==
  ASSUME Undisturbed, LeaseInv, TypeOK', NEW s \in Sessions, DeployDies(s)
  PROVE  LeaseInv'
<1>1. RowInv' /\ PoolInv' /\ UseInv'
  BY QuietFaults DEF LeaseInv, TypeOK, DeployDies, RowInv, PoolInv, UseInv,
     LeasedTo, InUse, Holds, launchVars, sessionVars, poolVars, envVars
<1>2. BuildInv' /\ AloneInv' /\ QueueInv'
  BY QuietFaults DEF LeaseInv, TypeOK, DeployDies, BuildInv, AloneInv,
     QueueInv, Holds, Claimable, launchVars, sessionVars, poolVars, LeasedTo
<1>3. TeardownInv'
  <2> SUFFICES ASSUME NEW v \in Workers
               PROVE  TeardownHolds(v)'
    BY DEF TeardownInv
  <2>1. td[v].sid # s
    BY QuietFaults, NoneAssumption DEF LeaseInv, TeardownInv, TeardownHolds,
       DeployDies
  <2> QED
    BY <2>1, TeardownKept DEF LeaseInv, TypeOK, TeardownInv, DeployDies,
       launchVars, sessionVars, poolVars, Holds, LeasedTo
<1>4. WipedInv'
  BY QuietFaults DEF LeaseInv, TypeOK, DeployDies, WipedInv, sessionVars,
     envVars
<1> QED
  BY <1>1, <1>2, <1>3, <1>4 DEF LeaseInv

-----------------------------------------------------------------------------
(* Teardown                                                                *)

LEMMA EndLabKeeps ==
  ASSUME Undisturbed, LeaseInv, TypeOK', NEW s \in Sessions, EndLab(s)
  PROVE  LeaseInv'
<1>1. /\ RowInv' /\ PoolInv' /\ UseInv' /\ BuildInv' /\ TeardownInv'
      /\ AloneInv' /\ WipedInv'
  BY QuietFaults DEF LeaseInv, TypeOK, EndLab, RowInv, PoolInv, UseInv,
     BuildInv, TeardownInv, AloneInv, WipedInv, LeasedTo, InUse, Holds,
     TeardownHolds, Building, launchVars, poolVars, envVars
<1>2. QueueInv'
  <2>1. status'[s] # "none" /\ pc[s] = "over" /\ deploy[s] = "none" /\ Holds(s)
    BY QuietFaults DEF EndLab, LeaseInv, Building, RowInv, TypeOK, LaunchSteps
  <2> QED
    BY <2>1 DEF LeaseInv, QueueInv, TypeOK, EndLab, Claimable, Holds,
       LeasedTo, launchVars, poolVars
<1> QED
  BY <1>1, <1>2 DEF LeaseInv

LEMMA ReapDispatchKeeps ==
  ASSUME Undisturbed, LeaseInv, TypeOK', NEW s \in Sessions, ReapDispatch(s)
  PROVE  LeaseInv'
<1>1. /\ RowInv' /\ PoolInv' /\ UseInv' /\ BuildInv' /\ TeardownInv'
      /\ AloneInv' /\ WipedInv'
  BY DEF LeaseInv, ReapDispatch, RowInv, PoolInv, UseInv, BuildInv,
     TeardownInv, AloneInv, WipedInv, LeasedTo, InUse, Holds, TeardownHolds,
     Building, launchVars, sessionVars, poolVars, envVars
<1>2. QueueInv'
  <2>1. /\ status[s] # "none" /\ pc[s] = "over" /\ deploy[s] = "none"
        /\ Claimable(s) => Holds(s)
    BY QuietFaults DEF ReapDispatch, LeaseInv, Building, UseInv, InUse,
       TypeOK, RowInv, LaunchSteps
  <2> QED
    BY <2>1 DEF LeaseInv, QueueInv, TypeOK, ReapDispatch, Claimable, Holds,
       LeasedTo, launchVars, sessionVars, poolVars
<1> QED
  BY <1>1, <1>2 DEF LeaseInv

LEMMA TeardownIgnoredKeeps ==
  ASSUME Undisturbed, LeaseInv, TypeOK', NEW s \in Sessions, TeardownIgnored(s)
  PROVE  LeaseInv'
  BY DEF LeaseInv, TeardownIgnored, RowInv, PoolInv, UseInv, BuildInv,
     TeardownInv, AloneInv, QueueInv, WipedInv, LeasedTo, InUse, Holds,
     TeardownHolds, Claimable, launchVars, sessionVars, poolVars, envVars

LEMMA TeardownLostKeeps ==
  ASSUME Undisturbed, LeaseInv, TypeOK', NEW s \in Sessions, TeardownLost(s)
  PROVE  LeaseInv'
  BY DEF LeaseInv, TeardownLost, RowInv, PoolInv, UseInv, BuildInv,
     TeardownInv, AloneInv, QueueInv, WipedInv, LeasedTo, InUse, Holds,
     TeardownHolds, Claimable, launchVars, sessionVars, poolVars, envVars

LEMMA TeardownStartsKeeps ==
  ASSUME Undisturbed, LeaseInv, TypeOK', NEW w \in Workers, NEW s \in Sessions,
         TeardownStarts(w, s)
  PROVE  LeaseInv'
<1>1. RowInv' /\ BuildInv'
  BY DEF LeaseInv, TypeOK, TeardownStarts, RowInv, BuildInv, QueueInv,
     LeasedTo, Holds, ClaimTeardown, launchVars, poolVars, Claimable
<1>2. TeardownInv'
  BY DEF LeaseInv, TypeOK, TeardownStarts, TeardownInv, QueueInv, LeasedTo,
     Holds, TeardownHolds, ClaimTeardown, launchVars, poolVars, Claimable,
     NoTeardown
<1>3. PoolInv' /\ UseInv' /\ QueueInv' /\ WipedInv'
  BY DEF LeaseInv, TypeOK, TeardownStarts, PoolInv, UseInv, QueueInv,
     WipedInv, InUse, Holds, Claimable, ClaimTeardown, launchVars, poolVars,
     envVars, LeasedTo, NoTeardown
<1>4. AloneInv'
  BY DEF LeaseInv, TeardownStarts, AloneInv, TeardownInv, ClaimTeardown,
     launchVars, poolVars, TeardownHolds, NoTeardown, Claimable, Holds,
     LeasedTo
<1> QED
  BY <1>1, <1>2, <1>3, <1>4 DEF LeaseInv

LEMMA WipeKeeps ==
  ASSUME Undisturbed, LeaseInv, TypeOK', NEW w \in Workers, Wipe(w)
  PROVE  LeaseInv'
<1>1. RowInv' /\ BuildInv' /\ QueueInv'
  BY DEF LeaseInv, TypeOK, Wipe, RowInv, BuildInv, QueueInv, TeardownInv,
     LeasedTo, Holds, Claimable, NoTeardown, launchVars, poolVars,
     TeardownHolds
<1>2. PoolInv'
  BY DEF LeaseInv, Wipe, PoolInv, NoTeardown, poolVars
<1>3. UseInv'
  BY DEF LeaseInv, TypeOK, Wipe, UseInv, InUse, Holds, NoTeardown, poolVars,
     LeasedTo
<1>4. TeardownInv'
  <2> DEFINE s == td[w].sid
  <2>1. s \in Sessions /\ s # None /\ status[s] = "ending" /\ TeardownHolds(w)
    BY WorkerShape, NoneAssumption DEF Wipe, LeaseInv, TeardownInv,
       TeardownHolds, NoTeardown
  <2>2. status' = status /\ UNCHANGED <<pc, deploy, claim, account, pool, holder>>
    BY <2>1 DEF Wipe, LeaseInv, TypeOK, launchVars, poolVars
  <2>3. td'[w] \in {NoTeardown, [step |-> "return", sid |-> s]}
    BY <2>1 DEF Wipe, LeaseInv, TypeOK, Teardowns, NoTeardown
  <2>4. \A v \in Workers \ {w} : td'[v] = td[v]
    BY DEF Wipe, LeaseInv, TypeOK
  <2>5. TeardownHolds(w)'
    BY <2>1, <2>2, <2>3 DEF TeardownHolds, NoTeardown, Holds, LeasedTo, Wipe
  <2>6. ASSUME NEW v \in Workers \ {w}
        PROVE  TeardownHolds(v)'
    BY <2>2, <2>4, TeardownKept DEF LeaseInv, TeardownInv, Holds, LeasedTo
  <2> QED
    BY <2>5, <2>6 DEF TeardownInv
<1>5. AloneInv'
  <2>1. ASSUME NEW y \in Workers
        PROVE  td'[y].sid = td[y].sid \/ td'[y].sid = None
    <3>1. CASE td' = [td EXCEPT ![w].step = "return"]
      BY <3>1 DEF LeaseInv, TypeOK, Teardowns, NoTeardown
    <3>2. CASE td' = [td EXCEPT ![w] = NoTeardown]
      BY <3>2 DEF LeaseInv, TypeOK, NoTeardown
    <3> QED
      BY <3>1, <3>2 DEF Wipe
  <2> QED
    BY <2>1 DEF LeaseInv, AloneInv
<1>6. WipedInv'
  <2> DEFINE s == td[w].sid
  <2>1. s \in Sessions /\ account[s] \in Accounts
    BY WorkerShape, NoneAssumption DEF Wipe, NoTeardown, LeaseInv,
       TeardownInv, TeardownHolds, Holds, TypeOK
  <2>2. account' = account
    BY DEF Wipe
  <2>3. CASE td' = [td EXCEPT ![w].step = "return"] /\ env' = [env EXCEPT ![account[s]] = {}]
    <3>1. ASSUME NEW v \in Workers, td'[v].step = "return"
          PROVE  env'[account[td'[v].sid]] = {}
      <4>1. CASE v = w
        BY <2>1, <2>3, <4>1 DEF LeaseInv, TypeOK, Teardowns, NoTeardown
      <4>2. CASE v # w
        <5>1. td'[v] = td[v] /\ td[v].sid \in Sessions /\ account[td[v].sid] \in Accounts
          BY <2>3, <3>1, <4>2, WorkerShape, NoneAssumption DEF LeaseInv,
             TypeOK, NoTeardown, TeardownInv, TeardownHolds, Holds
        <5> QED
          BY <5>1, <2>3, <3>1 DEF LeaseInv, WipedInv, TypeOK
      <4> QED
        BY <4>1, <4>2
    <3> QED
      BY <3>1, <2>2 DEF WipedInv
  <2>4. CASE td' = [td EXCEPT ![w] = NoTeardown] /\ env' = env
    BY <2>2, <2>4 DEF LeaseInv, TypeOK, WipedInv, NoTeardown
  <2> QED
    BY <2>3, <2>4 DEF Wipe, envVars
<1> QED
  BY <1>1, <1>2, <1>3, <1>4, <1>5, <1>6 DEF LeaseInv

LEMMA ReturnAccountKeeps ==
  ASSUME Undisturbed, LeaseInv, TypeOK', NEW w \in Workers, ReturnAccount(w)
  PROVE  LeaseInv'
<1>1. RowInv' /\ PoolInv' /\ UseInv' /\ BuildInv' /\ QueueInv'
  BY DEF LeaseInv, TypeOK, ReturnAccount, RowInv, PoolInv, UseInv, BuildInv,
     QueueInv, TeardownInv, LeasedTo, InUse, Holds, Claimable, ReleaseAccount,
     launchVars, sessionVars, TeardownHolds
<1>2. TeardownInv'
  BY DEF LeaseInv, TypeOK, ReturnAccount, TeardownInv, PoolInv, AloneInv,
     TeardownHolds, ReleaseAccount, launchVars, sessionVars, Holds, LeasedTo
<1>3. AloneInv'
  BY DEF LeaseInv, ReturnAccount, AloneInv, ReleaseAccount
<1>4. WipedInv'
  BY DEF LeaseInv, ReturnAccount, WipedInv, ReleaseAccount, sessionVars,
     envVars
<1> QED
  BY <1>1, <1>2, <1>3, <1>4 DEF LeaseInv

LEMMA SettleKeeps ==
  ASSUME Undisturbed, LeaseInv, TypeOK', NEW w \in Workers, Settle(w)
  PROVE  LeaseInv'
<1>1. RowInv' /\ UseInv' /\ BuildInv'
  BY DEF LeaseInv, Settle, RowInv, UseInv, BuildInv, TeardownInv, LeasedTo,
     InUse, Holds, launchVars, poolVars, TeardownHolds
<1>2. PoolInv' /\ QueueInv'
  BY DEF LeaseInv, TypeOK, Settle, PoolInv, QueueInv, Holds, Claimable,
     launchVars, poolVars, LeasedTo
<1>3. AloneInv' /\ WipedInv'
  <2>1. \A v \in Workers : td'[v].sid = td[v].sid /\ (td'[v] = td[v] \/ td'[v].step = "unlock")
    BY DEF LeaseInv, TypeOK, Settle, Teardowns, NoTeardown
  <2>2. account' = account /\ env' = env
    BY DEF Settle, envVars
  <2> QED
    BY <2>1, <2>2 DEF LeaseInv, AloneInv, WipedInv
<1>4. TeardownInv'
  BY NoneAssumption DEF LeaseInv, TypeOK, Settle, TeardownInv, AloneInv,
     TeardownHolds, launchVars, poolVars, Holds, LeasedTo
<1> QED
  BY <1>1, <1>2, <1>3, <1>4 DEF LeaseInv

LEMMA UnlockKeeps ==
  ASSUME Undisturbed, LeaseInv, TypeOK', NEW w \in Workers, Unlock(w)
  PROVE  LeaseInv'
<1>1. RowInv' /\ PoolInv' /\ UseInv'
  BY DEF LeaseInv, Unlock, RowInv, PoolInv, UseInv, LeasedTo, InUse, Holds,
     ReleaseUserLock, NoTeardown, launchVars, sessionVars, poolVars, envVars
<1>2. BuildInv' /\ TeardownInv' /\ AloneInv' /\ QueueInv'
  BY DEF LeaseInv, Unlock, BuildInv, TeardownInv, AloneInv, QueueInv, Holds,
     TeardownHolds, Claimable, ReleaseUserLock, NoTeardown, launchVars,
     sessionVars, poolVars, LeasedTo
<1>3. WipedInv'
  BY DEF LeaseInv, Unlock, WipedInv, ReleaseUserLock, NoTeardown, sessionVars,
     envVars
<1> QED
  BY <1>1, <1>2, <1>3 DEF LeaseInv

LEMMA TeardownDiesKeeps ==
  ASSUME Undisturbed, LeaseInv, TypeOK', NEW w \in Workers, TeardownDies(w)
  PROVE  LeaseInv'
<1>1. RowInv' /\ PoolInv' /\ UseInv'
  BY QuietFaults, NoneAssumption DEF LeaseInv, TypeOK, TeardownDies, RowInv,
     PoolInv, UseInv, LeasedTo, InUse, Holds, NoTeardown, launchVars,
     sessionVars, poolVars, envVars, Teardowns
<1>2. BuildInv' /\ TeardownInv' /\ AloneInv'
  BY QuietFaults, NoneAssumption DEF LeaseInv, TypeOK, TeardownDies, BuildInv,
     TeardownInv, AloneInv, Holds, TeardownHolds, NoTeardown, launchVars,
     sessionVars, poolVars, LeasedTo, Teardowns
<1>3. QueueInv'
  BY QuietFaults, NoneAssumption DEF LeaseInv, TypeOK, TeardownDies, QueueInv,
     Claimable, Holds, NoTeardown, launchVars, sessionVars, poolVars, envVars,
     LeasedTo, Teardowns
<1>4. WipedInv'
  BY QuietFaults, NoneAssumption DEF LeaseInv, TypeOK, TeardownDies, WipedInv,
     NoTeardown, sessionVars, envVars, Teardowns
<1> QED
  BY <1>1, <1>2, <1>3, <1>4 DEF LeaseInv

-----------------------------------------------------------------------------
(* The healer, the warmer and time                                         *)

LEMMA HealScanKeeps ==
  ASSUME Undisturbed, LeaseInv, TypeOK', HealScan
  PROVE  LeaseInv'
  BY DEF LeaseInv, HealScan, RowInv, PoolInv, UseInv, BuildInv, TeardownInv,
     AloneInv, QueueInv, WipedInv, LeasedTo, InUse, Holds, TeardownHolds,
     Claimable, launchVars, sessionVars, poolVars, envVars

LEMMA HealReleasesKeeps ==
  ASSUME Undisturbed, LeaseInv, TypeOK', NEW a \in Accounts, HealReleases(a)
  PROVE  LeaseInv'
<1>1. RowInv' /\ PoolInv' /\ UseInv'
  BY QuietFaults DEF LeaseInv, TypeOK, HealReleases, RowInv, PoolInv, UseInv,
     LeasedTo, InUse, Holds, Settled, Drifted, ReleaseAccount, launchVars,
     sessionVars, envVars, Building, TearingDown
<1>2. BuildInv' /\ TeardownInv' /\ AloneInv'
  BY QuietFaults DEF LeaseInv, TypeOK, HealReleases, BuildInv, TeardownInv,
     AloneInv, Holds, TearingDown, TeardownHolds, Settled, Drifted,
     ReleaseAccount, launchVars, sessionVars, LeasedTo, Building
<1>3. QueueInv'
  BY QuietFaults DEF LeaseInv, TypeOK, HealReleases, QueueInv, Claimable,
     Holds, Settled, Drifted, ReleaseAccount, launchVars, sessionVars,
     envVars, LeasedTo, Building, TearingDown
<1>4. WipedInv'
  BY QuietFaults DEF LeaseInv, TypeOK, HealReleases, WipedInv, Settled,
     Drifted, ReleaseAccount, sessionVars, envVars, LeasedTo, Building,
     TearingDown
<1> QED
  BY <1>1, <1>2, <1>3, <1>4 DEF LeaseInv

LEMMA HealTearsDownKeeps ==
  ASSUME Undisturbed, LeaseInv, TypeOK', NEW w \in Workers, NEW a \in Accounts,
         HealTearsDown(w, a)
  PROVE  LeaseInv'
<1>1. RowInv'
  BY QuietFaults DEF LeaseInv, TypeOK, HealTearsDown, RowInv, LeasedTo,
     Building, ClaimTeardown, launchVars, poolVars, NoTeardown, Claimable
<1>2. PoolInv'
  BY DEF LeaseInv, HealTearsDown, PoolInv, Building, LeasedTo, ClaimTeardown,
     launchVars, poolVars, envVars, NoTeardown, Claimable
<1>3. UseInv'
  BY DEF LeaseInv, HealTearsDown, UseInv, InUse, Holds, Building, LeasedTo,
     ClaimTeardown, poolVars, NoTeardown, Claimable
<1>4. BuildInv'
  BY QuietFaults DEF LeaseInv, TypeOK, HealTearsDown, BuildInv, Holds,
     Building, LeasedTo, ClaimTeardown, launchVars, poolVars, NoTeardown,
     Claimable
<1>5. TeardownInv'
  <2> DEFINE s == snap[a]
  <2>1. /\ s \in Sessions /\ ClaimTeardown(w, s)
        /\ UNCHANGED <<pc, deploy, account, pool, holder>>
    BY DEF HealTearsDown, LeaseInv, TypeOK, launchVars, poolVars,
       ClaimTeardown
  <2>2. pc[s] = "over" /\ deploy[s] = "none" /\ Holds(s)
    <3>1. status[s] \in {"leasing", "ending"} /\ LeasedTo(a, s)
      BY QuietFaults DEF HealTearsDown
    <3>2. Holds(s)
      BY <2>1, <3>1, NoneAssumption DEF LeaseInv, TypeOK, PoolInv, Holds,
         LeasedTo
    <3>3. pc[s] \in {"record", "bind", "over"} /\ (pc[s] = "bind" => status[s] = "leasing")
      BY <2>1, <3>1 DEF LeaseInv, TypeOK, RowInv, LaunchSteps
    <3>4. status[s] = "leasing" => ~Building(s)
      BY QuietFaults DEF HealTearsDown
    <3> QED
      BY <2>1, <3>1, <3>2, <3>3, <3>4 DEF LeaseInv, RowInv, BuildInv,
         Building, TypeOK, DeploySteps
  <2>3. TeardownHolds(w)'
    BY <2>1, <2>2 DEF TeardownHolds, Holds, LeasedTo, ClaimTeardown, LeaseInv,
       TypeOK
  <2>4. ASSUME NEW v \in Workers \ {w}
        PROVE  TeardownHolds(v)'
    <3>1. td[v].sid # s
      BY <2>1, NoneAssumption DEF HealTearsDown, ClaimTeardown, Claimable,
         LeaseInv, TeardownInv, TeardownHolds
    <3>2. /\ td'[v] = td[v]
          /\ \A t \in Sessions : t # s => status'[t] = status[t] /\ claim'[t] = claim[t]
      BY <2>1 DEF ClaimTeardown, LeaseInv, TypeOK
    <3>3. \A t \in Sessions : Holds(t)' = Holds(t) \/ t = s
      BY <2>1, <3>2 DEF Holds, LeasedTo
    <3>4. TypeOK /\ TeardownHolds(v)
      BY DEF LeaseInv, TeardownInv
    <3> QED
      BY <2>1, <3>1, <3>2, <3>3, <3>4, TeardownKept
  <2> QED
    BY <2>3, <2>4 DEF TeardownInv
<1>6. AloneInv'
  BY DEF LeaseInv, HealTearsDown, AloneInv, TeardownInv, Building, LeasedTo,
     ClaimTeardown, launchVars, poolVars, TeardownHolds, NoTeardown,
     Claimable, Holds
<1>7. QueueInv'
  BY DEF LeaseInv, HealTearsDown, QueueInv, Claimable, Holds, Building,
     LeasedTo, ClaimTeardown, launchVars, poolVars, NoTeardown
<1>8. WipedInv'
  <2>1. \A v \in Workers : td'[v] = td[v] \/ td'[v].step = "wipe"
    BY DEF HealTearsDown, ClaimTeardown, LeaseInv, TypeOK
  <2>2. account' = account /\ env' = env
    BY DEF HealTearsDown, ClaimTeardown, envVars
  <2> QED
    BY <2>1, <2>2 DEF LeaseInv, WipedInv
<1> QED
  BY <1>1, <1>2, <1>3, <1>4, <1>5, <1>6, <1>7, <1>8 DEF LeaseInv

LEMMA WarmClaimsKeeps ==
  ASSUME Undisturbed, LeaseInv, TypeOK', NEW a \in Accounts, WarmClaims(a)
  PROVE  LeaseInv'
  BY DEF LeaseInv, TypeOK, WarmClaims, RowInv, PoolInv, UseInv, BuildInv,
     TeardownInv, AloneInv, QueueInv, WipedInv, LeasedTo, InUse, Holds,
     TeardownHolds, Claimable, launchVars, sessionVars, envVars

LEMMA WarmEndsKeeps ==
  ASSUME Undisturbed, LeaseInv, TypeOK', NEW a \in Accounts, WarmEnds(a)
  PROVE  LeaseInv'
<1>1. RowInv' /\ UseInv' /\ BuildInv' /\ TeardownInv' /\ QueueInv'
  BY DEF LeaseInv, TypeOK, WarmEnds, RowInv, UseInv, BuildInv, TeardownInv,
     QueueInv, PoolInv, LeasedTo, InUse, Holds, TeardownHolds, Claimable,
     launchVars, sessionVars
<1>2. PoolInv' /\ AloneInv' /\ WipedInv'
  BY DEF LeaseInv, WarmEnds, PoolInv, AloneInv, WipedInv, Holds, launchVars,
     sessionVars, LeasedTo
<1> QED
  BY <1>1, <1>2 DEF LeaseInv

LEMMA WarmDiesKeeps ==
  ASSUME Undisturbed, LeaseInv, TypeOK', NEW a \in Accounts, WarmDies(a)
  PROVE  LeaseInv'
  BY DEF LeaseInv, WarmDies, RowInv, PoolInv, UseInv, BuildInv, TeardownInv,
     AloneInv, QueueInv, WipedInv, LeasedTo, InUse, Holds, TeardownHolds,
     Claimable, launchVars, sessionVars, poolVars

LEMMA ExpireKeeps ==
  ASSUME Undisturbed, LeaseInv, TypeOK', NEW s \in Sessions, Expire(s)
  PROVE  LeaseInv'
<1>1. RowInv' /\ PoolInv' /\ UseInv'
  BY DEF LeaseInv, Expire, RowInv, PoolInv, UseInv, LeasedTo, InUse, Holds,
     launchVars, poolVars, workerVars, envVars
<1>2. BuildInv' /\ TeardownInv' /\ AloneInv'
  BY DEF LeaseInv, Expire, BuildInv, TeardownInv, AloneInv, Holds,
     TeardownHolds, InUse, launchVars, poolVars, workerVars, LeasedTo
<1>3. QueueInv'
  BY DEF LeaseInv, Expire, QueueInv, Claimable, Holds, InUse, launchVars,
     poolVars, workerVars, envVars, LeasedTo
<1>4. WipedInv'
  BY DEF LeaseInv, Expire, WipedInv, InUse, workerVars, envVars
<1> QED
  BY <1>1, <1>2, <1>3, <1>4 DEF LeaseInv

LEMMA ClaimGrowsStaleKeeps ==
  ASSUME Undisturbed, LeaseInv, TypeOK', NEW s \in Sessions, ClaimGrowsStale(s)
  PROVE  LeaseInv'
<1>1. RowInv' /\ PoolInv' /\ UseInv'
  BY QuietFaults, NoneAssumption DEF LeaseInv, TypeOK, ClaimGrowsStale,
     RowInv, PoolInv, UseInv, LeasedTo, InUse, Holds, TearingDown, launchVars,
     poolVars, workerVars, envVars, Teardowns
<1>2. BuildInv' /\ TeardownInv' /\ AloneInv'
  BY QuietFaults, NoneAssumption DEF LeaseInv, TypeOK, ClaimGrowsStale,
     BuildInv, TeardownInv, AloneInv, Holds, TearingDown, TeardownHolds,
     launchVars, poolVars, workerVars, LeasedTo, Teardowns
<1>3. QueueInv'
  BY QuietFaults, NoneAssumption DEF LeaseInv, TypeOK, ClaimGrowsStale,
     QueueInv, Claimable, Holds, TearingDown, launchVars, poolVars,
     workerVars, envVars, LeasedTo, Teardowns
<1>4. WipedInv'
  BY QuietFaults, NoneAssumption DEF LeaseInv, TypeOK, ClaimGrowsStale,
     WipedInv, TearingDown, workerVars, envVars, Teardowns
<1> QED
  BY <1>1, <1>2, <1>3, <1>4 DEF LeaseInv

LEMMA LockExpiresKeeps ==
  ASSUME Undisturbed, LeaseInv, TypeOK', NEW u \in Users, LockExpires(u)
  PROVE  LeaseInv'
  BY DEF LeaseInv, LockExpires, RowInv, PoolInv, UseInv, BuildInv,
     TeardownInv, AloneInv, QueueInv, WipedInv, LeasedTo, InUse, Holds,
     TeardownHolds, Claimable, ReleaseUserLock, launchVars, sessionVars,
     poolVars, workerVars, envVars

-----------------------------------------------------------------------------
(* LeaseInv is inductive                                                     *)

LEMMA LeaseInit == Init => LeaseInv
<1> SUFFICES ASSUME Init
             PROVE  LeaseInv
  OBVIOUS
<1>1. TypeOK
  BY TypeInit
<1>2. RowInv /\ PoolInv /\ UseInv /\ BuildInv
  BY DEF Init, RowInv, PoolInv, UseInv, BuildInv, InUse, Holds
<1>3. TeardownInv /\ AloneInv /\ QueueInv /\ WipedInv
  BY DEF Init, TeardownInv, TeardownHolds, AloneInv, QueueInv, WipedInv,
     NoTeardown
<1> QED
  BY <1>1, <1>2, <1>3 DEF LeaseInv

LEMMA LeaseIdle == LeaseInv /\ UNCHANGED vars => LeaseInv'
<1> SUFFICES ASSUME LeaseInv, UNCHANGED vars
             PROVE  LeaseInv'
  OBVIOUS
<1> USE DEF LeaseInv, vars, launchVars, sessionVars, poolVars, workerVars, envVars
<1>1. TypeOK'
  BY TypeStep
<1>2. RowInv' /\ PoolInv' /\ UseInv' /\ BuildInv'
  BY DEF RowInv, PoolInv, UseInv, BuildInv, InUse, Holds, LeasedTo
<1>3. TeardownInv' /\ AloneInv' /\ QueueInv' /\ WipedInv'
  BY DEF TeardownInv, TeardownHolds, AloneInv, QueueInv, WipedInv, Claimable,
     Holds, LeasedTo
<1> QED
  BY <1>1, <1>2, <1>3

LEMMA LeaseStep ==
  ASSUME Undisturbed
  PROVE  LeaseInv /\ [Next]_vars => LeaseInv'
<1> SUFFICES ASSUME LeaseInv, Next
             PROVE  LeaseInv'
  BY LeaseIdle
<1>1. TypeOK'
  BY TypeStep DEF LeaseInv
<1>2. ASSUME NEW s \in Sessions, LaunchStep(s)
      PROVE  LeaseInv'
  BY <1>1, <1>2, LaunchKeeps, AcquireLockKeeps, RejectLaunchKeeps,
     ScanPoolKeeps, ClaimAccountKeeps, NoCapacityKeeps, RecordSessionKeeps,
     LeaseThrowsKeeps, BindAndDispatchKeeps, LaunchDiesKeeps DEF LaunchStep
<1>3. ASSUME NEW s \in Sessions, DeployStep(s)
      PROVE  LeaseInv'
  BY <1>1, <1>3, DeployStartsKeeps, DeploySucceedsKeeps, DeployFailsKeeps,
     DeployReleasesKeeps, DeployUnlocksKeeps, DeployDiesKeeps DEF DeployStep
<1>4. ASSUME NEW s \in Sessions, TeardownRequest(s)
      PROVE  LeaseInv'
  BY <1>1, <1>4, EndLabKeeps, ReapDispatchKeeps, TeardownIgnoredKeeps,
     TeardownLostKeeps DEF TeardownRequest
<1>5. ASSUME NEW w \in Workers, TeardownStep(w)
      PROVE  LeaseInv'
  BY <1>1, <1>5, TeardownStartsKeeps, WipeKeeps, ReturnAccountKeeps,
     SettleKeeps, UnlockKeeps, TeardownDiesKeeps DEF TeardownStep
<1>6. CASE HealStep
  BY <1>1, <1>6, HealScanKeeps, HealReleasesKeeps, HealTearsDownKeeps DEF
     HealStep
<1>7. ASSUME NEW a \in Accounts, WarmStep(a)
      PROVE  LeaseInv'
  BY <1>1, <1>7, WarmClaimsKeeps, WarmEndsKeeps, WarmDiesKeeps DEF WarmStep
<1>8. CASE TimeStep
  BY <1>1, <1>8, ExpireKeeps, ClaimGrowsStaleKeeps, LockExpiresKeeps DEF
     TimeStep
<1> QED
  BY <1>2, <1>3, <1>4, <1>5, <1>6, <1>7, <1>8 DEF Next

\* LeaseInv holds of every reachable state of a pool without overlaps and lost marks:
\* every part of the engine relies on the others, so only their conjunction is
\* inductive.
THEOREM LeasesHold ==
  ASSUME Undisturbed
  PROVE  Spec => []LeaseInv
<1>1. LeaseInv /\ [Next]_vars => LeaseInv'
  BY LeaseStep
<1> QED
  BY <1>1, LeaseInit, PTL DEF Spec

\* Two sessions being built or used never share a sandbox account, also when a
\* failed deploy does not give its account back, or leaves its stack in it.
THEOREM AccountsExclusive ==
  ASSUME Undisturbed
  PROVE  Spec => []AccountExclusive
<1>1. LeaseInv => AccountExclusive
  BY DEF LeaseInv, UseInv, AccountExclusive, Holds, LeasedTo
<1> QED
  BY <1>1, LeasesHold, PTL

\* aws-nuke runs only on an account still leased to the session it is run for.
THEOREM WipesOwn ==
  ASSUME Undisturbed
  PROVE  Spec => []WipesOwnAccount
<1>1. LeaseInv => WipesOwnAccount
  BY DEF LeaseInv, TeardownInv, TeardownHolds, WipesOwnAccount, Holds
<1> QED
  BY <1>1, LeasesHold, PTL

-----------------------------------------------------------------------------
(* What is in the accounts: CleanInv, on top of LeaseInv.  If no stack outlives *)
(* its deploy, a failed deploy leaves nothing behind.                          *)

NoStackLeft == ~StackStays

LEMMA CleanKept ==
  ASSUME CleanInv, UNCHANGED <<pool, holder, account, env>>,
         \A s \in Sessions : Untouched(s)' => Untouched(s)
  PROVE  CleanInv'
BY DEF CleanInv

LEMMA CleanLaunch ==
  ASSUME Undisturbed, LeaseInv, CleanInv, NEW s \in Sessions, LaunchStep(s)
  PROVE  CleanInv'
<1>1. ASSUME NEW a \in Accounts, ClaimAccount(s, a)
      PROVE  CleanInv'
  <2>1. CASE pool[a] = "available"
    BY <1>1, <2>1 DEF LeaseInv, TypeOK, ClaimAccount, CleanInv, Untouched, RowInv,
       Holds, LeasedTo, workerVars, envVars
  <2>2. CASE pool[a] # "available"
    BY <1>1, <2>2, CleanKept DEF ClaimAccount, Untouched, Holds, LeasedTo,
       workerVars, envVars
  <2> QED
    BY <2>1, <2>2
<1>2. CASE RecordSession(s)
  <2>1. /\ LeasedTo(account[s], s) /\ account[s] \in Accounts
        /\ pc' = [pc EXCEPT ![s] = "bind"]
        /\ UNCHANGED <<hot, account, pool, holder, deploy>>
    BY <1>2 DEF LeaseInv, TypeOK, RecordSession, RowInv, poolVars, workerVars
  <2>2. ASSUME NEW b \in Accounts
        PROVE  env'[b] = env[b] \/ (b = account[s] /\ env'[b] = env[b] \cup {s})
    BY <1>2 DEF LeaseInv, TypeOK, RecordSession
  <2>3. ASSUME NEW b \in Accounts
        PROVE  env'[b] \subseteq (IF pool'[b] = "leased" THEN {holder'[b]} ELSE {})
    BY <2>1, <2>2 DEF CleanInv, LeasedTo
  <2>4. ASSUME NEW t \in Sessions, Untouched(t)'
        PROVE  env'[account'[t]] = {}
    <3>1. CASE t = s
      <4>1. account[s] \notin hot[s]
        BY <1>2, <2>1, <2>4, <3>1 DEF LeaseInv, TypeOK, RecordSession, RowInv,
           Untouched, BuildInv
      <4> QED
        BY <1>2, <3>1, <4>1 DEF RecordSession, CleanInv, Untouched, LeaseInv, TypeOK
    <3>2. CASE t # s
      <4>1. status'[t] = status[t] /\ pc'[t] = pc[t] /\ deploy'[t] = deploy[t]
        BY <1>2, <2>1, <3>2 DEF LeaseInv, TypeOK, RecordSession
      <4>2. Untouched(t) /\ LeasedTo(account[t], t) /\ account[t] \in Accounts
        BY <2>1, <2>4, <4>1, NoneAssumption DEF Untouched, Holds, LeasedTo,
           LeaseInv, TypeOK, RowInv, UseInv, BuildInv, InUse
      <4>3. account[t] # account[s]
        BY <2>1, <3>2, <4>2 DEF LeasedTo
      <4> QED
        BY <2>1, <2>2, <4>2, <4>3 DEF CleanInv
    <3> QED
      BY <3>1, <3>2
  <2> QED
    BY <2>3, <2>4 DEF CleanInv
<1>3. CASE BindAndDispatch(s)
  <2>1. \A t \in Sessions : Untouched(t)' => Untouched(t)
    BY <1>3 DEF LeaseInv, TypeOK, BindAndDispatch, EndLaunch, RowInv, Untouched,
       Holds, LeasedTo, sessionVars, poolVars
  <2> QED
    BY <1>3, <2>1, CleanKept DEF BindAndDispatch, sessionVars, poolVars, envVars
<1>4. CASE \/ Launch(s) \/ AcquireLock(s) \/ RejectLaunch(s) \/ ScanPool(s)
           \/ NoCapacity(s) \/ LeaseThrows(s) \/ LaunchDies(s)
  <2>1. /\ UNCHANGED <<sessionVars, poolVars, workerVars, envVars>>
        /\ \A t \in Sessions : pc'[t] = pc[t] \/ pc'[t] \notin {"record", "bind"}
    BY <1>4 DEF LeaseInv, TypeOK, Launch, AcquireLock, RejectLaunch, ScanPool,
       NoCapacity, LeaseThrows, LaunchDies, EndLaunch
  <2>2. \A t \in Sessions : Untouched(t)' => Untouched(t)
    BY <2>1 DEF Untouched, Holds, LeasedTo, sessionVars, poolVars, workerVars
  <2> QED
    BY <2>1, <2>2, CleanKept DEF sessionVars, poolVars, envVars
<1> QED
  BY <1>1, <1>2, <1>3, <1>4 DEF LaunchStep

LEMMA CleanDeploy ==
  ASSUME Undisturbed, NoStackLeft, LeaseInv, CleanInv, NEW s \in Sessions, DeployStep(s)
  PROVE  CleanInv'
<1>1. CASE DeployStarts(s)
  <2>1. Holds(s)
    BY <1>1 DEF DeployStarts, LeaseInv, BuildInv, UseInv, InUse
  <2>2. ASSUME NEW b \in Accounts
        PROVE  env'[b] \subseteq (IF pool'[b] = "leased" THEN {holder'[b]} ELSE {})
    BY <1>1, <2>1 DEF DeployStarts, LeaseInv, TypeOK, CleanInv, poolVars, Holds,
       LeasedTo
  <2>3. ASSUME NEW t \in Sessions, Untouched(t)'
        PROVE  env'[account'[t]] = {}
    <3>1. Untouched(t) /\ t # s
      BY <1>1, <2>1, <2>3 DEF DeployStarts, LeaseInv, TypeOK, BuildInv, Untouched,
         Holds, LeasedTo, launchVars, sessionVars, poolVars
    <3>2. LeasedTo(account[t], t) /\ account[t] \in Accounts
      BY <3>1, NoneAssumption DEF Untouched, Holds, LeaseInv, TypeOK, RowInv,
         UseInv, BuildInv, InUse
    <3>3. account[t] # account[s]
      BY <2>1, <3>1, <3>2 DEF Holds, LeasedTo
    <3> QED
      BY <1>1, <3>1, <3>2, <3>3 DEF DeployStarts, CleanInv, sessionVars, LeaseInv,
         TypeOK
  <2> QED
    BY <2>2, <2>3 DEF CleanInv
<1>2. CASE DeployFails(s)
  <2>1. /\ status[s] = "leasing" /\ Holds(s) /\ account[s] \in Accounts
        /\ deploy[s] \in {"queued", "building"} /\ pc[s] = "over"
        /\ UNCHANGED <<pc, account, pool, holder>>
        /\ status' = [status EXCEPT ![s] = "error"]
        /\ deploy' = [deploy EXCEPT ![s] = "failed"]
    BY <1>2, QuietFaults, NoneAssumption DEF DeployFails, LeaseInv, TypeOK, BuildInv, UseInv,
       InUse, Holds, launchVars, poolVars
  <2>2. ~(deploy[s] = "queued" /\ s \in env[account[s]])
    BY DEF CleanInv, Untouched
  <2>3. env' = [env EXCEPT ![account[s]] = @ \ {s}]
    BY <1>2, <2>2 DEF DeployFails, NoStackLeft
  <2>4. \A b \in Accounts : env'[b] \subseteq env[b]
    BY <2>3 DEF LeaseInv, TypeOK
  <2>5. env'[account[s]] = {}
    BY <2>1, <2>3 DEF LeaseInv, TypeOK, CleanInv, Holds, LeasedTo
  <2>6. ASSUME NEW t \in Sessions, Untouched(t)', t # s
        PROVE  env'[account[t]] = {}
    <3>1. Untouched(t)
      BY <2>1, <2>6 DEF Untouched, Holds, LeasedTo, LeaseInv, TypeOK
    <3>2. account[t] \in Accounts
      BY <3>1, NoneAssumption DEF Untouched, Holds, LeaseInv, TypeOK, RowInv,
         BuildInv
    <3> QED
      BY <2>4, <3>1, <3>2 DEF CleanInv
  <2> QED
    BY <2>1, <2>4, <2>5, <2>6 DEF CleanInv
<1>3. CASE DeployReleases(s)
  <2>1. Holds(s) /\ env[account[s]] = {}
    BY <1>3 DEF DeployReleases, LeaseInv, BuildInv, CleanInv, Untouched
  <2>2. CASE ReleaseAccount(account[s])
    <3>1. ASSUME NEW t \in Sessions, Untouched(t)'
          PROVE  Untouched(t)
      BY <1>3, <2>2, <3>1, NoneAssumption DEF DeployReleases, ReleaseAccount,
         Untouched, Holds, LeasedTo, LeaseInv, TypeOK, launchVars, sessionVars
    <3> QED
      BY <1>3, <2>1, <2>2, <3>1 DEF DeployReleases, ReleaseAccount, CleanInv, LeaseInv,
         TypeOK, Holds, LeasedTo, sessionVars, envVars
  <2>3. CASE UNCHANGED poolVars
    <3>1. ASSUME NEW t \in Sessions, Untouched(t)'
          PROVE  Untouched(t)
      BY <1>3, <2>3, <3>1 DEF DeployReleases, Untouched, Holds, LeasedTo, LeaseInv,
         TypeOK, launchVars, sessionVars, poolVars
    <3> QED
      BY <1>3, <2>3, <3>1, CleanKept DEF DeployReleases, sessionVars, envVars, poolVars
  <2> QED
    BY <1>3, <2>2, <2>3 DEF DeployReleases
<1>4. CASE DeploySucceeds(s) \/ DeployUnlocks(s) \/ DeployDies(s)
  <2>1. /\ UNCHANGED <<pc, account, pool, holder, env>>
        /\ \A t \in Sessions : /\ deploy'[t] = deploy[t] \/ deploy'[t] = "none"
                               /\ status'[t] = status[t] \/ status'[t] = "active"
    BY <1>4, QuietFaults DEF DeploySucceeds, DeployUnlocks, DeployDies, LeaseInv,
       TypeOK, launchVars, sessionVars, poolVars, envVars
  <2>2. \A t \in Sessions : Untouched(t)' => Untouched(t)
    BY <2>1 DEF Untouched, Holds, LeasedTo
  <2> QED
    BY <2>1, <2>2, CleanKept
<1> QED
  BY <1>1, <1>2, <1>3, <1>4 DEF DeployStep

LEMMA CleanRequest ==
  ASSUME LeaseInv, CleanInv, NEW s \in Sessions, TeardownRequest(s)
  PROVE  CleanInv'
<1>1. /\ UNCHANGED <<pc, deploy, account, pool, holder, env>>
      /\ \A t \in Sessions : status'[t] = status[t] \/ status'[t] = "ending"
  BY DEF TeardownRequest, EndLab, ReapDispatch, TeardownIgnored, TeardownLost,
     LeaseInv, TypeOK, launchVars, sessionVars, poolVars, envVars
<1>2. \A t \in Sessions : Untouched(t)' => Untouched(t)
  BY <1>1 DEF Untouched, Holds, LeasedTo
<1> QED
  BY <1>1, <1>2, CleanKept

\* teardown() claims a session, by an event or by the healer.
LEMMA CleanClaim ==
  ASSUME LeaseInv, CleanInv, NEW w \in Workers, NEW s \in Sessions,
         ClaimTeardown(w, s), UNCHANGED <<pc, deploy, pool, holder, env>>
  PROVE  CleanInv'
<1>1. \A t \in Sessions : status'[t] = status[t] \/ status'[t] = "ending"
  BY DEF ClaimTeardown, LeaseInv, TypeOK
<1>2. \A t \in Sessions : Untouched(t)' => Untouched(t)
  BY <1>1 DEF Untouched, Holds, LeasedTo, ClaimTeardown
<1> QED
  BY <1>2, CleanKept DEF ClaimTeardown

LEMMA CleanTeardown ==
  ASSUME LeaseInv, CleanInv, NEW w \in Workers, TeardownStep(w)
  PROVE  CleanInv'
<1>1. ASSUME NEW s \in Sessions, TeardownStarts(w, s)
      PROVE  CleanInv'
  BY <1>1, CleanClaim DEF TeardownStarts, launchVars, poolVars, envVars
<1>2. CASE Wipe(w)
  <2>1. status[td[w].sid] = "ending" /\ td[w].sid \in Sessions
    BY <1>2, WorkerShape DEF Wipe, LeaseInv, TeardownInv, TeardownHolds, NoTeardown
  <2>2. UNCHANGED <<pc, status, deploy, account, pool, holder>>
    BY <1>2, <2>1 DEF Wipe, LeaseInv, TypeOK, launchVars, poolVars
  <2>3. \A b \in Accounts : env'[b] \subseteq env[b]
    BY <1>2 DEF Wipe, LeaseInv, TypeOK, envVars
  <2>4. ASSUME NEW t \in Sessions, Untouched(t)'
        PROVE  env'[account'[t]] = {}
    <3>1. Untouched(t)
      BY <2>2, <2>4 DEF Untouched, Holds, LeasedTo
    <3>2. account[t] \in Accounts
      BY <3>1, NoneAssumption DEF Untouched, Holds, LeaseInv, TypeOK, RowInv,
         BuildInv
    <3> QED
      BY <2>2, <2>3, <3>1, <3>2 DEF CleanInv
  <2> QED
    BY <2>2, <2>3, <2>4 DEF CleanInv
<1>3. CASE ReturnAccount(w)
  <2>1. env[account[td[w].sid]] = {}
    BY <1>3 DEF ReturnAccount, LeaseInv, WipedInv
  <2>2. ASSUME NEW t \in Sessions, Untouched(t)'
        PROVE  Untouched(t)
    BY <1>3, <2>2, NoneAssumption DEF ReturnAccount, ReleaseAccount, Untouched,
       Holds, LeasedTo, LeaseInv, TypeOK, launchVars, sessionVars
  <2> QED
    BY <1>3, <2>1, <2>2 DEF ReturnAccount, ReleaseAccount, CleanInv, LeaseInv,
       TypeOK, sessionVars, envVars
<1>4. CASE Settle(w) \/ Unlock(w) \/ TeardownDies(w)
  <2>1. /\ UNCHANGED <<pc, deploy, account, pool, holder, env>>
        /\ \A t \in Sessions : status'[t] = status[t] \/ status'[t] = "done"
    BY <1>4 DEF Settle, Unlock, TeardownDies, LeaseInv, TypeOK, launchVars,
       sessionVars, poolVars, envVars
  <2>2. \A t \in Sessions : Untouched(t)' => Untouched(t)
    BY <2>1 DEF Untouched, Holds, LeasedTo
  <2> QED
    BY <2>1, <2>2, CleanKept
<1> QED
  BY <1>1, <1>2, <1>3, <1>4 DEF TeardownStep

LEMMA CleanHeal ==
  ASSUME Undisturbed, LeaseInv, CleanInv, HealStep
  PROVE  CleanInv'
<1>1. CASE HealScan
  BY <1>1, CleanKept DEF HealScan, Untouched, Holds, LeasedTo, launchVars,
     sessionVars, poolVars, envVars
<1>2. ASSUME NEW a \in Accounts, HealReleases(a)
      PROVE  CleanInv'
  <2>1. snap[a] \in Sessions /\ LeasedTo(a, snap[a]) /\ Settled(snap[a])
    BY <1>2, QuietFaults DEF HealReleases, Drifted, LeaseInv, TypeOK
  <2>2. account[snap[a]] = a
    BY <2>1 DEF LeaseInv, PoolInv, LeasedTo
  <2>3. env[a] = {}
    BY <2>1, <2>2, NoneAssumption DEF LeaseInv, UseInv, CleanInv, Untouched,
       Holds, Settled
  <2>4. ASSUME NEW t \in Sessions, Untouched(t)'
        PROVE  Untouched(t)
    BY <1>2, <2>4, NoneAssumption DEF HealReleases, ReleaseAccount, Untouched,
       Holds, LeasedTo, LeaseInv, TypeOK, launchVars, sessionVars
  <2> QED
    BY <1>2, <2>3, <2>4 DEF HealReleases, ReleaseAccount, CleanInv, LeaseInv,
       TypeOK, sessionVars, envVars
<1>3. ASSUME NEW a \in Accounts, NEW w \in Workers, HealTearsDown(w, a)
      PROVE  CleanInv'
  BY <1>3, CleanClaim DEF HealTearsDown, LeaseInv, TypeOK, launchVars, poolVars,
     envVars
<1> QED
  BY <1>1, <1>2, <1>3 DEF HealStep

\* The warmer works on accounts that nobody holds.
LEMMA CleanWarm ==
  ASSUME LeaseInv, CleanInv, NEW a \in Accounts, WarmStep(a)
  PROVE  CleanInv'
<1>1. /\ UNCHANGED <<pc, deploy, status, account, holder, env>>
      /\ \A b \in Accounts : pool'[b] = "leased" <=> pool[b] = "leased"
  <2>1. CASE WarmClaims(a)
    BY <2>1 DEF WarmClaims, LeaseInv, TypeOK, launchVars, sessionVars, envVars
  <2>2. CASE WarmEnds(a)
    BY <2>2 DEF WarmEnds, LeaseInv, TypeOK, PoolInv, launchVars, sessionVars
  <2>3. CASE WarmDies(a)
    BY <2>3 DEF WarmDies, launchVars, sessionVars, poolVars
  <2> QED
    BY <2>1, <2>2, <2>3 DEF WarmStep
<1>2. \A t \in Sessions : Holds(t)' <=> Holds(t)
  BY <1>1, NoneAssumption DEF Holds, LeasedTo, LeaseInv, TypeOK
<1> QED
  BY <1>1, <1>2 DEF CleanInv, Untouched

LEMMA CleanTime ==
  ASSUME CleanInv, TimeStep
  PROVE  CleanInv'
<1>1. UNCHANGED <<pc, deploy, status, account, pool, holder, env>>
  BY DEF TimeStep, Expire, ClaimGrowsStale, LockExpires, launchVars, sessionVars,
     poolVars, workerVars, envVars
<1> QED
  BY <1>1, CleanKept DEF Untouched, Holds, LeasedTo

LEMMA CleanStep ==
  ASSUME Undisturbed, NoStackLeft
  PROVE  LeaseInv /\ CleanInv /\ [Next]_vars => CleanInv'
<1> SUFFICES ASSUME LeaseInv, CleanInv, [Next]_vars
             PROVE  CleanInv'
  OBVIOUS
<1>1. CASE Next
  BY <1>1, CleanLaunch, CleanDeploy, CleanRequest, CleanTeardown, CleanHeal,
     CleanWarm, CleanTime DEF Next
<1>2. CASE UNCHANGED vars
  BY <1>2, CleanKept DEF vars, Untouched, Holds, LeasedTo, launchVars,
     sessionVars, poolVars, workerVars, envVars
<1> QED
  BY <1>1, <1>2

\* An account is empty whenever it is leased, and until its deploy starts; only
\* its holder's environment is ever in it, unless a failed deploy left its stack.
THEOREM AccountsClean ==
  ASSUME Undisturbed, NoStackLeft
  PROVE  Spec => []CleanInv
<1>1. Init => CleanInv
  BY DEF Init, CleanInv, Untouched
<1>2. LeaseInv /\ CleanInv /\ [Next]_vars => CleanInv'
  BY CleanStep
<1> QED
  BY <1>1, <1>2, LeasesHold, PTL DEF Spec

-----------------------------------------------------------------------------
(* What the warm markers promise: WarmInv, on top of LeaseInv.  Without a      *)
(* stale scan lease() hands over a warm account only while it is warm.         *)

NoStaleScan == "stale_scan" \notin Faults

LEMMA WarmKept ==
  ASSUME WarmInv, UNCHANGED <<account, env, prebuilt>>,
         \A a \in Accounts : warm'[a] /\ pool'[a] # "leased" => warm[a] /\ pool[a] # "leased",
         \A s \in Sessions : /\ pc'[s] = "record" => pc[s] = "record" /\ hot'[s] = hot[s]
                             /\ status'[s] = "active" => status[s] = "active"
  PROVE  WarmInv'
BY DEF WarmInv

\* ... and while its account holds the stack, a session's environment is there.
LEMMA ActiveApart ==
  ASSUME LeaseInv, NEW s \in Sessions, NEW t \in Sessions, s # t,
         InUse(s), Holds(t)
  PROVE  account[s] # account[t] /\ account[s] \in Accounts
BY NoneAssumption DEF LeaseInv, TypeOK, UseInv, Holds, LeasedTo

LEMMA WarmLaunch ==
  ASSUME NoStaleScan, LeaseInv, WarmInv, NEW s \in Sessions, LaunchStep(s)
  PROVE  WarmInv'
<1>1. ASSUME NEW a \in Accounts, ClaimAccount(s, a)
      PROVE  WarmInv'
  <2>1. CASE pool[a] = "available"
    <3>1. ASSUME NEW b \in Accounts, warm'[b], pool'[b] # "leased"
          PROVE  b \in prebuilt'
      BY <1>1, <2>1, <3>1 DEF ClaimAccount, LeaseInv, TypeOK, WarmInv, envVars
    <3>2. ASSUME NEW t \in Sessions, pc'[t] = "record", account'[t] \in hot'[t]
          PROVE  account'[t] \in prebuilt'
      <4>1. CASE t = s
        BY <1>1, <2>1, <3>2, <4>1 DEF NoStaleScan, ClaimAccount, LeaseInv, TypeOK,
           WarmInv, envVars
      <4>2. CASE t # s
        BY <1>1, <2>1, <3>2, <4>2 DEF ClaimAccount, LeaseInv, TypeOK, WarmInv,
           envVars
      <4> QED
        BY <4>1, <4>2
    <3>3. ASSUME NEW t \in Sessions, status'[t] = "active"
          PROVE  t \in env'[account'[t]]
      <4>1. status[t] = "active" /\ t # s
        BY <1>1, <3>3 DEF ClaimAccount, LeaseInv, RowInv
      <4> QED
        BY <1>1, <2>1, <4>1 DEF ClaimAccount, LeaseInv, TypeOK, WarmInv, envVars
    <3> QED
      BY <3>1, <3>2, <3>3 DEF WarmInv
  <2>2. CASE pool[a] # "available"
    BY <1>1, <2>2, WarmKept DEF ClaimAccount, envVars
  <2> QED
    BY <2>1, <2>2
<1>2. CASE RecordSession(s)
  <2> DEFINE a == account[s]
  <2>1. /\ LeasedTo(a, s) /\ a \in Accounts
        /\ pc' = [pc EXCEPT ![s] = "bind"]
        /\ UNCHANGED <<hot, account, pool, holder, warm>>
        /\ status' = [status EXCEPT ![s] = IF a \in hot[s] THEN "active" ELSE "leasing"]
        /\ prebuilt' = IF a \in hot[s] THEN prebuilt \ {a} ELSE prebuilt
    BY <1>2 DEF LeaseInv, TypeOK, RecordSession, RowInv, poolVars
  <2>2. ASSUME NEW b \in Accounts, warm'[b], pool'[b] # "leased"
        PROVE  b \in prebuilt'
    BY <2>1, <2>2 DEF LeasedTo, WarmInv
  <2>3. ASSUME NEW t \in Sessions, pc'[t] = "record", account'[t] \in hot'[t]
        PROVE  account'[t] \in prebuilt'
    <3>1. t # s /\ pc[t] = "record"
      BY <2>1, <2>3 DEF LeaseInv, TypeOK
    <3>2. account[t] # a
      BY <2>1, <3>1 DEF LeaseInv, RowInv, LeasedTo
    <3> QED
      BY <2>1, <2>3, <3>1, <3>2 DEF WarmInv
  <2>4. \A b \in Accounts : env[b] \subseteq env'[b]
    BY <1>2 DEF LeaseInv, TypeOK, RecordSession
  <2>5. ASSUME NEW t \in Sessions, status'[t] = "active"
        PROVE  t \in env'[account'[t]]
    <3>1. CASE t = s
      <4>1. a \in hot[s] \cap prebuilt
        BY <1>2, <2>1, <2>5, <3>1 DEF LeaseInv, TypeOK, WarmInv, RecordSession
      <4> QED
        BY <1>2, <2>1, <3>1, <4>1 DEF LeaseInv, TypeOK, RecordSession
    <3>2. CASE t # s
      <4>1. status[t] = "active"
        BY <2>1, <2>5, <3>2 DEF LeaseInv, TypeOK
      <4>2. account[t] \in Accounts
        BY <4>1, NoneAssumption DEF LeaseInv, TypeOK, RowInv
      <4> QED
        BY <2>1, <2>4, <4>1, <4>2 DEF WarmInv
    <3> QED
      BY <3>1, <3>2
  <2> QED
    BY <2>2, <2>3, <2>5 DEF WarmInv
<1>3. CASE \/ Launch(s) \/ AcquireLock(s) \/ RejectLaunch(s) \/ ScanPool(s)
           \/ NoCapacity(s) \/ LeaseThrows(s) \/ BindAndDispatch(s) \/ LaunchDies(s)
  <2>1. /\ UNCHANGED <<account, status, pool, warm, env, prebuilt>>
        /\ \A t \in Sessions : pc'[t] = "record" => pc[t] = "record" /\ hot'[t] = hot[t]
    BY <1>3 DEF LeaseInv, TypeOK, Launch, AcquireLock, RejectLaunch, ScanPool,
       NoCapacity, LeaseThrows, BindAndDispatch, LaunchDies, EndLaunch,
       sessionVars, poolVars, envVars
  <2> QED
    BY <2>1, WarmKept
<1> QED
  BY <1>1, <1>2, <1>3 DEF LaunchStep

LEMMA WarmDeploy ==
  ASSUME LeaseInv, WarmInv, NEW s \in Sessions, DeployStep(s)
  PROVE  WarmInv'
<1>1. CASE DeployStarts(s)
  <2>1. \A b \in Accounts : env[b] \subseteq env'[b]
    BY <1>1 DEF DeployStarts, LeaseInv, TypeOK
  <2>2. \A t \in Sessions : status[t] = "active" => account[t] \in Accounts
    BY NoneAssumption DEF LeaseInv, TypeOK, RowInv
  <2> QED
    BY <1>1, <2>1, <2>2 DEF DeployStarts, WarmInv, launchVars, sessionVars, poolVars
<1>2. CASE DeploySucceeds(s)
  <2>1. /\ UNCHANGED <<pc, hot, account, pool, warm, env, prebuilt>>
        /\ s \in env[account[s]]
        /\ \A t \in Sessions : t # s => status'[t] = status[t]
    BY <1>2 DEF DeploySucceeds, LeaseInv, TypeOK, launchVars, poolVars, envVars
  <2> QED
    BY <2>1 DEF WarmInv
<1>3. CASE DeployFails(s)
  <2>1. Holds(s) /\ account[s] \in Accounts /\ status[s] = "leasing"
    BY <1>3, NoneAssumption DEF DeployFails, LeaseInv, TypeOK, BuildInv, UseInv,
       InUse, Holds
  <2>2. \A b \in Accounts : b # account[s] => env'[b] = env[b]
    BY <1>3 DEF DeployFails, LeaseInv, TypeOK
  <2>3. /\ UNCHANGED <<pc, hot, account, pool, warm, prebuilt>>
        /\ status' \in {status, [status EXCEPT ![s] = "error"]}
    BY <1>3 DEF DeployFails, launchVars, poolVars
  <2>4. ASSUME NEW t \in Sessions, status'[t] = "active"
        PROVE  t \in env'[account'[t]]
    <3>1. t # s /\ status[t] = "active"
      BY <2>1, <2>3, <2>4 DEF LeaseInv, TypeOK
    <3>2. account[t] # account[s] /\ account[t] \in Accounts
      BY <2>1, <3>1, ActiveApart DEF InUse
    <3> QED
      BY <2>2, <2>3, <3>1, <3>2 DEF WarmInv
  <2> QED
    BY <2>3, <2>4 DEF WarmInv
<1>4. CASE DeployReleases(s)
  <2>1. CASE ReleaseAccount(account[s])
    BY <1>4, <2>1, WarmKept DEF DeployReleases, ReleaseAccount, LeaseInv, TypeOK,
       launchVars, sessionVars, envVars
  <2>2. CASE UNCHANGED poolVars
    BY <1>4, <2>2, WarmKept DEF DeployReleases, launchVars, sessionVars, poolVars,
       envVars
  <2> QED
    BY <1>4, <2>1, <2>2 DEF DeployReleases
<1>5. CASE DeployUnlocks(s) \/ DeployDies(s)
  BY <1>5, WarmKept DEF DeployUnlocks, DeployDies, launchVars, sessionVars,
     poolVars, envVars
<1> QED
  BY <1>1, <1>2, <1>3, <1>4, <1>5 DEF DeployStep

LEMMA WarmRequest ==
  ASSUME LeaseInv, WarmInv, NEW s \in Sessions, TeardownRequest(s)
  PROVE  WarmInv'
<1>1. /\ UNCHANGED <<pc, hot, account, pool, warm, env, prebuilt>>
      /\ \A t \in Sessions : status'[t] = "active" => status[t] = "active"
  BY DEF TeardownRequest, EndLab, ReapDispatch, TeardownIgnored, TeardownLost,
     LeaseInv, TypeOK, launchVars, sessionVars, poolVars, envVars
<1> QED
  BY <1>1, WarmKept

LEMMA WarmClaim ==
  ASSUME LeaseInv, WarmInv, NEW w \in Workers, NEW s \in Sessions,
         ClaimTeardown(w, s), UNCHANGED <<pc, hot, pool, warm, env, prebuilt>>
  PROVE  WarmInv'
<1>1. \A t \in Sessions : status'[t] = "active" => status[t] = "active"
  BY DEF ClaimTeardown, LeaseInv, TypeOK
<1> QED
  BY <1>1, WarmKept DEF ClaimTeardown

LEMMA WarmTeardown ==
  ASSUME LeaseInv, WarmInv, NEW w \in Workers, TeardownStep(w)
  PROVE  WarmInv'
<1>1. ASSUME NEW s \in Sessions, TeardownStarts(w, s)
      PROVE  WarmInv'
  BY <1>1, WarmClaim DEF TeardownStarts, launchVars, poolVars, envVars
<1>2. CASE Wipe(w)
  <2> DEFINE s == td[w].sid
  <2>1. s \in Sessions /\ status[s] = "ending" /\ Holds(s)
    BY <1>2, WorkerShape DEF Wipe, LeaseInv, TeardownInv, TeardownHolds, NoTeardown
  <2>2. UNCHANGED <<pc, hot, status, account, pool, holder, warm>>
    BY <1>2, <2>1 DEF Wipe, LeaseInv, TypeOK, launchVars, poolVars
  <2>3. \A b \in Accounts : b # account[s] =>
          env'[b] = env[b] /\ (b \in prebuilt => b \in prebuilt')
    BY <1>2 DEF Wipe, LeaseInv, TypeOK, envVars
  <2>4. ASSUME NEW b \in Accounts, warm[b], pool[b] # "leased"
        PROVE  b \in prebuilt'
    BY <2>1, <2>3, <2>4 DEF WarmInv, Holds, LeasedTo
  <2>5. ASSUME NEW t \in Sessions, pc[t] = "record", account[t] \in hot[t]
        PROVE  account[t] \in prebuilt'
    <3>1. LeasedTo(account[t], t) /\ account[t] \in Accounts /\ status[t] = "none"
      BY <2>5, NoneAssumption DEF LeaseInv, TypeOK, RowInv
    <3>2. account[t] # account[s]
      BY <2>1, <3>1 DEF Holds, LeasedTo
    <3> QED
      BY <2>3, <2>5, <3>1, <3>2 DEF WarmInv
  <2>6. ASSUME NEW t \in Sessions, status[t] = "active"
        PROVE  t \in env'[account[t]]
    BY <2>1, <2>3, <2>6, ActiveApart DEF InUse, WarmInv
  <2> QED
    BY <2>2, <2>4, <2>5, <2>6 DEF WarmInv
<1>3. CASE ReturnAccount(w)
  BY <1>3, WarmKept DEF ReturnAccount, ReleaseAccount, LeaseInv, TypeOK,
     launchVars, sessionVars, envVars
<1>4. CASE Settle(w) \/ Unlock(w) \/ TeardownDies(w)
  <2>1. /\ UNCHANGED <<pc, hot, account, pool, warm, env, prebuilt>>
        /\ \A t \in Sessions : status'[t] = "active" => status[t] = "active"
    BY <1>4 DEF Settle, Unlock, TeardownDies, LeaseInv, TypeOK, launchVars,
       sessionVars, poolVars, envVars
  <2> QED
    BY <2>1, WarmKept
<1> QED
  BY <1>1, <1>2, <1>3, <1>4 DEF TeardownStep

LEMMA WarmHeal ==
  ASSUME LeaseInv, WarmInv, HealStep
  PROVE  WarmInv'
<1>1. CASE HealScan
  BY <1>1, WarmKept DEF HealScan, launchVars, sessionVars, poolVars, envVars
<1>2. ASSUME NEW a \in Accounts, HealReleases(a)
      PROVE  WarmInv'
  BY <1>2, WarmKept DEF HealReleases, ReleaseAccount, LeaseInv, TypeOK,
     launchVars, sessionVars, envVars
<1>3. ASSUME NEW a \in Accounts, NEW w \in Workers, HealTearsDown(w, a)
      PROVE  WarmInv'
  BY <1>3, WarmClaim DEF HealTearsDown, LeaseInv, TypeOK, launchVars, poolVars,
     envVars
<1> QED
  BY <1>1, <1>2, <1>3 DEF HealStep

LEMMA WarmWarm ==
  ASSUME LeaseInv, WarmInv, NEW a \in Accounts, WarmStep(a)
  PROVE  WarmInv'
<1>1. /\ UNCHANGED <<pc, hot, status, account, env>>
      /\ prebuilt \subseteq prebuilt'
      /\ \A b \in Accounts : warm'[b] /\ pool'[b] # "leased" =>
           \/ warm[b] /\ pool[b] # "leased"
           \/ b \in prebuilt'
  <2>1. CASE WarmClaims(a)
    BY <2>1 DEF WarmClaims, LeaseInv, TypeOK, launchVars, sessionVars, envVars
  <2>2. CASE WarmEnds(a)
    BY <2>2 DEF WarmEnds, LeaseInv, TypeOK, PoolInv, launchVars, sessionVars
  <2>3. CASE WarmDies(a)
    BY <2>3 DEF WarmDies, launchVars, sessionVars, poolVars
  <2> QED
    BY <2>1, <2>2, <2>3 DEF WarmStep
<1> QED
  BY <1>1 DEF WarmInv

LEMMA WarmInvStep ==
  ASSUME Undisturbed, NoStaleScan
  PROVE  LeaseInv /\ WarmInv /\ [Next]_vars => WarmInv'
<1> SUFFICES ASSUME LeaseInv, WarmInv, [Next]_vars
             PROVE  WarmInv'
  OBVIOUS
<1>1. CASE TimeStep
  BY <1>1, WarmKept DEF TimeStep, Expire, ClaimGrowsStale, LockExpires,
     launchVars, sessionVars, poolVars, envVars
<1>2. CASE Next /\ ~TimeStep
  BY <1>2, WarmLaunch, WarmDeploy, WarmRequest, WarmTeardown, WarmHeal, WarmWarm
     DEF Next
<1>3. CASE UNCHANGED vars
  BY <1>3, WarmKept DEF vars, launchVars, sessionVars, poolVars, envVars
<1> QED
  BY <1>1, <1>2, <1>3

\* A warm account really has its stack, and an active session its environment:
\* nobody wipes it and nobody deletes its stack, whoever else fails or is slow.
THEOREM EnvironmentsStay ==
  ASSUME Undisturbed, NoStaleScan
  PROVE  Spec => []WarmInv
<1>1. Init => WarmInv
  BY DEF Init, WarmInv
<1>2. LeaseInv /\ WarmInv /\ [Next]_vars => WarmInv'
  BY WarmInvStep
<1> QED
  BY <1>1, <1>2, LeasesHold, PTL DEF Spec

\* No session ever meets what an earlier session left, or loses its own
\* environment to a wipe, unless a failed deploy left its stack.
THEOREM TenantsIsolated ==
  ASSUME Undisturbed, NoStackLeft, NoStaleScan
  PROVE  Spec => []TenantIsolation
<1>1. LeaseInv /\ CleanInv /\ WarmInv => TenantIsolation
  <2> SUFFICES ASSUME LeaseInv, CleanInv, WarmInv
               PROVE  TenantIsolation
    OBVIOUS
  <2>1. \A a \in Accounts : pool[a] = "available" => env[a] = {}
    BY DEF CleanInv
  <2>2. ASSUME NEW s \in Sessions, status[s] = "active"
        PROVE  env[account[s]] = {s}
    BY <2>2, NoneAssumption DEF LeaseInv, TypeOK, UseInv, InUse, CleanInv,
       WarmInv, Holds, LeasedTo
  <2> QED
    BY <2>1, <2>2 DEF TenantIsolation
<1> QED
  BY <1>1, LeasesHold, AccountsClean, EnvironmentsStay, PTL

-----------------------------------------------------------------------------
(* The user's lock: LockInv, on top of LeaseInv.  Without a lock timeout, and  *)
(* if a failed deploy gives its account back before it unlocks, the lock       *)
(* outlives everything that is done for the session it was taken for.          *)

NoEarlyUnlock == "lock_timeout" \notin Faults /\ "release_lost" \notin Faults

LEMMA LockKept ==
  ASSUME LockInv, UNCHANGED lock,
         \A s \in Sessions : LockedFor(s)' => LockedFor(s)
  PROVE  LockInv'
BY DEF LockInv

\* Whoever releases the lock does so for the session that has it, as its last act.
LEMMA LockReleased ==
  ASSUME TypeOK, LockInv, NEW s \in Sessions, LockedFor(s), ReleaseUserLock(userId[s]),
         \A t \in Sessions : LockedFor(t)' => LockedFor(t) /\ t # s
  PROVE  LockInv'
BY LaunchAssumption DEF LockInv, ReleaseUserLock, TypeOK

LEMMA LockLaunch ==
  ASSUME LeaseInv, LockInv, NEW s \in Sessions, LaunchStep(s)
  PROVE  LockInv'
<1>1. CASE AcquireLock(s)
  <2>1. CASE lock[userId[s]] = None
    <3>1. /\ pc' = [pc EXCEPT ![s] = "check"]
          /\ lock' = [lock EXCEPT ![userId[s]] = s]
          /\ UNCHANGED <<status, account, pool, holder, deploy, td>>
      BY <1>1, <2>1 DEF AcquireLock, sessionVars, poolVars, workerVars
    <3>2. ASSUME NEW t \in Sessions, LockedFor(t)', t # s
          PROVE  lock'[userId[t]] = t
      <4>1. LockedFor(t)
        BY <3>1, <3>2 DEF LockedFor, Launching, Holds, LeasedTo, TearingDown,
           LeaseInv, TypeOK
      <4>2. userId[t] # userId[s]
        BY <2>1, <4>1, NoneAssumption DEF LockInv
      <4> QED
        BY <3>1, <4>1, <4>2, LaunchAssumption DEF LockInv, LeaseInv, TypeOK
    <3> QED
      BY <3>1, <3>2, LaunchAssumption DEF LockInv, LeaseInv, TypeOK
  <2>2. CASE lock[userId[s]] # None
    <3>1. /\ UNCHANGED <<lock, status, account, pool, holder, deploy, td>>
          /\ \A t \in Sessions : pc'[t] = pc[t] \/ pc'[t] = "over"
      BY <1>1, <2>2 DEF AcquireLock, LeaseInv, TypeOK, sessionVars, poolVars, workerVars
    <3>2. \A t \in Sessions : LockedFor(t)' => LockedFor(t)
      BY <3>1 DEF LockedFor, Launching, Holds, LeasedTo, TearingDown
    <3> QED
      BY <3>1, <3>2, LockKept
  <2> QED
    BY <2>1, <2>2
<1>2. CASE RejectLaunch(s) \/ NoCapacity(s) \/ LeaseThrows(s)
  <2>1. /\ pc[s] \in {"check", "claim", "record"} /\ pc' = [pc EXCEPT ![s] = "over"]
        /\ ReleaseUserLock(userId[s])
        /\ UNCHANGED <<status, account, pool, holder, deploy, td>>
    BY <1>2 DEF RejectLaunch, NoCapacity, LeaseThrows, EndLaunch, sessionVars,
       poolVars, workerVars
  <2>2. status[s] = "none" /\ deploy[s] = "none"
    BY <2>1 DEF LeaseInv, RowInv, BuildInv
  <2>3. \A w \in Workers : td[w].sid # s
    BY <2>1, NoneAssumption DEF LeaseInv, TeardownInv, TeardownHolds
  <2>4. ~LockedFor(s)'
    BY <2>1, <2>2, <2>3 DEF LockedFor, Launching, Holds, TearingDown, LeaseInv,
       TypeOK
  <2>5. ASSUME NEW t \in Sessions, LockedFor(t)'
        PROVE  LockedFor(t) /\ t # s
    BY <2>1, <2>4, <2>5 DEF LockedFor, Launching, Holds, LeasedTo, TearingDown,
       LeaseInv, TypeOK
  <2>6. LockedFor(s) /\ TypeOK
    BY <2>1 DEF LockedFor, Launching, LeaseInv
  <2> QED
    BY <2>1, <2>5, <2>6, LockReleased
<1>3. CASE BindAndDispatch(s)
  <2>1. lock[userId[s]] = s
    BY <1>3 DEF BindAndDispatch, LockInv, LockedFor, Launching
  <2>2. /\ UNCHANGED <<lock, status, account, pool, holder, td>>
        /\ \A t \in Sessions : /\ pc'[t] = pc[t] \/ pc'[t] = "over"
                               /\ deploy'[t] = deploy[t] \/ deploy'[t] = "queued"
    BY <1>3, <2>1, NoneAssumption DEF BindAndDispatch, EndLaunch, LeaseInv, TypeOK,
       lockVars, sessionVars, poolVars
  <2>3. \A t \in Sessions : LockedFor(t)' => LockedFor(t)
    BY <2>2 DEF LockedFor, Launching, Holds, LeasedTo, TearingDown
  <2> QED
    BY <2>2, <2>3, LockKept
<1>4. ASSUME NEW a \in Accounts, ClaimAccount(s, a)
      PROVE  LockInv'
  <2>1. Launching(s)
    BY <1>4 DEF ClaimAccount, Launching
  <2>2. ASSUME NEW t \in Sessions, t # s, LockedFor(t)'
        PROVE  LockedFor(t)
    BY <1>4, <2>2 DEF ClaimAccount, LockedFor, Launching, Holds, LeasedTo,
       TearingDown, LeaseInv, TypeOK, workerVars
  <2> QED
    BY <1>4, <2>1, <2>2, LockKept DEF ClaimAccount, lockVars, LockedFor
<1>5. CASE RecordSession(s)
  <2>1. Launching(s)
    BY <1>5 DEF RecordSession, Launching
  <2>2. ASSUME NEW t \in Sessions, t # s, LockedFor(t)'
        PROVE  LockedFor(t)
    BY <1>5, <2>2 DEF RecordSession, LockedFor, Launching, Holds, LeasedTo,
       TearingDown, LeaseInv, TypeOK, poolVars, workerVars
  <2> QED
    BY <1>5, <2>1, <2>2, LockKept DEF RecordSession, lockVars, LockedFor
<1>6. CASE Launch(s) \/ ScanPool(s) \/ LaunchDies(s)
  <2>1. /\ UNCHANGED <<lock, status, account, pool, holder, deploy, td>>
        /\ \A t \in Sessions : Launching(t)' => Launching(t)
    BY <1>6 DEF Launch, ScanPool, LaunchDies, EndLaunch, Launching, LeaseInv, TypeOK,
       sessionVars, poolVars, lockVars, workerVars
  <2>2. \A t \in Sessions : LockedFor(t)' => LockedFor(t)
    BY <2>1 DEF LockedFor, Holds, LeasedTo, TearingDown
  <2> QED
    BY <2>1, <2>2, LockKept
<1> QED
  BY <1>1, <1>2, <1>3, <1>4, <1>5, <1>6 DEF LaunchStep

LEMMA LockDeploy ==
  ASSUME NoEarlyUnlock, LeaseInv, LockInv, NEW s \in Sessions, DeployStep(s)
  PROVE  LockInv'
<1>1. CASE DeployUnlocks(s)
  <2>1. /\ deploy[s] = "released" /\ deploy' = [deploy EXCEPT ![s] = "none"]
        /\ ReleaseUserLock(userId[s])
        /\ UNCHANGED <<pc, status, account, pool, holder, td>>
    BY <1>1 DEF DeployUnlocks, launchVars, sessionVars, poolVars
  <2>2. pc[s] = "over" /\ ~Holds(s)
    BY <2>1 DEF LeaseInv, BuildInv, NoEarlyUnlock
  <2>3. \A w \in Workers : td[w].sid # s
    BY <2>1, NoneAssumption DEF LeaseInv, TeardownInv, TeardownHolds
  <2>4. ~LockedFor(s)'
    BY <2>1, <2>2, <2>3 DEF LockedFor, Launching, Holds, LeasedTo, TearingDown,
       LeaseInv, TypeOK
  <2>5. ASSUME NEW t \in Sessions, LockedFor(t)'
        PROVE  LockedFor(t) /\ t # s
    BY <2>1, <2>4, <2>5 DEF LockedFor, Launching, Holds, LeasedTo, TearingDown,
       LeaseInv, TypeOK
  <2>6. LockedFor(s) /\ TypeOK
    BY <2>1 DEF LockedFor, LeaseInv
  <2> QED
    BY <2>1, <2>5, <2>6, LockReleased
<1>2. CASE DeployReleases(s)
  <2>1. /\ UNCHANGED <<lock, pc, status, account, td>>
        /\ deploy' = [deploy EXCEPT ![s] = "released"]
        /\ ReleaseAccount(account[s])
        /\ \A t \in Sessions : Holds(t)' => Holds(t)
    BY <1>2 DEF NoEarlyUnlock, DeployReleases, ReleaseAccount, Holds, LeasedTo,
       LeaseInv, TypeOK, launchVars, sessionVars, lockVars
  <2>2. Holds(s)
    BY <1>2 DEF DeployReleases, LeaseInv, BuildInv
  <2>3. \A t \in Sessions : LockedFor(t)' => LockedFor(t)
    BY <2>1, <2>2 DEF LockedFor, Launching, TearingDown, LeaseInv, TypeOK
  <2> QED
    BY <2>1, <2>3, LockKept
<1>3. CASE DeployStarts(s) \/ DeploySucceeds(s) \/ DeployFails(s) \/ DeployDies(s)
  <2>1. /\ UNCHANGED <<lock, pc, account, pool, holder, td>>
        /\ \A t \in Sessions : /\ status'[t] = status[t] \/ t = s
                               /\ deploy'[t] = deploy[t] \/ deploy'[t] # "released"
    BY <1>3 DEF DeployStarts, DeploySucceeds, DeployFails, DeployDies, LeaseInv,
       TypeOK, launchVars, sessionVars, poolVars, lockVars
  <2>2. deploy[s] \in {"queued", "building"} => Holds(s)
    BY DEF LeaseInv, BuildInv, UseInv, InUse
  <2>3. deploy[s] \in {"queued", "building"} \/ status' = status
    BY <1>3 DEF DeployStarts, DeploySucceeds, DeployFails, DeployDies, sessionVars
  <2>4. \A t \in Sessions : LockedFor(t)' => LockedFor(t)
    BY <2>1, <2>2, <2>3 DEF LockedFor, Launching, Holds, LeasedTo, TearingDown
  <2> QED
    BY <2>1, <2>4, LockKept
<1> QED
  BY <1>1, <1>2, <1>3 DEF DeployStep

LEMMA LockRequest ==
  ASSUME LeaseInv, LockInv, NEW s \in Sessions, TeardownRequest(s)
  PROVE  LockInv'
<1>1. /\ UNCHANGED <<lock, pc, deploy, account, pool, holder, td>>
      /\ \A t \in Sessions : status'[t] # "none" => status[t] # "none"
  BY DEF TeardownRequest, EndLab, ReapDispatch, TeardownIgnored, TeardownLost,
     LeaseInv, TypeOK, launchVars, sessionVars, poolVars, lockVars
<1>2. \A t \in Sessions : LockedFor(t)' => LockedFor(t)
  BY <1>1 DEF LockedFor, Launching, Holds, LeasedTo, TearingDown
<1> QED
  BY <1>1, <1>2, LockKept

\* A teardown claims only sessions that still hold their account.
LEMMA LockClaim ==
  ASSUME LeaseInv, LockInv, NEW w \in Workers, NEW s \in Sessions, Holds(s),
         ClaimTeardown(w, s), UNCHANGED <<lock, pc, deploy, pool, holder>>
  PROVE  LockInv'
<1>1. ASSUME NEW t \in Sessions, t # s, LockedFor(t)'
      PROVE  LockedFor(t)
  BY <1>1 DEF ClaimTeardown, LockedFor, Launching, Holds, LeasedTo, TearingDown,
     LeaseInv, TypeOK
<1> QED
  BY <1>1, LockKept DEF LockedFor

LEMMA LockTeardown ==
  ASSUME LeaseInv, LockInv, NEW w \in Workers, TeardownStep(w)
  PROVE  LockInv'
<1>1. ASSUME NEW s \in Sessions, TeardownStarts(w, s)
      PROVE  LockInv'
  <2>1. Holds(s)
    BY <1>1 DEF TeardownStarts, ClaimTeardown, LeaseInv, QueueInv
  <2> QED
    BY <1>1, <2>1, LockClaim DEF TeardownStarts, launchVars, poolVars, lockVars
<1>2. CASE Unlock(w)
  <2>1. PICK s \in Sessions :
          /\ s = td[w].sid /\ ReleaseUserLock(userId[s])
          /\ td' = [td EXCEPT ![w] = NoTeardown]
          /\ UNCHANGED <<pc, status, account, pool, holder, deploy>>
    BY <1>2, WorkerShape DEF Unlock, NoTeardown, LeaseInv, launchVars, sessionVars,
       poolVars
  <2>2. pc[s] = "over" /\ deploy[s] = "none" /\ ~Holds(s)
    BY <1>2, <2>1, NoneAssumption DEF Unlock, LeaseInv, TeardownInv, TeardownHolds
  <2>3. \A v \in Workers \ {w} : td[v].sid # s
    BY <2>1, NoneAssumption DEF LeaseInv, AloneInv
  <2>4. \A v \in Workers : td'[v] = IF v = w THEN NoTeardown ELSE td[v]
    BY <2>1 DEF LeaseInv, TypeOK
  <2>5. ~LockedFor(s)'
    BY <2>1, <2>2, <2>3, <2>4, NoneAssumption DEF LockedFor, Launching, Holds,
       LeasedTo, TearingDown, NoTeardown
  <2>6. ASSUME NEW t \in Sessions, LockedFor(t)'
        PROVE  LockedFor(t) /\ t # s
    BY <2>1, <2>4, <2>5, <2>6, NoneAssumption DEF LockedFor, Launching, Holds,
       LeasedTo, TearingDown, NoTeardown
  <2>7. LockedFor(s) /\ TypeOK
    BY <2>1 DEF LockedFor, TearingDown, LeaseInv
  <2> QED
    BY <2>1, <2>6, <2>7, LockReleased
<1>3. CASE Wipe(w) \/ ReturnAccount(w) \/ Settle(w) \/ TeardownDies(w)
  <2>1. \A v \in Workers : td'[v].sid = td[v].sid \/ td'[v].sid = None
    BY <1>3 DEF Wipe, ReturnAccount, Settle, TeardownDies, LeaseInv, TypeOK,
       Teardowns, NoTeardown
  <2>2. /\ UNCHANGED <<lock, pc, deploy, account>>
        /\ \A t \in Sessions : t # td[w].sid => status'[t] = status[t]
    <3>1. CASE Wipe(w)
      BY <3>1 DEF Wipe, LeaseInv, TypeOK, launchVars, lockVars
    <3>2. CASE ReturnAccount(w) \/ Settle(w) \/ TeardownDies(w)
      BY <3>2 DEF ReturnAccount, Settle, TeardownDies, LeaseInv, TypeOK,
         launchVars, sessionVars, lockVars
    <3> QED
      BY <1>3, <3>1, <3>2
  <2>3. \A a \in Accounts, t \in Sessions : LeasedTo(a, t)' => LeasedTo(a, t)
    BY <1>3 DEF Wipe, ReturnAccount, ReleaseAccount, Settle, TeardownDies, LeasedTo,
       LeaseInv, TypeOK, poolVars
  <2>4. ASSUME NEW t \in Sessions, LockedFor(t)'
        PROVE  LockedFor(t)
    <3>1. CASE t = td[w].sid
      BY <3>1 DEF LockedFor, TearingDown
    <3>2. CASE t # td[w].sid
      <4>1. Holds(t)' => Holds(t)
        BY <2>2, <2>3, <3>2, NoneAssumption DEF Holds, LeaseInv, TypeOK
      <4>2. TearingDown(t)' => TearingDown(t)
        BY <2>1, NoneAssumption DEF TearingDown
      <4> QED
        BY <2>2, <2>4, <4>1, <4>2 DEF LockedFor, Launching
    <3> QED
      BY <3>1, <3>2
  <2> QED
    BY <2>2, <2>4, LockKept
<1> QED
  BY <1>1, <1>2, <1>3 DEF TeardownStep

LEMMA LockHeal ==
  ASSUME Undisturbed, LeaseInv, LockInv, HealStep
  PROVE  LockInv'
<1>1. CASE HealScan
  BY <1>1, LockKept DEF HealScan, LockedFor, Launching, Holds, LeasedTo,
     TearingDown, launchVars, sessionVars, poolVars, lockVars
<1>2. ASSUME NEW a \in Accounts, HealReleases(a)
      PROVE  LockInv'
  <2>1. /\ UNCHANGED <<lock, pc, status, account, deploy, td>>
        /\ \A t \in Sessions : Holds(t)' => Holds(t)
    BY <1>2 DEF HealReleases, ReleaseAccount, Holds, LeasedTo, LeaseInv, TypeOK,
       launchVars, sessionVars, lockVars
  <2>2. \A t \in Sessions : LockedFor(t)' => LockedFor(t)
    BY <2>1 DEF LockedFor, Launching, TearingDown
  <2> QED
    BY <2>1, <2>2, LockKept
<1>3. ASSUME NEW a \in Accounts, NEW w \in Workers, HealTearsDown(w, a)
      PROVE  LockInv'
  <2>1. snap[a] \in Sessions /\ LeasedTo(a, snap[a]) /\ status[snap[a]] # "none"
    BY <1>3, QuietFaults DEF HealTearsDown, LeaseInv, TypeOK
  <2>2. Holds(snap[a])
    BY <2>1, NoneAssumption DEF Holds, LeaseInv, PoolInv, LeasedTo
  <2> QED
    BY <1>3, <2>1, <2>2, LockClaim DEF HealTearsDown, launchVars, poolVars, lockVars
<1> QED
  BY <1>1, <1>2, <1>3 DEF HealStep

LEMMA LockWarm ==
  ASSUME LeaseInv, LockInv, NEW a \in Accounts, WarmStep(a)
  PROVE  LockInv'
<1>1. UNCHANGED <<lock, pc, status, account, deploy, td, holder>>
  BY DEF WarmStep, WarmClaims, WarmEnds, WarmDies, launchVars, sessionVars,
     poolVars, lockVars
<1>2. \A b \in Accounts : pool'[b] = "leased" => pool[b] = "leased"
  BY DEF WarmStep, WarmClaims, WarmEnds, WarmDies, LeaseInv, TypeOK, poolVars
<1>3. \A t \in Sessions : LockedFor(t)' => LockedFor(t)
  BY <1>1, <1>2, NoneAssumption DEF LockedFor, Launching, Holds, LeasedTo,
     TearingDown, LeaseInv, TypeOK
<1> QED
  BY <1>1, <1>3, LockKept

LEMMA LockTime ==
  ASSUME NoEarlyUnlock, LeaseInv, LockInv, TimeStep
  PROVE  LockInv'
<1>1. /\ UNCHANGED <<pc, status, account, deploy, td, pool, holder>>
  BY DEF TimeStep, Expire, ClaimGrowsStale, LockExpires, launchVars, sessionVars,
     poolVars, workerVars
<1>2. \A t \in Sessions : LockedFor(t)' => LockedFor(t)
  BY <1>1 DEF LockedFor, Launching, Holds, LeasedTo, TearingDown
<1>3. ASSUME NEW s \in Sessions, Expire(s) \/ ClaimGrowsStale(s)
      PROVE  LockInv'
  BY <1>2, <1>3, LockKept DEF Expire, ClaimGrowsStale, lockVars
<1>4. ASSUME NEW u \in Users, LockExpires(u)
      PROVE  LockInv'
  <2>1. /\ lock' = [lock EXCEPT ![u] = None]
        /\ pc[lock[u]] = "over" /\ deploy[lock[u]] = "none"
        /\ ~Holds(lock[u]) /\ ~TearingDown(lock[u])
    BY <1>4 DEF LockExpires, ReleaseUserLock, NoEarlyUnlock
  <2>2. ~LockedFor(lock[u])
    BY <2>1 DEF LockedFor, Launching
  <2>3. ASSUME NEW t \in Sessions, LockedFor(t)
        PROVE  lock'[userId[t]] = t
    BY <2>1, <2>2, <2>3, LaunchAssumption DEF LockInv, LeaseInv, TypeOK
  <2> QED
    BY <1>2, <2>3 DEF LockInv
<1> QED
  BY <1>3, <1>4 DEF TimeStep

LEMMA LockStep ==
  ASSUME Undisturbed, NoEarlyUnlock
  PROVE  LeaseInv /\ LockInv /\ [Next]_vars => LockInv'
<1> SUFFICES ASSUME LeaseInv, LockInv, [Next]_vars
             PROVE  LockInv'
  OBVIOUS
<1>1. CASE Next
  BY <1>1, LockLaunch, LockDeploy, LockRequest, LockTeardown, LockHeal, LockWarm,
     LockTime DEF Next
<1>2. CASE UNCHANGED vars
  BY <1>2, LockKept DEF vars, LockedFor, Launching, Holds, LeasedTo, TearingDown,
     launchVars, sessionVars, poolVars, lockVars, workerVars
<1> QED
  BY <1>1, <1>2

\* From acquireUserLock() to the release that goes with the return of the account
\* the user's lock is that of the session: nobody else takes or deletes it.
THEOREM LockOutlives ==
  ASSUME Undisturbed, NoEarlyUnlock
  PROVE  Spec => []LockInv
<1>1. Init => LockInv
  BY NoneAssumption DEF Init, LockInv, LockedFor, Launching, Holds, TearingDown,
     NoTeardown
<1>2. LeaseInv /\ LockInv /\ [Next]_vars => LockInv'
  BY LockStep
<1> QED
  BY <1>1, <1>2, LeasesHold, PTL DEF Spec

\* A user has at most one live session, over all labs, unless a lock goes early.
THEOREM OneLive ==
  ASSUME Undisturbed, NoEarlyUnlock
  PROVE  Spec => []OneLiveSession
<1>1. LeaseInv /\ LockInv => OneLiveSession
  BY NoneAssumption DEF LeaseInv, UseInv, LockInv, LockedFor, OneLiveSession, Live
<1> QED
  BY <1>1, LeasesHold, LockOutlives, PTL

\* Every row of the table UserLocks carries a ttl.
LocksTimed == noTtl = {}

\* The bind of a launch always finds the lock row it made, so every lock row has a
\* ttl and expires by itself, whoever forgets to release it.
THEOREM LocksExpire ==
  ASSUME Undisturbed, NoEarlyUnlock
  PROVE  Spec => []LocksTimed
<1>1. LeaseInv /\ LockInv /\ LocksTimed /\ [Next]_vars => LocksTimed'
  <2> SUFFICES ASSUME LeaseInv, LockInv, LocksTimed, [Next]_vars
               PROVE  LocksTimed'
    OBVIOUS
  <2>1. ASSUME NEW s \in Sessions, LaunchStep(s)
        PROVE  LocksTimed'
    <3>1. CASE BindAndDispatch(s)
      <4>1. lock[userId[s]] # None
        BY <3>1, NoneAssumption DEF BindAndDispatch, LockInv, LockedFor, Launching
      <4> QED
        BY <3>1, <4>1 DEF BindAndDispatch, lockVars, LocksTimed
    <3>2. CASE ~BindAndDispatch(s)
      BY <2>1, <3>2 DEF LaunchStep, Launch, AcquireLock, RejectLaunch, ScanPool,
         ClaimAccount, NoCapacity, RecordSession, LeaseThrows, LaunchDies,
         ReleaseUserLock, lockVars, LocksTimed
    <3> QED
      BY <3>1, <3>2
  <2>2. ASSUME NEW s \in Sessions, DeployStep(s) \/ TeardownRequest(s)
        PROVE  LocksTimed'
    BY <2>2 DEF DeployStep, DeployStarts, DeploySucceeds, DeployFails, DeployReleases,
       DeployUnlocks, DeployDies, TeardownRequest, EndLab, ReapDispatch,
       TeardownIgnored, TeardownLost, ReleaseUserLock, lockVars, LocksTimed
  <2>3. ASSUME NEW w \in Workers, TeardownStep(w)
        PROVE  LocksTimed'
    BY <2>3 DEF TeardownStep, TeardownStarts, Wipe, ReturnAccount, Settle, Unlock,
       TeardownDies, ReleaseUserLock, lockVars, LocksTimed
  <2>4. CASE HealStep \/ (\E a \in Accounts : WarmStep(a)) \/ TimeStep
    BY <2>4 DEF HealStep, HealScan, HealReleases, HealTearsDown, WarmStep, WarmClaims,
       WarmEnds, WarmDies, TimeStep, Expire, ClaimGrowsStale, LockExpires,
       ReleaseUserLock, lockVars, LocksTimed
  <2>5. CASE UNCHANGED vars
    BY <2>5 DEF vars, lockVars, LocksTimed
  <2> QED
    BY <2>1, <2>2, <2>3, <2>4, <2>5 DEF Next
<1>2. Init => LocksTimed
  BY DEF Init, LocksTimed
<1> QED
  BY <1>1, <1>2, LeasesHold, LockOutlives, PTL DEF Spec

=============================================================================
