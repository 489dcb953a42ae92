------------------------------- MODULE LabPool -------------------------------
(* The session engine of the labs product: a fixed pool of sandbox accounts,   *)
(* each leased to at most one learner session, wiped by a teardown and then    *)
(* returned to the pool.                                                       *)
(*                                                                             *)
(* Every await of engine/handler.mjs and engine/labinfra.mjs that reads or     *)
(* writes a table is a step of its own, because Lambda invocations interleave  *)
(* there: launches, deploy workers, teardown workers, the warmer, the reaper   *)
(* and the pool healer all run concurrently over the tables Accounts, Sessions *)
(* and UserLocks.  Clocks are abstracted to the three facts the code asks of   *)
(* them: a session's window is over (expired), a teardown claim is older than  *)
(* STALE_TEARDOWN_MS (claim = "stale"), a lock row's ttl has passed.           *)
(*                                                                             *)
(* A launch request is identified with the session id lease() would mint for   *)
(* it, so Sessions also bounds the number of launch requests.                  *)
EXTENDS FiniteSets

CONSTANTS Sessions,     \* launch requests, and the session ids they mint
          Users,
          Labs,
          PrimaryLab,   \* PRIMARY_LAB, the one lab the warmer pre-deploys
          Accounts,     \* the B2C pool: accounts that are not entReserved
          Workers,      \* teardown executions that can run at the same time
          userId,       \* userId[s], labSlug[s]: who launches what
          labSlug,
          None,
          Faults        \* which of FaultKinds the environment may produce

(* Two executions overlap in a way the code has no guard against.             *)
Races == {"late_end",      \* POST /teardown for a session that gave its account back
          "end_mid_build", \* a teardown is requested while the lab is being built
          "slow_wipe",     \* a teardown claim times out while its worker is at work
          "lock_timeout",  \* a lock's ttl passes before the account was given back
          "stale_heal",    \* healPool acts on a scan that is no longer true
          "stale_scan",    \* lease() claims an account that was wiped since its scan
          "redelivery",    \* Lambda runs the event of a dead worker again
          "slow_build"}    \* the stack outlives the 540s deploy waiter

(* An execution dies, or an event is lost, at a point nothing retries from.    *)
Losses == {"end_lost",     \* the teardown event of POST /teardown
           "lease_crash",  \* between lease()'s claim of the account and its session row
           "warm_crash"}   \* the warmer, while an account is "warming"

(* A call fails, and the deploy worker goes on as if it had not (.catch).       *)
Failures == {"mark_lost",    \* markSession("error"): the row still says "leasing"
             "release_lost", \* releaseAccount(): the account stays leased
             "late_throw"}   \* deployLab() throws although the stack stays

FaultKinds == Races \cup Losses \cup Failures

ASSUME FaultsAssumption == Faults \subseteq FaultKinds
ASSUME NoneAssumption   == None \notin Sessions \cup Accounts
ASSUME LaunchAssumption == /\ userId \in [Sessions -> Users]
                           /\ labSlug \in [Sessions -> Labs]

VARIABLES
  \* ---- POST /launch requests
  pc,        \* pc[s]: where launch request s is
  cand,      \* cand[s]: accounts of lease()'s scan still to be tried
  hot,       \* hot[s]: those of the scan that were warm for the lab
  \* ---- table Sessions
  status,    \* status[s]; "none" when there is no row
  account,   \* account[s]: accountId, once lease() has claimed one
  expired,   \* expired[s]: expiresAt has passed
  claim,     \* claim[s]: teardownAt is absent, recent, or older than 12 minutes
  \* ---- table Accounts
  pool,      \* pool[a]: status
  holder,    \* holder[a]: currentSessionId
  warm,      \* warm[a]: warmReady for PRIMARY_LAB
  \* ---- table UserLocks
  lock,      \* lock[u]: the launch that wrote the row
  noTtl,     \* users whose lock row carries no ttl
  \* ---- asynchronous workers
  deploy,    \* deploy[s]: the deploy worker of s
  tdQueue,   \* sessions with a teardown event on its way
  td,        \* td[w]: what teardown execution w is doing, and for whom
  warming,   \* accounts a warmer is deploying into
  snap,      \* snap[a]: the currentSessionId healPool's scan saw on a
  \* ---- the sandbox accounts themselves
  env,       \* env[a]: sessions whose stack or resources exist in account a
  prebuilt   \* accounts with a stack of the warmer that nobody was given

launchVars  == <<pc, cand, hot>>
sessionVars == <<status, account, expired, claim>>
poolVars    == <<pool, holder, warm>>
lockVars    == <<lock, noTtl>>
workerVars  == <<deploy, tdQueue, td, warming, snap>>
envVars     == <<env, prebuilt>>
vars == <<launchVars, sessionVars, poolVars, lockVars, workerVars, envVars>>

LaunchSteps   == {"idle", "lock", "check", "claim", "record", "bind", "over"}
SessionStatus == {"none", "leasing", "active", "ending", "done", "error"}
DeploySteps   == {"none", "queued", "building", "failed", "released"}
NoTeardown    == [step |-> "idle", sid |-> None]
Teardowns     == {NoTeardown} \cup
                 [step : {"wipe", "return", "settle", "unlock"}, sid : Sessions]

-----------------------------------------------------------------------------
(* State formulae                                                            *)

InUse(s)   == status[s] \in {"leasing", "active"}
Settled(s) == status[s] \in {"done", "error"}

\* A live session, as findActiveSession() counts them.
Live(s) == InUse(s) /\ ~expired[s]

\* Account a is leased to session s.
LeasedTo(a, s) == pool[a] = "leased" /\ holder[a] = s

\* Session s has a row, and the account it names is leased to it.
Holds(s) == /\ status[s] # "none"
            /\ account[s] # None
            /\ LeasedTo(account[s], s)

\* The launch of s owns the user's lock between acquire and release.
Launching(s) == pc[s] \in {"check", "claim", "record", "bind"}

\* The lab of s is still on its way: being recorded, queued or deployed.
Building(s) == pc[s] \in {"record", "bind"} \/ deploy[s] # "none"

TearingDown(s) == \E w \in Workers : td[w].sid = s

\* Mutant: the condition forgets that a teardown may be at work (teardownAt).
ClaimableTwice(s) == status[s] \in {"active", "leasing", "ending"}

\* teardown()'s condition on the session row (its ConditionExpression).
Claimable(s) == /\ status[s] \in {"active", "leasing", "ending"}
                /\ claim[s] \in {"none", "stale"}

-----------------------------------------------------------------------------
TypeOK ==
  /\ pc \in [Sessions -> LaunchSteps]
  /\ cand \in [Sessions -> SUBSET Accounts]
  /\ hot \in [Sessions -> SUBSET Accounts]
  /\ status \in [Sessions -> SessionStatus]
  /\ account \in [Sessions -> Accounts \cup {None}]
  /\ expired \in [Sessions -> BOOLEAN]
  /\ claim \in [Sessions -> {"none", "fresh", "stale"}]
  /\ pool \in [Accounts -> {"available", "leased", "warming"}]
  /\ holder \in [Accounts -> Sessions \cup {None}]
  /\ warm \in [Accounts -> BOOLEAN]
  /\ lock \in [Users -> Sessions \cup {None}]
  /\ noTtl \in SUBSET Users
  /\ deploy \in [Sessions -> DeploySteps]
  /\ tdQueue \in SUBSET Sessions
  /\ td \in [Workers -> Teardowns]
  /\ warming \in SUBSET Accounts
  /\ snap \in [Accounts -> Sessions \cup {None}]
  /\ env \in [Accounts -> SUBSET Sessions]
  /\ prebuilt \in SUBSET Accounts

\* A pool as reset-pool.mjs leaves it: every account available and wiped.
Init ==
  /\ pc = [s \in Sessions |-> "idle"]
  /\ cand = [s \in Sessions |-> {}]
  /\ hot = [s \in Sessions |-> {}]
  /\ status = [s \in Sessions |-> "none"]
  /\ account = [s \in Sessions |-> None]
  /\ expired = [s \in Sessions |-> FALSE]
  /\ claim = [s \in Sessions |-> "none"]
  /\ pool = [a \in Accounts |-> "available"]
  /\ holder = [a \in Accounts |-> None]
  /\ warm = [a \in Accounts |-> FALSE]
  /\ lock = [u \in Users |-> None]
  /\ noTtl = {}
  /\ deploy = [s \in Sessions |-> "none"]
  /\ tdQueue = {}
  /\ td = [w \in Workers |-> NoTeardown]
  /\ warming = {}
  /\ snap = [a \in Accounts |-> None]
  /\ env = [a \in Accounts |-> {}]
  /\ prebuilt = {}

-----------------------------------------------------------------------------
(* Helpers of labinfra.mjs, as the new values they write                     *)

\* releaseUserLock(): deletes the user's row, whoever wrote it.
ReleaseUserLock(u) == /\ lock' = [lock EXCEPT ![u] = None]
                      /\ noTtl' = noTtl \ {u}

\* Mutant: the account is parked as "cleaning", a status poolCounts() counts and
\* nobody handles.
ParkAccount(a) == /\ pool' = [pool EXCEPT ![a] = "cleaning"]
                  /\ holder' = [holder EXCEPT ![a] = None]
                  /\ warm' = [warm EXCEPT ![a] = FALSE]

\* releaseAccount(), and the same update at the end of teardown(): no condition.
ReleaseAccount(a) == /\ pool' = [pool EXCEPT ![a] = "available"]
                     /\ holder' = [holder EXCEPT ![a] = None]
                     /\ warm' = [warm EXCEPT ![a] = FALSE]

EndLaunch(s) == /\ pc' = [pc EXCEPT ![s] = "over"]
                /\ cand' = [cand EXCEPT ![s] = {}]
                /\ hot' = [hot EXCEPT ![s] = {}]

-----------------------------------------------------------------------------
(* POST /launch                                                              *)

\* findActiveSession(): a live session of the same user for the same lab.
Reconnects(s) == \E t \in Sessions : /\ userId[t] = userId[s]
                                     /\ labSlug[t] = labSlug[s]
                                     /\ Live(t)

\* Answer "resumed" if the lab is already live, else go for the user's lock.
Launch(s) ==
  /\ pc[s] = "idle"
  /\ pc' = [pc EXCEPT ![s] = IF Reconnects(s) THEN "over" ELSE "lock"]
  /\ UNCHANGED <<cand, hot, sessionVars, poolVars, lockVars, workerVars, envVars>>

\* Mutant: the put of the lock row has no condition.
AcquireLockBlindly(s) ==
  /\ pc[s] = "lock"
  /\ lock' = [lock EXCEPT ![userId[s]] = s]
  /\ pc' = [pc EXCEPT ![s] = "check"]
  /\ UNCHANGED <<noTtl, cand, hot, sessionVars, poolVars, workerVars, envVars>>

\* acquireUserLock(): the conditional put; a loser only answers (200 or 409).
AcquireLock(s) ==
  /\ pc[s] = "lock"
  /\ IF lock[userId[s]] = None
       THEN /\ lock' = [lock EXCEPT ![userId[s]] = s]
            /\ pc' = [pc EXCEPT ![s] = "check"]
       ELSE /\ pc' = [pc EXCEPT ![s] = "over"]
            /\ UNCHANGED lock
  /\ UNCHANGED <<noTtl, cand, hot, sessionVars, poolVars, workerVars, envVars>>

\* One of the launch caps answers 429 or 503 (which one is left out).
RejectLaunch(s) ==
  /\ pc[s] = "check"
  /\ EndLaunch(s)
  /\ ReleaseUserLock(userId[s])
  /\ UNCHANGED <<sessionVars, poolVars, workerVars, envVars>>

\* lease(), first await: the scan for available accounts.
ScanPool(s) ==
  /\ pc[s] = "check"
  /\ pc' = [pc EXCEPT ![s] = "claim"]
  /\ cand' = [cand EXCEPT ![s] = {a \in Accounts : pool[a] = "available"}]
  /\ hot' = [hot EXCEPT ![s] = {a \in cand'[s] : warm[a] /\ labSlug[s] = PrimaryLab}]
  /\ UNCHANGED <<sessionVars, poolVars, lockVars, workerVars, envVars>>

\* lease() tries the warm accounts of the scan first.
NextTried(s) == IF hot[s] \cap cand[s] # {} THEN hot[s] \cap cand[s] ELSE cand[s]

\* Mutant: the claim trusts the scan.
ClaimScanned(s, a) ==
  /\ pc[s] = "claim"
  /\ a \in NextTried(s)
  /\ pool' = [pool EXCEPT ![a] = "leased"]
  /\ holder' = [holder EXCEPT ![a] = s]
  /\ account' = [account EXCEPT ![s] = a]
  /\ pc' = [pc EXCEPT ![s] = "record"]
  /\ cand' = [cand EXCEPT ![s] = {}]
  /\ UNCHANGED <<hot, status, expired, claim, warm, lockVars, workerVars, envVars>>

\* lease(), the loop: claim a if it is still available, else try the next one.
\* The condition asks for "available", not that a is still warm.
ClaimAccount(s, a) ==
  /\ pc[s] = "claim"
  /\ a \in NextTried(s)
  /\ a \in hot[s] => warm[a] \/ "stale_scan" \in Faults
  /\ IF pool[a] = "available"
       THEN /\ pool' = [pool EXCEPT ![a] = "leased"]
            /\ holder' = [holder EXCEPT ![a] = s]
            /\ account' = [account EXCEPT ![s] = a]
            /\ pc' = [pc EXCEPT ![s] = "record"]
            /\ cand' = [cand EXCEPT ![s] = {}]
       ELSE /\ cand' = [cand EXCEPT ![s] = @ \ {a}]
            /\ UNCHANGED <<pool, holder, account, pc>>
  /\ UNCHANGED <<hot, status, expired, claim, warm, lockVars, workerVars, envVars>>

\* lease() throws NO_CAPACITY; the handler gives the lock back and answers 503.
NoCapacity(s) ==
  /\ pc[s] = "claim"
  /\ cand[s] = {}
  /\ EndLaunch(s)
  /\ ReleaseUserLock(userId[s])
  /\ UNCHANGED <<sessionVars, poolVars, workerVars, envVars>>

\* lease(), last await: the session row.  A warm account is handed over at once.
RecordSession(s) ==
  LET a == account[s] IN
  /\ pc[s] = "record"
  /\ pc' = [pc EXCEPT ![s] = "bind"]
  /\ status' = [status EXCEPT ![s] = IF a \in hot[s] THEN "active" ELSE "leasing"]
  /\ env' = [env EXCEPT ![a] = IF a \in hot[s] \cap prebuilt THEN @ \cup {s} ELSE @]
  /\ prebuilt' = IF a \in hot[s] THEN prebuilt \ {a} ELSE prebuilt
  /\ UNCHANGED <<cand, hot, account, expired, claim, poolVars, lockVars, workerVars>>

\* An update or put of lease() throws: the handler gives the lock back (500).
LeaseThrows(s) ==
  /\ \/ pc[s] = "claim"
     \/ pc[s] = "record" /\ "lease_crash" \in Faults
  /\ EndLaunch(s)
  /\ ReleaseUserLock(userId[s])
  /\ UNCHANGED <<sessionVars, poolVars, workerVars, envVars>>

\* Mutant: bindLockSession() replaces the row, and with it the ttl.
BindReplacesRow(s) ==
  /\ pc[s] = "bind"
  /\ EndLaunch(s)
  /\ lock' = [lock EXCEPT ![userId[s]] = s]
  /\ noTtl' = noTtl \cup {userId[s]}
  /\ deploy' = [deploy EXCEPT ![s] = IF account[s] \in hot[s] THEN @ ELSE "queued"]
  /\ UNCHANGED <<sessionVars, poolVars, tdQueue, td, warming, snap, envVars>>

\* bindLockSession() updates the lock row, or makes one (without ttl, held by s)
\* if it is gone; then a cold lease sends its deploy event, unless that throws.
BindAndDispatch(s) ==
  LET u == userId[s] IN
  /\ pc[s] = "bind"
  /\ EndLaunch(s)
  /\ IF lock[u] = None
       THEN /\ lock' = [lock EXCEPT ![u] = s]
            /\ noTtl' = noTtl \cup {u}
       ELSE UNCHANGED lockVars
  /\ \/ /\ account[s] \notin hot[s]
        /\ deploy' = [deploy EXCEPT ![s] = "queued"]
     \/ UNCHANGED deploy
  /\ UNCHANGED <<sessionVars, poolVars, tdQueue, td, warming, snap, envVars>>

\* The invocation that serves the launch dies.
LaunchDies(s) ==
  /\ \/ pc[s] \in {"check", "claim", "bind"}
     \/ pc[s] = "record" /\ "lease_crash" \in Faults
  /\ EndLaunch(s)
  /\ UNCHANGED <<sessionVars, poolVars, lockVars, workerVars, envVars>>

-----------------------------------------------------------------------------
(* The deploy worker of a cold lease                                         *)

\* deployStack(): CreateStack in the session's account.
DeployStarts(s) ==
  LET a == account[s] IN
  /\ deploy[s] = "queued"
  /\ s \notin env[a]
  /\ deploy' = [deploy EXCEPT ![s] = "building"]
  /\ env' = [env EXCEPT ![a] = @ \cup {s}]
  /\ UNCHANGED <<launchVars, sessionVars, poolVars, lockVars, tdQueue, td,
                 warming, snap, prebuilt>>

\* Mutant: deployLab() flips to "active" whatever the status is.
DeployResurrects(s) ==
  /\ deploy[s] = "building"
  /\ s \in env[account[s]]
  /\ status' = [status EXCEPT ![s] = "active"]
  /\ deploy' = [deploy EXCEPT ![s] = "none"]
  /\ UNCHANGED <<launchVars, account, expired, claim, poolVars, lockVars,
                 tdQueue, td, warming, snap, envVars>>

\* deployLab(): the stack is complete; flip leasing -> active, else skip.
DeploySucceeds(s) ==
  /\ deploy[s] = "building"
  /\ s \in env[account[s]]
  /\ status' = [status EXCEPT ![s] = IF @ = "leasing" THEN "active" ELSE @]
  /\ deploy' = [deploy EXCEPT ![s] = "none"]
  /\ UNCHANGED <<launchVars, account, expired, claim, poolVars, lockVars,
                 tdQueue, td, warming, snap, envVars>>

\* A failed deploy leaves its stack: the waiter gives up while it is being made, or
\* the waiter, DescribeStacks or the flip to "active" throws for another reason.
StackStays == "slow_build" \in Faults \/ "late_throw" \in Faults

\* deployLab() throws: CreateStack finds the stack of an earlier delivery, or the
\* waiter reports a failure (OnFailure DELETE removes the stack), or the stack stays.
\* That the session cannot be marked is swallowed, and the worker goes on ...
DeployFails(s) ==
  LET a == account[s] IN
  /\ \/ /\ deploy[s] = "queued"
        /\ s \in env[a]
        /\ UNCHANGED env
     \/ /\ deploy[s] = "building"
        /\ env' = [env EXCEPT ![a] = @ \ {s}]
     \/ /\ deploy[s] = "building"
        /\ StackStays
        /\ UNCHANGED env
  /\ deploy' = [deploy EXCEPT ![s] = "failed"]
  /\ \/ status' = [status EXCEPT ![s] = "error"]
     \/ "mark_lost" \in Faults /\ UNCHANGED status
  /\ UNCHANGED <<launchVars, account, expired, claim, poolVars, lockVars,
                 tdQueue, td, warming, snap, prebuilt>>

\* ... to releaseAccount(), whose failure is swallowed too ...
DeployReleases(s) ==
  /\ deploy[s] = "failed"
  /\ \/ ReleaseAccount(account[s])
     \/ "release_lost" \in Faults /\ UNCHANGED poolVars
  /\ deploy' = [deploy EXCEPT ![s] = "released"]
  /\ UNCHANGED <<launchVars, sessionVars, lockVars, tdQueue, td, warming, snap, envVars>>

\* ... and to releaseUserLock(); that it fails is like a death before it.
DeployUnlocks(s) ==
  /\ deploy[s] = "released"
  /\ ReleaseUserLock(userId[s])
  /\ deploy' = [deploy EXCEPT ![s] = "none"]
  /\ UNCHANGED <<launchVars, sessionVars, poolVars, tdQueue, td, warming, snap, envVars>>

\* The event is lost, or the worker dies; Lambda may deliver the event again.
DeployDies(s) ==
  /\ \/ /\ deploy[s] # "none"
        /\ deploy' = [deploy EXCEPT ![s] = "none"]
     \/ /\ deploy[s] \in {"building", "failed", "released"}
        /\ "redelivery" \in Faults
        /\ deploy' = [deploy EXCEPT ![s] = "queued"]
  /\ UNCHANGED <<launchVars, sessionVars, poolVars, lockVars, tdQueue, td, warming, snap, envVars>>

-----------------------------------------------------------------------------
(* Teardown: requested by the learner or the reaper, run by a worker         *)

\* POST /teardown: markSession("ending") whatever the status is, then the event.
EndLab(s) ==
  /\ status[s] # "none"
  /\ Holds(s) \/ "late_end" \in Faults
  /\ ~Building(s) \/ "end_mid_build" \in Faults
  /\ status' = [status EXCEPT ![s] = "ending"]
  /\ \/ tdQueue' = tdQueue \cup {s}
     \/ "end_lost" \in Faults /\ UNCHANGED tdQueue
  /\ UNCHANGED <<launchVars, account, expired, claim, poolVars, lockVars,
                 deploy, td, warming, snap, envVars>>

\* The scheduled reap: findExpiredSessions(), then an event for each.
ReapDispatch(s) ==
  /\ InUse(s) /\ expired[s]
  /\ ~Building(s) \/ "end_mid_build" \in Faults
  /\ tdQueue' = tdQueue \cup {s}
  /\ UNCHANGED <<launchVars, sessionVars, poolVars, lockVars,
                 deploy, td, warming, snap, envVars>>

\* Mutant: the claim does not stamp teardownAt.
ClaimUnstamped(w, s) ==
  /\ td[w] = NoTeardown
  /\ Claimable(s)
  /\ status' = [status EXCEPT ![s] = "ending"]
  /\ td' = [td EXCEPT ![w] = [step |-> "wipe", sid |-> s]]
  /\ UNCHANGED <<account, expired, claim>>

\* teardown()'s claim: the one step that lets execution w work for s.
ClaimTeardown(w, s) ==
  /\ td[w] = NoTeardown
  /\ Claimable(s)
  /\ status' = [status EXCEPT ![s] = "ending"]
  /\ claim' = [claim EXCEPT ![s] = "fresh"]
  /\ td' = [td EXCEPT ![w] = [step |-> "wipe", sid |-> s]]
  /\ UNCHANGED <<account, expired>>

\* A teardown event is delivered (at least once).
TeardownStarts(w, s) ==
  /\ s \in tdQueue
  /\ ClaimTeardown(w, s)
  /\ tdQueue' \in {tdQueue, tdQueue \ {s}}
  /\ UNCHANGED <<launchVars, poolVars, lockVars, deploy, warming, snap, envVars>>

\* A teardown event is delivered for a session that cannot be claimed
\* ("already_in_progress").
TeardownIgnored(s) ==
  /\ s \in tdQueue
  /\ ~Claimable(s)
  /\ tdQueue' = tdQueue \ {s}
  /\ UNCHANGED <<launchVars, sessionVars, poolVars, lockVars, deploy, td, warming, snap, envVars>>

\* A teardown event is lost, or its execution dies before the claim.  Only the
\* event of POST /teardown is not repeated by anyone (see "end_lost").
TeardownLost(s) ==
  /\ s \in tdQueue
  /\ Claimable(s)
  /\ InUse(s) \/ claim[s] = "stale" \/ "end_lost" \in Faults
  /\ tdQueue' = tdQueue \ {s}
  /\ UNCHANGED <<launchVars, sessionVars, poolVars, lockVars, deploy, td, warming, snap, envVars>>

\* Mutant: a failed aws-nuke is only logged.
WipeHopefully(w) ==
  /\ td[w].step = "wipe"
  /\ td' = [td EXCEPT ![w].step = "return"]
  /\ \/ env' = [env EXCEPT ![account[td[w].sid]] = {}]
     \/ UNCHANGED env
  /\ UNCHANGED <<launchVars, sessionVars, poolVars, lockVars, deploy, tdQueue,
                 warming, snap, prebuilt>>

\* After the revoke, whose failure is marked on the session row, aws-nuke either
\* empties the account or throws, which ends this execution.
Wipe(w) ==
  LET s == td[w].sid IN
  /\ td[w].step = "wipe"
  /\ status' \in {status, [status EXCEPT ![s] = "ending"]}
  /\ \/ /\ env' = [env EXCEPT ![account[s]] = {}]
        /\ prebuilt' = prebuilt \ {account[s]}
        /\ td' = [td EXCEPT ![w].step = "return"]
     \/ /\ UNCHANGED envVars
        /\ td' = [td EXCEPT ![w] = NoTeardown]
  /\ UNCHANGED <<launchVars, account, expired, claim, poolVars, lockVars,
                 deploy, tdQueue, warming, snap>>

\* The account goes back to the pool ...
ReturnAccount(w) ==
  /\ td[w].step = "return"
  /\ ReleaseAccount(account[td[w].sid])
  /\ td' = [td EXCEPT ![w].step = "settle"]
  /\ UNCHANGED <<launchVars, sessionVars, lockVars, deploy, tdQueue, warming, snap, envVars>>

\* ... the session is done ...
Settle(w) ==
  /\ td[w].step = "settle"
  /\ status' = [status EXCEPT ![td[w].sid] = "done"]
  /\ td' = [td EXCEPT ![w].step = "unlock"]
  /\ UNCHANGED <<launchVars, account, expired, claim, poolVars, lockVars,
                 deploy, tdQueue, warming, snap, envVars>>

\* ... and its user may launch again.
Unlock(w) ==
  /\ td[w].step = "unlock"
  /\ ReleaseUserLock(userId[td[w].sid])
  /\ td' = [td EXCEPT ![w] = NoTeardown]
  /\ UNCHANGED <<launchVars, sessionVars, poolVars, deploy, tdQueue, warming, snap, envVars>>

\* The execution dies; Lambda may deliver its event again.
TeardownDies(w) ==
  /\ td[w] # NoTeardown
  /\ td' = [td EXCEPT ![w] = NoTeardown]
  /\ \/ UNCHANGED tdQueue
     \/ /\ "redelivery" \in Faults
        /\ tdQueue' = tdQueue \cup {td[w].sid}
  /\ UNCHANGED <<launchVars, sessionVars, poolVars, lockVars, deploy, warming, snap, envVars>>

-----------------------------------------------------------------------------
(* healPool(), run by every reap                                             *)

HealScan ==
  /\ snap' = [a \in Accounts |-> IF pool[a] = "leased" THEN holder[a] ELSE None]
  /\ UNCHANGED <<launchVars, sessionVars, poolVars, lockVars, deploy, tdQueue, td, warming, envVars>>

\* What the healer saw on a is still so, and nobody is working for s.
Drifted(a, s) == LeasedTo(a, s) /\ ~Building(s) /\ ~TearingDown(s)

\* Case 1: the session settled, so the account is released without a wipe.
HealReleases(a) ==
  LET s == snap[a] IN
  /\ s # None
  /\ Settled(s)
  /\ Drifted(a, s) \/ "stale_heal" \in Faults
  /\ ReleaseAccount(a)
  /\ snap' = [snap EXCEPT ![a] = None]
  /\ UNCHANGED <<launchVars, sessionVars, lockVars, deploy, tdQueue, td, warming, envVars>>

\* Mutant: the healer retries hung deploys but not hung teardowns.
HealHungDeploy(w, a) ==
  LET s == snap[a] IN
  /\ s # None
  /\ status[s] = "leasing"
  /\ ~Building(s) /\ LeasedTo(a, s)
  /\ ClaimTeardown(w, s)
  /\ snap' = [snap EXCEPT ![a] = None]
  /\ UNCHANGED <<launchVars, poolVars, lockVars, deploy, tdQueue, warming, envVars>>

\* Case 2: the deploy hung (leasing for more than 12 minutes) or a teardown did
\* (ending, claimed more than 12 minutes ago): teardown(sid) in this execution.
HealTearsDown(w, a) ==
  LET s == snap[a] IN
  /\ s # None
  /\ \/ status[s] = "leasing" /\ (~Building(s) \/ "end_mid_build" \in Faults)
     \/ status[s] = "ending" /\ claim[s] = "stale"
  /\ LeasedTo(a, s) \/ "stale_heal" \in Faults
  /\ ClaimTeardown(w, s)
  /\ snap' = [snap EXCEPT ![a] = None]
  /\ UNCHANGED <<launchVars, poolVars, lockVars, deploy, tdQueue, warming, envVars>>

-----------------------------------------------------------------------------
(* The warmer: warmAccount()                                                 *)

WarmClaims(a) ==
  /\ pool[a] = "available" /\ ~warm[a]
  /\ pool' = [pool EXCEPT ![a] = "warming"]
  /\ warming' = warming \cup {a}
  /\ UNCHANGED <<launchVars, sessionVars, holder, warm, lockVars, deploy, tdQueue, td, snap, envVars>>

\* The deploy ends; both ends write "available" without a condition.  A stack of
\* the same name, left by an earlier warmer, makes CreateStack throw.
WarmEnds(a) ==
  /\ a \in warming
  /\ pool' = [pool EXCEPT ![a] = "available"]
  /\ warming' = warming \ {a}
  /\ \/ /\ a \notin prebuilt
        /\ prebuilt' = prebuilt \cup {a}
        /\ warm' = [warm EXCEPT ![a] = TRUE]
     \/ /\ "slow_build" \in Faults
        /\ prebuilt' = prebuilt \cup {a}
        /\ UNCHANGED warm
     \/ UNCHANGED <<warm, prebuilt>>
  /\ UNCHANGED <<launchVars, sessionVars, holder, lockVars, deploy, tdQueue, td, snap, env>>

\* The warmer dies and leaves its stack.
WarmDies(a) ==
  /\ "warm_crash" \in Faults
  /\ a \in warming
  /\ warming' = warming \ {a}
  /\ prebuilt' = prebuilt \cup {a}
  /\ UNCHANGED <<launchVars, sessionVars, poolVars, lockVars, deploy, tdQueue, td, snap, env>>

-----------------------------------------------------------------------------
(* Time                                                                      *)

\* expiresAt passes.  A launch takes seconds, the shortest window is 30 minutes.
Expire(s) ==
  /\ InUse(s) /\ ~expired[s] /\ pc[s] = "over"
  /\ expired' = [expired EXCEPT ![s] = TRUE]
  /\ UNCHANGED <<launchVars, status, account, claim, poolVars, lockVars, workerVars, envVars>>

\* teardownAt gets older than STALE_TEARDOWN_MS.
ClaimGrowsStale(s) ==
  /\ claim[s] = "fresh"
  /\ (~TearingDown(s) /\ s \notin tdQueue) \/ "slow_wipe" \in Faults
  /\ claim' = [claim EXCEPT ![s] = "stale"]
  /\ UNCHANGED <<launchVars, status, account, expired, poolVars, lockVars, workerVars, envVars>>

\* The lock's ttl (session window + 10 minutes) passes, long after the launch and
\* its deploy; an expired row counts as absent to acquireUserLock().
LockExpires(u) ==
  LET s == lock[u] IN
  /\ s # None
  /\ u \notin noTtl
  /\ pc[s] = "over" /\ deploy[s] = "none"
  /\ InUse(s) => expired[s]
  /\ (~Holds(s) /\ ~TearingDown(s)) \/ "lock_timeout" \in Faults
  /\ ReleaseUserLock(u)
  /\ UNCHANGED <<launchVars, sessionVars, poolVars, workerVars, envVars>>

-----------------------------------------------------------------------------
LaunchStep(s) ==
  \/ Launch(s) \/ AcquireLock(s) \/ RejectLaunch(s) \/ ScanPool(s)
  \/ \E a \in Accounts : ClaimAccount(s, a)
  \/ NoCapacity(s) \/ RecordSession(s) \/ LeaseThrows(s)
  \/ BindAndDispatch(s) \/ LaunchDies(s)

DeployStep(s) ==
  \/ DeployStarts(s) \/ DeploySucceeds(s) \/ DeployFails(s)
  \/ DeployReleases(s) \/ DeployUnlocks(s) \/ DeployDies(s)

TeardownRequest(s) ==
  EndLab(s) \/ ReapDispatch(s) \/ TeardownIgnored(s) \/ TeardownLost(s)

TeardownStep(w) ==
  \/ \E s \in Sessions : TeardownStarts(w, s)
  \/ Wipe(w) \/ ReturnAccount(w) \/ Settle(w) \/ Unlock(w) \/ TeardownDies(w)

HealStep ==
  \/ HealScan
  \/ \E a \in Accounts : HealReleases(a) \/ \E w \in Workers : HealTearsDown(w, a)

WarmStep(a) == WarmClaims(a) \/ WarmEnds(a) \/ WarmDies(a)

TimeStep == \/ \E s \in Sessions : Expire(s) \/ ClaimGrowsStale(s)
            \/ \E u \in Users : LockExpires(u)

Next ==
  \/ \E s \in Sessions : LaunchStep(s) \/ DeployStep(s) \/ TeardownRequest(s)
  \/ \E w \in Workers : TeardownStep(w)
  \/ HealStep
  \/ \E a \in Accounts : WarmStep(a)
  \/ TimeStep

Spec == Init /\ [][Next]_vars

-----------------------------------------------------------------------------
(* Safety                                                                    *)

\* One tenant per account: two sessions that are being built or used never run
\* in the same sandbox account (lease() claims it, releaseAccount() and the end
\* of teardown() give it back).  Not so after an overlap, nor when a failed deploy
\* gives the account back without having marked the session ("mark_lost").
AccountExclusive ==
  \A s, t \in Sessions : InUse(s) /\ InUse(t) /\ account[s] = account[t] => s = t

\* An account that can be leased holds nothing of an earlier session, and the
\* account of an active session holds that session's environment and no other:
\* nobody wiped it, nobody else builds in it.  Not so, beside the above, when a
\* stack stays behind a failed deploy ("slow_build", "late_throw"), which the worker
\* takes for one that provisioned nothing, nor after a "stale_scan".
TenantIsolation ==
  /\ \A a \in Accounts : pool[a] = "available" => env[a] = {}
  /\ \A s \in Sessions : status[s] = "active" => env[account[s]] = {s}

\* aws-nuke runs only on an account that is still leased to the session being
\* torn down (with the exceptions of AccountExclusive).
WipesOwnAccount ==
  \A w \in Workers :
    td[w].step = "wipe" => LeasedTo(account[td[w].sid], td[w].sid)

\* One live session per user, whatever the lab (H3-LAUNCH-ATOMICITY-SPEC.md 3),
\* unless a lock goes before its session does: by an overlap or its ttl, or released
\* after a mark or a release that failed ("mark_lost", "release_lost").
OneLiveSession ==
  \A s, t \in Sessions : Live(s) /\ Live(t) /\ userId[s] = userId[t] => s = t

\* A session that left "leasing" never becomes active (again): deployLab() does
\* not resurrect a session that was torn down while its stack was being built.
NoZombie ==
  [][\A s \in Sessions :
       status'[s] = "active" => status[s] \in {"none", "leasing", "active"}]_vars

\* Somebody will look at session s again: lease(), which has its row still to write,
\* the reaper, its teardown event, or healPool() once it is settled or its claim old.
Watched(s) ==
  \/ pc[s] = "record"
  \/ InUse(s) \/ Settled(s)
  \/ status[s] = "ending" /\ (s \in tdQueue \/ claim[s] # "none")

\* No account is forgotten: one that is leased names a session that names it and is
\* watched, and one that is "warming" has its warmer.  Whatever overlaps and whatever
\* fails, only the Losses can take an account out of the pool for good.
NobodyForgotten ==
  \A a \in Accounts :
    /\ pool[a] = "leased" =>
         holder[a] # None /\ account[holder[a]] = a /\ Watched(holder[a])
    /\ pool[a] = "warming" => a \in warming

-----------------------------------------------------------------------------
(* Liveness                                                                  *)

\* Every Lambda execution ends (with its work done or by its timeout), the cron
\* rules keep firing, an event that is sent again and again arrives, and aws-nuke
\* does not fail for ever.  Learners are under no obligation to do anything.
Fairness ==
  /\ \A s \in Sessions : /\ WF_vars(pc[s] # "idle" /\ LaunchStep(s))
                         /\ WF_vars(DeployStep(s))
                         /\ WF_vars(ReapDispatch(s))
                         /\ SF_vars(\E w \in Workers : TeardownStarts(w, s))
                         /\ WF_vars(TeardownIgnored(s))
                         /\ WF_vars(Expire(s))
                         /\ SF_vars(ClaimGrowsStale(s))
  /\ \A w \in Workers : /\ WF_vars(TeardownStep(w))
                        /\ SF_vars(Wipe(w) /\ td'[w].step = "return")
                        /\ SF_vars(ReturnAccount(w))
  /\ WF_vars(HealScan)
  /\ \A a \in Accounts : /\ SF_vars(HealReleases(a))
                         /\ SF_vars(\E w \in Workers : HealTearsDown(w, a))
                         /\ WF_vars(WarmStep(a))
  /\ \A u \in Users : WF_vars(LockExpires(u))

FairSpec == Spec /\ Fairness

\* A leased account always comes back to the pool, through failed deploys and
\* wipes, dead workers and stacks left behind (the reaper and healPool() see to it).
AccountReturns ==
  \A a \in Accounts : pool[a] = "leased" ~> pool[a] = "available"

\* A user who was refused because of a lock can launch again some day: the lock
\* is released, or its ttl passes.  Not so after "mark_lost" or "release_lost": the
\* lock goes early, the teardown's late release takes the row of the next launch, and
\* the bind of that launch makes it again without a ttl.
LockClears == \A u \in Users : lock[u] # None ~> lock[u] = None

-----------------------------------------------------------------------------
(* Why the code keeps tenants apart: one inductive invariant for the leases,  *)
(* and three that rest on it.  Each needs some of the Races and Failures to   *)
(* be absent (see LabPoolIsolation); Losses may happen at any time.           *)

\* Whatever races: only the claim of s itself, its first and only one, makes s the
\* holder of an account, and writes that account into account[s].
NameInv ==
  /\ \A s \in Sessions :
       pc[s] \in {"idle", "lock", "check", "claim"} => account[s] = None
  /\ \A a \in Accounts :
       pool[a] = "leased" => holder[a] # None /\ account[holder[a]] = a

\* Whatever races: a session that was given an account is watched from then on, who
\* tears down has stamped teardownAt, and an account is "warming" while one warms it.
WatchInv ==
  /\ \A s \in Sessions : account[s] # None => Watched(s)
  /\ \A w \in Workers : td[w].sid # None => claim[td[w].sid] # "none"
  /\ \A a \in Accounts : pool[a] = "warming" => a \in warming

\* A row exists once lease() has recorded it, and names the account claimed.
RowInv ==
  \A s \in Sessions :
    /\ pc[s] \in {"idle", "lock", "check", "claim"} =>
         account[s] = None /\ status[s] = "none"
    /\ pc[s] = "record" =>
         account[s] # None /\ status[s] = "none" /\ LeasedTo(account[s], s)
    /\ status[s] # "none" => account[s] # None
    /\ pc[s] = "bind" =>
         status[s] = IF account[s] \in hot[s] THEN "active" ELSE "leasing"

\* An account that is not leased names no session, a leased one names the session
\* whose account it is; a warmer works on accounts that are "warming".
PoolInv ==
  /\ \A a \in Accounts :
       IF pool[a] = "leased"
         THEN holder[a] # None /\ account[holder[a]] = a
         ELSE holder[a] = None
  /\ \A a \in warming : pool[a] = "warming"

\* A session being built or used holds its account.
UseInv == \A s \in Sessions : /\ InUse(s) => Holds(s)
                              /\ status[s] = "done" => ~Holds(s)

\* A deploy worker works for a session that nobody tears down.
BuildInv ==
  \A s \in Sessions :
    /\ deploy[s] # "none" => pc[s] = "over"
    /\ deploy[s] \in {"queued", "building"} => status[s] = "leasing"
    /\ deploy[s] = "failed" => status[s] = "error" /\ Holds(s)
    /\ deploy[s] = "released" =>
         status[s] = "error" /\ (Holds(s) => "release_lost" \in Faults)

\* A teardown works on a session that holds its account until it is returned ...
TeardownHolds(w) ==
  LET s == td[w].sid IN
  /\ s # None => /\ pc[s] = "over" /\ deploy[s] = "none"
                 /\ claim[s] = "fresh"
  /\ td[w].step \in {"wipe", "return"} => status[s] = "ending" /\ Holds(s)
  /\ td[w].step = "settle" => status[s] = "ending" /\ ~Holds(s)
  /\ td[w].step = "unlock" => status[s] = "done" /\ ~Holds(s)

TeardownInv == \A w \in Workers : TeardownHolds(w)

\* ... and is the only one that does.
AloneInv ==
  \A v, w \in Workers : td[v].sid = td[w].sid /\ td[v].sid # None => v = w

\* A teardown event that can still be claimed finds the account leased to it.
QueueInv ==
  \A s \in tdQueue : /\ status[s] # "none" /\ pc[s] = "over" /\ deploy[s] = "none"
                     /\ Claimable(s) => Holds(s)

\* Between its wipe and its return an account is empty.
WipedInv == \A w \in Workers : td[w].step = "return" => env[account[td[w].sid]] = {}

\* The leases: who holds an account, and who works in it.
LeaseInv == /\ TypeOK
            /\ RowInv /\ PoolInv /\ UseInv
            /\ BuildInv /\ TeardownInv /\ AloneInv /\ QueueInv /\ WipedInv

\* An account is empty when it is handed over, until its deploy starts and after
\* its deploy failed.
Untouched(s) == \/ pc[s] = "record"
                \/ pc[s] = "bind" /\ status[s] = "leasing"
                \/ deploy[s] = "queued"
                \/ status[s] = "error" /\ Holds(s)

\* What is in the accounts: nothing of anybody but the holder, and nothing at all
\* before and after the holder has built there.
CleanInv ==
  /\ \A a \in Accounts :
        env[a] \subseteq (IF pool[a] = "leased" THEN {holder[a]} ELSE {})
  /\ \A s \in Sessions : Untouched(s) => env[account[s]] = {}

\* What the warm markers promise is there, in the pool and until a warm hand-over
\* is recorded; and an active session has its environment.
WarmInv ==
  /\ \A a \in Accounts : warm[a] /\ pool[a] # "leased" => a \in prebuilt
  /\ \A s \in Sessions :
        /\ pc[s] = "record" /\ account[s] \in hot[s] => account[s] \in prebuilt
        /\ status[s] = "active" => s \in env[account[s]]

\* The user's lock belongs to a session from its launch until the account is back
\* and the release that goes with it has been made.
LockedFor(s) ==
  Launching(s) \/ Holds(s) \/ deploy[s] = "released" \/ TearingDown(s)

LockInv == \A s \in Sessions : LockedFor(s) => lock[userId[s]] = s

-----------------------------------------------------------------------------
(* The tables and the sandbox accounts as the abstract pool.                  *)

\* The session account a is leased to: its currentSessionId, while it is "leased".
Tenant(a) == IF pool[a] = "leased" THEN holder[a] ELSE None

Pool == INSTANCE AccountPool WITH
          tenant <- [a \in Accounts |-> Tenant(a)],
          inside <- env,
          served <- {s \in Sessions : account[s] # None}

\* Whatever launches, workers, warmer, reaper and healer do, the engine behaves as
\* a pool that leases an empty account to one new session, in which only that
\* session's resources appear, and that takes an account back only when it is empty
\* (with the exceptions of AccountExclusive and the stacks of TenantIsolation).
PoolContract == Pool!Spec

=============================================================================
