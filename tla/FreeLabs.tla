----------------------------- MODULE FreeLabs ------------------------------
(* The caps on runs of a free lab: POST /launch of engine/handler.mjs counts   *)
(* the sessions a user has begun in the last 24 hours, and the free sessions   *)
(* that are live, between the claim of the user's launch lock and the lease.   *)
(* One lab; the accounts are LabPool's, here a lease works or not.  The caps by*)
(* network and over all labs are counts of the same kind and are left out.     *)
EXTENDS EntNames, Naturals, FiniteSets

CONSTANTS FreeLaunches, \* launches, each of which makes one session at most
          Users,
          MaxLaunches,  \* FREE_RULE.maxLaunches
          FreeShare     \* freeCapacity().cap

ASSUME FreeConstants ==
  /\ MaxLaunches \in Nat \ {0} /\ FreeShare \in Nat \ {0}
  /\ IsFiniteSet(FreeLaunches) /\ None \notin FreeLaunches

VARIABLES
  lock,    \* lock[u]: the launch that holds u's lock
  run,     \* run[r]: whose launch r is, and what it does next
  session, \* session[r]: status of the session launch r made
  worker,  \* worker[r]: what the deploy worker of that session does next
  torn,    \* sessions a teardown has claimed
  expired, \* sessions past their expiresAt
  recent,  \* sessions begun in the last 24 hours
  strayed, \* a lock was released that had passed on to a later launch
  revived  \* sessions that failed, and that a teardown has since written over

sessionVars == <<session, worker, torn, expired, recent, revived>>
freeVars == <<lock, run, strayed, sessionVars>>

FreeTypeOK ==
  /\ lock \in [Users -> FreeLaunches \cup {None}]
  /\ run \in [FreeLaunches -> [at : {"new", "lock", "count", "share", "lease", "over"},
                           by : Users \cup {None}]]
  /\ session \in [FreeLaunches -> {"none", "leasing", "active", "ending", "error", "done"}]
  /\ worker \in [FreeLaunches -> {"none", "deploys", "unlocks"}]
  /\ torn \in SUBSET FreeLaunches /\ expired \in SUBSET FreeLaunches
  /\ recent \in SUBSET FreeLaunches /\ revived \in SUBSET FreeLaunches
  /\ strayed \in BOOLEAN

FreeInit ==
  /\ lock = [u \in Users |-> None]
  /\ run = [r \in FreeLaunches |-> [at |-> "new", by |-> None]]
  /\ session = [r \in FreeLaunches |-> "none"]
  /\ worker = [r \in FreeLaunches |-> "none"]
  /\ torn = {} /\ expired = {} /\ recent = {} /\ strayed = FALSE /\ revived = {}

-----------------------------------------------------------------------------
\* Sessions that are live, and those the caps of user u count: all but failed ones.
IsLive(r) == session[r] \in {"leasing", "active"} /\ r \notin expired
Used(u) == {r \in recent : run[r].by = u /\ session[r] # "error"}

Goes(r, at) == run' = [run EXCEPT ![r].at = at]

\* releaseUserLock(): whoever holds the lock of u, on behalf of launch r.
Unlocks(u, r) ==
  /\ lock' = [lock EXCEPT ![u] = None]
  /\ strayed' = (strayed \/ lock[u] \notin {None, r})

\* The launch is over and gives back the lock.
Rejects(r) == Goes(r, "over") /\ Unlocks(run[r].by, r) /\ UNCHANGED sessionVars

\* POST /launch, unless findActiveSession() has one to reconnect to.
Launches(r, u) ==
  /\ run[r].at = "new"
  /\ \A q \in FreeLaunches : IsLive(q) => run[q].by # u
  /\ run' = [run EXCEPT ![r] = [at |-> "lock", by |-> u]]
  /\ UNCHANGED <<lock, strayed, sessionVars>>

\* Mutant: the lock is taken from whoever has it.
ClaimsAnyLock(r) ==
  /\ run[r].at = "lock"
  /\ lock' = [lock EXCEPT ![run[r].by] = r]
  /\ Goes(r, "count")
  /\ UNCHANGED <<strayed, sessionVars>>

\* acquireUserLock(), or ALREADY_ACTIVE.
ClaimsLock(r) ==
  /\ run[r].at = "lock"
  /\ IF lock[run[r].by] = None
       THEN lock' = [lock EXCEPT ![run[r].by] = r] /\ Goes(r, "count")
       ELSE Goes(r, "over") /\ UNCHANGED lock
  /\ UNCHANGED <<strayed, sessionVars>>

\* launchCount(), or LIMIT_REACHED.
CountsRuns(r) ==
  /\ run[r].at = "count"
  /\ IF Cardinality(Used(run[r].by)) >= MaxLaunches
       THEN Rejects(r)
       ELSE Goes(r, "share") /\ UNCHANGED <<lock, strayed, sessionVars>>

\* freeCapacity(), or FREE_AT_CAPACITY.
CountsShare(r) ==
  /\ run[r].at = "share"
  /\ IF Cardinality({q \in FreeLaunches : IsLive(q)}) >= FreeShare
       THEN Rejects(r)
       ELSE Goes(r, "lease") /\ UNCHANGED <<lock, strayed, sessionVars>>

\* lease() makes the session, on a warm account or on one to deploy to ...
MakesSession(r) ==
  /\ run[r].at = "lease"
  /\ Goes(r, "over")
  /\ recent' = recent \cup {r}
  /\ \/ session' = [session EXCEPT ![r] = "active"] /\ UNCHANGED worker
     \/ /\ session' = [session EXCEPT ![r] = "leasing"]
        /\ worker' = [worker EXCEPT ![r] = "deploys"]
  /\ UNCHANGED <<lock, strayed, torn, expired, revived>>

\* ... or NO_CAPACITY.
NoCapacity(r) == run[r].at = "lease" /\ Rejects(r)

\* The invocation dies and leaves its lock ...
LaunchDies(r) ==
  /\ run[r].at \in {"lock", "count", "share", "lease"}
  /\ Goes(r, "over")
  /\ UNCHANGED <<lock, strayed, sessionVars>>

\* ... to expire 10 minutes after a session would: no launch takes that long.
LockExpires(u) ==
  /\ lock[u] # None /\ run[lock[u]].at = "over"
  /\ session[lock[u]] = "none" \/ lock[u] \in expired
  /\ lock' = [lock EXCEPT ![u] = None]
  /\ UNCHANGED <<run, strayed, sessionVars>>

\* deployLab() is through: the session is active, unless it was torn down.
DeployEnds(r) ==
  /\ worker[r] = "deploys"
  /\ worker' = [worker EXCEPT ![r] = "none"]
  /\ session' = [session EXCEPT ![r] = IF @ = "leasing" THEN "active" ELSE @]
  /\ UNCHANGED <<lock, run, strayed, torn, expired, recent, revived>>

\* It fails: the worker marks the session, whatever became of it, or fails to, ...
DeployBreaks(r) ==
  /\ worker[r] = "deploys"
  /\ worker' = [worker EXCEPT ![r] = "unlocks"]
  /\ session' \in {session, [session EXCEPT ![r] = "error"]}
  /\ UNCHANGED <<lock, run, strayed, torn, expired, recent, revived>>

\* ... and later releases the lock of its user, unless that fails.
DeployUnlocks(r) ==
  /\ worker[r] = "unlocks"
  /\ worker' = [worker EXCEPT ![r] = "none"]
  /\ Unlocks(run[r].by, r) \/ UNCHANGED <<lock, strayed>>
  /\ UNCHANGED <<run, session, torn, expired, recent, revived>>

\* Whether the session of launch r counts again, which it did not as a failed one.
Revives(r) == revived' = IF session[r] = "error" THEN revived \cup {r} ELSE revived

\* POST /teardown, which writes "ending" over any status, a failed or a settled one
\* too; or the claim of teardown(), for the reaper; ...
EndsSession(r) ==
  /\ session[r] # "none"
  /\ session' = [session EXCEPT ![r] = "ending"]
  /\ torn' = torn \cup {r}
  /\ Revives(r)
  /\ UNCHANGED <<lock, run, strayed, worker, expired, recent>>

\* ... and its end, whatever a deploy has written in between; or it dies just before
\* it releases the lock.
SessionDone(r) ==
  /\ r \in torn /\ session[r] # "done"
  /\ session' = [session EXCEPT ![r] = "done"]
  /\ Revives(r)
  /\ Unlocks(run[r].by, r) \/ UNCHANGED <<lock, strayed>>
  /\ UNCHANGED <<run, worker, torn, expired, recent>>

SessionExpires(r) ==
  /\ session[r] # "none" /\ r \notin expired
  /\ expired' = expired \cup {r}
  /\ UNCHANGED <<lock, run, strayed, session, worker, torn, recent, revived>>

\* A day goes by.
RunAges(r) ==
  /\ r \in recent \cap expired /\ worker[r] = "none"
  /\ recent' = recent \ {r}
  /\ UNCHANGED <<lock, run, strayed, session, worker, torn, expired, revived>>

FreeNext ==
  \/ \E u \in Users : LockExpires(u) \/ \E r \in FreeLaunches : Launches(r, u)
  \/ \E r \in FreeLaunches :
       \/ ClaimsLock(r) \/ CountsRuns(r) \/ CountsShare(r) \/ MakesSession(r)
       \/ NoCapacity(r) \/ LaunchDies(r)
       \/ DeployEnds(r) \/ DeployBreaks(r) \/ DeployUnlocks(r)
       \/ EndsSession(r) \/ SessionDone(r) \/ SessionExpires(r) \/ RunAges(r)

FreeSpec == FreeInit /\ [][FreeNext]_freeVars

-----------------------------------------------------------------------------
\* However many tabs launch, launches die, deploys fail and locks expire, no user has
\* more than MaxLaunches runs of the lab in 24 hours, next to the failed ones, unless a
\* deploy that failed late released the lock of a later launch.  A failed run does not
\* count ("Excludes failed launches", launchCount), but one that a teardown writes over
\* counts from then on, on top of the cap: POST /teardown asks for no status, and
\* teardown() ends with "done" whatever a deploy has written under it.
FreeRunsCapped ==
  ~strayed => \A u \in Users : Cardinality(Used(u) \ revived) <= MaxLaunches

=============================================================================
