------------------------------ MODULE EntInvite ------------------------------
(* An invite of the enterprise product, from its creation to a stored result:  *)
(* consent, one time code, booking, start, submit, revoke and refund.          *)
(*                                                                             *)
(* The routes of engine/ent-handler.mjs read the invite, decide, and write it  *)
(* some awaits later, mostly with setInviteStatus(), which has no condition;   *)
(* a few transitions are single conditional updates.  A request that is under  *)
(* way is a job: what it is about to do, and what it read.  A member of        *)
(* Requests stands for any number of invocations, one after the other, and any *)
(* number may die half way.                                                    *)
(*                                                                             *)
(* A lab of the AWS track.  The reserved accounts are leased and given back as *)
(* LabPool says in detail; here the claim of an account, a deploy that comes   *)
(* through, a teardown and a release by the healer are one step each.          *)
(* An expired link only refuses requests and is left out.                      *)
CONSTANTS Invites,
          Sessions,   \* the sessions leaseEnt() can mint
          Accounts,   \* the entReserved accounts
          Requests,   \* invocations that can be under way at the same time
          None

ASSUME NoneAssumption == None \notin Invites \cup Sessions

VARIABLES
  \* ---- table Invites
  status,     \* status[i]; "none" when there is no row
  consented,  \* invites with a consentAt
  refunded,   \* invites with the flag refunded
  claim,      \* claim[i]: leaseClaimAt is absent, recent, or older than 2 minutes
  session,    \* session[i]: sessionId
  \* ---- table Results
  result,     \* result[i]: which environment the stored grade was taken of
  \* ---- sessions and reserved accounts
  sess,       \* sess[n]: status
  whose,      \* whose[n]: userId
  place,      \* place[n]: accountId
  tenant,     \* tenant[a]: the session account a is leased to
  deploy,     \* sessions with a deploy worker
  failing,    \* sessions whose deploy worker has still to release the account
  teardown,   \* sessions with a teardown event on its way
  \* ---- requests
  job         \* job[r]: what request r does next, for whom, with what it read

inviteVars == <<status, consented, refunded, claim, session>>
poolVars   == <<sess, whose, place, tenant, deploy, failing, teardown>>
vars == <<inviteVars, result, poolVars, job>>

InviteStatus == {"none", "created", "consented", "verified", "booked",
                 "started", "submitted", "revoked", "refunded"}
Terminal == {"submitted", "revoked", "refunded"}
Grades   == {"own",         \* of the candidate's own, live environment
             "other",       \* of an account that is not (or no longer) theirs
             "incomplete"}  \* gradeLab() threw
Steps == {"idle",
          "book",                                                     \* POST /ent/book
          "claim", "lease", "record", "unclaim", "bind", "dispatch",  \* POST /ent/start
          "grade", "store", "mark", "finish"}                         \* POST /ent/submit

\* A request: what it does next, for which invite, the session it leased or read,
\* and the grade it took.
Job(st, i, n, g) == [step |-> st, inv |-> i, sid |-> n, grade |-> g]
Idle == Job("idle", None, None, "none")
SessionStatus == {"none", "minted", "leasing", "active", "error", "over"}
Jobs == {Idle} \cup [step : Steps \ {"idle"}, inv : Invites,
                     sid : Sessions \cup {None}, grade : Grades \cup {"none"}]

TypeOK ==
  /\ status \in [Invites -> InviteStatus]
  /\ consented \in SUBSET Invites
  /\ refunded \in SUBSET Invites
  /\ claim \in [Invites -> {"none", "fresh", "stale"}]
  /\ session \in [Invites -> Sessions \cup {None}]
  /\ result \in [Invites -> Grades \cup {"none"}]
  /\ sess \in [Sessions -> SessionStatus]
  /\ whose \in [Sessions -> Invites \cup {None}]
  /\ place \in [Sessions -> Accounts \cup {None}]
  /\ tenant \in [Accounts -> Sessions \cup {None}]
  /\ deploy \in SUBSET Sessions
  /\ failing \in SUBSET Sessions
  /\ teardown \in SUBSET Sessions
  /\ job \in [Requests -> Jobs]

Init ==
  /\ status = [i \in Invites |-> "none"]
  /\ consented = {}
  /\ refunded = {}
  /\ claim = [i \in Invites |-> "none"]
  /\ session = [i \in Invites |-> None]
  /\ result = [i \in Invites |-> "none"]
  /\ sess = [n \in Sessions |-> "none"]
  /\ whose = [n \in Sessions |-> None]
  /\ place = [n \in Sessions |-> None]
  /\ tenant = [a \in Accounts |-> None]
  /\ deploy = {}
  /\ failing = {}
  /\ teardown = {}
  /\ job = [r \in Requests |-> Idle]

-----------------------------------------------------------------------------
Live(n) == sess[n] \in {"leasing", "active"}

\* The environment the candidate worked in is there to be graded.
OwnEnvironment(n) == sess[n] = "active" /\ tenant[place[n]] = n

\* Some request is under way for invite i ...
Busy(i) == \E r \in Requests : job[r].inv = i

\* ... and is about to grade it.
Grading(i) == \E r \in Requests : job[r].inv = i /\ job[r].step \in {"grade", "store"}

\* Request r has claimed its invite, and not bound its session, answered or died.
Claims(r) == job[r].step \in {"lease", "record", "unclaim", "bind"}

\* Session n is in the hands of a request: it has an account, and is not yet on the
\* invite, or its deploy is not yet sent for.
InHand(n) ==
  \E r \in Requests : job[r].sid = n /\ job[r].step \in {"record", "bind", "dispatch"}

SetStatus(i, st) == status' = [status EXCEPT ![i] = st]
Become(r, j)     == job' = [job EXCEPT ![r] = j]
Begin(r, st, i)  == Become(r, Job(st, i, None, "none"))
Goto(r, st)      == Become(r, Job(st, job[r].inv, job[r].sid, job[r].grade))
Answer(r)        == Become(r, Idle)

-----------------------------------------------------------------------------
(* Transitions that are one update                                           *)

\* createInvite(): a token creates its invite once.
Create(i) ==
  /\ status[i] = "none"
  /\ SetStatus(i, "created")
  /\ UNCHANGED <<consented, refunded, claim, session, result, poolVars, job>>

\* Mutant: the transition to "consented" is a plain status write.
ConsentBlindly(i) ==
  /\ status[i] # "none"
  /\ SetStatus(i, "consented")
  /\ consented' = consented \cup {i}
  /\ UNCHANGED <<refunded, claim, session, result, poolVars, job>>

\* consentInvite()
Consent(i) ==
  /\ status[i] \in {"created", "consented", "verified"}
  /\ SetStatus(i, "consented")
  /\ consented' = consented \cup {i}
  /\ UNCHANGED <<refunded, claim, session, result, poolVars, job>>

\* Mutant: a right code verifies an invite that was only created.
VerifyAnyone(i) ==
  /\ status[i] \in {"created", "consented", "verified"}
  /\ SetStatus(i, "verified")
  /\ UNCHANGED <<consented, refunded, claim, session, result, poolVars, job>>

\* verifyOtp() with the right code: its last, conditional update.
Verify(i) ==
  /\ status[i] \in {"consented", "verified"}
  /\ SetStatus(i, "verified")
  /\ UNCHANGED <<consented, refunded, claim, session, result, poolVars, job>>

\* revokeInvite(): setInviteStatus(), whatever the status is.
Revoke(i) ==
  /\ status[i] # "none"
  /\ SetStatus(i, "revoked")
  /\ UNCHANGED <<consented, refunded, claim, session, result, poolVars, job>>

\* refundInvite(): once per invite, whatever the status is.
Refund(i) ==
  /\ status[i] # "none" /\ i \notin refunded
  /\ SetStatus(i, "refunded")
  /\ refunded' = refunded \cup {i}
  /\ UNCHANGED <<consented, claim, session, result, poolVars, job>>

-----------------------------------------------------------------------------
(* POST /ent/book; the seats of the slots are the business of EntSlots        *)

\* The invite as it is now may be booked, or booked again for another slot.
BookReads(r, i) ==
  /\ job[r] = Idle
  /\ status[i] \in {"verified", "consented", "booked"}
  /\ Begin(r, "book", i)
  /\ UNCHANGED <<inviteVars, result, poolVars>>

\* There was a seat: setInviteStatus("booked"), without a condition.
BookRecords(r) ==
  /\ job[r].step = "book"
  /\ SetStatus(job[r].inv, "booked")
  /\ Answer(r)
  /\ UNCHANGED <<consented, refunded, claim, session, result, poolVars>>

-----------------------------------------------------------------------------
(* POST /ent/start                                                           *)

\* A start that finds the session alive reconnects and changes nothing.
StartReads(r, i) ==
  /\ job[r] = Idle
  /\ status[i] \in {"booked", "started"}
  /\ session[i] # None => ~Live(session[i])
  /\ Begin(r, "claim", i)
  /\ UNCHANGED <<inviteVars, result, poolVars>>

\* Mutant: the claim does not look at an earlier one.
StartClaimsAnyway(r) ==
  LET i == job[r].inv IN
  /\ job[r].step = "claim"
  /\ IF session[i] = None /\ status[i] = "booked"
       THEN claim' = [claim EXCEPT ![i] = "fresh"] /\ Goto(r, "lease")
       ELSE UNCHANGED claim /\ Answer(r)
  /\ UNCHANGED <<status, consented, refunded, session, result, poolVars>>

\* Mutant: the claim does not look for a session.
StartClaimsAgain(r) ==
  LET i == job[r].inv IN
  /\ job[r].step = "claim"
  /\ IF status[i] \in {"booked", "started"} /\ claim[i] # "fresh"
       THEN claim' = [claim EXCEPT ![i] = "fresh"] /\ Goto(r, "lease")
       ELSE UNCHANGED claim /\ Answer(r)
  /\ UNCHANGED <<status, consented, refunded, session, result, poolVars>>

\* claimStartLease(); a loser reconnects or answers "retry".
StartClaims(r) ==
  LET i == job[r].inv IN
  /\ job[r].step = "claim"
  /\ IF session[i] = None /\ status[i] = "booked" /\ claim[i] # "fresh"
       THEN claim' = [claim EXCEPT ![i] = "fresh"] /\ Goto(r, "lease")
       ELSE UNCHANGED claim /\ Answer(r)
  /\ UNCHANGED <<status, consented, refunded, session, result, poolVars>>

\* leaseEnt() claims an account for the session id it has minted ...
StartTakes(r) ==
  /\ job[r].step = "lease"
  /\ \E a \in Accounts, n \in Sessions :
       /\ tenant[a] = None /\ sess[n] = "none"
       /\ sess' = [sess EXCEPT ![n] = "minted"]
       /\ whose' = [whose EXCEPT ![n] = job[r].inv]
       /\ place' = [place EXCEPT ![n] = a]
       /\ tenant' = [tenant EXCEPT ![a] = n]
       /\ Become(r, Job("record", job[r].inv, n, "none"))
  /\ UNCHANGED <<inviteVars, result, deploy, failing, teardown>>

\* ... and puts the session row, "active" if the account was warm.
StartRecords(r) ==
  /\ job[r].step = "record"
  /\ \E st \in {"leasing", "active"} : sess' = [sess EXCEPT ![job[r].sid] = st]
  /\ Goto(r, "bind")
  /\ UNCHANGED <<inviteVars, result, whose, place, tenant, deploy, failing, teardown>>

\* leaseEnt() throws NO_CAPACITY ...
StartFindsNone(r) ==
  /\ job[r].step = "lease"
  /\ \A a \in Accounts : tenant[a] # None
  /\ Goto(r, "unclaim")
  /\ UNCHANGED <<inviteVars, result, poolVars>>

\* ... and releaseStartClaim() lets the candidate try again at once, unless it fails,
\* which is swallowed.
StartUnclaims(r) ==
  LET i == job[r].inv IN
  /\ job[r].step = "unclaim"
  /\ \/ session[i] = None /\ claim' = [claim EXCEPT ![i] = "none"]
     \/ UNCHANGED claim
  /\ Answer(r)
  /\ UNCHANGED <<status, consented, refunded, session, result, poolVars>>

\* setInviteStatus("started") with the handles of the session, without a condition.
StartBinds(r) ==
  LET i == job[r].inv
      n == job[r].sid IN
  /\ job[r].step = "bind"
  /\ SetStatus(i, "started")
  /\ session' = [session EXCEPT ![i] = n]
  /\ IF sess[n] = "leasing" THEN Goto(r, "dispatch") ELSE Answer(r)
  /\ UNCHANGED <<consented, refunded, claim, result, poolVars>>

\* The deploy event of a cold account.
StartDispatches(r) ==
  /\ job[r].step = "dispatch"
  /\ deploy' = deploy \cup {job[r].sid}
  /\ Answer(r)
  /\ UNCHANGED <<inviteVars, result, sess, whose, place, tenant, failing, teardown>>

-----------------------------------------------------------------------------
(* POST /ent/submit                                                          *)

\* Mutant: whether a result is stored is not asked.
SubmitReadsStatus(r, i) ==
  /\ job[r] = Idle
  /\ status[i] = "started" /\ session[i] # None
  /\ Become(r, Job("grade", i, session[i], "none"))
  /\ UNCHANGED <<inviteVars, result, poolVars>>

\* No result yet, and the invite is started: grade it.
SubmitReads(r, i) ==
  /\ job[r] = Idle
  /\ result[i] = "none"
  /\ status[i] = "started" /\ session[i] # None
  /\ Become(r, Job("grade", i, session[i], "none"))
  /\ UNCHANGED <<inviteVars, result, poolVars>>

\* gradeLab() of the account the invite names, whoever's it is by now.
SubmitGrades(r) ==
  /\ job[r].step = "grade"
  /\ \E g \in {"incomplete", IF OwnEnvironment(job[r].sid) THEN "own" ELSE "other"} :
       Become(r, Job("store", job[r].inv, job[r].sid, g))
  /\ UNCHANGED <<inviteVars, result, poolVars>>

\* putResult(), without a condition.
SubmitStores(r) ==
  /\ job[r].step = "store"
  /\ result' = [result EXCEPT ![job[r].inv] = job[r].grade]
  /\ Goto(r, "mark")
  /\ UNCHANGED <<inviteVars, poolVars>>

\* Mutant: a submitted invite may be submitted before its result is stored.
SubmitMarksFirst(r) ==
  /\ job[r].step \in {"store", "mark"}
  /\ SetStatus(job[r].inv, "submitted")
  /\ Goto(r, "finish")
  /\ UNCHANGED <<consented, refunded, claim, session, result, poolVars>>

\* setInviteStatus("submitted"), without a condition.
SubmitMarks(r) ==
  /\ job[r].step = "mark"
  /\ SetStatus(job[r].inv, "submitted")
  /\ Goto(r, "finish")
  /\ UNCHANGED <<consented, refunded, claim, session, result, poolVars>>

\* A write throws; the finally clause still runs.
SubmitThrows(r) ==
  /\ job[r].step \in {"store", "mark"}
  /\ Goto(r, "finish")
  /\ UNCHANGED <<inviteVars, result, poolVars>>

\* The teardown event; that it cannot be sent is only logged.
SubmitFinishes(r) ==
  /\ job[r].step = "finish"
  /\ teardown' \in {teardown, teardown \cup {job[r].sid}}
  /\ Answer(r)
  /\ UNCHANGED <<inviteVars, result, sess, whose, place, tenant, deploy, failing>>

\* The invocation dies between two steps, or a step throws where nothing catches it.
RequestDies(r) ==
  /\ job[r] # Idle
  /\ Answer(r)
  /\ UNCHANGED <<inviteVars, result, poolVars>>

-----------------------------------------------------------------------------
(* Workers and time                                                          *)

\* deployLab(): leasing -> active, unless the session is over by now.
DeploySucceeds(n) ==
  /\ n \in deploy
  /\ deploy' = deploy \ {n}
  /\ sess' = [sess EXCEPT ![n] = IF @ = "leasing" THEN "active" ELSE @]
  /\ UNCHANGED <<inviteVars, result, whose, place, tenant, failing, teardown, job>>

\* runDeployEnt() after a failed deploy: markSession("error"), whatever the status
\* is, and whose failure is swallowed ...
DeployFails(n) ==
  /\ n \in deploy
  /\ deploy' = deploy \ {n}
  /\ failing' = failing \cup {n}
  /\ sess' \in {sess, [sess EXCEPT ![n] = "error"]}
  /\ UNCHANGED <<inviteVars, result, whose, place, tenant, teardown, job>>

\* ... then releaseAccount(), without a condition; it fails, or the worker dies.
DeployReleases(n) ==
  /\ n \in failing
  /\ failing' = failing \ {n}
  /\ tenant' \in {tenant, [tenant EXCEPT ![place[n]] = None]}
  /\ UNCHANGED <<inviteVars, result, sess, whose, place, deploy, teardown, job>>

\* The event is lost, or its worker dies.
DeployDies(n) ==
  /\ n \in deploy
  /\ deploy' = deploy \ {n}
  /\ UNCHANGED <<inviteVars, result, sess, whose, place, tenant, failing, teardown, job>>

\* teardown() of a session that is not over: wipe, return, settle.
TearsDown(n) ==
  /\ n \in teardown /\ Live(n)
  /\ teardown' = teardown \ {n}
  /\ sess' = [sess EXCEPT ![n] = "over"]
  /\ tenant' = [tenant EXCEPT ![place[n]] = None]
  /\ UNCHANGED <<inviteVars, result, whose, place, deploy, failing, job>>

\* The event comes too late, or it is lost.
TeardownGone(n) ==
  /\ n \in teardown
  /\ teardown' = teardown \ {n}
  /\ UNCHANGED <<inviteVars, result, sess, whose, place, tenant, deploy, failing, job>>

\* Mutant: the reaper looks only at sessions that became active.
ReapActive(n) ==
  /\ sess[n] = "active" /\ n \notin deploy \cup failing
  /\ ~InHand(n)
  /\ teardown' = teardown \cup {n}
  /\ UNCHANGED <<inviteVars, result, sess, whose, place, tenant, deploy, failing, job>>

\* Mutant: the reaper marks the session, as POST /teardown does.
ReapMarks(n) ==
  /\ Live(n) /\ n \notin deploy \cup failing
  /\ ~InHand(n)
  /\ sess' = [sess EXCEPT ![n] = "ending"]
  /\ teardown' = teardown \cup {n}
  /\ UNCHANGED <<inviteVars, result, whose, place, tenant, deploy, failing, job>>

\* The window of 75 minutes is over (long after the lease and the deploy), and the
\* scheduled reap sends the teardown event.
Reap(n) ==
  /\ Live(n) /\ n \notin deploy \cup failing
  /\ ~InHand(n)
  /\ teardown' = teardown \cup {n}
  /\ UNCHANGED <<inviteVars, result, sess, whose, place, tenant, deploy, failing, job>>

\* healPool() looks at every leased account, the reserved ones too, and releases one
\* whose session has settled.
HealReleases(n) ==
  /\ sess[n] \in {"error", "over"}
  /\ \E a \in Accounts : tenant[a] = n /\ tenant' = [tenant EXCEPT ![a] = None]
  /\ UNCHANGED <<inviteVars, result, sess, whose, place, deploy, failing, teardown, job>>

\* The claim is older than START_CLAIM_TTL_MS, by when the start that made it has
\* bound its session, answered or died.
ClaimGrowsStale(i) ==
  /\ claim[i] = "fresh"
  /\ \A r \in Requests : job[r].inv = i => ~Claims(r)
  /\ claim' = [claim EXCEPT ![i] = "stale"]
  /\ UNCHANGED <<status, consented, refunded, session, result, poolVars, job>>

-----------------------------------------------------------------------------
InviteStep(i) ==
  \/ Create(i) \/ Consent(i) \/ Verify(i) \/ Revoke(i) \/ Refund(i)
  \/ ClaimGrowsStale(i)

Arrives(r) == \E i \in Invites : BookReads(r, i) \/ StartReads(r, i) \/ SubmitReads(r, i)

Proceeds(r) ==
  \/ BookRecords(r)
  \/ StartClaims(r) \/ StartTakes(r) \/ StartRecords(r) \/ StartFindsNone(r)
  \/ StartUnclaims(r) \/ StartBinds(r) \/ StartDispatches(r)
  \/ SubmitGrades(r) \/ SubmitStores(r) \/ SubmitMarks(r) \/ SubmitThrows(r)
  \/ SubmitFinishes(r)
  \/ RequestDies(r)

WorkerStep(n) ==
  \/ DeploySucceeds(n) \/ DeployFails(n) \/ DeployReleases(n) \/ DeployDies(n)
  \/ TearsDown(n) \/ TeardownGone(n) \/ Reap(n) \/ HealReleases(n)

Next == \/ \E i \in Invites : InviteStep(i)
        \/ \E r \in Requests : Arrives(r) \/ Proceeds(r)
        \/ \E n \in Sessions : WorkerStep(n)

Spec == Init /\ [][Next]_vars

-----------------------------------------------------------------------------
(* Safety                                                                    *)

\* Nobody gets past the consent screen without a recorded consent, in whatever
\* order the screens' requests arrive ("enforces server-side consent", verifyOtp).
ConsentFirst ==
  \A i \in Invites :
    status[i] \in {"verified", "booked", "started", "submitted"} => i \in consented

\* The sessions leased for invite i that anybody still knows of: on the invite, or
\* in the hands of a start on its way there.
Wanted(i) == {n \in Sessions : whose[n] = i /\ (session[i] = n \/ InHand(n))}

\* Concurrent starts of one invite do not each lease an account ("a tiny-pool DoS",
\* claimStartLease); a lease that nobody knows of needs a start that died.
OneLease == \A i \in Invites : \A m, n \in Wanted(i) : m = n

\* An invite is one attempt: the session it was started with is never replaced.
OneAttempt == [][\A i \in Invites : session[i] # None => session'[i] = session[i]]_vars

\* A revoked, refunded or submitted invite is dead, but for a request that read it
\* before: no route brings it back ("bypass a revoke", consentInvite).
DeadStaysDead ==
  [][\A i \in Invites : status[i] \in Terminal /\ ~Busy(i) => status'[i] \in Terminal]_vars

\* Once a result is stored and no submit that has not seen it is under way, it stays:
\* a retry after a lost answer, or after a death before the invite was marked
\* submitted, does not grade again.
GradeSettles ==
  [][\A i \in Invites :
       result[i] # "none" /\ ~Grading(i) => result'[i] = result[i] /\ ~Grading(i)']_vars

\* What the employer sees as submitted has a result, whatever the submit died of.
SubmittedHasResult ==
  \A i \in Invites : status[i] = "submitted" => result[i] # "none"

-----------------------------------------------------------------------------
(* What the code says, and its submit breaks                                 *)

\* "re-grading yields a zero; overwriting a real result with that zero would
\* silently destroy the candidate's grade" (POST /ent/submit).
GradeKept == [][\A i \in Invites : result[i] = "own" => result'[i] = "own"]_vars

-----------------------------------------------------------------------------
(* Liveness                                                                  *)

\* Invocations end, the reaper keeps firing, and an event that is sent again and
\* again is worked off some day.  Nothing is assumed of employers and candidates.
Fairness ==
  /\ \A r \in Requests : WF_vars(Proceeds(r))
  /\ \A n \in Sessions : /\ WF_vars(DeploySucceeds(n) \/ DeployFails(n) \/ DeployDies(n))
                         /\ WF_vars(DeployReleases(n))
                         /\ WF_vars(Reap(n)) /\ WF_vars(HealReleases(n))
                         /\ SF_vars(TearsDown(n))

FairSpec == Spec /\ Fairness

\* The claim of account a names a session whose row was never written, and nobody
\* is about to write it: healPool() leaves "leased-with-missing-session" alone.
Rowless(a) == /\ tenant[a] # None
              /\ sess[tenant[a]] = "minted" /\ ~InHand(tenant[a])

\* A reserved account comes back, also when the start that leased it died before it
\* was recorded on the invite, when a failed deploy marked or released nothing, and
\* when nobody ever submits; all but the account of a start that died, or whose put
\* failed, between leaseEnt()'s claim of the account and its session row.
AccountsComeBack ==
  \A a \in Accounts : tenant[a] # None ~> tenant[a] = None \/ Rowless(a)

-----------------------------------------------------------------------------
(* The inductive invariant.                                                   *)

\* A request has in its hands what its step says.
JobInv ==
  \A r \in Requests :
    /\ job[r].step \in {"record", "bind", "dispatch",
                        "grade", "store", "mark", "finish"} =>
         job[r].sid \in Sessions /\ place[job[r].sid] \in Accounts
    /\ job[r].step = "store" => job[r].grade # "none"
    /\ job[r].step = "mark" => result[job[r].inv] # "none"

\* Only an invite with a consent is booked, started or submitted: requests under
\* way are for such invites, and no status beyond "created" comes without one.
ConsentInv ==
  /\ \A i \in Invites :
       status[i] \in {"consented", "verified", "booked", "started", "submitted"} =>
         i \in consented
  /\ \A r \in Requests : job[r] # Idle => job[r].inv \in consented

\* A start between its claim and the end of it is alone, its invite has no session yet, and its claim is not stale.
ClaimInv ==
  /\ \A r \in Requests :
       Claims(r) => /\ claim[job[r].inv] = "fresh"
                    /\ session[job[r].inv] = None
  /\ \A q, r \in Requests : Claims(q) /\ Claims(r) /\ job[q].inv = job[r].inv => q = r

\* A leased session is of the invite its start is for, and is on it afterwards.
LeaseInv ==
  /\ \A r \in Requests : job[r].step \in {"record", "bind"} =>
                          whose[job[r].sid] = job[r].inv
  /\ \A r \in Requests : job[r].step = "dispatch" => session[job[r].inv] = job[r].sid
  /\ \A i \in Invites : session[i] # None => whose[session[i]] = i /\ sess[session[i]] # "none"
  /\ \A n \in Sessions : sess[n] # "none" => place[n] \in Accounts /\ whose[n] # None
  /\ \A r \in Requests : job[r].sid # None => sess[job[r].sid] # "none"
  /\ \A n \in deploy \cup failing \cup teardown : sess[n] # "none"

\* The sweeps find whoever holds a reserved account: a leased one names a session
\* that is where it says it is, and that the reaper looks at (live) or the healer does
\* (error), unless its row was never written.
TenantsFound ==
  \A a \in Accounts :
    tenant[a] # None => /\ place[tenant[a]] = a
                        /\ Live(tenant[a]) \/ sess[tenant[a]] \in {"minted", "error"}

IInv == TypeOK /\ JobInv /\ ConsentInv /\ ClaimInv /\ LeaseInv /\ SubmittedHasResult

=============================================================================
