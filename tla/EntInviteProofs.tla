--------------------------- MODULE EntInviteProofs ---------------------------
(* Theorems about EntInvite, for every set of invites, sessions, accounts and  *)
(* requests: IInv is an inductive invariant, and what it implies.              *)
EXTENDS EntInvite, TLAPS

\* What the record of a request says.
LEMMA JobFields ==
  ASSUME NEW st, NEW i, NEW n, NEW g
  PROVE  /\ Job(st, i, n, g).step = st /\ Job(st, i, n, g).inv = i
         /\ Job(st, i, n, g).sid = n /\ Job(st, i, n, g).grade = g
BY DEF Job

LEMMA JobType ==
  ASSUME NEW st \in Steps \ {"idle"}, NEW i \in Invites, NEW n \in Sessions \cup {None},
         NEW g \in Grades \cup {"none"}
  PROVE  Job(st, i, n, g) \in Jobs
BY DEF Job, Jobs

LEMMA IdleFields == Idle.step = "idle" /\ Idle.inv = None /\ Idle.sid = None
BY DEF Idle, Job

LEMMA JobShape ==
  ASSUME TypeOK, NEW r \in Requests
  PROVE  /\ job[r].sid \in Sessions \cup {None}
         /\ job[r].grade \in Grades \cup {"none"}
         /\ job[r].step \in Steps
         /\ job[r].step # "idle" <=> job[r] # Idle
         /\ job[r] # Idle => job[r].inv \in Invites
         /\ job[r] = Idle => job[r].inv = None /\ job[r].sid = None
BY DEF TypeOK, Jobs, Steps, Idle, Job

\* A request that goes on leaves the others alone.
LEMMA BecomeShape ==
  ASSUME TypeOK, NEW r \in Requests, NEW j \in Jobs, Become(r, j)
  PROVE  /\ job' \in [Requests -> Jobs]
         /\ job'[r] = j
         /\ \A q \in Requests : q # r => job'[q] = job[q]
BY DEF TypeOK, Become

LEMMA IdleType == Idle \in Jobs
BY DEF Jobs

LEMMA TypeInit == Init => TypeOK
BY DEF Init, TypeOK, Jobs, InviteStatus, SessionStatus

-----------------------------------------------------------------------------
(* The invariant is inductive: one lemma per action                          *)

LEMMA IInvInit == Init => IInv
BY TypeInit, IdleFields DEF Init, IInv, JobInv, ConsentInv, ClaimInv, LeaseInv, Claims,
   SubmittedHasResult

LEMMA CreateKeeps ==
  ASSUME IInv, NEW i \in Invites, Create(i)
  PROVE  IInv'
<1>1. TypeOK'
  BY DEF IInv, TypeOK, InviteStatus, Create, SetStatus, poolVars
<1>2. JobInv' /\ ConsentInv' /\ ClaimInv' /\ LeaseInv' /\ SubmittedHasResult'
  BY JobShape DEF IInv, TypeOK, Create, SetStatus, JobInv, ConsentInv, ClaimInv, LeaseInv, Claims, SubmittedHasResult,
     inviteVars, poolVars
<1> QED
  BY <1>1, <1>2 DEF IInv

LEMMA ConsentKeeps ==
  ASSUME IInv, NEW i \in Invites, Consent(i)
  PROVE  IInv'
<1>1. TypeOK'
  BY DEF IInv, TypeOK, InviteStatus, Consent, SetStatus, poolVars
<1>2. JobInv' /\ ConsentInv' /\ ClaimInv' /\ LeaseInv' /\ SubmittedHasResult'
  BY JobShape DEF IInv, TypeOK, Consent, SetStatus, JobInv, ConsentInv, ClaimInv, LeaseInv, Claims, SubmittedHasResult,
     inviteVars, poolVars
<1> QED
  BY <1>1, <1>2 DEF IInv

LEMMA VerifyKeeps ==
  ASSUME IInv, NEW i \in Invites, Verify(i)
  PROVE  IInv'
<1>1. TypeOK'
  BY DEF IInv, TypeOK, InviteStatus, Verify, SetStatus, poolVars
<1>2. JobInv' /\ ConsentInv' /\ ClaimInv' /\ LeaseInv' /\ SubmittedHasResult'
  BY JobShape DEF IInv, TypeOK, Verify, SetStatus, JobInv, ConsentInv, ClaimInv, LeaseInv, Claims, SubmittedHasResult,
     inviteVars, poolVars
<1> QED
  BY <1>1, <1>2 DEF IInv

LEMMA RevokeKeeps ==
  ASSUME IInv, NEW i \in Invites, Revoke(i)
  PROVE  IInv'
<1>1. TypeOK'
  BY DEF IInv, TypeOK, InviteStatus, Revoke, SetStatus, poolVars
<1>2. JobInv' /\ ConsentInv' /\ ClaimInv' /\ LeaseInv' /\ SubmittedHasResult'
  BY JobShape DEF IInv, TypeOK, Revoke, SetStatus, JobInv, ConsentInv, ClaimInv, LeaseInv, Claims, SubmittedHasResult,
     inviteVars, poolVars
<1> QED
  BY <1>1, <1>2 DEF IInv

LEMMA RefundKeeps ==
  ASSUME IInv, NEW i \in Invites, Refund(i)
  PROVE  IInv'
<1>1. TypeOK'
  BY DEF IInv, TypeOK, InviteStatus, Refund, SetStatus, poolVars
<1>2. JobInv' /\ ConsentInv' /\ ClaimInv' /\ LeaseInv' /\ SubmittedHasResult'
  BY JobShape DEF IInv, TypeOK, Refund, SetStatus, JobInv, ConsentInv, ClaimInv, LeaseInv, Claims, SubmittedHasResult,
     inviteVars, poolVars
<1> QED
  BY <1>1, <1>2 DEF IInv

LEMMA ClaimGrowsStaleKeeps ==
  ASSUME IInv, NEW i \in Invites, ClaimGrowsStale(i)
  PROVE  IInv'
<1>1. TypeOK'
  BY DEF IInv, TypeOK, InviteStatus, ClaimGrowsStale, SetStatus, poolVars
<1>2. JobInv' /\ ConsentInv' /\ ClaimInv' /\ LeaseInv' /\ SubmittedHasResult'
  BY JobShape DEF IInv, TypeOK, ClaimGrowsStale, SetStatus, JobInv, ConsentInv, ClaimInv, LeaseInv, Claims, SubmittedHasResult,
     inviteVars, poolVars
<1> QED
  BY <1>1, <1>2 DEF IInv

LEMMA BookRecordsKeeps ==
  ASSUME IInv, NEW r \in Requests, BookRecords(r)
  PROVE  IInv'
<1> DEFINE j == Idle
<1>1. /\ j \in Jobs /\ job' \in [Requests -> Jobs] /\ job'[r] = j
      /\ \A q \in Requests : q # r => job'[q] = job[q]
  BY JobShape, JobType, IdleType, BecomeShape DEF BookRecords, Goto, Answer, Become, IInv, Steps
<1>2. TypeOK'
  BY <1>1, JobShape DEF IInv, TypeOK, InviteStatus, BookRecords, SetStatus, inviteVars, poolVars
<1>3. JobInv' /\ ConsentInv' /\ ClaimInv' /\ LeaseInv' /\ SubmittedHasResult'
  BY <1>1, JobShape, JobFields, IdleFields, NoneAssumption DEF IInv, TypeOK, BookRecords, SetStatus,
     JobInv, ConsentInv, ClaimInv, LeaseInv, Claims, SubmittedHasResult,
     inviteVars, poolVars
<1> QED
  BY <1>2, <1>3 DEF IInv

LEMMA StartFindsNoneKeeps ==
  ASSUME IInv, NEW r \in Requests, StartFindsNone(r)
  PROVE  IInv'
<1> DEFINE j == Job("unclaim", job[r].inv, job[r].sid, job[r].grade)
<1>1. /\ j \in Jobs /\ job' \in [Requests -> Jobs] /\ job'[r] = j
      /\ \A q \in Requests : q # r => job'[q] = job[q]
  BY JobShape, JobType, IdleType, BecomeShape DEF StartFindsNone, Goto, Answer, Become, IInv, Steps
<1>2. TypeOK'
  BY <1>1, JobShape DEF IInv, TypeOK, InviteStatus, StartFindsNone, SetStatus, inviteVars, poolVars
<1>3. JobInv' /\ ConsentInv' /\ ClaimInv' /\ LeaseInv' /\ SubmittedHasResult'
  BY <1>1, JobShape, JobFields, IdleFields, NoneAssumption DEF IInv, TypeOK, StartFindsNone, SetStatus,
     JobInv, ConsentInv, ClaimInv, LeaseInv, Claims, SubmittedHasResult,
     inviteVars, poolVars
<1> QED
  BY <1>2, <1>3 DEF IInv

LEMMA StartUnclaimsKeeps ==
  ASSUME IInv, NEW r \in Requests, StartUnclaims(r)
  PROVE  IInv'
<1> DEFINE j == Idle
<1>1. /\ j \in Jobs /\ job' \in [Requests -> Jobs] /\ job'[r] = j
      /\ \A q \in Requests : q # r => job'[q] = job[q]
  BY JobShape, JobType, IdleType, BecomeShape DEF StartUnclaims, Goto, Answer, Become, IInv, Steps
<1>2. TypeOK'
  BY <1>1, JobShape DEF IInv, TypeOK, InviteStatus, StartUnclaims, SetStatus, inviteVars, poolVars
<1>3. JobInv' /\ ConsentInv' /\ SubmittedHasResult'
  BY <1>1, JobShape, JobFields, IdleFields, NoneAssumption DEF IInv, TypeOK, StartUnclaims,
     JobInv, ConsentInv, SubmittedHasResult, poolVars
<1>4. ClaimInv'
  <2>1. \A q \in Requests : Claims(q)' => Claims(q) /\ q # r /\ job'[q] = job[q]
    BY <1>1, IdleFields DEF Claims
  <2>2. \A i \in Invites : i # job[r].inv => claim'[i] = claim[i]
    BY DEF StartUnclaims, IInv, TypeOK
  <2>3. Claims(r)
    BY DEF StartUnclaims, Claims
  <2> QED
    BY <1>1, <2>1, <2>2, <2>3, JobShape, IdleFields DEF StartUnclaims, IInv, ClaimInv, Claims
<1>5. LeaseInv'
  BY <1>1, JobShape, IdleFields, NoneAssumption DEF IInv, TypeOK, StartUnclaims, LeaseInv,
     poolVars
<1> QED
  BY <1>2, <1>3, <1>4, <1>5 DEF IInv

LEMMA StartDispatchesKeeps ==
  ASSUME IInv, NEW r \in Requests, StartDispatches(r)
  PROVE  IInv'
<1> DEFINE j == Idle
<1>1. /\ j \in Jobs /\ job' \in [Requests -> Jobs] /\ job'[r] = j
      /\ \A q \in Requests : q # r => job'[q] = job[q]
  BY JobShape, JobType, IdleType, BecomeShape DEF StartDispatches, Goto, Answer, Become, IInv, Steps
<1>2. TypeOK'
  BY <1>1, JobShape DEF IInv, TypeOK, InviteStatus, StartDispatches, SetStatus, inviteVars, poolVars, JobInv
<1>3. JobInv' /\ ConsentInv' /\ ClaimInv' /\ LeaseInv' /\ SubmittedHasResult'
  BY <1>1, JobShape, JobFields, IdleFields, NoneAssumption DEF IInv, TypeOK, StartDispatches, SetStatus,
     JobInv, ConsentInv, ClaimInv, LeaseInv, Claims, SubmittedHasResult,
     inviteVars, poolVars
<1> QED
  BY <1>2, <1>3 DEF IInv

LEMMA SubmitStoresKeeps ==
  ASSUME IInv, NEW r \in Requests, SubmitStores(r)
  PROVE  IInv'
<1> DEFINE j == Job("mark", job[r].inv, job[r].sid, job[r].grade)
<1>1. /\ j \in Jobs /\ job' \in [Requests -> Jobs] /\ job'[r] = j
      /\ \A q \in Requests : q # r => job'[q] = job[q]
  BY JobShape, JobType, IdleType, BecomeShape DEF SubmitStores, Goto, Answer, Become, IInv, Steps
<1>2. TypeOK'
  BY <1>1, JobShape DEF IInv, TypeOK, InviteStatus, SubmitStores, SetStatus, inviteVars, poolVars
<1>3. JobInv' /\ ConsentInv' /\ ClaimInv' /\ LeaseInv' /\ SubmittedHasResult'
  BY <1>1, JobShape, JobFields, IdleFields, NoneAssumption DEF IInv, TypeOK, SubmitStores, SetStatus,
     JobInv, ConsentInv, ClaimInv, LeaseInv, Claims, SubmittedHasResult,
     inviteVars, poolVars
<1> QED
  BY <1>2, <1>3 DEF IInv

LEMMA SubmitMarksKeeps ==
  ASSUME IInv, NEW r \in Requests, SubmitMarks(r)
  PROVE  IInv'
<1> DEFINE j == Job("finish", job[r].inv, job[r].sid, job[r].grade)
<1>1. /\ j \in Jobs /\ job' \in [Requests -> Jobs] /\ job'[r] = j
      /\ \A q \in Requests : q # r => job'[q] = job[q]
  BY JobShape, JobType, IdleType, BecomeShape DEF SubmitMarks, Goto, Answer, Become, IInv, Steps
<1>2. TypeOK'
  BY <1>1, JobShape DEF IInv, TypeOK, InviteStatus, SubmitMarks, SetStatus, inviteVars, poolVars
<1>3. JobInv' /\ ConsentInv' /\ ClaimInv' /\ LeaseInv' /\ SubmittedHasResult'
  BY <1>1, JobShape, JobFields, IdleFields, NoneAssumption DEF IInv, TypeOK, SubmitMarks, SetStatus,
     JobInv, ConsentInv, ClaimInv, LeaseInv, Claims, SubmittedHasResult,
     inviteVars, poolVars
<1> QED
  BY <1>2, <1>3 DEF IInv

LEMMA SubmitFinishesKeeps ==
  ASSUME IInv, NEW r \in Requests, SubmitFinishes(r)
  PROVE  IInv'
<1> DEFINE j == Idle
<1>1. /\ j \in Jobs /\ job' \in [Requests -> Jobs] /\ job'[r] = j
      /\ \A q \in Requests : q # r => job'[q] = job[q]
  BY JobShape, JobType, IdleType, BecomeShape DEF SubmitFinishes, Goto, Answer, Become, IInv, Steps
<1>2. TypeOK'
  BY <1>1, JobShape DEF IInv, TypeOK, InviteStatus, SubmitFinishes, SetStatus, inviteVars, poolVars, JobInv
<1>3. JobInv' /\ ConsentInv' /\ ClaimInv' /\ LeaseInv' /\ SubmittedHasResult'
  BY <1>1, JobShape, JobFields, IdleFields, NoneAssumption DEF IInv, TypeOK, SubmitFinishes, SetStatus,
     JobInv, ConsentInv, ClaimInv, LeaseInv, Claims, SubmittedHasResult,
     inviteVars, poolVars
<1> QED
  BY <1>2, <1>3 DEF IInv

LEMMA RequestDiesKeeps ==
  ASSUME IInv, NEW r \in Requests, RequestDies(r)
  PROVE  IInv'
<1> DEFINE j == Idle
<1>1. /\ j \in Jobs /\ job' \in [Requests -> Jobs] /\ job'[r] = j
      /\ \A q \in Requests : q # r => job'[q] = job[q]
  BY JobShape, JobType, IdleType, BecomeShape DEF RequestDies, Goto, Answer, Become, IInv, Steps
<1>2. TypeOK'
  BY <1>1, JobShape DEF IInv, TypeOK, InviteStatus, RequestDies, SetStatus, inviteVars, poolVars
<1>3. JobInv' /\ ConsentInv' /\ ClaimInv' /\ LeaseInv' /\ SubmittedHasResult'
  BY <1>1, JobShape, JobFields, IdleFields, NoneAssumption DEF IInv, TypeOK, RequestDies, SetStatus,
     JobInv, ConsentInv, ClaimInv, LeaseInv, Claims, SubmittedHasResult,
     inviteVars, poolVars
<1> QED
  BY <1>2, <1>3 DEF IInv

LEMMA SubmitThrowsKeeps ==
  ASSUME IInv, NEW r \in Requests, SubmitThrows(r)
  PROVE  IInv'
<1> DEFINE j == Job("finish", job[r].inv, job[r].sid, job[r].grade)
<1>1. /\ j \in Jobs /\ job' \in [Requests -> Jobs] /\ job'[r] = j
      /\ \A q \in Requests : q # r => job'[q] = job[q]
  BY JobShape, JobType, IdleType, BecomeShape DEF SubmitThrows, Goto, Answer, Become, IInv, Steps
<1>2. TypeOK'
  BY <1>1, JobShape DEF IInv, TypeOK, InviteStatus, SubmitThrows, SetStatus, inviteVars, poolVars
<1>3. JobInv'
  BY <1>1, JobShape, JobFields, IdleFields, NoneAssumption DEF IInv, TypeOK, SubmitThrows, SetStatus,
     JobInv, inviteVars, poolVars
<1>4. ConsentInv'
  BY <1>1, JobShape, JobFields, IdleFields, NoneAssumption DEF IInv, TypeOK, SubmitThrows, SetStatus,
     ConsentInv, inviteVars, poolVars
<1>5. ClaimInv'
  BY <1>1, JobShape, JobFields, IdleFields, NoneAssumption DEF IInv, TypeOK, SubmitThrows, SetStatus,
     ClaimInv, Claims, inviteVars, poolVars
<1>6. LeaseInv'
  BY <1>1, JobShape, JobFields, IdleFields, NoneAssumption DEF IInv, TypeOK, SubmitThrows, SetStatus,
     LeaseInv, JobInv, ClaimInv, Claims, inviteVars, poolVars
<1>7. SubmittedHasResult'
  BY <1>1, JobShape, JobFields, IdleFields, NoneAssumption DEF IInv, TypeOK, SubmitThrows, SetStatus,
     SubmittedHasResult, JobInv, inviteVars, poolVars
<1> QED
  BY <1>2, <1>3, <1>4, <1>5, <1>6, <1>7 DEF IInv

LEMMA StartClaimsKeeps ==
  ASSUME IInv, NEW r \in Requests, StartClaims(r)
  PROVE  IInv'
<1> DEFINE j == IF session[job[r].inv] = None /\ status[job[r].inv] = "booked"
                     /\ claim[job[r].inv] # "fresh"
                  THEN Job("lease", job[r].inv, job[r].sid, job[r].grade) ELSE Idle
<1>1. /\ j \in Jobs /\ job' \in [Requests -> Jobs] /\ job'[r] = j
      /\ \A q \in Requests : q # r => job'[q] = job[q]
  BY JobShape, JobType, IdleType, BecomeShape DEF StartClaims, Goto, Answer, Become, IInv, Steps
<1>2. TypeOK'
  BY <1>1, JobShape DEF IInv, TypeOK, InviteStatus, StartClaims, SetStatus, inviteVars, poolVars
<1>3. JobInv'
  BY <1>1, JobShape, JobFields, IdleFields, NoneAssumption DEF IInv, TypeOK, StartClaims, SetStatus,
     JobInv, inviteVars, poolVars
<1>4. ConsentInv'
  BY <1>1, JobShape, JobFields, IdleFields, NoneAssumption DEF IInv, TypeOK, StartClaims, SetStatus,
     ConsentInv, inviteVars, poolVars
<1>5. ClaimInv'
  BY <1>1, JobShape, JobFields, IdleFields, NoneAssumption DEF IInv, TypeOK, StartClaims, SetStatus,
     ClaimInv, Claims, inviteVars, poolVars
<1>6. LeaseInv'
  BY <1>1, JobShape, JobFields, IdleFields, NoneAssumption DEF IInv, TypeOK, StartClaims, SetStatus,
     LeaseInv, JobInv, ClaimInv, Claims, inviteVars, poolVars
<1>7. SubmittedHasResult'
  BY <1>1, JobShape, JobFields, IdleFields, NoneAssumption DEF IInv, TypeOK, StartClaims, SetStatus,
     SubmittedHasResult, JobInv, inviteVars, poolVars
<1> QED
  BY <1>2, <1>3, <1>4, <1>5, <1>6, <1>7 DEF IInv

LEMMA StartBindsKeeps ==
  ASSUME IInv, NEW r \in Requests, StartBinds(r)
  PROVE  IInv'
<1> DEFINE j == IF sess[job[r].sid] = "leasing"
                  THEN Job("dispatch", job[r].inv, job[r].sid, job[r].grade) ELSE Idle
<1>1. /\ j \in Jobs /\ job' \in [Requests -> Jobs] /\ job'[r] = j
      /\ \A q \in Requests : q # r => job'[q] = job[q]
  BY JobShape, JobType, IdleType, BecomeShape DEF StartBinds, Goto, Answer, Become, IInv, Steps
<1>2. TypeOK'
  BY <1>1, JobShape DEF IInv, TypeOK, InviteStatus, StartBinds, SetStatus, inviteVars, poolVars, JobInv
<1>3. JobInv'
  BY <1>1, JobShape, JobFields, IdleFields, NoneAssumption DEF IInv, TypeOK, StartBinds, SetStatus,
     JobInv, inviteVars, poolVars
<1>4. ConsentInv'
  BY <1>1, JobShape, JobFields, IdleFields, NoneAssumption DEF IInv, TypeOK, StartBinds, SetStatus,
     ConsentInv, inviteVars, poolVars
<1>5. ClaimInv'
  BY <1>1, JobShape, JobFields, IdleFields, NoneAssumption DEF IInv, TypeOK, StartBinds, SetStatus,
     ClaimInv, Claims, inviteVars, poolVars
<1>6. LeaseInv'
  BY <1>1, JobShape, JobFields, IdleFields, NoneAssumption DEF IInv, TypeOK, StartBinds, SetStatus,
     LeaseInv, JobInv, ClaimInv, Claims, inviteVars, poolVars
<1>7. SubmittedHasResult'
  BY <1>1, JobShape, JobFields, IdleFields, NoneAssumption DEF IInv, TypeOK, StartBinds, SetStatus,
     SubmittedHasResult, JobInv, inviteVars, poolVars
<1> QED
  BY <1>2, <1>3, <1>4, <1>5, <1>6, <1>7 DEF IInv

LEMMA DeploySucceedsKeeps ==
  ASSUME IInv, NEW n \in Sessions, DeploySucceeds(n)
  PROVE  IInv'
<1>1. TypeOK'
  BY DEF IInv, TypeOK, SessionStatus, DeploySucceeds, inviteVars
<1>2. JobInv' /\ ConsentInv' /\ ClaimInv' /\ LeaseInv' /\ SubmittedHasResult'
  BY JobShape DEF IInv, TypeOK, DeploySucceeds, Live, JobInv, ConsentInv, ClaimInv, LeaseInv, Claims, SubmittedHasResult,
     inviteVars, poolVars
<1> QED
  BY <1>1, <1>2 DEF IInv

LEMMA DeployFailsKeeps ==
  ASSUME IInv, NEW n \in Sessions, DeployFails(n)
  PROVE  IInv'
<1>1. TypeOK'
  BY DEF IInv, TypeOK, SessionStatus, DeployFails, inviteVars
<1>2. JobInv' /\ ConsentInv' /\ ClaimInv' /\ LeaseInv' /\ SubmittedHasResult'
  BY JobShape DEF IInv, TypeOK, DeployFails, Live, JobInv, ConsentInv, ClaimInv, LeaseInv, Claims, SubmittedHasResult,
     inviteVars, poolVars
<1> QED
  BY <1>1, <1>2 DEF IInv

LEMMA DeployReleasesKeeps ==
  ASSUME IInv, NEW n \in Sessions, DeployReleases(n)
  PROVE  IInv'
<1>1. TypeOK'
  BY DEF IInv, TypeOK, DeployReleases, inviteVars
<1>2. JobInv' /\ ConsentInv' /\ ClaimInv' /\ LeaseInv' /\ SubmittedHasResult'
  BY JobShape DEF IInv, TypeOK, DeployReleases, JobInv, ConsentInv, ClaimInv, LeaseInv, Claims,
     SubmittedHasResult, inviteVars
<1> QED
  BY <1>1, <1>2 DEF IInv

LEMMA HealReleasesKeeps ==
  ASSUME IInv, NEW n \in Sessions, HealReleases(n)
  PROVE  IInv'
<1>1. TypeOK'
  BY DEF IInv, TypeOK, HealReleases, inviteVars
<1>2. JobInv' /\ ConsentInv' /\ ClaimInv' /\ LeaseInv' /\ SubmittedHasResult'
  BY JobShape DEF IInv, TypeOK, HealReleases, JobInv, ConsentInv, ClaimInv, LeaseInv, Claims,
     SubmittedHasResult, inviteVars
<1> QED
  BY <1>1, <1>2 DEF IInv

LEMMA DeployDiesKeeps ==
  ASSUME IInv, NEW n \in Sessions, DeployDies(n)
  PROVE  IInv'
<1>1. TypeOK'
  BY DEF IInv, TypeOK, DeployDies, inviteVars
<1>2. JobInv' /\ ConsentInv' /\ ClaimInv' /\ LeaseInv' /\ SubmittedHasResult'
  BY JobShape DEF IInv, TypeOK, DeployDies, Live, JobInv, ConsentInv, ClaimInv, LeaseInv, Claims, SubmittedHasResult,
     inviteVars, poolVars
<1> QED
  BY <1>1, <1>2 DEF IInv

LEMMA TearsDownKeeps ==
  ASSUME IInv, NEW n \in Sessions, TearsDown(n)
  PROVE  IInv'
<1>1. TypeOK'
  BY DEF IInv, TypeOK, SessionStatus, TearsDown, inviteVars
<1>2. JobInv' /\ ConsentInv' /\ ClaimInv' /\ LeaseInv' /\ SubmittedHasResult'
  BY JobShape DEF IInv, TypeOK, TearsDown, Live, JobInv, ConsentInv, ClaimInv, LeaseInv, Claims, SubmittedHasResult,
     inviteVars, poolVars
<1> QED
  BY <1>1, <1>2 DEF IInv

LEMMA TeardownGoneKeeps ==
  ASSUME IInv, NEW n \in Sessions, TeardownGone(n)
  PROVE  IInv'
<1>1. TypeOK'
  BY DEF IInv, TypeOK, TeardownGone, inviteVars
<1>2. JobInv' /\ ConsentInv' /\ ClaimInv' /\ LeaseInv' /\ SubmittedHasResult'
  BY JobShape DEF IInv, TypeOK, TeardownGone, Live, JobInv, ConsentInv, ClaimInv, LeaseInv, Claims, SubmittedHasResult,
     inviteVars, poolVars
<1> QED
  BY <1>1, <1>2 DEF IInv

LEMMA ReapKeeps ==
  ASSUME IInv, NEW n \in Sessions, Reap(n)
  PROVE  IInv'
<1>1. TypeOK'
  BY DEF IInv, TypeOK, Reap, inviteVars
<1>2. JobInv' /\ ConsentInv' /\ ClaimInv' /\ LeaseInv' /\ SubmittedHasResult'
  BY JobShape DEF IInv, TypeOK, Reap, Live, JobInv, ConsentInv, ClaimInv, LeaseInv, Claims, SubmittedHasResult,
     inviteVars, poolVars
<1> QED
  BY <1>1, <1>2 DEF IInv

LEMMA BookReadsKeeps ==
  ASSUME IInv, NEW r \in Requests, NEW i \in Invites, BookReads(r, i)
  PROVE  IInv'
<1> DEFINE j == Job("book", i, None, "none")
<1>1. /\ j \in Jobs /\ job' \in [Requests -> Jobs] /\ job'[r] = j
      /\ \A q \in Requests : q # r => job'[q] = job[q]
  BY JobType, BecomeShape DEF BookReads, Begin, IInv, Steps
<1>2. TypeOK'
  BY <1>1 DEF IInv, TypeOK, BookReads, inviteVars, poolVars
<1>3. JobInv' /\ ConsentInv' /\ ClaimInv' /\ LeaseInv' /\ SubmittedHasResult'
  BY <1>1, JobShape, JobFields, NoneAssumption DEF IInv, TypeOK, BookReads,
     JobInv, ConsentInv, ClaimInv, LeaseInv, Claims, SubmittedHasResult,
     inviteVars, poolVars
<1> QED
  BY <1>2, <1>3 DEF IInv

LEMMA StartReadsKeeps ==
  ASSUME IInv, NEW r \in Requests, NEW i \in Invites, StartReads(r, i)
  PROVE  IInv'
<1> DEFINE j == Job("claim", i, None, "none")
<1>1. /\ j \in Jobs /\ job' \in [Requests -> Jobs] /\ job'[r] = j
      /\ \A q \in Requests : q # r => job'[q] = job[q]
  BY JobType, BecomeShape DEF StartReads, Begin, IInv, Steps
<1>2. TypeOK'
  BY <1>1 DEF IInv, TypeOK, StartReads, inviteVars, poolVars
<1>3. JobInv' /\ ConsentInv' /\ ClaimInv' /\ LeaseInv' /\ SubmittedHasResult'
  BY <1>1, JobShape, JobFields, NoneAssumption DEF IInv, TypeOK, StartReads,
     JobInv, ConsentInv, ClaimInv, LeaseInv, Claims, SubmittedHasResult,
     inviteVars, poolVars
<1> QED
  BY <1>2, <1>3 DEF IInv

LEMMA SubmitReadsKeeps ==
  ASSUME IInv, NEW r \in Requests, NEW i \in Invites, SubmitReads(r, i)
  PROVE  IInv'
<1> DEFINE j == Job("grade", i, session[i], "none")
<1>1. /\ j \in Jobs /\ job' \in [Requests -> Jobs] /\ job'[r] = j
      /\ \A q \in Requests : q # r => job'[q] = job[q]
  BY JobType, BecomeShape DEF SubmitReads, IInv, TypeOK, Steps
<1>2. TypeOK'
  BY <1>1 DEF IInv, TypeOK, SubmitReads, inviteVars, poolVars
<1>3. JobInv' /\ ConsentInv' /\ ClaimInv' /\ LeaseInv' /\ SubmittedHasResult'
  BY <1>1, JobShape, JobFields, NoneAssumption DEF IInv, TypeOK, SubmitReads,
     JobInv, ConsentInv, ClaimInv, LeaseInv, Claims, SubmittedHasResult,
     inviteVars, poolVars
<1> QED
  BY <1>2, <1>3 DEF IInv

LEMMA SubmitGradesKeeps ==
  ASSUME IInv, NEW r \in Requests, SubmitGrades(r)
  PROVE  IInv'
<1>1. PICK g \in Grades : Become(r, Job("store", job[r].inv, job[r].sid, g))
  BY DEF SubmitGrades, Grades
<1> DEFINE j == Job("store", job[r].inv, job[r].sid, g)
<1>2. /\ j \in Jobs /\ job' \in [Requests -> Jobs] /\ job'[r] = j
      /\ \A q \in Requests : q # r => job'[q] = job[q]
  BY <1>1, JobShape, JobType, BecomeShape DEF SubmitGrades, IInv, Steps
<1>3. TypeOK'
  BY <1>2 DEF IInv, TypeOK, SubmitGrades, inviteVars, poolVars
<1>4. JobInv' /\ ConsentInv' /\ ClaimInv' /\ LeaseInv' /\ SubmittedHasResult'
  BY <1>2, JobShape, JobFields, IdleFields, NoneAssumption DEF IInv, TypeOK, SubmitGrades,
     Grades, JobInv, ConsentInv, ClaimInv, LeaseInv, Claims, SubmittedHasResult,
     inviteVars, poolVars
<1> QED
  BY <1>3, <1>4 DEF IInv

LEMMA StartTakesKeeps ==
  ASSUME IInv, NEW r \in Requests, StartTakes(r)
  PROVE  IInv'
<1>1. PICK a \in Accounts, n \in Sessions :
        /\ tenant[a] = None /\ sess[n] = "none"
        /\ sess' = [sess EXCEPT ![n] = "minted"]
        /\ whose' = [whose EXCEPT ![n] = job[r].inv]
        /\ place' = [place EXCEPT ![n] = a]
        /\ tenant' = [tenant EXCEPT ![a] = n]
        /\ Become(r, Job("record", job[r].inv, n, "none"))
  BY DEF StartTakes
<1> DEFINE j == Job("record", job[r].inv, n, "none")
<1>2. /\ j \in Jobs /\ job' \in [Requests -> Jobs] /\ job'[r] = j
      /\ \A q \in Requests : q # r => job'[q] = job[q]
  BY <1>1, JobShape, JobType, BecomeShape DEF StartTakes, IInv, Steps
<1>3. TypeOK'
  BY <1>1, <1>2, JobShape DEF IInv, TypeOK, SessionStatus, StartTakes, inviteVars, Steps
<1>4. JobInv'
  BY <1>1, <1>2, JobShape, JobFields, NoneAssumption DEF IInv, TypeOK, StartTakes, JobInv
<1>5. ConsentInv' /\ SubmittedHasResult'
  BY <1>1, <1>2, JobShape, JobFields, IdleFields DEF IInv, TypeOK, StartTakes, ConsentInv,
     SubmittedHasResult, inviteVars
<1>6. ClaimInv'
  BY <1>1, <1>2, JobShape, JobFields DEF IInv, TypeOK, StartTakes, ClaimInv, Claims,
     inviteVars
<1>7. LeaseInv'
  <2>1. \A q \in Requests : q # r => job[q].sid # n
    BY <1>1, NoneAssumption DEF IInv, LeaseInv
  <2>2. \A i \in Invites : session[i] # n
    BY <1>1, NoneAssumption DEF IInv, LeaseInv
  <2>3. \A k \in Sessions : k # n => /\ sess'[k] = sess[k] /\ whose'[k] = whose[k]
                                    /\ place'[k] = place[k]
    BY <1>1 DEF IInv, TypeOK
  <2>4. /\ sess'[n] # "none" /\ whose'[n] = job[r].inv /\ place'[n] = a
        /\ job[r].inv \in Invites
    BY <1>1, JobShape DEF IInv, TypeOK, StartTakes
  <2>5. UNCHANGED <<session, deploy, failing, teardown>>
    BY DEF StartTakes, inviteVars
  <2>6. \A q \in Requests : job'[q].step \in {"record", "bind"} =>
                                whose'[job'[q].sid] = job'[q].inv
    BY <1>2, <2>1, <2>3, <2>4, JobShape, JobFields DEF IInv, LeaseInv, JobInv
  <2>7. \A q \in Requests : job'[q].step = "dispatch" => session'[job'[q].inv] = job'[q].sid
    BY <1>2, <2>5, JobFields DEF IInv, LeaseInv
  <2>8. \A i \in Invites :
          session'[i] # None => whose'[session'[i]] = i /\ sess'[session'[i]] # "none"
    BY <2>2, <2>3, <2>5 DEF IInv, LeaseInv, TypeOK
  <2>9. \A k \in Sessions : sess'[k] # "none" => place'[k] \in Accounts /\ whose'[k] # None
    BY <2>3, <2>4, NoneAssumption DEF IInv, LeaseInv
  <2>10. \A q \in Requests : job'[q].sid # None => sess'[job'[q].sid] # "none"
    BY <1>2, <2>1, <2>3, <2>4, JobShape, JobFields DEF IInv, LeaseInv
  <2>11. \A k \in deploy' \cup failing' \cup teardown' : sess'[k] # "none"
    BY <2>3, <2>4, <2>5 DEF IInv, LeaseInv, TypeOK
  <2> QED
    BY <2>6, <2>7, <2>8, <2>9, <2>10, <2>11 DEF LeaseInv
<1> QED
  BY <1>3, <1>4, <1>5, <1>6, <1>7 DEF IInv

LEMMA StartRecordsKeeps ==
  ASSUME IInv, NEW r \in Requests, StartRecords(r)
  PROVE  IInv'
<1> DEFINE j == Job("bind", job[r].inv, job[r].sid, job[r].grade)
<1>1. /\ j \in Jobs /\ job' \in [Requests -> Jobs] /\ job'[r] = j
      /\ \A q \in Requests : q # r => job'[q] = job[q]
  BY JobShape, JobType, BecomeShape DEF StartRecords, Goto, IInv, Steps
<1>2. PICK st \in {"leasing", "active"} : sess' = [sess EXCEPT ![job[r].sid] = st]
  BY DEF StartRecords
<1>3. TypeOK'
  BY <1>1, <1>2 DEF IInv, TypeOK, SessionStatus, StartRecords, inviteVars
<1>4. JobInv' /\ ConsentInv' /\ ClaimInv' /\ SubmittedHasResult'
  BY <1>1, JobShape, JobFields, IdleFields, NoneAssumption DEF IInv, TypeOK, StartRecords,
     JobInv, ConsentInv, ClaimInv, Claims, SubmittedHasResult, inviteVars
<1>5. LeaseInv'
  <2>1. \A k \in Sessions : sess'[k] # "none" <=> sess[k] # "none"
    BY <1>2, NoneAssumption DEF StartRecords, IInv, TypeOK, JobInv, LeaseInv
  <2> QED
    BY <1>1, <2>1, JobShape, JobFields, IdleFields, NoneAssumption DEF IInv, TypeOK,
       StartRecords, LeaseInv, inviteVars
<1> QED
  BY <1>3, <1>4, <1>5 DEF IInv

LEMMA IInvIdle == IInv /\ UNCHANGED vars => IInv'
BY DEF vars, inviteVars, poolVars, IInv, TypeOK, JobInv, ConsentInv, ClaimInv, Claims,
   LeaseInv, SubmittedHasResult

LEMMA IInvStep == IInv /\ [Next]_vars => IInv'
<1> SUFFICES ASSUME IInv, [Next]_vars
             PROVE  IInv'
  OBVIOUS
<1>1. CASE UNCHANGED vars
  BY <1>1, IInvIdle
<1>2. ASSUME NEW i \in Invites, InviteStep(i)
      PROVE  IInv'
  BY <1>2, CreateKeeps, ConsentKeeps, VerifyKeeps, RevokeKeeps, RefundKeeps,
     ClaimGrowsStaleKeeps DEF InviteStep
<1>3. ASSUME NEW r \in Requests, Arrives(r)
      PROVE  IInv'
  BY <1>3, BookReadsKeeps, StartReadsKeeps, SubmitReadsKeeps DEF Arrives
<1>4. ASSUME NEW r \in Requests, Proceeds(r)
      PROVE  IInv'
  BY <1>4, BookRecordsKeeps, StartClaimsKeeps, StartTakesKeeps, StartRecordsKeeps, StartFindsNoneKeeps,
     StartUnclaimsKeeps, StartBindsKeeps, StartDispatchesKeeps, SubmitGradesKeeps,
     SubmitStoresKeeps, SubmitMarksKeeps, SubmitThrowsKeeps, SubmitFinishesKeeps,
     RequestDiesKeeps DEF Proceeds
<1>5. ASSUME NEW n \in Sessions, WorkerStep(n)
      PROVE  IInv'
  BY <1>5, DeploySucceedsKeeps, DeployFailsKeeps, DeployReleasesKeeps, DeployDiesKeeps, TearsDownKeeps,
     TeardownGoneKeeps, ReapKeeps,
     HealReleasesKeeps DEF WorkerStep
<1> QED
  BY <1>1, <1>2, <1>3, <1>4, <1>5 DEF Next

LEMMA InvariantHolds == Spec => []IInv
BY IInvInit, IInvStep, PTL DEF Spec

-----------------------------------------------------------------------------
(* What it implies                                                           *)

\* Invites, requests, sessions and accounts keep their shape.
THEOREM TypeCorrect == Spec => []TypeOK
<1>1. IInv => TypeOK
  BY DEF IInv
<1> QED
  BY <1>1, InvariantHolds, PTL

\* Whatever the screens' requests do in which order, an invite that is verified,
\* booked, started or submitted has a recorded consent.
THEOREM ConsentComesFirst == Spec => []ConsentFirst
<1>1. IInv => ConsentFirst
  BY DEF IInv, ConsentInv, ConsentFirst
<1> QED
  BY <1>1, InvariantHolds, PTL

\* However many starts of an invite overlap, die and are repeated, one session of it
\* is on the invite or on its way there.
THEOREM OneLeaseEach == Spec => []OneLease
<1>1. IInv => OneLease
  <2> SUFFICES ASSUME IInv, NEW i \in Invites, NEW m \in Wanted(i), NEW n \in Wanted(i)
               PROVE  m = n
    BY DEF OneLease
  <2>1. \A k \in Wanted(i) :
          \/ session[i] = k
          \/ \E r \in Requests : Claims(r) /\ job[r].sid = k /\ job[r].inv = i
    <3> SUFFICES ASSUME NEW k \in Wanted(i), session[i] # k
                 PROVE  \E r \in Requests : Claims(r) /\ job[r].sid = k /\ job[r].inv = i
      OBVIOUS
    <3>1. PICK r \in Requests : job[r].sid = k /\ job[r].step \in {"record", "bind", "dispatch"}
      BY DEF Wanted, InHand
    <3>2. k \in Sessions /\ whose[k] = i
      BY DEF Wanted
    <3>3. job[r].inv \in Invites
      BY <3>1, JobShape DEF IInv
    <3>4. CASE job[r].step \in {"record", "bind"}
      BY <3>1, <3>2, <3>4 DEF IInv, LeaseInv, Claims
    <3>5. CASE job[r].step = "dispatch"
      BY <3>1, <3>2, <3>3, <3>5, NoneAssumption DEF IInv, LeaseInv
    <3> QED
      BY <3>1, <3>4, <3>5
  <2> QED
    BY <2>1, NoneAssumption DEF IInv, ClaimInv, Wanted
<1> QED
  BY <1>1, InvariantHolds, PTL

\* What is submitted has a result, at every point where the submit may die.
THEOREM ResultPrecedesSubmitted == Spec => []SubmittedHasResult
<1>1. IInv => SubmittedHasResult
  BY DEF IInv
<1> QED
  BY <1>1, InvariantHolds, PTL

\* The session an invite was started with is never replaced.
THEOREM AttemptIsOne == Spec => OneAttempt
<1>1. IInv /\ [Next]_vars => [\A i \in Invites : session[i] # None => session'[i] = session[i]]_vars
  <2> SUFFICES ASSUME IInv, Next, NEW i \in Invites, session[i] # None
               PROVE  session'[i] = session[i]
    OBVIOUS
  <2>1. ASSUME NEW r \in Requests, StartBinds(r)
        PROVE  session'[i] = session[i]
    BY <2>1 DEF StartBinds, IInv, TypeOK, ClaimInv, Claims
  <2> QED
    BY <2>1 DEF Next, InviteStep, Arrives, Proceeds, WorkerStep, Create, Consent, Verify,
       Revoke, Refund, ClaimGrowsStale, BookReads, StartReads, SubmitReads, BookRecords,
       StartClaims, StartTakes, StartRecords, StartFindsNone, StartUnclaims, StartDispatches,
       SubmitGrades, SubmitStores, SubmitMarks, SubmitThrows, SubmitFinishes, RequestDies,
       DeploySucceeds, DeployFails, DeployReleases, DeployDies, TearsDown, TeardownGone, Reap, HealReleases, inviteVars
<1> QED
  BY <1>1, InvariantHolds, PTL DEF Spec, OneAttempt

\* Nothing but a request that was under way brings back an invite that was revoked,
\* refunded or submitted.
THEOREM DeadStays == Spec => DeadStaysDead
<1>1. IInv /\ [Next]_vars => [\A i \in Invites :
        status[i] \in Terminal /\ ~Busy(i) => status'[i] \in Terminal]_vars
  <2> SUFFICES ASSUME IInv, Next, NEW i \in Invites, status[i] \in Terminal, ~Busy(i)
               PROVE  status'[i] \in Terminal
    OBVIOUS
  <2>1. ASSUME NEW k \in Invites, InviteStep(k)
        PROVE  status'[i] \in Terminal
    BY <2>1 DEF InviteStep, Create, Consent, Verify, Revoke, Refund, ClaimGrowsStale,
       SetStatus, Terminal, IInv, TypeOK, InviteStatus
  <2>2. ASSUME NEW r \in Requests, BookRecords(r) \/ StartBinds(r) \/ SubmitMarks(r)
        PROVE  status'[i] \in Terminal
    BY <2>2 DEF BookRecords, StartBinds, SubmitMarks, SetStatus, Busy, IInv, TypeOK
  <2> QED
    BY <2>1, <2>2 DEF Next, Arrives, Proceeds, WorkerStep, BookReads, StartReads,
       SubmitReads, StartClaims, StartTakes, StartRecords, StartFindsNone, StartUnclaims,
       StartDispatches, SubmitGrades, SubmitStores, SubmitThrows, SubmitFinishes,
       RequestDies, DeploySucceeds, DeployFails, DeployReleases, DeployDies, TearsDown, TeardownGone, Reap, HealReleases,
       inviteVars
<1> QED
  BY <1>1, InvariantHolds, PTL DEF Spec, DeadStaysDead

\* A stored result is final once the submits that had not seen it are over: nothing
\* grades the invite again.
THEOREM GradesSettle == Spec => GradeSettles
<1>1. IInv /\ [Next]_vars => [\A i \in Invites :
        result[i] # "none" /\ ~Grading(i) => result'[i] = result[i] /\ ~Grading(i)']_vars
  <2> SUFFICES ASSUME IInv, Next, NEW i \in Invites, result[i] # "none", ~Grading(i)
               PROVE  result'[i] = result[i] /\ ~Grading(i)'
    OBVIOUS
  <2>1. ASSUME NEW k \in Invites, InviteStep(k)
        PROVE  result'[i] = result[i] /\ ~Grading(i)'
    BY <2>1 DEF InviteStep, Create, Consent, Verify, Revoke, Refund, ClaimGrowsStale, Grading
  <2>2. ASSUME NEW n \in Sessions, WorkerStep(n)
        PROVE  result'[i] = result[i] /\ ~Grading(i)'
    BY <2>2 DEF WorkerStep, DeploySucceeds, DeployFails, DeployReleases, DeployDies, TearsDown,
       TeardownGone, Reap, HealReleases, Grading
  <2>3. ASSUME NEW r \in Requests, Arrives(r) \/ Proceeds(r)
        PROVE  result'[i] = result[i] /\ ~Grading(i)'
    <3>1. result'[i] = result[i]
      BY <2>3 DEF Arrives, Proceeds, BookReads, StartReads, SubmitReads, BookRecords,
         StartClaims, StartTakes, StartRecords, StartFindsNone, StartUnclaims, StartBinds,
         StartDispatches, SubmitGrades, SubmitStores, SubmitMarks, SubmitThrows,
         SubmitFinishes, RequestDies, Grading, IInv, TypeOK
    <3>2. \A q \in Requests : q # r => job'[q] = job[q]
      BY <2>3 DEF Arrives, Proceeds, BookReads, StartReads, SubmitReads, BookRecords,
         StartClaims, StartTakes, StartRecords, StartFindsNone, StartUnclaims, StartBinds,
         StartDispatches, SubmitGrades, SubmitStores, SubmitMarks, SubmitThrows,
         SubmitFinishes, RequestDies, Begin, Goto, Answer, Become, IInv, TypeOK
    <3>3. ASSUME job'[r].inv = i, job'[r].step \in {"grade", "store"}
          PROVE  FALSE
      <4>1. ASSUME NEW k \in Invites, BookReads(r, k) \/ StartReads(r, k) \/ SubmitReads(r, k)
            PROVE  FALSE
        BY <3>3, <4>1, JobFields DEF BookReads, StartReads, SubmitReads, Begin, Become, IInv,
           TypeOK
      <4>2. CASE SubmitGrades(r)
        BY <3>3, <4>2, JobFields DEF SubmitGrades, Become, Grading, IInv, TypeOK
      <4>3. CASE StartTakes(r) \/ StartRecords(r)
        BY <3>3, <4>3, JobFields DEF StartTakes, StartRecords, Goto, Become, IInv, TypeOK
      <4> QED
        BY <2>3, <3>3, <4>1, <4>2, <4>3, JobFields, IdleFields DEF Arrives, Proceeds,
           BookRecords, StartClaims, StartFindsNone, StartUnclaims, StartBinds,
           StartDispatches, SubmitStores, SubmitMarks, SubmitThrows, SubmitFinishes,
           RequestDies, Goto, Answer, Become, IInv, TypeOK
    <3> QED
      BY <3>1, <3>2, <3>3 DEF Grading
  <2> QED
    BY <2>1, <2>2, <2>3 DEF Next
<1> QED
  BY <1>1, InvariantHolds, PTL DEF Spec, GradeSettles

-----------------------------------------------------------------------------
(* Why the accounts come back                                                *)

\* Only leaseEnt() makes a tenant, of a session that is new, and a session ends with
\* its account freed or as one the healer frees.
LEMMA TenantsStep == TypeOK /\ TenantsFound /\ [Next]_vars => TenantsFound'
<1> SUFFICES ASSUME TypeOK, TenantsFound, [Next]_vars
             PROVE  TenantsFound'
  OBVIOUS
<1>1. ASSUME NEW r \in Requests, StartTakes(r)
      PROVE  TenantsFound'
  <2>1. PICK a \in Accounts, n \in Sessions :
          /\ tenant[a] = None /\ sess[n] = "none"
          /\ sess' = [sess EXCEPT ![n] = "minted"]
          /\ place' = [place EXCEPT ![n] = a]
          /\ tenant' = [tenant EXCEPT ![a] = n]
    BY <1>1 DEF StartTakes
  <2>2. ASSUME NEW b \in Accounts, tenant'[b] # None
        PROVE  /\ place'[tenant'[b]] = b
               /\ sess'[tenant'[b]] \in {"leasing", "active", "minted", "error"}
    <3>1. CASE b = a
      BY <2>1, <3>1 DEF TypeOK
    <3>2. CASE b # a
      <4>1. /\ tenant'[b] = tenant[b] /\ tenant[b] \in Sessions
            /\ place[tenant[b]] = b
            /\ sess[tenant[b]] \in {"leasing", "active", "minted", "error"}
        BY <2>1, <2>2, <3>2 DEF TenantsFound, Live, TypeOK
      <4>2. tenant[b] # n
        BY <2>1, <4>1
      <4> QED
        BY <2>1, <4>1, <4>2 DEF TypeOK
    <3> QED
      BY <3>1, <3>2
  <2> QED
    BY <2>2 DEF TenantsFound, Live
<1>2. ASSUME NEW r \in Requests, StartRecords(r)
      PROVE  TenantsFound'
  <2>1. PICK st \in {"leasing", "active"} : sess' = [sess EXCEPT ![job[r].sid] = st]
    BY <1>2 DEF StartRecords
  <2>2. place' = place /\ tenant' = tenant
    BY <1>2 DEF StartRecords
  <2> QED
    BY <2>1, <2>2 DEF TenantsFound, Live, TypeOK
<1>3. ASSUME NEW n \in Sessions, DeploySucceeds(n) \/ DeployFails(n)
      PROVE  TenantsFound'
  <2>1. /\ place' = place /\ tenant' = tenant
        /\ \/ sess' = [sess EXCEPT ![n] = IF @ = "leasing" THEN "active" ELSE @]
           \/ sess' = [sess EXCEPT ![n] = "error"]
           \/ sess' = sess
    BY <1>3 DEF DeploySucceeds, DeployFails
  <2> QED
    BY <2>1 DEF TenantsFound, Live, TypeOK
<1>4. ASSUME NEW n \in Sessions, TearsDown(n)
      PROVE  TenantsFound'
  <2>1. /\ place' = place /\ sess' = [sess EXCEPT ![n] = "over"]
        /\ tenant' = [tenant EXCEPT ![place[n]] = None]
    BY <1>4 DEF TearsDown
  <2>2. ASSUME NEW b \in Accounts, tenant'[b] # None
        PROVE  tenant'[b] = tenant[b] /\ tenant[b] \in Sessions \ {n}
    BY <2>1, <2>2 DEF TenantsFound, TypeOK
  <2> QED
    BY <2>1, <2>2 DEF TenantsFound, Live, TypeOK
<1>5. ASSUME NEW n \in Sessions, DeployReleases(n) \/ HealReleases(n)
      PROVE  TenantsFound'
  <2>1. /\ place' = place /\ sess' = sess
        /\ \A b \in Accounts : tenant'[b] \in {tenant[b], None}
    BY <1>5 DEF DeployReleases, HealReleases, TypeOK
  <2> QED
    BY <2>1 DEF TenantsFound, Live
<1>6. CASE UNCHANGED <<sess, place, tenant>>
  BY <1>6 DEF TenantsFound, Live
<1>7. ASSUME NEW r \in Requests, Arrives(r) \/ Proceeds(r),
             ~StartTakes(r), ~StartRecords(r)
      PROVE  UNCHANGED <<sess, place, tenant>>
  BY <1>7 DEF Arrives, BookReads, StartReads, SubmitReads, Proceeds, BookRecords,
     StartClaims, StartFindsNone, StartUnclaims, StartBinds, StartDispatches,
     SubmitGrades, SubmitStores, SubmitMarks, SubmitThrows, SubmitFinishes,
     RequestDies, poolVars
<1>8. ASSUME NEW i \in Invites, InviteStep(i)
      PROVE  UNCHANGED <<sess, place, tenant>>
  BY <1>8 DEF InviteStep, Create, Consent, Verify, Revoke, Refund, ClaimGrowsStale,
     poolVars
<1>9. ASSUME NEW n \in Sessions, DeployDies(n) \/ TeardownGone(n) \/ Reap(n)
      PROVE  UNCHANGED <<sess, place, tenant>>
  BY <1>9 DEF DeployDies, TeardownGone, Reap
<1>10. CASE UNCHANGED vars
  BY <1>6, <1>10 DEF vars, poolVars
<1> QED
  BY <1>1, <1>2, <1>3, <1>4, <1>5, <1>6, <1>7, <1>8, <1>9, <1>10 DEF Next, WorkerStep

\* Whatever starts die after their lease, whatever deploys fail, mark and release
\* nothing, and whatever events are lost: a leased account names a session that is
\* where it says, and that the reaper looks at (live) or the healer (error); only the
\* claim of a start whose session row is not written yet, or never will be, is
\* neither's.
THEOREM LeasesAreFound == Spec => []TenantsFound
<1>1. Init => TenantsFound
  BY DEF Init, TenantsFound
<1> QED
  BY <1>1, TenantsStep, TypeCorrect, PTL DEF Spec

=============================================================================
