----------------------------- MODULE AzureSeats -----------------------------
(* The Azure track of the enterprise product: a start hands the candidate a    *)
(* fresh resource group, and a pooled service principal (a seat) that is       *)
(* granted a role on that group alone.                                         *)
(*                                                                             *)
(* startAzureSession() and submitAzureSession() of engine/ent-handler.mjs make *)
(* one call after the other, each of which may fail or be the last of its      *)
(* invocation.  The pool rows and the invites move by single updates, some     *)
(* conditional; a group is deleted, its seat released and its invite reset by  *)
(* a worker, three awaits apart.                                               *)
EXTENDS EntNames, Naturals, Sequences

CONSTANTS Seats,     \* rows of the table ShieldSyncEntAzureSpPool
          Groups,    \* resource groups that can be created
          MaxFaults  \* bound: faults in one behaviour

ASSUME FaultBound == MaxFaults \in Nat
ASSUME AzureNone == None \notin Seats \cup Groups

VARIABLES
  faults,   \* what has gone wrong so far, in that order
  \* ---- table Invites
  phase,    \* phase[i]: status; submitted, revoked and refunded are "closed"
  group,    \* group[i]: azResourceGroup
  seat,     \* seat[i]: azSpId
  locked,   \* invites with a leaseClaimAt of the last 2 minutes
  \* ---- the pool of service principals
  holder,   \* holder[s]: assignedInvite, None when the row is free
  aged,     \* assigned seats with an assignedAt older than 90 minutes
  knows,    \* knows[s]: the invites the secret that works was made for or handed to
  \* ---- Azure
  owner,    \* owner[g]: the invite group g was created for
  granted,  \* granted[g]: the seat with a role on g
  gone,     \* deleted groups
  \* ---- workers and requests
  deploys,  \* deploy-azure events
  tears,    \* teardown-azure events, and how far each has come
  req       \* req[r]: what request r does next

FaultKinds ==
  {"rotate", "lease", "grant",     \* a step of a start throws and is undone at once
   "persist",                      \* the invite is not written, or the deploy not sent
   "evict",                        \* an eviction is broken off
   "mark", "finish",               \* a result is not stored, or its teardown not sent
   "deploy",                       \* a room is not built
   "teardown", "orphan",           \* a teardown is given up, of a session or a bare group
   "halfleased",                   \* a lease throws after its group was made
   "release",                      \* a start or a teardown cannot free its seat and goes on
   "died",                         \* an invocation that serves a request is the last
   "overtaken"}                    \* an invite is reset under a request that goes on

azInvites == <<phase, group, seat, locked>>
azPool    == <<holder, aged, knows>>
azCloud   == <<owner, granted, gone>>
azVars == <<faults, azInvites, azPool, azCloud, deploys, tears, req>>

AzSteps == {"rest", "claim", "seat", "evict", "reset", "rotate", "lease", "grant",
            "drop", "unclaim", "persist", "dispatch", "mark", "finish"}

\* What a request works on: invite, seat and group, and the invite its seat was
\* taken from.
Doing(st, i, s, g, from) == [step |-> st, inv |-> i, seat |-> s, grp |-> g, from |-> from]
Rest == Doing("rest", None, None, None, None)

Tear(st, g, s, i) == [step |-> st, grp |-> g, seat |-> s, inv |-> i]
Deploy(i, g, s)   == [inv |-> i, grp |-> g, seat |-> s]

AzTypeOK ==
  /\ faults \in Seq(FaultKinds) /\ Len(faults) <= MaxFaults
  /\ phase \in [Invites -> {"booked", "started", "closed"}]
  /\ group \in [Invites -> Groups \cup {None}]
  /\ seat \in [Invites -> Seats \cup {None}]
  /\ locked \in SUBSET Invites
  /\ holder \in [Seats -> Invites \cup {None}]
  /\ aged \in SUBSET {s \in Seats : holder[s] # None}
  /\ knows \in [Seats -> SUBSET Invites]
  /\ owner \in [Groups -> Invites \cup {None}]
  /\ granted \in [Groups -> Seats \cup {None}]
  /\ gone \in SUBSET Groups
  /\ deploys \subseteq [inv : Invites, grp : Groups, seat : Seats]
  /\ tears \subseteq [step : {"delete", "release", "reset"}, grp : Groups,
                      seat : Seats \cup {None}, inv : Invites \cup {None}]
  /\ req \in [Requests -> [step : AzSteps, inv : Invites \cup {None},
                           seat : Seats \cup {None}, grp : Groups \cup {None},
                           from : Invites \cup {None}]]

\* Booked invites and a seeded pool; what comes before is EntInvite's business.
AzInit ==
  /\ faults = <<>>
  /\ phase = [i \in Invites |-> "booked"]
  /\ group = [i \in Invites |-> None]
  /\ seat = [i \in Invites |-> None]
  /\ locked = {}
  /\ holder = [s \in Seats |-> None]
  /\ aged = {}
  /\ knows = [s \in Seats |-> {}]
  /\ owner = [g \in Groups |-> None]
  /\ granted = [g \in Groups |-> None]
  /\ gone = {}
  /\ deploys = {}
  /\ tears = {}
  /\ req = [r \in Requests |-> Rest]

-----------------------------------------------------------------------------
Fault(kind) == Len(faults) < MaxFaults /\ faults' = Append(faults, kind)

\* There has been a fault of one of these kinds.
Had(kinds) == \E n \in 1..Len(faults) : faults[n] \in kinds

Exists(g) == owner[g] # None /\ g \notin gone

\* The room a started invite points to, with its seat still its own.
InRoom(i) == /\ phase[i] = "started" /\ group[i] # None
             /\ holder[seat[i]] = i

\* A start has written the room and not sent its deploy, or a submit has graded the room and
\* not stored the result.
Attended(i) == \E r \in Requests : req[r].inv = i /\ req[r].step \in {"dispatch", "mark"}

Now(r, d)    == req' = [req EXCEPT ![r] = d]
Then(r, st)  == Now(r, [req[r] EXCEPT !.step = st])
Replies(r)   == Now(r, Rest)

\* Mutant: the release leaves the time of the assignment.
ReleaseKeepsTime(s, i) ==
  IF holder[s] = i
    THEN holder' = [holder EXCEPT ![s] = None] /\ UNCHANGED aged
    ELSE UNCHANGED <<holder, aged>>

\* releaseAzureSp() with an invite: only a seat that is still this invite's.
Release(s, i) ==
  IF holder[s] = i
    THEN holder' = [holder EXCEPT ![s] = None] /\ aged' = aged \ {s}
    ELSE UNCHANGED <<holder, aged>>

\* releaseStartClaim(): a session id says that the start came through; that it fails
\* is swallowed.
Unlock(i) == \/ group[i] = None /\ locked' = locked \ {i}
             \/ UNCHANGED locked

\* resetAzureInviteForRetry()
Reset(i) ==
  IF phase[i] = "started"
    THEN /\ phase' = [phase EXCEPT ![i] = "booked"]
         /\ group' = [group EXCEPT ![i] = None]
         /\ seat' = [seat EXCEPT ![i] = None]
         /\ locked' = locked \ {i}
    ELSE UNCHANGED azInvites

\* A request whose invite is reset goes on with what it has read; that counts as a fault.
Overtakes(i) ==
  IF phase[i] = "started" /\ Attended(i) THEN Fault("overtaken") ELSE UNCHANGED faults

-----------------------------------------------------------------------------
(* POST /ent/start, Azure branch                                             *)

\* The candidate is back: the same secret again, if the seat is still theirs.
Reconnects(i) ==
  /\ InRoom(i)
  /\ knows' = [knows EXCEPT ![seat[i]] = @ \cup {i}]
  /\ UNCHANGED <<faults, azInvites, holder, aged, azCloud, deploys, tears, req>>

\* A fresh start ...
AzStarts(r, i) ==
  /\ req[r] = Rest
  /\ phase[i] = "booked" \/ (phase[i] = "started" /\ group[i] = None)
  /\ Now(r, Doing("claim", i, None, None, None))
  /\ UNCHANGED <<faults, azInvites, azPool, azCloud, deploys, tears>>

\* ... claims its invite; the loser reconnects or answers "retry".
AzClaims(r) ==
  LET i == req[r].inv IN
  /\ req[r].step = "claim"
  /\ IF group[i] = None /\ phase[i] = "booked" /\ i \notin locked
       THEN locked' = locked \cup {i} /\ Then(r, "seat")
       ELSE UNCHANGED locked /\ Replies(r)
  /\ UNCHANGED <<faults, phase, group, seat, azPool, azCloud, deploys, tears>>

\* claimAzureSp(): a free seat,
TakesFree(r) ==
  LET i == req[r].inv IN
  /\ req[r].step = "seat"
  /\ \E s \in Seats :
       /\ holder[s] = None
       /\ holder' = [holder EXCEPT ![s] = i]
       /\ Now(r, Doing("rotate", i, s, None, None))
  /\ UNCHANGED <<faults, azInvites, aged, knows, azCloud, deploys, tears>>

\* if there is none, one that has been assigned for longer than a session lasts
\* (compare-and-set on assignedAt),
TakesOver(r) ==
  LET i == req[r].inv IN
  /\ req[r].step = "seat"
  /\ \A s \in Seats : holder[s] # None
  /\ \E s \in aged :
       /\ holder' = [holder EXCEPT ![s] = i]
       /\ aged' = aged \ {s}
       /\ Now(r, Doing("evict", i, s, None, holder[s]))
  /\ UNCHANGED <<faults, azInvites, knows, azCloud, deploys, tears>>

\* or nothing.
FindsNoSeat(r) ==
  /\ req[r].step = "seat"
  /\ \A s \in Seats : holder[s] # None
  /\ aged = {}
  /\ Then(r, "unclaim")
  /\ UNCHANGED <<faults, azInvites, azPool, azCloud, deploys, tears>>

\* Mutant: the invite is reset and its group is left to itself.
EvictsInvite(r) ==
  /\ req[r].step = "evict"
  /\ Then(r, "reset")
  /\ UNCHANGED <<faults, azInvites, azPool, azCloud, deploys, tears>>

\* The session the seat was taken from: a teardown event for its group alone ...
Evicts(r) ==
  LET g == group[req[r].from] IN
  /\ req[r].step = "evict"
  /\ \/ /\ tears' = tears \cup (IF g = None THEN {} ELSE {Tear("delete", g, None, None)})
        /\ Then(r, "reset")
        /\ UNCHANGED faults
     \/ /\ Fault("evict") /\ g # None      \* the event cannot be sent: "non-fatal"
        /\ Then(r, "rotate")
        /\ UNCHANGED tears
  /\ UNCHANGED <<azInvites, azPool, azCloud, deploys>>

\* ... and its invite is put back to "booked" at once.
ResetsEvicted(r) ==
  /\ req[r].step = "reset"
  /\ \/ Reset(req[r].from) /\ Overtakes(req[r].from)
     \/ Fault("evict") /\ UNCHANGED azInvites
  /\ Then(r, "rotate")
  /\ UNCHANGED <<azPool, azCloud, deploys, tears>>

\* Mutant: the secret the last holder saved is not removed.
RotatesKeeping(r) ==
  /\ req[r].step = "rotate"
  /\ knows' = [knows EXCEPT ![req[r].seat] = @ \cup {req[r].inv}]
  /\ Then(r, "lease")
  /\ UNCHANGED <<faults, azInvites, holder, aged, azCloud, deploys, tears>>

\* rotateSpSecret(): a new secret for this invite, and every other one is removed.
Rotates(r) ==
  /\ req[r].step = "rotate"
  /\ knows' = [knows EXCEPT ![req[r].seat] = {req[r].inv}]
  /\ Then(r, "lease")
  /\ UNCHANGED <<faults, azInvites, holder, aged, azCloud, deploys, tears>>

\* A start that fails gives its seat back; that the release fails too is swallowed.
GivesBack(r, kind) ==
  \/ Fault(kind) /\ Release(req[r].seat, req[r].inv)
  \/ Fault("release") /\ UNCHANGED <<holder, aged>>

\* It throws, or the new secret cannot be stored: the seat goes back.
RotateFails(r) ==
  /\ req[r].step = "rotate"
  /\ knows' \in {knows, [knows EXCEPT ![req[r].seat] = {}]}
  /\ GivesBack(r, "rotate")
  /\ Then(r, "unclaim")
  /\ UNCHANGED <<azInvites, azCloud, deploys, tears>>

\* lease(): a new group, empty.
LeasesGroup(r) ==
  /\ req[r].step = "lease"
  /\ \E g \in Groups :
       /\ owner[g] = None
       /\ owner' = [owner EXCEPT ![g] = req[r].inv]
       /\ Now(r, [req[r] EXCEPT !.step = "grant", !.grp = g])
  /\ UNCHANGED <<faults, azInvites, azPool, granted, gone, deploys, tears>>

\* createOrUpdate() throws, before the group was made or after: the seat goes back,
\* and the name of the group is lost.
LeaseFails(r) ==
  /\ req[r].step = "lease"
  /\ \/ GivesBack(r, "lease") /\ UNCHANGED owner
     \/ /\ GivesBack(r, "halfleased")
        /\ \E g \in Groups : /\ owner[g] = None
                             /\ owner' = [owner EXCEPT ![g] = req[r].inv]
  /\ Then(r, "unclaim")
  /\ UNCHANGED <<azInvites, knows, granted, gone, deploys, tears>>

\* assignLearner(): the role on this group.
Grants(r) ==
  /\ req[r].step = "grant"
  /\ granted' = [granted EXCEPT ![req[r].grp] = req[r].seat]
  /\ Then(r, "persist")
  /\ UNCHANGED <<faults, azInvites, azPool, owner, gone, deploys, tears>>

\* It throws, before the role is granted or after: the seat goes back, ...
GrantFails(r) ==
  /\ req[r].step = "grant"
  /\ granted' \in {granted, [granted EXCEPT ![req[r].grp] = req[r].seat]}
  /\ GivesBack(r, "grant")
  /\ Then(r, "drop")
  /\ UNCHANGED <<azInvites, knows, owner, gone, deploys, tears>>

\* ... then the group's teardown event, ...
DropsGroup(r) ==
  /\ req[r].step = "drop"
  /\ tears' = tears \cup {Tear("delete", req[r].grp, None, None)}
  /\ Then(r, "unclaim")
  /\ UNCHANGED <<faults, azInvites, azPool, azCloud, deploys>>

\* ... then the claim.
AzUnclaims(r) ==
  /\ req[r].step = "unclaim"
  /\ Unlock(req[r].inv)
  /\ Replies(r)
  /\ UNCHANGED <<faults, phase, group, seat, azPool, azCloud, deploys, tears>>

\* setInviteStatus("started") with the handles, without a condition.
Persists(r) ==
  LET i == req[r].inv IN
  /\ req[r].step = "persist"
  /\ phase' = [phase EXCEPT ![i] = "started"]
  /\ group' = [group EXCEPT ![i] = req[r].grp]
  /\ seat' = [seat EXCEPT ![i] = req[r].seat]
  /\ Then(r, "dispatch")
  /\ UNCHANGED <<faults, locked, azPool, azCloud, deploys, tears>>

\* The deploy event, and the candidate gets the secret.
AzDispatches(r) ==
  LET d == req[r] IN
  /\ d.step = "dispatch"
  /\ deploys' = deploys \cup {Deploy(d.inv, d.grp, d.seat)}
  /\ Replies(r)
  /\ UNCHANGED <<faults, azInvites, azPool, azCloud, tears>>

\* Either throws: the claim, and a teardown event that takes care of the rest, if
\* it can be sent.
PersistFails(r) ==
  LET d == req[r] IN
  /\ d.step \in {"persist", "dispatch"}
  /\ Fault("persist")
  /\ Unlock(d.inv)
  /\ tears' \in {tears, tears \cup {Tear("delete", d.grp, d.seat, d.inv)}}
  /\ Replies(r)
  /\ UNCHANGED <<phase, group, seat, azPool, azCloud, deploys>>

-----------------------------------------------------------------------------
(* POST /ent/submit, Azure branch                                            *)

\* Grades the invite's room as it is, which changes nothing here.
AzSubmits(r, i) ==
  /\ req[r] = Rest
  /\ phase[i] = "started" /\ group[i] # None
  /\ Now(r, Doing("mark", i, seat[i], group[i], None))
  /\ UNCHANGED <<faults, azInvites, azPool, azCloud, deploys, tears>>

\* putResult() and setInviteStatus("submitted"); one of them may throw.
AzMarks(r) ==
  LET i == req[r].inv IN
  /\ req[r].step = "mark"
  /\ \/ phase' = [phase EXCEPT ![i] = "closed"] /\ UNCHANGED faults
     \/ Fault("mark") /\ UNCHANGED phase
  /\ Then(r, "finish")
  /\ UNCHANGED <<group, seat, locked, azPool, azCloud, deploys, tears>>

\* The finally clause: the teardown event with all it read.
AzFinishes(r) ==
  LET d == req[r] IN
  /\ d.step = "finish"
  /\ \/ tears' = tears \cup {Tear("delete", d.grp, d.seat, d.inv)} /\ UNCHANGED faults
     \/ Fault("finish") /\ UNCHANGED tears
  /\ Replies(r)
  /\ UNCHANGED <<azInvites, azPool, azCloud, deploys>>

\* setInviteStatus("revoked") or refundInvite(), whatever the status is.
AzRevokes(i) ==
  /\ phase[i] # "closed"
  /\ phase' = [phase EXCEPT ![i] = "closed"]
  /\ UNCHANGED <<faults, group, seat, locked, azPool, azCloud, deploys, tears, req>>

AzRequestDies(r) ==
  /\ req[r] # Rest
  /\ Fault("died")
  /\ Replies(r)
  /\ UNCHANGED <<azInvites, azPool, azCloud, deploys, tears>>

-----------------------------------------------------------------------------
(* Workers and time                                                          *)

\* runDeployAzure(): the room is ready; which storage account it has is left out.
AzDeploys(d) ==
  /\ d \in deploys
  /\ d.grp \notin gone
  /\ deploys' = deploys \ {d}
  /\ UNCHANGED <<faults, azInvites, azPool, azCloud, tears, req>>

\* The deploy fails, also because its group has been deleted meanwhile; the worker
\* goes on as a teardown does.
AzDeployFails(d) ==
  /\ d \in deploys
  /\ Fault("deploy") \/ (d.grp \in gone /\ UNCHANGED faults)
  /\ deploys' = deploys \ {d}
  /\ tears' = tears \cup {Tear("delete", d.grp, d.seat, d.inv)}
  /\ UNCHANGED <<azInvites, azPool, azCloud, req>>

\* runTeardownAzure(): the group is deleted, or has been before; its roles go with it.
Deletes(t) ==
  /\ t \in tears /\ t.step = "delete"
  /\ gone' = gone \cup {t.grp}
  /\ granted' = [granted EXCEPT ![t.grp] = None]
  /\ tears' = (tears \ {t}) \cup
       (IF t.inv = None THEN {} ELSE {Tear("release", t.grp, t.seat, t.inv)})
  /\ UNCHANGED <<faults, azInvites, azPool, owner, deploys, req>>

\* Mutant: the seat is released by its name alone.
ReleasesAny(t) ==
  /\ t \in tears /\ t.step = "release"
  /\ holder' = [holder EXCEPT ![t.seat] = None] /\ aged' = aged \ {t.seat}
  /\ tears' = (tears \ {t}) \cup {[t EXCEPT !.step = "reset"]}
  /\ UNCHANGED <<faults, azInvites, knows, azCloud, deploys, req>>

\* Then the seat, if the invite still has it, ...
Releases(t) ==
  /\ t \in tears /\ t.step = "release"
  /\ Release(t.seat, t.inv)
  /\ tears' = (tears \ {t}) \cup {[t EXCEPT !.step = "reset"]}
  /\ UNCHANGED <<faults, azInvites, knows, azCloud, deploys, req>>

\* ... then the invite, if it is "started".
Resets(t) ==
  /\ t \in tears /\ t.step = "reset"
  /\ Reset(t.inv) /\ Overtakes(t.inv)
  /\ tears' = tears \ {t}
  /\ UNCHANGED <<azPool, azCloud, deploys, req>>

\* Mutant: a session is cleaned up after although its group could not be deleted.
TearFailsOpen(t) ==
  /\ t \in tears
  /\ Fault("teardown")
  /\ tears' = (tears \ {t}) \cup
       (IF t.inv = None THEN {} ELSE {[t EXCEPT !.step = "release"]})
  /\ UNCHANGED <<azInvites, azPool, azCloud, deploys, req>>

\* The group cannot be deleted, and seat and invite stay as they are ("for the 90-min
\* self-heal reaper"); or the worker dies; or the seat alone cannot be released.
TearFails(t) ==
  /\ t \in tears
  /\ \/ /\ Fault(IF t.inv = None THEN "orphan" ELSE "teardown")
        /\ tears' = tears \ {t}
     \/ /\ t.step = "release" /\ Fault("release")
        /\ tears' = (tears \ {t}) \cup {[t EXCEPT !.step = "reset"]}
  /\ UNCHANGED <<azInvites, azPool, azCloud, deploys, req>>

\* 90 minutes after the seat was assigned, by when the start, its deploy, the cleanup of
\* what it began and the submits of earlier holders have come to an end.
SeatAges(s) ==
  /\ holder[s] # None /\ s \notin aged
  /\ \A d \in deploys : d.seat # s
  /\ \A t \in tears : t.seat # s
  /\ \A r \in Requests : req[r].seat = s =>
       req[r].step \in {"mark", "finish"} /\ req[r].inv = holder[s]
  /\ aged' = aged \cup {s}
  /\ UNCHANGED <<faults, azInvites, holder, knows, azCloud, deploys, tears, req>>

\* Two minutes after the claim, by when the start that made it has come to an end.
LockAges(i) ==
  /\ i \in locked
  /\ \A r \in Requests : req[r].inv = i => req[r].step \in {"claim", "mark", "finish"}
  /\ locked' = locked \ {i}
  /\ UNCHANGED <<faults, phase, group, seat, azPool, azCloud, deploys, tears, req>>

-----------------------------------------------------------------------------
AzArrives(r) == \E i \in Invites : AzStarts(r, i) \/ AzSubmits(r, i)

AzProceeds(r) ==
  \/ AzClaims(r) \/ TakesFree(r) \/ TakesOver(r) \/ FindsNoSeat(r)
  \/ Evicts(r) \/ ResetsEvicted(r) \/ Rotates(r) \/ RotateFails(r)
  \/ LeasesGroup(r) \/ LeaseFails(r) \/ Grants(r) \/ GrantFails(r)
  \/ DropsGroup(r) \/ AzUnclaims(r) \/ Persists(r) \/ AzDispatches(r) \/ PersistFails(r)
  \/ AzMarks(r) \/ AzFinishes(r)
  \/ AzRequestDies(r)

AzWorker ==
  \/ \E d \in deploys : AzDeploys(d) \/ AzDeployFails(d)
  \/ \E t \in tears : Deletes(t) \/ Releases(t) \/ Resets(t) \/ TearFails(t)

AzNext == \/ \E r \in Requests : AzArrives(r) \/ AzProceeds(r)
          \/ \E i \in Invites : Reconnects(i) \/ AzRevokes(i) \/ LockAges(i)
          \/ \E s \in Seats : SeatAges(s)
          \/ AzWorker

AzSpec == AzInit /\ [][AzNext]_azVars

-----------------------------------------------------------------------------
(* Safety                                                                    *)

\* Faults after which a request works on a room that its invite has given back.
Derailing == {"mark", "overtaken"}

\* Faults that leave a group, or a seat, to nobody: no sweep of the code looks for those.
Stranding == Derailing \cup {"persist", "died", "orphan", "halfleased", "release"}

\* And one that leaves a group to the next holder of the seat that opens it.
Exposing == Stranding \cup {"evict"}

\* Nobody else's secret opens the room a candidate works in, whoever had the seat before
\* ("a secret a PRIOR holder of this pooled SP saved must be dead", startAzureSession).
RoomIsPrivate ==
  ~Had(Derailing) =>
    \A i \in Invites : InRoom(i) => knows[seat[i]] \subseteq {i}

\* A candidate keeps the seat while there is a room to work in: only a start that finds it
\* older than a session takes it away ("never frees an SP a different candidate is actively
\* using", releaseAzureSp).
SeatStays(i) ==
  /\ ~Had(Derailing)
  /\ InRoom(i) /\ group[i] \notin gone /\ holder'[seat[i]] # i
  => seat[i] \in aged

\* A submitted, revoked or refunded invite is not put back to "booked" ("an unguarded reset
\* would flip a TERMINAL submitted invite back", resetAzureInviteForRetry), whatever fails.
ClosedStays(i) == phase[i] = "closed" => phase'[i] # "booked"

\* No cleanup that comes late or twice takes a seat in use, or reopens an invite.
CleanupsSpare == [][\A i \in Invites : SeatStays(i) /\ ClosedStays(i)]_azVars

\* Its teardown is under way, or will be sent by the request that has it in hand.
OnItsWayOut(g) ==
  \/ \E t \in tears : t.grp = g
  \/ \E r \in Requests : \/ req[r].step = "drop" /\ req[r].grp = g
                         \/ req[r].step = "evict" /\ group[req[r].from] = g

\* A secret that opens a group is known to the invite of that group alone, or the group is
\* on its way out: a seat whose group could not be deleted is not handed on before
\* ("freeing the SP would hand the next candidate standing access to the leftover RG",
\* runTeardownAzure).
AccessEnds ==
  ~Had(Exposing) =>
    \A g \in Groups : Exists(g) /\ granted[g] # None =>
      knows[granted[g]] \subseteq {owner[g]} \/ OnItsWayOut(g)

\* A group is never forgotten: an invite points to it, a start has it in hand, or its
\* teardown is under way ("the invite's RG pointer intact for the 90-min self-heal
\* reaper", runTeardownAzure).
NoGroupForgotten ==
  ~Had(Stranding) => \A g \in Groups : Exists(g) =>
    \/ \E i \in Invites : group[i] = g
    \/ \E r \in Requests : req[r].grp = g
    \/ \E t \in tears : t.grp = g

=============================================================================
