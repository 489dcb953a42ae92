-------------------------- MODULE AzureSeatsProofs --------------------------
(* The Azure track for any number of invites, seats, groups and requests:      *)
(* which faults, as many as you like, each of its promises survives.           *)
EXTENDS AzureSeats, TLAPS

-----------------------------------------------------------------------------
(* Types, with any faults                                                    *)

Place == [step : AzSteps, inv : Invites \cup {None}, seat : Seats \cup {None},
          grp : Groups \cup {None}, from : Invites \cup {None}]

\* What a request or a teardown works on is there from the step on that looks it up.
Fits(d) ==
  /\ d \in Place
  /\ d.step # "rest" => d.inv \in Invites
  /\ d.step \in {"evict", "reset"} => d.from \in Invites
  /\ d.step \notin {"rest", "claim", "seat", "unclaim"} => d.seat \in Seats
  /\ d.step \in {"grant", "drop", "persist", "dispatch", "mark", "finish"} => d.grp \in Groups

TearFits(t) ==
  /\ t \in [step : {"delete", "release", "reset"}, grp : Groups,
            seat : Seats \cup {None}, inv : Invites \cup {None}]
  /\ t.inv # None => t.seat \in Seats
  /\ t.step \in {"release", "reset"} => t.inv # None

FaultList == {f \in Seq(FaultKinds) : Len(f) <= MaxFaults}

AzShape ==
  /\ AzTypeOK
  /\ \A i \in Invites : group[i] = None <=> seat[i] = None
  /\ \A r \in Requests : Fits(req[r])
  /\ \A t \in tears : TearFits(t)

\* A step that moves one request leaves the others what they are.
LEMMA RequestMoves ==
  ASSUME AzShape, NEW r \in Requests, NEW d, Fits(d), Now(r, d)
  PROVE  /\ req' \in [Requests -> Place]
         /\ \A q \in Requests : Fits(req'[q])
         /\ req'[r] = d /\ \A q \in Requests \ {r} : req'[q] = req[q]
<1>1. req \in [Requests -> Place] /\ d \in Place
  BY DEF AzShape, AzTypeOK, Fits, Place
<1>2. req'[r] = d /\ \A q \in Requests \ {r} : req'[q] = req[q]
  BY <1>1 DEF Now
<1>3. \A q \in Requests : Fits(req'[q])
  BY <1>2 DEF AzShape
<1>4. req' \in [Requests -> Place]
  BY <1>1 DEF Now
<1> QED
  BY <1>2, <1>3, <1>4

\* A request that goes on with what it has.
LEMMA StepFits ==
  ASSUME NEW d, Fits(d), NEW st \in AzSteps, d.step # "rest",
         st \in {"evict", "reset"} => d.from \in Invites,
         st \in {"rest", "claim", "seat", "unclaim"} \/ d.seat \in Seats,
         st \in {"grant", "drop", "persist", "dispatch", "mark", "finish"} => d.grp \in Groups
  PROVE  Fits([d EXCEPT !.step = st])
<1>1. d \in Place /\ d.inv \in Invites
  BY DEF Fits
<1>2. [d EXCEPT !.step = st] \in Place
  BY <1>1 DEF Place
<1>3. LET e == [d EXCEPT !.step = st] IN
        e.step = st /\ e.inv = d.inv /\ e.seat = d.seat /\ e.grp = d.grp /\ e.from = d.from
  BY <1>1 DEF Place
<1> QED
  BY <1>1, <1>2, <1>3 DEF Fits

LEMMA RestFits == Fits(Rest)
BY DEF Fits, Rest, Doing, AzSteps, Place

\* The shape of all but the requests.
OthersTyped ==
  /\ faults \in FaultList
  /\ phase \in [Invites -> {"booked", "started", "closed"}]
  /\ group \in [Invites -> Groups \cup {None}]
  /\ seat \in [Invites -> Seats \cup {None}]
  /\ locked \in SUBSET Invites
  /\ holder \in [Seats -> Invites \cup {None}]
  /\ aged \in SUBSET {s \in Seats : holder[s] # None}
  /\ knows \in [Seats -> SUBSET Invites]
  /\ owner \in [Groups -> Invites \cup {None}]
  /\ granted \in [Groups -> Seats \cup {None}]
  /\ gone \in SUBSET Groups
  /\ deploys \subseteq [inv : Invites, grp : Groups, seat : Seats]
  /\ \A i \in Invites : group[i] = None <=> seat[i] = None
  /\ \A t \in tears : TearFits(t)

LEMMA ShapeParts ==
  AzShape <=> OthersTyped /\ req \in [Requests -> Place] /\ \A r \in Requests : Fits(req[r])
BY DEF AzShape, AzTypeOK, OthersTyped, FaultList, Place, TearFits

LEMMA PartsShape ==
  ASSUME OthersTyped', (req \in [Requests -> Place])', \A r \in Requests : Fits(req'[r])
  PROVE  AzShape'
BY DEF AzShape, AzTypeOK, OthersTyped, FaultList, Place, TearFits

LEMMA FaultTyped ==
  ASSUME AzShape, NEW kind \in FaultKinds, Fault(kind)
  PROVE  faults' \in FaultList
BY FaultBound DEF AzShape, AzTypeOK, FaultList, Fault

LEMMA OvertakesTyped ==
  ASSUME AzShape, NEW i, Overtakes(i)
  PROVE  faults' \in FaultList
BY FaultTyped, ShapeParts DEF Overtakes, FaultKinds, OthersTyped, FaultList

\* releaseAzureSp() and resetAzureInviteForRetry() keep the tables what they are.
LEMMA ReleaseTyped ==
  ASSUME AzShape, NEW s \in Seats, NEW i, Release(s, i)
  PROVE  /\ holder' \in [Seats -> Invites \cup {None}]
         /\ aged' \in SUBSET {x \in Seats : holder'[x] # None}
BY DEF AzShape, AzTypeOK, Release

LEMMA GivesBackTyped ==
  ASSUME AzShape, NEW r \in Requests, req[r].seat \in Seats, NEW kind \in FaultKinds,
         GivesBack(r, kind)
  PROVE  /\ faults' \in FaultList
         /\ holder' \in [Seats -> Invites \cup {None}]
         /\ aged' \in SUBSET {x \in Seats : holder'[x] # None}
<1>1. CASE Fault(kind) /\ Release(req[r].seat, req[r].inv)
  BY <1>1, FaultTyped, ReleaseTyped
<1>2. CASE Fault("release") /\ UNCHANGED <<holder, aged>>
  BY <1>2, FaultTyped DEF AzShape, AzTypeOK, FaultKinds
<1> QED
  BY <1>1, <1>2 DEF GivesBack

LEMMA ResetTyped ==
  ASSUME AzShape, NEW i \in Invites, Reset(i)
  PROVE  /\ phase' \in [Invites -> {"booked", "started", "closed"}]
         /\ group' \in [Invites -> Groups \cup {None}]
         /\ seat' \in [Invites -> Seats \cup {None}]
         /\ locked' \in SUBSET Invites
         /\ \A j \in Invites : group'[j] = None <=> seat'[j] = None
BY DEF AzShape, AzTypeOK, Reset, azInvites

\* An action is typed when the tables are and the request, if it moves one, is.
LEMMA MovesTo ==
  ASSUME AzShape, OthersTyped', NEW r \in Requests, NEW d, Fits(d), Now(r, d)
  PROVE  AzShape'
BY RequestMoves, PartsShape

LEMMA GoesOn ==
  ASSUME AzShape, OthersTyped', NEW r \in Requests, NEW st \in AzSteps,
         req[r].step # "rest", st \in {"evict", "reset"} => req[r].from \in Invites,
         st \in {"rest", "claim", "seat", "unclaim"} \/ req[r].seat \in Seats,
         st \in {"grant", "drop", "persist", "dispatch", "mark", "finish"} =>
           req[r].grp \in Groups,
         Then(r, st)
  PROVE  AzShape'
<1>1. Fits(req[r])
  BY DEF AzShape
<1>2. Fits([req[r] EXCEPT !.step = st])
  BY <1>1, StepFits
<1> QED
  BY <1>2, MovesTo DEF Then

LEMMA Ends ==
  ASSUME AzShape, OthersTyped', NEW r \in Requests, Replies(r)
  PROVE  AzShape'
BY RestFits, MovesTo DEF Replies

LEMMA NoneMoves ==
  ASSUME AzShape, OthersTyped', UNCHANGED req
  PROVE  AzShape'
BY ShapeParts, PartsShape

\* Every step keeps the shape.
LEMMA ShapeStep ==
  ASSUME AzShape, [AzNext]_azVars
  PROVE  AzShape'
<1>1. ASSUME NEW r \in Requests, NEW i \in Invites, AzStarts(r, i) PROVE AzShape'
  <2>1. OthersTyped'
    BY <1>1, ShapeParts DEF AzStarts, OthersTyped, azInvites, azPool, azCloud
  <2>2. Fits(Doing("claim", i, None, None, None))
    BY DEF Fits, Place, Doing, AzSteps
  <2> QED
    BY <1>1, <2>1, <2>2, MovesTo DEF AzStarts
<1>2. ASSUME NEW r \in Requests, NEW i \in Invites, AzSubmits(r, i) PROVE AzShape'
  <2>1. OthersTyped'
    BY <1>2, ShapeParts DEF AzSubmits, OthersTyped, azInvites, azPool, azCloud
  <2>2. seat[i] \in Seats /\ group[i] \in Groups
    BY <1>2, ShapeParts DEF AzSubmits, OthersTyped
  <2>3. Fits(Doing("mark", i, seat[i], group[i], None))
    BY <2>2 DEF Fits, Place, Doing, AzSteps
  <2> QED
    BY <1>2, <2>1, <2>3, MovesTo DEF AzSubmits
<1>3. ASSUME NEW r \in Requests, AzClaims(r) PROVE AzShape'
  <2>1. Fits(req[r])
    BY DEF AzShape
  <2>2. OthersTyped'
    BY <1>3, <2>1, ShapeParts DEF AzClaims, OthersTyped, azPool, azCloud, Fits
  <2> QED
    BY <1>3, <2>1, <2>2, GoesOn, Ends DEF AzClaims, AzSteps
<1>4. ASSUME NEW r \in Requests, TakesFree(r) PROVE AzShape'
  <2>1. Fits(req[r])
    BY DEF AzShape
  <2>2. PICK s \in Seats : /\ holder[s] = None
                          /\ holder' = [holder EXCEPT ![s] = req[r].inv]
                          /\ Now(r, Doing("rotate", req[r].inv, s, None, None))
    BY <1>4 DEF TakesFree
  <2>3. Fits(Doing("rotate", req[r].inv, s, None, None))
    BY <1>4, <2>1 DEF TakesFree, Fits, Place, Doing, AzSteps
  <2>4. OthersTyped'
    BY <1>4, <2>1, <2>2, ShapeParts, NoneIsNobody DEF TakesFree, OthersTyped, azInvites, azCloud, Fits
  <2> QED
    BY <2>2, <2>3, <2>4, MovesTo
<1>5. ASSUME NEW r \in Requests, TakesOver(r) PROVE AzShape'
  <2>1. Fits(req[r])
    BY DEF AzShape
  <2>2. PICK s \in aged : /\ holder' = [holder EXCEPT ![s] = req[r].inv]
                         /\ aged' = aged \ {s}
                         /\ Now(r, Doing("evict", req[r].inv, s, None, holder[s]))
    BY <1>5 DEF TakesOver
  <2>3. s \in Seats /\ holder[s] \in Invites /\ req[r].inv \in Invites
    BY <1>5, <2>1, <2>2, ShapeParts DEF TakesOver, OthersTyped, Fits
  <2>4. Fits(Doing("evict", req[r].inv, s, None, holder[s]))
    BY <2>3 DEF Fits, Place, Doing, AzSteps
  <2>5. OthersTyped'
    BY <1>5, <2>2, <2>3, ShapeParts, NoneIsNobody DEF TakesOver, OthersTyped, azInvites, azCloud
  <2> QED
    BY <2>2, <2>4, <2>5, MovesTo
<1>6. ASSUME NEW r \in Requests, FindsNoSeat(r) PROVE AzShape'
  <2>1. OthersTyped'
    BY <1>6, ShapeParts DEF FindsNoSeat, OthersTyped, azInvites, azPool, azCloud
  <2>2. Fits(req[r])
    BY DEF AzShape
  <2> QED
    BY <1>6, <2>1, <2>2, GoesOn DEF FindsNoSeat, AzSteps
<1>7. ASSUME NEW r \in Requests, Evicts(r) PROVE AzShape'
  <2>1. Fits(req[r])
    BY DEF AzShape
  <2>2. req[r].from \in Invites /\ req[r].seat \in Seats /\ req[r].step # "rest"
    BY <1>7, <2>1 DEF Evicts, Fits
  <2>3. group[req[r].from] \in Groups \cup {None}
    BY <2>2, ShapeParts DEF OthersTyped
  <2>4. group[req[r].from] # None => TearFits(Tear("delete", group[req[r].from], None, None))
    BY <2>3 DEF TearFits, Tear
  <2>5. \A t \in tears' : TearFits(t)
    BY <1>7, <2>4, ShapeParts DEF Evicts, OthersTyped
  <2>6. faults' \in FaultList
    BY <1>7, FaultTyped, ShapeParts DEF Evicts, OthersTyped, FaultKinds
  <2>7. OthersTyped'
    BY <1>7, <2>5, <2>6, ShapeParts DEF Evicts, OthersTyped, azInvites, azPool, azCloud
  <2>8. Then(r, "reset") \/ Then(r, "rotate")
    BY <1>7 DEF Evicts
  <2> QED
    BY <2>2, <2>7, <2>8, GoesOn DEF AzSteps
<1>8. ASSUME NEW r \in Requests, ResetsEvicted(r) PROVE AzShape'
  <2>1. Fits(req[r])
    BY DEF AzShape
  <2>2. req[r].from \in Invites /\ req[r].seat \in Seats /\ req[r].step # "rest"
    BY <1>8, <2>1 DEF ResetsEvicted, Fits
  <2>3. faults' \in FaultList
    BY <1>8, OvertakesTyped, FaultTyped, ShapeParts DEF ResetsEvicted, FaultKinds
  <2>4. OthersTyped'
    BY <1>8, <2>2, <2>3, ResetTyped, ShapeParts DEF ResetsEvicted, OthersTyped, azInvites,
       azPool, azCloud
  <2> QED
    BY <1>8, <2>2, <2>4, GoesOn DEF ResetsEvicted, AzSteps
<1>9. ASSUME NEW r \in Requests, Rotates(r) PROVE AzShape'
  <2>1. Fits(req[r])
    BY DEF AzShape
  <2>2. OthersTyped'
    BY <1>9, <2>1, ShapeParts DEF Rotates, OthersTyped, azInvites, azCloud, Fits
  <2> QED
    BY <1>9, <2>1, <2>2, GoesOn DEF Rotates, Fits, AzSteps
<1>10. ASSUME NEW r \in Requests, RotateFails(r) PROVE AzShape'
  <2>1. Fits(req[r])
    BY DEF AzShape
  <2>2. req[r].seat \in Seats /\ req[r].step # "rest"
    BY <1>10, <2>1 DEF RotateFails, Fits
  <2>3. faults' \in FaultList
    BY <1>10, <2>2, GivesBackTyped DEF RotateFails, FaultKinds
  <2>4. /\ holder' \in [Seats -> Invites \cup {None}]
        /\ aged' \in SUBSET {x \in Seats : holder'[x] # None}
    BY <1>10, <2>2, GivesBackTyped DEF RotateFails, FaultKinds
  <2>5. knows' \in [Seats -> SUBSET Invites]
    BY <1>10, <2>1, ShapeParts DEF RotateFails, OthersTyped
  <2>6. OthersTyped'
    BY <1>10, <2>3, <2>4, <2>5, ShapeParts DEF RotateFails, OthersTyped, azInvites, azCloud
  <2> QED
    BY <1>10, <2>1, <2>2, <2>6, GoesOn DEF RotateFails, AzSteps
<1>11. ASSUME NEW r \in Requests, LeasesGroup(r) PROVE AzShape'
  <2>1. Fits(req[r])
    BY DEF AzShape
  <2>2. PICK g \in Groups : /\ owner[g] = None
                           /\ owner' = [owner EXCEPT ![g] = req[r].inv]
                           /\ Now(r, [req[r] EXCEPT !.step = "grant", !.grp = g])
    BY <1>11 DEF LeasesGroup
  <2>3. Fits([req[r] EXCEPT !.step = "grant", !.grp = g])
    BY <1>11, <2>1 DEF LeasesGroup, Fits, Place, AzSteps
  <2>4. OthersTyped'
    BY <1>11, <2>1, <2>2, ShapeParts DEF LeasesGroup, OthersTyped, azInvites, azPool, Fits
  <2> QED
    BY <2>2, <2>3, <2>4, MovesTo
<1>12. ASSUME NEW r \in Requests, LeaseFails(r) PROVE AzShape'
  <2>1. Fits(req[r])
    BY DEF AzShape
  <2>2. req[r].seat \in Seats /\ req[r].step # "rest"
    BY <1>12, <2>1 DEF LeaseFails, Fits
  <2>3. faults' \in FaultList
    BY <1>12, <2>2, GivesBackTyped DEF LeaseFails, FaultKinds
  <2>4. /\ holder' \in [Seats -> Invites \cup {None}]
        /\ aged' \in SUBSET {x \in Seats : holder'[x] # None}
    BY <1>12, <2>2, GivesBackTyped DEF LeaseFails, FaultKinds
  <2>5. owner' \in [Groups -> Invites \cup {None}]
    BY <1>12, <2>1, ShapeParts DEF LeaseFails, OthersTyped, Fits
  <2>6. OthersTyped'
    BY <1>12, <2>3, <2>4, <2>5, ShapeParts DEF LeaseFails, OthersTyped, azInvites, azCloud
  <2> QED
    BY <1>12, <2>1, <2>2, <2>6, GoesOn DEF LeaseFails, AzSteps
<1>13. ASSUME NEW r \in Requests, Grants(r) PROVE AzShape'
  <2>1. Fits(req[r])
    BY DEF AzShape
  <2>2. OthersTyped'
    BY <1>13, <2>1, ShapeParts DEF Grants, OthersTyped, azInvites, azPool, Fits
  <2> QED
    BY <1>13, <2>1, <2>2, GoesOn DEF Grants, Fits, AzSteps
<1>14. ASSUME NEW r \in Requests, GrantFails(r) PROVE AzShape'
  <2>1. Fits(req[r])
    BY DEF AzShape
  <2>2. req[r].seat \in Seats /\ req[r].step # "rest"
    BY <1>14, <2>1 DEF GrantFails, Fits
  <2>3. faults' \in FaultList
    BY <1>14, <2>2, GivesBackTyped DEF GrantFails, FaultKinds
  <2>4. /\ holder' \in [Seats -> Invites \cup {None}]
        /\ aged' \in SUBSET {x \in Seats : holder'[x] # None}
    BY <1>14, <2>2, GivesBackTyped DEF GrantFails, FaultKinds
  <2>5. granted' \in [Groups -> Seats \cup {None}]
    BY <1>14, <2>1, ShapeParts DEF GrantFails, OthersTyped, Fits
  <2>6. OthersTyped'
    BY <1>14, <2>3, <2>4, <2>5, ShapeParts DEF GrantFails, OthersTyped, azInvites
  <2> QED
    BY <1>14, <2>1, <2>2, <2>6, GoesOn DEF GrantFails, AzSteps, Fits
<1>15. ASSUME NEW r \in Requests, DropsGroup(r) PROVE AzShape'
  <2>1. Fits(req[r])
    BY DEF AzShape
  <2>2. TearFits(Tear("delete", req[r].grp, None, None))
    BY <1>15, <2>1 DEF DropsGroup, Fits, TearFits, Tear, Place
  <2>3. \A t \in tears' : TearFits(t)
    BY <1>15, <2>2, ShapeParts DEF DropsGroup, OthersTyped
  <2>4. faults' \in FaultList
    BY <1>15, FaultTyped, ShapeParts DEF DropsGroup, OthersTyped, FaultKinds
  <2>5. OthersTyped'
    BY <1>15, <2>1, <2>3, <2>4, ShapeParts DEF DropsGroup, OthersTyped, Unlock, azInvites, azPool, azCloud
  <2> QED
    BY <1>15, <2>1, <2>5, GoesOn DEF DropsGroup, AzSteps
<1>16. ASSUME NEW r \in Requests, AzUnclaims(r) PROVE AzShape'
  <2>1. OthersTyped'
    BY <1>16, ShapeParts DEF AzUnclaims, OthersTyped, Unlock, azPool, azCloud
  <2> QED
    BY <1>16, <2>1, Ends DEF AzUnclaims
<1>17. ASSUME NEW r \in Requests, Persists(r) PROVE AzShape'
  <2>1. Fits(req[r])
    BY DEF AzShape
  <2>2. req[r].inv \in Invites /\ req[r].grp \in Groups /\ req[r].seat \in Seats
    BY <1>17, <2>1 DEF Persists, Fits
  <2>3. OthersTyped'
    BY <1>17, <2>2, ShapeParts, AzureNone DEF Persists, OthersTyped, azPool, azCloud
  <2> QED
    BY <1>17, <2>2, <2>3, GoesOn DEF Persists, AzSteps
<1>18. ASSUME NEW r \in Requests, AzDispatches(r) PROVE AzShape'
  <2>1. Fits(req[r])
    BY DEF AzShape
  <2>2. deploys' \subseteq [inv : Invites, grp : Groups, seat : Seats]
    BY <1>18, <2>1, ShapeParts DEF AzDispatches, OthersTyped, Deploy, Fits
  <2>3. OthersTyped'
    BY <1>18, <2>2, ShapeParts DEF AzDispatches, OthersTyped, azInvites, azPool, azCloud
  <2> QED
    BY <1>18, <2>3, Ends DEF AzDispatches
<1>19. ASSUME NEW r \in Requests, PersistFails(r) PROVE AzShape'
  <2>1. Fits(req[r])
    BY DEF AzShape
  <2>2. TearFits(Tear("delete", req[r].grp, req[r].seat, req[r].inv))
    BY <1>19, <2>1 DEF PersistFails, Fits, TearFits, Tear, Place
  <2>3. \A t \in tears' : TearFits(t)
    BY <1>19, <2>2, ShapeParts DEF PersistFails, OthersTyped
  <2>4. faults' \in FaultList
    BY <1>19, FaultTyped, ShapeParts DEF PersistFails, FaultKinds
  <2>5. OthersTyped'
    BY <1>19, <2>1, <2>3, <2>4, ShapeParts
    DEF PersistFails, OthersTyped, Unlock, azPool, azCloud
  <2> QED
    BY <1>19, <2>1, <2>5, Ends DEF PersistFails
<1>20. ASSUME NEW r \in Requests, AzMarks(r) PROVE AzShape'
  <2>1. Fits(req[r])
    BY DEF AzShape
  <2>2. faults' \in FaultList
    BY <1>20, FaultTyped, ShapeParts DEF AzMarks, OthersTyped, FaultKinds
  <2>3. OthersTyped'
    BY <1>20, <2>1, <2>2, ShapeParts DEF AzMarks, OthersTyped, azPool, azCloud
  <2> QED
    BY <1>20, <2>1, <2>3, GoesOn DEF AzMarks, Fits, AzSteps
<1>21. ASSUME NEW r \in Requests, AzFinishes(r) PROVE AzShape'
  <2>1. Fits(req[r])
    BY DEF AzShape
  <2>2. TearFits(Tear("delete", req[r].grp, req[r].seat, req[r].inv))
    BY <1>21, <2>1 DEF AzFinishes, Fits, TearFits, Tear, Place
  <2>3. \A t \in tears' : TearFits(t)
    BY <1>21, <2>2, ShapeParts DEF AzFinishes, OthersTyped
  <2>4. faults' \in FaultList
    BY <1>21, FaultTyped, ShapeParts DEF AzFinishes, OthersTyped, FaultKinds
  <2>5. OthersTyped'
    BY <1>21, <2>1, <2>3, <2>4, ShapeParts DEF AzFinishes, OthersTyped, Unlock, azInvites, azPool, azCloud
  <2> QED
    BY <1>21, <2>1, <2>5, Ends DEF AzFinishes
<1>22. ASSUME NEW r \in Requests, AzRequestDies(r) PROVE AzShape'
  <2>1. OthersTyped'
    BY <1>22, FaultTyped, ShapeParts DEF AzRequestDies, OthersTyped, FaultKinds, azInvites, azPool,
       azCloud
  <2> QED
    BY <1>22, <2>1, Ends DEF AzRequestDies
<1>23. ASSUME NEW i \in Invites, Reconnects(i) PROVE AzShape'
  <2>1. seat[i] \in Seats
    BY <1>23, ShapeParts DEF Reconnects, InRoom, OthersTyped
  <2>2. OthersTyped'
    BY <1>23, <2>1, ShapeParts DEF Reconnects, OthersTyped, azInvites, azCloud
  <2> QED
    BY <1>23, <2>2, NoneMoves DEF Reconnects
<1>24. ASSUME NEW i \in Invites, AzRevokes(i) PROVE AzShape'
  <2>1. OthersTyped'
    BY <1>24, ShapeParts DEF AzRevokes, OthersTyped, azPool, azCloud
  <2> QED
    BY <1>24, <2>1, NoneMoves DEF AzRevokes
<1>25. ASSUME NEW i \in Invites, LockAges(i) PROVE AzShape'
  <2>1. OthersTyped'
    BY <1>25, ShapeParts DEF LockAges, OthersTyped, azPool, azCloud
  <2> QED
    BY <1>25, <2>1, NoneMoves DEF LockAges
<1>26. ASSUME NEW s \in Seats, SeatAges(s) PROVE AzShape'
  <2>1. OthersTyped'
    BY <1>26, ShapeParts DEF SeatAges, OthersTyped, azInvites, azCloud
  <2> QED
    BY <1>26, <2>1, NoneMoves DEF SeatAges
<1>27. ASSUME NEW d \in deploys, AzDeploys(d) PROVE AzShape'
  <2>1. OthersTyped'
    BY <1>27, ShapeParts DEF AzDeploys, OthersTyped, azInvites, azPool, azCloud
  <2> QED
    BY <1>27, <2>1, NoneMoves DEF AzDeploys
<1>28. ASSUME NEW d \in deploys, AzDeployFails(d) PROVE AzShape'
  <2>1. TearFits(Tear("delete", d.grp, d.seat, d.inv))
    BY ShapeParts DEF OthersTyped, TearFits, Tear
  <2>2. \A t \in tears' : TearFits(t)
    BY <1>28, <2>1, ShapeParts DEF AzDeployFails, OthersTyped
  <2>3. faults' \in FaultList
    BY <1>28, FaultTyped, ShapeParts DEF AzDeployFails, OthersTyped, FaultKinds
  <2>4. OthersTyped'
    BY <1>28, <2>2, <2>3, ShapeParts DEF AzDeployFails, OthersTyped, azInvites, azPool, azCloud
  <2> QED
    BY <1>28, <2>4, NoneMoves DEF AzDeployFails
<1>29. ASSUME NEW t \in tears, Deletes(t) PROVE AzShape'
  <2>1. TearFits(t) /\ t.grp \in Groups
    BY ShapeParts DEF OthersTyped, TearFits
  <2>2. t.inv # None => TearFits(Tear("release", t.grp, t.seat, t.inv))
    BY <2>1 DEF TearFits, Tear
  <2>3. \A u \in tears' : TearFits(u)
    BY <1>29, <2>2, ShapeParts DEF Deletes, OthersTyped
  <2>4. OthersTyped'
    BY <1>29, <2>1, <2>3, ShapeParts DEF Deletes, OthersTyped, azInvites, azPool
  <2> QED
    BY <1>29, <2>4, NoneMoves DEF Deletes
<1>30. ASSUME NEW t \in tears, Releases(t) PROVE AzShape'
  <2>1. TearFits(t)
    BY ShapeParts DEF OthersTyped
  <2>2. t.seat \in Seats /\ t.inv # None
    BY <1>30, <2>1 DEF Releases, TearFits
  <2>3. TearFits([t EXCEPT !.step = "reset"])
    BY <2>1, <2>2 DEF TearFits
  <2>4. \A u \in tears' : TearFits(u)
    BY <1>30, <2>3, ShapeParts DEF Releases, OthersTyped
  <2>5. /\ holder' \in [Seats -> Invites \cup {None}]
        /\ aged' \in SUBSET {x \in Seats : holder'[x] # None}
    BY <1>30, <2>2, ReleaseTyped DEF Releases
  <2>6. OthersTyped'
    BY <1>30, <2>4, <2>5, ShapeParts DEF Releases, OthersTyped, azInvites, azCloud
  <2> QED
    BY <1>30, <2>6, NoneMoves DEF Releases
<1>31. ASSUME NEW t \in tears, Resets(t) PROVE AzShape'
  <2>1. TearFits(t)
    BY ShapeParts DEF OthersTyped
  <2>2. t.inv \in Invites
    BY <1>31, <2>1 DEF Resets, TearFits
  <2>3. OthersTyped'
    BY <1>31, <2>2, OvertakesTyped, ResetTyped, ShapeParts DEF Resets, OthersTyped, azPool, azCloud
  <2> QED
    BY <1>31, <2>3, NoneMoves DEF Resets
<1>32. ASSUME NEW t \in tears, TearFails(t) PROVE AzShape'
  <2>1. TearFits(t)
    BY ShapeParts DEF OthersTyped
  <2>2. t.step = "release" => TearFits([t EXCEPT !.step = "reset"])
    BY <2>1 DEF TearFits
  <2>3. \A u \in tears' : TearFits(u)
    BY <1>32, <2>2, ShapeParts DEF TearFails, OthersTyped
  <2>4. faults' \in FaultList
    BY <1>32, FaultTyped DEF TearFails, FaultKinds
  <2>5. OthersTyped'
    BY <1>32, <2>3, <2>4, ShapeParts DEF TearFails, OthersTyped, azInvites, azPool, azCloud
  <2> QED
    BY <1>32, <2>5, NoneMoves DEF TearFails
<1>33. CASE UNCHANGED azVars
  BY <1>33 DEF azVars, azInvites, azPool, azCloud, AzShape, AzTypeOK
<1> QED
  BY <1>1, <1>2, <1>3, <1>4, <1>5, <1>6, <1>7, <1>8, <1>9, <1>10, <1>11, <1>12,
     <1>13, <1>14, <1>15, <1>16, <1>17, <1>18, <1>19, <1>20, <1>21, <1>22, <1>23, <1>24,
     <1>25, <1>26, <1>27, <1>28, <1>29, <1>30, <1>31, <1>32, <1>33
  DEF AzNext, AzArrives, AzProceeds, AzWorker

\* Rows, seats, groups, events and requests keep their shape, whatever fails.
THEOREM SeatsTyped == AzSpec => []AzTypeOK
<1>1. AzInit => AzShape
  BY RestFits, FaultBound DEF AzInit, AzShape, AzTypeOK, FaultKinds, Rest, Doing, AzSteps
<1>2. AzShape /\ [AzNext]_azVars => AzShape'
  BY ShapeStep
<1>3. AzShape => AzTypeOK
  BY DEF AzShape
<1> QED
  BY <1>1, <1>2, <1>3, PTL DEF AzSpec

-----------------------------------------------------------------------------
(* Who has a seat in hand                                                    *)

\* From the claim on until the invite is written; with a seat from Seated on.
Seated   == {"evict", "reset", "rotate", "lease", "grant", "persist"}
Starting == Seated \cup {"seat", "drop", "unclaim"}

\* A start with a seat of its own; a teardown that has still to release one.
InHand(r)   == req[r].step \in Seated \cup {"dispatch"}
Clearing(t) == t.inv # None /\ t.step # "reset"

\* An invite that is closed with its room written is never given back.
Final(i) == phase[i] = "closed" /\ group[i] # None

\* Nobody takes this seat over.
Tenant(i, s) == holder[s] = i /\ s \notin aged

\* A claim excludes other starts, and the invite has no room while it is in flight.
ClaimsExclude ==
  /\ \A r \in Requests : req[r].step \in Starting =>
       req[r].inv \in locked /\ group[req[r].inv] = None
  /\ \A r, q \in Requests :
       req[r].step \in Starting /\ req[q].step \in Starting /\ req[r].inv = req[q].inv => r = q
  /\ \A i \in Invites : group[i] = None => phase[i] # "started"

\* Whoever has written a room, or read one, finds it in the invite.
SessionsStand ==
  \A r \in Requests :
    /\ req[r].step \in {"dispatch", "mark", "finish"} =>
         group[req[r].inv] = req[r].grp /\ seat[req[r].inv] = req[r].seat
    /\ req[r].step = "finish" => phase[req[r].inv] = "closed"

\* A seat that an invite works with is in one hand, from the start over the deploy to the
\* teardown of either, and meanwhile cannot be taken over; the hands of a final invite do
\* not count, for it takes no seat any more.
StartsHold ==
  \A r \in Requests : InHand(r) =>
    LET i == req[r].inv  s == req[r].seat IN
    \/ Final(i)
    \/ /\ Tenant(i, s)
       /\ \A q \in Requests : InHand(q) /\ req[q].inv = i /\ req[q].seat = s => q = r
       /\ \A d \in deploys : d.inv = i => d.seat # s
       /\ \A t \in tears : Clearing(t) /\ t.inv = i => t.seat # s
DeploysHold ==
  \A d \in deploys :
    \/ Final(d.inv)
    \/ /\ Tenant(d.inv, d.seat)
       /\ seat[d.inv] = d.seat => group[d.inv] = d.grp
       /\ \A e \in deploys : e.inv = d.inv /\ e.seat = d.seat => e = d
       /\ \A t \in tears : Clearing(t) /\ t.inv = d.inv => t.seat # d.seat
TearsHold ==
  \A t \in tears :
    /\ Clearing(t) =>
         \/ Final(t.inv)
         \/ /\ Tenant(t.inv, t.seat)
            /\ seat[t.inv] = t.seat => group[t.inv] = t.grp
            /\ \A u \in tears : Clearing(u) /\ u.inv = t.inv /\ u.seat = t.seat => u = t
    /\ t.step # "delete" => t.grp \in gone

\* The secret of a seat is known to the start that has changed it, and to the invite that
\* has it.
SecretsHeld ==
  /\ \A r \in Requests : req[r].step \in {"lease", "grant", "persist"} =>
       knows[req[r].seat] \subseteq {req[r].inv}
  /\ \A i \in Invites : group[i] # None /\ holder[seat[i]] = i => knows[seat[i]] \subseteq {i}

TenancyInv == /\ ClaimsExclude /\ SessionsStand /\ StartsHold /\ DeploysHold /\ TearsHold
              /\ SecretsHeld

\* What a request has after a step.
LEMMA ThenMoves ==
  ASSUME AzShape, NEW r \in Requests, NEW st \in AzSteps, Then(r, st)
  PROVE  /\ \A q \in Requests \ {r} : req'[q] = req[q]
         /\ req'[r].step = st /\ req'[r].inv = req[r].inv /\ req'[r].seat = req[r].seat
         /\ req'[r].grp = req[r].grp /\ req'[r].from = req[r].from
<1>1. req \in [Requests -> Place]
  BY ShapeParts
<1>2. req' = [req EXCEPT ![r] = [req[r] EXCEPT !.step = st]]
  BY DEF Then, Now
<1> QED
  BY <1>1, <1>2 DEF Place

LEMMA NowMoves ==
  ASSUME AzShape, NEW r \in Requests, NEW d, Now(r, d)
  PROVE  req'[r] = d /\ \A q \in Requests \ {r} : req'[q] = req[q]
BY ShapeParts DEF Now

LEMMA FieldsSet ==
  ASSUME NEW d \in Place, NEW st \in AzSteps, NEW g \in Groups
  PROVE  LET e == [d EXCEPT !.step = st, !.grp = g] IN
         e.step = st /\ e.grp = g /\ e.inv = d.inv /\ e.seat = d.seat /\ e.from = d.from
BY DEF Place

\* What has not gone wrong after a step does not go wrong in it.
LEMMA FaultCounts ==
  ASSUME AzShape, NEW kind \in FaultKinds, NEW kinds, Fault(kind), ~Had(kinds)'
  PROVE  kind \notin kinds /\ ~Had(kinds)
<1>1. faults \in Seq(FaultKinds) /\ faults' = Append(faults, kind)
  BY DEF AzShape, AzTypeOK, Fault
<1>2. /\ Len(faults') = Len(faults) + 1 /\ faults'[Len(faults) + 1] = kind
      /\ Len(faults) \in Nat /\ \A n \in 1..Len(faults) : faults'[n] = faults[n]
  BY <1>1
<1> QED
  BY <1>2 DEF Had

\* A seat that a failing start does not get rid of is stranded.
LEMMA GivesBackOnce ==
  ASSUME AzShape, NEW r \in Requests, NEW kind \in FaultKinds, NEW kinds,
         "release" \in kinds, ~Had(kinds)', GivesBack(r, kind)
  PROVE  Release(req[r].seat, req[r].inv) /\ kind \notin kinds
BY FaultCounts DEF GivesBack, FaultKinds

\* And a seat that is not released stays whose it is.
LEMMA GivesBackOrNot ==
  ASSUME NEW r, NEW kind, GivesBack(r, kind)
  PROVE  Release(req[r].seat, req[r].inv) \/ (holder' = holder /\ aged' = aged)
BY DEF GivesBack

\* A reset that overtakes nobody.
LEMMA OvertakesNone ==
  ASSUME AzShape, NEW i, Overtakes(i), NEW kinds, "overtaken" \in kinds, ~Had(kinds)'
  PROVE  phase[i] = "started" => ~Attended(i)
BY FaultCounts DEF Overtakes, FaultKinds

\* Each action keeps who has what, unless it derails a request.
LEMMA FindsNoSeatTenancy ==
  ASSUME AzShape, TenancyInv, ~Had(Derailing)', NEW r \in Requests, FindsNoSeat(r)
  PROVE  TenancyInv'
<1> USE NoneIsNobody, AzureNone, ShapeParts
<1>1. /\ \A q \in Requests \ {r} : req'[q] = req[q]
      /\ req'[r].step = "unclaim" /\ req'[r].inv = req[r].inv /\ req'[r].seat = req[r].seat
      /\ req'[r].grp = req[r].grp /\ req'[r].from = req[r].from
      /\ req[r].step = "seat" /\ Fits(req[r])
  BY ThenMoves DEF FindsNoSeat, AzSteps
<1>2. ClaimsExclude'
  BY <1>1 DEF FindsNoSeat, TenancyInv, ClaimsExclude, Starting, azInvites
<1>3. SessionsStand'
  BY <1>1 DEF FindsNoSeat, TenancyInv, SessionsStand, azInvites
<1>4. StartsHold'
  BY <1>1
  DEF FindsNoSeat, TenancyInv, StartsHold, InHand, Final, Tenant, Seated, azInvites, azPool
<1>5. DeploysHold'
  BY <1>1 DEF FindsNoSeat, TenancyInv, DeploysHold, Final, Tenant, azInvites, azPool
<1>6. TearsHold'
  BY <1>1 DEF FindsNoSeat, TenancyInv, TearsHold, Final, Tenant, azInvites, azPool, azCloud
<1>7. SecretsHeld'
  BY <1>1 DEF FindsNoSeat, TenancyInv, SecretsHeld, azInvites, azPool
<1> QED
  BY <1>2, <1>3, <1>4, <1>5, <1>6, <1>7 DEF TenancyInv

LEMMA AzStartsTenancy ==
  ASSUME AzShape, TenancyInv, ~Had(Derailing)', NEW r \in Requests, NEW i \in Invites,
     AzStarts(r, i)
  PROVE  TenancyInv'
<1> USE NoneIsNobody, AzureNone, ShapeParts
<1>1. /\ \A q \in Requests \ {r} : req'[q] = req[q]
      /\ req'[r].step = "claim" /\ req'[r].inv = i
      /\ req[r].step = "rest"
  BY NowMoves DEF AzStarts, Doing, Rest
<1>2. ClaimsExclude'
  BY <1>1 DEF AzStarts, TenancyInv, ClaimsExclude, Starting, Seated, azInvites
<1>3. SessionsStand'
  BY <1>1 DEF AzStarts, TenancyInv, SessionsStand, azInvites
<1>4. StartsHold'
  BY <1>1
  DEF AzStarts, TenancyInv, StartsHold, InHand, Final, Tenant, Seated, azInvites, azPool
<1>5. DeploysHold'
  BY <1>1 DEF AzStarts, TenancyInv, DeploysHold, Final, Tenant, azInvites, azPool
<1>6. TearsHold'
  BY <1>1 DEF AzStarts, TenancyInv, TearsHold, Final, Tenant, azInvites, azPool, azCloud
<1>7. SecretsHeld'
  BY <1>1 DEF AzStarts, TenancyInv, SecretsHeld, azInvites, azPool
<1> QED
  BY <1>2, <1>3, <1>4, <1>5, <1>6, <1>7 DEF TenancyInv

LEMMA AzClaimsTenancy ==
  ASSUME AzShape, TenancyInv, ~Had(Derailing)', NEW r \in Requests, AzClaims(r)
  PROVE  TenancyInv'
<1> USE NoneIsNobody, AzureNone, ShapeParts
<1>1. /\ \A q \in Requests \ {r} : req'[q] = req[q]
      /\ req[r].step = "claim" /\ req[r].inv \in Invites
  BY ThenMoves, NowMoves DEF AzClaims, AzSteps, Replies, Fits
<1>2. \/ /\ group[req[r].inv] = None /\ phase[req[r].inv] = "booked" /\ req[r].inv \notin locked
         /\ locked' = locked \cup {req[r].inv}
         /\ req'[r].step = "seat" /\ req'[r].inv = req[r].inv
      \/ UNCHANGED locked /\ req'[r].step = "rest"
  BY ThenMoves, NowMoves DEF AzClaims, AzSteps, Replies, Rest, Doing
<1>3. ClaimsExclude'
  BY <1>1, <1>2 DEF AzClaims, TenancyInv, ClaimsExclude, Starting, Seated
<1>4. SessionsStand'
  BY <1>1, <1>2 DEF AzClaims, TenancyInv, SessionsStand
<1>5. StartsHold'
  BY <1>1, <1>2 DEF AzClaims, TenancyInv, StartsHold, InHand, Final, Tenant, Seated, azPool
<1>6. DeploysHold'
  BY <1>1, <1>2 DEF AzClaims, TenancyInv, DeploysHold, Final, Tenant, azPool
<1>7. TearsHold'
  BY <1>1, <1>2 DEF AzClaims, TenancyInv, TearsHold, Final, Tenant, azPool, azCloud
<1>8. SecretsHeld'
  BY <1>1, <1>2 DEF AzClaims, TenancyInv, SecretsHeld, azPool
<1> QED
  BY <1>3, <1>4, <1>5, <1>6, <1>7, <1>8 DEF TenancyInv

LEMMA TakesFreeTenancy ==
  ASSUME AzShape, TenancyInv, ~Had(Derailing)', NEW r \in Requests, TakesFree(r)
  PROVE  TenancyInv'
<1> USE NoneIsNobody, AzureNone, ShapeParts
<1>1. PICK s \in Seats : /\ holder[s] = None
                          /\ holder' = [holder EXCEPT ![s] = req[r].inv]
                          /\ Now(r, Doing("rotate", req[r].inv, s, None, None))
  BY DEF TakesFree
<1>2. /\ \A q \in Requests \ {r} : req'[q] = req[q]
      /\ req'[r].step = "rotate" /\ req'[r].inv = req[r].inv /\ req'[r].seat = s
      /\ req[r].step = "seat" /\ req[r].inv \in Invites /\ s \notin aged
  BY <1>1, NowMoves DEF TakesFree, Doing, Fits, OthersTyped
<1>3. ClaimsExclude'
  BY <1>1, <1>2 DEF TakesFree, TenancyInv, ClaimsExclude, Starting, azInvites
<1>4. SessionsStand'
  BY <1>1, <1>2 DEF TakesFree, TenancyInv, SessionsStand, azInvites
<1>5. StartsHold'
  BY <1>1, <1>2
  DEF TakesFree, TenancyInv, StartsHold, InHand, Final, Tenant, ClaimsExclude, Starting,
     DeploysHold, TearsHold, azInvites, OthersTyped, Fits
<1>6. DeploysHold'
  BY <1>1, <1>2 DEF TakesFree, TenancyInv, DeploysHold, Final, Tenant, azInvites, OthersTyped
<1>7. TearsHold'
  BY <1>1, <1>2
  DEF TakesFree, TenancyInv, TearsHold, Clearing, Final, Tenant, azInvites, azCloud
<1>8. SecretsHeld'
  BY <1>1, <1>2 DEF TakesFree, TenancyInv, SecretsHeld, ClaimsExclude, Starting, azInvites
<1> QED
  BY <1>3, <1>4, <1>5, <1>6, <1>7, <1>8 DEF TenancyInv

LEMMA TakesOverTenancy ==
  ASSUME AzShape, TenancyInv, ~Had(Derailing)', NEW r \in Requests, TakesOver(r)
  PROVE  TenancyInv'
<1> USE NoneIsNobody, AzureNone, ShapeParts
<1>1. PICK s \in aged : /\ holder' = [holder EXCEPT ![s] = req[r].inv]
                         /\ aged' = aged \ {s}
                         /\ Now(r, Doing("evict", req[r].inv, s, None, holder[s]))
  BY DEF TakesOver
<1>2. /\ \A q \in Requests \ {r} : req'[q] = req[q]
      /\ req'[r].step = "evict" /\ req'[r].inv = req[r].inv /\ req'[r].seat = s
      /\ req'[r].from = holder[s]
      /\ req[r].step = "seat" /\ req[r].inv \in Invites /\ s \in Seats /\ holder[s] \in Invites
  BY <1>1, NowMoves DEF TakesOver, Doing, Fits, OthersTyped
<1>3. ClaimsExclude'
  BY <1>1, <1>2 DEF TakesOver, TenancyInv, ClaimsExclude, Starting, azInvites
<1>4. SessionsStand'
  BY <1>1, <1>2 DEF TakesOver, TenancyInv, SessionsStand, azInvites
<1>5. StartsHold'
  BY <1>1, <1>2
  DEF TakesOver, TenancyInv, StartsHold, InHand, Final, Tenant, DeploysHold, TearsHold,
     azInvites, OthersTyped
<1>6. DeploysHold'
  BY <1>1, <1>2 DEF TakesOver, TenancyInv, DeploysHold, Final, Tenant, azInvites
<1>7. TearsHold'
  BY <1>1, <1>2 DEF TakesOver, TenancyInv, TearsHold, Final, Tenant, azInvites, azCloud
<1>8. SecretsHeld'
  BY <1>1, <1>2 DEF TakesOver, TenancyInv, SecretsHeld, ClaimsExclude, Starting, azInvites
<1> QED
  BY <1>3, <1>4, <1>5, <1>6, <1>7, <1>8 DEF TenancyInv

LEMMA EvictsTenancy ==
  ASSUME AzShape, TenancyInv, ~Had(Derailing)', NEW r \in Requests, Evicts(r)
  PROVE  TenancyInv'
<1> USE NoneIsNobody, AzureNone, ShapeParts
<1>1. /\ \A q \in Requests \ {r} : req'[q] = req[q]
      /\ req'[r].step \in {"reset", "rotate"} /\ req'[r].inv = req[r].inv
      /\ req'[r].seat = req[r].seat
      /\ req[r].step = "evict" /\ Fits(req[r])
  BY ThenMoves DEF Evicts, AzSteps
<1>2. \A t \in tears' : t \in tears \/ (t.inv = None /\ t.step = "delete")
  BY DEF Evicts, Tear
<1>3. ClaimsExclude'
  BY <1>1, <1>2 DEF Evicts, TenancyInv, ClaimsExclude, Starting, Seated, azInvites
<1>4. SessionsStand'
  BY <1>1, <1>2 DEF Evicts, TenancyInv, SessionsStand, azInvites
<1>5. StartsHold'
  BY <1>1, <1>2
  DEF Evicts, TenancyInv, StartsHold, InHand, Clearing, Final, Tenant, Seated, azInvites,
     azPool
<1>6. DeploysHold'
  BY <1>1, <1>2
  DEF Evicts, TenancyInv, DeploysHold, Clearing, Final, Tenant, azInvites, azPool
<1>7. TearsHold'
  BY <1>1, <1>2
  DEF Evicts, TenancyInv, TearsHold, Clearing, Final, Tenant, azInvites, azPool, azCloud
<1>8. SecretsHeld'
  BY <1>1, <1>2 DEF Evicts, TenancyInv, SecretsHeld, azInvites, azPool
<1> QED
  BY <1>3, <1>4, <1>5, <1>6, <1>7, <1>8 DEF TenancyInv

LEMMA ResetsEvictedTenancy ==
  ASSUME AzShape, TenancyInv, ~Had(Derailing)', NEW r \in Requests, ResetsEvicted(r)
  PROVE  TenancyInv'
<1> USE NoneIsNobody, AzureNone, ShapeParts
<1>1. /\ \A q \in Requests \ {r} : req'[q] = req[q]
      /\ req'[r].step = "rotate" /\ req'[r].inv = req[r].inv /\ req'[r].seat = req[r].seat
      /\ req'[r].grp = req[r].grp /\ req'[r].from = req[r].from
      /\ req[r].step = "reset" /\ Fits(req[r])
  BY ThenMoves DEF ResetsEvicted, AzSteps
<1>2. \/ Reset(req[r].from) /\ (phase[req[r].from] = "started" => ~Attended(req[r].from))
      \/ UNCHANGED azInvites
  BY OvertakesNone DEF ResetsEvicted, Derailing
<1>3. req[r].from \in Invites
  BY <1>1 DEF Fits
<1>4. ClaimsExclude'
  BY <1>1, <1>2, <1>3
  DEF ResetsEvicted, TenancyInv, ClaimsExclude, Starting, Seated, Reset, azInvites,
     OthersTyped
<1>5. SessionsStand'
  BY <1>1, <1>2, <1>3
  DEF ResetsEvicted, TenancyInv, SessionsStand, Reset, Attended, azInvites, OthersTyped, Fits
<1>6. StartsHold'
  BY <1>1, <1>2, <1>3
  DEF ResetsEvicted, TenancyInv, StartsHold, InHand, Final, Tenant, Seated, Reset, azInvites,
     azPool, OthersTyped, Fits
<1>7. DeploysHold'
  BY <1>1, <1>2, <1>3
  DEF ResetsEvicted, TenancyInv, DeploysHold, Final, Tenant, Reset, azInvites, azPool,
     OthersTyped
<1>8. TearsHold'
  BY <1>1, <1>2, <1>3
  DEF ResetsEvicted, TenancyInv, TearsHold, Clearing, Final, Tenant, Reset, TearFits,
     azInvites, azPool, azCloud, OthersTyped
<1>9. SecretsHeld'
  BY <1>1, <1>2, <1>3
  DEF ResetsEvicted, TenancyInv, SecretsHeld, Reset, azInvites, azPool, OthersTyped, Fits
<1> QED
  BY <1>4, <1>5, <1>6, <1>7, <1>8, <1>9 DEF TenancyInv

LEMMA RotatesTenancy ==
  ASSUME AzShape, TenancyInv, ~Had(Derailing)', NEW r \in Requests, Rotates(r)
  PROVE  TenancyInv'
<1> USE NoneIsNobody, AzureNone, ShapeParts
<1>1. /\ \A q \in Requests \ {r} : req'[q] = req[q]
      /\ req'[r].step = "lease" /\ req'[r].inv = req[r].inv /\ req'[r].seat = req[r].seat
      /\ req'[r].grp = req[r].grp /\ req'[r].from = req[r].from
      /\ req[r].step = "rotate" /\ Fits(req[r])
  BY ThenMoves DEF Rotates, AzSteps
<1>2. ClaimsExclude'
  BY <1>1 DEF Rotates, TenancyInv, ClaimsExclude, Starting, Seated, azInvites
<1>3. SessionsStand'
  BY <1>1 DEF Rotates, TenancyInv, SessionsStand, azInvites
<1>4. StartsHold'
  BY <1>1 DEF Rotates, TenancyInv, StartsHold, InHand, Final, Tenant, Seated, azInvites
<1>5. DeploysHold'
  BY <1>1 DEF Rotates, TenancyInv, DeploysHold, Final, Tenant, azInvites
<1>6. TearsHold'
  BY <1>1 DEF Rotates, TenancyInv, TearsHold, Final, Tenant, azInvites, azCloud
<1>7. SecretsHeld'
  BY <1>1
  DEF Rotates, TenancyInv, SecretsHeld, ClaimsExclude, Starting, Seated, StartsHold, InHand,
     Final, Tenant, azInvites, OthersTyped, Fits
<1> QED
  BY <1>2, <1>3, <1>4, <1>5, <1>6, <1>7 DEF TenancyInv

LEMMA RotateFailsTenancy ==
  ASSUME AzShape, TenancyInv, ~Had(Derailing)', NEW r \in Requests, RotateFails(r)
  PROVE  TenancyInv'
<1> USE NoneIsNobody, AzureNone, ShapeParts
<1>0. \/ Release(req[r].seat, req[r].inv)
      \/ holder' = holder /\ aged' = aged
  BY GivesBackOrNot DEF RotateFails
<1>1. /\ \A q \in Requests \ {r} : req'[q] = req[q]
      /\ req'[r].step = "unclaim" /\ req'[r].inv = req[r].inv /\ req'[r].seat = req[r].seat
      /\ req'[r].grp = req[r].grp /\ req'[r].from = req[r].from
      /\ req[r].step = "rotate" /\ Fits(req[r])
  BY ThenMoves DEF RotateFails, AzSteps
<1>2. ClaimsExclude'
  BY <1>1 DEF RotateFails, TenancyInv, ClaimsExclude, Starting, Seated, Release, azInvites
<1>3. SessionsStand'
  BY <1>0, <1>1 DEF RotateFails, TenancyInv, SessionsStand, Release, azInvites
<1>4. StartsHold'
  BY <1>0, <1>1
  DEF RotateFails, TenancyInv, StartsHold, InHand, Final, Tenant, Seated, Release, azInvites,
     OthersTyped, Fits
<1>5. DeploysHold'
  BY <1>0, <1>1
  DEF RotateFails, TenancyInv, DeploysHold, InHand, Final, Tenant, Release, Seated,
     StartsHold, azInvites, OthersTyped
<1>6. TearsHold'
  BY <1>0, <1>1
  DEF RotateFails, TenancyInv, TearsHold, Clearing, Final, Tenant, Release, Seated,
     StartsHold, InHand, TearFits, azInvites, azCloud, OthersTyped
<1>7. SecretsHeld'
  BY <1>0, <1>1 DEF RotateFails, TenancyInv, SecretsHeld, Release, azInvites, OthersTyped, Fits
<1> QED
  BY <1>2, <1>3, <1>4, <1>5, <1>6, <1>7 DEF TenancyInv

LEMMA LeasesGroupTenancy ==
  ASSUME AzShape, TenancyInv, ~Had(Derailing)', NEW r \in Requests, LeasesGroup(r)
  PROVE  TenancyInv'
<1> USE NoneIsNobody, AzureNone, ShapeParts
<1>1. PICK g \in Groups : /\ owner[g] = None
                           /\ owner' = [owner EXCEPT ![g] = req[r].inv]
                           /\ Now(r, [req[r] EXCEPT !.step = "grant", !.grp = g])
  BY DEF LeasesGroup
<1>2. req[r] \in Place /\ Fits(req[r]) /\ req[r].step = "lease"
  BY DEF LeasesGroup
<1>3. /\ \A q \in Requests \ {r} : req'[q] = req[q]
      /\ req'[r] = [req[r] EXCEPT !.step = "grant", !.grp = g]
  BY <1>1, NowMoves
<1>4. /\ req'[r].step = "grant" /\ req'[r].inv = req[r].inv /\ req'[r].seat = req[r].seat
      /\ req'[r].grp = g
  BY <1>2, <1>3, FieldsSet
<1>5. /\ \A q \in Requests \ {r} : req'[q] = req[q]
      /\ req'[r].step = "grant" /\ req'[r].inv = req[r].inv /\ req'[r].seat = req[r].seat
      /\ req'[r].grp = g
      /\ req[r].step = "lease" /\ Fits(req[r])
  BY <1>2, <1>3, <1>4
<1>6. ClaimsExclude'
  BY <1>5 DEF LeasesGroup, TenancyInv, ClaimsExclude, Starting, Seated, azInvites
<1>7. SessionsStand'
  BY <1>5 DEF LeasesGroup, TenancyInv, SessionsStand, azInvites
<1>8. StartsHold'
  BY <1>5
  DEF LeasesGroup, TenancyInv, StartsHold, InHand, Final, Tenant, Seated, azInvites, azPool
<1>9. DeploysHold'
  BY <1>5 DEF LeasesGroup, TenancyInv, DeploysHold, Final, Tenant, azInvites, azPool
<1>10. TearsHold'
  BY <1>5 DEF LeasesGroup, TenancyInv, TearsHold, Final, Tenant, azInvites, azPool
<1>11. SecretsHeld'
  BY <1>5 DEF LeasesGroup, TenancyInv, SecretsHeld, azInvites, azPool
<1> QED
  BY <1>6, <1>7, <1>8, <1>9, <1>10, <1>11 DEF TenancyInv

LEMMA LeaseFailsTenancy ==
  ASSUME AzShape, TenancyInv, ~Had(Derailing)', NEW r \in Requests, LeaseFails(r)
  PROVE  TenancyInv'
<1> USE NoneIsNobody, AzureNone, ShapeParts
<1>0. \/ Release(req[r].seat, req[r].inv)
      \/ holder' = holder /\ aged' = aged
  BY GivesBackOrNot DEF LeaseFails
<1>1. /\ \A q \in Requests \ {r} : req'[q] = req[q]
      /\ req'[r].step = "unclaim" /\ req'[r].inv = req[r].inv /\ req'[r].seat = req[r].seat
      /\ req'[r].grp = req[r].grp /\ req'[r].from = req[r].from
      /\ req[r].step = "lease" /\ Fits(req[r])
  BY ThenMoves DEF LeaseFails, AzSteps
<1>2. ClaimsExclude'
  BY <1>1 DEF LeaseFails, TenancyInv, ClaimsExclude, Starting, Seated, Release, azInvites
<1>3. SessionsStand'
  BY <1>0, <1>1 DEF LeaseFails, TenancyInv, SessionsStand, Release, azInvites
<1>4. StartsHold'
  BY <1>0, <1>1
  DEF LeaseFails, TenancyInv, StartsHold, InHand, Final, Tenant, Seated, Release, azInvites,
     OthersTyped, Fits
<1>5. DeploysHold'
  BY <1>0, <1>1
  DEF LeaseFails, TenancyInv, DeploysHold, InHand, Final, Tenant, Release, Seated,
     StartsHold, azInvites, OthersTyped
<1>6. TearsHold'
  BY <1>0, <1>1
  DEF LeaseFails, TenancyInv, TearsHold, Clearing, Final, Tenant, Release, Seated,
     StartsHold, InHand, TearFits, azInvites, azCloud, OthersTyped
<1>7. SecretsHeld'
  BY <1>0, <1>1 DEF LeaseFails, TenancyInv, SecretsHeld, Release, azInvites, OthersTyped, Fits
<1> QED
  BY <1>2, <1>3, <1>4, <1>5, <1>6, <1>7 DEF TenancyInv

LEMMA GrantsTenancy ==
  ASSUME AzShape, TenancyInv, ~Had(Derailing)', NEW r \in Requests, Grants(r)
  PROVE  TenancyInv'
<1> USE NoneIsNobody, AzureNone, ShapeParts
<1>1. /\ \A q \in Requests \ {r} : req'[q] = req[q]
      /\ req'[r].step = "persist" /\ req'[r].inv = req[r].inv /\ req'[r].seat = req[r].seat
      /\ req'[r].grp = req[r].grp /\ req'[r].from = req[r].from
      /\ req[r].step = "grant" /\ Fits(req[r])
  BY ThenMoves DEF Grants, AzSteps
<1>2. ClaimsExclude'
  BY <1>1 DEF Grants, TenancyInv, ClaimsExclude, Starting, Seated, azInvites
<1>3. SessionsStand'
  BY <1>1 DEF Grants, TenancyInv, SessionsStand, azInvites
<1>4. StartsHold'
  BY <1>1
  DEF Grants, TenancyInv, StartsHold, InHand, Final, Tenant, Seated, azInvites, azPool
<1>5. DeploysHold'
  BY <1>1 DEF Grants, TenancyInv, DeploysHold, Final, Tenant, azInvites, azPool
<1>6. TearsHold'
  BY <1>1 DEF Grants, TenancyInv, TearsHold, Final, Tenant, azInvites, azPool
<1>7. SecretsHeld'
  BY <1>1 DEF Grants, TenancyInv, SecretsHeld, azInvites, azPool
<1> QED
  BY <1>2, <1>3, <1>4, <1>5, <1>6, <1>7 DEF TenancyInv

LEMMA GrantFailsTenancy ==
  ASSUME AzShape, TenancyInv, ~Had(Derailing)', NEW r \in Requests, GrantFails(r)
  PROVE  TenancyInv'
<1> USE NoneIsNobody, AzureNone, ShapeParts
<1>0. \/ Release(req[r].seat, req[r].inv)
      \/ holder' = holder /\ aged' = aged
  BY GivesBackOrNot DEF GrantFails
<1>1. /\ \A q \in Requests \ {r} : req'[q] = req[q]
      /\ req'[r].step = "drop" /\ req'[r].inv = req[r].inv /\ req'[r].seat = req[r].seat
      /\ req'[r].grp = req[r].grp /\ req'[r].from = req[r].from
      /\ req[r].step = "grant" /\ Fits(req[r])
  BY ThenMoves DEF GrantFails, AzSteps
<1>2. ClaimsExclude'
  BY <1>1 DEF GrantFails, TenancyInv, ClaimsExclude, Starting, Seated, Release, azInvites
<1>3. SessionsStand'
  BY <1>0, <1>1 DEF GrantFails, TenancyInv, SessionsStand, Release, azInvites
<1>4. StartsHold'
  BY <1>0, <1>1
  DEF GrantFails, TenancyInv, StartsHold, InHand, Final, Tenant, Seated, Release, azInvites,
     OthersTyped, Fits
<1>5. DeploysHold'
  BY <1>0, <1>1
  DEF GrantFails, TenancyInv, DeploysHold, InHand, Final, Tenant, Release, Seated,
     StartsHold, azInvites, OthersTyped
<1>6. TearsHold'
  BY <1>0, <1>1
  DEF GrantFails, TenancyInv, TearsHold, Clearing, Final, Tenant, Release, Seated,
     StartsHold, InHand, TearFits, azInvites, OthersTyped
<1>7. SecretsHeld'
  BY <1>0, <1>1 DEF GrantFails, TenancyInv, SecretsHeld, Release, azInvites, OthersTyped, Fits
<1> QED
  BY <1>2, <1>3, <1>4, <1>5, <1>6, <1>7 DEF TenancyInv

LEMMA DropsGroupTenancy ==
  ASSUME AzShape, TenancyInv, ~Had(Derailing)', NEW r \in Requests, DropsGroup(r)
  PROVE  TenancyInv'
<1> USE NoneIsNobody, AzureNone, ShapeParts
<1>1. /\ \A q \in Requests \ {r} : req'[q] = req[q]
      /\ req'[r].step = "unclaim" /\ req'[r].inv = req[r].inv /\ req'[r].seat = req[r].seat
      /\ req'[r].grp = req[r].grp /\ req'[r].from = req[r].from
      /\ req[r].step = "drop" /\ Fits(req[r])
  BY ThenMoves DEF DropsGroup, AzSteps
<1>2. \A t \in tears' : t \in tears \/ (t.inv = None /\ t.step = "delete")
  BY DEF DropsGroup, Tear
<1>3. ClaimsExclude'
  BY <1>1, <1>2 DEF DropsGroup, TenancyInv, ClaimsExclude, Starting, azInvites
<1>4. SessionsStand'
  BY <1>1, <1>2 DEF DropsGroup, TenancyInv, SessionsStand, azInvites
<1>5. StartsHold'
  BY <1>1, <1>2
  DEF DropsGroup, TenancyInv, StartsHold, InHand, Clearing, Final, Tenant, Seated, azInvites,
     azPool
<1>6. DeploysHold'
  BY <1>1, <1>2
  DEF DropsGroup, TenancyInv, DeploysHold, Clearing, Final, Tenant, azInvites, azPool
<1>7. TearsHold'
  BY <1>1, <1>2
  DEF DropsGroup, TenancyInv, TearsHold, Clearing, Final, Tenant, azInvites, azPool, azCloud
<1>8. SecretsHeld'
  BY <1>1, <1>2 DEF DropsGroup, TenancyInv, SecretsHeld, azInvites, azPool
<1> QED
  BY <1>3, <1>4, <1>5, <1>6, <1>7, <1>8 DEF TenancyInv

LEMMA AzUnclaimsTenancy ==
  ASSUME AzShape, TenancyInv, ~Had(Derailing)', NEW r \in Requests, AzUnclaims(r)
  PROVE  TenancyInv'
<1> USE NoneIsNobody, AzureNone, ShapeParts
<1>1. /\ \A q \in Requests \ {r} : req'[q] = req[q]
      /\ req'[r].step = "rest"
      /\ req[r].step = "unclaim" /\ Fits(req[r])
  BY NowMoves DEF AzUnclaims, Replies, Rest, Doing
<1>2. ClaimsExclude'
  BY <1>1 DEF AzUnclaims, TenancyInv, ClaimsExclude, Starting, Seated, Unlock
<1>3. SessionsStand'
  BY <1>1 DEF AzUnclaims, TenancyInv, SessionsStand, Unlock
<1>4. StartsHold'
  BY <1>1
  DEF AzUnclaims, TenancyInv, StartsHold, InHand, Final, Tenant, Seated, Unlock, azPool
<1>5. DeploysHold'
  BY <1>1 DEF AzUnclaims, TenancyInv, DeploysHold, Final, Tenant, Unlock, azPool
<1>6. TearsHold'
  BY <1>1 DEF AzUnclaims, TenancyInv, TearsHold, Final, Tenant, Unlock, azPool, azCloud
<1>7. SecretsHeld'
  BY <1>1 DEF AzUnclaims, TenancyInv, SecretsHeld, Unlock, azPool
<1> QED
  BY <1>2, <1>3, <1>4, <1>5, <1>6, <1>7 DEF TenancyInv

LEMMA PersistsTenancy ==
  ASSUME AzShape, TenancyInv, ~Had(Derailing)', NEW r \in Requests, Persists(r)
  PROVE  TenancyInv'
<1> USE NoneIsNobody, AzureNone, ShapeParts
<1>1. /\ \A q \in Requests \ {r} : req'[q] = req[q]
      /\ req'[r].step = "dispatch" /\ req'[r].inv = req[r].inv /\ req'[r].seat = req[r].seat
      /\ req'[r].grp = req[r].grp /\ req'[r].from = req[r].from
      /\ req[r].step = "persist" /\ Fits(req[r])
  BY ThenMoves DEF Persists, AzSteps
<1>2. ClaimsExclude'
  BY <1>1 DEF Persists, TenancyInv, ClaimsExclude, Starting, Seated, OthersTyped, Fits
<1>3. SessionsStand'
  BY <1>1
  DEF Persists, TenancyInv, SessionsStand, ClaimsExclude, Starting, Seated, OthersTyped, Fits
<1>4. StartsHold'
  BY <1>1
  DEF Persists, TenancyInv, StartsHold, InHand, Final, Tenant, Seated, ClaimsExclude,
     Starting, azPool
<1>5. DeploysHold'
  BY <1>1
  DEF Persists, TenancyInv, DeploysHold, InHand, Final, Tenant, ClaimsExclude, Starting,
     Seated, StartsHold, azPool, OthersTyped
<1>6. TearsHold'
  BY <1>1
  DEF Persists, TenancyInv, TearsHold, Final, Tenant, ClaimsExclude, Starting, Seated,
     StartsHold, InHand, azPool, azCloud, OthersTyped
<1>7. SecretsHeld'
  BY <1>1 DEF Persists, TenancyInv, SecretsHeld, azPool, OthersTyped
<1> QED
  BY <1>2, <1>3, <1>4, <1>5, <1>6, <1>7 DEF TenancyInv

LEMMA AzDispatchesTenancy ==
  ASSUME AzShape, TenancyInv, ~Had(Derailing)', NEW r \in Requests, AzDispatches(r)
  PROVE  TenancyInv'
<1> USE NoneIsNobody, AzureNone, ShapeParts
<1>1. /\ \A q \in Requests \ {r} : req'[q] = req[q]
      /\ req'[r].step = "rest"
      /\ req[r].step = "dispatch" /\ Fits(req[r])
  BY NowMoves DEF AzDispatches, Replies, Rest, Doing
<1>2. PICK d : d = Deploy(req[r].inv, req[r].grp, req[r].seat)
  OBVIOUS
<1>3. deploys' = deploys \cup {d} /\ d.inv = req[r].inv /\ d.grp = req[r].grp /\ d.seat = req[r].seat
  BY <1>2 DEF AzDispatches, Deploy
<1>4. ClaimsExclude'
  BY <1>1, <1>2, <1>3
  DEF AzDispatches, TenancyInv, ClaimsExclude, Starting, Seated, Deploy, azInvites
<1>5. SessionsStand'
  BY <1>1, <1>2, <1>3 DEF AzDispatches, TenancyInv, SessionsStand, Deploy, azInvites
<1>6. StartsHold'
  BY <1>1, <1>2, <1>3
  DEF AzDispatches, TenancyInv, StartsHold, InHand, Final, Tenant, Seated, Deploy, azInvites,
     azPool
<1>7. DeploysHold'
  BY <1>1, <1>2, <1>3
  DEF AzDispatches, TenancyInv, DeploysHold, InHand, Final, Tenant, Deploy, StartsHold,
     SessionsStand, azInvites, azPool
<1>8. TearsHold'
  BY <1>1, <1>2, <1>3
  DEF AzDispatches, TenancyInv, TearsHold, Final, Tenant, Deploy, azInvites, azPool, azCloud
<1>9. SecretsHeld'
  BY <1>1, <1>2, <1>3 DEF AzDispatches, TenancyInv, SecretsHeld, Deploy, azInvites, azPool
<1> QED
  BY <1>4, <1>5, <1>6, <1>7, <1>8, <1>9 DEF TenancyInv

LEMMA PersistFailsTenancy ==
  ASSUME AzShape, TenancyInv, ~Had(Derailing)', NEW r \in Requests, PersistFails(r)
  PROVE  TenancyInv'
<1> USE NoneIsNobody, AzureNone, ShapeParts
<1>1. /\ \A q \in Requests \ {r} : req'[q] = req[q]
      /\ req'[r].step = "rest"
      /\ Fits(req[r])
  BY NowMoves DEF PersistFails, Replies, Rest, Doing
<1>2. req[r].step \in {"persist", "dispatch"}
  BY DEF PersistFails
<1>3. \A t \in tears' : t \in tears \/ (/\ t.step = "delete" /\ t.grp = req[r].grp
                                         /\ t.seat = req[r].seat /\ t.inv = req[r].inv)
  BY DEF PersistFails, Tear
<1>4. ClaimsExclude'
  BY <1>1, <1>2, <1>3
  DEF PersistFails, TenancyInv, ClaimsExclude, Starting, Seated, Unlock, SessionsStand, Fits
<1>5. SessionsStand'
  BY <1>1, <1>2, <1>3 DEF PersistFails, TenancyInv, SessionsStand, Unlock
<1>6. StartsHold'
  BY <1>1, <1>2, <1>3
  DEF PersistFails, TenancyInv, StartsHold, InHand, Final, Tenant, Seated, Unlock, azPool
<1>7. DeploysHold'
  BY <1>1, <1>2, <1>3
  DEF PersistFails, TenancyInv, DeploysHold, InHand, Final, Tenant, Unlock, StartsHold,
     Seated, azPool
<1>8. TearsHold'
  BY <1>1, <1>2, <1>3
  DEF PersistFails, TenancyInv, TearsHold, Final, Tenant, Unlock, ClaimsExclude, Starting,
     Seated, StartsHold, InHand, SessionsStand, azPool, azCloud, OthersTyped, Fits
<1>9. SecretsHeld'
  BY <1>1, <1>2, <1>3 DEF PersistFails, TenancyInv, SecretsHeld, Unlock, azPool
<1> QED
  BY <1>4, <1>5, <1>6, <1>7, <1>8, <1>9 DEF TenancyInv

LEMMA AzSubmitsTenancy ==
  ASSUME AzShape, TenancyInv, ~Had(Derailing)', NEW r \in Requests, NEW i \in Invites,
     AzSubmits(r, i)
  PROVE  TenancyInv'
<1> USE NoneIsNobody, AzureNone, ShapeParts
<1>1. /\ \A q \in Requests \ {r} : req'[q] = req[q]
      /\ req'[r].step = "mark" /\ req'[r].inv = i
      /\ req'[r].seat = seat[i] /\ req'[r].grp = group[i]
      /\ req[r].step = "rest"
  BY NowMoves DEF AzSubmits, Doing, Rest
<1>2. ClaimsExclude'
  BY <1>1 DEF AzSubmits, TenancyInv, ClaimsExclude, Starting, Seated, azInvites
<1>3. SessionsStand'
  BY <1>1 DEF AzSubmits, TenancyInv, SessionsStand, azInvites
<1>4. StartsHold'
  BY <1>1
  DEF AzSubmits, TenancyInv, StartsHold, InHand, Final, Tenant, Seated, azInvites, azPool
<1>5. DeploysHold'
  BY <1>1 DEF AzSubmits, TenancyInv, DeploysHold, Final, Tenant, azInvites, azPool
<1>6. TearsHold'
  BY <1>1 DEF AzSubmits, TenancyInv, TearsHold, Final, Tenant, azInvites, azPool, azCloud
<1>7. SecretsHeld'
  BY <1>1 DEF AzSubmits, TenancyInv, SecretsHeld, azInvites, azPool
<1> QED
  BY <1>2, <1>3, <1>4, <1>5, <1>6, <1>7 DEF TenancyInv

LEMMA AzMarksTenancy ==
  ASSUME AzShape, TenancyInv, ~Had(Derailing)', NEW r \in Requests, AzMarks(r)
  PROVE  TenancyInv'
<1> USE NoneIsNobody, AzureNone, ShapeParts
<1>1. /\ \A q \in Requests \ {r} : req'[q] = req[q]
      /\ req'[r].step = "finish" /\ req'[r].inv = req[r].inv /\ req'[r].seat = req[r].seat
      /\ req'[r].grp = req[r].grp /\ req'[r].from = req[r].from
      /\ req[r].step = "mark" /\ Fits(req[r])
  BY ThenMoves DEF AzMarks, AzSteps
<1>2. phase' = [phase EXCEPT ![req[r].inv] = "closed"] /\ req[r].inv \in Invites
  BY <1>1, FaultCounts DEF AzMarks, Derailing, FaultKinds, Fits
<1>3. ClaimsExclude'
  BY <1>1, <1>2 DEF AzMarks, TenancyInv, ClaimsExclude, Starting, Seated
<1>4. SessionsStand'
  BY <1>1, <1>2 DEF AzMarks, TenancyInv, SessionsStand, OthersTyped
<1>5. StartsHold'
  BY <1>1, <1>2 DEF AzMarks, TenancyInv, StartsHold, InHand, Final, Tenant, Seated, azPool
<1>6. DeploysHold'
  BY <1>1, <1>2 DEF AzMarks, TenancyInv, DeploysHold, Final, Tenant, azPool
<1>7. TearsHold'
  BY <1>1, <1>2 DEF AzMarks, TenancyInv, TearsHold, Final, Tenant, azPool, azCloud
<1>8. SecretsHeld'
  BY <1>1, <1>2 DEF AzMarks, TenancyInv, SecretsHeld, azPool
<1> QED
  BY <1>3, <1>4, <1>5, <1>6, <1>7, <1>8 DEF TenancyInv

LEMMA AzFinishesTenancy ==
  ASSUME AzShape, TenancyInv, ~Had(Derailing)', NEW r \in Requests, AzFinishes(r)
  PROVE  TenancyInv'
<1> USE NoneIsNobody, AzureNone, ShapeParts
<1>1. /\ \A q \in Requests \ {r} : req'[q] = req[q]
      /\ req'[r].step = "rest"
      /\ req[r].step = "finish" /\ Fits(req[r])
  BY NowMoves DEF AzFinishes, Replies, Rest, Doing
<1>2. \A t \in tears' : t \in tears \/ t = Tear("delete", req[r].grp, req[r].seat, req[r].inv)
  BY DEF AzFinishes
<1>3. ClaimsExclude'
  BY <1>1, <1>2 DEF AzFinishes, TenancyInv, ClaimsExclude, Starting, Seated, azInvites
<1>4. SessionsStand'
  BY <1>1, <1>2 DEF AzFinishes, TenancyInv, SessionsStand, azInvites
<1>5. StartsHold'
  BY <1>1, <1>2
  DEF AzFinishes, TenancyInv, StartsHold, InHand, Final, Tenant, Seated, Tear, SessionsStand,
     azInvites, azPool, Fits
<1>6. DeploysHold'
  BY <1>1, <1>2
  DEF AzFinishes, TenancyInv, DeploysHold, Final, Tenant, Tear, SessionsStand, azInvites,
     azPool, Fits
<1>7. TearsHold'
  BY <1>1, <1>2
  DEF AzFinishes, TenancyInv, TearsHold, Final, Tenant, Tear, SessionsStand, azInvites,
     azPool, azCloud, Fits
<1>8. SecretsHeld'
  BY <1>1, <1>2 DEF AzFinishes, TenancyInv, SecretsHeld, azInvites, azPool
<1> QED
  BY <1>3, <1>4, <1>5, <1>6, <1>7, <1>8 DEF TenancyInv

LEMMA AzRequestDiesTenancy ==
  ASSUME AzShape, TenancyInv, ~Had(Derailing)', NEW r \in Requests, AzRequestDies(r)
  PROVE  TenancyInv'
<1> USE NoneIsNobody, AzureNone, ShapeParts
<1>1. /\ \A q \in Requests \ {r} : req'[q] = req[q]
      /\ req'[r].step = "rest"
      /\ Fits(req[r])
  BY NowMoves DEF AzRequestDies, Replies, Rest, Doing
<1>2. ClaimsExclude'
  BY <1>1 DEF AzRequestDies, TenancyInv, ClaimsExclude, Starting, Seated, azInvites
<1>3. SessionsStand'
  BY <1>1 DEF AzRequestDies, TenancyInv, SessionsStand, azInvites
<1>4. StartsHold'
  BY <1>1
  DEF AzRequestDies, TenancyInv, StartsHold, InHand, Final, Tenant, Seated, azInvites, azPool
<1>5. DeploysHold'
  BY <1>1 DEF AzRequestDies, TenancyInv, DeploysHold, Final, Tenant, azInvites, azPool
<1>6. TearsHold'
  BY <1>1 DEF AzRequestDies, TenancyInv, TearsHold, Final, Tenant, azInvites, azPool, azCloud
<1>7. SecretsHeld'
  BY <1>1 DEF AzRequestDies, TenancyInv, SecretsHeld, azInvites, azPool
<1> QED
  BY <1>2, <1>3, <1>4, <1>5, <1>6, <1>7 DEF TenancyInv

LEMMA ReconnectsTenancy ==
  ASSUME AzShape, TenancyInv, ~Had(Derailing)', NEW i \in Invites, Reconnects(i)
  PROVE  TenancyInv'
<1> USE NoneIsNobody, AzureNone, ShapeParts
<1>1. ClaimsExclude'
  BY DEF Reconnects, TenancyInv, ClaimsExclude, InRoom, azInvites
<1>2. SessionsStand'
  BY DEF Reconnects, TenancyInv, SessionsStand, InRoom, azInvites
<1>3. StartsHold'
  BY DEF Reconnects, TenancyInv, StartsHold, InHand, Final, Tenant, InRoom, azInvites
<1>4. DeploysHold'
  BY DEF Reconnects, TenancyInv, DeploysHold, Final, Tenant, InRoom, azInvites
<1>5. TearsHold'
  BY DEF Reconnects, TenancyInv, TearsHold, Final, Tenant, InRoom, azInvites, azCloud
<1>6. SecretsHeld'
  BY DEF Reconnects, TenancyInv, SecretsHeld, InRoom, ClaimsExclude, Starting, Seated,
     StartsHold, InHand, Final, Tenant, azInvites
<1> QED
  BY <1>1, <1>2, <1>3, <1>4, <1>5, <1>6 DEF TenancyInv

LEMMA AzRevokesTenancy ==
  ASSUME AzShape, TenancyInv, ~Had(Derailing)', NEW i \in Invites, AzRevokes(i)
  PROVE  TenancyInv'
<1> USE NoneIsNobody, AzureNone, ShapeParts
<1>1. ClaimsExclude'
  BY DEF AzRevokes, TenancyInv, ClaimsExclude
<1>2. SessionsStand'
  BY DEF AzRevokes, TenancyInv, SessionsStand
<1>3. StartsHold'
  BY DEF AzRevokes, TenancyInv, StartsHold, InHand, Final, Tenant, azPool
<1>4. DeploysHold'
  BY DEF AzRevokes, TenancyInv, DeploysHold, Final, Tenant, azPool
<1>5. TearsHold'
  BY DEF AzRevokes, TenancyInv, TearsHold, Final, Tenant, azPool, azCloud
<1>6. SecretsHeld'
  BY DEF AzRevokes, TenancyInv, SecretsHeld, azPool
<1> QED
  BY <1>1, <1>2, <1>3, <1>4, <1>5, <1>6 DEF TenancyInv

LEMMA LockAgesTenancy ==
  ASSUME AzShape, TenancyInv, ~Had(Derailing)', NEW i \in Invites, LockAges(i)
  PROVE  TenancyInv'
<1> USE NoneIsNobody, AzureNone, ShapeParts
<1>1. ClaimsExclude'
  BY DEF LockAges, TenancyInv, ClaimsExclude, Starting, Seated
<1>2. SessionsStand'
  BY DEF LockAges, TenancyInv, SessionsStand
<1>3. StartsHold'
  BY DEF LockAges, TenancyInv, StartsHold, InHand, Final, Tenant, azPool
<1>4. DeploysHold'
  BY DEF LockAges, TenancyInv, DeploysHold, Final, Tenant, azPool
<1>5. TearsHold'
  BY DEF LockAges, TenancyInv, TearsHold, Final, Tenant, azPool, azCloud
<1>6. SecretsHeld'
  BY DEF LockAges, TenancyInv, SecretsHeld, azPool
<1> QED
  BY <1>1, <1>2, <1>3, <1>4, <1>5, <1>6 DEF TenancyInv

LEMMA SeatAgesTenancy ==
  ASSUME AzShape, TenancyInv, ~Had(Derailing)', NEW s \in Seats, SeatAges(s)
  PROVE  TenancyInv'
<1> USE NoneIsNobody, AzureNone, ShapeParts
<1>1. ClaimsExclude'
  BY DEF SeatAges, TenancyInv, ClaimsExclude, azInvites
<1>2. SessionsStand'
  BY DEF SeatAges, TenancyInv, SessionsStand, azInvites
<1>3. StartsHold'
  BY DEF SeatAges, TenancyInv, StartsHold, InHand, Final, Tenant, Seated, azInvites
<1>4. DeploysHold'
  BY DEF SeatAges, TenancyInv, DeploysHold, Final, Tenant, azInvites
<1>5. TearsHold'
  BY DEF SeatAges, TenancyInv, TearsHold, Final, Tenant, azInvites, azCloud
<1>6. SecretsHeld'
  BY DEF SeatAges, TenancyInv, SecretsHeld, azInvites
<1> QED
  BY <1>1, <1>2, <1>3, <1>4, <1>5, <1>6 DEF TenancyInv

LEMMA AzDeploysTenancy ==
  ASSUME AzShape, TenancyInv, ~Had(Derailing)', NEW d \in deploys, AzDeploys(d)
  PROVE  TenancyInv'
<1> USE NoneIsNobody, AzureNone, ShapeParts
<1>1. ClaimsExclude'
  BY DEF AzDeploys, TenancyInv, ClaimsExclude, azInvites
<1>2. SessionsStand'
  BY DEF AzDeploys, TenancyInv, SessionsStand, azInvites
<1>3. StartsHold'
  BY DEF AzDeploys, TenancyInv, StartsHold, InHand, Final, Tenant, azInvites, azPool
<1>4. DeploysHold'
  BY DEF AzDeploys, TenancyInv, DeploysHold, Final, Tenant, azInvites, azPool
<1>5. TearsHold'
  BY DEF AzDeploys, TenancyInv, TearsHold, Final, Tenant, azInvites, azPool, azCloud
<1>6. SecretsHeld'
  BY DEF AzDeploys, TenancyInv, SecretsHeld, azInvites, azPool
<1> QED
  BY <1>1, <1>2, <1>3, <1>4, <1>5, <1>6 DEF TenancyInv

LEMMA AzDeployFailsTenancy ==
  ASSUME AzShape, TenancyInv, ~Had(Derailing)', NEW d \in deploys, AzDeployFails(d)
  PROVE  TenancyInv'
<1> USE NoneIsNobody, AzureNone, ShapeParts
<1>1. d \in [inv : Invites, grp : Groups, seat : Seats]
  BY DEF OthersTyped
<1>2. PICK u : u = Tear("delete", d.grp, d.seat, d.inv)
  OBVIOUS
<1>3. deploys' = deploys \ {d} /\ tears' = tears \cup {u}
  BY <1>2 DEF AzDeployFails
<1>4. u.step = "delete" /\ u.grp = d.grp /\ u.seat = d.seat /\ u.inv = d.inv
  BY <1>2 DEF Tear
<1>5. ClaimsExclude'
  BY <1>1, <1>2, <1>3, <1>4 DEF AzDeployFails, TenancyInv, ClaimsExclude, azInvites
<1>6. SessionsStand'
  BY <1>1, <1>2, <1>3, <1>4 DEF AzDeployFails, TenancyInv, SessionsStand, azInvites
<1>7. StartsHold'
  BY <1>1, <1>2, <1>3, <1>4
  DEF AzDeployFails, TenancyInv, StartsHold, InHand, Final, Tenant, azInvites, azPool
<1>8. DeploysHold'
  BY <1>1, <1>2, <1>3, <1>4
  DEF AzDeployFails, TenancyInv, DeploysHold, Final, Tenant, azInvites, azPool
<1>9. TearsHold'
  BY <1>1, <1>2, <1>3, <1>4
  DEF AzDeployFails, TenancyInv, TearsHold, Final, Tenant, DeploysHold, azInvites, azPool,
     azCloud
<1>10. SecretsHeld'
  BY <1>1, <1>2, <1>3, <1>4 DEF AzDeployFails, TenancyInv, SecretsHeld, azInvites, azPool
<1> QED
  BY <1>5, <1>6, <1>7, <1>8, <1>9, <1>10 DEF TenancyInv

LEMMA DeletesTenancy ==
  ASSUME AzShape, TenancyInv, ~Had(Derailing)', NEW t \in tears, Deletes(t)
  PROVE  TenancyInv'
<1> USE NoneIsNobody, AzureNone, ShapeParts
<1>1. TearFits(t)
  BY DEF OthersTyped
<1>2. \A u \in tears' : u \in tears \ {t} \/ (t.inv # None /\ u = Tear("release", t.grp, t.seat, t.inv))
  BY DEF Deletes
<1>3. gone' = gone \cup {t.grp}
  BY DEF Deletes
<1>4. Clearing(t) => t.inv # None
  BY DEF Clearing
<1>5. ClaimsExclude'
  BY <1>1, <1>2, <1>3, <1>4 DEF Deletes, TenancyInv, ClaimsExclude, azInvites
<1>6. SessionsStand'
  BY <1>1, <1>2, <1>3, <1>4 DEF Deletes, TenancyInv, SessionsStand, azInvites
<1>7. StartsHold'
  BY <1>1, <1>2, <1>3, <1>4
  DEF Deletes, TenancyInv, StartsHold, InHand, Clearing, Final, Tenant, Tear, azInvites,
     azPool
<1>8. DeploysHold'
  BY <1>1, <1>2, <1>3, <1>4
  DEF Deletes, TenancyInv, DeploysHold, Clearing, Final, Tenant, Tear, azInvites, azPool
<1>9. TearsHold'
  BY <1>1, <1>2, <1>3, <1>4
  DEF Deletes, TenancyInv, TearsHold, Clearing, Final, Tenant, Tear, azInvites, azPool
<1>10. SecretsHeld'
  BY <1>1, <1>2, <1>3, <1>4 DEF Deletes, TenancyInv, SecretsHeld, azInvites, azPool
<1> QED
  BY <1>5, <1>6, <1>7, <1>8, <1>9, <1>10 DEF TenancyInv

LEMMA ReleasesTenancy ==
  ASSUME AzShape, TenancyInv, ~Had(Derailing)', NEW t \in tears, Releases(t)
  PROVE  TenancyInv'
<1> USE NoneIsNobody, AzureNone, ShapeParts
<1>1. TearFits(t) /\ t.seat \in Seats /\ t.inv \in Invites /\ t.step = "release"
  BY DEF OthersTyped, TearFits, Releases
<1>2. \A u \in tears' : u \in tears \ {t} \/ (u.step = "reset" /\ u.grp = t.grp /\ u.inv = t.inv /\ u.seat = t.seat)
  BY <1>1 DEF Releases, TearFits
<1>3. ClaimsExclude'
  BY <1>1, <1>2 DEF Releases, TenancyInv, ClaimsExclude, Release, azInvites
<1>4. SessionsStand'
  BY <1>1, <1>2 DEF Releases, TenancyInv, SessionsStand, Release, azInvites
<1>5. StartsHold'
  BY <1>1, <1>2
  DEF Releases, TenancyInv, StartsHold, InHand, Clearing, Final, Tenant, Seated, Release,
     azInvites, OthersTyped, Fits
<1>6. DeploysHold'
  BY <1>1, <1>2
  DEF Releases, TenancyInv, DeploysHold, Clearing, Final, Tenant, Release, azInvites,
     OthersTyped
<1>7. TearsHold'
  BY <1>1, <1>2
  DEF Releases, TenancyInv, TearsHold, Clearing, Final, Tenant, Release, TearFits, azInvites,
     azCloud, OthersTyped
<1>8. SecretsHeld'
  BY <1>1, <1>2 DEF Releases, TenancyInv, SecretsHeld, Release, azInvites, OthersTyped
<1> QED
  BY <1>3, <1>4, <1>5, <1>6, <1>7, <1>8 DEF TenancyInv

LEMMA ResetsTenancy ==
  ASSUME AzShape, TenancyInv, ~Had(Derailing)', NEW t \in tears, Resets(t)
  PROVE  TenancyInv'
<1> USE NoneIsNobody, AzureNone, ShapeParts
<1>1. TearFits(t) /\ t.inv \in Invites /\ t.step = "reset"
  BY DEF OthersTyped, TearFits, Resets
<1>2. Reset(t.inv) /\ (phase[t.inv] = "started" => ~Attended(t.inv))
  BY OvertakesNone DEF Resets, Derailing
<1>3. ClaimsExclude'
  BY <1>1, <1>2 DEF Resets, TenancyInv, ClaimsExclude, Reset, azInvites, OthersTyped
<1>4. SessionsStand'
  BY <1>1, <1>2
  DEF Resets, TenancyInv, SessionsStand, Reset, Attended, azInvites, OthersTyped, Fits
<1>5. StartsHold'
  BY <1>1, <1>2
  DEF Resets, TenancyInv, StartsHold, InHand, Final, Tenant, Seated, Reset, azInvites,
     azPool, OthersTyped, Fits
<1>6. DeploysHold'
  BY <1>1, <1>2
  DEF Resets, TenancyInv, DeploysHold, Final, Tenant, Reset, azInvites, azPool, OthersTyped
<1>7. TearsHold'
  BY <1>1, <1>2
  DEF Resets, TenancyInv, TearsHold, Clearing, Final, Tenant, Reset, TearFits, azInvites,
     azPool, azCloud, OthersTyped
<1>8. SecretsHeld'
  BY <1>1, <1>2 DEF Resets, TenancyInv, SecretsHeld, Reset, azInvites, azPool, OthersTyped
<1> QED
  BY <1>3, <1>4, <1>5, <1>6, <1>7, <1>8 DEF TenancyInv

LEMMA TearFailsTenancy ==
  ASSUME AzShape, TenancyInv, ~Had(Derailing)', NEW t \in tears, TearFails(t)
  PROVE  TenancyInv'
<1> USE NoneIsNobody, AzureNone, ShapeParts
<1>1. TearFits(t)
  BY DEF OthersTyped
<1>2. \A u \in tears' : u \in tears \ {t} \/ (t.step = "release" /\ u.step = "reset" /\ u.grp = t.grp /\ u.inv = t.inv /\ u.seat = t.seat)
  BY <1>1 DEF TearFails, TearFits
<1>3. ClaimsExclude'
  BY <1>1, <1>2 DEF TearFails, TenancyInv, ClaimsExclude, azInvites
<1>4. SessionsStand'
  BY <1>1, <1>2 DEF TearFails, TenancyInv, SessionsStand, azInvites
<1>5. StartsHold'
  BY <1>1, <1>2
  DEF TearFails, TenancyInv, StartsHold, InHand, Clearing, Final, Tenant, azInvites, azPool
<1>6. DeploysHold'
  BY <1>1, <1>2
  DEF TearFails, TenancyInv, DeploysHold, Clearing, Final, Tenant, azInvites, azPool
<1>7. TearsHold'
  BY <1>1, <1>2
  DEF TearFails, TenancyInv, TearsHold, Clearing, Final, Tenant, azInvites, azPool, azCloud
<1>8. SecretsHeld'
  BY <1>1, <1>2 DEF TearFails, TenancyInv, SecretsHeld, azInvites, azPool
<1> QED
  BY <1>3, <1>4, <1>5, <1>6, <1>7, <1>8 DEF TenancyInv

-----------------------------------------------------------------------------
(* Who points to what                                                        *)

\* What a deploy or a teardown works on is what its invite points to.
WorkPointed ==
  /\ \A d \in deploys : group[d.inv] = d.grp /\ seat[d.inv] = d.seat
  /\ \A t \in tears : t.inv # None => group[t.inv] = t.grp /\ seat[t.inv] = t.seat

\* An invite holds no seat but the one it starts with or points to; a teardown that has come
\* to the reset has given that one back.
SeatsAccounted ==
  /\ \A s \in Seats : holder[s] # None =>
       \/ \E r \in Requests : req[r].step \in Seated /\ req[r].inv = holder[s] /\ req[r].seat = s
       \/ group[holder[s]] # None /\ seat[holder[s]] = s
  /\ \A t \in tears : t.step = "reset" => Final(t.inv) \/ holder[t.seat] # t.inv

\* An invite under eviction points to a room and holds nothing, is evicted once and by nobody
\* else, and its group is on its way out before the invite forgets it.
EvictedOnce ==
  \A r \in Requests : req[r].step \in {"evict", "reset"} =>
    LET f == req[r].from IN
    /\ group[f] # None
    /\ \A s \in Seats : holder[s] # f
    /\ \A q \in Requests : req[q].step \in {"evict", "reset"} /\ req[q].from = f => q = r
    /\ Final(f) \/ \A t \in tears : t.inv # f
    /\ req[r].step = "reset" =>
         group[f] \in gone \/ \E t \in tears : t.inv = None /\ t.grp = group[f]

\* Besides the invites there are starts that have not written their group, and teardowns of
\* groups that nobody else points to.
Pointed(g) ==
  \/ \E i \in Invites : group[i] = g
  \/ \E r \in Requests : req[r].step \in {"grant", "persist", "drop"} /\ req[r].grp = g
  \/ \E t \in tears : t.inv = None /\ t.grp = g
GroupsPointed == \A g \in Groups : Exists(g) => Pointed(g)

PointersInv == WorkPointed /\ SeatsAccounted /\ EvictedOnce /\ GroupsPointed


\* Each action keeps who points to what; a start that is not written down, and a death, are
\* among the faults excluded here.
LEMMA FindsNoSeatPointers ==
  ASSUME AzShape, TenancyInv, PointersInv, ~Had(Stranding)', NEW r \in Requests,
     FindsNoSeat(r)
  PROVE  PointersInv'
<1> USE NoneIsNobody, AzureNone, ShapeParts
<1>1. /\ \A q \in Requests \ {r} : req'[q] = req[q]
      /\ req'[r].step = "unclaim" /\ req'[r].inv = req[r].inv /\ req'[r].seat = req[r].seat
      /\ req'[r].grp = req[r].grp /\ req'[r].from = req[r].from
      /\ req[r].step = "seat" /\ Fits(req[r])
  BY ThenMoves DEF FindsNoSeat, AzSteps
<1>2. WorkPointed'
  BY <1>1 DEF FindsNoSeat, PointersInv, WorkPointed, azInvites
<1>3. SeatsAccounted'
  BY <1>1 DEF FindsNoSeat, PointersInv, SeatsAccounted, Final, Seated, azInvites, azPool
<1>4. EvictedOnce'
  BY <1>1 DEF FindsNoSeat, PointersInv, EvictedOnce, Final, azInvites, azPool, azCloud
<1>5. GroupsPointed'
  BY <1>1 DEF FindsNoSeat, PointersInv, GroupsPointed, Pointed, Exists, azInvites, azCloud
<1> QED
  BY <1>2, <1>3, <1>4, <1>5 DEF PointersInv

LEMMA AzStartsPointers ==
  ASSUME AzShape, TenancyInv, PointersInv, ~Had(Stranding)', NEW r \in Requests, NEW i \in
     Invites, AzStarts(r, i)
  PROVE  PointersInv'
<1> USE NoneIsNobody, AzureNone, ShapeParts
<1>1. /\ \A q \in Requests \ {r} : req'[q] = req[q]
      /\ req'[r].step = "claim" /\ req'[r].inv = i
      /\ req[r].step = "rest"
  BY NowMoves DEF AzStarts, Doing, Rest
<1>2. WorkPointed'
  BY <1>1 DEF AzStarts, PointersInv, WorkPointed, azInvites
<1>3. SeatsAccounted'
  BY <1>1 DEF AzStarts, PointersInv, SeatsAccounted, Final, Seated, azInvites, azPool
<1>4. EvictedOnce'
  BY <1>1 DEF AzStarts, PointersInv, EvictedOnce, Final, azInvites, azPool, azCloud
<1>5. GroupsPointed'
  BY <1>1 DEF AzStarts, PointersInv, GroupsPointed, Pointed, Exists, azInvites, azCloud
<1> QED
  BY <1>2, <1>3, <1>4, <1>5 DEF PointersInv

LEMMA AzClaimsPointers ==
  ASSUME AzShape, TenancyInv, PointersInv, ~Had(Stranding)', NEW r \in Requests, AzClaims(r)
  PROVE  PointersInv'
<1> USE NoneIsNobody, AzureNone, ShapeParts
<1>1. /\ \A q \in Requests \ {r} : req'[q] = req[q]
      /\ req[r].step = "claim" /\ req[r].inv \in Invites
  BY ThenMoves, NowMoves DEF AzClaims, AzSteps, Replies, Fits
<1>2. \/ /\ group[req[r].inv] = None /\ phase[req[r].inv] = "booked" /\ req[r].inv \notin locked
         /\ locked' = locked \cup {req[r].inv}
         /\ req'[r].step = "seat" /\ req'[r].inv = req[r].inv
      \/ UNCHANGED locked /\ req'[r].step = "rest"
  BY ThenMoves, NowMoves DEF AzClaims, AzSteps, Replies, Rest, Doing
<1>3. WorkPointed'
  BY <1>1, <1>2 DEF AzClaims, PointersInv, WorkPointed
<1>4. SeatsAccounted'
  BY <1>1, <1>2 DEF AzClaims, PointersInv, SeatsAccounted, Final, Seated, azPool
<1>5. EvictedOnce'
  BY <1>1, <1>2 DEF AzClaims, PointersInv, EvictedOnce, Final, azPool, azCloud
<1>6. GroupsPointed'
  BY <1>1, <1>2 DEF AzClaims, PointersInv, GroupsPointed, Pointed, Exists, azCloud
<1> QED
  BY <1>3, <1>4, <1>5, <1>6 DEF PointersInv

LEMMA TakesFreePointers ==
  ASSUME AzShape, TenancyInv, PointersInv, ~Had(Stranding)', NEW r \in Requests, TakesFree(r)
  PROVE  PointersInv'
<1> USE NoneIsNobody, AzureNone, ShapeParts
<1>1. PICK s \in Seats : /\ holder[s] = None
                          /\ holder' = [holder EXCEPT ![s] = req[r].inv]
                          /\ Now(r, Doing("rotate", req[r].inv, s, None, None))
  BY DEF TakesFree
<1>2. /\ \A q \in Requests \ {r} : req'[q] = req[q]
      /\ req'[r].step = "rotate" /\ req'[r].inv = req[r].inv /\ req'[r].seat = s
      /\ req[r].step = "seat" /\ req[r].inv \in Invites /\ s \notin aged
  BY <1>1, NowMoves DEF TakesFree, Doing, Fits, OthersTyped
<1>3. group[req[r].inv] = None
  BY <1>2 DEF TenancyInv, ClaimsExclude, Starting
<1>4. WorkPointed'
  BY <1>1, <1>2, <1>3 DEF TakesFree, PointersInv, WorkPointed, azInvites
<1>5. SeatsAccounted'
  <2>1. (\A x \in Seats : holder[x] # None =>
          \/ \E q \in Requests : req[q].step \in Seated /\ req[q].inv = holder[x] /\ req[q].seat = x
          \/ group[holder[x]] # None /\ seat[holder[x]] = x)'
    BY <1>1, <1>2, <1>3 DEF TakesFree, PointersInv, SeatsAccounted, Seated, azInvites
  <2>2. \A t \in tears : t.inv # None => t.inv # req[r].inv
    BY <1>3 DEF PointersInv, WorkPointed, OthersTyped, TearFits
  <2>3. (\A t \in tears : t.step = "reset" => Final(t.inv) \/ holder[t.seat] # t.inv)'
    BY <1>1, <1>2, <2>2 DEF TakesFree, PointersInv, SeatsAccounted, Final, azInvites
  <2> QED
    BY <2>1, <2>3 DEF SeatsAccounted
<1>6. EvictedOnce'
  BY <1>1, <1>2, <1>3 DEF TakesFree, PointersInv, EvictedOnce, Final, azInvites, azCloud
<1>7. GroupsPointed'
  BY <1>1, <1>2, <1>3
  DEF TakesFree, PointersInv, GroupsPointed, Pointed, Exists, azInvites, azCloud
<1> QED
  BY <1>4, <1>5, <1>6, <1>7 DEF PointersInv

LEMMA TakesOverPointers ==
  ASSUME AzShape, TenancyInv, PointersInv, ~Had(Stranding)', NEW r \in Requests, TakesOver(r)
  PROVE  PointersInv'
<1> USE NoneIsNobody, AzureNone, ShapeParts
<1>1. PICK s \in aged : /\ holder' = [holder EXCEPT ![s] = req[r].inv]
                         /\ aged' = aged \ {s}
                         /\ Now(r, Doing("evict", req[r].inv, s, None, holder[s]))
  BY DEF TakesOver
<1>2. /\ \A q \in Requests \ {r} : req'[q] = req[q]
      /\ req'[r].step = "evict" /\ req'[r].inv = req[r].inv /\ req'[r].seat = s
      /\ req'[r].from = holder[s]
      /\ req[r].step = "seat" /\ req[r].inv \in Invites /\ s \in Seats /\ holder[s] \in Invites
  BY <1>1, NowMoves DEF TakesOver, Doing, Fits, OthersTyped
<1>3. group[req[r].inv] = None
  BY <1>2 DEF TenancyInv, ClaimsExclude, Starting
<1>4. WorkPointed'
  BY <1>1, <1>2, <1>3 DEF TakesOver, PointersInv, WorkPointed, azInvites
<1>5. SeatsAccounted'
  <2>1. (\A x \in Seats : holder[x] # None =>
          \/ \E q \in Requests : req[q].step \in Seated /\ req[q].inv = holder[x] /\ req[q].seat = x
          \/ group[holder[x]] # None /\ seat[holder[x]] = x)'
    BY <1>1, <1>2, <1>3 DEF TakesOver, PointersInv, SeatsAccounted, Seated, azInvites
  <2>2. \A t \in tears : t.inv # None => t.inv # req[r].inv
    BY <1>3 DEF PointersInv, WorkPointed, OthersTyped, TearFits
  <2>3. (\A t \in tears : t.step = "reset" => Final(t.inv) \/ holder[t.seat] # t.inv)'
    BY <1>1, <1>2, <2>2 DEF TakesOver, PointersInv, SeatsAccounted, Final, azInvites
  <2> QED
    BY <2>1, <2>3 DEF SeatsAccounted
<1>6. EvictedOnce'
  <2> DEFINE f == holder[s]
  <2>1. group[f] # None /\ seat[f] = s
    BY <1>1, <1>2
    DEF TenancyInv, StartsHold, InHand, Final, Tenant, PointersInv, SeatsAccounted,
       ClaimsExclude, Starting
  <2>2. \A x \in Seats \ {s} : holder[x] # f
    BY <1>2, <2>1 DEF TenancyInv, ClaimsExclude, Starting, PointersInv, SeatsAccounted
  <2>3. \A q \in Requests : req[q].step \in {"evict", "reset"} => req[q].from # f
    BY <1>1, <1>2 DEF PointersInv, EvictedOnce
  <2>4. Final(f) \/ \A t \in tears : t.inv # f
    <3> SUFFICES ASSUME ~Final(f), NEW t \in tears, t.inv = f PROVE FALSE
      OBVIOUS
    <3>1. seat[f] = t.seat /\ TearFits(t) /\ t.inv # None
      BY <1>2 DEF PointersInv, WorkPointed, OthersTyped
    <3>2. CASE Clearing(t)
      BY <1>1, <2>1, <3>1, <3>2 DEF TenancyInv, TearsHold, Tenant
    <3>3. CASE ~Clearing(t)
      BY <1>2, <2>1, <3>1, <3>3 DEF PointersInv, SeatsAccounted, Clearing
    <3> QED
      BY <3>2, <3>3
  <2>5. /\ \A x \in Seats : holder'[x] # f
        /\ UNCHANGED <<phase, group, gone, tears>>
    BY <1>1, <1>2, <1>3, <2>1, <2>2 DEF TakesOver, OthersTyped, azInvites, azCloud
  <2>6. \A x \in Seats, j \in Invites : j # req[r].inv /\ holder[x] # j => holder'[x] # j
    BY <1>1, <1>2
  <2>7. ASSUME NEW q \in Requests \ {r}, req[q].step \in {"evict", "reset"}
        PROVE  req[q].from \in Invites /\ req[q].from # req[r].inv
    BY <1>3, <2>7 DEF PointersInv, EvictedOnce, Fits
  <2> QED
    BY <1>2, <2>1, <2>3, <2>4, <2>5, <2>6, <2>7 DEF PointersInv, EvictedOnce, Final
<1>7. GroupsPointed'
  BY <1>1, <1>2, <1>3
  DEF TakesOver, PointersInv, GroupsPointed, Pointed, Exists, azInvites, azCloud
<1> QED
  BY <1>4, <1>5, <1>6, <1>7 DEF PointersInv

LEMMA EvictsPointers ==
  ASSUME AzShape, TenancyInv, PointersInv, ~Had(Stranding)', NEW r \in Requests, Evicts(r)
  PROVE  PointersInv'
<1> USE NoneIsNobody, AzureNone, ShapeParts
<1>1. /\ \A q \in Requests \ {r} : req'[q] = req[q]
      /\ req'[r].step \in {"reset", "rotate"} /\ req'[r].inv = req[r].inv
      /\ req'[r].seat = req[r].seat /\ req'[r].from = req[r].from
      /\ req[r].step = "evict" /\ Fits(req[r])
  BY ThenMoves DEF Evicts, AzSteps
<1>2. \/ /\ req'[r].step = "reset"
         /\ \E u : u.inv = None /\ u.step = "delete" /\ u.grp = group[req[r].from] /\ tears' = tears \cup {u}
      \/ req'[r].step = "rotate" /\ UNCHANGED tears
  BY <1>1, ThenMoves DEF Evicts, Tear, AzSteps, PointersInv, EvictedOnce
<1>3. WorkPointed'
  BY <1>1, <1>2 DEF Evicts, PointersInv, WorkPointed, azInvites
<1>4. SeatsAccounted'
  BY <1>1, <1>2 DEF Evicts, PointersInv, SeatsAccounted, Final, Seated, azInvites, azPool
<1>5. EvictedOnce'
  BY <1>1, <1>2 DEF Evicts, PointersInv, EvictedOnce, Final, azInvites, azPool, azCloud, Fits
<1>6. GroupsPointed'
  BY <1>1, <1>2 DEF Evicts, PointersInv, GroupsPointed, Pointed, Exists, azInvites, azCloud
<1> QED
  BY <1>3, <1>4, <1>5, <1>6 DEF PointersInv

LEMMA ResetsEvictedPointers ==
  ASSUME AzShape, TenancyInv, PointersInv, ~Had(Stranding)', NEW r \in Requests,
     ResetsEvicted(r)
  PROVE  PointersInv'
<1> USE NoneIsNobody, AzureNone, ShapeParts
<1>1. /\ \A q \in Requests \ {r} : req'[q] = req[q]
      /\ req'[r].step = "rotate" /\ req'[r].inv = req[r].inv /\ req'[r].seat = req[r].seat
      /\ req'[r].grp = req[r].grp /\ req'[r].from = req[r].from
      /\ req[r].step = "reset" /\ Fits(req[r])
  BY ThenMoves DEF ResetsEvicted, AzSteps
<1>2. \/ Reset(req[r].from) /\ (phase[req[r].from] = "started" => ~Attended(req[r].from))
      \/ UNCHANGED azInvites
  BY OvertakesNone, FaultCounts DEF ResetsEvicted, Stranding, Derailing
<1>3. req[r].from \in Invites
  BY <1>1 DEF Fits
<1>4. WorkPointed'
  <2> DEFINE f == req[r].from
  <2>1. CASE UNCHANGED azInvites
    BY <2>1 DEF ResetsEvicted, PointersInv, WorkPointed, azInvites
  <2>2. CASE Reset(f) /\ phase[f] = "started"
    <3>1. \A t \in tears : t.inv # f
      BY <1>1, <2>2 DEF PointersInv, EvictedOnce, Final
    <3>2. \A d \in deploys : d.inv # f
      BY <1>1, <2>2 DEF PointersInv, EvictedOnce, TenancyInv, DeploysHold, Final, Tenant, OthersTyped
    <3> QED
      BY <1>3, <2>2, <3>1, <3>2 DEF ResetsEvicted, Reset, PointersInv, WorkPointed, OthersTyped,
         TearFits
  <2> QED
    BY <1>2, <2>1, <2>2 DEF Reset
<1>5. SeatsAccounted'
  BY <1>1, <1>2, <1>3
  DEF ResetsEvicted, PointersInv, SeatsAccounted, Final, Seated, Reset, EvictedOnce,
     TearFits, azInvites, azPool, OthersTyped
<1>6. EvictedOnce'
  BY <1>1, <1>2, <1>3 DEF ResetsEvicted, PointersInv, EvictedOnce, Final, Reset, azInvites,
     azPool, azCloud, OthersTyped, Fits
<1>7. GroupsPointed'
  BY <1>1, <1>2, <1>3
  DEF ResetsEvicted, PointersInv, GroupsPointed, Pointed, Exists, Reset, EvictedOnce,
     azInvites, azCloud, OthersTyped
<1> QED
  BY <1>4, <1>5, <1>6, <1>7 DEF PointersInv

LEMMA RotatesPointers ==
  ASSUME AzShape, TenancyInv, PointersInv, ~Had(Stranding)', NEW r \in Requests, Rotates(r)
  PROVE  PointersInv'
<1> USE NoneIsNobody, AzureNone, ShapeParts
<1>1. /\ \A q \in Requests \ {r} : req'[q] = req[q]
      /\ req'[r].step = "lease" /\ req'[r].inv = req[r].inv /\ req'[r].seat = req[r].seat
      /\ req'[r].grp = req[r].grp /\ req'[r].from = req[r].from
      /\ req[r].step = "rotate" /\ Fits(req[r])
  BY ThenMoves DEF Rotates, AzSteps
<1>2. WorkPointed'
  BY <1>1 DEF Rotates, PointersInv, WorkPointed, azInvites
<1>3. SeatsAccounted'
  BY <1>1 DEF Rotates, PointersInv, SeatsAccounted, Final, Seated, azInvites
<1>4. EvictedOnce'
  BY <1>1 DEF Rotates, PointersInv, EvictedOnce, Final, azInvites, azCloud
<1>5. GroupsPointed'
  BY <1>1 DEF Rotates, PointersInv, GroupsPointed, Pointed, Exists, azInvites, azCloud
<1> QED
  BY <1>2, <1>3, <1>4, <1>5 DEF PointersInv

LEMMA RotateFailsPointers ==
  ASSUME AzShape, TenancyInv, PointersInv, ~Had(Stranding)', NEW r \in Requests,
     RotateFails(r)
  PROVE  PointersInv'
<1> USE NoneIsNobody, AzureNone, ShapeParts
<1>0. Release(req[r].seat, req[r].inv)
  BY GivesBackOnce DEF RotateFails, FaultKinds, Stranding
<1>1. /\ \A q \in Requests \ {r} : req'[q] = req[q]
      /\ req'[r].step = "unclaim" /\ req'[r].inv = req[r].inv /\ req'[r].seat = req[r].seat
      /\ req'[r].grp = req[r].grp /\ req'[r].from = req[r].from
      /\ req[r].step = "rotate" /\ Fits(req[r])
  BY ThenMoves DEF RotateFails, AzSteps
<1>2. WorkPointed'
  BY <1>1 DEF RotateFails, PointersInv, WorkPointed, Release, azInvites
<1>3. SeatsAccounted'
  BY <1>0, <1>1
  DEF RotateFails, PointersInv, SeatsAccounted, Final, Release, TearFits, azInvites,
     OthersTyped
<1>4. EvictedOnce'
  BY <1>0, <1>1
  DEF RotateFails, PointersInv, EvictedOnce, Final, Release, azInvites, azCloud, OthersTyped,
     Fits
<1>5. GroupsPointed'
  BY <1>0, <1>1
  DEF RotateFails, PointersInv, GroupsPointed, Pointed, Exists, Release, azInvites, azCloud
<1> QED
  BY <1>2, <1>3, <1>4, <1>5 DEF PointersInv

LEMMA LeasesGroupPointers ==
  ASSUME AzShape, TenancyInv, PointersInv, ~Had(Stranding)', NEW r \in Requests,
     LeasesGroup(r)
  PROVE  PointersInv'
<1> USE NoneIsNobody, AzureNone, ShapeParts
<1>1. PICK g \in Groups : /\ owner[g] = None
                           /\ owner' = [owner EXCEPT ![g] = req[r].inv]
                           /\ Now(r, [req[r] EXCEPT !.step = "grant", !.grp = g])
  BY DEF LeasesGroup
<1>2. req[r] \in Place /\ Fits(req[r]) /\ req[r].step = "lease"
  BY DEF LeasesGroup
<1>3. /\ \A q \in Requests \ {r} : req'[q] = req[q]
      /\ req'[r] = [req[r] EXCEPT !.step = "grant", !.grp = g]
  BY <1>1, NowMoves
<1>4. /\ req'[r].step = "grant" /\ req'[r].inv = req[r].inv /\ req'[r].seat = req[r].seat
      /\ req'[r].grp = g
  BY <1>2, <1>3, FieldsSet
<1>5. /\ \A q \in Requests \ {r} : req'[q] = req[q]
      /\ req'[r].step = "grant" /\ req'[r].inv = req[r].inv /\ req'[r].seat = req[r].seat
      /\ req'[r].grp = g
      /\ req[r].step = "lease" /\ Fits(req[r])
  BY <1>2, <1>3, <1>4
<1>6. WorkPointed'
  BY <1>5 DEF LeasesGroup, PointersInv, WorkPointed, azInvites
<1>7. SeatsAccounted'
  BY <1>5 DEF LeasesGroup, PointersInv, SeatsAccounted, Final, Seated, azInvites, azPool
<1>8. EvictedOnce'
  BY <1>5 DEF LeasesGroup, PointersInv, EvictedOnce, Final, azInvites, azPool
<1>9. GroupsPointed'
  BY <1>5, <1>1 DEF LeasesGroup, PointersInv, GroupsPointed, Pointed, Exists, azInvites
<1> QED
  BY <1>6, <1>7, <1>8, <1>9 DEF PointersInv

LEMMA LeaseFailsPointers ==
  ASSUME AzShape, TenancyInv, PointersInv, ~Had(Stranding)', NEW r \in Requests,
     LeaseFails(r)
  PROVE  PointersInv'
<1> USE NoneIsNobody, AzureNone, ShapeParts
<1>0. Release(req[r].seat, req[r].inv) /\ UNCHANGED owner
  BY GivesBackOnce DEF LeaseFails, FaultKinds, Stranding
<1>1. /\ \A q \in Requests \ {r} : req'[q] = req[q]
      /\ req'[r].step = "unclaim" /\ req'[r].inv = req[r].inv /\ req'[r].seat = req[r].seat
      /\ req'[r].grp = req[r].grp /\ req'[r].from = req[r].from
      /\ req[r].step = "lease" /\ Fits(req[r])
  BY ThenMoves DEF LeaseFails, AzSteps
<1>2. WorkPointed'
  BY <1>1 DEF LeaseFails, PointersInv, WorkPointed, Release, azInvites
<1>3. SeatsAccounted'
  BY <1>0, <1>1
  DEF LeaseFails, PointersInv, SeatsAccounted, Final, Release, TearFits, azInvites,
     OthersTyped
<1>4. EvictedOnce'
  BY <1>0, <1>1
  DEF LeaseFails, PointersInv, EvictedOnce, Final, Release, azInvites, azCloud, OthersTyped,
     Fits
<1>5. GroupsPointed'
  BY <1>0, <1>1
  DEF LeaseFails, PointersInv, GroupsPointed, Pointed, Exists, Release, azInvites, azCloud
<1> QED
  BY <1>2, <1>3, <1>4, <1>5 DEF PointersInv

LEMMA GrantsPointers ==
  ASSUME AzShape, TenancyInv, PointersInv, ~Had(Stranding)', NEW r \in Requests, Grants(r)
  PROVE  PointersInv'
<1> USE NoneIsNobody, AzureNone, ShapeParts
<1>1. /\ \A q \in Requests \ {r} : req'[q] = req[q]
      /\ req'[r].step = "persist" /\ req'[r].inv = req[r].inv /\ req'[r].seat = req[r].seat
      /\ req'[r].grp = req[r].grp /\ req'[r].from = req[r].from
      /\ req[r].step = "grant" /\ Fits(req[r])
  BY ThenMoves DEF Grants, AzSteps
<1>2. WorkPointed'
  BY <1>1 DEF Grants, PointersInv, WorkPointed, azInvites
<1>3. SeatsAccounted'
  BY <1>1 DEF Grants, PointersInv, SeatsAccounted, Final, Seated, azInvites, azPool
<1>4. EvictedOnce'
  BY <1>1 DEF Grants, PointersInv, EvictedOnce, Final, azInvites, azPool
<1>5. GroupsPointed'
  BY <1>1 DEF Grants, PointersInv, GroupsPointed, Pointed, Exists, azInvites
<1> QED
  BY <1>2, <1>3, <1>4, <1>5 DEF PointersInv

LEMMA GrantFailsPointers ==
  ASSUME AzShape, TenancyInv, PointersInv, ~Had(Stranding)', NEW r \in Requests,
     GrantFails(r)
  PROVE  PointersInv'
<1> USE NoneIsNobody, AzureNone, ShapeParts
<1>0. Release(req[r].seat, req[r].inv)
  BY GivesBackOnce DEF GrantFails, FaultKinds, Stranding
<1>1. /\ \A q \in Requests \ {r} : req'[q] = req[q]
      /\ req'[r].step = "drop" /\ req'[r].inv = req[r].inv /\ req'[r].seat = req[r].seat
      /\ req'[r].grp = req[r].grp /\ req'[r].from = req[r].from
      /\ req[r].step = "grant" /\ Fits(req[r])
  BY ThenMoves DEF GrantFails, AzSteps
<1>2. WorkPointed'
  BY <1>1 DEF GrantFails, PointersInv, WorkPointed, Release, azInvites
<1>3. SeatsAccounted'
  BY <1>0, <1>1
  DEF GrantFails, PointersInv, SeatsAccounted, Final, Release, TearFits, azInvites,
     OthersTyped
<1>4. EvictedOnce'
  BY <1>0, <1>1
  DEF GrantFails, PointersInv, EvictedOnce, Final, Release, azInvites, OthersTyped, Fits
<1>5. GroupsPointed'
  BY <1>0, <1>1 DEF GrantFails, PointersInv, GroupsPointed, Pointed, Exists, Release, azInvites
<1> QED
  BY <1>2, <1>3, <1>4, <1>5 DEF PointersInv

LEMMA DropsGroupPointers ==
  ASSUME AzShape, TenancyInv, PointersInv, ~Had(Stranding)', NEW r \in Requests,
     DropsGroup(r)
  PROVE  PointersInv'
<1> USE NoneIsNobody, AzureNone, ShapeParts
<1>1. /\ \A q \in Requests \ {r} : req'[q] = req[q]
      /\ req'[r].step = "unclaim" /\ req'[r].inv = req[r].inv /\ req'[r].seat = req[r].seat
      /\ req'[r].grp = req[r].grp /\ req'[r].from = req[r].from
      /\ req[r].step = "drop" /\ Fits(req[r])
  BY ThenMoves DEF DropsGroup, AzSteps
<1>2. \E u : u.inv = None /\ u.step = "delete" /\ u.grp = req[r].grp /\ tears' = tears \cup {u}
  BY DEF DropsGroup, Tear
<1>3. WorkPointed'
  BY <1>1, <1>2 DEF DropsGroup, PointersInv, WorkPointed, azInvites
<1>4. SeatsAccounted'
  BY <1>1, <1>2 DEF DropsGroup, PointersInv, SeatsAccounted, Final, Seated, azInvites, azPool
<1>5. EvictedOnce'
  BY <1>1, <1>2
  DEF DropsGroup, PointersInv, EvictedOnce, Final, azInvites, azPool, azCloud, Fits
<1>6. GroupsPointed'
  BY <1>1, <1>2
  DEF DropsGroup, PointersInv, GroupsPointed, Pointed, Exists, azInvites, azCloud
<1> QED
  BY <1>3, <1>4, <1>5, <1>6 DEF PointersInv

LEMMA AzUnclaimsPointers ==
  ASSUME AzShape, TenancyInv, PointersInv, ~Had(Stranding)', NEW r \in Requests,
     AzUnclaims(r)
  PROVE  PointersInv'
<1> USE NoneIsNobody, AzureNone, ShapeParts
<1>1. /\ \A q \in Requests \ {r} : req'[q] = req[q]
      /\ req'[r].step = "rest"
      /\ req[r].step = "unclaim" /\ Fits(req[r])
  BY NowMoves DEF AzUnclaims, Replies, Rest, Doing
<1>2. WorkPointed'
  BY <1>1 DEF AzUnclaims, PointersInv, WorkPointed, Unlock
<1>3. SeatsAccounted'
  BY <1>1 DEF AzUnclaims, PointersInv, SeatsAccounted, Final, Seated, Unlock, azPool
<1>4. EvictedOnce'
  BY <1>1 DEF AzUnclaims, PointersInv, EvictedOnce, Final, Unlock, azPool, azCloud
<1>5. GroupsPointed'
  BY <1>1 DEF AzUnclaims, PointersInv, GroupsPointed, Pointed, Exists, Unlock, azCloud
<1> QED
  BY <1>2, <1>3, <1>4, <1>5 DEF PointersInv

LEMMA PersistsPointers ==
  ASSUME AzShape, TenancyInv, PointersInv, ~Had(Stranding)', NEW r \in Requests, Persists(r)
  PROVE  PointersInv'
<1> USE NoneIsNobody, AzureNone, ShapeParts
<1>1. /\ \A q \in Requests \ {r} : req'[q] = req[q]
      /\ req'[r].step = "dispatch" /\ req'[r].inv = req[r].inv /\ req'[r].seat = req[r].seat
      /\ req'[r].grp = req[r].grp /\ req'[r].from = req[r].from
      /\ req[r].step = "persist" /\ Fits(req[r])
  BY ThenMoves DEF Persists, AzSteps
<1>2. /\ group[req[r].inv] = None /\ req[r].inv \in Invites
      /\ req[r].grp \in Groups /\ req[r].seat \in Seats
  BY <1>1 DEF TenancyInv, ClaimsExclude, Starting, Seated, Fits
<1>3. WorkPointed'
  <2>1. \A d \in deploys : d.inv # req[r].inv
    BY <1>2 DEF PointersInv, WorkPointed, OthersTyped
  <2>2. \A t \in tears : t.inv # None => t.inv # req[r].inv
    BY <1>2 DEF PointersInv, WorkPointed, OthersTyped, TearFits
  <2> QED
    BY <1>2, <2>1, <2>2 DEF Persists, PointersInv, WorkPointed
<1>4. SeatsAccounted'
  <2>1. (\A x \in Seats : holder[x] # None =>
          \/ \E q \in Requests : req[q].step \in Seated /\ req[q].inv = holder[x] /\ req[q].seat = x
          \/ group[holder[x]] # None /\ seat[holder[x]] = x)'
    <3> SUFFICES ASSUME NEW x \in Seats, holder[x] # None
                 PROVE  \/ \E q \in Requests : /\ req'[q].step \in Seated /\ req'[q].inv = holder[x]
                                               /\ req'[q].seat = x
                        \/ group'[holder[x]] # None /\ seat'[holder[x]] = x
      BY DEF Persists, azPool
    <3>1. CASE group[holder[x]] # None /\ seat[holder[x]] = x
      BY <1>2, <3>1 DEF Persists
    <3>2. CASE req[r].inv = holder[x] /\ req[r].seat = x
      BY <1>2, <3>2 DEF Persists, OthersTyped
    <3>3. ASSUME NEW q \in Requests \ {r}, req[q].step \in Seated, req[q].inv = holder[x],
                 req[q].seat = x
          PROVE  /\ req'[q].step \in Seated /\ req'[q].inv = holder[x]
                 /\ req'[q].seat = x
      BY <1>1, <3>3
    <3> QED
      BY <3>1, <3>2, <3>3 DEF PointersInv, SeatsAccounted
  <2>2. \A t \in tears : t.inv # None => t.inv # req[r].inv
    BY <1>2 DEF PointersInv, WorkPointed, OthersTyped, TearFits
  <2>3. (\A t \in tears : t.step = "reset" => Final(t.inv) \/ holder[t.seat] # t.inv)'
    BY <1>2, <2>2 DEF Persists, PointersInv, SeatsAccounted, Final, azPool
  <2> QED
    BY <2>1, <2>3 DEF SeatsAccounted
<1>5. EvictedOnce'
  BY <1>1, <1>2 DEF Persists, PointersInv, EvictedOnce, Final, azPool, azCloud
<1>6. GroupsPointed'
  BY <1>1, <1>2 DEF Persists, PointersInv, GroupsPointed, Pointed, Exists, azCloud, OthersTyped
<1> QED
  BY <1>3, <1>4, <1>5, <1>6 DEF PointersInv

LEMMA AzDispatchesPointers ==
  ASSUME AzShape, TenancyInv, PointersInv, ~Had(Stranding)', NEW r \in Requests,
     AzDispatches(r)
  PROVE  PointersInv'
<1> USE NoneIsNobody, AzureNone, ShapeParts
<1>1. /\ \A q \in Requests \ {r} : req'[q] = req[q]
      /\ req'[r].step = "rest"
      /\ req[r].step = "dispatch" /\ Fits(req[r])
  BY NowMoves DEF AzDispatches, Replies, Rest, Doing
<1>2. PICK d : d = Deploy(req[r].inv, req[r].grp, req[r].seat)
  OBVIOUS
<1>3. deploys' = deploys \cup {d} /\ d.inv = req[r].inv /\ d.grp = req[r].grp /\ d.seat = req[r].seat
  BY <1>2 DEF AzDispatches, Deploy
<1>4. WorkPointed'
  BY <1>1, <1>3 DEF AzDispatches, PointersInv, WorkPointed, TenancyInv, SessionsStand, azInvites
<1>5. SeatsAccounted'
  BY <1>1, <1>2, <1>3
  DEF AzDispatches, PointersInv, SeatsAccounted, Final, Seated, Deploy, azInvites, azPool
<1>6. EvictedOnce'
  BY <1>1, <1>2, <1>3
  DEF AzDispatches, PointersInv, EvictedOnce, Final, Deploy, azInvites, azPool, azCloud
<1>7. GroupsPointed'
  BY <1>1, <1>2, <1>3
  DEF AzDispatches, PointersInv, GroupsPointed, Pointed, Exists, Deploy, azInvites, azCloud
<1> QED
  BY <1>4, <1>5, <1>6, <1>7 DEF PointersInv

LEMMA AzSubmitsPointers ==
  ASSUME AzShape, TenancyInv, PointersInv, ~Had(Stranding)', NEW r \in Requests, NEW i \in
     Invites, AzSubmits(r, i)
  PROVE  PointersInv'
<1> USE NoneIsNobody, AzureNone, ShapeParts
<1>1. /\ \A q \in Requests \ {r} : req'[q] = req[q]
      /\ req'[r].step = "mark" /\ req'[r].inv = i
      /\ req'[r].seat = seat[i] /\ req'[r].grp = group[i]
      /\ req[r].step = "rest"
  BY NowMoves DEF AzSubmits, Doing, Rest
<1>2. WorkPointed'
  BY <1>1 DEF AzSubmits, PointersInv, WorkPointed, azInvites
<1>3. SeatsAccounted'
  BY <1>1 DEF AzSubmits, PointersInv, SeatsAccounted, Final, Seated, azInvites, azPool
<1>4. EvictedOnce'
  BY <1>1 DEF AzSubmits, PointersInv, EvictedOnce, Final, azInvites, azPool, azCloud
<1>5. GroupsPointed'
  BY <1>1 DEF AzSubmits, PointersInv, GroupsPointed, Pointed, Exists, azInvites, azCloud
<1> QED
  BY <1>2, <1>3, <1>4, <1>5 DEF PointersInv

LEMMA AzMarksPointers ==
  ASSUME AzShape, TenancyInv, PointersInv, ~Had(Stranding)', NEW r \in Requests, AzMarks(r)
  PROVE  PointersInv'
<1> USE NoneIsNobody, AzureNone, ShapeParts
<1>1. /\ \A q \in Requests \ {r} : req'[q] = req[q]
      /\ req'[r].step = "finish" /\ req'[r].inv = req[r].inv /\ req'[r].seat = req[r].seat
      /\ req'[r].grp = req[r].grp /\ req'[r].from = req[r].from
      /\ req[r].step = "mark" /\ Fits(req[r])
  BY ThenMoves DEF AzMarks, AzSteps
<1>2. phase' = [phase EXCEPT ![req[r].inv] = "closed"] /\ req[r].inv \in Invites
  BY <1>1, FaultCounts DEF AzMarks, Derailing, Stranding, FaultKinds, Fits
<1>3. WorkPointed'
  BY <1>1, <1>2 DEF AzMarks, PointersInv, WorkPointed
<1>4. SeatsAccounted'
  BY <1>1, <1>2 DEF AzMarks, PointersInv, SeatsAccounted, Final, Seated, azPool
<1>5. EvictedOnce'
  BY <1>1, <1>2 DEF AzMarks, PointersInv, EvictedOnce, Final, azPool, azCloud
<1>6. GroupsPointed'
  BY <1>1, <1>2 DEF AzMarks, PointersInv, GroupsPointed, Pointed, Exists, azCloud
<1> QED
  BY <1>3, <1>4, <1>5, <1>6 DEF PointersInv

LEMMA AzFinishesPointers ==
  ASSUME AzShape, TenancyInv, PointersInv, ~Had(Stranding)', NEW r \in Requests,
     AzFinishes(r)
  PROVE  PointersInv'
<1> USE NoneIsNobody, AzureNone, ShapeParts
<1>1. /\ \A q \in Requests \ {r} : req'[q] = req[q]
      /\ req'[r].step = "rest"
      /\ req[r].step = "finish" /\ Fits(req[r])
  BY NowMoves DEF AzFinishes, Replies, Rest, Doing
<1>2. \A t \in tears' : t \in tears \/ t = Tear("delete", req[r].grp, req[r].seat, req[r].inv)
  BY DEF AzFinishes
<1>3. WorkPointed'
  <2>1. \A t \in tears' \ tears : t.inv = req[r].inv /\ t.grp = req[r].grp /\ t.seat = req[r].seat
    BY <1>2 DEF Tear
  <2> QED
    BY <1>1, <2>1 DEF AzFinishes, PointersInv, WorkPointed, TenancyInv, SessionsStand, azInvites
<1>4. SeatsAccounted'
  BY <1>1, <1>2
  DEF AzFinishes, PointersInv, SeatsAccounted, Final, Seated, Tear, azInvites, azPool
<1>5. EvictedOnce'
  <2>1. \A t \in tears' \ tears : t.inv = req[r].inv
    BY <1>2 DEF Tear
  <2>2. Final(req[r].inv) /\ tears \subseteq tears'
    BY <1>1 DEF AzFinishes, TenancyInv, SessionsStand, Final, Fits
  <2> QED
    BY <1>1, <2>1, <2>2 DEF AzFinishes, PointersInv, EvictedOnce, Final, azInvites, azPool, azCloud
<1>6. GroupsPointed'
  BY <1>1, <1>2
  DEF AzFinishes, PointersInv, GroupsPointed, Pointed, Exists, azInvites, azCloud
<1> QED
  BY <1>3, <1>4, <1>5, <1>6 DEF PointersInv

LEMMA ReconnectsPointers ==
  ASSUME AzShape, TenancyInv, PointersInv, ~Had(Stranding)', NEW i \in Invites, Reconnects(i)
  PROVE  PointersInv'
<1> USE NoneIsNobody, AzureNone, ShapeParts
<1>1. WorkPointed'
  BY DEF Reconnects, PointersInv, WorkPointed, InRoom, azInvites
<1>2. SeatsAccounted'
  BY DEF Reconnects, PointersInv, SeatsAccounted, Final, InRoom, azInvites
<1>3. EvictedOnce'
  BY DEF Reconnects, PointersInv, EvictedOnce, Final, InRoom, azInvites, azCloud
<1>4. GroupsPointed'
  BY DEF Reconnects, PointersInv, GroupsPointed, Pointed, Exists, InRoom, azInvites, azCloud
<1> QED
  BY <1>1, <1>2, <1>3, <1>4 DEF PointersInv

LEMMA AzRevokesPointers ==
  ASSUME AzShape, TenancyInv, PointersInv, ~Had(Stranding)', NEW i \in Invites, AzRevokes(i)
  PROVE  PointersInv'
<1> USE NoneIsNobody, AzureNone, ShapeParts
<1>1. WorkPointed'
  BY DEF AzRevokes, PointersInv, WorkPointed
<1>2. SeatsAccounted'
  BY DEF AzRevokes, PointersInv, SeatsAccounted, Final, azPool
<1>3. EvictedOnce'
  BY DEF AzRevokes, PointersInv, EvictedOnce, Final, azPool, azCloud
<1>4. GroupsPointed'
  BY DEF AzRevokes, PointersInv, GroupsPointed, Pointed, Exists, azCloud
<1> QED
  BY <1>1, <1>2, <1>3, <1>4 DEF PointersInv

LEMMA LockAgesPointers ==
  ASSUME AzShape, TenancyInv, PointersInv, ~Had(Stranding)', NEW i \in Invites, LockAges(i)
  PROVE  PointersInv'
<1> USE NoneIsNobody, AzureNone, ShapeParts
<1>1. WorkPointed'
  BY DEF LockAges, PointersInv, WorkPointed
<1>2. SeatsAccounted'
  BY DEF LockAges, PointersInv, SeatsAccounted, Final, azPool
<1>3. EvictedOnce'
  BY DEF LockAges, PointersInv, EvictedOnce, Final, azPool, azCloud
<1>4. GroupsPointed'
  BY DEF LockAges, PointersInv, GroupsPointed, Pointed, Exists, azCloud
<1> QED
  BY <1>1, <1>2, <1>3, <1>4 DEF PointersInv

LEMMA SeatAgesPointers ==
  ASSUME AzShape, TenancyInv, PointersInv, ~Had(Stranding)', NEW s \in Seats, SeatAges(s)
  PROVE  PointersInv'
<1> USE NoneIsNobody, AzureNone, ShapeParts
<1>1. WorkPointed'
  BY DEF SeatAges, PointersInv, WorkPointed, azInvites
<1>2. SeatsAccounted'
  BY DEF SeatAges, PointersInv, SeatsAccounted, Final, azInvites
<1>3. EvictedOnce'
  BY DEF SeatAges, PointersInv, EvictedOnce, Final, azInvites, azCloud
<1>4. GroupsPointed'
  BY DEF SeatAges, PointersInv, GroupsPointed, Pointed, Exists, azInvites, azCloud
<1> QED
  BY <1>1, <1>2, <1>3, <1>4 DEF PointersInv

LEMMA AzDeploysPointers ==
  ASSUME AzShape, TenancyInv, PointersInv, ~Had(Stranding)', NEW d \in deploys, AzDeploys(d)
  PROVE  PointersInv'
<1> USE NoneIsNobody, AzureNone, ShapeParts
<1>1. WorkPointed'
  BY DEF AzDeploys, PointersInv, WorkPointed, azInvites
<1>2. SeatsAccounted'
  BY DEF AzDeploys, PointersInv, SeatsAccounted, Final, azInvites, azPool
<1>3. EvictedOnce'
  BY DEF AzDeploys, PointersInv, EvictedOnce, Final, azInvites, azPool, azCloud
<1>4. GroupsPointed'
  BY DEF AzDeploys, PointersInv, GroupsPointed, Pointed, Exists, azInvites, azCloud
<1> QED
  BY <1>1, <1>2, <1>3, <1>4 DEF PointersInv

LEMMA AzDeployFailsPointers ==
  ASSUME AzShape, TenancyInv, PointersInv, ~Had(Stranding)', NEW d \in deploys,
     AzDeployFails(d)
  PROVE  PointersInv'
<1> USE NoneIsNobody, AzureNone, ShapeParts
<1>1. d \in [inv : Invites, grp : Groups, seat : Seats]
  BY DEF OthersTyped
<1>2. PICK u : u = Tear("delete", d.grp, d.seat, d.inv)
  OBVIOUS
<1>3. deploys' = deploys \ {d} /\ tears' = tears \cup {u}
  BY <1>2 DEF AzDeployFails
<1>4. u.step = "delete" /\ u.grp = d.grp /\ u.seat = d.seat /\ u.inv = d.inv
  BY <1>2 DEF Tear
<1>5. WorkPointed'
  BY <1>1, <1>2, <1>3, <1>4 DEF AzDeployFails, PointersInv, WorkPointed, azInvites
<1>6. SeatsAccounted'
  BY <1>1, <1>2, <1>3, <1>4
  DEF AzDeployFails, PointersInv, SeatsAccounted, Final, azInvites, azPool
<1>7. EvictedOnce'
  <2>1. \A q \in Requests : req[q].step \in {"evict", "reset"} => Final(d.inv) \/ req[q].from # d.inv
    BY <1>1 DEF PointersInv, EvictedOnce, TenancyInv, DeploysHold, Tenant
  <2> QED
    BY <1>3, <1>4, <2>1 DEF AzDeployFails, PointersInv, EvictedOnce, Final, azInvites, azPool, azCloud
<1>8. GroupsPointed'
  BY <1>1, <1>2, <1>3, <1>4
  DEF AzDeployFails, PointersInv, GroupsPointed, Pointed, Exists, azInvites, azCloud
<1> QED
  BY <1>5, <1>6, <1>7, <1>8 DEF PointersInv

LEMMA DeletesPointers ==
  ASSUME AzShape, TenancyInv, PointersInv, ~Had(Stranding)', NEW t \in tears, Deletes(t)
  PROVE  PointersInv'
<1> USE NoneIsNobody, AzureNone, ShapeParts
<1>1. TearFits(t)
  BY DEF OthersTyped
<1>2. \A u \in tears' : u \in tears \/ (t.inv # None /\ u.step = "release" /\ u.grp = t.grp /\ u.seat = t.seat /\ u.inv = t.inv)
  BY DEF Deletes, Tear
<1>3. gone' = gone \cup {t.grp}
  BY DEF Deletes
<1>4. Clearing(t) => t.inv # None
  BY DEF Clearing
<1>5. WorkPointed'
  BY <1>1, <1>2, <1>3, <1>4 DEF Deletes, PointersInv, WorkPointed, azInvites
<1>6. SeatsAccounted'
  BY <1>1, <1>2, <1>3, <1>4
  DEF Deletes, PointersInv, SeatsAccounted, Final, azInvites, azPool
<1>7. EvictedOnce'
  BY <1>1, <1>2, <1>3, <1>4 DEF Deletes, PointersInv, EvictedOnce, Final, azInvites, azPool
<1>8. GroupsPointed'
  BY <1>1, <1>2, <1>3, <1>4
  DEF Deletes, PointersInv, GroupsPointed, Pointed, Exists, azInvites
<1> QED
  BY <1>5, <1>6, <1>7, <1>8 DEF PointersInv

LEMMA ReleasesPointers ==
  ASSUME AzShape, TenancyInv, PointersInv, ~Had(Stranding)', NEW t \in tears, Releases(t)
  PROVE  PointersInv'
<1> USE NoneIsNobody, AzureNone, ShapeParts
<1>1. TearFits(t) /\ t.seat \in Seats /\ t.inv \in Invites /\ t.step = "release"
  BY DEF OthersTyped, TearFits, Releases
<1>2. \A u \in tears' : u \in tears \ {t} \/ (u.step = "reset" /\ u.grp = t.grp /\ u.inv = t.inv /\ u.seat = t.seat)
  BY <1>1 DEF Releases, TearFits
<1>3. WorkPointed'
  BY <1>1, <1>2 DEF Releases, PointersInv, WorkPointed, Release, azInvites
<1>4. SeatsAccounted'
  BY <1>1, <1>2
  DEF Releases, PointersInv, SeatsAccounted, Final, Release, TearFits, azInvites, OthersTyped
<1>5. EvictedOnce'
  BY <1>1, <1>2
  DEF Releases, PointersInv, EvictedOnce, Final, Release, azInvites, azCloud, OthersTyped,
     Fits
<1>6. GroupsPointed'
  BY <1>1, <1>2
  DEF Releases, PointersInv, GroupsPointed, Pointed, Exists, Release, azInvites, azCloud
<1> QED
  BY <1>3, <1>4, <1>5, <1>6 DEF PointersInv

LEMMA ResetsPointers ==
  ASSUME AzShape, TenancyInv, PointersInv, ~Had(Stranding)', NEW t \in tears, Resets(t)
  PROVE  PointersInv'
<1> USE NoneIsNobody, AzureNone, ShapeParts
<1>1. TearFits(t) /\ t.inv \in Invites /\ t.step = "reset"
  BY DEF OthersTyped, TearFits, Resets
<1>2. Reset(t.inv) /\ (phase[t.inv] = "started" => ~Attended(t.inv))
  BY OvertakesNone DEF Resets, Stranding, Derailing
<1>3. WorkPointed'
  <2>1. CASE phase[t.inv] # "started"
    BY <2>1 DEF Resets, Reset, PointersInv, WorkPointed, azInvites
  <2>2. CASE phase[t.inv] = "started"
    <3>1. holder[t.seat] # t.inv /\ ~Final(t.inv) /\ t.inv # None /\ seat[t.inv] = t.seat
      BY <1>1, <2>2 DEF PointersInv, SeatsAccounted, Final, WorkPointed
    <3>2. \A d \in deploys : d.inv # t.inv
      BY <3>1 DEF PointersInv, WorkPointed, TenancyInv, DeploysHold, Tenant
    <3>3. ASSUME NEW u \in tears, u.inv = t.inv PROVE u = t
      <4>1. ~Clearing(u)
        BY <3>1, <3>3 DEF PointersInv, WorkPointed, TenancyInv, TearsHold, Tenant
      <4>2. u.step = t.step /\ u.grp = t.grp /\ u.seat = t.seat
        BY <1>1, <3>1, <3>3, <4>1 DEF Clearing, PointersInv, WorkPointed
      <4> QED
        BY <1>1, <3>3, <4>2 DEF OthersTyped, TearFits
    <3> QED
      BY <1>1, <2>2, <3>2, <3>3 DEF Resets, Reset, PointersInv, WorkPointed, OthersTyped, TearFits
  <2> QED
    BY <2>1, <2>2
<1>4. SeatsAccounted'
  BY <1>1, <1>2
  DEF Resets, PointersInv, SeatsAccounted, Final, Reset, WorkPointed, TearFits, azInvites,
     azPool, OthersTyped
<1>5. EvictedOnce'
  BY <1>1, <1>2 DEF Resets, PointersInv, EvictedOnce, Final, Reset, azInvites, azPool,
     azCloud, OthersTyped, Fits
<1>6. GroupsPointed'
  <2>1. group[t.inv] = t.grp /\ t.grp \in gone /\ t.inv # None
    BY <1>1 DEF PointersInv, WorkPointed, TenancyInv, TearsHold
  <2> QED
    BY <1>1, <1>2, <2>1 DEF Resets, Reset, PointersInv, GroupsPointed, Pointed, Exists, azInvites, azCloud,
       OthersTyped
<1> QED
  BY <1>3, <1>4, <1>5, <1>6 DEF PointersInv

LEMMA TearFailsPointers ==
  ASSUME AzShape, TenancyInv, PointersInv, ~Had(Stranding)', NEW t \in tears, TearFails(t)
  PROVE  PointersInv'
<1> USE NoneIsNobody, AzureNone, ShapeParts
<1>1. TearFits(t)
  BY DEF OthersTyped
<1>2. tears' = tears \ {t} /\ t.inv # None
  BY FaultCounts DEF TearFails, Stranding, FaultKinds
<1>3. WorkPointed'
  BY <1>1, <1>2 DEF TearFails, PointersInv, WorkPointed, azInvites
<1>4. SeatsAccounted'
  BY <1>1, <1>2 DEF TearFails, PointersInv, SeatsAccounted, Final, azInvites, azPool
<1>5. EvictedOnce'
  BY <1>1, <1>2 DEF TearFails, PointersInv, EvictedOnce, Final, azInvites, azPool, azCloud
<1>6. GroupsPointed'
  BY <1>1, <1>2
  DEF TearFails, PointersInv, GroupsPointed, Pointed, Exists, azInvites, azCloud
<1> QED
  BY <1>3, <1>4, <1>5, <1>6 DEF PointersInv

-----------------------------------------------------------------------------
(* Who can open what                                                         *)

\* The seat that opens group g is still with the invite that the group was made for, which
\* points to both or is about to.
HeldBack(g) ==
  /\ holder[granted[g]] = owner[g]
  /\ \/ group[owner[g]] = g /\ seat[owner[g]] = granted[g]
     \/ \E r \in Requests : /\ req[r].step = "persist" /\ req[r].grp = g
                            /\ req[r].seat = granted[g] /\ req[r].inv = owner[g]

\* It is, or the group is on its way out.
AccessOf(g) ==
  \/ \E t \in tears : t.inv = None /\ t.grp = g
  \/ \E r \in Requests : \/ req[r].step = "drop" /\ req[r].grp = g
                         \/ req[r].step = "evict" /\ group[req[r].from] = g
  \/ HeldBack(g)
AccessHeld == \A g \in Groups : Exists(g) /\ granted[g] # None => AccessOf(g)

\* A group is made for one start, and opened by nothing before that start grants it.
GroupsFresh ==
  /\ \A g \in Groups : owner[g] = None => granted[g] = None
  /\ \A r \in Requests : req[r].step = "grant" => owner[req[r].grp] = req[r].inv

AccessInv == AccessHeld /\ GroupsFresh


\* Each action keeps who can open what.
LEMMA FindsNoSeatAccess ==
  ASSUME AzShape, TenancyInv, PointersInv, AccessInv, ~Had(Exposing)', NEW r \in Requests,
     FindsNoSeat(r)
  PROVE  AccessInv'
<1> USE NoneIsNobody, AzureNone, ShapeParts
<1>1. /\ \A q \in Requests \ {r} : req'[q] = req[q]
      /\ req'[r].step = "unclaim" /\ req'[r].inv = req[r].inv /\ req'[r].seat = req[r].seat
      /\ req'[r].grp = req[r].grp /\ req'[r].from = req[r].from
      /\ req[r].step = "seat" /\ Fits(req[r])
  BY ThenMoves DEF FindsNoSeat, AzSteps
<1>2. AccessHeld'
  BY <1>1
  DEF FindsNoSeat, AccessInv, AccessHeld, AccessOf, HeldBack, Exists, azInvites, azPool,
     azCloud
<1>3. GroupsFresh'
  BY <1>1 DEF FindsNoSeat, AccessInv, GroupsFresh, azCloud
<1> QED
  BY <1>2, <1>3 DEF AccessInv

LEMMA AzStartsAccess ==
  ASSUME AzShape, TenancyInv, PointersInv, AccessInv, ~Had(Exposing)', NEW r \in Requests,
     NEW i \in Invites, AzStarts(r, i)
  PROVE  AccessInv'
<1> USE NoneIsNobody, AzureNone, ShapeParts
<1>1. /\ \A q \in Requests \ {r} : req'[q] = req[q]
      /\ req'[r].step = "claim" /\ req'[r].inv = i
      /\ req[r].step = "rest"
  BY NowMoves DEF AzStarts, Doing, Rest
<1>2. AccessHeld'
  BY <1>1
  DEF AzStarts, AccessInv, AccessHeld, AccessOf, HeldBack, Exists, azInvites, azPool, azCloud
<1>3. GroupsFresh'
  BY <1>1 DEF AzStarts, AccessInv, GroupsFresh, azCloud
<1> QED
  BY <1>2, <1>3 DEF AccessInv

LEMMA AzClaimsAccess ==
  ASSUME AzShape, TenancyInv, PointersInv, AccessInv, ~Had(Exposing)', NEW r \in Requests,
     AzClaims(r)
  PROVE  AccessInv'
<1> USE NoneIsNobody, AzureNone, ShapeParts
<1>1. /\ \A q \in Requests \ {r} : req'[q] = req[q]
      /\ req[r].step = "claim" /\ req[r].inv \in Invites
  BY ThenMoves, NowMoves DEF AzClaims, AzSteps, Replies, Fits
<1>2. \/ /\ group[req[r].inv] = None /\ phase[req[r].inv] = "booked" /\ req[r].inv \notin locked
         /\ locked' = locked \cup {req[r].inv}
         /\ req'[r].step = "seat" /\ req'[r].inv = req[r].inv
      \/ UNCHANGED locked /\ req'[r].step = "rest"
  BY ThenMoves, NowMoves DEF AzClaims, AzSteps, Replies, Rest, Doing
<1>3. AccessHeld'
  BY <1>1, <1>2
  DEF AzClaims, AccessInv, AccessHeld, AccessOf, HeldBack, Exists, azPool, azCloud
<1>4. GroupsFresh'
  BY <1>1, <1>2 DEF AzClaims, AccessInv, GroupsFresh, azCloud
<1> QED
  BY <1>3, <1>4 DEF AccessInv

LEMMA TakesFreeAccess ==
  ASSUME AzShape, TenancyInv, PointersInv, AccessInv, ~Had(Exposing)', NEW r \in Requests,
     TakesFree(r)
  PROVE  AccessInv'
<1> USE NoneIsNobody, AzureNone, ShapeParts
<1>1. PICK s \in Seats : /\ holder[s] = None
                          /\ holder' = [holder EXCEPT ![s] = req[r].inv]
                          /\ Now(r, Doing("rotate", req[r].inv, s, None, None))
  BY DEF TakesFree
<1>2. /\ \A q \in Requests \ {r} : req'[q] = req[q]
      /\ req'[r].step = "rotate" /\ req'[r].inv = req[r].inv /\ req'[r].seat = s
      /\ req[r].step = "seat" /\ req[r].inv \in Invites /\ s \notin aged
  BY <1>1, NowMoves DEF TakesFree, Doing, Fits, OthersTyped
<1>3. group[req[r].inv] = None
  BY <1>2 DEF TenancyInv, ClaimsExclude, Starting
<1>4. AccessHeld'
  BY <1>1, <1>2, <1>3
  DEF TakesFree, AccessInv, AccessHeld, AccessOf, HeldBack, Exists, azInvites, azCloud
<1>5. GroupsFresh'
  BY <1>1, <1>2, <1>3 DEF TakesFree, AccessInv, GroupsFresh, azCloud
<1> QED
  BY <1>4, <1>5 DEF AccessInv

LEMMA TakesOverAccess ==
  ASSUME AzShape, TenancyInv, PointersInv, AccessInv, ~Had(Exposing)', NEW r \in Requests,
     TakesOver(r)
  PROVE  AccessInv'
<1> USE NoneIsNobody, AzureNone, ShapeParts
<1>1. PICK s \in aged : /\ holder' = [holder EXCEPT ![s] = req[r].inv]
                         /\ aged' = aged \ {s}
                         /\ Now(r, Doing("evict", req[r].inv, s, None, holder[s]))
  BY DEF TakesOver
<1>2. /\ \A q \in Requests \ {r} : req'[q] = req[q]
      /\ req'[r].step = "evict" /\ req'[r].inv = req[r].inv /\ req'[r].seat = s
      /\ req'[r].from = holder[s]
      /\ req[r].step = "seat" /\ req[r].inv \in Invites /\ s \in Seats /\ holder[s] \in Invites
  BY <1>1, NowMoves DEF TakesOver, Doing, Fits, OthersTyped
<1>3. group[req[r].inv] = None
  BY <1>2 DEF TenancyInv, ClaimsExclude, Starting
<1>4. AccessHeld'
  <2> SUFFICES ASSUME NEW g \in Groups, Exists(g), granted[g] # None
               PROVE  AccessOf(g)'
    BY DEF TakesOver, AccessHeld, AccessOf, Exists, azCloud
  <2>1. \/ \E t \in tears : t.inv = None /\ t.grp = g
        \/ \E q \in Requests : \/ req[q].step = "drop" /\ req[q].grp = g
                               \/ req[q].step = "evict" /\ group[req[q].from] = g
        \/ HeldBack(g)
    BY DEF AccessInv, AccessHeld, AccessOf
  <2>2. CASE \E t \in tears : t.inv = None /\ t.grp = g
    BY <2>2 DEF TakesOver, AccessOf
  <2>3. CASE \E q \in Requests : \/ req[q].step = "drop" /\ req[q].grp = g
                                 \/ req[q].step = "evict" /\ group[req[q].from] = g
    BY <1>2, <2>3 DEF TakesOver, AccessOf, azInvites
  <2>4. CASE HeldBack(g)
    <3>1. CASE granted[g] # s
      <4>1. holder'[granted[g]] = holder[granted[g]]
        BY <1>1, <3>1
      <4>2. UNCHANGED <<group, seat, owner, granted>>
        BY DEF TakesOver, azInvites, azCloud
      <4> QED
        <5>1. HeldBack(g)'
          <6>1. \A q \in Requests : req[q].step = "persist" => req'[q] = req[q]
            BY <1>2
          <6> QED
            BY <2>4, <4>1, <4>2, <6>1 DEF HeldBack
        <5> QED
          BY <5>1 DEF AccessOf
    <3>2. CASE granted[g] = s
      <4>1. \A q \in Requests : req[q].step = "persist" => req[q].seat # s
        BY <1>1, <1>2 DEF TenancyInv, StartsHold, InHand, Final, Tenant, ClaimsExclude, Starting, Seated
      <4>2. group[holder[s]] = g
        BY <2>4, <3>2, <4>1 DEF HeldBack
      <4> QED
        BY <1>2, <4>2 DEF TakesOver, AccessOf, azInvites
    <3> QED
      BY <3>1, <3>2
  <2> QED
    BY <2>1, <2>2, <2>3, <2>4
<1>5. GroupsFresh'
  BY <1>1, <1>2, <1>3 DEF TakesOver, AccessInv, GroupsFresh, azCloud
<1> QED
  BY <1>4, <1>5 DEF AccessInv

LEMMA EvictsAccess ==
  ASSUME AzShape, TenancyInv, PointersInv, AccessInv, ~Had(Exposing)', NEW r \in Requests,
     Evicts(r)
  PROVE  AccessInv'
<1> USE NoneIsNobody, AzureNone, ShapeParts
<1>1. /\ \A q \in Requests \ {r} : req'[q] = req[q]
      /\ req'[r].step \in {"reset", "rotate"} /\ req'[r].inv = req[r].inv
      /\ req'[r].seat = req[r].seat /\ req'[r].from = req[r].from
      /\ req[r].step = "evict" /\ Fits(req[r])
  BY ThenMoves DEF Evicts, AzSteps
<1>2. group[req[r].from] # None
  BY <1>1 DEF PointersInv, EvictedOnce
<1>3. ~Fault("evict")
  BY FaultCounts DEF FaultKinds, Exposing
<1>4. \E u : u.inv = None /\ u.grp = group[req[r].from] /\ tears' = tears \cup {u}
  BY <1>2, <1>3 DEF Evicts, Tear
<1>5. UNCHANGED azInvites /\ UNCHANGED azPool /\ UNCHANGED azCloud
  BY DEF Evicts
<1>6. AccessHeld'
  BY <1>1, <1>2, <1>3, <1>4, <1>5
  DEF Evicts, AccessInv, AccessHeld, AccessOf, HeldBack, Exists, azInvites, azPool, azCloud
<1>7. GroupsFresh'
  BY <1>1, <1>2, <1>3, <1>4, <1>5 DEF Evicts, AccessInv, GroupsFresh, azCloud
<1> QED
  BY <1>6, <1>7 DEF AccessInv

LEMMA ResetsEvictedAccess ==
  ASSUME AzShape, TenancyInv, PointersInv, AccessInv, ~Had(Exposing)', NEW r \in Requests,
     ResetsEvicted(r)
  PROVE  AccessInv'
<1> USE NoneIsNobody, AzureNone, ShapeParts
<1>1. /\ \A q \in Requests \ {r} : req'[q] = req[q]
      /\ req'[r].step = "rotate" /\ req'[r].inv = req[r].inv /\ req'[r].seat = req[r].seat
      /\ req'[r].grp = req[r].grp /\ req'[r].from = req[r].from
      /\ req[r].step = "reset" /\ Fits(req[r])
  BY ThenMoves DEF ResetsEvicted, AzSteps
<1>2. \/ Reset(req[r].from) /\ (phase[req[r].from] = "started" => ~Attended(req[r].from))
      \/ UNCHANGED azInvites
  BY OvertakesNone, FaultCounts DEF ResetsEvicted, Stranding, Exposing, Derailing
<1>3. req[r].from \in Invites
  BY <1>1 DEF Fits
<1>4. AccessHeld'
  <2> DEFINE f == req[r].from
  <2> SUFFICES ASSUME NEW g \in Groups, Exists(g), granted[g] # None
               PROVE  AccessOf(g)'
    BY DEF ResetsEvicted, AccessHeld, Exists, azCloud
  <2>1. AccessOf(g) /\ UNCHANGED <<holder, owner, granted, gone, tears>>
    BY DEF AccessInv, AccessHeld, ResetsEvicted, azPool, azCloud
  <2>2. CASE \E t \in tears : t.inv = None /\ t.grp = g
    BY <2>1, <2>2 DEF AccessOf
  <2>3. ASSUME NEW q \in Requests, req[q].step = "drop" /\ req[q].grp = g PROVE AccessOf(g)'
    BY <1>1, <2>3 DEF AccessOf
  <2>4. CASE group[f] = g
    BY <1>1, <2>1, <2>4 DEF PointersInv, EvictedOnce, AccessOf, Exists
  <2>5. \A i \in Invites : group[i] = g /\ i # f => group'[i] = g /\ seat'[i] = seat[i]
    BY <1>2 DEF Reset, azInvites, OthersTyped
  <2>6. ASSUME NEW q \in Requests, req[q].step = "evict", group[req[q].from] = g, group[f] # g
        PROVE  AccessOf(g)'
    <3>1. req'[q] = req[q] /\ req[q].from \in Invites
      BY <1>1, <2>6 DEF Fits
    <3> QED
      BY <2>5, <2>6, <3>1 DEF AccessOf
  <2>7. CASE HeldBack(g) /\ group[f] # g
    <3>1. owner[g] \in Invites
      BY DEF Exists, OthersTyped
    <3>2. CASE group[owner[g]] = g /\ seat[owner[g]] = granted[g]
      BY <2>1, <2>5, <2>7, <3>1, <3>2 DEF HeldBack, AccessOf
    <3>3. CASE group[owner[g]] # g \/ seat[owner[g]] # granted[g]
      BY <1>1, <2>1, <2>7, <3>3 DEF HeldBack, AccessOf
    <3> QED
      BY <3>2, <3>3
  <2> QED
    BY <2>1, <2>2, <2>3, <2>4, <2>6, <2>7 DEF AccessOf
<1>5. GroupsFresh'
  BY <1>1, <1>2, <1>3 DEF ResetsEvicted, AccessInv, GroupsFresh, Reset, azCloud
<1> QED
  BY <1>4, <1>5 DEF AccessInv

LEMMA RotatesAccess ==
  ASSUME AzShape, TenancyInv, PointersInv, AccessInv, ~Had(Exposing)', NEW r \in Requests,
     Rotates(r)
  PROVE  AccessInv'
<1> USE NoneIsNobody, AzureNone, ShapeParts
<1>1. /\ \A q \in Requests \ {r} : req'[q] = req[q]
      /\ req'[r].step = "lease" /\ req'[r].inv = req[r].inv /\ req'[r].seat = req[r].seat
      /\ req'[r].grp = req[r].grp /\ req'[r].from = req[r].from
      /\ req[r].step = "rotate" /\ Fits(req[r])
  BY ThenMoves DEF Rotates, AzSteps
<1>2. AccessHeld'
  BY <1>1 DEF Rotates, AccessInv, AccessHeld, AccessOf, HeldBack, Exists, azInvites, azCloud
<1>3. GroupsFresh'
  BY <1>1 DEF Rotates, AccessInv, GroupsFresh, azCloud
<1> QED
  BY <1>2, <1>3 DEF AccessInv

LEMMA RotateFailsAccess ==
  ASSUME AzShape, TenancyInv, PointersInv, AccessInv, ~Had(Exposing)', NEW r \in Requests,
     RotateFails(r)
  PROVE  AccessInv'
<1> USE NoneIsNobody, AzureNone, ShapeParts
<1>0. Release(req[r].seat, req[r].inv)
  BY GivesBackOnce DEF RotateFails, FaultKinds, Exposing, Stranding
<1>1. /\ \A q \in Requests \ {r} : req'[q] = req[q]
      /\ req'[r].step = "unclaim" /\ req'[r].inv = req[r].inv /\ req'[r].seat = req[r].seat
      /\ req'[r].grp = req[r].grp /\ req'[r].from = req[r].from
      /\ req[r].step = "rotate" /\ Fits(req[r])
  BY ThenMoves DEF RotateFails, AzSteps
<1>2. AccessHeld'
  <2> SUFFICES ASSUME NEW g \in Groups, Exists(g), granted[g] # None
               PROVE  AccessOf(g)'
    BY DEF RotateFails, AccessHeld, Exists, azCloud
  <2>1. AccessOf(g) /\ UNCHANGED <<group, seat, owner, granted, gone, tears>>
    BY DEF AccessInv, AccessHeld, RotateFails, azInvites, azCloud
  <2>2. CASE HeldBack(g)
    <3>1. ~(holder[granted[g]] = req[r].inv /\ granted[g] = req[r].seat)
      BY <1>1, <2>2, AzureNone DEF HeldBack, TenancyInv, ClaimsExclude, Starting, Seated
    <3>2. holder'[granted[g]] = holder[granted[g]]
      BY <1>0, <3>1 DEF RotateFails, Release, OthersTyped
    <3> QED
      BY <1>1, <2>1, <2>2, <3>2 DEF HeldBack, AccessOf
  <2> QED
    BY <1>1, <2>1, <2>2 DEF AccessOf
<1>3. GroupsFresh'
  BY <1>0, <1>1 DEF RotateFails, AccessInv, GroupsFresh, Release, azCloud
<1> QED
  BY <1>2, <1>3 DEF AccessInv

LEMMA LeasesGroupAccess ==
  ASSUME AzShape, TenancyInv, PointersInv, AccessInv, ~Had(Exposing)', NEW r \in Requests,
     LeasesGroup(r)
  PROVE  AccessInv'
<1> USE NoneIsNobody, AzureNone, ShapeParts
<1>1. PICK g \in Groups : /\ owner[g] = None
                           /\ owner' = [owner EXCEPT ![g] = req[r].inv]
                           /\ Now(r, [req[r] EXCEPT !.step = "grant", !.grp = g])
  BY DEF LeasesGroup
<1>2. req[r] \in Place /\ Fits(req[r]) /\ req[r].step = "lease"
  BY DEF LeasesGroup
<1>3. /\ \A q \in Requests \ {r} : req'[q] = req[q]
      /\ req'[r] = [req[r] EXCEPT !.step = "grant", !.grp = g]
  BY <1>1, NowMoves
<1>4. /\ req'[r].step = "grant" /\ req'[r].inv = req[r].inv /\ req'[r].seat = req[r].seat
      /\ req'[r].grp = g
  BY <1>2, <1>3, FieldsSet
<1>5. /\ \A q \in Requests \ {r} : req'[q] = req[q]
      /\ req'[r].step = "grant" /\ req'[r].inv = req[r].inv /\ req'[r].seat = req[r].seat
      /\ req'[r].grp = g
      /\ req[r].step = "lease" /\ Fits(req[r])
  BY <1>2, <1>3, <1>4
<1>6. AccessHeld'
  <2> SUFFICES ASSUME NEW h \in Groups, Exists(h)', granted[h] # None
               PROVE  AccessOf(h)'
    BY DEF LeasesGroup, AccessHeld
  <2>1. h # g
    BY <1>1 DEF AccessInv, GroupsFresh
  <2>2. owner'[h] = owner[h] /\ UNCHANGED <<group, seat, holder, granted, gone, tears>>
    BY <1>1, <2>1 DEF LeasesGroup, azInvites, azPool
  <2>3. AccessOf(h)
    BY <2>2 DEF AccessInv, AccessHeld, Exists
  <2> QED
    BY <1>5, <2>2, <2>3 DEF AccessOf, HeldBack
<1>7. GroupsFresh'
  BY <1>1, <1>5 DEF LeasesGroup, AccessInv, GroupsFresh, OthersTyped, Fits
<1> QED
  BY <1>6, <1>7 DEF AccessInv

LEMMA LeaseFailsAccess ==
  ASSUME AzShape, TenancyInv, PointersInv, AccessInv, ~Had(Exposing)', NEW r \in Requests,
     LeaseFails(r)
  PROVE  AccessInv'
<1> USE NoneIsNobody, AzureNone, ShapeParts
<1>0. Release(req[r].seat, req[r].inv) /\ UNCHANGED owner
  BY GivesBackOnce DEF LeaseFails, FaultKinds, Exposing, Stranding
<1>1. /\ \A q \in Requests \ {r} : req'[q] = req[q]
      /\ req'[r].step = "unclaim" /\ req'[r].inv = req[r].inv /\ req'[r].seat = req[r].seat
      /\ req'[r].grp = req[r].grp /\ req'[r].from = req[r].from
      /\ req[r].step = "lease" /\ Fits(req[r])
  BY ThenMoves DEF LeaseFails, AzSteps
<1>2. AccessHeld'
  <2> SUFFICES ASSUME NEW g \in Groups, Exists(g), granted[g] # None
               PROVE  AccessOf(g)'
    BY <1>0 DEF LeaseFails, AccessHeld, Exists, azCloud
  <2>1. AccessOf(g) /\ UNCHANGED <<group, seat, owner, granted, gone, tears>>
    BY <1>0 DEF AccessInv, AccessHeld, LeaseFails, azInvites, azCloud
  <2>2. CASE HeldBack(g)
    <3>1. ~(holder[granted[g]] = req[r].inv /\ granted[g] = req[r].seat)
      BY <1>1, <2>2, AzureNone DEF HeldBack, TenancyInv, ClaimsExclude, Starting, Seated
    <3>2. holder'[granted[g]] = holder[granted[g]]
      BY <1>0, <3>1 DEF LeaseFails, Release, OthersTyped
    <3> QED
      BY <1>1, <2>1, <2>2, <3>2 DEF HeldBack, AccessOf
  <2> QED
    BY <1>1, <2>1, <2>2 DEF AccessOf
<1>3. GroupsFresh'
  BY <1>0, <1>1 DEF LeaseFails, AccessInv, GroupsFresh, Release, azCloud
<1> QED
  BY <1>2, <1>3 DEF AccessInv

LEMMA GrantsAccess ==
  ASSUME AzShape, TenancyInv, PointersInv, AccessInv, ~Had(Exposing)', NEW r \in Requests,
     Grants(r)
  PROVE  AccessInv'
<1> USE NoneIsNobody, AzureNone, ShapeParts
<1>1. /\ \A q \in Requests \ {r} : req'[q] = req[q]
      /\ req'[r].step = "persist" /\ req'[r].inv = req[r].inv /\ req'[r].seat = req[r].seat
      /\ req'[r].grp = req[r].grp /\ req'[r].from = req[r].from
      /\ req[r].step = "grant" /\ Fits(req[r])
  BY ThenMoves DEF Grants, AzSteps
<1>2. AccessHeld'
  <2> SUFFICES ASSUME NEW g \in Groups, Exists(g), granted'[g] # None
               PROVE  AccessOf(g)'
    BY DEF Grants, AccessHeld, Exists
  <2>1. UNCHANGED <<group, seat, holder, owner, gone, tears>>
    BY DEF Grants, azInvites, azPool
  <2>2. CASE g = req[r].grp
    <3>1. granted'[g] = req[r].seat /\ owner[g] = req[r].inv
      BY <1>1, <2>2 DEF Grants, AccessInv, GroupsFresh, OthersTyped
    <3>2. holder[req[r].seat] = req[r].inv
      BY <1>1 DEF TenancyInv, StartsHold, InHand, Final, Tenant, ClaimsExclude, Starting, Seated
    <3> QED
      BY <1>1, <2>1, <2>2, <3>1, <3>2 DEF AccessOf, HeldBack
  <2>3. CASE g # req[r].grp
    <3>1. granted'[g] = granted[g]
      BY <1>1, <2>3 DEF Grants
    <3>2. AccessOf(g)
      BY <3>1 DEF AccessInv, AccessHeld
    <3> QED
      BY <1>1, <2>1, <3>1, <3>2 DEF AccessOf, HeldBack
  <2> QED
    BY <2>2, <2>3
<1>3. GroupsFresh'
  BY <1>1 DEF Grants, AccessInv, GroupsFresh, Fits
<1> QED
  BY <1>2, <1>3 DEF AccessInv

LEMMA GrantFailsAccess ==
  ASSUME AzShape, TenancyInv, PointersInv, AccessInv, ~Had(Exposing)', NEW r \in Requests,
     GrantFails(r)
  PROVE  AccessInv'
<1> USE NoneIsNobody, AzureNone, ShapeParts
<1>0. Release(req[r].seat, req[r].inv)
  BY GivesBackOnce DEF GrantFails, FaultKinds, Exposing, Stranding
<1>1. /\ \A q \in Requests \ {r} : req'[q] = req[q]
      /\ req'[r].step = "drop" /\ req'[r].inv = req[r].inv /\ req'[r].seat = req[r].seat
      /\ req'[r].grp = req[r].grp /\ req'[r].from = req[r].from
      /\ req[r].step = "grant" /\ Fits(req[r])
  BY ThenMoves DEF GrantFails, AzSteps
<1>2. AccessHeld'
  <2> SUFFICES ASSUME NEW g \in Groups, Exists(g), granted'[g] # None
               PROVE  AccessOf(g)'
    BY DEF GrantFails, AccessHeld, Exists
  <2>1. UNCHANGED <<group, seat, owner, gone, tears>>
    BY DEF GrantFails, azInvites
  <2>2. CASE g = req[r].grp
    BY <1>1, <2>2 DEF AccessOf
  <2>3. CASE g # req[r].grp
    <3>1. granted'[g] = granted[g]
      BY <1>1, <2>3 DEF GrantFails, OthersTyped
    <3>2. AccessOf(g)
      BY <3>1 DEF AccessInv, AccessHeld
    <3>3. CASE HeldBack(g)
      <4>1. ~(holder[granted[g]] = req[r].inv /\ granted[g] = req[r].seat)
        BY <1>1, <3>1, <3>3 DEF HeldBack, TenancyInv, ClaimsExclude, Starting, Seated
      <4>2. holder'[granted[g]] = holder[granted[g]]
        BY <1>0, <3>1, <4>1 DEF GrantFails, Release, OthersTyped
      <4>3. \A q \in Requests : req[q].step = "persist" => req'[q] = req[q]
        BY <1>1
      <4>4. HeldBack(g)'
        BY <2>1, <3>1, <3>3, <4>2, <4>3 DEF HeldBack
      <4> QED
        BY <4>4 DEF AccessOf
    <3> QED
      BY <1>1, <2>1, <3>1, <3>2, <3>3 DEF AccessOf
  <2> QED
    BY <2>2, <2>3
<1>3. GroupsFresh'
  BY <1>0, <1>1 DEF GrantFails, AccessInv, GroupsFresh, Release, OthersTyped, Fits
<1> QED
  BY <1>2, <1>3 DEF AccessInv

LEMMA DropsGroupAccess ==
  ASSUME AzShape, TenancyInv, PointersInv, AccessInv, ~Had(Exposing)', NEW r \in Requests,
     DropsGroup(r)
  PROVE  AccessInv'
<1> USE NoneIsNobody, AzureNone, ShapeParts
<1>1. /\ \A q \in Requests \ {r} : req'[q] = req[q]
      /\ req'[r].step = "unclaim" /\ req'[r].inv = req[r].inv /\ req'[r].seat = req[r].seat
      /\ req'[r].grp = req[r].grp /\ req'[r].from = req[r].from
      /\ req[r].step = "drop" /\ Fits(req[r])
  BY ThenMoves DEF DropsGroup, AzSteps
<1>2. \E u : u.inv = None /\ u.step = "delete" /\ u.grp = req[r].grp /\ tears' = tears \cup {u}
  BY DEF DropsGroup, Tear
<1>3. AccessHeld'
  BY <1>1, <1>2
  DEF DropsGroup, AccessInv, AccessHeld, AccessOf, HeldBack, Exists, azInvites, azPool,
     azCloud
<1>4. GroupsFresh'
  BY <1>1, <1>2 DEF DropsGroup, AccessInv, GroupsFresh, azCloud
<1> QED
  BY <1>3, <1>4 DEF AccessInv

LEMMA AzUnclaimsAccess ==
  ASSUME AzShape, TenancyInv, PointersInv, AccessInv, ~Had(Exposing)', NEW r \in Requests,
     AzUnclaims(r)
  PROVE  AccessInv'
<1> USE NoneIsNobody, AzureNone, ShapeParts
<1>1. /\ \A q \in Requests \ {r} : req'[q] = req[q]
      /\ req'[r].step = "rest"
      /\ req[r].step = "unclaim" /\ Fits(req[r])
  BY NowMoves DEF AzUnclaims, Replies, Rest, Doing
<1>2. AccessHeld'
  BY <1>1
  DEF AzUnclaims, AccessInv, AccessHeld, AccessOf, HeldBack, Exists, Unlock, azPool, azCloud
<1>3. GroupsFresh'
  BY <1>1 DEF AzUnclaims, AccessInv, GroupsFresh, Unlock, azCloud
<1> QED
  BY <1>2, <1>3 DEF AccessInv

LEMMA PersistsAccess ==
  ASSUME AzShape, TenancyInv, PointersInv, AccessInv, ~Had(Exposing)', NEW r \in Requests,
     Persists(r)
  PROVE  AccessInv'
<1> USE NoneIsNobody, AzureNone, ShapeParts
<1>1. /\ \A q \in Requests \ {r} : req'[q] = req[q]
      /\ req'[r].step = "dispatch" /\ req'[r].inv = req[r].inv /\ req'[r].seat = req[r].seat
      /\ req'[r].grp = req[r].grp /\ req'[r].from = req[r].from
      /\ req[r].step = "persist" /\ Fits(req[r])
  BY ThenMoves DEF Persists, AzSteps
<1>2. /\ group[req[r].inv] = None /\ req[r].inv \in Invites
      /\ req[r].grp \in Groups /\ req[r].seat \in Seats
  BY <1>1 DEF TenancyInv, ClaimsExclude, Starting, Seated, Fits
<1>3. AccessHeld'
  BY <1>1, <1>2
  DEF Persists, AccessInv, AccessHeld, AccessOf, HeldBack, Exists, azPool, azCloud,
     OthersTyped
<1>4. GroupsFresh'
  BY <1>1, <1>2 DEF Persists, AccessInv, GroupsFresh, azCloud
<1> QED
  BY <1>3, <1>4 DEF AccessInv

LEMMA AzDispatchesAccess ==
  ASSUME AzShape, TenancyInv, PointersInv, AccessInv, ~Had(Exposing)', NEW r \in Requests,
     AzDispatches(r)
  PROVE  AccessInv'
<1> USE NoneIsNobody, AzureNone, ShapeParts
<1>1. /\ \A q \in Requests \ {r} : req'[q] = req[q]
      /\ req'[r].step = "rest"
      /\ req[r].step = "dispatch" /\ Fits(req[r])
  BY NowMoves DEF AzDispatches, Replies, Rest, Doing
<1>2. PICK d : d = Deploy(req[r].inv, req[r].grp, req[r].seat)
  OBVIOUS
<1>3. deploys' = deploys \cup {d} /\ d.inv = req[r].inv /\ d.grp = req[r].grp /\ d.seat = req[r].seat
  BY <1>2 DEF AzDispatches, Deploy
<1>4. AccessHeld'
  BY <1>1, <1>2, <1>3
  DEF AzDispatches, AccessInv, AccessHeld, AccessOf, HeldBack, Exists, Deploy, azInvites,
     azPool, azCloud
<1>5. GroupsFresh'
  BY <1>1, <1>2, <1>3 DEF AzDispatches, AccessInv, GroupsFresh, Deploy, azCloud
<1> QED
  BY <1>4, <1>5 DEF AccessInv

LEMMA AzSubmitsAccess ==
  ASSUME AzShape, TenancyInv, PointersInv, AccessInv, ~Had(Exposing)', NEW r \in Requests,
     NEW i \in Invites, AzSubmits(r, i)
  PROVE  AccessInv'
<1> USE NoneIsNobody, AzureNone, ShapeParts
<1>1. /\ \A q \in Requests \ {r} : req'[q] = req[q]
      /\ req'[r].step = "mark" /\ req'[r].inv = i
      /\ req'[r].seat = seat[i] /\ req'[r].grp = group[i]
      /\ req[r].step = "rest"
  BY NowMoves DEF AzSubmits, Doing, Rest
<1>2. AccessHeld'
  BY <1>1
  DEF AzSubmits, AccessInv, AccessHeld, AccessOf, HeldBack, Exists, azInvites, azPool,
     azCloud
<1>3. GroupsFresh'
  BY <1>1 DEF AzSubmits, AccessInv, GroupsFresh, azCloud
<1> QED
  BY <1>2, <1>3 DEF AccessInv

LEMMA AzMarksAccess ==
  ASSUME AzShape, TenancyInv, PointersInv, AccessInv, ~Had(Exposing)', NEW r \in Requests,
     AzMarks(r)
  PROVE  AccessInv'
<1> USE NoneIsNobody, AzureNone, ShapeParts
<1>1. /\ \A q \in Requests \ {r} : req'[q] = req[q]
      /\ req'[r].step = "finish" /\ req'[r].inv = req[r].inv /\ req'[r].seat = req[r].seat
      /\ req'[r].grp = req[r].grp /\ req'[r].from = req[r].from
      /\ req[r].step = "mark" /\ Fits(req[r])
  BY ThenMoves DEF AzMarks, AzSteps
<1>2. phase' = [phase EXCEPT ![req[r].inv] = "closed"] /\ req[r].inv \in Invites
  BY <1>1, FaultCounts DEF AzMarks, Derailing, Stranding, Exposing, FaultKinds, Fits
<1>3. AccessHeld'
  BY <1>1, <1>2
  DEF AzMarks, AccessInv, AccessHeld, AccessOf, HeldBack, Exists, azPool, azCloud
<1>4. GroupsFresh'
  BY <1>1, <1>2 DEF AzMarks, AccessInv, GroupsFresh, azCloud
<1> QED
  BY <1>3, <1>4 DEF AccessInv

LEMMA AzFinishesAccess ==
  ASSUME AzShape, TenancyInv, PointersInv, AccessInv, ~Had(Exposing)', NEW r \in Requests,
     AzFinishes(r)
  PROVE  AccessInv'
<1> USE NoneIsNobody, AzureNone, ShapeParts
<1>1. /\ \A q \in Requests \ {r} : req'[q] = req[q]
      /\ req'[r].step = "rest"
      /\ req[r].step = "finish" /\ Fits(req[r])
  BY NowMoves DEF AzFinishes, Replies, Rest, Doing
<1>2. \A t \in tears' : t \in tears \/ t = Tear("delete", req[r].grp, req[r].seat, req[r].inv)
  BY DEF AzFinishes
<1>3. AccessHeld'
  BY <1>1, <1>2
  DEF AzFinishes, AccessInv, AccessHeld, AccessOf, HeldBack, Exists, azInvites, azPool,
     azCloud
<1>4. GroupsFresh'
  BY <1>1, <1>2 DEF AzFinishes, AccessInv, GroupsFresh, azCloud
<1> QED
  BY <1>3, <1>4 DEF AccessInv

LEMMA ReconnectsAccess ==
  ASSUME AzShape, TenancyInv, PointersInv, AccessInv, ~Had(Exposing)', NEW i \in Invites,
     Reconnects(i)
  PROVE  AccessInv'
<1> USE NoneIsNobody, AzureNone, ShapeParts
<1>1. AccessHeld'
  BY DEF Reconnects, AccessInv, AccessHeld, AccessOf, HeldBack, Exists, InRoom, azInvites,
     azCloud
<1>2. GroupsFresh'
  BY DEF Reconnects, AccessInv, GroupsFresh, InRoom, azCloud
<1> QED
  BY <1>1, <1>2 DEF AccessInv

LEMMA AzRevokesAccess ==
  ASSUME AzShape, TenancyInv, PointersInv, AccessInv, ~Had(Exposing)', NEW i \in Invites,
     AzRevokes(i)
  PROVE  AccessInv'
<1> USE NoneIsNobody, AzureNone, ShapeParts
<1>1. AccessHeld'
  BY DEF AzRevokes, AccessInv, AccessHeld, AccessOf, HeldBack, Exists, azPool, azCloud
<1>2. GroupsFresh'
  BY DEF AzRevokes, AccessInv, GroupsFresh, azCloud
<1> QED
  BY <1>1, <1>2 DEF AccessInv

LEMMA LockAgesAccess ==
  ASSUME AzShape, TenancyInv, PointersInv, AccessInv, ~Had(Exposing)', NEW i \in Invites,
     LockAges(i)
  PROVE  AccessInv'
<1> USE NoneIsNobody, AzureNone, ShapeParts
<1>1. AccessHeld'
  BY DEF LockAges, AccessInv, AccessHeld, AccessOf, HeldBack, Exists, azPool, azCloud
<1>2. GroupsFresh'
  BY DEF LockAges, AccessInv, GroupsFresh, azCloud
<1> QED
  BY <1>1, <1>2 DEF AccessInv

LEMMA SeatAgesAccess ==
  ASSUME AzShape, TenancyInv, PointersInv, AccessInv, ~Had(Exposing)', NEW s \in Seats,
     SeatAges(s)
  PROVE  AccessInv'
<1> USE NoneIsNobody, AzureNone, ShapeParts
<1>1. AccessHeld'
  BY DEF SeatAges, AccessInv, AccessHeld, AccessOf, HeldBack, Exists, azInvites, azCloud
<1>2. GroupsFresh'
  BY DEF SeatAges, AccessInv, GroupsFresh, azCloud
<1> QED
  BY <1>1, <1>2 DEF AccessInv

LEMMA AzDeploysAccess ==
  ASSUME AzShape, TenancyInv, PointersInv, AccessInv, ~Had(Exposing)', NEW d \in deploys,
     AzDeploys(d)
  PROVE  AccessInv'
<1> USE NoneIsNobody, AzureNone, ShapeParts
<1>1. AccessHeld'
  BY DEF AzDeploys, AccessInv, AccessHeld, AccessOf, HeldBack, Exists, azInvites, azPool,
     azCloud
<1>2. GroupsFresh'
  BY DEF AzDeploys, AccessInv, GroupsFresh, azCloud
<1> QED
  BY <1>1, <1>2 DEF AccessInv

LEMMA AzDeployFailsAccess ==
  ASSUME AzShape, TenancyInv, PointersInv, AccessInv, ~Had(Exposing)', NEW d \in deploys,
     AzDeployFails(d)
  PROVE  AccessInv'
<1> USE NoneIsNobody, AzureNone, ShapeParts
<1>1. d \in [inv : Invites, grp : Groups, seat : Seats]
  BY DEF OthersTyped
<1>2. PICK u : u = Tear("delete", d.grp, d.seat, d.inv)
  OBVIOUS
<1>3. deploys' = deploys \ {d} /\ tears' = tears \cup {u}
  BY <1>2 DEF AzDeployFails
<1>4. u.step = "delete" /\ u.grp = d.grp /\ u.seat = d.seat /\ u.inv = d.inv
  BY <1>2 DEF Tear
<1>5. AccessHeld'
  BY <1>1, <1>2, <1>3, <1>4
  DEF AzDeployFails, AccessInv, AccessHeld, AccessOf, HeldBack, Exists, azInvites, azPool,
     azCloud
<1>6. GroupsFresh'
  BY <1>1, <1>2, <1>3, <1>4 DEF AzDeployFails, AccessInv, GroupsFresh, azCloud
<1> QED
  BY <1>5, <1>6 DEF AccessInv

LEMMA DeletesAccess ==
  ASSUME AzShape, TenancyInv, PointersInv, AccessInv, ~Had(Exposing)', NEW t \in tears,
     Deletes(t)
  PROVE  AccessInv'
<1> USE NoneIsNobody, AzureNone, ShapeParts
<1>1. TearFits(t)
  BY DEF OthersTyped
<1>2. \A u \in tears' : u \in tears \/ (t.inv # None /\ u.step = "release" /\ u.grp = t.grp /\ u.seat = t.seat /\ u.inv = t.inv)
  BY DEF Deletes, Tear
<1>3. gone' = gone \cup {t.grp}
  BY DEF Deletes
<1>4. Clearing(t) => t.inv # None
  BY DEF Clearing
<1>5. AccessHeld'
  BY <1>1, <1>2, <1>3, <1>4
  DEF Deletes, AccessInv, AccessHeld, AccessOf, HeldBack, Exists, azInvites, azPool
<1>6. GroupsFresh'
  BY <1>1, <1>2, <1>3, <1>4 DEF Deletes, AccessInv, GroupsFresh
<1> QED
  BY <1>5, <1>6 DEF AccessInv

LEMMA ReleasesAccess ==
  ASSUME AzShape, TenancyInv, PointersInv, AccessInv, ~Had(Exposing)', NEW t \in tears,
     Releases(t)
  PROVE  AccessInv'
<1> USE NoneIsNobody, AzureNone, ShapeParts
<1>1. TearFits(t) /\ t.seat \in Seats /\ t.inv \in Invites /\ t.step = "release"
  BY DEF OthersTyped, TearFits, Releases
<1>2. \A u \in tears' : u \in tears \ {t} \/ (u.step = "reset" /\ u.grp = t.grp /\ u.inv = t.inv /\ u.seat = t.seat)
  BY <1>1 DEF Releases, TearFits
<1>3. AccessHeld'
  <2> SUFFICES ASSUME NEW g \in Groups, Exists(g), granted[g] # None
               PROVE  AccessOf(g)'
    BY DEF Releases, AccessHeld, Exists, azCloud
  <2>1. AccessOf(g) /\ UNCHANGED <<group, seat, owner, granted, gone, req>>
    BY DEF AccessInv, AccessHeld, Releases, azInvites, azCloud
  <2>2. CASE HeldBack(g)
    <3>1. t.inv # None /\ group[t.inv] = t.grp /\ t.grp \in gone /\ t.grp # None
      BY <1>1 DEF PointersInv, WorkPointed, TenancyInv, TearsHold, TearFits
    <3>2. ASSUME NEW q \in Requests, req[q].step = "persist" PROVE req[q].inv # t.inv
      BY <3>1, <3>2 DEF TenancyInv, ClaimsExclude, Starting, Seated
    <3>3. owner[g] # t.inv
      BY <2>2, <3>1, <3>2 DEF HeldBack, Exists
    <3>4. holder'[granted[g]] = holder[granted[g]]
      BY <2>2, <3>3 DEF Releases, Release, HeldBack, OthersTyped
    <3> QED
      BY <2>1, <2>2, <3>4 DEF HeldBack, AccessOf
  <2>3. ASSUME NEW u \in tears, u.inv = None PROVE u \in tears'
    BY <1>1, <2>3 DEF Releases
  <2> QED
    BY <2>1, <2>2, <2>3 DEF AccessOf
<1>4. GroupsFresh'
  BY <1>1, <1>2 DEF Releases, AccessInv, GroupsFresh, Release, azCloud
<1> QED
  BY <1>3, <1>4 DEF AccessInv

LEMMA ResetsAccess ==
  ASSUME AzShape, TenancyInv, PointersInv, AccessInv, ~Had(Exposing)', NEW t \in tears,
     Resets(t)
  PROVE  AccessInv'
<1> USE NoneIsNobody, AzureNone, ShapeParts
<1>1. TearFits(t) /\ t.inv \in Invites /\ t.step = "reset"
  BY DEF OthersTyped, TearFits, Resets
<1>2. Reset(t.inv) /\ (phase[t.inv] = "started" => ~Attended(t.inv))
  BY OvertakesNone DEF Resets, Stranding, Exposing, Derailing
<1>3. AccessHeld'
  <2> SUFFICES ASSUME NEW g \in Groups, Exists(g), granted[g] # None
               PROVE  AccessOf(g)'
    BY DEF Resets, AccessHeld, Exists, azCloud
  <2>1. AccessOf(g) /\ UNCHANGED <<holder, owner, granted, gone, req>>
    BY DEF AccessInv, AccessHeld, Resets, azPool, azCloud
  <2>2. group[t.inv] # g
    BY <1>1 DEF PointersInv, WorkPointed, TenancyInv, TearsHold, Exists
  <2>3. \A i \in Invites : group[i] = g => group'[i] = g /\ seat'[i] = seat[i]
    BY <1>1, <1>2, <2>2 DEF Reset, azInvites, OthersTyped
  <2>4. ASSUME NEW u \in tears, u.inv = None PROVE u \in tears'
    BY <1>1, <2>4 DEF Resets
  <2>5. ASSUME NEW q \in Requests, req[q].step = "evict" PROVE req[q].from \in Invites
    BY <2>5 DEF Fits
  <2>6. owner[g] \in Invites
    BY DEF Exists, OthersTyped
  <2>7. HeldBack(g) => HeldBack(g)'
    BY <2>1, <2>3, <2>6 DEF HeldBack
  <2> QED
    BY <2>1, <2>3, <2>4, <2>5, <2>7 DEF AccessOf
<1>4. GroupsFresh'
  BY <1>1, <1>2 DEF Resets, AccessInv, GroupsFresh, Reset, azCloud
<1> QED
  BY <1>3, <1>4 DEF AccessInv

LEMMA TearFailsAccess ==
  ASSUME AzShape, TenancyInv, PointersInv, AccessInv, ~Had(Exposing)', NEW t \in tears,
     TearFails(t)
  PROVE  AccessInv'
<1> USE NoneIsNobody, AzureNone, ShapeParts
<1>1. TearFits(t)
  BY DEF OthersTyped
<1>2. tears' = tears \ {t} /\ t.inv # None
  BY FaultCounts DEF TearFails, Stranding, Exposing, FaultKinds
<1>3. AccessHeld'
  BY <1>1, <1>2
  DEF TearFails, AccessInv, AccessHeld, AccessOf, HeldBack, Exists, azInvites, azPool,
     azCloud
<1>4. GroupsFresh'
  BY <1>1, <1>2 DEF TearFails, AccessInv, GroupsFresh, azCloud
<1> QED
  BY <1>3, <1>4 DEF AccessInv

-----------------------------------------------------------------------------
(* The steps together                                                        *)

\* Whether a kind of fault has happened is not forgotten.
LEMMA FaultsKept ==
  ASSUME AzShape, [AzNext]_azVars, NEW kinds, ~Had(kinds)'
  PROVE  ~Had(kinds)
<1>1. UNCHANGED faults => ~Had(kinds)
  BY DEF Had
<1>2. ASSUME NEW kind \in FaultKinds, Fault(kind) PROVE ~Had(kinds)
  BY <1>2, FaultCounts
<1>3. ASSUME NEW i, Overtakes(i) PROVE ~Had(kinds)
  BY <1>1, <1>2, <1>3 DEF Overtakes, FaultKinds
<1>4. ASSUME NEW r \in Requests, AzProceeds(r) PROVE ~Had(kinds)
  BY <1>1, <1>2, <1>3, <1>4
  DEF AzProceeds, AzClaims, TakesFree, TakesOver, FindsNoSeat, Evicts, ResetsEvicted, Rotates,
      GivesBack, RotateFails, LeasesGroup, LeaseFails, Grants, GrantFails, DropsGroup, AzUnclaims,
      Persists, AzDispatches, PersistFails, AzMarks, AzFinishes, AzRequestDies, FaultKinds
<1>5. ASSUME NEW r \in Requests, AzArrives(r) PROVE ~Had(kinds)
  BY <1>1, <1>5 DEF AzArrives, AzStarts, AzSubmits
<1>6. CASE AzWorker
  BY <1>1, <1>2, <1>3, <1>6
  DEF AzWorker, AzDeploys, AzDeployFails, Deletes, Releases, Resets, TearFails, FaultKinds
<1>7. ASSUME NEW i \in Invites, Reconnects(i) \/ AzRevokes(i) \/ LockAges(i) PROVE ~Had(kinds)
  BY <1>1, <1>7 DEF Reconnects, AzRevokes, LockAges
<1>8. ASSUME NEW s \in Seats, SeatAges(s) PROVE ~Had(kinds)
  BY <1>1, <1>8 DEF SeatAges
<1>9. CASE UNCHANGED azVars
  BY <1>1, <1>9 DEF azVars
<1> QED
  BY <1>4, <1>5, <1>6, <1>7, <1>8, <1>9 DEF AzNext

\* The kinds of faults that the layers tolerate become fewer.
LEMMA KindsNest ==
  /\ ~Had(Exposing) => ~Had(Stranding)
  /\ ~Had(Stranding) => ~Had(Derailing)
BY DEF Had, Exposing, Stranding

LEMMA KindsNestNext ==
  /\ ~Had(Exposing)' => ~Had(Stranding)'
  /\ ~Had(Stranding)' => ~Had(Derailing)'
BY DEF Had, Exposing, Stranding

\* One step per action, layer by layer.
LEMMA TenancyStep ==
  ASSUME AzShape, TenancyInv, ~Had(Derailing)', [AzNext]_azVars
  PROVE  TenancyInv'
<1>1. ASSUME NEW r \in Requests, AzProceeds(r) PROVE TenancyInv'
  BY <1>1, AzClaimsTenancy, TakesFreeTenancy, TakesOverTenancy, FindsNoSeatTenancy, EvictsTenancy,
     ResetsEvictedTenancy, RotatesTenancy, RotateFailsTenancy, LeasesGroupTenancy, LeaseFailsTenancy,
     GrantsTenancy, GrantFailsTenancy, DropsGroupTenancy, AzUnclaimsTenancy, PersistsTenancy,
     AzDispatchesTenancy, PersistFailsTenancy, AzMarksTenancy, AzFinishesTenancy,
     AzRequestDiesTenancy
  DEF AzProceeds
<1>2. ASSUME NEW r \in Requests, AzArrives(r) PROVE TenancyInv'
  BY <1>2, AzStartsTenancy, AzSubmitsTenancy DEF AzArrives
<1>3. CASE AzWorker
  BY <1>3, AzDeploysTenancy, AzDeployFailsTenancy, DeletesTenancy, ReleasesTenancy, ResetsTenancy,
     TearFailsTenancy
  DEF AzWorker
<1>4. ASSUME NEW i \in Invites, Reconnects(i) \/ AzRevokes(i) \/ LockAges(i) PROVE TenancyInv'
  BY <1>4, ReconnectsTenancy, AzRevokesTenancy, LockAgesTenancy
<1>5. ASSUME NEW s \in Seats, SeatAges(s) PROVE TenancyInv'
  BY <1>5, SeatAgesTenancy
<1>6. CASE UNCHANGED azVars
  BY <1>6
  DEF azVars, azInvites, azPool, azCloud, TenancyInv, ClaimsExclude, SessionsStand,
     StartsHold, DeploysHold, TearsHold, SecretsHeld, InHand, Final, Tenant
<1> QED
  BY <1>1, <1>2, <1>3, <1>4, <1>5, <1>6 DEF AzNext

LEMMA PointersStep ==
  ASSUME AzShape, TenancyInv, PointersInv, ~Had(Stranding)', [AzNext]_azVars
  PROVE  PointersInv'
<1>1. ASSUME NEW r \in Requests, PersistFails(r) \/ AzRequestDies(r) PROVE PointersInv'
  BY <1>1, FaultCounts DEF PersistFails, AzRequestDies, FaultKinds, Stranding
<1>2. ASSUME NEW r \in Requests, AzProceeds(r) PROVE PointersInv'
  BY <1>1, <1>2, AzClaimsPointers, TakesFreePointers, TakesOverPointers, FindsNoSeatPointers,
     EvictsPointers, ResetsEvictedPointers, RotatesPointers, RotateFailsPointers,
     LeasesGroupPointers, LeaseFailsPointers, GrantsPointers, GrantFailsPointers,
     DropsGroupPointers, AzUnclaimsPointers, PersistsPointers, AzDispatchesPointers,
     AzMarksPointers, AzFinishesPointers
  DEF AzProceeds
<1>3. ASSUME NEW r \in Requests, AzArrives(r) PROVE PointersInv'
  BY <1>3, AzStartsPointers, AzSubmitsPointers DEF AzArrives
<1>4. CASE AzWorker
  BY <1>4, AzDeploysPointers, AzDeployFailsPointers, DeletesPointers, ReleasesPointers,
     ResetsPointers, TearFailsPointers
  DEF AzWorker
<1>5. ASSUME NEW i \in Invites, Reconnects(i) \/ AzRevokes(i) \/ LockAges(i) PROVE PointersInv'
  BY <1>5, ReconnectsPointers, AzRevokesPointers, LockAgesPointers
<1>6. ASSUME NEW s \in Seats, SeatAges(s) PROVE PointersInv'
  BY <1>6, SeatAgesPointers
<1>7. CASE UNCHANGED azVars
  BY <1>7
  DEF azVars, azInvites, azPool, azCloud, PointersInv, WorkPointed, SeatsAccounted, EvictedOnce,
      GroupsPointed, Pointed, Exists, Final
<1> QED
  BY <1>2, <1>3, <1>4, <1>5, <1>6, <1>7 DEF AzNext

LEMMA AccessStep ==
  ASSUME AzShape, TenancyInv, PointersInv, AccessInv, ~Had(Exposing)', [AzNext]_azVars
  PROVE  AccessInv'
<1>1. ASSUME NEW r \in Requests, PersistFails(r) \/ AzRequestDies(r) PROVE AccessInv'
  BY <1>1, FaultCounts DEF PersistFails, AzRequestDies, FaultKinds, Stranding, Exposing
<1>2. ASSUME NEW r \in Requests, AzProceeds(r) PROVE AccessInv'
  BY <1>1, <1>2, AzClaimsAccess, TakesFreeAccess, TakesOverAccess, FindsNoSeatAccess, EvictsAccess,
     ResetsEvictedAccess, RotatesAccess, RotateFailsAccess, LeasesGroupAccess, LeaseFailsAccess,
     GrantsAccess, GrantFailsAccess, DropsGroupAccess, AzUnclaimsAccess, PersistsAccess,
     AzDispatchesAccess, AzMarksAccess, AzFinishesAccess
  DEF AzProceeds
<1>3. ASSUME NEW r \in Requests, AzArrives(r) PROVE AccessInv'
  BY <1>3, AzStartsAccess, AzSubmitsAccess DEF AzArrives
<1>4. CASE AzWorker
  BY <1>4, AzDeploysAccess, AzDeployFailsAccess, DeletesAccess, ReleasesAccess, ResetsAccess,
     TearFailsAccess
  DEF AzWorker
<1>5. ASSUME NEW i \in Invites, Reconnects(i) \/ AzRevokes(i) \/ LockAges(i) PROVE AccessInv'
  BY <1>5, ReconnectsAccess, AzRevokesAccess, LockAgesAccess
<1>6. ASSUME NEW s \in Seats, SeatAges(s) PROVE AccessInv'
  BY <1>6, SeatAgesAccess
<1>7. CASE UNCHANGED azVars
  BY <1>7
  DEF azVars, azInvites, azPool, azCloud, AccessInv, AccessHeld, AccessOf, HeldBack, GroupsFresh,
      Exists
<1> QED
  BY <1>2, <1>3, <1>4, <1>5, <1>6, <1>7 DEF AzNext

-----------------------------------------------------------------------------
(* The invariant, and what it says                                           *)

\* Each layer holds as long as no fault of its kinds has happened, whatever else has.
AzInv == /\ AzShape
         /\ ~Had(Derailing) => TenancyInv
         /\ ~Had(Stranding) => PointersInv
         /\ ~Had(Exposing)  => AccessInv

LEMMA InvStart == AzInit => AzInv
<1> SUFFICES ASSUME AzInit PROVE AzInv
  OBVIOUS
<1>1. AzShape
  BY RestFits, FaultBound DEF AzInit, AzShape, AzTypeOK, FaultKinds, Rest, Doing, AzSteps
<1>2. TenancyInv
  BY DEF AzInit, TenancyInv, ClaimsExclude, SessionsStand, StartsHold, DeploysHold, TearsHold,
         SecretsHeld, InHand, Rest, Doing, Starting, Seated
<1>3. PointersInv
  BY DEF AzInit, PointersInv, WorkPointed, SeatsAccounted, EvictedOnce, GroupsPointed, Exists,
         Rest, Doing
<1>4. AccessInv
  BY DEF AzInit, AccessInv, AccessHeld, GroupsFresh, Rest, Doing
<1> QED
  BY <1>1, <1>2, <1>3, <1>4 DEF AzInv

LEMMA InvStep == AzInv /\ [AzNext]_azVars => AzInv'
<1> SUFFICES ASSUME AzInv, [AzNext]_azVars PROVE AzInv'
  OBVIOUS
<1>1. AzShape /\ AzShape'
  BY ShapeStep DEF AzInv
<1>2. ASSUME ~Had(Derailing)' PROVE TenancyInv /\ TenancyInv'
  BY <1>1, <1>2, FaultsKept, TenancyStep DEF AzInv
<1>3. ASSUME ~Had(Stranding)' PROVE PointersInv /\ PointersInv'
  <2>1. TenancyInv
    BY <1>2, <1>3, KindsNestNext
  <2>2. PointersInv
    BY <1>1, <1>3, FaultsKept DEF AzInv
  <2> QED
    BY <1>1, <1>3, <2>1, <2>2, PointersStep
<1>4. ASSUME ~Had(Exposing)' PROVE AccessInv'
  <2>1. TenancyInv /\ PointersInv
    BY <1>2, <1>3, <1>4, KindsNestNext
  <2>2. AccessInv
    BY <1>1, <1>4, FaultsKept DEF AzInv
  <2> QED
    BY <1>1, <1>4, <2>1, <2>2, AccessStep
<1> QED
  BY <1>1, <1>2, <1>3, <1>4 DEF AzInv

\* The layered invariant of the Azure track: the engine's start, submit, eviction, deploy
\* and teardown keep it, with any number of faults of the kinds a layer tolerates.
THEOREM SeatsInvariant == AzSpec => []AzInv
BY InvStart, InvStep, PTL DEF AzSpec

\* The secret that opens the room a candidate works in is the candidate's alone, however
\* many seats and candidates there are and whatever else fails, unless a result was not
\* stored or a reset overtook a request.
THEOREM RoomsArePrivate == AzSpec => []RoomIsPrivate
<1>1. AzInv => RoomIsPrivate
  BY DEF AzInv, TenancyInv, SecretsHeld, RoomIsPrivate, InRoom
<1> QED
  BY <1>1, SeatsInvariant, PTL

\* Every group that exists has somebody who points to it, through failed rotations, leases,
\* grants, deploys, session teardowns and broken evictions.
THEOREM GroupsAreRemembered == AzSpec => []NoGroupForgotten
<1>1. AzInv => NoGroupForgotten
  BY DEF AzInv, PointersInv, GroupsPointed, Pointed, NoGroupForgotten
<1> QED
  BY <1>1, SeatsInvariant, PTL

\* No seat opens a group of somebody else but one on its way out, also when the teardown of
\* a session gives up and its seat is taken over by the next candidate later.
THEOREM AccessIsEnded == AzSpec => []AccessEnds
<1>1. ASSUME AzInv, ~Had(Exposing), NEW g \in Groups, Exists(g), granted[g] # None
      PROVE  knows[granted[g]] \subseteq {owner[g]} \/ OnItsWayOut(g)
  <2>1. TenancyInv /\ AccessOf(g)
    BY <1>1, KindsNest DEF AzInv, AccessInv, AccessHeld
  <2>2. CASE HeldBack(g)
    <3>1. owner[g] \in Invites
      BY <1>1, ShapeParts DEF AzInv, OthersTyped, Exists
    <3>2. CASE group[owner[g]] = g /\ seat[owner[g]] = granted[g]
      BY <1>1, <2>1, <2>2, <3>1, <3>2, AzureNone DEF HeldBack, TenancyInv, SecretsHeld
    <3>3. ASSUME NEW r \in Requests, req[r].step = "persist", req[r].seat = granted[g],
                 req[r].inv = owner[g]
          PROVE  knows[granted[g]] \subseteq {owner[g]}
      BY <2>1, <3>3 DEF TenancyInv, SecretsHeld
    <3> QED
      BY <2>2, <3>2, <3>3 DEF HeldBack
  <2> QED
    BY <2>1, <2>2 DEF AccessOf, OnItsWayOut
<1>2. AzInv => AccessEnds
  BY <1>1 DEF AccessEnds
<1> QED
  BY <1>2, SeatsInvariant, PTL

-----------------------------------------------------------------------------
(* What a step may not do                                                    *)

\* A release of the seat of somebody else leaves a room alone.
LEMMA ReleaseKeepsRooms ==
  ASSUME AzShape, NEW s, NEW j, NEW i \in Invites, InRoom(i), Release(s, j), s # seat[i] \/ j # i
  PROVE  holder'[seat[i]] = i
<1>1. seat[i] \in Seats /\ holder[seat[i]] = i
  BY ShapeParts DEF OthersTyped, InRoom
<1> QED
  BY <1>1, ShapeParts DEF Release, OthersTyped

\* Who loses a seat loses an old one, or has no room.
LEMMA KeepsSeat ==
  ASSUME AzInv, [AzNext]_azVars, ~Had(Derailing), NEW i \in Invites, InRoom(i),
         group[i] \notin gone, holder'[seat[i]] # i
  PROVE  seat[i] \in aged
<1> USE ShapeParts DEF AzInv
<1>1. seat[i] \in Seats /\ holder[seat[i]] = i /\ phase[i] = "started" /\ group[i] # None
  BY DEF OthersTyped, InRoom
<1>2. UNCHANGED holder => seat[i] \in aged
  BY <1>1
<1>3. ASSUME NEW r \in Requests, TakesFree(r) PROVE seat[i] \in aged
  BY <1>1, <1>3, NoneIsNobody DEF TakesFree, OthersTyped
<1>4. ASSUME NEW r \in Requests, TakesOver(r) PROVE seat[i] \in aged
  BY <1>1, <1>4 DEF TakesOver, OthersTyped
<1>5. ASSUME NEW r \in Requests, RotateFails(r) \/ LeaseFails(r) \/ GrantFails(r)
      PROVE  seat[i] \in aged
  <2>1. /\ req[r].step \in Starting
        /\ Release(req[r].seat, req[r].inv) \/ UNCHANGED holder
    BY <1>5, GivesBackOrNot DEF RotateFails, LeaseFails, GrantFails, Starting, Seated
  <2>2. req[r].inv # i
    BY <1>1, <2>1 DEF TenancyInv, ClaimsExclude
  <2> QED
    BY <1>2, <2>1, <2>2, ReleaseKeepsRooms
<1>6. ASSUME NEW t \in tears, Releases(t) PROVE seat[i] \in aged
  <2>1. Release(t.seat, t.inv) /\ t.inv # None /\ t.step = "release"
    BY <1>6 DEF Releases, OthersTyped, TearFits
  <2>2. t.grp \in gone
    BY <2>1 DEF TenancyInv, TearsHold
  <2>3. t.inv = i => t.seat # seat[i]
    BY <1>1, <2>1, <2>2 DEF TenancyInv, TearsHold, Clearing, Final
  <2> QED
    BY <2>1, <2>3, ReleaseKeepsRooms
<1>7. ASSUME NEW r \in Requests, AzProceeds(r) PROVE seat[i] \in aged
  BY <1>2, <1>3, <1>4, <1>5, <1>7
  DEF AzProceeds, AzClaims, FindsNoSeat, Evicts, ResetsEvicted, Rotates, LeasesGroup, Grants,
      DropsGroup, AzUnclaims, Persists, AzDispatches, PersistFails, AzMarks, AzFinishes,
      AzRequestDies, azPool
<1>8. ASSUME NEW r \in Requests, AzArrives(r) PROVE seat[i] \in aged
  BY <1>2, <1>8 DEF AzArrives, AzStarts, AzSubmits, azPool
<1>9. CASE AzWorker
  BY <1>2, <1>6, <1>9 DEF AzWorker, AzDeploys, AzDeployFails, Deletes, Resets, TearFails, azPool
<1>10. ASSUME NEW j \in Invites, Reconnects(j) \/ AzRevokes(j) \/ LockAges(j)
       PROVE  seat[i] \in aged
  BY <1>2, <1>10 DEF Reconnects, AzRevokes, LockAges, azPool
<1>11. ASSUME NEW s \in Seats, SeatAges(s) PROVE seat[i] \in aged
  BY <1>2, <1>11 DEF SeatAges
<1>12. CASE UNCHANGED azVars
  BY <1>2, <1>12 DEF azVars, azPool
<1> QED
  BY <1>7, <1>8, <1>9, <1>10, <1>11, <1>12 DEF AzNext

\* Only a reset writes "booked", and only over "started".
LEMMA KeepsClosed ==
  ASSUME AzShape, [AzNext]_azVars, NEW i \in Invites, phase[i] = "closed"
  PROVE  phase'[i] # "booked"
<1> USE ShapeParts DEF OthersTyped
<1>1. ASSUME NEW j, Reset(j) PROVE phase'[i] # "booked"
  BY <1>1 DEF Reset, azInvites
<1>2. ASSUME NEW r \in Requests, AzProceeds(r) PROVE phase'[i] # "booked"
  BY <1>1, <1>2 DEF AzProceeds, AzClaims, TakesFree, TakesOver, FindsNoSeat, Evicts, ResetsEvicted,
     Rotates, RotateFails, LeasesGroup, LeaseFails, Grants, GrantFails, DropsGroup, AzUnclaims,
     Persists, AzDispatches, PersistFails, AzMarks, AzFinishes, AzRequestDies, azInvites
<1>3. ASSUME NEW r \in Requests, AzArrives(r) PROVE phase'[i] # "booked"
  BY <1>3 DEF AzArrives, AzStarts, AzSubmits, azInvites
<1>4. CASE AzWorker
  BY <1>1, <1>4 DEF AzWorker, AzDeploys, AzDeployFails, Deletes, Releases, Resets, TearFails,
     azInvites
<1>5. ASSUME NEW j \in Invites, Reconnects(j) \/ AzRevokes(j) \/ LockAges(j) PROVE phase'[i] # "booked"
  BY <1>5 DEF Reconnects, AzRevokes, LockAges, azInvites
<1>6. ASSUME NEW s \in Seats, SeatAges(s) PROVE phase'[i] # "booked"
  BY <1>6 DEF SeatAges, azInvites
<1>7. CASE UNCHANGED azVars
  BY <1>7 DEF azVars, azInvites
<1> QED
  BY <1>2, <1>3, <1>4, <1>5, <1>6, <1>7 DEF AzNext

\* No cleanup, however late or often it comes and whatever else has failed, reopens a closed
\* invite; none takes a seat from a candidate whose room is there, which only a takeover of
\* an old assignment does.
THEOREM LateCleanupsSpare == AzSpec => CleanupsSpare
<1>1. AzInv /\ [AzNext]_azVars => [\A i \in Invites : SeatStays(i) /\ ClosedStays(i)]_azVars
  BY KeepsSeat, KeepsClosed DEF AzInv, SeatStays, ClosedStays
<1> QED
  BY <1>1, SeatsInvariant, PTL DEF AzSpec, CleanupsSpare

=============================================================================
