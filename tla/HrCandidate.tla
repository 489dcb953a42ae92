---------------------------- MODULE HrCandidate ----------------------------
(* The row of one candidate in the HR product (engine/hr-handler.mjs), and the *)
(* pages that save it.  Every route reads the row first; the forms of the HR   *)
(* app put back a whole row, the other routes write fields of their own.       *)
(* Fields of a form that nobody else writes, the salary proof, the mails and   *)
(* the expiry of a link are left out; a request that finds no row is over.     *)
EXTENDS EntNames

CONSTANT HrRequests   \* invocations, each of which does one thing

ASSUME NoneIsNoRequest == None \notin HrRequests

VARIABLES
  row,     \* the item of table Candidates, None when there is none
  page,    \* the row as some page of the HR app has it
  hr,      \* hr[r]: what request r is for and what it has read
  told,    \* requests whose answers were received ("200")
  seen,    \* the candidate has opened the link
  link,    \* the request that issued the link that should work
  meets,   \* meetings scheduled and not cancelled
  clash    \* what a request read was stale when it put it back

hrVars == <<row, page, hr, told, seen, link, meets, clash>>

\* The fields of a row: the link and the answers by the request they came with;
\* the meetings, once there was one.  A write to a deleted row makes one again.
Bare == [token |-> None, answers |-> None, views |-> FALSE, meetings |-> None]

CandRows == [token : HrRequests \cup {None}, answers : HrRequests \cup {None},
         views : BOOLEAN, meetings : (SUBSET HrRequests) \cup {None}]

HrOps == {"new", "save", "schedule", "cancel", "issue", "revoke", "view", "submit",
          "erase", "over"}

Asks(op, cur, arg) == [op |-> op, cur |-> cur, arg |-> arg]

HrTypeOK ==
  /\ row \in CandRows \cup {None} /\ page \in CandRows \cup {None}
  /\ hr \in [HrRequests -> [op : HrOps, cur : CandRows \cup {None},
                          arg : CandRows \cup HrRequests \cup {None}]]
  /\ told \in SUBSET HrRequests /\ seen \in BOOLEAN /\ link \in HrRequests \cup {None}
  /\ meets \in SUBSET HrRequests /\ clash \in BOOLEAN

HrInit ==
  /\ row = Bare /\ page = None
  /\ hr = [r \in HrRequests |-> Asks("new", None, None)]
  /\ told = {} /\ seen = FALSE /\ link = None /\ meets = {} /\ clash = FALSE

-----------------------------------------------------------------------------
Meetings(d) == IF d.meetings = None THEN {} ELSE d.meetings

\* A page is loaded.
LoadsPage ==
  /\ row # None
  /\ page' = row
  /\ UNCHANGED <<row, hr, told, seen, link, meets, clash>>

\* A request reads the row.  A save carries the page; the public routes need the
\* link that is in the row.
HrReads(r, op, arg) ==
  /\ hr[r].op = "new" /\ row # None
  /\ op = "save" => page # None
  /\ op \in {"view", "submit"} => row.token # None
  /\ op = "submit" => row.answers = None
  /\ op = "cancel" => arg \in Meetings(row)
  /\ hr' = [hr EXCEPT ![r] = Asks(op, row, IF op = "save" THEN page ELSE arg)]
  /\ UNCHANGED <<row, page, told, seen, link, meets, clash>>

\* The write of request r, which ends it.
Writes(r, op, new) ==
  /\ hr[r].op = op
  /\ hr' = [hr EXCEPT ![r] = Asks("over", None, None)]
  /\ row' = new
  /\ clash' = (clash \/ (op = "save" /\ row # hr[r].cur)
                     \/ (op # "erase" /\ row = None)
                     \/ (op \in {"schedule", "cancel"} /\ row # None
                           /\ row.meetings # hr[r].cur.meetings))
  /\ UNCHANGED page

There == IF row = None THEN Bare ELSE row

\* PUT: the form over the row, but for the fields of the engine.  A field the page
\* does not have is not in the form.
Saves(r) ==
  LET form == hr[r].arg IN
  /\ hr[r].op = "save"
  /\ Writes(r, "save", [hr[r].cur EXCEPT !.meetings =
                          IF form.meetings = None THEN @ ELSE form.meetings])
  /\ UNCHANGED <<told, seen, link, meets>>

\* The interviews are written back as the list that was read, with one more ...
Schedules(r) ==
  /\ hr[r].op = "schedule"
  /\ Writes(r, "schedule", [There EXCEPT !.meetings = Meetings(hr[r].cur) \cup {r}])
  /\ meets' = meets \cup {r}
  /\ UNCHANGED <<told, seen, link>>

\* ... or one less.
Cancels(r) ==
  /\ hr[r].op = "cancel"
  /\ Writes(r, "cancel", [There EXCEPT !.meetings = Meetings(hr[r].cur) \ {hr[r].arg}])
  /\ meets' = meets \ {hr[r].arg}
  /\ UNCHANGED <<told, seen, link>>

\* POST and DELETE of the link.
IssuesLink(r) ==
  /\ Writes(r, "issue", [There EXCEPT !.token = r])
  /\ link' = r
  /\ UNCHANGED <<told, seen, meets>>

RevokesLink(r) ==
  /\ Writes(r, "revoke", [There EXCEPT !.token = None])
  /\ link' = None
  /\ UNCHANGED <<told, seen, meets>>

\* The candidate opens the questionnaire, ...
Views(r) ==
  /\ Writes(r, "view", [There EXCEPT !.views = TRUE])
  /\ seen' = TRUE
  /\ UNCHANGED <<told, link, meets>>

\* Mutant: only the read is looked at.
SubmitsAnyway(r) ==
  /\ Writes(r, "submit", [There EXCEPT !.answers = r])
  /\ told' = told \cup {r}
  /\ UNCHANGED <<seen, link, meets>>

\* ... and sends it in: "attribute_not_exists is the real single-submit guard".
SubmitsAnswers(r) ==
  /\ IF There.answers = None
       THEN Writes(r, "submit", [There EXCEPT !.answers = r]) /\ told' = told \cup {r}
       ELSE Writes(r, "submit", row) /\ UNCHANGED told
  /\ UNCHANGED <<seen, link, meets>>

\* DELETE: nothing was promised any longer.
ErasesRow(r) ==
  /\ Writes(r, "erase", None)
  /\ told' = {} /\ seen' = FALSE /\ link' = None /\ meets' = {}

HrNext ==
  \/ LoadsPage
  \/ \E r \in HrRequests :
       \/ \E op \in HrOps \ {"new", "over", "cancel"} : HrReads(r, op, None)
       \/ \E m \in HrRequests : HrReads(r, "cancel", m)
       \/ Saves(r) \/ Schedules(r) \/ Cancels(r) \/ IssuesLink(r) \/ RevokesLink(r)
       \/ Views(r) \/ SubmitsAnswers(r) \/ ErasesRow(r)

HrSpec == HrInit /\ [][HrNext]_hrVars

-----------------------------------------------------------------------------
\* Of all the answers sent in, also by two requests at once, only one set is received,
\* and it stays, as does the trace of an opened link; the link that works is the last
\* one issued, and none after a revoke; however often an old page is saved ("a form PUT
\* can't forge them"), unless a request put back what another had changed since it read.
AnswersStay ==
  ~clash /\ row # None =>
    /\ told \subseteq {row.answers}
    /\ seen => row.views
    /\ row.token = link

-----------------------------------------------------------------------------
\* What the code says of the meetings: "a stale form post must not be able to silently
\* drop one".  The pages post the interviews they were loaded with, and PUT takes them,
\* also when no two requests meet.
MeetingsKept ==
  ~clash /\ row # None => meets \subseteq Meetings(row)

=============================================================================
