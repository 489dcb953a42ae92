------------------------------ MODULE PayPerLab ------------------------------
(* One customer's pay-per-lab entitlement for one lab: orders refill it, each   *)
(* launch reserves one of its MaxLaunches, and a launch that provisions nothing *)
(* gives its reservation back.                                                  *)
(*                                                                              *)
(* Three programs meet at the Entitlements row: the payment routes (confirm and *)
(* callback, which the browser may call again at any time), the launch route of *)
(* the app, which brokers reserve, /launch and rollback, and the engine, which  *)
(* serves each of these calls by single conditional updates.  Any call, or its  *)
(* answer, may be lost.                                                         *)
EXTENDS Naturals, FiniteSets

CONSTANTS Orders,       \* orders of this customer for this lab
          Confirms,     \* executions of the payment routes
          Launches,     \* executions of the launch route
          MaxLaunches,  \* PAYPERLAB_MAX_LAUNCHES
          None

ASSUME SupplyAssumption == IsFiniteSet(Confirms) /\ IsFiniteSet(Launches)
ASSUME MaxAssumption    == MaxLaunches \in Nat \ {0}
ASSUME NoneAssumption   == None \notin Orders \cup Confirms

VARIABLES
  order,        \* order[o]: status of the order row, "none" when there is no row
  charged,      \* orders the provider reports as TXN_SUCCESS
  conf,         \* conf[c]: what confirm execution c is doing, and for which order
  \* ---- the row in table Entitlements
  orderId,      \* orderId; None when there is no row
  launchCount,
  version,
  window,       \* windowExpiresAt is absent, to come, or past
  access,       \* accessUntil is to come, or past
  \* ---- the launch route
  pc,           \* pc[l]: where launch l is, or how it ended
  seen,         \* seen[l]: the version it read
  live,         \* a session of this lab is live in the engine
  \* ---- history
  refills,      \* the confirm executions that refilled the budget
  purchase,     \* the last of them
  paidBy,       \* paidBy[l]: the refill that launch l was reserved from
  served,       \* launches for which the engine started a session
  forgiven      \* those of them that were given their reservation back

orderVars  == <<order, charged, conf>>
rowVars    == <<orderId, launchCount, version, window, access>>
launchVars == <<pc, seen, live>>
runs       == <<served, forgiven>>
history    == <<refills, purchase, paidBy, runs>>
vars == <<orderVars, rowVars, launchVars, history>>

(* "over": ended and charged nothing; "ran": a run the customer got; "lost": a  *)
(* charge without one; "stamped": charged nothing, but the window was not reset *)
LaunchSteps == {"idle", "reserve", "launch", "rollback", "unstamp",
                "over", "ran", "lost", "stamped"}

\* Among others: the counter stays within the budget.
TypeOK ==
  /\ order \in [Orders -> {"none", "created", "paid", "purged"}]
  /\ charged \in SUBSET Orders
  /\ conf \in [Confirms -> [step : {"idle", "grant", "mark", "over"},
                            order : Orders \cup {None}]]
  /\ orderId \in Orders \cup {None}
  /\ launchCount \in 0..MaxLaunches
  /\ version \in Nat
  /\ window \in {"none", "open", "over"}
  /\ access \in {"open", "over"}
  /\ pc \in [Launches -> LaunchSteps]
  /\ seen \in [Launches -> Nat]
  /\ live \in BOOLEAN
  /\ refills \in SUBSET Confirms
  /\ purchase \in refills \cup {None}
  /\ paidBy \in [Launches -> refills \cup {None}]
  /\ served \in SUBSET Launches /\ forgiven \in SUBSET served

Init ==
  /\ order = [o \in Orders |-> "none"]
  /\ charged = {}
  /\ conf = [c \in Confirms |-> [step |-> "idle", order |-> None]]
  /\ orderId = None
  /\ launchCount = 0
  /\ version = 0
  /\ window = "none"
  /\ access = "open"
  /\ pc = [l \in Launches |-> "idle"]
  /\ seen = [l \in Launches |-> 0]
  /\ live = FALSE
  /\ refills = {}
  /\ purchase = None
  /\ paidBy = [l \in Launches |-> None]
  /\ served = {} /\ forgiven = {}

-----------------------------------------------------------------------------
(* Orders and payments                                                       *)

\* POST /payments/checkout: createOrder().
Checkout(o) ==
  /\ order[o] = "none"
  /\ order' = [order EXCEPT ![o] = "created"]
  /\ UNCHANGED <<charged, conf, rowVars, launchVars, history>>

\* The provider takes the money.
Charge(o) ==
  /\ order[o] # "none"
  /\ charged' = charged \cup {o}
  /\ UNCHANGED <<order, conf, rowVars, launchVars, history>>

\* The ttl of the order row passes: 48 hours while unpaid, 90 days once paid.
Purge(o) ==
  /\ order[o] \in {"created", "paid"}
  /\ order' = [order EXCEPT ![o] = "purged"]
  /\ UNCHANGED <<charged, conf, rowVars, launchVars, history>>

\* A payment route finds the order and its payment, and calls POST /orders/paid.
Confirm(c, o) ==
  /\ conf[c].step = "idle"
  /\ order[o] \in {"created", "paid"}
  /\ o \in charged
  /\ conf' = [conf EXCEPT ![c] = [step |-> "grant", order |-> o]]
  /\ UNCHANGED <<order, charged, rowVars, launchVars, history>>

\* Mutant: a failed grant is only logged.
GrantHopefully(c) ==
  LET o == conf[c].order IN
  /\ conf[c].step = "grant"
  /\ \/ /\ orderId # o
        /\ orderId' = o
        /\ launchCount' = 0
        /\ window' = "none"
        /\ refills' = refills \cup {c}
        /\ purchase' = c
     \/ UNCHANGED <<orderId, launchCount, window, refills, purchase>>
  /\ access' = "open"
  /\ conf' = [conf EXCEPT ![c].step = "mark"]
  /\ UNCHANGED <<order, charged, version, launchVars, paidBy, runs>>

\* Mutant: a new purchase starts a new version count.
GrantResetsVersion(c) ==
  LET o == conf[c].order IN
  /\ conf[c].step = "grant"
  /\ IF orderId # o
       THEN /\ orderId' = o
            /\ launchCount' = 0
            /\ version' = 0
            /\ window' = "none"
            /\ refills' = refills \cup {c}
            /\ purchase' = c
       ELSE UNCHANGED <<orderId, launchCount, version, window, refills, purchase>>
  /\ access' = "open"
  /\ conf' = [conf EXCEPT ![c].step = "mark"]
  /\ UNCHANGED <<order, charged, launchVars, paidBy, runs>>

\* grantEntitlement() of a pay-per-lab order: refill unless the row carries this
\* order already; both updates renew accessUntil, neither touches the version.
Grant(c) ==
  LET o == conf[c].order IN
  /\ conf[c].step = "grant"
  /\ IF orderId # o
       THEN /\ orderId' = o
            /\ launchCount' = 0
            /\ window' = "none"
            /\ refills' = refills \cup {c}
            /\ purchase' = c
       ELSE UNCHANGED <<orderId, launchCount, window, refills, purchase>>
  /\ access' = "open"
  /\ conf' = [conf EXCEPT ![c].step = "mark"]
  /\ UNCHANGED <<order, charged, version, launchVars, paidBy, runs>>

\* markOrderPaid(): created -> paid, once.
MarkPaid(c) ==
  LET o == conf[c].order IN
  /\ conf[c].step = "mark"
  /\ order' = [order EXCEPT ![o] = IF @ = "created" THEN "paid" ELSE @]
  /\ conf' = [conf EXCEPT ![c].step = "over"]
  /\ UNCHANGED <<charged, rowVars, launchVars, history>>

\* The call is lost, or the engine dies while it serves it.
ConfirmDies(c) ==
  /\ conf[c].step \in {"grant", "mark"}
  /\ conf' = [conf EXCEPT ![c].step = "over"]
  /\ UNCHANGED <<order, charged, rowVars, launchVars, history>>

-----------------------------------------------------------------------------
(* The launch route                                                          *)

\* listEntitlements() and the checks of the row: not entitled, WINDOW_EXPIRED,
\* LAUNCH_CAP_REACHED, or go and reserve.
ReadEntitlement(l) ==
  /\ pc[l] = "idle"
  /\ IF orderId # None /\ access = "open" /\ window # "over" /\ launchCount < MaxLaunches
       THEN /\ pc' = [pc EXCEPT ![l] = "reserve"]
            /\ seen' = [seen EXCEPT ![l] = version]
       ELSE /\ pc' = [pc EXCEPT ![l] = "over"]
            /\ UNCHANGED seen
  /\ UNCHANGED <<orderVars, rowVars, live, history>>

\* Mutant: the update has no condition; the route has checked the row.
ReserveUnconditionally(l) ==
  /\ pc[l] = "reserve"
  /\ launchCount' = launchCount + 1
  /\ version' = version + 1
  /\ window' = IF window = "none" THEN "open" ELSE window
  /\ paidBy' = [paidBy EXCEPT ![l] = purchase]
  /\ \E end \in {"launch", "lost"} : pc' = [pc EXCEPT ![l] = end]
  /\ UNCHANGED <<orderVars, orderId, access, seen, live, refills, purchase, runs>>

\* reserveLaunch(): the compare-and-swap.  Without its answer the route gives up.
Reserve(l) ==
  /\ pc[l] = "reserve"
  /\ IF /\ orderId # None
        /\ version = seen[l]
        /\ launchCount < MaxLaunches
        /\ window # "over"
       THEN /\ launchCount' = launchCount + 1
            /\ version' = version + 1
            /\ window' = IF window = "none" THEN "open" ELSE window
            /\ paidBy' = [paidBy EXCEPT ![l] = purchase]
            /\ \E end \in {"launch", "lost"} : pc' = [pc EXCEPT ![l] = end]
       ELSE /\ pc' = [pc EXCEPT ![l] = "over"]
            /\ UNCHANGED <<launchCount, version, window, paidBy>>
  /\ UNCHANGED <<orderVars, orderId, access, seen, live, refills, purchase, runs>>

\* POST /launch of the engine starts a session; if its answer is lost, the route
\* takes the engine for unreachable.
Provision(l) ==
  /\ pc[l] = "launch"
  /\ ~live
  /\ live' = TRUE
  /\ \E end \in {"ran", "rollback"} : pc' = [pc EXCEPT ![l] = end]
  /\ served' = served \cup {l}
  /\ UNCHANGED <<orderVars, rowVars, seen, refills, purchase, paidBy, forgiven>>

\* Mutant: a reconnect keeps the reservation.
RefuseUnlessLive(l) ==
  /\ pc[l] = "launch"
  /\ pc' = [pc EXCEPT ![l] = IF live THEN "over" ELSE "rollback"]
  /\ UNCHANGED <<orderVars, rowVars, seen, live, history>>

\* The engine answers 429, 503, 409 or 500, reconnects ("resumed": the lab is live
\* already), or cannot be reached: nothing was provisioned.
Refuse(l) ==
  /\ pc[l] = "launch"
  /\ pc' = [pc EXCEPT ![l] = "rollback"]
  /\ UNCHANGED <<orderVars, rowVars, seen, live, history>>

\* Mutant: the decrement has no condition.
RollbackBelowZero(l) ==
  /\ pc[l] = "rollback"
  /\ launchCount' = launchCount - 1
  /\ pc' = [pc EXCEPT ![l] = "unstamp"]
  /\ forgiven' = forgiven \cup (served \cap {l})
  /\ UNCHANGED <<orderVars, orderId, version, window, access, seen, live,
                 refills, purchase, paidBy, served>>

\* rollbackLaunch(), first update: one launch back, but never below 0.
Rollback(l) ==
  /\ pc[l] = "rollback"
  /\ IF launchCount > 0
       THEN /\ launchCount' = launchCount - 1
            /\ pc' = [pc EXCEPT ![l] = "unstamp"]
            /\ forgiven' = forgiven \cup (served \cap {l})
       ELSE /\ pc' = [pc EXCEPT ![l] = "over"]
            /\ UNCHANGED <<launchCount, forgiven>>
  /\ UNCHANGED <<orderVars, orderId, version, window, access, seen, live,
                 refills, purchase, paidBy, served>>

\* Mutant: the window stays.
UnstampNothing(l) ==
  /\ pc[l] = "unstamp"
  /\ pc' = [pc EXCEPT ![l] = "over"]
  /\ UNCHANGED <<orderVars, rowVars, seen, live, history>>

\* rollbackLaunch(), second update: the window of a first launch is reset.
Unstamp(l) ==
  /\ pc[l] = "unstamp"
  /\ window' = IF launchCount = 0 THEN "none" ELSE window
  /\ pc' = [pc EXCEPT ![l] = "over"]
  /\ UNCHANGED <<orderVars, orderId, launchCount, version, access, seen, live, history>>

\* The route dies, or the engine in a rollback, or the call gets lost: rollback
\* is best effort.
LaunchDies(l) ==
  /\ \/ /\ pc[l] \in {"launch", "rollback"}
        /\ pc' = [pc EXCEPT ![l] = "lost"]
     \/ /\ pc[l] = "unstamp"
        /\ pc' = [pc EXCEPT ![l] = "stamped"]
  /\ UNCHANGED <<orderVars, rowVars, seen, live, history>>

-----------------------------------------------------------------------------
(* The engine's session, and time                                            *)

\* The session of the lab is ended or expires (module LabPool).
SessionEnds ==
  /\ live
  /\ live' = FALSE
  /\ UNCHANGED <<orderVars, rowVars, pc, seen, history>>

\* windowExpiresAt passes.
WindowEnds ==
  /\ window = "open"
  /\ window' = "over"
  /\ UNCHANGED <<orderVars, orderId, launchCount, version, access, launchVars, history>>

\* accessUntil passes.
AccessEnds ==
  /\ orderId # None /\ access = "open"
  /\ access' = "over"
  /\ UNCHANGED <<orderVars, orderId, launchCount, version, window, launchVars, history>>

-----------------------------------------------------------------------------
OrderStep(o) == Checkout(o) \/ Charge(o) \/ Purge(o)

ConfirmStep(c) ==
  \/ \E o \in Orders : Confirm(c, o)
  \/ Grant(c) \/ MarkPaid(c) \/ ConfirmDies(c)

LaunchStep(l) ==
  \/ ReadEntitlement(l) \/ Reserve(l) \/ Provision(l) \/ Refuse(l)
  \/ Rollback(l) \/ Unstamp(l) \/ LaunchDies(l)

Next ==
  \/ \E o \in Orders : OrderStep(o)
  \/ \E c \in Confirms : ConfirmStep(c)
  \/ \E l \in Launches : LaunchStep(l)
  \/ SessionEnds \/ WindowEnds \/ AccessEnds

Spec == Init /\ [][Next]_vars

-----------------------------------------------------------------------------
(* Safety                                                                    *)

\* Launches the row was charged for since its last refill and not (yet) repaid.
Charged == {l \in Launches : /\ paidBy[l] = purchase
                             /\ pc[l] \in {"launch", "rollback", "ran", "lost"}}

\* The sessions the engine started, without those whose reservation was given back, are
\* no more than MaxLaunches for each refill, whatever overlaps: two tabs, a purchase in
\* the middle of a launch, a rollback that comes late.  A session is given back when the
\* route missed the engine's answer ("engine unreachable"): that run is free.
BudgetRefilled == Cardinality(served \ forgiven) <= MaxLaunches * Cardinality(refills)

\* The customer is charged a launch only for a run, for a launch that is still
\* under way, or for one whose answer or rollback was lost: an outage of the
\* engine "doesn't burn a paid launch" (launch route, rollbackLaunch()).
NeverOvercharged == launchCount <= Cardinality(Charged)

\* The 7 day window runs only if a launch of the budget is used, or a rollback has
\* still to reset it or died before it could (rollbackLaunch()).
ClockNeedsLaunch ==
  window # "none" =>
    launchCount > 0 \/ \E l \in Launches : pc[l] \in {"unstamp", "stamped"}

\* An order is recorded as paid only after some confirm refilled the budget for it
\* ("GRANT first, THEN record paid": a failed grant can be retried).
PaidIsGranted ==
  \A o \in Orders : order[o] = "paid" => \E c \in refills : conf[c].order = o

\* No two launches are reserved from the same reading of the row: a double click
\* takes one launch (the version is "never reset", also by a new purchase).
OneReservePerReading ==
  \A l, m \in Launches :
    paidBy[l] # None /\ paidBy[m] # None /\ seen[l] = seen[m] => l = m

\* "Same orderId replayed -> ... webhook retries stay exactly-once": an order
\* refills the budget once (grantEntitlement()).
RefillOncePerOrder ==
  \A c, d \in refills : conf[c].order = conf[d].order => c = d
=============================================================================
