--------------------------- MODULE PayPerLabProofs ---------------------------
(* Theorems of PayPerLab for any number of orders, confirms and launches and    *)
(* any budget.  The counting arguments are BudgetInv and NeverOvercharged: each *)
(* action moves the counter of the row together with a set of launches.         *)
EXTENDS PayPerLab, FiniteSetTheorems, TLAPS

\* Where a confirm stands, and what the row and the refills say of it.
ConfirmInv ==
  /\ \A c \in Confirms :
       /\ conf[c].step # "idle" => conf[c].order \in Orders
       /\ conf[c].step \in {"idle", "grant"} => c \notin refills
       /\ conf[c].step = "mark" => \E d \in refills : conf[d].order = conf[c].order
  /\ IF orderId = None
       THEN purchase = None
       ELSE purchase # None /\ conf[purchase].order = orderId

\* Only a launch that reserved has a refill to its name, and it consumed the
\* version it had read.
ReserveInv ==
  \A l \in Launches :
    /\ pc[l] \in {"idle", "reserve"} => paidBy[l] = None
    /\ paidBy[l] # None => seen[l] < version

\* Launches that take from a refill: they may still start a session or be repaid, or
\* started one and were not repaid.
Spent == {l \in Launches : \/ pc[l] \in {"launch", "rollback"}
                           \/ l \in served \ forgiven}

\* A launch that was given its reservation back does nothing more.
ForgivenInv == \A l \in forgiven : pc[l] \in {"unstamp", "over", "stamped"}

\* All refills but the last count in full, the last for what the row says.
BudgetInv ==
  IF orderId = None
    THEN Spent = {} /\ launchCount = 0 /\ window = "none"
    ELSE Cardinality(Spent) + MaxLaunches <= MaxLaunches * Cardinality(refills) + launchCount

RowInv == ConfirmInv /\ ReserveInv /\ OneReservePerReading /\ PaidIsGranted /\ ClockNeedsLaunch
          /\ ForgivenInv

PInv == TypeOK /\ RowInv /\ BudgetInv /\ NeverOvercharged

-----------------------------------------------------------------------------
(* Type correctness                                                          *)

\* The initial state is well typed.
LEMMA TypeInit == Init => TypeOK
<1> SUFFICES ASSUME Init PROVE TypeOK
  OBVIOUS
<1>1. launchCount \in 0..MaxLaunches
  BY MaxAssumption DEF Init
<1>2. \A l \in Launches : pc[l] \in LaunchSteps /\ paidBy[l] \in refills \cup {None}
  BY DEF Init, LaunchSteps
<1>3. conf \in [Confirms -> [step : {"idle", "grant", "mark", "over"},
                            order : Orders \cup {None}]]
  BY DEF Init
<1> QED
  BY <1>1, <1>2, <1>3 DEF Init, TypeOK

\* Every step keeps the types; the counter stays within the budget because the
\* reservation and its rollback are conditional.
LEMMA TypeStep == TypeOK /\ [Next]_vars => TypeOK'
<1> SUFFICES ASSUME TypeOK, [Next]_vars
             PROVE  TypeOK'
  OBVIOUS
<1> USE MaxAssumption, NoneAssumption DEF TypeOK, LaunchSteps, orderVars, rowVars, launchVars, history, runs
<1>1. ASSUME NEW o \in Orders, OrderStep(o) PROVE TypeOK'
  BY <1>1 DEF OrderStep, Checkout, Charge, Purge
<1>2. ASSUME NEW c \in Confirms, NEW o \in Orders, Confirm(c, o) PROVE TypeOK'
  BY <1>2 DEF Confirm
<1>3. ASSUME NEW c \in Confirms, Grant(c) PROVE TypeOK'
  BY <1>3 DEF Grant
<1>4. ASSUME NEW c \in Confirms, MarkPaid(c) PROVE TypeOK'
  BY <1>4 DEF MarkPaid
<1>5. ASSUME NEW c \in Confirms, ConfirmDies(c) PROVE TypeOK'
  BY <1>5 DEF ConfirmDies
<1>6. ASSUME NEW l \in Launches, ReadEntitlement(l) PROVE TypeOK'
  BY <1>6 DEF ReadEntitlement
<1>7. ASSUME NEW l \in Launches, Reserve(l) PROVE TypeOK'
  BY <1>7 DEF Reserve
<1>8. ASSUME NEW l \in Launches, Provision(l) \/ Refuse(l) PROVE TypeOK'
  BY <1>8 DEF Provision, Refuse
<1>9. ASSUME NEW l \in Launches, Rollback(l) PROVE TypeOK'
  BY <1>9 DEF Rollback
<1>10. ASSUME NEW l \in Launches, Unstamp(l) \/ LaunchDies(l) PROVE TypeOK'
  BY <1>10 DEF Unstamp, LaunchDies
<1>11. ASSUME SessionEnds \/ WindowEnds \/ AccessEnds PROVE TypeOK'
  BY <1>11 DEF SessionEnds, WindowEnds, AccessEnds
<1>12. CASE UNCHANGED vars
  BY <1>12 DEF vars
<1> QED
  BY <1>1, <1>2, <1>3, <1>4, <1>5, <1>6, <1>7, <1>8, <1>9, <1>10, <1>11, <1>12
     DEF Next, ConfirmStep, LaunchStep

\* The row, the orders and the executions of both routes stay well typed; among
\* others the launch counter never leaves 0..MaxLaunches.
THEOREM TypeCorrect == Spec => []TypeOK
<1>1. QED
  BY TypeInit, TypeStep, PTL DEF Spec

-----------------------------------------------------------------------------
(* The row and the executions that write it                                  *)

\* Every step keeps what the row says of the confirms: its last refill is one of
\* the order it carries, and a confirm that recorded its order had it refilled.
LEMMA ConfirmStepInv ==
  TypeOK /\ ConfirmInv /\ PaidIsGranted /\ [Next]_vars => (ConfirmInv /\ PaidIsGranted)'
<1> SUFFICES ASSUME TypeOK, ConfirmInv, PaidIsGranted, [Next]_vars
             PROVE  ConfirmInv' /\ PaidIsGranted'
  OBVIOUS
<1> USE NoneAssumption DEF TypeOK, ConfirmInv, PaidIsGranted, orderVars, rowVars, launchVars, history, runs
<1>1. ASSUME NEW o \in Orders, OrderStep(o) PROVE ConfirmInv' /\ PaidIsGranted'
  BY <1>1 DEF OrderStep, Checkout, Charge, Purge
<1>2. ASSUME NEW c \in Confirms, NEW o \in Orders, Confirm(c, o)
      PROVE  ConfirmInv' /\ PaidIsGranted'
  <2>1. \A d \in refills : conf'[d] = conf[d]
    BY <1>2 DEF Confirm
  <2>2. conf'[c] = [step |-> "grant", order |-> o] /\ c \notin refills
    BY <1>2 DEF Confirm
  <2>3. \A d \in Confirms \ {c} : conf'[d] = conf[d]
    BY <1>2 DEF Confirm
  <2>4. UNCHANGED <<order, orderId, refills, purchase>>
    BY <1>2 DEF Confirm
  <2> QED
    BY <2>1, <2>2, <2>3, <2>4
<1>3. ASSUME NEW c \in Confirms, Grant(c) PROVE ConfirmInv' /\ PaidIsGranted'
  <2>1. \A d \in Confirms : conf'[d].order = conf[d].order
    BY <1>3 DEF Grant
  <2>2. /\ conf'[c].step = "mark" /\ conf[c].order \in Orders /\ c \notin refills
        /\ \A d \in Confirms \ {c} : conf'[d] = conf[d]
    BY <1>3 DEF Grant
  <2>3. UNCHANGED order /\ refills \subseteq refills'
    BY <1>3 DEF Grant
  <2>4. CASE orderId = conf[c].order
    BY <1>3, <2>1, <2>2, <2>3, <2>4 DEF Grant
  <2>5. CASE orderId # conf[c].order
    <3>1. /\ orderId' = conf[c].order /\ purchase' = c
          /\ refills' = refills \cup {c}
      BY <1>3, <2>5 DEF Grant
    <3> QED
      BY <2>1, <2>2, <2>3, <3>1
  <2> QED
    BY <2>4, <2>5
<1>4. ASSUME NEW c \in Confirms, MarkPaid(c) PROVE ConfirmInv' /\ PaidIsGranted'
  <2>1. \A d \in Confirms : conf'[d].order = conf[d].order
    BY <1>4 DEF MarkPaid
  <2>2. /\ conf'[c].step = "over" /\ conf[c].step = "mark"
        /\ \A d \in Confirms \ {c} : conf'[d] = conf[d]
    BY <1>4 DEF MarkPaid
  <2>3. UNCHANGED <<orderId, refills, purchase>>
    BY <1>4 DEF MarkPaid
  <2>4. \A o \in Orders : order'[o] = "paid" => order[o] = "paid" \/ o = conf[c].order
    BY <1>4 DEF MarkPaid
  <2> QED
    BY <2>1, <2>2, <2>3, <2>4
<1>5. ASSUME NEW c \in Confirms, ConfirmDies(c) PROVE ConfirmInv' /\ PaidIsGranted'
  BY <1>5 DEF ConfirmDies
<1>6. ASSUME NEW l \in Launches, LaunchStep(l) PROVE ConfirmInv' /\ PaidIsGranted'
  <2>1. UNCHANGED <<order, conf, orderId, refills, purchase>>
    BY <1>6 DEF LaunchStep, ReadEntitlement, Reserve, Provision, Refuse, Rollback, Unstamp,
                LaunchDies
  <2> QED
    BY <2>1
<1>7. ASSUME SessionEnds \/ WindowEnds \/ AccessEnds PROVE ConfirmInv' /\ PaidIsGranted'
  BY <1>7 DEF SessionEnds, WindowEnds, AccessEnds
<1>8. CASE UNCHANGED vars
  BY <1>8 DEF vars
<1> QED
  BY <1>1, <1>2, <1>3, <1>4, <1>5, <1>6, <1>7, <1>8 DEF Next, ConfirmStep

\* Every step keeps the launches apart that were reserved: the version they read
\* is behind the row's, and no two of them read the same one.
LEMMA ReserveStepInv ==
  TypeOK /\ ReserveInv /\ OneReservePerReading /\ [Next]_vars
    => (ReserveInv /\ OneReservePerReading)'
<1> SUFFICES ASSUME TypeOK, ReserveInv, OneReservePerReading, [Next]_vars
             PROVE  ReserveInv' /\ OneReservePerReading'
  OBVIOUS
<1> USE NoneAssumption DEF TypeOK, ReserveInv, OneReservePerReading, orderVars, rowVars,
                           launchVars, history, runs
<1>1. CASE UNCHANGED <<pc, seen, version, paidBy>>
  BY <1>1
<1>2. ASSUME NEW l \in Launches, ReadEntitlement(l) PROVE ReserveInv' /\ OneReservePerReading'
  <2>1. \A m \in Launches \ {l} : seen'[m] = seen[m] /\ pc'[m] = pc[m]
    BY <1>2 DEF ReadEntitlement
  <2>2. paidBy[l] = None /\ UNCHANGED <<paidBy, version>>
    BY <1>2 DEF ReadEntitlement
  <2> QED
    BY <2>1, <2>2
<1>3. ASSUME NEW l \in Launches, Reserve(l) PROVE ReserveInv' /\ OneReservePerReading'
  <2>1. \A m \in Launches \ {l} : pc'[m] = pc[m] /\ paidBy'[m] = paidBy[m]
    BY <1>3 DEF Reserve
  <2>2. UNCHANGED seen /\ pc'[l] \in {"launch", "lost", "over"}
    BY <1>3 DEF Reserve
  <2>3. \/ version' = version + 1 /\ seen[l] = version
        \/ UNCHANGED <<version, paidBy>>
    BY <1>3 DEF Reserve
  <2>4. paidBy[l] = None
    BY <1>3 DEF Reserve
  <2> QED
    BY <2>1, <2>2, <2>3, <2>4
<1>4. ASSUME NEW l \in Launches, Provision(l) \/ Refuse(l) \/ Rollback(l) \/ Unstamp(l) \/ LaunchDies(l)
      PROVE  ReserveInv' /\ OneReservePerReading'
  <2>1. \A m \in Launches : pc'[m] \in {"idle", "reserve"} => pc[m] \in {"idle", "reserve"}
    BY <1>4 DEF Provision, Refuse, Rollback, Unstamp, LaunchDies
  <2>2. UNCHANGED <<seen, version, paidBy>>
    BY <1>4 DEF Provision, Refuse, Rollback, Unstamp, LaunchDies
  <2> QED
    BY <2>1, <2>2
<1>5. ASSUME NEW o \in Orders, OrderStep(o) PROVE UNCHANGED <<pc, seen, version, paidBy>>
  BY <1>5 DEF OrderStep, Checkout, Charge, Purge
<1>6. ASSUME NEW c \in Confirms, ConfirmStep(c) PROVE UNCHANGED <<pc, seen, version, paidBy>>
  BY <1>6 DEF ConfirmStep, Confirm, Grant, MarkPaid, ConfirmDies
<1>7. ASSUME SessionEnds \/ WindowEnds \/ AccessEnds PROVE UNCHANGED <<pc, seen, version, paidBy>>
  BY <1>7 DEF SessionEnds, WindowEnds, AccessEnds
<1>8. CASE UNCHANGED vars
  BY <1>1, <1>8 DEF vars
<1> QED
  BY <1>1, <1>2, <1>3, <1>4, <1>5, <1>6, <1>7, <1>8 DEF Next, LaunchStep

\* Every step keeps the window from running without a used launch, except for
\* the rollbacks that are half done.
LEMMA ClockStepInv == TypeOK /\ ClockNeedsLaunch /\ [Next]_vars => ClockNeedsLaunch'
<1> SUFFICES ASSUME TypeOK, ClockNeedsLaunch, [Next]_vars
             PROVE  ClockNeedsLaunch'
  OBVIOUS
<1> USE DEF TypeOK, ClockNeedsLaunch, orderVars, rowVars, launchVars, history, runs
<1>1. CASE UNCHANGED <<pc, launchCount, window>>
  BY <1>1
<1>2. ASSUME NEW c \in Confirms, Grant(c) PROVE ClockNeedsLaunch'
  BY <1>2 DEF Grant
<1>3. ASSUME NEW l \in Launches, ReadEntitlement(l) \/ Reserve(l) PROVE ClockNeedsLaunch'
  <2>1. \A m \in Launches : pc[m] \in {"unstamp", "stamped"} => pc'[m] = pc[m]
    BY <1>3 DEF ReadEntitlement, Reserve
  <2>2. \/ launchCount' = launchCount + 1
        \/ UNCHANGED <<launchCount, window>>
    BY <1>3 DEF ReadEntitlement, Reserve
  <2> QED
    BY <2>1, <2>2
<1>4. ASSUME NEW l \in Launches, Provision(l) \/ Refuse(l) PROVE ClockNeedsLaunch'
  BY <1>4 DEF Provision, Refuse
<1>5. ASSUME NEW l \in Launches, Rollback(l) PROVE ClockNeedsLaunch'
  <2>1. CASE launchCount > 0
    BY <1>5, <2>1 DEF Rollback
  <2>2. CASE ~(launchCount > 0)
    BY <1>5, <2>2 DEF Rollback
  <2> QED
    BY <2>1, <2>2
<1>6. ASSUME NEW l \in Launches, Unstamp(l) PROVE ClockNeedsLaunch'
  BY <1>6 DEF Unstamp
<1>7. ASSUME NEW l \in Launches, LaunchDies(l) PROVE ClockNeedsLaunch'
  <2>1. \A m \in Launches : pc[m] \in {"unstamp", "stamped"} => pc'[m] \in {"unstamp", "stamped"}
    BY <1>7 DEF LaunchDies
  <2> QED
    BY <1>7, <2>1 DEF LaunchDies
<1>8. ASSUME SessionEnds \/ WindowEnds \/ AccessEnds PROVE ClockNeedsLaunch'
  BY <1>8 DEF SessionEnds, WindowEnds, AccessEnds
<1>9. ASSUME NEW o \in Orders, OrderStep(o) PROVE UNCHANGED <<pc, launchCount, window>>
  BY <1>9 DEF OrderStep, Checkout, Charge, Purge
<1>10. ASSUME NEW c \in Confirms, NEW o \in Orders, Confirm(c, o)
       PROVE  UNCHANGED <<pc, launchCount, window>>
  BY <1>10 DEF Confirm
<1>11. ASSUME NEW c \in Confirms, MarkPaid(c) \/ ConfirmDies(c)
       PROVE  UNCHANGED <<pc, launchCount, window>>
  BY <1>11 DEF MarkPaid, ConfirmDies
<1>12. CASE UNCHANGED vars
  BY <1>1, <1>12 DEF vars
<1> QED
  BY <1>1, <1>2, <1>3, <1>4, <1>5, <1>6, <1>7, <1>8, <1>9, <1>10, <1>11, <1>12
     DEF Next, ConfirmStep, LaunchStep

-----------------------------------------------------------------------------
(* The counting                                                              *)

\* The sets that are counted are finite.
LEMMA Finite ==
  ASSUME TypeOK
  PROVE  /\ IsFiniteSet(Spent) /\ Cardinality(Spent) \in Nat
         /\ IsFiniteSet(Charged) /\ Cardinality(Charged) \in Nat
         /\ IsFiniteSet(refills) /\ Cardinality(refills) \in Nat
<1>1. Spent \in SUBSET Launches /\ Charged \in SUBSET Launches
  BY DEF Spent, Charged
<1>2. refills \in SUBSET Confirms
  BY DEF TypeOK
<1> QED
  BY <1>1, <1>2, FS_Subset, FS_CardinalityType, SupplyAssumption

\* A launch that was given its reservation back has only the reset of the window left.
LEMMA ForgivenStepInv == TypeOK /\ ForgivenInv /\ [Next]_vars => ForgivenInv'
<1> SUFFICES ASSUME TypeOK, ForgivenInv, [Next]_vars
             PROVE  ForgivenInv'
  OBVIOUS
<1> USE DEF TypeOK, ForgivenInv, orderVars, rowVars, launchVars, history, runs
<1>1. CASE UNCHANGED <<pc, forgiven>>
  BY <1>1
<1>2. ASSUME NEW l \in Launches,
             ReadEntitlement(l) \/ Reserve(l) \/ Provision(l) \/ Refuse(l)
      PROVE  ForgivenInv'
  <2>1. UNCHANGED forgiven /\ pc[l] \in {"idle", "reserve", "launch"}
    BY <1>2 DEF ReadEntitlement, Reserve, Provision, Refuse
  <2>2. \A m \in Launches \ {l} : pc'[m] = pc[m]
    BY <1>2 DEF ReadEntitlement, Reserve, Provision, Refuse
  <2> QED
    BY <2>1, <2>2
<1>3. ASSUME NEW l \in Launches, Rollback(l) PROVE ForgivenInv'
  <2>1. CASE launchCount > 0
    BY <1>3, <2>1 DEF Rollback
  <2>2. CASE ~(launchCount > 0)
    BY <1>3, <2>2 DEF Rollback
  <2> QED
    BY <2>1, <2>2
<1>4. ASSUME NEW l \in Launches, Unstamp(l) \/ LaunchDies(l) PROVE ForgivenInv'
  <2>1. UNCHANGED forgiven /\ pc[l] \in {"launch", "rollback", "unstamp"}
    BY <1>4 DEF Unstamp, LaunchDies
  <2>2. /\ \A m \in Launches \ {l} : pc'[m] = pc[m]
        /\ pc[l] = "unstamp" => pc'[l] \in {"over", "stamped"}
    BY <1>4 DEF Unstamp, LaunchDies
  <2> QED
    BY <2>1, <2>2
<1>5. ASSUME NEW o \in Orders, OrderStep(o) PROVE UNCHANGED <<pc, forgiven>>
  BY <1>5 DEF OrderStep, Checkout, Charge, Purge
<1>6. ASSUME NEW c \in Confirms, ConfirmStep(c) PROVE UNCHANGED <<pc, forgiven>>
  BY <1>6 DEF ConfirmStep, Confirm, Grant, MarkPaid, ConfirmDies
<1>7. ASSUME SessionEnds \/ WindowEnds \/ AccessEnds PROVE UNCHANGED <<pc, forgiven>>
  BY <1>7 DEF SessionEnds, WindowEnds, AccessEnds
<1>8. CASE UNCHANGED vars
  BY <1>1, <1>8 DEF vars
<1> QED
  BY <1>1, <1>2, <1>3, <1>4, <1>5, <1>6, <1>7, <1>8 DEF Next, LaunchStep

\* A launch that leaves the spent ones lowers their number by one; one that only
\* moves among them, or outside them, leaves it alone.
LEMMA BudgetStepInv ==
  TypeOK /\ TypeOK' /\ ConfirmInv /\ ForgivenInv /\ BudgetInv /\ [Next]_vars => BudgetInv'
<1> SUFFICES ASSUME TypeOK, TypeOK', ConfirmInv, ForgivenInv, BudgetInv, [Next]_vars
             PROVE  BudgetInv'
  OBVIOUS
<1> USE DEF orderVars, rowVars, launchVars, history, runs
<1>f. /\ IsFiniteSet(Spent) /\ Cardinality(Spent) \in Nat
      /\ IsFiniteSet(refills) /\ Cardinality(refills) \in Nat
  BY Finite
<1>m. MaxLaunches \in Nat /\ MaxLaunches > 0 /\ launchCount \in 0..MaxLaunches
  BY MaxAssumption DEF TypeOK
<1>1. CASE UNCHANGED <<pc, runs, launchCount, window, orderId, refills>>
  BY <1>1 DEF BudgetInv, Spent
<1>2. ASSUME NEW c \in Confirms, Grant(c) PROVE BudgetInv'
  <2>1. CASE orderId = conf[c].order
    BY <1>1, <1>2, <2>1 DEF Grant
  <2>2. CASE orderId # conf[c].order
    <3>1. /\ Spent' = Spent /\ launchCount' = 0 /\ orderId' # None
          /\ refills' = refills \cup {c} /\ c \notin refills
      BY <1>2, <2>2, NoneAssumption DEF Grant, ConfirmInv, Spent, TypeOK
    <3>2. Cardinality(refills') = Cardinality(refills) + 1
      BY <1>f, <3>1, FS_AddElement
    <3>3. MaxLaunches * (Cardinality(refills) + 1) = MaxLaunches * Cardinality(refills) + MaxLaunches
      BY <1>f, <1>m
    <3>4. MaxLaunches * Cardinality(refills) \in Nat
      BY <1>f, <1>m
    <3>5. Cardinality(Spent) <= MaxLaunches * Cardinality(refills)
      <4>1. CASE orderId = None
        BY <1>f, <3>4, <4>1, FS_EmptySet DEF BudgetInv
      <4>2. CASE orderId # None
        BY <1>f, <1>m, <3>4, <4>2 DEF BudgetInv
      <4> QED
        BY <4>1, <4>2
    <3>6. Cardinality(Spent) + MaxLaunches
            <= MaxLaunches * Cardinality(refills') + launchCount'
      BY <1>f, <1>m, <3>1, <3>2, <3>3, <3>4, <3>5
    <3> QED
      BY <3>1, <3>6 DEF BudgetInv
  <2> QED
    BY <2>1, <2>2
<1>3. ASSUME NEW l \in Launches, Reserve(l) PROVE BudgetInv'
  <2>1. CASE UNCHANGED <<launchCount, version>>
    <3>1. Spent' = Spent /\ UNCHANGED <<launchCount, window, orderId, refills>>
      BY <1>3, <2>1 DEF Reserve, Spent, TypeOK
    <3> QED
      BY <3>1 DEF BudgetInv
  <2>2. CASE ~ UNCHANGED <<launchCount, version>>
    <3>1. /\ launchCount' = launchCount + 1 /\ orderId # None
          /\ UNCHANGED <<orderId, refills>>
      BY <1>3, <2>2 DEF Reserve
    <3>2. Spent' = Spent \/ Spent' = Spent \cup {l}
      BY <1>3 DEF Reserve, Spent, TypeOK
    <3>3. Cardinality(Spent') <= Cardinality(Spent) + 1 /\ Cardinality(Spent') \in Nat
      <4>1. Cardinality(Spent \cup {l}) = IF l \in Spent THEN Cardinality(Spent) ELSE Cardinality(Spent) + 1
        BY <1>f, FS_AddElement
      <4> QED
        BY <1>f, <3>2, <4>1
    <3>4. MaxLaunches * Cardinality(refills) \in Nat
      BY <1>f, <1>m
    <3> QED
      BY <1>f, <1>m, <3>1, <3>3, <3>4 DEF BudgetInv
  <2> QED
    BY <2>1, <2>2
<1>4. ASSUME NEW l \in Launches, ReadEntitlement(l) \/ Provision(l) \/ Refuse(l)
      PROVE  BudgetInv'
  <2>1. Spent' = Spent
    <3>1. CASE ReadEntitlement(l)
      BY <3>1 DEF ReadEntitlement, Spent, TypeOK
    <3>2. CASE Provision(l)
      BY <3>2 DEF Provision, Spent, TypeOK, ForgivenInv
    <3>3. CASE Refuse(l)
      BY <3>3 DEF Refuse, Spent, TypeOK
    <3> QED
      BY <1>4, <3>1, <3>2, <3>3
  <2>2. UNCHANGED <<launchCount, window, orderId, refills>>
    BY <1>4 DEF ReadEntitlement, Provision, Refuse
  <2> QED
    BY <2>1, <2>2 DEF BudgetInv
<1>5. ASSUME NEW l \in Launches, Rollback(l) PROVE BudgetInv'
  <2>1. l \in Spent /\ UNCHANGED <<orderId, refills>>
    BY <1>5 DEF Rollback, Spent
  <2>2. orderId # None /\ orderId' # None
    BY <2>1 DEF BudgetInv
  <2>3. MaxLaunches * Cardinality(refills) \in Nat
    BY <1>f, <1>m
  <2>4. Cardinality(Spent) + MaxLaunches <= MaxLaunches * Cardinality(refills) + launchCount
    BY <2>2 DEF BudgetInv
  <2>5. Cardinality(Spent \ {l}) = Cardinality(Spent) - 1
    BY <1>f, <2>1, FS_RemoveElement
  <2>6. CASE launchCount > 0
    <3>1. Spent' = Spent \ {l} /\ launchCount' = launchCount - 1
      BY <1>5, <2>6 DEF Rollback, Spent, TypeOK
    <3>2. Cardinality(Spent') + MaxLaunches <= MaxLaunches * Cardinality(refills) + launchCount'
      BY <1>f, <1>m, <2>3, <2>4, <2>5, <3>1
    <3> QED
      BY <2>1, <2>2, <3>2 DEF BudgetInv
  <2>7. CASE ~(launchCount > 0)
    <3>1. (Spent' = Spent \/ Spent' = Spent \ {l}) /\ UNCHANGED launchCount
      BY <1>5, <2>7 DEF Rollback, Spent, TypeOK
    <3>c. Cardinality(Spent') \in {Cardinality(Spent), Cardinality(Spent) - 1}
      BY <2>5, <3>1
    <3>2. Cardinality(Spent') + MaxLaunches <= MaxLaunches * Cardinality(refills) + launchCount'
      BY <1>f, <1>m, <2>3, <2>4, <3>c, <3>1
    <3> QED
      BY <2>1, <2>2, <3>2 DEF BudgetInv
  <2> QED
    BY <2>6, <2>7
<1>6. ASSUME NEW l \in Launches, Unstamp(l) PROVE BudgetInv'
  <2>1. Spent' = Spent /\ UNCHANGED <<launchCount, orderId, refills>>
    BY <1>6 DEF Unstamp, Spent, TypeOK
  <2>2. window = "none" => window' = "none"
    BY <1>6 DEF Unstamp
  <2> QED
    BY <2>1, <2>2 DEF BudgetInv
<1>7. ASSUME NEW l \in Launches, LaunchDies(l) PROVE BudgetInv'
  <2>1. Spent' = Spent \ {l} \/ Spent' = Spent
    BY <1>7 DEF LaunchDies, Spent, TypeOK
  <2>2. Cardinality(Spent') <= Cardinality(Spent) /\ Cardinality(Spent') \in Nat
    <3>1. Spent \ {l} \in SUBSET Spent
      OBVIOUS
    <3>2. IsFiniteSet(Spent \ {l}) /\ Cardinality(Spent \ {l}) <= Cardinality(Spent)
      BY <1>f, <3>1, FS_Subset
    <3>3. Cardinality(Spent \ {l}) \in Nat
      BY <3>2, FS_CardinalityType
    <3>4. CASE Spent' = Spent
      BY <1>f, <3>4
    <3>5. CASE Spent' = Spent \ {l}
      BY <3>2, <3>3, <3>5
    <3> QED
      BY <2>1, <3>4, <3>5
  <2>3. UNCHANGED <<launchCount, window, orderId, refills>>
    BY <1>7 DEF LaunchDies
  <2>4. MaxLaunches * Cardinality(refills) \in Nat
    BY <1>f, <1>m
  <2>5. Spent = {} => Spent' = {}
    BY <2>1
  <2> QED
    BY <1>f, <1>m, <2>2, <2>3, <2>4, <2>5 DEF BudgetInv
<1>8. ASSUME SessionEnds \/ WindowEnds \/ AccessEnds PROVE BudgetInv'
  <2>1. UNCHANGED <<pc, runs, launchCount, orderId, refills>> /\ (window = "none" => window' = "none")
    BY <1>8 DEF SessionEnds, WindowEnds, AccessEnds
  <2> QED
    BY <2>1 DEF BudgetInv, Spent
<1>9. ASSUME NEW o \in Orders, OrderStep(o)
      PROVE  UNCHANGED <<pc, runs, launchCount, window, orderId, refills>>
  BY <1>9 DEF OrderStep, Checkout, Charge, Purge
<1>10. ASSUME NEW c \in Confirms, NEW o \in Orders, Confirm(c, o)
       PROVE  UNCHANGED <<pc, runs, launchCount, window, orderId, refills>>
  BY <1>10 DEF Confirm
<1>11. ASSUME NEW c \in Confirms, MarkPaid(c) \/ ConfirmDies(c)
       PROVE  UNCHANGED <<pc, runs, launchCount, window, orderId, refills>>
  BY <1>11 DEF MarkPaid, ConfirmDies
<1>12. CASE UNCHANGED vars
  BY <1>1, <1>12 DEF vars
<1> QED
  BY <1>1, <1>2, <1>3, <1>4, <1>5, <1>6, <1>7, <1>8, <1>9, <1>10, <1>11, <1>12
     DEF Next, ConfirmStep, LaunchStep

\* Every step that raises the counter adds the launch to the charged ones, and a
\* launch leaves them only with its rollback; a refill starts from 0.
LEMMA ChargeStepInv ==
  TypeOK /\ TypeOK' /\ NeverOvercharged /\ [Next]_vars => NeverOvercharged'
<1> SUFFICES ASSUME TypeOK, TypeOK', NeverOvercharged, [Next]_vars
             PROVE  NeverOvercharged'
  OBVIOUS
<1> USE DEF NeverOvercharged, orderVars, rowVars, launchVars, history, runs
<1>f. IsFiniteSet(Charged) /\ Cardinality(Charged) \in Nat
  BY Finite
<1>g. launchCount \in Nat
  BY MaxAssumption DEF TypeOK
<1>1. CASE UNCHANGED <<pc, paidBy, purchase, launchCount>>
  BY <1>1 DEF Charged
<1>2. ASSUME NEW c \in Confirms, Grant(c) PROVE NeverOvercharged'
  <2>1. CASE orderId = conf[c].order
    BY <1>1, <1>2, <2>1 DEF Grant
  <2>2. CASE orderId # conf[c].order
    <3>1. launchCount' = 0
      BY <1>2, <2>2 DEF Grant
    <3>2. Charged' \in SUBSET Launches
      BY DEF Charged
    <3>3. Cardinality(Charged') \in Nat
      BY <3>2, FS_Subset, FS_CardinalityType, SupplyAssumption
    <3> QED
      BY <3>1, <3>3
  <2> QED
    BY <2>1, <2>2
<1>3. ASSUME NEW l \in Launches, Reserve(l) PROVE NeverOvercharged'
  <2>1. CASE UNCHANGED <<launchCount, version>>
    <3>1. Charged' = Charged /\ UNCHANGED launchCount
      BY <1>3, <2>1 DEF Reserve, Charged, TypeOK
    <3> QED
      BY <3>1
  <2>2. CASE ~ UNCHANGED <<launchCount, version>>
    <3>1. launchCount' = launchCount + 1
      BY <1>3, <2>2 DEF Reserve
    <3>2. Charged' = Charged \cup {l} /\ l \notin Charged
      BY <1>3, <2>2 DEF Reserve, Charged, TypeOK
    <3>3. Cardinality(Charged') = Cardinality(Charged) + 1
      BY <1>f, <3>2, FS_AddElement
    <3> QED
      BY <1>f, <1>g, <3>1, <3>3
  <2> QED
    BY <2>1, <2>2
<1>4. ASSUME NEW l \in Launches,
             ReadEntitlement(l) \/ Provision(l) \/ Refuse(l) \/ Unstamp(l) \/ LaunchDies(l)
      PROVE  NeverOvercharged'
  <2>1. Charged' = Charged
    BY <1>4 DEF ReadEntitlement, Provision, Refuse, Unstamp, LaunchDies, Charged, TypeOK
  <2>2. UNCHANGED launchCount
    BY <1>4 DEF ReadEntitlement, Provision, Refuse, Unstamp, LaunchDies
  <2> QED
    BY <2>1, <2>2
<1>5. ASSUME NEW l \in Launches, Rollback(l) PROVE NeverOvercharged'
  <2>1. Charged' = Charged \ {l}
    BY <1>5 DEF Rollback, Charged, TypeOK
  <2>2. Cardinality(Charged') >= Cardinality(Charged) - 1 /\ Cardinality(Charged') \in Nat
    <3>1. /\ IsFiniteSet(Charged \ {l})
          /\ Cardinality(Charged \ {l})
               = IF l \in Charged THEN Cardinality(Charged) - 1 ELSE Cardinality(Charged)
      BY <1>f, FS_RemoveElement
    <3>2. Cardinality(Charged \ {l}) \in Nat
      BY <3>1, FS_CardinalityType
    <3> QED
      BY <1>f, <2>1, <3>1, <3>2
  <2>3. launchCount' = launchCount - 1 \/ (launchCount' = 0 /\ launchCount = 0)
    BY <1>5, <1>g DEF Rollback
  <2> QED
    BY <1>f, <1>g, <2>2, <2>3
<1>6. ASSUME SessionEnds \/ WindowEnds \/ AccessEnds
      PROVE  UNCHANGED <<pc, paidBy, purchase, launchCount>>
  BY <1>6 DEF SessionEnds, WindowEnds, AccessEnds
<1>7. ASSUME NEW o \in Orders, OrderStep(o)
      PROVE  UNCHANGED <<pc, paidBy, purchase, launchCount>>
  BY <1>7 DEF OrderStep, Checkout, Charge, Purge
<1>8. ASSUME NEW c \in Confirms, NEW o \in Orders, Confirm(c, o)
      PROVE  UNCHANGED <<pc, paidBy, purchase, launchCount>>
  BY <1>8 DEF Confirm
<1>9. ASSUME NEW c \in Confirms, MarkPaid(c) \/ ConfirmDies(c)
      PROVE  UNCHANGED <<pc, paidBy, purchase, launchCount>>
  BY <1>9 DEF MarkPaid, ConfirmDies
<1>10. CASE UNCHANGED vars
  BY <1>1, <1>10 DEF vars
<1> QED
  BY <1>1, <1>2, <1>3, <1>4, <1>5, <1>6, <1>7, <1>8, <1>9, <1>10
     DEF Next, ConfirmStep, LaunchStep

-----------------------------------------------------------------------------
(* The theorems                                                              *)

\* Every reachable state satisfies the inductive invariant.
LEMMA InvariantHolds == Spec => []PInv
<1>1. Init => PInv
  <2> SUFFICES ASSUME Init PROVE PInv
    OBVIOUS
  <2>1. TypeOK
    BY TypeInit
  <2>2. ConfirmInv /\ PaidIsGranted
    BY NoneAssumption DEF Init, ConfirmInv, PaidIsGranted
  <2>3. ReserveInv /\ OneReservePerReading /\ ClockNeedsLaunch
    BY DEF Init, ReserveInv, OneReservePerReading, ClockNeedsLaunch
  <2>f. ForgivenInv
    BY DEF Init, ForgivenInv
  <2>4. Spent = {} /\ Charged = {}
    BY DEF Init, Spent, Charged
  <2>5. BudgetInv /\ NeverOvercharged
    BY <2>4, FS_EmptySet DEF Init, BudgetInv, NeverOvercharged
  <2> QED
    BY <2>1, <2>2, <2>3, <2>f, <2>5 DEF PInv, RowInv
<1>2. PInv /\ [Next]_vars => PInv'
  BY TypeStep, ConfirmStepInv, ReserveStepInv, ClockStepInv, ForgivenStepInv,
     BudgetStepInv, ChargeStepInv
     DEF PInv, RowInv
<1> QED
  BY <1>1, <1>2, PTL DEF Spec

\* The invariant leaves no more runs than the refills paid for: the runs that were not
\* given back are spent launches, and the counter of the last refill is at most MaxLaunches.
LEMMA InvariantBudget == PInv => BudgetRefilled
<1> SUFFICES ASSUME PInv PROVE BudgetRefilled
  OBVIOUS
<1>1. TypeOK /\ BudgetInv
  BY DEF PInv
<1>2. IsFiniteSet(Spent) /\ Cardinality(Spent) \in Nat /\ Cardinality(refills) \in Nat
  BY <1>1, Finite
<1>3. served \ forgiven \in SUBSET Spent
  BY <1>1 DEF Spent, TypeOK
<1>4. /\ Cardinality(served \ forgiven) <= Cardinality(Spent)
      /\ Cardinality(served \ forgiven) \in Nat
  BY <1>2, <1>3, FS_Subset, FS_CardinalityType
<1>5. MaxLaunches \in Nat /\ launchCount \in 0..MaxLaunches
  BY <1>1, MaxAssumption DEF TypeOK
<1>6. MaxLaunches * Cardinality(refills) \in Nat
  BY <1>2, <1>5
<1>7. Cardinality(Spent) <= MaxLaunches * Cardinality(refills)
  <2>1. CASE orderId = None
    BY <1>1, <1>6, <2>1, FS_EmptySet DEF BudgetInv
  <2>2. CASE orderId # None
    BY <1>1, <1>2, <1>5, <1>6, <2>2 DEF BudgetInv
  <2> QED
    BY <2>1, <2>2
<1> QED
  BY <1>2, <1>4, <1>6, <1>7 DEF BudgetRefilled

\* However purchases, launches and late rollbacks overlap, the engine never starts more
\* than MaxLaunches sessions for each refill of the row, besides those whose reservation
\* was given back because the route missed the engine's answer.
THEOREM BudgetHolds == Spec => []BudgetRefilled
<1> QED
  BY InvariantHolds, InvariantBudget, PTL

\* The counter never exceeds the launches of this refill that ran, are under way,
\* or lost their answer or their rollback: a failed launch is not charged.
THEOREM ChargesHold == Spec => []NeverOvercharged
<1>1. PInv => NeverOvercharged
  BY DEF PInv
<1> QED
  BY <1>1, InvariantHolds, PTL

\* A window that runs has a used launch, or a rollback that did not finish.
THEOREM ClockHolds == Spec => []ClockNeedsLaunch
<1>1. PInv => ClockNeedsLaunch
  BY DEF PInv, RowInv
<1> QED
  BY <1>1, InvariantHolds, PTL

\* An order that is recorded as paid refilled the budget before.
THEOREM GrantPrecedesPaid == Spec => []PaidIsGranted
<1>1. PInv => PaidIsGranted
  BY DEF PInv, RowInv
<1> QED
  BY <1>1, InvariantHolds, PTL

\* The compare-and-swap lets one launch through for each version that was read.
THEOREM ReservationsExclude == Spec => []OneReservePerReading
<1>1. PInv => OneReservePerReading
  BY DEF PInv, RowInv
<1> QED
  BY <1>1, InvariantHolds, PTL
=============================================================================
