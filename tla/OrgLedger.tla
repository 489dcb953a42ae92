------------------------------ MODULE OrgLedger ------------------------------
(* The credits of one employer: bought by orders, adjusted by staff, spent by  *)
(* invites, given back by refunds, each in one transaction of two rows; and the*)
(* mail to ops when the credits run low, claimed by a conditional stamp that a *)
(* top-up removes.  engine/entinfra.mjs; POST /ent/invites and its neighbours  *)
(* in engine/ent-handler.mjs.                                                  *)
EXTENDS EntNames, Integers, FiniteSets

CONSTANTS Orders,
          OrderCredits,  \* credits of an order
          MaxAdjust      \* bound: credits staff adds or takes away by hand

ASSUME LedgerConstants ==
  /\ IsFiniteSet(Invites) /\ IsFiniteSet(Orders)
  /\ OrderCredits \in Nat \ {0} /\ MaxAdjust \in Nat

VARIABLES
  \* ---- the row of the org
  creditsTotal, creditsUsed,
  notified,   \* lowCreditNotifiedAt is set
  \* ---- tables Invites and Orders
  charged,    \* invites that were created
  refunds,    \* invites with the flag refunded
  order,      \* order[o]: "none", "created" or "paid"
  \* ---- what happened
  added,      \* credits staff added by hand
  taken,      \* credits staff took away by hand
  won,        \* checks that claimed the mail since the last top-up
  \* ---- requests
  alert       \* alert[r]: the low-credit check after a charge

ledgerVars == <<creditsTotal, creditsUsed, notified, charged, refunds, order,
                added, taken, won, alert>>

LedgerTypeOK ==
  /\ creditsTotal \in Int
  /\ creditsUsed \in Nat
  /\ notified \in BOOLEAN
  /\ charged \in SUBSET Invites
  /\ refunds \in SUBSET Invites
  /\ order \in [Orders -> {"none", "created", "paid"}]
  /\ added \in Nat
  /\ taken \in Nat
  /\ won \in Nat
  /\ alert \in [Requests -> {"none", "check", "stamp", "mail"}]

LedgerInit ==
  /\ creditsTotal = 0
  /\ creditsUsed = 0
  /\ notified = FALSE
  /\ charged = {}
  /\ refunds = {}
  /\ order = [o \in Orders |-> "none"]
  /\ added = 0
  /\ taken = 0
  /\ won = 0
  /\ alert = [r \in Requests |-> "none"]

-----------------------------------------------------------------------------
\* At least 80 percent of the credits are used.
RunsLow == creditsTotal > 0 /\ 5 * creditsUsed >= 4 * creditsTotal

TopUp(n) ==
  /\ creditsTotal' = creditsTotal + n
  /\ notified' = FALSE
  /\ won' = 0

\* addCredits(), without a condition; the delta of an adjustment may be negative.
AdjustsCredits(n) ==
  /\ added + taken + n <= MaxAdjust
  /\ \/ TopUp(n) /\ added' = added + n /\ UNCHANGED taken
     \/ TopUp(-n) /\ taken' = taken + n /\ UNCHANGED added
  /\ UNCHANGED <<creditsUsed, charged, refunds, order, alert>>

\* createOrder()
CreatesOrder(o) ==
  /\ order[o] = "none"
  /\ order' = [order EXCEPT ![o] = "created"]
  /\ UNCHANGED <<creditsTotal, creditsUsed, notified, charged, refunds, added, taken, won, alert>>

\* Mutant: the order is not asked whether it is paid.
PaysAgain(o) ==
  /\ order[o] # "none"
  /\ creditsTotal <= MaxAdjust + OrderCredits * Cardinality(Orders)
  /\ order' = [order EXCEPT ![o] = "paid"]
  /\ TopUp(OrderCredits)
  /\ UNCHANGED <<creditsUsed, charged, refunds, added, taken, alert>>

\* markOrderPaid(): status and credits in one transaction.
PaysOrder(o) ==
  /\ order[o] = "created"
  /\ order' = [order EXCEPT ![o] = "paid"]
  /\ TopUp(OrderCredits)
  /\ UNCHANGED <<creditsUsed, charged, refunds, added, taken, alert>>

\* createInvite(): the row and the credit in one transaction; a token that has a row
\* already is not charged again.
Charges(r, i) ==
  /\ alert[r] = "none"
  /\ i \notin charged
  /\ creditsUsed < creditsTotal
  /\ charged' = charged \cup {i}
  /\ creditsUsed' = creditsUsed + 1
  /\ alert' = [alert EXCEPT ![r] = "check"]
  /\ UNCHANGED <<creditsTotal, notified, refunds, order, added, taken, won>>

\* refundInvite(): the flag and the credit in one transaction.
Refunds(i) ==
  /\ i \in charged \ refunds
  /\ refunds' = refunds \cup {i}
  /\ creditsUsed' = creditsUsed - 1
  /\ UNCHANGED <<creditsTotal, notified, charged, order, added, taken, won, alert>>

\* After the charge: the org is read again ...
ChecksCredits(r) ==
  /\ alert[r] = "check"
  /\ alert' = [alert EXCEPT ![r] = IF RunsLow /\ ~notified THEN "stamp" ELSE "none"]
  /\ UNCHANGED <<creditsTotal, creditsUsed, notified, charged, refunds, order, added, taken, won>>

\* Mutant: the stamp has no condition.
StampsAnyway(r) ==
  /\ alert[r] = "stamp"
  /\ notified' = TRUE
  /\ won' = won + 1
  /\ alert' = [alert EXCEPT ![r] = "mail"]
  /\ UNCHANGED <<creditsTotal, creditsUsed, charged, refunds, order, added, taken>>

\* ... stampLowCreditNotified() has one winner ...
StampsAlert(r) ==
  /\ alert[r] = "stamp"
  /\ notified' = TRUE
  /\ won' = IF notified THEN won ELSE won + 1
  /\ alert' = [alert EXCEPT ![r] = IF notified THEN "none" ELSE "mail"]
  /\ UNCHANGED <<creditsTotal, creditsUsed, charged, refunds, order, added, taken>>

\* ... and the winner sends the mail.
SendsMail(r) ==
  /\ alert[r] = "mail"
  /\ alert' = [alert EXCEPT ![r] = "none"]
  /\ UNCHANGED <<creditsTotal, creditsUsed, notified, charged, refunds, order, added, taken, won>>

AlertDies(r) ==
  /\ alert[r] # "none"
  /\ alert' = [alert EXCEPT ![r] = "none"]
  /\ UNCHANGED <<creditsTotal, creditsUsed, notified, charged, refunds, order, added, taken, won>>

LedgerNext ==
  \/ \E n \in 1..MaxAdjust : AdjustsCredits(n)
  \/ \E o \in Orders : CreatesOrder(o) \/ PaysOrder(o)
  \/ \E i \in Invites : Refunds(i)
  \/ \E r \in Requests :
       \/ \E i \in Invites : Charges(r, i)
       \/ ChecksCredits(r) \/ StampsAlert(r) \/ SendsMail(r) \/ AlertDies(r)

LedgerSpec == LedgerInit /\ [][LedgerNext]_ledgerVars

-----------------------------------------------------------------------------
Paid == {o \in Orders : order[o] = "paid"}

\* The balance is what the rows say, in every state: an order is granted once, an
\* invite is charged once and refunded once, however often a request is repeated
\* ("exactly once", markOrderPaid, createInvite, refundInvite); and no employer has
\* spent more than was bought, but for credits that staff took away afterwards:
\* nothing asks whether they were still there.
CreditsBalance ==
  /\ creditsUsed = Cardinality(charged \ refunds)
  /\ creditsTotal = added - taken + OrderCredits * Cardinality(Paid)
  /\ creditsUsed <= creditsTotal + taken

\* Between two top-ups at most one request claims the mail to ops, however many cross
\* the 80 percent at the same time ("race to exactly one winner", POST /ent/invites).
OneWinner == won <= 1

=============================================================================
