--------------------------- MODULE RecordsProofs ---------------------------
(* Theorems about the smaller parts of the system, for any sets of invites,    *)
(* requests, orders, rows, papers, slots, launches and users.  Each part has   *)
(* an invariant of its own, which every one of its actions preserves.          *)
EXTENDS Records, RecorderProofs, FiniteSetTheorems, TLAPS

-----------------------------------------------------------------------------
(* Agreements                                                                *)

\* A request that does something is about a paper.
PapersInv ==
  /\ PapersTypeOK /\ AcceptedForGood
  /\ \A r \in Requests : desk[r].step # "none" => desk[r].paper \in Papers

\* Every step of a request at an agreement keeps the invariant.
LEMMA PapersStep == ASSUME PapersInv, [PapersNext]_paperVars PROVE PapersInv'
<1> USE DEF PapersInv, PapersTypeOK, AcceptedForGood, Sits, Sitting, NoSitting
<1>1. ASSUME NEW p \in Papers, NEW t \in Texts, Edits(p, t) PROVE PapersInv'
  BY <1>1 DEF Edits
<1>2. ASSUME NEW p \in Papers, NEW t \in Texts, NEW old \in Papers \cup {None},
             Drafts(p, t, old)
      PROVE  PapersInv'
  BY <1>2 DEF Drafts
<1>3. ASSUME NEW p \in Papers, Voids(p) PROVE PapersInv'
  BY <1>3 DEF Voids
<1>4. ASSUME NEW p \in Papers, NEW r \in Requests, ReadsDraft(r, p) PROVE PapersInv'
  BY <1>4 DEF ReadsDraft
<1>5. ASSUME NEW p \in Papers, NEW r \in Requests, Accepts(r, p) PROVE PapersInv'
  BY <1>5 DEF Accepts
<1>6. ASSUME NEW r \in Requests, Issues(r) PROVE PapersInv'
  BY <1>6 DEF Issues
<1>7. ASSUME NEW r \in Requests, Supersedes(r) PROVE PapersInv'
  BY <1>7 DEF Supersedes
<1>8. ASSUME NEW r \in Requests, Mirrors(r) PROVE PapersInv'
  BY <1>8 DEF Mirrors
<1>9. ASSUME NEW r \in Requests, SittingDies(r) PROVE PapersInv'
  BY <1>9 DEF SittingDies
<1>10. CASE UNCHANGED paperVars
  BY <1>10 DEF paperVars
<1> QED
  BY <1>1, <1>2, <1>3, <1>4, <1>5, <1>6, <1>7, <1>8, <1>9, <1>10 DEF PapersNext

LEMMA PapersInvariant == PapersSpec => []PapersInv
<1>1. PapersInit => PapersInv
  BY DEF PapersInit, PapersInv, PapersTypeOK, AcceptedForGood, NoSitting, Sitting
<1>2. PapersInv /\ [PapersNext]_paperVars => PapersInv'
  BY PapersStep
<1> QED
  BY <1>1, <1>2, PTL DEF PapersSpec

\* What an employer has accepted stays what the row says, and its hash is right,
\* whatever is edited, issued, superseded and voided at the same time.
THEOREM AcceptedStays == PapersSpec => []AcceptedForGood
<1>1. PapersInv => AcceptedForGood
  BY DEF PapersInv
<1> QED
  BY <1>1, PapersInvariant, PTL

-----------------------------------------------------------------------------
(* One time codes                                                            *)

\* The attempts claimed at the code a row has are counted by its tries, and those at
\* the codes before it are at most MaxTries each.
CodesInv ==
  /\ CodesTypeOK
  /\ \A d \in Rows :
       /\ claims[d] <= MaxTries * sent[d]
       /\ code[d] # 0 => claims[d] + MaxTries <= MaxTries * sent[d] + tries[d]
  /\ \A r \in Requests : check[r].step # "none" => check[r].row \in Rows

\* Every step of a request with a code keeps the invariant.
LEMMA CodesStep == ASSUME CodesInv, [CodesNext]_codeVars PROVE CodesInv'
<1> USE CodeConstants DEF CodesInv, CodesTypeOK, Turns, Check, NoCheck
<1>1. ASSUME NEW r \in Requests, NEW d \in Rows, AsksForCode(r, d) PROVE CodesInv'
  BY <1>1 DEF AsksForCode
<1>2. ASSUME NEW r \in Requests, NEW d \in Rows, NEW typed \in 0..MaxCodes,
             ReadsRow(r, d, typed)
      PROVE  CodesInv'
  BY <1>2 DEF ReadsRow
<1>3. ASSUME NEW r \in Requests, SendsCode(r) PROVE CodesInv'
  <2> DEFINE d == check[r].row
  <2>1. d \in Rows
    BY <1>3 DEF SendsCode
  <2>2. CodesTypeOK'
    BY <1>3, <2>1 DEF SendsCode
  <2>3. MaxTries * (sent[d] + 1) = MaxTries * sent[d] + MaxTries
    BY <2>1
  <2>4. \A e \in Rows : /\ claims'[e] <= MaxTries * sent'[e]
                        /\ code'[e] # 0 =>
                             claims'[e] + MaxTries <= MaxTries * sent'[e] + tries'[e]
    BY <1>3, <2>1, <2>3 DEF SendsCode
  <2> QED
    BY <1>3, <2>2, <2>4 DEF SendsCode
<1>4. ASSUME NEW r \in Requests, ClaimsTry(r) PROVE CodesInv'
  <2> DEFINE d == check[r].row
             c == [check[r] EXCEPT !.step = "match", !.last = tries[d] + 1 = MaxTries]
  <2>1. d \in Rows
    BY <1>4 DEF ClaimsTry
  <2>2. CASE code[d] # 0 /\ tries[d] < MaxTries
    <3>1. /\ tries' = [tries EXCEPT ![d] = @ + 1]
          /\ claims' = [claims EXCEPT ![d] = @ + 1]
          /\ check' = [check EXCEPT ![r] = c]
          /\ UNCHANGED <<kind, state, code, barred, sent, doneBy>>
      BY <1>4, <2>2 DEF ClaimsTry
    <3>2. (tries[d] + 1 = MaxTries) \in BOOLEAN
      OBVIOUS
    <3>3. c \in [step : {"none", "send", "claim", "match", "bar"}, row : Rows \cup {None},
                 typed : 0..MaxCodes, saw : 0..MaxCodes, last : BOOLEAN]
      BY <3>2
    <3>4. tries[d] + 1 \in 0..MaxTries /\ claims[d] + 1 \in Nat
      BY <2>1, <2>2
    <3> HIDE DEF c
    <3>5. CodesTypeOK'
      BY <3>1, <3>3, <3>4, <2>1
    <3>6. c.row = d
      BY DEF c
    <3>7. \A e \in Rows : /\ claims'[e] <= MaxTries * sent'[e]
                          /\ code'[e] # 0 =>
                               claims'[e] + MaxTries <= MaxTries * sent'[e] + tries'[e]
      BY <3>1, <2>1, <2>2
    <3> QED
      BY <3>1, <3>5, <3>6, <3>7, <2>1
  <2>3. CASE ~(code[d] # 0 /\ tries[d] < MaxTries)
    <3>1. /\ check' = [check EXCEPT ![r] = [check[r] EXCEPT !.step = "bar"]]
          /\ UNCHANGED <<kind, state, code, tries, barred, sent, doneBy, claims>>
      BY <1>4, <2>3 DEF ClaimsTry
    <3> QED
      BY <3>1, <2>1
  <2> QED
    BY <2>2, <2>3
<1>5. ASSUME NEW r \in Requests, Moves(r) PROVE CodesInv'
  BY <1>5 DEF Moves
<1>6. ASSUME NEW r \in Requests, Misses(r) PROVE CodesInv'
  <2>1. check[r].row \in Rows /\ UNCHANGED <<kind, state, code, tries, barred, sent, doneBy, claims>>
    BY <1>6 DEF Misses
  <2>2. CASE check[r].last
    <3>1. check' = [check EXCEPT ![r] = [check[r] EXCEPT !.step = "bar"]]
      BY <1>6, <2>2 DEF Misses
    <3> QED
      BY <3>1, <2>1
  <2>3. CASE ~check[r].last
    <3>1. check' = [check EXCEPT ![r] = NoCheck]
      BY <1>6, <2>3 DEF Misses
    <3> QED
      BY <3>1, <2>1
  <2> QED
    BY <2>2, <2>3
<1>7. ASSUME NEW r \in Requests, Bars(r) PROVE CodesInv'
  BY <1>7 DEF Bars
<1>8. ASSUME NEW r \in Requests, CheckDies(r) PROVE CodesInv'
  BY <1>8 DEF CheckDies
<1>9. ASSUME NEW d \in Rows, Kills(d) PROVE CodesInv'
  BY <1>9 DEF Kills
<1>10. CASE UNCHANGED codeVars
  BY <1>10 DEF codeVars
<1> QED
  BY <1>1, <1>2, <1>3, <1>4, <1>5, <1>6, <1>7, <1>8, <1>9, <1>10 DEF CodesNext

\* The invariant holds in every state.
LEMMA CodesInvariant == CodesSpec => []CodesInv
<1>1. CodesInit => CodesInv
  BY CodeConstants DEF CodesInit, CodesInv, CodesTypeOK, NoCheck, Check
<1>2. CodesInv /\ [CodesNext]_codeVars => CodesInv'
  BY CodesStep
<1> QED
  BY <1>1, <1>2, PTL DEF CodesSpec

\* However many requests guess at once, a row sees at most MaxTries guesses for each
\* code that was sent for it.
THEOREM GuessesAreBounded == CodesSpec => []GuessesBounded
<1>1. CodesInv => GuessesBounded
  BY DEF CodesInv, GuessesBounded
<1> QED
  BY <1>1, CodesInvariant, PTL

\* A signature is never replaced, and a revoked row never moved.
THEOREM SignaturesStay == CodesSpec => SignedForGood
<1> DEFINE Stays ==
      \A d \in Rows :
        /\ state[d] = "done" /\ kind[d] = "doc" => state'[d] = "done" /\ doneBy'[d] = doneBy[d]
        /\ state[d] = "dead" => state'[d] = "dead"
<1>1. ASSUME CodesInv, [CodesNext]_codeVars PROVE [Stays]_codeVars
  <2>1. ASSUME NEW r \in Requests, Moves(r) PROVE Stays
    BY <1>1, <2>1 DEF Moves, MayMove, CodesInv, CodesTypeOK
  <2>2. ASSUME NEW d \in Rows, Kills(d) PROVE Stays
    BY <1>1, <2>2 DEF Kills, MayMove, CodesInv, CodesTypeOK
  <2>3. ASSUME UNCHANGED <<state, doneBy>> PROVE Stays
    BY <2>3
  <2> HIDE DEF Stays
  <2>4. ASSUME NEW r \in Requests, NEW d \in Rows, AsksForCode(r, d) PROVE Stays
    BY <2>3, <2>4 DEF AsksForCode
  <2>5. ASSUME NEW r \in Requests, NEW d \in Rows, NEW typed \in 0..MaxCodes,
               ReadsRow(r, d, typed)
        PROVE  Stays
    BY <2>3, <2>5 DEF ReadsRow
  <2>6. ASSUME NEW r \in Requests, SendsCode(r) \/ ClaimsTry(r) PROVE Stays
    BY <2>3, <2>6 DEF SendsCode, ClaimsTry
  <2>7. ASSUME NEW r \in Requests, Misses(r) \/ Bars(r) \/ CheckDies(r) PROVE Stays
    BY <2>3, <2>7 DEF Misses, Bars, CheckDies
  <2>8. ASSUME CodesNext PROVE Stays
    BY <2>1, <2>2, <2>4, <2>5, <2>6, <2>7, <2>8 DEF CodesNext
  <2> QED
    BY <1>1, <2>8
<1> QED
  BY <1>1, CodesInvariant, PTL DEF CodesSpec, SignedForGood

-----------------------------------------------------------------------------
(* Credits                                                                   *)

\* Only charged invites are refunded, the balance fits the rows, and a mail is only
\* claimed together with the stamp.
LedgerInv ==
  /\ LedgerTypeOK /\ refunds \subseteq charged
  /\ CreditsBalance
  /\ OneWinner /\ (~notified => won = 0)

\* A step that moves neither a row nor a credit keeps the balance.
LEMMA BalanceStays ==
  ASSUME CreditsBalance,
         UNCHANGED <<creditsTotal, creditsUsed, charged, refunds, order, added, taken>>
  PROVE  CreditsBalance'
BY DEF CreditsBalance, Paid

\* Staff adds credits, or takes them away: the rows stay what they are.
LEMMA AdjustStep ==
  ASSUME LedgerInv, NEW n \in 1..MaxAdjust, AdjustsCredits(n)
  PROVE  LedgerInv'
<1> USE LedgerConstants DEF LedgerInv, LedgerTypeOK, OneWinner, AdjustsCredits, TopUp
<1>1. n \in Nat /\ MaxAdjust \in Nat
  OBVIOUS
<1>2. Cardinality(Paid) \in Nat
  <2>1. Paid \subseteq Orders
    BY DEF Paid
  <2> QED
    BY <2>1, FS_Subset, FS_CardinalityType
<1>3. OrderCredits * Cardinality(Paid) \in Nat
  BY <1>2
<1>4. Paid' = Paid
  BY DEF Paid
<1>5. CreditsBalance'
  BY <1>1, <1>3, <1>4 DEF CreditsBalance
<1>6. /\ creditsTotal' \in Int /\ added' \in Nat /\ taken' \in Nat
      /\ won' = 0 /\ won' \in Nat /\ won' <= 1
  BY <1>1
<1>7. notified' \in BOOLEAN
  OBVIOUS
<1> HIDE DEF TopUp
<1> QED
  BY <1>5, <1>6, <1>7

\* A payment: the order is paid for the first time, so the set of the paid ones grows
\* by one as the total grows by its credits.
LEMMA PaysStep ==
  ASSUME LedgerInv, NEW o \in Orders, PaysOrder(o)
  PROVE  LedgerInv'
<1> USE LedgerConstants DEF LedgerInv, LedgerTypeOK, OneWinner, PaysOrder, TopUp
<1>1. Paid' = Paid \cup {o} /\ o \notin Paid
  BY DEF Paid
<1>2. IsFiniteSet(Paid)
  <2>1. Paid \subseteq Orders
    BY DEF Paid
  <2> QED
    BY <2>1, FS_Subset
<1>3. Cardinality(Paid') = Cardinality(Paid) + 1 /\ Cardinality(Paid) \in Nat
  BY <1>1, <1>2, FS_AddElement, FS_CardinalityType
<1>4. OrderCredits * (Cardinality(Paid) + 1) = OrderCredits * Cardinality(Paid) + OrderCredits
  BY <1>3
<1>5. OrderCredits * Cardinality(Paid) \in Nat
  BY <1>3
<1>6. CreditsBalance'
  BY <1>3, <1>4, <1>5 DEF CreditsBalance
<1>7. creditsTotal' \in Int /\ won' = 0 /\ won' \in Nat /\ won' <= 1
  OBVIOUS
<1>8. notified' \in BOOLEAN
  OBVIOUS
<1> HIDE DEF TopUp
<1> QED
  BY <1>6, <1>7, <1>8

\* An invite is created: one more is charged, and one more credit used.
LEMMA ChargesStep ==
  ASSUME LedgerInv, NEW r \in Requests, NEW i \in Invites, Charges(r, i)
  PROVE  LedgerInv'
<1> USE LedgerConstants DEF LedgerInv, LedgerTypeOK, OneWinner, Charges
<1>1. (charged \ refunds)' = (charged \ refunds) \cup {i} /\ i \notin charged \ refunds
  OBVIOUS
<1>2. IsFiniteSet(charged \ refunds)
  BY FS_Subset
<1>3. Cardinality((charged \ refunds)') = Cardinality(charged \ refunds) + 1
  BY <1>1, <1>2, FS_AddElement
<1>4. Paid' = Paid
  BY DEF Paid
<1>5. CreditsBalance'
  BY <1>3, <1>4 DEF CreditsBalance
<1> QED
  BY <1>5

\* An invite is refunded: one less.
LEMMA RefundsStep ==
  ASSUME LedgerInv, NEW i \in Invites, Refunds(i)
  PROVE  LedgerInv'
<1> USE LedgerConstants DEF LedgerInv, LedgerTypeOK, OneWinner, Refunds
<1>1. (charged \ refunds)' = (charged \ refunds) \ {i} /\ i \in charged \ refunds
  OBVIOUS
<1>2. IsFiniteSet(charged \ refunds)
  BY FS_Subset
<1>3. /\ Cardinality((charged \ refunds)') = Cardinality(charged \ refunds) - 1
      /\ Cardinality((charged \ refunds)') \in Nat
  <2> HIDE DEF LedgerInv, LedgerTypeOK, OneWinner, Refunds
  <2> DEFINE S == charged \ refunds
  <2>1. IsFiniteSet(S) /\ i \in S
    BY <1>1, <1>2
  <2> HIDE DEF S
  <2>2. IsFiniteSet(S \ {i}) /\ Cardinality(S \ {i}) = Cardinality(S) - 1
    BY <2>1, FS_RemoveElement
  <2>3. Cardinality(S \ {i}) \in Nat
    BY <2>2, FS_CardinalityType
  <2> QED
    BY <1>1, <2>2, <2>3 DEF S
<1>4. Paid' = Paid
  BY DEF Paid
<1>5. creditsUsed = Cardinality(charged \ refunds) /\ creditsUsed <= creditsTotal + taken
  BY DEF CreditsBalance
<1>6. creditsUsed' = Cardinality((charged \ refunds)') /\ creditsUsed' <= creditsTotal + taken
  BY <1>3, <1>5
<1>7. CreditsBalance'
  BY <1>4, <1>6 DEF CreditsBalance
<1> QED
  BY <1>3, <1>6, <1>7

\* Every step at the credits of an employer keeps the invariant.
LEMMA LedgerStep == ASSUME LedgerInv, [LedgerNext]_ledgerVars PROVE LedgerInv'
<1>1. ASSUME NEW o \in Orders, CreatesOrder(o) PROVE LedgerInv'
  <2>1. Paid' = Paid
    BY <1>1 DEF CreatesOrder, Paid, LedgerInv, LedgerTypeOK
  <2>2. CreditsBalance'
    BY <1>1, <2>1 DEF CreatesOrder, CreditsBalance, LedgerInv
  <2> QED
    BY <1>1, <2>2 DEF CreatesOrder, LedgerInv, LedgerTypeOK, OneWinner
<1>2. ASSUME NEW r \in Requests, ChecksCredits(r) PROVE LedgerInv'
  <2>1. CreditsBalance'
    BY <1>2, BalanceStays DEF ChecksCredits, LedgerInv
  <2> QED
    BY <1>2, <2>1 DEF ChecksCredits, LedgerInv, LedgerTypeOK, OneWinner
<1>3. ASSUME NEW r \in Requests, StampsAlert(r) PROVE LedgerInv'
  <2>1. CreditsBalance'
    BY <1>3, BalanceStays DEF StampsAlert, LedgerInv
  <2>2. CASE notified
    BY <1>3, <2>1, <2>2 DEF StampsAlert, LedgerInv, LedgerTypeOK, OneWinner
  <2>3. CASE ~notified
    BY <1>3, <2>1, <2>3 DEF StampsAlert, LedgerInv, LedgerTypeOK, OneWinner
  <2> QED
    BY <2>2, <2>3
<1>4. ASSUME NEW r \in Requests, SendsMail(r) \/ AlertDies(r) PROVE LedgerInv'
  <2>1. CreditsBalance'
    BY <1>4, BalanceStays DEF SendsMail, AlertDies, LedgerInv
  <2> QED
    BY <1>4, <2>1 DEF SendsMail, AlertDies, LedgerInv, LedgerTypeOK, OneWinner
<1>5. CASE UNCHANGED ledgerVars
  <2>1. CreditsBalance'
    BY <1>5, BalanceStays DEF ledgerVars, LedgerInv
  <2> QED
    BY <1>5, <2>1 DEF ledgerVars, LedgerInv, LedgerTypeOK, OneWinner
<1> QED
  BY <1>1, <1>2, <1>3, <1>4, <1>5, AdjustStep, PaysStep, ChargesStep, RefundsStep
     DEF LedgerNext

\* The invariant holds in every state.
LEMMA LedgerInvariant == LedgerSpec => []LedgerInv
<1>1. ASSUME LedgerInit PROVE LedgerInv
  <2>1. charged \ refunds = {} /\ Paid = {}
    BY <1>1 DEF LedgerInit, Paid
  <2>2. Cardinality(charged \ refunds) = 0 /\ Cardinality(Paid) = 0
    BY <2>1, FS_EmptySet
  <2>3. OrderCredits * 0 = 0
    BY LedgerConstants
  <2>4. CreditsBalance
    BY <1>1, <2>2, <2>3 DEF LedgerInit, CreditsBalance
  <2> QED
    <3>1. notified = FALSE /\ notified \in BOOLEAN
      BY <1>1 DEF LedgerInit
    <3> QED
      BY <1>1, <2>4, <3>1 DEF LedgerInit, LedgerInv, LedgerTypeOK, OneWinner
<1> QED
  BY <1>1, LedgerStep, PTL DEF LedgerSpec

\* The balance of an employer is what its orders, adjustments, invites and refunds
\* say, and it has never spent more than was bought, but for what was taken away from
\* it afterwards.
THEOREM CreditsAlwaysBalance == LedgerSpec => []CreditsBalance
<1>1. LedgerInv => CreditsBalance
  BY DEF LedgerInv
<1> QED
  BY <1>1, LedgerInvariant, PTL

\* Between two top-ups at most one request claims the low-credit mail.
THEOREM OneMailPerCrossing == LedgerSpec => []OneWinner
<1>1. LedgerInv => OneWinner
  BY DEF LedgerInv
<1> QED
  BY <1>1, LedgerInvariant, PTL

-----------------------------------------------------------------------------
(* Candidates of the HR product                                              *)

\* A request that is under way has read a row, and a save has a page to put back.
HrInv ==
  /\ HrTypeOK /\ AnswersStay
  /\ \A r \in HrRequests :
       /\ hr[r].op \notin {"new", "over"} => hr[r].cur \in CandRows
       /\ hr[r].op = "save" => hr[r].arg \in CandRows

\* What the write of a request leaves when no stale read was put back.
LEMMA WriteFacts ==
  ASSUME HrTypeOK, NEW r \in HrRequests, NEW op \in HrOps, NEW new \in CandRows \cup {None},
         Writes(r, op, new)
  PROVE  /\ row' = new /\ page' = page
         /\ clash' \in BOOLEAN
         /\ hr' \in [HrRequests -> [op : HrOps, cur : CandRows \cup {None},
                                    arg : CandRows \cup HrRequests \cup {None}]]
         /\ ~clash' => /\ ~clash
                       /\ op # "erase" => row # None
                       /\ op = "save" => row = hr[r].cur
<1>1. Asks("over", None, None) \in [op : HrOps, cur : CandRows \cup {None},
                                    arg : CandRows \cup HrRequests \cup {None}]
  BY DEF Asks, HrOps
<1>2. row' = new /\ page' = page /\ hr' = [hr EXCEPT ![r] = Asks("over", None, None)]
  BY DEF Writes
<1>3. clash' \in BOOLEAN
  BY Zenon DEF Writes
<1>4. ~clash' => /\ ~clash
                 /\ op # "erase" => row # None
                 /\ op = "save" => row = hr[r].cur
  BY Zenon DEF Writes
<1> HIDE DEF Writes
<1> QED
  BY <1>1, <1>2, <1>3, <1>4 DEF HrTypeOK

\* Every request at a candidate keeps the invariant.
LEMMA HrStep == ASSUME HrInv, [HrNext]_hrVars PROVE HrInv'
<1> DEFINE Ops == [op : HrOps, cur : CandRows \cup {None},
                   arg : CandRows \cup HrRequests \cup {None}]
<1>1. CASE LoadsPage
  BY <1>1 DEF LoadsPage, HrInv, AnswersStay, HrTypeOK
<1>2. ASSUME NEW r \in HrRequests, NEW op \in HrOps \ {"new", "over"},
             NEW arg \in HrRequests \cup {None}, HrReads(r, op, arg)
      PROVE  HrInv'
  <2> DEFINE q == Asks(op, row, IF op = "save" THEN page ELSE arg)
  <2>1. /\ hr' = [hr EXCEPT ![r] = q]
        /\ row # None /\ (op = "save" => page # None)
        /\ UNCHANGED <<row, page, told, seen, link, meets, clash>>
    BY <1>2 DEF HrReads
  <2>2. row \in CandRows /\ (op = "save" => page \in CandRows)
    BY <2>1 DEF HrInv, HrTypeOK
  <2>3. q \in Ops /\ q.op = op /\ q.cur = row /\ (op = "save" => q.arg = page)
    BY <2>2, <1>2 DEF HrInv, HrTypeOK, Asks
  <2> HIDE DEF q
  <2> QED
    BY <2>1, <2>2, <2>3 DEF HrInv, HrTypeOK, AnswersStay
<1>3. There \in CandRows /\ (row # None => There = row)
  BY DEF There, Bare, CandRows, HrInv, HrTypeOK
<1>4. ASSUME NEW r \in HrRequests, NEW op \in HrOps \ {"new", "over"},
             NEW new \in CandRows \cup {None}, Writes(r, op, new),
             told' \in SUBSET HrRequests, seen' \in BOOLEAN,
             link' \in HrRequests \cup {None}, meets' \in SUBSET HrRequests,
             ~clash' => AnswersStay'
      PROVE  HrInv'
  <2>1. hr' = [hr EXCEPT ![r] = Asks("over", None, None)]
    BY <1>4 DEF Writes
  <2>2. Asks("over", None, None) \in Ops /\ Asks("over", None, None).op = "over"
    BY DEF Asks, HrOps
  <2>3. row' = new /\ page' = page /\ clash' \in BOOLEAN
    BY <1>4, WriteFacts DEF HrInv
  <2>4. clash' => AnswersStay'
    BY Zenon DEF AnswersStay
  <2> HIDE DEF Ops
  <2>5. HrTypeOK'
    BY <1>4, <2>1, <2>2, <2>3 DEF HrInv, HrTypeOK, Ops
  <2>6. \A x \in HrRequests :
          /\ hr'[x].op \notin {"new", "over"} => hr'[x].cur \in CandRows
          /\ hr'[x].op = "save" => hr'[x].arg \in CandRows
    BY <2>1, <2>2 DEF HrInv, HrTypeOK
  <2> QED
    BY <1>4, <2>3, <2>4, <2>5, <2>6 DEF HrInv
<1>5. \A d \in CandRows : Meetings(d) \in SUBSET HrRequests
  BY DEF Meetings, CandRows
<1>6. ASSUME NEW r \in HrRequests, NEW op \in HrOps \ {"new", "over"},
             NEW new, Writes(r, op, new)
      PROVE  /\ row' = new
             /\ ~clash' => /\ ~clash
                           /\ op # "erase" => row # None
                           /\ op = "save" => row = hr[r].cur
  BY <1>6, Zenon DEF Writes
<1>7. /\ told \in SUBSET HrRequests /\ seen \in BOOLEAN /\ meets \in SUBSET HrRequests
      /\ link \in HrRequests \cup {None}
  BY DEF HrInv, HrTypeOK
<1>8. ASSUME NEW r \in HrRequests, Saves(r) PROVE HrInv'
  <2> DEFINE m == IF hr[r].arg.meetings = None THEN hr[r].cur.meetings
                                               ELSE hr[r].arg.meetings
             new == [hr[r].cur EXCEPT !.meetings = m]
  <2>1. Writes(r, "save", new) /\ UNCHANGED <<told, seen, link, meets>>
    BY <1>8 DEF Saves
  <2>2. hr[r].cur \in CandRows /\ hr[r].arg \in CandRows
    BY <1>8 DEF Saves, HrInv
  <2>3. m \in (SUBSET HrRequests) \cup {None}
    BY <2>2 DEF CandRows
  <2>4. /\ new \in CandRows
        /\ new.answers = hr[r].cur.answers /\ new.views = hr[r].cur.views
        /\ new.token = hr[r].cur.token
    BY <2>2, <2>3 DEF CandRows
  <2> HIDE DEF new
  <2>5. row' = new /\ (~clash' => ~clash /\ row # None /\ row = hr[r].cur)
    BY <2>1, <1>6 DEF HrOps
  <2>6. ~clash' => AnswersStay'
    BY <2>1, <2>4, <2>5 DEF HrInv, AnswersStay
  <2> QED
    BY <1>4, <1>7, <2>1, <2>4, <2>6 DEF HrOps
<1>9. ASSUME NEW r \in HrRequests, Schedules(r) PROVE HrInv'
  <2> DEFINE new == [There EXCEPT !.meetings = Meetings(hr[r].cur) \cup {r}]
  <2>1. Writes(r, "schedule", new) /\ meets' = meets \cup {r} /\ UNCHANGED <<told, seen, link>>
    BY <1>9 DEF Schedules
  <2>2. hr[r].cur \in CandRows
    BY <1>9 DEF Schedules, HrInv
  <2>3. Meetings(hr[r].cur) \cup {r} \in SUBSET HrRequests
    BY <2>2, <1>5
  <2>4. new \in CandRows /\ new.answers = There.answers /\ new.views = There.views
          /\ new.token = There.token
    BY <1>3, <2>3 DEF CandRows
  <2> HIDE DEF new
  <2>5. row' = new /\ (~clash' => ~clash /\ row # None)
    BY <2>1, <1>6 DEF HrOps
  <2>6. ~clash' => AnswersStay'
    BY <1>3, <2>1, <2>4, <2>5 DEF HrInv, AnswersStay
  <2> QED
    BY <1>4, <1>7, <2>1, <2>4, <2>6 DEF HrOps
<1>10. ASSUME NEW r \in HrRequests, Cancels(r) PROVE HrInv'
  <2> DEFINE new == [There EXCEPT !.meetings = Meetings(hr[r].cur) \ {hr[r].arg}]
  <2>1. Writes(r, "cancel", new) /\ meets' = meets \ {hr[r].arg}
          /\ UNCHANGED <<told, seen, link>>
    BY <1>10 DEF Cancels
  <2>2. hr[r].cur \in CandRows
    BY <1>10 DEF Cancels, HrInv
  <2>3. Meetings(hr[r].cur) \ {hr[r].arg} \in SUBSET HrRequests
    BY <2>2, <1>5
  <2>4. new \in CandRows /\ new.answers = There.answers /\ new.views = There.views
          /\ new.token = There.token
    BY <1>3, <2>3 DEF CandRows
  <2> HIDE DEF new
  <2>5. row' = new /\ (~clash' => ~clash /\ row # None)
    BY <2>1, <1>6 DEF HrOps
  <2>6. ~clash' => AnswersStay'
    BY <1>3, <2>1, <2>4, <2>5 DEF HrInv, AnswersStay
  <2>7. meets' \in SUBSET HrRequests
    BY <1>7, <2>1
  <2> QED
    BY <1>4, <1>7, <2>1, <2>4, <2>6, <2>7 DEF HrOps
<1>11. ASSUME NEW r \in HrRequests, NEW op \in {"issue", "revoke"},
              NEW l \in HrRequests \cup {None},
              Writes(r, op, [There EXCEPT !.token = l]), link' = l,
              UNCHANGED <<told, seen, meets>>
       PROVE  HrInv'
  <2> DEFINE new == [There EXCEPT !.token = l]
  <2>1. new \in CandRows /\ new.answers = There.answers /\ new.views = There.views
          /\ new.token = l
    BY <1>3 DEF CandRows
  <2>2. Writes(r, op, new) /\ op \in HrOps \ {"new", "over"} /\ op # "erase"
    BY <1>11 DEF HrOps
  <2> HIDE DEF new
  <2>3. row' = new /\ (~clash' => ~clash /\ row # None)
    BY <2>2, <1>6
  <2>4. ~clash' => AnswersStay'
    BY <1>3, <1>11, <2>1, <2>3 DEF HrInv, AnswersStay
  <2> QED
    BY <1>4, <1>7, <1>11, <2>1, <2>2, <2>4
<1>12. ASSUME NEW r \in HrRequests, IssuesLink(r) PROVE HrInv'
  BY <1>11, <1>12 DEF IssuesLink
<1>13. ASSUME NEW r \in HrRequests, RevokesLink(r) PROVE HrInv'
  BY <1>11, <1>13 DEF RevokesLink
<1>14. ASSUME NEW r \in HrRequests, Views(r) PROVE HrInv'
  <2> DEFINE new == [There EXCEPT !.views = TRUE]
  <2>1. Writes(r, "view", new) /\ seen' = TRUE /\ UNCHANGED <<told, link, meets>>
    BY <1>14 DEF Views
  <2>2. new \in CandRows /\ new.answers = There.answers /\ new.views /\ new.token = There.token
    BY <1>3 DEF CandRows
  <2> HIDE DEF new
  <2>3. row' = new /\ (~clash' => ~clash /\ row # None)
    BY <2>1, <1>6 DEF HrOps
  <2>4. ~clash' => AnswersStay'
    BY <1>3, <2>1, <2>2, <2>3 DEF HrInv, AnswersStay
  <2>5. seen' \in BOOLEAN
    BY <2>1
  <2> QED
    BY <1>4, <1>7, <2>1, <2>2, <2>4, <2>5 DEF HrOps
<1>15. ASSUME NEW r \in HrRequests, SubmitsAnswers(r) PROVE HrInv'
  <2>1. CASE There.answers = None
    <3> DEFINE new == [There EXCEPT !.answers = r]
    <3>1. Writes(r, "submit", new) /\ told' = told \cup {r} /\ UNCHANGED <<seen, link, meets>>
      BY <1>15, <2>1 DEF SubmitsAnswers
    <3>2. new \in CandRows /\ new.answers = r /\ new.views = There.views
            /\ new.token = There.token
      BY <1>3 DEF CandRows
    <3> HIDE DEF new
    <3>3. row' = new /\ (~clash' => ~clash /\ row # None)
      BY <3>1, <1>6 DEF HrOps
    <3>4. ~clash' => told = {}
      BY <1>3, <1>7, <2>1, <3>3, NoneIsNoRequest DEF HrInv, AnswersStay
    <3>5. ~clash' => AnswersStay'
      BY <1>3, <3>1, <3>2, <3>3, <3>4 DEF HrInv, AnswersStay
    <3>6. told' \in SUBSET HrRequests
      BY <1>7, <3>1
    <3> QED
      BY <1>4, <1>7, <3>1, <3>2, <3>5, <3>6 DEF HrOps
  <2>2. CASE There.answers # None
    <3>1. Writes(r, "submit", row) /\ UNCHANGED <<told, seen, link, meets>>
      BY <1>15, <2>2 DEF SubmitsAnswers
    <3>2. row' = row /\ (~clash' => ~clash)
      BY <3>1, <1>6 DEF HrOps
    <3>3. ~clash' => AnswersStay'
      BY <3>1, <3>2 DEF HrInv, AnswersStay
    <3>4. row \in CandRows \cup {None}
      BY DEF HrInv, HrTypeOK
    <3> QED
      BY <1>4, <1>7, <3>1, <3>3, <3>4 DEF HrOps
  <2> QED
    BY <2>1, <2>2
<1>16. ASSUME NEW r \in HrRequests, ErasesRow(r) PROVE HrInv'
  <2>1. Writes(r, "erase", None) /\ told' = {} /\ seen' = FALSE /\ link' = None /\ meets' = {}
    BY <1>16 DEF ErasesRow
  <2>2. row' = None
    BY <2>1, <1>6 DEF HrOps
  <2>3. AnswersStay' /\ seen' \in BOOLEAN
    BY <2>1, <2>2 DEF AnswersStay
  <2> QED
    BY <1>4, <2>1, <2>3 DEF HrOps
<1>17. CASE UNCHANGED hrVars
  BY <1>17 DEF hrVars, HrInv, AnswersStay, HrTypeOK
<1>18. "cancel" \in HrOps \ {"new", "over"} /\ HrOps \ {"new", "over", "cancel"} \subseteq HrOps \ {"new", "over"}
  BY DEF HrOps
<1> QED
  BY <1>1, <1>2, <1>8, <1>9, <1>10, <1>12, <1>13, <1>14, <1>15, <1>16, <1>17, <1>18 DEF HrNext

LEMMA HrInvariant == HrSpec => []HrInv
<1>1. ASSUME HrInit PROVE HrInv
  <2>1. Bare \in CandRows
    BY DEF Bare, CandRows
  <2>2. Asks("new", None, None) \in [op : HrOps, cur : CandRows \cup {None},
                                     arg : CandRows \cup HrRequests \cup {None}]
    BY DEF Asks, HrOps
  <2>3. Asks("new", None, None).op = "new"
    BY DEF Asks
  <2>4. HrTypeOK
    BY <1>1, <2>1, <2>2 DEF HrInit, HrTypeOK
  <2>5. AnswersStay
    BY <1>1 DEF HrInit, AnswersStay, Bare
  <2> QED
    BY <1>1, <2>3, <2>4, <2>5 DEF HrInit, HrInv
<1> QED
  BY <1>1, HrStep, PTL DEF HrSpec

\* Whatever two requests do at once, one set of answers is received and kept, and the
\* link that works is the last one issued, until a request puts a stale read back.
THEOREM AnswersAreKept == HrSpec => []AnswersStay
<1>1. HrInv => AnswersStay
  BY DEF HrInv
<1> QED
  BY <1>1, HrInvariant, PTL

-----------------------------------------------------------------------------
(* Slots                                                                     *)

\* The requests that have a seat of slot k and have not recorded it yet; with the
\* invites that are booked there they are no more than the counter says.
SeatInHand(k) == {r \in Requests : book[r].step = "record" /\ book[r].slot = k}
Fits(k) == Cardinality(Booked(k)) + Cardinality(SeatInHand(k)) <= booked[k]

SlotsInv ==
  /\ SlotsTypeOK
  /\ \A r \in Requests : book[r].step # "none" =>
       /\ book[r].inv \in Invites /\ book[r].slot \in Slots
       /\ book[r].step = "release" => book[r].old \in Slots /\ moved # {}
  /\ moved = {} => \A k \in Slots : Fits(k)

LEMMA SeatsAreFinite ==
  ASSUME NEW k \in Slots
  PROVE  /\ IsFiniteSet(Booked(k)) /\ Cardinality(Booked(k)) \in Nat
         /\ IsFiniteSet(SeatInHand(k)) /\ Cardinality(SeatInHand(k)) \in Nat
<1>1. Booked(k) \subseteq Invites /\ SeatInHand(k) \subseteq Requests
  BY DEF Booked, SeatInHand
<1>2. IsFiniteSet(Booked(k)) /\ IsFiniteSet(SeatInHand(k))
  BY <1>1, SlotConstants, FS_Subset
<1> QED
  BY <1>2, FS_CardinalityType

\* A slot whose counter stays fits when its holders get fewer.
LEMMA FitsStays ==
  ASSUME NEW k \in Slots, SlotsTypeOK, Fits(k), booked'[k] = booked[k],
         Booked(k)' \subseteq Booked(k), SeatInHand(k)' \subseteq SeatInHand(k)
  PROVE  Fits(k)'
<1> DEFINE B == Booked(k)  C == SeatInHand(k)  BB == Booked(k)'  CC == SeatInHand(k)'
<1>1. IsFiniteSet(B) /\ IsFiniteSet(C) /\ Cardinality(B) \in Nat /\ Cardinality(C) \in Nat
  BY SeatsAreFinite
<1>2. BB \subseteq B /\ CC \subseteq C
  OBVIOUS
<1>3. Cardinality(B) + Cardinality(C) <= booked[k] /\ booked[k] \in Nat
  BY SlotConstants DEF Fits, SlotsTypeOK
<1>4. Fits(k)' <=> Cardinality(BB) + Cardinality(CC) <= booked[k]
  BY DEF Fits
<1> HIDE DEF B, C, BB, CC
<1>5. Cardinality(BB) <= Cardinality(B) /\ Cardinality(CC) <= Cardinality(C)
  BY <1>1, <1>2, FS_Subset
<1>6. Cardinality(BB) \in Nat /\ Cardinality(CC) \in Nat
  BY <1>1, <1>2, FS_Subset, FS_CardinalityType
<1> QED
  BY <1>1, <1>3, <1>4, <1>5, <1>6

\* Every step of a booking keeps the invariant.
LEMMA SlotsStep == ASSUME SlotsInv, [SlotsNext]_slotVars PROVE SlotsInv'
<1>1. ASSUME NEW r \in Requests, NEW i \in Invites, NEW k \in Slots, ReadsInvite(r, i, k)
      PROVE  SlotsInv'
  <2> DEFINE old == IF stage[i] = "booked" THEN named[i] ELSE None
             b == Booking(IF old = None THEN "take" ELSE "release", i, k, old)
  <2>1. /\ book' = [book EXCEPT ![r] = b] /\ book[r] = NoBooking
        /\ moved' = IF old = None THEN moved ELSE moved \cup {i}
        /\ UNCHANGED <<stage, named, booked>>
    BY <1>1 DEF ReadsInvite, Turn
  <2>2. old \in Slots \cup {None} /\ (old # None => old \in Slots)
    BY DEF SlotsInv, SlotsTypeOK
  <2>3. /\ b \in [step : {"none", "release", "take", "record"}, inv : Invites \cup {None},
                  slot : Slots \cup {None}, old : Slots \cup {None}]
        /\ b.inv = i /\ b.slot = k /\ b.old = old
        /\ b.step = IF old = None THEN "take" ELSE "release"
    BY <2>2 DEF Booking
  <2>4. moved' \in SUBSET Invites /\ (moved' = {} => moved = {}) /\ (old # None => moved' # {})
    BY <2>1 DEF SlotsInv, SlotsTypeOK
  <2> HIDE DEF old, b
  <2>5. SlotsTypeOK'
    BY <2>1, <2>3, <2>4 DEF SlotsInv, SlotsTypeOK
  <2>6. \A x \in Requests : book'[x].step # "none" =>
           /\ book'[x].inv \in Invites /\ book'[x].slot \in Slots
           /\ book'[x].step = "release" => book'[x].old \in Slots /\ moved' # {}
    BY <2>1, <2>2, <2>3, <2>4 DEF SlotsInv, SlotsTypeOK
  <2>7. ASSUME NEW s \in Slots, moved' = {} PROVE Fits(s)'
    <3>1. Booked(s)' \subseteq Booked(s)
      BY <2>1 DEF Booked
    <3>2. SeatInHand(s)' \subseteq SeatInHand(s)
      BY <2>1, <2>3 DEF SeatInHand, SlotsInv, SlotsTypeOK
    <3> QED
      BY <2>1, <2>4, <2>7, <3>1, <3>2, FitsStays DEF SlotsInv
  <2> QED
    BY <2>5, <2>6, <2>7 DEF SlotsInv
<1>2. ASSUME NEW r \in Requests, ReleasesOld(r) PROVE SlotsInv'
  <2> DEFINE k == book[r].old
             b == [book[r] EXCEPT !.step = "take"]
  <2>1. /\ book' = [book EXCEPT ![r] = b] /\ book[r].step = "release"
        /\ UNCHANGED <<stage, named, moved>>
    BY <1>2 DEF ReleasesOld, Onward, Turn
  <2>2. k \in Slots /\ moved # {} /\ book[r].inv \in Invites /\ book[r].slot \in Slots
    BY <2>1 DEF SlotsInv
  <2>3. booked' \in [Slots -> 0..Capacity]
    <3>1. CASE booked[k] > 0 /\ booked' = [booked EXCEPT ![k] = @ - 1]
      BY <2>2, <3>1, SlotConstants DEF SlotsInv, SlotsTypeOK
    <3>2. CASE UNCHANGED booked
      BY <3>2 DEF SlotsInv, SlotsTypeOK
    <3> QED
      BY <1>2, <3>1, <3>2 DEF ReleasesOld
  <2> QED
    BY <2>1, <2>2, <2>3 DEF SlotsInv, SlotsTypeOK
<1>3. ASSUME NEW r \in Requests, TakesSeat(r) PROVE SlotsInv'
  <2>0. book[r].slot \in Slots
    BY <1>3 DEF TakesSeat, SlotsInv
  <2>9. PICK k \in Slots : k = book[r].slot
    BY <2>0
  <2>1. k = book[r].slot /\ book[r].inv \in Invites /\ book[r].step = "take"
    BY <1>3, <2>9 DEF TakesSeat, SlotsInv
  <2>2. CASE booked[k] < Capacity
    <3> DEFINE b == [book[r] EXCEPT !.step = "record"]
    <3>1. /\ book' = [book EXCEPT ![r] = b]
          /\ booked' = [booked EXCEPT ![k] = @ + 1]
          /\ UNCHANGED <<stage, named, moved>>
      BY <1>3, <2>1, <2>2 DEF TakesSeat, Onward, Turn
    <3>2. booked' \in [Slots -> 0..Capacity]
      BY <2>1, <2>2, <3>1, SlotConstants DEF SlotsInv, SlotsTypeOK
    <3>3. SlotsTypeOK'
      BY <2>1, <3>1, <3>2 DEF SlotsInv, SlotsTypeOK
    <3>4. \A x \in Requests : book'[x].step # "none" =>
             /\ book'[x].inv \in Invites /\ book'[x].slot \in Slots
             /\ book'[x].step = "release" => book'[x].old \in Slots /\ moved' # {}
      BY <2>1, <3>1 DEF SlotsInv, SlotsTypeOK
    <3>5. ASSUME moved' = {} PROVE Fits(k)'
      <4> DEFINE S == SeatInHand(k)
      <4>1. Booked(k)' = Booked(k)
        BY <3>1 DEF Booked
      <4>2. SeatInHand(k)' = S \cup {r} /\ r \notin S
        BY <2>1, <3>1 DEF SeatInHand, SlotsInv, SlotsTypeOK
      <4>3. IsFiniteSet(S) /\ Cardinality(S) \in Nat /\ Cardinality(Booked(k)) \in Nat
        BY <2>1, SeatsAreFinite
      <4>4. Cardinality(Booked(k)) + Cardinality(S) <= booked[k]
        BY <2>1, <3>1, <3>5 DEF SlotsInv, Fits
      <4>5. booked'[k] = booked[k] + 1 /\ booked[k] \in Nat
        BY <2>1, <3>1, SlotConstants DEF SlotsInv, SlotsTypeOK
      <4> HIDE DEF S
      <4>6. Cardinality(S \cup {r}) = Cardinality(S) + 1
        BY <4>2, <4>3, FS_AddElement
      <4>7. Cardinality(Booked(k)) + Cardinality(S \cup {r}) <= booked'[k]
        BY <4>3, <4>4, <4>5, <4>6
      <4> QED
        BY <4>1, <4>2, <4>7 DEF Fits
    <3>6. ASSUME NEW s \in Slots \ {k}, moved' = {} PROVE Fits(s)'
      <4>1. Booked(s)' \subseteq Booked(s) /\ booked'[s] = booked[s]
        BY <3>1, <3>6 DEF Booked, SlotsInv, SlotsTypeOK
      <4>2. SeatInHand(s)' \subseteq SeatInHand(s)
        BY <2>1, <3>1, <3>6 DEF SeatInHand, SlotsInv, SlotsTypeOK
      <4> QED
        BY <3>1, <3>6, <4>1, <4>2, FitsStays DEF SlotsInv
    <3> QED
      BY <2>1, <3>3, <3>4, <3>5, <3>6 DEF SlotsInv
  <2>3. CASE ~(booked[k] < Capacity)
    <3>1. /\ book' = [book EXCEPT ![r] = NoBooking]
          /\ UNCHANGED <<stage, named, moved, booked>>
      BY <1>3, <2>1, <2>3 DEF TakesSeat, Turn
    <3>2. NoBooking \in [step : {"none", "release", "take", "record"},
                         inv : Invites \cup {None}, slot : Slots \cup {None},
                         old : Slots \cup {None}]
          /\ NoBooking.step = "none"
      BY DEF NoBooking, Booking
    <3>3. ASSUME NEW s \in Slots, moved' = {} PROVE Fits(s)'
      <4>1. Booked(s)' \subseteq Booked(s)
        BY <3>1 DEF Booked
      <4>2. SeatInHand(s)' \subseteq SeatInHand(s)
        BY <3>1, <3>2 DEF SeatInHand, SlotsInv, SlotsTypeOK
      <4> QED
        BY <3>1, <3>3, <4>1, <4>2, FitsStays DEF SlotsInv
    <3> QED
      BY <3>1, <3>2, <3>3 DEF SlotsInv, SlotsTypeOK
  <2> QED
    BY <2>2, <2>3
<1>4. ASSUME NEW r \in Requests, RecordsSlot(r) PROVE SlotsInv'
  <2>0. book[r].slot \in Slots /\ book[r].inv \in Invites
    BY <1>4 DEF RecordsSlot, SlotsInv
  <2>9. PICK k \in Slots, i \in Invites : k = book[r].slot /\ i = book[r].inv
    BY <2>0
  <2>1. /\ book[r].step = "record" /\ k = book[r].slot /\ i = book[r].inv
        /\ stage' = [stage EXCEPT ![i] = "booked"]
        /\ named' = [named EXCEPT ![i] = k]
        /\ book' = [book EXCEPT ![r] = NoBooking]
        /\ UNCHANGED <<booked, moved>>
    BY <1>4, <2>9 DEF RecordsSlot, Turn
  <2>3. NoBooking \in [step : {"none", "release", "take", "record"},
                       inv : Invites \cup {None}, slot : Slots \cup {None},
                       old : Slots \cup {None}]
        /\ NoBooking.step = "none"
    BY DEF NoBooking, Booking
  <2>4. SlotsTypeOK'
    BY <2>1, <2>3 DEF SlotsInv, SlotsTypeOK
  <2>5. \A x \in Requests : book'[x].step # "none" =>
           /\ book'[x].inv \in Invites /\ book'[x].slot \in Slots
           /\ book'[x].step = "release" => book'[x].old \in Slots /\ moved' # {}
    BY <2>1, <2>3 DEF SlotsInv, SlotsTypeOK
  <2>6. ASSUME moved' = {} PROVE Fits(k)'
    <3> DEFINE S == SeatInHand(k)  B == Booked(k)  BB == Booked(k)'
    <3>1. BB \subseteq B \cup {i}
      BY <2>1 DEF Booked, SlotsInv, SlotsTypeOK
    <3>2. SeatInHand(k)' = S \ {r} /\ r \in S
      BY <2>1, <2>3 DEF SeatInHand, SlotsInv, SlotsTypeOK
    <3>3. IsFiniteSet(S) /\ Cardinality(S) \in Nat /\ IsFiniteSet(B) /\ Cardinality(B) \in Nat
      BY SeatsAreFinite
    <3>4. Cardinality(B) + Cardinality(S) <= booked[k]
      BY <2>1, <2>6 DEF SlotsInv, Fits
    <3>5. booked'[k] = booked[k] /\ booked[k] \in Nat
      BY <2>1, SlotConstants DEF SlotsInv, SlotsTypeOK
    <3>6. Fits(k)' <=> Cardinality(BB) + Cardinality(S \ {r}) <= booked'[k]
      BY <2>1, <3>2 DEF Fits
    <3> HIDE DEF S, B, BB
    <3>7. Cardinality(S \ {r}) = Cardinality(S) - 1
      BY <3>2, <3>3, FS_RemoveElement
    <3>8. IsFiniteSet(B \cup {i}) /\ Cardinality(B \cup {i}) <= Cardinality(B) + 1
      <4>1. IsFiniteSet(B \cup {i})
              /\ Cardinality(B \cup {i}) = IF i \in B THEN Cardinality(B) ELSE Cardinality(B) + 1
        BY <3>3, FS_AddElement
      <4> QED
        BY <4>1, <3>3
    <3>9. Cardinality(BB) <= Cardinality(B \cup {i}) /\ IsFiniteSet(BB)
      BY <3>1, <3>8, FS_Subset
    <3>10. Cardinality(BB) \in Nat /\ Cardinality(B \cup {i}) \in Nat
      BY <3>8, <3>9, FS_CardinalityType
    <3>11. Cardinality(BB) <= Cardinality(B) + 1
      BY <3>3, <3>8, <3>9, <3>10
    <3> QED
      BY <3>3, <3>4, <3>5, <3>6, <3>7, <3>10, <3>11
  <2>7. ASSUME NEW s \in Slots \ {k}, moved' = {} PROVE Fits(s)'
    <3>1. Booked(s)' \subseteq Booked(s)
      BY <2>1, <2>7 DEF Booked, SlotsInv, SlotsTypeOK
    <3>2. SeatInHand(s)' \subseteq SeatInHand(s)
      BY <2>1, <2>3, <2>7 DEF SeatInHand, SlotsInv, SlotsTypeOK
    <3> QED
      BY <2>1, <2>7, <3>1, <3>2, FitsStays DEF SlotsInv
  <2> QED
    BY <2>4, <2>5, <2>6, <2>7 DEF SlotsInv
<1>5. ASSUME NEW r \in Requests, BookingDies(r) PROVE SlotsInv'
  <2>1. /\ book' = [book EXCEPT ![r] = NoBooking]
        /\ UNCHANGED <<stage, named, moved, booked>>
    BY <1>5 DEF BookingDies, Turn
  <2>2. NoBooking \in [step : {"none", "release", "take", "record"},
                       inv : Invites \cup {None}, slot : Slots \cup {None},
                       old : Slots \cup {None}]
        /\ NoBooking.step = "none"
    BY DEF NoBooking, Booking
  <2>3. ASSUME NEW s \in Slots, moved' = {} PROVE Fits(s)'
    <3>1. Booked(s)' \subseteq Booked(s)
      BY <2>1 DEF Booked
    <3>2. SeatInHand(s)' \subseteq SeatInHand(s)
      BY <2>1, <2>2 DEF SeatInHand, SlotsInv, SlotsTypeOK
    <3> QED
      BY <2>1, <2>3, <3>1, <3>2, FitsStays DEF SlotsInv
  <2> QED
    BY <2>1, <2>2, <2>3 DEF SlotsInv, SlotsTypeOK
<1>6. ASSUME NEW i \in Invites, GoesPast(i) PROVE SlotsInv'
  <2>1. /\ stage' = [stage EXCEPT ![i] = "past"]
        /\ UNCHANGED <<named, booked, moved, book>>
    BY <1>6 DEF GoesPast
  <2>2. ASSUME NEW s \in Slots, moved' = {} PROVE Fits(s)'
    <3>1. Booked(s)' \subseteq Booked(s)
      BY <2>1 DEF Booked, SlotsInv, SlotsTypeOK
    <3>2. SeatInHand(s)' \subseteq SeatInHand(s)
      BY <2>1 DEF SeatInHand
    <3> QED
      BY <2>1, <2>2, <3>1, <3>2, FitsStays DEF SlotsInv
  <2> QED
    BY <2>1, <2>2 DEF SlotsInv, SlotsTypeOK
<1>7. CASE UNCHANGED slotVars
  <2>1. ASSUME NEW s \in Slots PROVE Fits(s)' <=> Fits(s)
    BY <1>7 DEF slotVars, Fits, Booked, SeatInHand
  <2> QED
    BY <1>7, <2>1 DEF slotVars, SlotsInv, SlotsTypeOK
<1> QED
  BY <1>1, <1>2, <1>3, <1>4, <1>5, <1>6, <1>7 DEF SlotsNext

LEMMA SlotsInvariant == SlotsSpec => []SlotsInv
<1>1. ASSUME SlotsInit PROVE SlotsInv
  <2>1. \A k \in Slots : Booked(k) = {} /\ SeatInHand(k) = {}
    BY <1>1 DEF SlotsInit, Booked, SeatInHand, NoBooking, Booking
  <2>2. \A k \in Slots : Fits(k)
    BY <1>1, <2>1, FS_EmptySet DEF SlotsInit, Fits
  <2> QED
    BY <1>1, <2>2, SlotConstants
       DEF SlotsInit, SlotsInv, SlotsTypeOK, NoBooking, Booking
<1> QED
  BY <1>1, SlotsStep, PTL DEF SlotsSpec

\* No slot is oversold by first bookings, for any number of slots, seats and requests.
THEOREM SlotsAreNotOversold == SlotsSpec => []FirstBookingsFit
<1>1. ASSUME SlotsInv PROVE FirstBookingsFit
  <2>1. ASSUME moved = {}, NEW k \in Slots PROVE Cardinality(Booked(k)) <= Capacity
    <3>1. Cardinality(Booked(k)) + Cardinality(SeatInHand(k)) <= booked[k]
      BY <1>1, <2>1 DEF SlotsInv, Fits
    <3>2. booked[k] \in 0..Capacity
      BY <1>1 DEF SlotsInv, SlotsTypeOK
    <3> QED
      BY <3>1, <3>2, SeatsAreFinite, SlotConstants
  <2> QED
    BY <2>1 DEF FirstBookingsFit
<1> QED
  BY <1>1, SlotsInvariant, PTL

-----------------------------------------------------------------------------
(* The cap on the free runs of a user                                        *)


\* What a launch at each place implies: whose it is, and that sessions, workers and
\* teardowns are those of launches that are over.
FreeShape ==
  /\ FreeTypeOK
  /\ \A r \in FreeLaunches :
       /\ run[r].at # "new" => run[r].by \in Users
       /\ r \in recent \/ worker[r] # "none" => session[r] # "none"
       /\ session[r] # "none" => run[r].at = "over"
  /\ \A r \in torn : session[r] # "none"

InFlight == {"count", "share", "lease"}

\* A launch that counts holds the lock of its user.
LocksHeld ==
  ~strayed => \A r \in FreeLaunches : run[r].at \in InFlight => lock[run[r].by] = r

\* The runs that count against user u, for the property; there is room for one more
\* when a launch has counted them.
Counted(u) == Used(u) \ revived

RoomLeft ==
  ~strayed => \A r \in FreeLaunches :
                run[r].at \in {"share", "lease"} => Cardinality(Counted(run[r].by)) < MaxLaunches

FreeInv == FreeShape /\ LocksHeld /\ RoomLeft /\ FreeRunsCapped

LEMMA ShapeStep == ASSUME FreeShape, [FreeNext]_freeVars PROVE FreeShape'
<1> USE DEF FreeShape, FreeTypeOK, Goes
<1>1. ASSUME NEW u \in Users, LockExpires(u) PROVE FreeShape'
  BY <1>1 DEF LockExpires, sessionVars
<1>2. ASSUME NEW u \in Users, NEW r \in FreeLaunches, Launches(r, u) PROVE FreeShape'
  BY <1>2 DEF Launches, sessionVars
<1>3. ASSUME NEW r \in FreeLaunches, ClaimsLock(r) PROVE FreeShape'
  BY <1>3 DEF ClaimsLock, sessionVars
<1>4. ASSUME NEW r \in FreeLaunches, run[r].at # "new", Rejects(r), session[r] = "none"
      PROVE FreeShape'
  <2>1. /\ run' = [run EXCEPT ![r].at = "over"]
        /\ lock' = [lock EXCEPT ![run[r].by] = None]
        /\ UNCHANGED <<session, worker, torn, expired, recent, revived>>
    BY <1>4 DEF Rejects, Unlocks, sessionVars
  <2>2. strayed' \in BOOLEAN
    BY <1>4 DEF Rejects, Unlocks
  <2> QED
    BY <1>4, <2>1, <2>2
<1>5. ASSUME NEW r \in FreeLaunches, CountsRuns(r) PROVE FreeShape'
  BY <1>4, <1>5 DEF CountsRuns, sessionVars
<1>6. ASSUME NEW r \in FreeLaunches, CountsShare(r) PROVE FreeShape'
  BY <1>4, <1>6 DEF CountsShare, sessionVars
<1>7. ASSUME NEW r \in FreeLaunches, MakesSession(r) PROVE FreeShape'
  BY <1>7 DEF MakesSession
<1>8. ASSUME NEW r \in FreeLaunches, NoCapacity(r) PROVE FreeShape'
  BY <1>4, <1>8 DEF NoCapacity
<1>9. ASSUME NEW r \in FreeLaunches, LaunchDies(r) PROVE FreeShape'
  BY <1>9 DEF LaunchDies, sessionVars
<1>10. ASSUME NEW r \in FreeLaunches, DeployEnds(r) PROVE FreeShape'
  BY <1>10 DEF DeployEnds
<1>11. ASSUME NEW r \in FreeLaunches, DeployBreaks(r) PROVE FreeShape'
  BY <1>11 DEF DeployBreaks
<1>12. ASSUME NEW r \in FreeLaunches, DeployUnlocks(r) PROVE FreeShape'
  <2>1. /\ worker' = [worker EXCEPT ![r] = "none"]
        /\ lock' = [lock EXCEPT ![run[r].by] = None] \/ lock' = lock
        /\ UNCHANGED <<run, session, torn, expired, recent, revived>>
    BY <1>12 DEF DeployUnlocks, Unlocks
  <2>2. strayed' \in BOOLEAN
    BY <1>12 DEF DeployUnlocks, Unlocks
  <2> QED
    BY <2>1, <2>2
<1>13. ASSUME NEW r \in FreeLaunches, EndsSession(r) PROVE FreeShape'
  BY <1>13 DEF EndsSession, Revives
<1>14. ASSUME NEW r \in FreeLaunches, SessionDone(r) PROVE FreeShape'
  <2>1. /\ session' = [session EXCEPT ![r] = "done"]
        /\ lock' = [lock EXCEPT ![run[r].by] = None] \/ lock' = lock
        /\ revived' \in SUBSET FreeLaunches /\ session[r] # "none"
        /\ UNCHANGED <<run, worker, torn, expired, recent>>
    BY <1>14 DEF SessionDone, Unlocks, Revives
  <2>2. strayed' \in BOOLEAN
    BY <1>14 DEF SessionDone, Unlocks
  <2> QED
    BY <2>1, <2>2
<1>15. ASSUME NEW r \in FreeLaunches, SessionExpires(r) PROVE FreeShape'
  BY <1>15 DEF SessionExpires
<1>16. ASSUME NEW r \in FreeLaunches, RunAges(r) PROVE FreeShape'
  BY <1>16 DEF RunAges
<1>17. CASE UNCHANGED freeVars
  BY <1>17 DEF freeVars, sessionVars
<1> QED
  BY <1>1, <1>2, <1>3, <1>5, <1>6, <1>7, <1>8, <1>9, <1>10, <1>11, <1>12, <1>13,
     <1>14, <1>15, <1>16, <1>17 DEF FreeNext

-----------------------------------------------------------------------------
\* A lock that is released on behalf of a launch that is over, or is over now, was not
\* held by one in flight, or has strayed.
LEMMA UnlockStep ==
  ASSUME FreeShape, LocksHeld, NEW r \in FreeLaunches, Unlocks(run[r].by, r),
         \A q \in FreeLaunches \ {r} : run'[q] = run[q],
         run'[r].at \notin InFlight
  PROVE  LocksHeld'
<1>1. CASE lock[run[r].by] \in {None, r}
  <2>1. strayed' => strayed
    BY <1>1, Zenon DEF Unlocks
  <2>2. strayed => strayed'
    BY Zenon DEF Unlocks
  <2>3. lock' = [lock EXCEPT ![run[r].by] = None]
    BY DEF Unlocks
  <2>4. ASSUME ~strayed', NEW q \in FreeLaunches, run'[q].at \in InFlight
        PROVE  lock'[run'[q].by] = q
    <3>1. q # r /\ run'[q] = run[q] /\ run[q].by \in Users
      BY <2>4 DEF FreeShape, InFlight
    <3>2. lock[run[q].by] = q
      BY <2>2, <2>4, <3>1 DEF LocksHeld
    <3>3. run[q].by # run[r].by
      BY <1>1, <3>1, <3>2, FreeConstants
    <3> QED
      BY <2>3, <3>1, <3>2, <3>3 DEF FreeShape, FreeTypeOK
  <2> QED
    BY <2>4 DEF LocksHeld
<1>2. CASE lock[run[r].by] \notin {None, r}
  <2>1. strayed'
    BY <1>2, Zenon DEF Unlocks
  <2> QED
    BY <2>1 DEF LocksHeld
<1> QED
  BY <1>1, <1>2

\* A step that moves no lock, and at most a launch that has the lock it needs.
LEMMA SameLocks ==
  ASSUME FreeShape, LocksHeld, UNCHANGED <<lock, strayed>>,
         \A q \in FreeLaunches :
           run'[q].at \in InFlight => run[q].at \in InFlight /\ run'[q].by = run[q].by
  PROVE  LocksHeld'
BY DEF LocksHeld

LEMMA LocksStep == ASSUME FreeShape, LocksHeld, [FreeNext]_freeVars PROVE LocksHeld'
<1> USE DEF FreeShape, FreeTypeOK, Goes, InFlight
<1>1. ASSUME NEW u \in Users, LockExpires(u) PROVE LocksHeld'
  <2>1. /\ lock[u] \in FreeLaunches /\ run[lock[u]].at = "over"
        /\ lock' = [lock EXCEPT ![u] = None] /\ UNCHANGED <<run, strayed>>
    BY <1>1 DEF LockExpires
  <2> QED
    BY <2>1 DEF LocksHeld
<1>2. ASSUME NEW u \in Users, NEW r \in FreeLaunches, Launches(r, u) PROVE LocksHeld'
  BY <1>2, SameLocks DEF Launches
<1>3. ASSUME NEW r \in FreeLaunches, ClaimsLock(r) PROVE LocksHeld'
  <2>1. CASE lock[run[r].by] = None
    <3>1. /\ lock' = [lock EXCEPT ![run[r].by] = r] /\ run' = [run EXCEPT ![r].at = "count"]
          /\ strayed' = strayed /\ run[r].by \in Users
      BY <1>3, <2>1 DEF ClaimsLock
    <3>2. ASSUME ~strayed, NEW q \in FreeLaunches \ {r}, run[q].at \in InFlight
          PROVE  lock[run[q].by] = q /\ run[q].by # run[r].by
      BY <2>1, <3>2, FreeConstants DEF LocksHeld
    <3> QED
      BY <3>1, <3>2 DEF LocksHeld
  <2>2. CASE lock[run[r].by] # None
    <3>1. run' = [run EXCEPT ![r].at = "over"] /\ UNCHANGED <<lock, strayed>>
      BY <1>3, <2>2 DEF ClaimsLock
    <3> QED
      BY <3>1, SameLocks
  <2> QED
    BY <2>1, <2>2
<1>4. ASSUME NEW r \in FreeLaunches, Rejects(r) PROVE LocksHeld'
  BY <1>4, UnlockStep DEF Rejects
<1>5. ASSUME NEW r \in FreeLaunches, CountsRuns(r) PROVE LocksHeld'
  <2>1. CASE Rejects(r)
    BY <1>4, <2>1
  <2>2. CASE Goes(r, "share") /\ UNCHANGED <<lock, strayed, sessionVars>>
    BY <1>5, <2>2, SameLocks DEF CountsRuns
  <2> QED
    BY <1>5, <2>1, <2>2 DEF CountsRuns
<1>6. ASSUME NEW r \in FreeLaunches, CountsShare(r) PROVE LocksHeld'
  <2>1. CASE Rejects(r)
    BY <1>4, <2>1
  <2>2. CASE Goes(r, "lease") /\ UNCHANGED <<lock, strayed, sessionVars>>
    BY <1>6, <2>2, SameLocks DEF CountsShare
  <2> QED
    BY <1>6, <2>1, <2>2 DEF CountsShare
<1>7. ASSUME NEW r \in FreeLaunches, MakesSession(r) PROVE LocksHeld'
  BY <1>7, SameLocks DEF MakesSession
<1>8. ASSUME NEW r \in FreeLaunches, NoCapacity(r) PROVE LocksHeld'
  BY <1>4, <1>8 DEF NoCapacity
<1>9. ASSUME NEW r \in FreeLaunches, LaunchDies(r) PROVE LocksHeld'
  BY <1>9, SameLocks DEF LaunchDies
<1>10. ASSUME NEW r \in FreeLaunches,
              DeployEnds(r) \/ DeployBreaks(r) \/ EndsSession(r) \/ SessionExpires(r) \/ RunAges(r)
       PROVE  LocksHeld'
  <2>1. UNCHANGED <<lock, run, strayed>>
    BY <1>10 DEF DeployEnds, DeployBreaks, EndsSession, SessionExpires, RunAges
  <2> QED
    BY <2>1, SameLocks
<1>11. ASSUME NEW r \in FreeLaunches, DeployUnlocks(r) PROVE LocksHeld'
  <2>1. /\ run' = run /\ run[r].at = "over"
        /\ Unlocks(run[r].by, r) \/ UNCHANGED <<lock, strayed>>
    BY <1>11 DEF DeployUnlocks
  <2> QED
    BY <2>1, UnlockStep, SameLocks
<1>12. ASSUME NEW r \in FreeLaunches, SessionDone(r) PROVE LocksHeld'
  <2>1. /\ run' = run /\ run[r].at = "over"
        /\ Unlocks(run[r].by, r) \/ UNCHANGED <<lock, strayed>>
    BY <1>12 DEF SessionDone
  <2> QED
    BY <2>1, UnlockStep, SameLocks
<1>13. CASE UNCHANGED freeVars
  BY <1>13, SameLocks DEF freeVars
<1> QED
  BY <1>1, <1>2, <1>3, <1>5, <1>6, <1>7, <1>8, <1>9, <1>10, <1>11, <1>12, <1>13
     DEF FreeNext

-----------------------------------------------------------------------------
LEMMA CountedFinite ==
  ASSUME FreeShape, NEW u
  PROVE  /\ IsFiniteSet(Counted(u)) /\ Cardinality(Counted(u)) \in Nat
         /\ IsFiniteSet(Used(u)) /\ Cardinality(Used(u)) \in Nat
         /\ Cardinality(Counted(u)) <= Cardinality(Used(u))
<1>1. Used(u) \subseteq FreeLaunches /\ Counted(u) \subseteq Used(u)
  BY DEF Used, Counted, FreeShape, FreeTypeOK
<1>2. IsFiniteSet(Used(u))
  BY <1>1, FreeConstants, FS_Subset
<1> QED
  BY <1>1, <1>2, FS_Subset, FS_CardinalityType

\* A step that lets no more runs count, and lets a launch go on that had room.
LEMMA NoMoreRuns ==
  ASSUME FreeInv, strayed => strayed',
         \A u \in Users : Counted(u)' \subseteq Counted(u),
         \A q \in FreeLaunches : run'[q].at \in {"share", "lease"} =>
           run'[q].by = run[q].by /\ run[q].by \in Users /\
             (run[q].at \in {"share", "lease"} \/ Cardinality(Counted(run[q].by)) < MaxLaunches)
  PROVE  RoomLeft' /\ FreeRunsCapped'
<1>1. ASSUME NEW u \in Users
      PROVE  /\ Cardinality(Counted(u)') <= Cardinality(Counted(u))
             /\ Cardinality(Counted(u)') \in Nat /\ Cardinality(Counted(u)) \in Nat
  <2> DEFINE C == Counted(u)  D == Counted(u)'
  <2>1. D \subseteq C /\ IsFiniteSet(C)
    BY CountedFinite DEF FreeInv
  <2> HIDE DEF C, D
  <2>2. Cardinality(D) <= Cardinality(C) /\ IsFiniteSet(D)
    BY <2>1, FS_Subset
  <2>3. Cardinality(D) \in Nat /\ Cardinality(C) \in Nat
    BY <2>1, <2>2, FS_CardinalityType
  <2> QED
    BY <2>2, <2>3 DEF C, D
<1>2. MaxLaunches \in Nat
  BY FreeConstants
<1>3. ASSUME ~strayed', NEW u \in Users PROVE Cardinality(Counted(u)') <= MaxLaunches
  <2>1. Cardinality(Counted(u)) <= MaxLaunches
    BY <1>3 DEF FreeInv, FreeRunsCapped, Counted
  <2> QED
    BY <1>1, <1>2, <2>1
<1>4. ASSUME ~strayed', NEW q \in FreeLaunches, run'[q].at \in {"share", "lease"}
      PROVE  Cardinality(Counted(run[q].by)') < MaxLaunches
  <2>1. PICK u \in Users : u = run[q].by /\ u = run'[q].by
    BY <1>4
  <2>2. Cardinality(Counted(u)) < MaxLaunches
    BY <1>4, <2>1 DEF FreeInv, RoomLeft
  <2>3. Cardinality(Counted(u)') < MaxLaunches
    BY <1>1, <1>2, <2>2
  <2>4. Counted(run[q].by)' = Counted(u)'
    BY <2>1 DEF Counted, Used
  <2> QED
    BY <2>3, <2>4
<1>5. RoomLeft'
  BY <1>4 DEF RoomLeft
<1> QED
  BY <1>3, <1>5 DEF FreeRunsCapped, Counted

\* lease() makes a session: one run more for a launch that had room for it, and the
\* only launch of its user that has counted.
LEMMA SessionStep ==
  ASSUME FreeInv, NEW r \in FreeLaunches, MakesSession(r)
  PROVE  RoomLeft' /\ FreeRunsCapped'
<1>1. PICK v \in Users : v = run[r].by
  BY DEF MakesSession, FreeInv, FreeShape
<1>2. /\ run[r].at = "lease" /\ run' = [run EXCEPT ![r].at = "over"]
      /\ recent' = recent \cup {r} /\ \A q \in FreeLaunches \ {r} : session'[q] = session[q]
      /\ UNCHANGED <<lock, strayed, revived>>
  BY DEF MakesSession, Goes, FreeInv, FreeShape, FreeTypeOK
<1>3. \A q \in FreeLaunches : run'[q].by = run[q].by
  BY <1>2 DEF FreeInv, FreeShape, FreeTypeOK
<1>4. ASSUME NEW u \in Users
      PROVE  Counted(u)' \subseteq Counted(u) \cup {r} /\ (u # v => Counted(u)' \subseteq Counted(u))
  BY <1>1, <1>2, <1>3 DEF Counted, Used, FreeInv, FreeShape, FreeTypeOK
<1>5. ASSUME ~strayed, NEW u \in Users
      PROVE  /\ Cardinality(Counted(u)') <= MaxLaunches
             /\ u # v => Cardinality(Counted(u)') <= Cardinality(Counted(u))
             /\ Cardinality(Counted(u)') \in Nat /\ Cardinality(Counted(u)) \in Nat
  <2> DEFINE C == Counted(u)  D == Counted(u)'
  <2>1. IsFiniteSet(C) /\ Cardinality(C) \in Nat /\ MaxLaunches \in Nat
    BY CountedFinite, FreeConstants DEF FreeInv
  <2>2. D \subseteq C \cup {r} /\ (u # v => D \subseteq C)
    BY <1>4
  <2>3. Cardinality(C) <= MaxLaunches /\ (u = v => Cardinality(C) < MaxLaunches)
    BY <1>1, <1>2, <1>5 DEF FreeInv, FreeRunsCapped, RoomLeft, Counted
  <2> HIDE DEF C, D
  <2>4. /\ IsFiniteSet(C \cup {r})
        /\ Cardinality(C \cup {r}) = IF r \in C THEN Cardinality(C) ELSE Cardinality(C) + 1
    BY <2>1, FS_AddElement
  <2>5. /\ IsFiniteSet(D) /\ Cardinality(D) <= Cardinality(C \cup {r})
        /\ u # v => Cardinality(D) <= Cardinality(C)
    BY <2>1, <2>2, <2>4, FS_Subset
  <2>6. Cardinality(D) \in Nat
    BY <2>5, FS_CardinalityType
  <2>7. /\ Cardinality(D) <= MaxLaunches
        /\ u # v => Cardinality(D) <= Cardinality(C)
        /\ Cardinality(D) \in Nat /\ Cardinality(C) \in Nat
    BY <2>1, <2>3, <2>4, <2>5, <2>6
  <2> QED
    BY <2>7 DEF C, D
<1>6. FreeRunsCapped'
  BY <1>2, <1>5 DEF FreeRunsCapped, Counted
<1>7. ASSUME ~strayed, NEW q \in FreeLaunches, run'[q].at \in {"share", "lease"}
      PROVE  Cardinality(Counted(run[q].by)') < MaxLaunches
  <2>1. q # r /\ run'[q] = run[q]
    BY <1>2, <1>7 DEF FreeInv, FreeShape, FreeTypeOK
  <2>2. PICK u \in Users : u = run[q].by /\ u = run'[q].by
    BY <1>7, <2>1 DEF FreeInv, FreeShape
  <2>3. u # v
    BY <1>1, <1>2, <1>7, <2>1, <2>2 DEF FreeInv, LocksHeld, InFlight
  <2>4. Cardinality(Counted(u)) < MaxLaunches
    BY <1>7, <2>1, <2>2 DEF FreeInv, RoomLeft
  <2>5. Cardinality(Counted(u)') < MaxLaunches
    BY <1>5, <1>7, <2>3, <2>4, FreeConstants
  <2>6. Counted(run[q].by)' = Counted(u)'
    BY <2>2 DEF Counted, Used
  <2> QED
    BY <2>5, <2>6
<1> QED
  BY <1>2, <1>6, <1>7 DEF RoomLeft

\* Every step keeps the room and the cap.
LEMMA RoomStep == ASSUME FreeInv, [FreeNext]_freeVars PROVE RoomLeft' /\ FreeRunsCapped'
<1> DEFINE Fewer == \A u \in Users : Counted(u)' \subseteq Counted(u)
           Still == \A q \in FreeLaunches : run'[q].at \in {"share", "lease"} =>
                      run'[q].by = run[q].by /\ run[q].by \in Users /\
                        (run[q].at \in {"share", "lease"}
                           \/ Cardinality(Counted(run[q].by)) < MaxLaunches)
<1> USE DEF FreeShape, FreeTypeOK, Goes, Counted, Used, sessionVars
<1>1. FreeShape
  BY DEF FreeInv
<1>2. ASSUME NEW r \in FreeLaunches, Rejects(r), run[r].at # "new" PROVE RoomLeft' /\ FreeRunsCapped'
  <2>1. run' = [run EXCEPT ![r].at = "over"] /\ UNCHANGED sessionVars
    BY <1>2 DEF Rejects
  <2>2. strayed => strayed'
    BY <1>2, Zenon DEF Rejects, Unlocks
  <2>3. Fewer /\ Still
    BY <1>1, <2>1
  <2> HIDE DEF Counted, Used, FreeShape
  <2> QED
    BY <2>2, <2>3, NoMoreRuns
<1>3. ASSUME NEW u \in Users, LockExpires(u) PROVE RoomLeft' /\ FreeRunsCapped'
  <2>1. Fewer /\ Still /\ strayed' = strayed
    BY <1>1, <1>3 DEF LockExpires
  <2> QED
    BY <2>1, NoMoreRuns
<1>4. ASSUME NEW u \in Users, NEW r \in FreeLaunches, Launches(r, u) PROVE RoomLeft' /\ FreeRunsCapped'
  <2>1. Fewer /\ Still /\ strayed' = strayed
    BY <1>1, <1>4 DEF Launches
  <2> QED
    BY <2>1, NoMoreRuns
<1>5. ASSUME NEW r \in FreeLaunches, ClaimsLock(r) PROVE RoomLeft' /\ FreeRunsCapped'
  <2>1. Fewer /\ Still /\ strayed' = strayed
    BY <1>1, <1>5 DEF ClaimsLock
  <2> QED
    BY <2>1, NoMoreRuns
<1>6. ASSUME NEW r \in FreeLaunches, CountsRuns(r) PROVE RoomLeft' /\ FreeRunsCapped'
  <2>1. CASE Cardinality(Used(run[r].by)) >= MaxLaunches
    BY <1>2, <1>6, <2>1 DEF CountsRuns
  <2>2. CASE ~(Cardinality(Used(run[r].by)) >= MaxLaunches)
    <3>1. /\ run' = [run EXCEPT ![r].at = "share"] /\ run[r].at = "count"
          /\ UNCHANGED <<lock, strayed, sessionVars>>
      BY <1>6, <2>2 DEF CountsRuns
    <3>2. Cardinality(Counted(run[r].by)) < MaxLaunches
      <4> HIDE DEF Counted, Used, FreeShape
      <4> QED
        BY <1>1, <2>2, CountedFinite, FreeConstants
    <3>3. Fewer /\ Still
      BY <1>1, <3>1, <3>2
    <3> QED
      BY <3>1, <3>3, NoMoreRuns
  <2> QED
    BY <2>1, <2>2
<1>7. ASSUME NEW r \in FreeLaunches, CountsShare(r) PROVE RoomLeft' /\ FreeRunsCapped'
  <2>1. CASE Rejects(r)
    BY <1>2, <1>7, <2>1 DEF CountsShare
  <2>2. CASE Goes(r, "lease") /\ UNCHANGED <<lock, strayed, sessionVars>>
    <3>1. Fewer /\ Still
      BY <1>1, <1>7, <2>2 DEF CountsShare
    <3> QED
      BY <2>2, <3>1, NoMoreRuns
  <2> QED
    BY <1>7, <2>1, <2>2 DEF CountsShare
<1>8. ASSUME NEW r \in FreeLaunches, NoCapacity(r) PROVE RoomLeft' /\ FreeRunsCapped'
  BY <1>2, <1>8 DEF NoCapacity
<1>9. ASSUME NEW r \in FreeLaunches, LaunchDies(r) PROVE RoomLeft' /\ FreeRunsCapped'
  <2>1. Fewer /\ Still /\ strayed' = strayed
    BY <1>1, <1>9 DEF LaunchDies
  <2> QED
    BY <2>1, NoMoreRuns
<1>10. ASSUME NEW r \in FreeLaunches, DeployEnds(r) PROVE RoomLeft' /\ FreeRunsCapped'
  <2>1. Fewer /\ Still /\ strayed' = strayed
    BY <1>1, <1>10 DEF DeployEnds
  <2> QED
    BY <2>1, NoMoreRuns
<1>11. ASSUME NEW r \in FreeLaunches, DeployBreaks(r) PROVE RoomLeft' /\ FreeRunsCapped'
  <2>1. Fewer /\ Still /\ strayed' = strayed
    BY <1>1, <1>11 DEF DeployBreaks
  <2> QED
    BY <2>1, NoMoreRuns
<1>12. ASSUME NEW r \in FreeLaunches, DeployUnlocks(r) PROVE RoomLeft' /\ FreeRunsCapped'
  <2>1. Fewer /\ Still
    BY <1>1, <1>12 DEF DeployUnlocks
  <2>2. strayed => strayed'
    BY <1>12, Zenon DEF DeployUnlocks, Unlocks
  <2> QED
    BY <2>1, <2>2, NoMoreRuns
<1>13. ASSUME NEW r \in FreeLaunches, EndsSession(r) PROVE RoomLeft' /\ FreeRunsCapped'
  <2>1. Fewer /\ Still /\ strayed' = strayed
    BY <1>1, <1>13 DEF EndsSession, Revives
  <2> QED
    BY <2>1, NoMoreRuns
<1>14. ASSUME NEW r \in FreeLaunches, SessionDone(r) PROVE RoomLeft' /\ FreeRunsCapped'
  <2>1. Fewer /\ Still
    BY <1>1, <1>14 DEF SessionDone, Revives
  <2>2. strayed => strayed'
    BY <1>14, Zenon DEF SessionDone, Unlocks
  <2> QED
    BY <2>1, <2>2, NoMoreRuns
<1>15. ASSUME NEW r \in FreeLaunches, SessionExpires(r) \/ RunAges(r) PROVE RoomLeft' /\ FreeRunsCapped'
  <2>1. Fewer /\ Still /\ strayed' = strayed
    BY <1>1, <1>15 DEF SessionExpires, RunAges
  <2> QED
    BY <2>1, NoMoreRuns
<1>16. CASE UNCHANGED freeVars
  <2>1. Fewer /\ Still /\ strayed' = strayed
    BY <1>1, <1>16 DEF freeVars
  <2> QED
    BY <2>1, NoMoreRuns
<1> QED
  BY <1>3, <1>4, <1>5, <1>6, <1>7, <1>8, <1>9, <1>10, <1>11, <1>12, <1>13, <1>14,
     <1>15, <1>16, SessionStep DEF FreeNext

LEMMA FreeInvariant == FreeSpec => []FreeInv
<1>1. ASSUME FreeInit PROVE FreeInv
  <2>1. FreeShape /\ LocksHeld /\ RoomLeft
    BY <1>1 DEF FreeInit, FreeShape, FreeTypeOK, LocksHeld, RoomLeft, InFlight
  <2>2. \A u \in Users : Used(u) \ revived = {}
    BY <1>1 DEF FreeInit, Used
  <2>3. FreeRunsCapped
    BY <2>2, FS_EmptySet, FreeConstants DEF FreeRunsCapped
  <2> QED
    BY <2>1, <2>3 DEF FreeInv
<1>2. FreeInv /\ [FreeNext]_freeVars => FreeInv'
  BY ShapeStep, LocksStep, RoomStep DEF FreeInv
<1> QED
  BY <1>1, <1>2, PTL DEF FreeSpec

\* For any number of users and launches: a user has at most MaxLaunches runs of the lab
\* in a day, next to those that failed, also the ones a teardown counts again; unless a
\* lock was released that had passed on to a later launch.
THEOREM FreeRunsAreCapped == FreeSpec => []FreeRunsCapped
<1>1. FreeInv => FreeRunsCapped
  BY DEF FreeInv
<1> QED
  BY <1>1, FreeInvariant, PTL

-----------------------------------------------------------------------------
(* The parts side by side                                                    *)

\* A behaviour of the whole is a behaviour of each part: what is proved of a part alone
\* holds of it among the others, which is where the runs check it.
THEOREM PartsAreKept ==
  RecordsSpec => SlotsSpec /\ LedgerSpec /\ CodesSpec /\ PapersSpec /\ RecorderSpec
                   /\ HrSpec /\ FreeSpec
<1>1. RecordsInit => SlotsInit /\ LedgerInit /\ CodesInit /\ PapersInit /\ RecorderInit
                       /\ HrInit /\ FreeInit
  BY DEF RecordsInit
<1>2. ASSUME [RecordsNext]_recordsVars
      PROVE  /\ [SlotsNext]_slotVars /\ [LedgerNext]_ledgerVars /\ [CodesNext]_codeVars
             /\ [PapersNext]_paperVars /\ [RecorderNext]_recorderVars
             /\ [HrNext]_hrVars /\ [FreeNext]_freeVars
  <2>1. CASE UNCHANGED recordsVars
    BY <2>1 DEF recordsVars
  <2>2. CASE RecordsNext
    BY <2>2 DEF RecordsNext
  <2> QED
    BY <1>2, <2>1, <2>2
<1> QED
  BY <1>1, <1>2, PTL DEF RecordsSpec, SlotsSpec, LedgerSpec, CodesSpec, PapersSpec,
                         RecorderSpec, HrSpec, FreeSpec

\* The state of every part is of the shape its code gives it, in every behaviour of the
\* whole.
THEOREM RecordsTyped == RecordsSpec => []RecordsTypeOK
<1>1. /\ SlotsInv => SlotsTypeOK
      /\ LedgerInv => LedgerTypeOK
      /\ CodesInv => CodesTypeOK
      /\ PapersInv => PapersTypeOK
      /\ HrInv => HrTypeOK
      /\ FreeInv => FreeTypeOK
  BY DEF SlotsInv, LedgerInv, CodesInv, PapersInv, HrInv, FreeInv, FreeShape
<1>2. SlotsTypeOK /\ LedgerTypeOK /\ CodesTypeOK /\ PapersTypeOK
        /\ RecorderTypeOK /\ HrTypeOK /\ FreeTypeOK => RecordsTypeOK
  BY DEF RecordsTypeOK
<1> QED
  BY <1>1, <1>2, PartsAreKept, SlotsInvariant, LedgerInvariant, CodesInvariant,
     PapersInvariant, RecorderTyped, HrInvariant, FreeInvariant, PTL

\* What each part promises, of the whole: no interleaving of the parts breaks it.
THEOREM RecordsKeepPromises ==
  RecordsSpec =>
    /\ [](FirstBookingsFit /\ CreditsBalance /\ OneWinner /\ GuessesBounded
            /\ AcceptedForGood /\ EvidenceKept /\ NoZombieCapture /\ AnswersStay
            /\ FreeRunsCapped)
    /\ SignedForGood
BY PartsAreKept, SlotsAreNotOversold, CreditsAlwaysBalance, OneMailPerCrossing,
   GuessesAreBounded, SignaturesStay, AcceptedStays, EvidenceIsKept, CaptureIsOver,
   AnswersAreKept, FreeRunsAreCapped, PTL
=============================================================================
