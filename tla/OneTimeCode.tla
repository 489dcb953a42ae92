----------------------------- MODULE OneTimeCode -----------------------------
(* One time codes: a row that a mailed code takes one step further, a document *)
(* to "signed" and an invite to "verified".  Both sides of engine/entinfra.mjs *)
(* share claimOtpAttempt(); acceptDoc() and verifyOtp() read the row, claim an *)
(* attempt, compare with the hash they READ, and move the row on a condition.  *)
(* The ten minutes a code is good for only refuse requests and are left out.   *)
EXTENDS EntNames, Naturals

CONSTANTS Rows,
          MaxTries,  \* OTP_MAX_ATTEMPTS
          MaxCodes   \* bound: codes sent for a row

ASSUME CodeConstants == MaxTries \in Nat \ {0} /\ MaxCodes \in Nat

VARIABLES
  kind,     \* kind[d]: "doc" or "invite"
  state,    \* state[d]: waiting for a code, done (signed or verified), or dead
  code,     \* code[d]: the code of otpHash; 0 when there is none
  tries,    \* tries[d]: otpAttempts
  barred,   \* rows with otpLocked
  sent,     \* sent[d]: codes made for d so far
  doneBy,   \* doneBy[d]: the request that moved a document, with its typed name
  claims,   \* claims[d]: attempts claimed so far
  check     \* check[r]: what request r does next

codeVars == <<kind, state, code, tries, barred, sent, doneBy, claims, check>>

\* A request for row d: with the code the candidate typed, the one the row had when
\* the request read it, and whether the attempt it claimed is the last one.
Check(st, d, typed, saw) ==
  [step |-> st, row |-> d, typed |-> typed, saw |-> saw, last |-> FALSE]
NoCheck == Check("none", None, 0, 0)

CodesTypeOK ==
  /\ kind \in [Rows -> {"doc", "invite"}]
  /\ state \in [Rows -> {"waiting", "done", "dead"}]
  /\ code \in [Rows -> 0..MaxCodes]
  /\ tries \in [Rows -> 0..MaxTries]
  /\ barred \in SUBSET Rows
  /\ sent \in [Rows -> 0..MaxCodes]
  /\ doneBy \in [Rows -> Requests \cup {None}]
  /\ claims \in [Rows -> Nat]
  /\ check \in [Requests -> [step : {"none", "send", "claim", "match", "bar"},
                             row : Rows \cup {None},
                             typed : 0..MaxCodes, saw : 0..MaxCodes, last : BOOLEAN]]

CodesInit ==
  /\ kind \in [Rows -> {"doc", "invite"}]
  /\ state = [d \in Rows |-> "waiting"]
  /\ code = [d \in Rows |-> 0]
  /\ tries = [d \in Rows |-> 0]
  /\ barred = {}
  /\ sent = [d \in Rows |-> 0]
  /\ doneBy = [d \in Rows |-> None]
  /\ claims = [d \in Rows |-> 0]
  /\ check = [r \in Requests |-> NoCheck]

-----------------------------------------------------------------------------
Turns(r, c) == check' = [check EXCEPT ![r] = c]

\* A code may still move the row: a document once, an invite again and again.
MayMove(d) == state[d] = "waiting" \/ (kind[d] = "invite" /\ state[d] = "done")

\* The send route checks the row and its throttle ...
AsksForCode(r, d) ==
  /\ check[r] = NoCheck
  /\ MayMove(d)
  /\ Turns(r, Check("send", d, 0, 0))
  /\ UNCHANGED <<kind, state, code, tries, barred, sent, doneBy, claims>>

\* ... and setOtp() or setDocOtp() writes the new code, without a condition; a lock
\* stays.
SendsCode(r) ==
  LET d == check[r].row IN
  /\ check[r].step = "send"
  /\ sent[d] < MaxCodes
  /\ sent' = [sent EXCEPT ![d] = @ + 1]
  /\ code' = [code EXCEPT ![d] = sent[d] + 1]
  /\ tries' = [tries EXCEPT ![d] = 0]
  /\ Turns(r, NoCheck)
  /\ UNCHANGED <<kind, state, barred, doneBy, claims>>

\* verifyOtp() and acceptDoc() read the row; acceptDoc() wants a pending document.
ReadsRow(r, d, typed) ==
  /\ check[r] = NoCheck
  /\ kind[d] = "doc" => state[d] = "waiting"
  /\ d \notin barred /\ code[d] # 0
  /\ typed \in 0..sent[d]                  \* a guess, or a code that was mailed
  /\ Turns(r, Check("claim", d, typed, code[d]))
  /\ UNCHANGED <<kind, state, code, tries, barred, sent, doneBy, claims>>

\* Mutant: the limit is checked by the read alone.
ClaimsAnyTry(r) ==
  LET d == check[r].row IN
  /\ check[r].step = "claim"
  /\ tries' = [tries EXCEPT ![d] = @ + 1]
  /\ claims' = [claims EXCEPT ![d] = @ + 1]
  /\ Turns(r, [check[r] EXCEPT !.step = "match"])
  /\ UNCHANGED <<kind, state, code, barred, sent, doneBy>>

\* claimOtpAttempt(): an attempt at the code the row has NOW, or the lock.
ClaimsTry(r) ==
  LET d == check[r].row IN
  /\ check[r].step = "claim"
  /\ IF code[d] # 0 /\ tries[d] < MaxTries
       THEN /\ tries' = [tries EXCEPT ![d] = @ + 1]
            /\ claims' = [claims EXCEPT ![d] = @ + 1]
            /\ Turns(r, [check[r] EXCEPT !.step = "match", !.last = tries[d] + 1 = MaxTries])
       ELSE /\ Turns(r, [check[r] EXCEPT !.step = "bar"])
            /\ UNCHANGED <<tries, claims>>
  /\ UNCHANGED <<kind, state, code, barred, sent, doneBy>>

\* Mutant: the row is moved without a condition.
MovesAnyway(r) ==
  LET d == check[r].row IN
  /\ check[r].step = "match" /\ check[r].typed = check[r].saw
  /\ state' = [state EXCEPT ![d] = "done"]
  /\ doneBy' = [doneBy EXCEPT ![d] = r]
  /\ code' = [code EXCEPT ![d] = 0]
  /\ tries' = [tries EXCEPT ![d] = 0]
  /\ Turns(r, NoCheck)
  /\ UNCHANGED <<kind, barred, sent, claims>>

\* The code is the one that was read: the conditional move, which takes the code away.
Moves(r) ==
  LET d == check[r].row IN
  /\ check[r].step = "match" /\ check[r].typed = check[r].saw
  /\ IF MayMove(d)
       THEN /\ state' = [state EXCEPT ![d] = "done"]
            /\ doneBy' = [doneBy EXCEPT ![d] = r]
            /\ code' = [code EXCEPT ![d] = 0]
            /\ tries' = [tries EXCEPT ![d] = 0]
       ELSE UNCHANGED <<state, doneBy, code, tries>>
  /\ Turns(r, NoCheck)
  /\ UNCHANGED <<kind, barred, sent, claims>>

\* It is not: the last attempt locks the row.
Misses(r) ==
  /\ check[r].step = "match" /\ check[r].typed # check[r].saw
  /\ IF check[r].last
       THEN Turns(r, [check[r] EXCEPT !.step = "bar"])
       ELSE Turns(r, NoCheck)
  /\ UNCHANGED <<kind, state, code, tries, barred, sent, doneBy, claims>>

\* The lock is a write of its own, without a condition.
Bars(r) ==
  /\ check[r].step = "bar"
  /\ barred' = barred \cup {check[r].row}
  /\ Turns(r, NoCheck)
  /\ UNCHANGED <<kind, state, code, tries, sent, doneBy, claims>>

CheckDies(r) ==
  /\ check[r] # NoCheck
  /\ Turns(r, NoCheck)
  /\ UNCHANGED <<kind, state, code, tries, barred, sent, doneBy, claims>>

\* revokeDoc() of a pending document; revokeInvite(), a booking or anything else that
\* takes the invite out of reach of its code.
Kills(d) ==
  /\ MayMove(d)
  /\ state' = [state EXCEPT ![d] = "dead"]
  /\ UNCHANGED <<kind, code, tries, barred, sent, doneBy, claims, check>>

CodesNext ==
  \/ \E r \in Requests :
       \/ \E d \in Rows : AsksForCode(r, d) \/ \E typed \in 0..MaxCodes : ReadsRow(r, d, typed)
       \/ SendsCode(r) \/ ClaimsTry(r) \/ Moves(r) \/ Misses(r) \/ Bars(r) \/ CheckDies(r)
  \/ \E d \in Rows : Kills(d)

CodesSpec == CodesInit /\ [][CodesNext]_codeVars

-----------------------------------------------------------------------------
\* All the guesses at a row, from however many requests at once, are bounded by the
\* codes that were made for it ("at most OTP_MAX_ATTEMPTS increments ever succeed",
\* claimOtpAttempt).
GuessesBounded == \A d \in Rows : claims[d] <= MaxTries * sent[d]

\* A signed document keeps the signature it has, and a revoked row is never moved,
\* whatever was under way ("the acceptance record is permanent", revokeDoc).
SignedForGood ==
  [][\A d \in Rows :
       /\ state[d] = "done" /\ kind[d] = "doc" => state'[d] = "done" /\ doneBy'[d] = doneBy[d]
       /\ state[d] = "dead" => state'[d] = "dead"]_codeVars

=============================================================================
