----------------------------- MODULE Agreements -----------------------------
(* Agreements with an employer: drafted, edited, issued, accepted, replaced or *)
(* voided.  Each transition is one conditional update (engine/entinfra.mjs);   *)
(* an issue reads the text first, and marks the agreement it replaces in a     *)
(* second update that may be lost (engine/ent-handler.mjs).                    *)
EXTENDS EntNames

CONSTANTS Papers,  \* agreement ids, of one employer and one kind of document
          Texts    \* what an agreement can say; the hash of a text is the text

VARIABLES
  paper,     \* paper[p]: status
  text,      \* text[p]: bodyText
  sha,       \* sha[p]: sha256
  replaces,  \* replaces[p]: supersedes
  agreed,    \* agreed[p]: the text that was accepted, None before
  mirror,    \* the agreement whose version the org row shows
  desk       \* desk[r]: what a request does next

paperVars == <<paper, text, sha, replaces, agreed, mirror, desk>>

Sitting(st, p, t) == [step |-> st, paper |-> p, text |-> t]
NoSitting == Sitting("none", None, None)

PapersTypeOK ==
  /\ paper \in [Papers -> {"none", "draft", "issued", "accepted", "superseded", "void"}]
  /\ text \in [Papers -> Texts \cup {None}]
  /\ sha \in [Papers -> Texts \cup {None}]
  /\ replaces \in [Papers -> Papers \cup {None}]
  /\ agreed \in [Papers -> Texts \cup {None}]
  /\ mirror \in Papers \cup {None}
  /\ desk \in [Requests -> [step : {"none", "issue", "supersede", "mirror"},
                            paper : Papers \cup {None}, text : Texts \cup {None}]]

PapersInit ==
  /\ paper = [p \in Papers |-> "none"]
  /\ text = [p \in Papers |-> None]
  /\ sha = [p \in Papers |-> None]
  /\ replaces = [p \in Papers |-> None]
  /\ agreed = [p \in Papers |-> None]
  /\ mirror = None
  /\ desk = [r \in Requests |-> NoSitting]

-----------------------------------------------------------------------------
Sits(r, s) == desk' = [desk EXCEPT ![r] = s]

\* createAgreement(), possibly to replace another one.
Drafts(p, t, old) ==
  /\ paper[p] = "none"
  /\ old \in {None} \cup {q \in Papers \ {p} : paper[q] # "none"}
  /\ paper' = [paper EXCEPT ![p] = "draft"]
  /\ text' = [text EXCEPT ![p] = t]
  /\ sha' = [sha EXCEPT ![p] = t]
  /\ replaces' = [replaces EXCEPT ![p] = old]
  /\ UNCHANGED <<agreed, mirror, desk>>

\* updateAgreementDraft(): text and hash in one update.
Edits(p, t) ==
  /\ paper[p] = "draft"
  /\ text' = [text EXCEPT ![p] = t]
  /\ sha' = [sha EXCEPT ![p] = t]
  /\ UNCHANGED <<paper, replaces, agreed, mirror, desk>>

\* issueAgreement() reads the draft ...
ReadsDraft(r, p) ==
  /\ desk[r] = NoSitting
  /\ paper[p] # "none"
  /\ Sits(r, Sitting("issue", p, text[p]))
  /\ UNCHANGED <<paper, text, sha, replaces, agreed, mirror>>

\* Mutant: whether the draft is still what was read is not asked.
IssuesAnyText(r) ==
  LET p == desk[r].paper IN
  /\ desk[r].step = "issue"
  /\ IF paper[p] = "draft"
       THEN /\ paper' = [paper EXCEPT ![p] = "issued"]
            /\ sha' = [sha EXCEPT ![p] = desk[r].text]
            /\ Sits(r, Sitting("supersede", p, None))
       ELSE UNCHANGED <<paper, sha>> /\ Sits(r, NoSitting)
  /\ UNCHANGED <<text, replaces, agreed, mirror>>

\* ... and issues it if it is still a draft with that text.
Issues(r) ==
  LET p == desk[r].paper IN
  /\ desk[r].step = "issue"
  /\ IF paper[p] = "draft" /\ sha[p] = desk[r].text
       THEN /\ paper' = [paper EXCEPT ![p] = "issued"]
            /\ sha' = [sha EXCEPT ![p] = desk[r].text]
            /\ Sits(r, Sitting("supersede", p, None))
       ELSE UNCHANGED <<paper, sha>> /\ Sits(r, NoSitting)
  /\ UNCHANGED <<text, replaces, agreed, mirror>>

\* markAgreementSuperseded() of the one it replaces; that it fails is only logged.
Supersedes(r) ==
  LET old == replaces[desk[r].paper] IN
  /\ desk[r].step = "supersede"
  /\ \/ /\ old # None /\ paper[old] \in {"accepted", "issued"}
        /\ paper' = [paper EXCEPT ![old] = "superseded"]
     \/ UNCHANGED paper
  /\ Sits(r, NoSitting)
  /\ UNCHANGED <<text, sha, replaces, agreed, mirror>>

\* acceptAgreement()
Accepts(r, p) ==
  /\ desk[r] = NoSitting
  /\ paper[p] = "issued"
  /\ paper' = [paper EXCEPT ![p] = "accepted"]
  /\ agreed' = [agreed EXCEPT ![p] = text[p]]
  /\ Sits(r, Sitting("mirror", p, None))
  /\ UNCHANGED <<text, sha, replaces, mirror>>

\* setOrgAcceptedAgreement(); that it fails is only logged.
Mirrors(r) ==
  /\ desk[r].step = "mirror"
  /\ mirror' \in {mirror, desk[r].paper}
  /\ Sits(r, NoSitting)
  /\ UNCHANGED <<paper, text, sha, replaces, agreed>>

\* voidAgreement()
Voids(p) ==
  /\ paper[p] \in {"draft", "issued"}
  /\ paper' = [paper EXCEPT ![p] = "void"]
  /\ UNCHANGED <<text, sha, replaces, agreed, mirror, desk>>

SittingDies(r) ==
  /\ desk[r] # NoSitting
  /\ Sits(r, NoSitting)
  /\ UNCHANGED <<paper, text, sha, replaces, agreed, mirror>>

PapersNext ==
  \/ \E p \in Papers :
       \/ \E t \in Texts : Edits(p, t) \/ \E old \in Papers \cup {None} : Drafts(p, t, old)
       \/ Voids(p)
       \/ \E r \in Requests : ReadsDraft(r, p) \/ Accepts(r, p)
  \/ \E r \in Requests : Issues(r) \/ Supersedes(r) \/ Mirrors(r) \/ SittingDies(r)

PapersSpec == PapersInit /\ [][PapersNext]_paperVars

-----------------------------------------------------------------------------
\* The stored hash is the hash of the stored text, also when an edit comes between the
\* read and the write of an issue; and what was accepted is what the row says for ever,
\* taken back by nothing but an agreement that replaces it ("an accepted agreement's
\* stored hash always matches the exact text the org accepted", issueAgreement).
AcceptedForGood ==
  \A p \in Papers :
    /\ sha[p] = text[p]
    /\ agreed[p] # None =>
         text[p] = agreed[p] /\ paper[p] \in {"accepted", "superseded"}

=============================================================================
