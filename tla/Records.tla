------------------------------ MODULE Records ------------------------------
(* The smaller parts of the system, side by side.  They share no item of a     *)
(* table: a step of one neither reads nor writes what another one keeps, so    *)
(* that their interleavings show nothing that each alone does not.  A behaviour*)
(* is therefore one of a single part, chosen at the start.                     *)
EXTENDS EntSlots, OrgLedger, OneTimeCode, Agreements, Recorder,
        HrCandidate, FreeLabs

VARIABLE part   \* the part that takes the steps

Parts == {"slots", "ledger", "codes", "papers", "recorder", "hr", "free"}

recordsVars == <<part, slotVars, ledgerVars, codeVars, paperVars,
                 recorderVars, hrVars, freeVars>>

RecordsInit ==
  /\ part \in Parts
  /\ SlotsInit /\ LedgerInit /\ CodesInit /\ PapersInit
  /\ RecorderInit /\ HrInit /\ FreeInit
  /\ part # "codes" => kind = [d \in Rows |-> "doc"]

RecordsNext ==
  /\ \/ /\ part = "slots" /\ SlotsNext
        /\ UNCHANGED <<ledgerVars, codeVars, paperVars, recorderVars, hrVars, freeVars>>
     \/ /\ part = "ledger" /\ LedgerNext
        /\ UNCHANGED <<slotVars, codeVars, paperVars, recorderVars, hrVars, freeVars>>
     \/ /\ part = "codes" /\ CodesNext
        /\ UNCHANGED <<slotVars, ledgerVars, paperVars, recorderVars, hrVars, freeVars>>
     \/ /\ part = "papers" /\ PapersNext
        /\ UNCHANGED <<slotVars, ledgerVars, codeVars, recorderVars, hrVars, freeVars>>
     \/ /\ part = "recorder" /\ RecorderNext
        /\ UNCHANGED <<slotVars, ledgerVars, codeVars, paperVars, hrVars, freeVars>>
     \/ /\ part = "hr" /\ HrNext
        /\ UNCHANGED <<slotVars, ledgerVars, codeVars, paperVars, recorderVars, freeVars>>
     \/ /\ part = "free" /\ FreeNext
        /\ UNCHANGED <<slotVars, ledgerVars, codeVars, paperVars, recorderVars, hrVars>>
  /\ UNCHANGED part

RecordsSpec == RecordsInit /\ [][RecordsNext]_recordsVars

\* Every part's state is of the shape its code gives it.
RecordsTypeOK ==
  /\ SlotsTypeOK /\ LedgerTypeOK /\ CodesTypeOK /\ PapersTypeOK
  /\ RecorderTypeOK /\ HrTypeOK /\ FreeTypeOK

=============================================================================
